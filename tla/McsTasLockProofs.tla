-------------------------- MODULE McsTasLockProofs --------------------------
(***************************************************************************)
(* Mutual exclusion of the default backend, and its implementation of the  *)
(* abstract mutex, for any number of threads and locks.  Neither depends   *)
(* on the queue: whatever the MCS part does, the flag alone excludes.  The *)
(* queue, its shape and its order follow at the end.                       *)
(***************************************************************************)
EXTENDS McsTasLockRefinement, SequenceTheorems, FiniteSetTheorems, TLAPS

\* Every variable keeps its type, and the pointers followed by a handoff
\* (pred when linking, succ when waking) are never null.
THEOREM TypeCorrect == Spec => []TypeOK
<1> USE DEF TypeOK, Labels
<1>1. Init => TypeOK
  BY DEF Init, Words
<1>2. TypeOK /\ [Next]_vars => TypeOK'
  <2> SUFFICES ASSUME TypeOK, [Next]_vars
               PROVE  TypeOK'
    OBVIOUS
  <2> USE ConstantsAssumption DEF Goto, lockVars
  <2>1. ASSUME NEW t \in Threads, NEW l \in Locks, CallLock(t, l)
        PROVE  TypeOK'
    BY <2>1 DEF CallLock
  <2>2. ASSUME NEW t \in Threads, NEW l \in Locks, CallTrylock(t, l)
        PROVE  TypeOK'
    BY <2>2 DEF CallTrylock
  <2>3. ASSUME NEW t \in Threads, NEW from \in {"try", "trylock"}, try_lock_fast(t, from)
        PROVE  TypeOK'
    BY <2>3 DEF try_lock_fast, TakeFlag
  <2>4. ASSUME NEW t \in Threads, FastPathFails(t)
        PROVE  TypeOK'
    BY <2>4 DEF FastPathFails
  <2>5. ASSUME NEW t \in Threads, TrylockFails(t)
        PROVE  TypeOK'
    BY <2>5 DEF TrylockFails
  <2>6. ASSUME NEW t \in Threads, AdapterLock(t)
        PROVE  TypeOK'
    BY <2>6 DEF AdapterLock, mark_slow_path_pending, DisabledWord, Words, WordBits
  <2>7. ASSUME NEW t \in Threads, SwapTail(t)
        PROVE  TypeOK'
    BY <2>7 DEF SwapTail
  <2>8. ASSUME NEW t \in Threads, ArmWaiting(t)
        PROVE  TypeOK'
    BY <2>8 DEF ArmWaiting
  <2>9. ASSUME NEW t \in Threads, LinkPred(t)
        PROVE  TypeOK'
    BY <2>9 DEF LinkPred
  <2>10. ASSUME NEW t \in Threads, SpinWaiting(t)
         PROVE  TypeOK'
    BY <2>10 DEF SpinWaiting
  <2>11. ASSUME NEW t \in Threads, FrontSpin(t)
         PROVE  TypeOK'
    BY <2>11 DEF FrontSpin, TakeFlag
  <2>12. ASSUME NEW t \in Threads, ReadNext(t)
         PROVE  TypeOK'
    BY <2>12 DEF ReadNext
  <2>13. ASSUME NEW t \in Threads, Unqueue(t)
         PROVE  TypeOK'
    BY <2>13 DEF Unqueue
  <2>14. ASSUME NEW t \in Threads, UnqueueFails(t)
         PROVE  TypeOK'
    BY <2>14 DEF UnqueueFails
  <2>15. ASSUME NEW t \in Threads, AwaitNext(t)
         PROVE  TypeOK'
    BY <2>15 DEF AwaitNext
  <2>16. ASSUME NEW t \in Threads, WakeSuccessor(t)
         PROVE  TypeOK'
    BY <2>16 DEF WakeSuccessor
  <2>17. ASSUME NEW t \in Threads, MarkEntered(t)
         PROVE  TypeOK'
    BY <2>17 DEF MarkEntered, mark_critical_section_entered, DisabledWord, Words, WordBits
  <2>18. ASSUME NEW t \in Threads, NEW l \in Locks, unlock_fast(t, l)
         PROVE  TypeOK'
    BY <2>18 DEF unlock_fast
  <2>19. ASSUME NEW t \in Threads, AdapterUnlock(t)
         PROVE  TypeOK'
    BY <2>19 DEF AdapterUnlock, mark_critical_section_exit, DisabledWord, Words, WordBits
  <2>20. CASE UNCHANGED vars
    BY <2>20 DEF vars
  <2>21. QED
    BY <2>1, <2>2, <2>3, <2>4, <2>5, <2>6, <2>7, <2>8, <2>9, <2>10, <2>11, <2>12,
       <2>13, <2>14, <2>15, <2>16, <2>17, <2>18, <2>19, <2>20 DEF Next, Call, Step
<1>3. QED
  BY <1>1, <1>2, PTL DEF Spec

\* No two threads hold one lock, and its flag is set exactly while it has a
\* holder: the barging CAS and the front's swap both take a clear flag, and
\* only the holder's unlock clears it.
THEOREM MutualExclusionHolds == Spec => []MutualExclusion
<1> USE DEF MutualExclusion
<1>1. Init => MutualExclusion
  BY DEF Init
<1>2. TypeOK /\ MutualExclusion /\ [Next]_vars => MutualExclusion'
  <2> SUFFICES ASSUME TypeOK, MutualExclusion, [Next]_vars
               PROVE  MutualExclusion'
    OBVIOUS
  <2> USE DEF TypeOK, Goto, TakeFlag
  <2>1. ASSUME NEW t \in Threads, NEW from \in {"try", "trylock"}, try_lock_fast(t, from)
        PROVE  MutualExclusion'
    <3>1. target[t] \in Locks
      BY <2>1 DEF try_lock_fast, Labels
    <3>2. QED
      BY <2>1, <3>1 DEF try_lock_fast
  <2>2. ASSUME NEW t \in Threads, FrontSpin(t)
        PROVE  MutualExclusion'
    <3>1. target[t] \in Locks
      BY <2>2 DEF FrontSpin, Labels
    <3>2. QED
      BY <2>2, <3>1 DEF FrontSpin
  <2>3. ASSUME NEW t \in Threads, NEW l \in Locks, unlock_fast(t, l)
        PROVE  MutualExclusion'
    <3>1. \A u \in Threads : u # t => l \notin held[u]
      BY <2>3 DEF unlock_fast
    <3>2. QED
      BY <2>3, <3>1 DEF unlock_fast
  <2>4. CASE UNCHANGED <<held, locked>>
    BY <2>4
  <2>5. QED
    BY <2>1, <2>2, <2>3, <2>4
    DEF Next, Call, Step, vars, lockVars, CallLock, CallTrylock, FastPathFails,
        TrylockFails, AdapterLock, SwapTail, ArmWaiting, LinkPred, SpinWaiting,
        ReadNext, Unqueue, UnqueueFails, AwaitNext, WakeSuccessor, MarkEntered,
        AdapterUnlock
<1>3. QED
  BY <1>1, <1>2, TypeCorrect, PTL DEF Spec

\* Every step of the backend is a step of the abstract mutex or leaves its
\* variables unchanged: a blocking call requests, the flag grants.
THEOREM MutexRefinement == Spec => ImplementsMutex
<1>1. Init => Mutex!Init
  BY DEF Init, Mutex!Init, Requests, RequestLabels
<1>2. TypeOK /\ MutualExclusion /\ [Next]_vars => [Mutex!Next]_(Mutex!vars)
  <2> SUFFICES ASSUME TypeOK, MutualExclusion, [Next]_vars
               PROVE  [Mutex!Next]_(Mutex!vars)
    OBVIOUS
  <2> USE ConstantsAssumption DEF Mutex!vars
  <2>1. ASSUME NEW t \in Threads, NEW l \in Locks, CallLock(t, l)
        PROVE  Mutex!Request(t, l)
    <3>1. l \notin held[t]
      BY <2>1 DEF CallLock
    <3>2. Requests[t] = None /\ Requests' = [Requests EXCEPT ![t] = l]
      BY <2>1 DEF CallLock, Goto, Requests, RequestLabels, TypeOK
    <3>3. QED
      BY <2>1, <3>1, <3>2 DEF CallLock, Mutex!Request
  <2>2. ASSUME NEW t \in Threads, try_lock_fast(t, "try")
        PROVE  Mutex!Acquire(t, target[t])
    <3>1. target[t] \in Locks /\ Mutex!Free(target[t])
      BY <2>2 DEF try_lock_fast, Goto, TypeOK, Labels, MutualExclusion, Mutex!Free
    <3>2. Requests[t] = target[t] /\ Requests' = [Requests EXCEPT ![t] = None]
      BY <2>2 DEF try_lock_fast, Goto, Requests, RequestLabels, TypeOK
    <3>3. QED
      BY <2>2, <3>1, <3>2 DEF try_lock_fast, TakeFlag, Mutex!Acquire
  <2>3. ASSUME NEW t \in Threads, try_lock_fast(t, "trylock")
        PROVE  Mutex!TryAcquire(t, target[t])
    <3>1. target[t] \in Locks /\ Mutex!Free(target[t])
      BY <2>3 DEF try_lock_fast, Goto, TypeOK, Labels, MutualExclusion, Mutex!Free
    <3>2. Requests[t] = None /\ Requests' = Requests
      BY <2>3 DEF try_lock_fast, Goto, Requests, RequestLabels, TypeOK
    <3>3. QED
      BY <2>3, <3>1, <3>2 DEF try_lock_fast, TakeFlag, Mutex!TryAcquire
  <2>4. ASSUME NEW t \in Threads, FrontSpin(t)
        PROVE  Mutex!Acquire(t, target[t])
    <3>1. target[t] \in Locks /\ Mutex!Free(target[t])
      BY <2>4 DEF FrontSpin, Goto, TypeOK, Labels, MutualExclusion, Mutex!Free
    <3>2. Requests[t] = target[t] /\ Requests' = [Requests EXCEPT ![t] = None]
      BY <2>4 DEF FrontSpin, Goto, Requests, RequestLabels, TypeOK
    <3>3. QED
      BY <2>4, <3>1, <3>2 DEF FrontSpin, TakeFlag, Mutex!Acquire
  <2>5. ASSUME NEW t \in Threads, NEW l \in Locks, unlock_fast(t, l)
        PROVE  Mutex!Release(t, l)
    <3>1. Requests[t] = None /\ Requests' = Requests
      BY <2>5 DEF unlock_fast, Goto, Requests, RequestLabels, TypeOK
    <3>2. QED
      BY <2>5, <3>1 DEF unlock_fast, Mutex!Release
  <2>6. ASSUME NEW t \in Threads, NEW l \in Locks, CallTrylock(t, l)
        PROVE  UNCHANGED Mutex!vars
    BY <2>6 DEF CallTrylock, Goto, Requests, RequestLabels, TypeOK
  <2>7. ASSUME NEW t \in Threads,
               \/ FastPathFails(t) \/ TrylockFails(t) \/ AdapterLock(t) \/ SwapTail(t)
               \/ ArmWaiting(t) \/ LinkPred(t) \/ SpinWaiting(t)
        PROVE  UNCHANGED Mutex!vars
    BY <2>7 DEF FastPathFails, TrylockFails, AdapterLock, SwapTail, ArmWaiting,
                LinkPred, SpinWaiting, Goto, Requests, RequestLabels, TypeOK
  <2>8. ASSUME NEW t \in Threads,
               \/ ReadNext(t) \/ Unqueue(t) \/ UnqueueFails(t) \/ AwaitNext(t)
               \/ WakeSuccessor(t) \/ MarkEntered(t) \/ AdapterUnlock(t)
        PROVE  UNCHANGED Mutex!vars
    BY <2>8 DEF ReadNext, Unqueue, UnqueueFails, AwaitNext, WakeSuccessor,
                MarkEntered, AdapterUnlock, Goto, Requests, RequestLabels, TypeOK
  <2>9. CASE UNCHANGED vars
    BY <2>9 DEF vars, Requests
  <2>10. ASSUME NEW t \in Threads, Call(t) \/ Step(t)
         PROVE  [Mutex!Next]_(Mutex!vars)
    <3>1. target[t] \in Locks \/ ~(try_lock_fast(t, "try") \/ try_lock_fast(t, "trylock") \/ FrontSpin(t))
      BY DEF TypeOK, Labels, try_lock_fast, FrontSpin, Goto
    <3>2. QED
      BY <2>1, <2>2, <2>3, <2>4, <2>5, <2>6, <2>7, <2>8, <2>10, <3>1
      DEF Call, Step, Mutex!Next
  <2>11. QED
    BY <2>9, <2>10 DEF Next
<1>3. QED
  BY <1>1, <1>2, TypeCorrect, MutualExclusionHolds, PTL DEF Spec, ImplementsMutex, Mutex!Spec

----------------------------------------------------------------------------
(* The admission word of callers that hold one lock at a time.             *)

Requesting == {"try", "trylock", "mark_pending", "swap", "arm", "link", "spin", "front"}
Obtained   == {"read_next", "unqueue", "await_next", "wake", "mark_entered"}

\* The word, step by step: it is marked after the lock is obtained and
\* cleared after it is released, and pending only on the slow path.
WordInv ==
    \A t \in Threads :
        /\ pc[t] \in Requesting \cup {"mark_exit"} => held[t] = {}
        /\ pc[t] \in Obtained => held[t] = {target[t]}
        /\ pc[t] = "idle" => held[t] = {} \/ \E l \in Locks : held[t] = {l}
        /\ pc[t] \in Requesting => IN_CRITICAL_SECTION \notin word[t]
        /\ pc[t] \in {"idle", "try", "trylock", "mark_pending", "mark_exit"} =>
                SLOW_PATH_PENDING \notin word[t]
        /\ pc[t] = "idle" /\ held[t] = {} => IN_CRITICAL_SECTION \notin word[t]
        /\ pc[t] = "idle" /\ held[t] # {} /\ AdmissionEnabled => IN_CRITICAL_SECTION \in word[t]

\* With one lock at a time the word says, between calls, exactly whether its
\* thread is in a critical section.
THEOREM WordIsTrue ==
  ASSUME MaxHeld = 1
  PROVE  Spec => []WordTellsCriticalSection
<1>1. Init => WordInv
  BY DEF Init, WordInv, Requesting, Obtained
<1>2. TypeOK /\ WordInv /\ [Next]_vars => WordInv'
  <2> SUFFICES ASSUME TypeOK, WordInv, [Next]_vars
               PROVE  WordInv'
    OBVIOUS
  <2> USE DEF TypeOK, WordInv, Goto, Requesting, Obtained
  <2>1. ASSUME NEW t \in Threads, NEW l \in Locks, CallLock(t, l) \/ CallTrylock(t, l)
        PROVE  WordInv'
    <3>1. pc[t] = "idle" /\ Cardinality(held[t]) < 1
      BY <2>1 DEF CallLock, CallTrylock
    <3>2. held[t] = {}
      <4>1. \A l1 \in Locks : Cardinality({l1}) = 1
        BY FS_Singleton
      <4>2. held[t] = {} \/ \E l1 \in Locks : held[t] = {l1}
        BY <3>1
      <4>3. QED
        BY <3>1, <4>1, <4>2
    <3>3. QED
      BY <2>1, <3>2 DEF CallLock, CallTrylock
  <2>2. ASSUME NEW t \in Threads,
               try_lock_fast(t, "try") \/ try_lock_fast(t, "trylock") \/ FrontSpin(t)
        PROVE  WordInv'
    <3>1. held'[t] = {target[t]} /\ pc'[t] \in Obtained
      BY <2>2 DEF try_lock_fast, FrontSpin, TakeFlag
    <3>2. QED
      BY <2>2, <3>1 DEF try_lock_fast, FrontSpin, TakeFlag
  <2>3. ASSUME NEW t \in Threads, FastPathFails(t) \/ TrylockFails(t)
        PROVE  WordInv'
    BY <2>3 DEF FastPathFails, TrylockFails
  <2>4. ASSUME NEW t \in Threads, AdapterLock(t)
        PROVE  WordInv'
    <3>1. IN_CRITICAL_SECTION \notin word'[t]
      BY <2>4 DEF AdapterLock, mark_slow_path_pending, DisabledWord, IN_CRITICAL_SECTION,
                  SLOW_PATH_PENDING, SLOW_PATH_SEEN
    <3>2. QED
      BY <2>4, <3>1 DEF AdapterLock
  <2>5. ASSUME NEW t \in Threads,
               SwapTail(t) \/ ArmWaiting(t) \/ LinkPred(t) \/ SpinWaiting(t)
        PROVE  WordInv'
    <3>1. /\ pc[t] \in Requesting /\ pc'[t] \in Requesting \ {"try", "trylock", "mark_pending"}
          /\ \A u \in Threads : u # t => pc'[u] = pc[u]
      BY <2>5 DEF SwapTail, ArmWaiting, LinkPred, SpinWaiting
    <3>2. UNCHANGED <<held, word, target>>
      BY <2>5 DEF SwapTail, ArmWaiting, LinkPred, SpinWaiting
    <3>3. QED
      BY <3>1, <3>2
  <2>6. ASSUME NEW t \in Threads,
               \/ ReadNext(t) \/ Unqueue(t) \/ UnqueueFails(t)
               \/ AwaitNext(t) \/ WakeSuccessor(t)
        PROVE  WordInv'
    <3>1. /\ pc[t] \in Obtained /\ pc'[t] \in Obtained
          /\ \A u \in Threads : u # t => pc'[u] = pc[u]
      BY <2>6 DEF ReadNext, Unqueue, UnqueueFails, AwaitNext, WakeSuccessor
    <3>2. UNCHANGED <<held, word, target>>
      BY <2>6 DEF ReadNext, Unqueue, UnqueueFails, AwaitNext, WakeSuccessor
    <3>3. QED
      BY <3>1, <3>2
  <2>7. ASSUME NEW t \in Threads, MarkEntered(t)
        PROVE  WordInv'
    <3>1. /\ SLOW_PATH_PENDING \notin word'[t]
          /\ AdmissionEnabled => IN_CRITICAL_SECTION \in word'[t]
      BY <2>7 DEF MarkEntered, mark_critical_section_entered, DisabledWord, IN_CRITICAL_SECTION,
                  SLOW_PATH_PENDING, SLOW_PATH_SEEN
    <3>2. held[t] = {target[t]} /\ target[t] \in Locks
      BY <2>7 DEF MarkEntered, Labels
    <3>3. QED
      BY <2>7, <3>1, <3>2 DEF MarkEntered
  <2>8. ASSUME NEW t \in Threads, NEW l \in Locks, unlock_fast(t, l)
        PROVE  WordInv'
    <3>1. held'[t] = {} /\ SLOW_PATH_PENDING \notin word[t]
      BY <2>8 DEF unlock_fast
    <3>2. QED
      BY <2>8, <3>1 DEF unlock_fast
  <2>9. ASSUME NEW t \in Threads, AdapterUnlock(t)
        PROVE  WordInv'
    <3>1. SLOW_PATH_PENDING \notin word'[t] /\ IN_CRITICAL_SECTION \notin word'[t]
      BY <2>9 DEF AdapterUnlock, mark_critical_section_exit, DisabledWord, IN_CRITICAL_SECTION,
                  SLOW_PATH_PENDING, SLOW_PATH_SEEN
    <3>2. QED
      BY <2>9, <3>1 DEF AdapterUnlock
  <2>10. CASE UNCHANGED vars
    BY <2>10 DEF vars
  <2>11. QED
    BY <2>1, <2>2, <2>3, <2>4, <2>5, <2>6, <2>7, <2>8, <2>9, <2>10 DEF Next, Call, Step
<1>3. WordInv => WordTellsCriticalSection
  BY DEF WordInv, WordTellsCriticalSection, HolderMarked
<1>4. QED
  BY <1>1, <1>2, <1>3, TypeCorrect, PTL DEF Spec

----------------------------------------------------------------------------
(***************************************************************************)
(* The queue of the default backend has the promised shape, and serves its *)
(* slow path in the order of the swaps, for any number of threads and      *)
(* locks.  QueueShape is not inductive by itself: a link writes through    *)
(* pred and a handoff through succ, so the invariant also says which       *)
(* threads these pointers name, that a thread is queued exactly while its  *)
(* call is between swap and handoff, and that it is queued once.           *)
(***************************************************************************)

QueuedLabels == {"arm", "link", "spin"} \cup FrontLabels

Positions(l) == 1..Len(queue[l])

\* Queues hold threads whose call is for the lock and under way in the queue.
MembersQueued ==
    /\ queue \in [Locks -> Seq(Threads)]
    /\ \A l \in Locks : \A i \in Positions(l) :
        target[queue[l][i]] = l /\ pc[queue[l][i]] \in QueuedLabels

QueuedAreMembers ==
    \A t \in Threads : pc[t] \in QueuedLabels =>
        \E i \in Positions(target[t]) : queue[target[t]][i] = t

QueuedOnce ==
    \A l \in Locks : \A i, j \in Positions(l) : queue[l][i] = queue[l][j] => i = j

TailIsLast ==
    \A l \in Locks : tail[l] = IF Len(queue[l]) = 0 THEN None ELSE queue[l][Len(queue[l])]

NextIsLinked ==
    \A l \in Locks : \A i \in Positions(l) :
        next[queue[l][i]] = IF i < Len(queue[l]) /\ pc[queue[l][i + 1]] \notin {"arm", "link"}
                            THEN queue[l][i + 1] ELSE None

\* Only the first is at the front, or told to go there.
HeadAt(l, i) ==
    /\ i = 1 => \/ pc[queue[l][i]] \in FrontLabels
                \/ pc[queue[l][i]] = "spin" /\ ~waiting[queue[l][i]]
    /\ i > 1 => \/ pc[queue[l][i]] \in {"link", "spin"} /\ waiting[queue[l][i]]
                \/ pc[queue[l][i]] = "arm"

HeadIsFront == \A l \in Locks : \A i \in Positions(l) : HeadAt(l, i)

PredIsBefore ==
    \A l \in Locks : \A i \in Positions(l) :
        pc[queue[l][i]] \in {"arm", "link"} => i > 1 /\ pred[queue[l][i]] = queue[l][i - 1]

SuccIsNext == \A t \in Threads : pc[t] = "wake" => succ[t] = next[t]

QInv ==
    /\ TypeOK
    /\ MembersQueued /\ QueuedAreMembers /\ QueuedOnce
    /\ TailIsLast /\ NextIsLinked /\ HeadIsFront
    /\ PredIsBefore /\ SuccIsNext

----------------------------------------------------------------------------
\* A step of a thread that is in no queue before or after it.
LEMMA OutsideStep ==
  ASSUME QInv, TypeOK', NEW t \in Threads,
         pc[t] \notin QueuedLabels, pc'[t] \notin QueuedLabels,
         \A u \in Threads : u # t => pc'[u] = pc[u] /\ target'[u] = target[u],
         UNCHANGED <<queue, tail, next, waiting, pred, succ>>
  PROVE  QInv'
<1> USE DEF QInv, Positions
<1>1. \A l \in Locks : \A i \in Positions(l) :
        /\ queue[l][i] \in Threads /\ queue[l][i] # t
        /\ pc'[queue[l][i]] = pc[queue[l][i]] /\ target'[queue[l][i]] = target[queue[l][i]]
  BY DEF MembersQueued
<1>2. MembersQueued'
  BY <1>1 DEF MembersQueued
<1>3. QueuedAreMembers'
  BY DEF QueuedAreMembers
<1>4. QueuedOnce' /\ TailIsLast'
  BY DEF QueuedOnce, TailIsLast
<1>5. NextIsLinked'
  <2> SUFFICES ASSUME NEW l \in Locks, NEW i \in Positions(l)
               PROVE  next[queue[l][i]] =
                        IF i < Len(queue[l]) /\ pc'[queue[l][i + 1]] \notin {"arm", "link"}
                        THEN queue[l][i + 1] ELSE None
    BY DEF NextIsLinked
  <2>1. queue[l] \in Seq(Threads)
    BY DEF MembersQueued
  <2>2. i < Len(queue[l]) => pc'[queue[l][i + 1]] = pc[queue[l][i + 1]]
    BY <1>1, <2>1
  <2>3. QED
    BY <2>2 DEF NextIsLinked
<1>6. HeadIsFront'
  BY <1>1 DEF HeadIsFront, HeadAt
<1>7. PredIsBefore'
  BY <1>1 DEF PredIsBefore
<1>8. SuccIsNext'
  BY DEF SuccIsNext, QueuedLabels, FrontLabels
<1>9. QED
  BY <1>2, <1>3, <1>4, <1>5, <1>6, <1>7, <1>8

\* A step of a queue's front from one of its labels to another.
LEMMA FrontStep ==
  ASSUME QInv, TypeOK', NEW t \in Threads,
         pc[t] \in FrontLabels, pc'[t] \in FrontLabels,
         \A u \in Threads : u # t => pc'[u] = pc[u] /\ succ'[u] = succ[u],
         pc'[t] = "wake" => succ'[t] = next[t],
         UNCHANGED <<queue, tail, next, waiting, pred, target>>
  PROVE  QInv'
<1> USE DEF QInv, Positions
<1>1. \A l \in Locks : \A i \in Positions(l) :
        /\ queue[l][i] \in Threads
        /\ queue[l][i] = t => pc[queue[l][i]] \in FrontLabels /\ pc'[queue[l][i]] \in FrontLabels
        /\ queue[l][i] # t => pc'[queue[l][i]] = pc[queue[l][i]]
  BY DEF MembersQueued
<1>2. MembersQueued' /\ QueuedAreMembers'
  BY <1>1 DEF MembersQueued, QueuedAreMembers, QueuedLabels
<1>3. QueuedOnce' /\ TailIsLast'
  BY DEF QueuedOnce, TailIsLast
<1>4. NextIsLinked'
  <2> SUFFICES ASSUME NEW l \in Locks, NEW i \in Positions(l)
               PROVE  next[queue[l][i]] =
                        IF i < Len(queue[l]) /\ pc'[queue[l][i + 1]] \notin {"arm", "link"}
                        THEN queue[l][i + 1] ELSE None
    BY DEF NextIsLinked
  <2>1. queue[l] \in Seq(Threads)
    BY DEF MembersQueued
  <2>2. i < Len(queue[l]) =>
          (pc'[queue[l][i + 1]] \in {"arm", "link"} <=> pc[queue[l][i + 1]] \in {"arm", "link"})
    BY <1>1, <2>1 DEF FrontLabels
  <2>3. QED
    BY <2>2 DEF NextIsLinked
<1>5. HeadIsFront'
  BY <1>1 DEF HeadIsFront, HeadAt, FrontLabels
<1>6. PredIsBefore'
  BY <1>1 DEF PredIsBefore, FrontLabels
<1>7. SuccIsNext'
  BY DEF SuccIsNext
<1>8. QED
  BY <1>2, <1>3, <1>4, <1>5, <1>6, <1>7

\* A thread past waiting is the head of its lock's queue.
LEMMA FrontIsHead ==
  ASSUME QInv, NEW t \in Threads, pc[t] \in FrontLabels
  PROVE  /\ target[t] \in Locks /\ Len(queue[target[t]]) \in Nat \ {0}
         /\ queue[target[t]][1] = t
<1> USE DEF QInv
<1>1. target[t] \in Locks
  BY DEF TypeOK, FrontLabels, Labels
<1>2. PICK i \in Positions(target[t]) : queue[target[t]][i] = t
  BY DEF QueuedAreMembers, QueuedLabels
<1>3. queue[target[t]] \in Seq(Threads)
  BY <1>1 DEF MembersQueued
<1>4. i = 1
  BY <1>1, <1>2, <1>3 DEF HeadIsFront, HeadAt, FrontLabels, Positions
<1>5. QED
  BY <1>1, <1>2, <1>3, <1>4 DEF Positions

\* The swap appends the thread; it waits unless the queue was empty.
LEMMA SwapTailStep ==
  ASSUME QInv, TypeOK', NEW t \in Threads, SwapTail(t),
         NEW l \in Locks, l = target[t], NEW n \in Nat, n = Len(queue[l])
  PROVE  QInv'
<1> USE ConstantsAssumption DEF QInv, Positions
<1>1. pc[t] = "swap" /\ UNCHANGED <<target, succ>>
  BY DEF SwapTail, Goto
<1>2. \A k \in Locks : queue[k] \in Seq(Threads)
  BY DEF MembersQueued
<1>3. \A k \in Locks : \A i \in Positions(k) : queue[k][i] \in Threads \ {t}
  BY <1>1, <1>2 DEF MembersQueued, QueuedLabels, FrontLabels
<1>4. \A k \in Locks : k # l => queue'[k] = queue[k]
  BY DEF SwapTail, MembersQueued
<1>5. queue'[l] = Append(queue[l], t)
  BY DEF SwapTail, MembersQueued
<1>6. /\ Len(queue'[l]) = n + 1
      /\ queue'[l][n + 1] = t /\ \A i \in 1..n : queue'[l][i] = queue[l][i]
  BY <1>2, <1>5
<1>7. tail[l] = None <=> n = 0
  BY <1>2, <1>3 DEF TailIsLast
<1>8. /\ pc'[t] = IF n = 0 THEN "front" ELSE "arm"
      /\ next'[t] = None /\ ~waiting'[t] /\ pred'[t] = tail[l]
      /\ \A k \in Locks : tail'[k] = IF k = l THEN t ELSE tail[k]
      /\ \A u \in Threads \ {t} : /\ pc'[u] = pc[u] /\ next'[u] = next[u]
                                  /\ waiting'[u] = waiting[u] /\ pred'[u] = pred[u]
  BY <1>7 DEF SwapTail, Goto, TypeOK
<1>9. MembersQueued'
  <2>1. queue' \in [Locks -> Seq(Threads)]
    BY <1>2 DEF SwapTail, MembersQueued
  <2>2. ASSUME NEW k \in Locks, NEW i \in Positions(k)'
        PROVE  target'[queue'[k][i]] = k /\ pc'[queue'[k][i]] \in QueuedLabels
    <3>1. CASE k = l /\ i = n + 1
      BY <3>1, <1>1, <1>6, <1>8 DEF QueuedLabels, FrontLabels
    <3>2. CASE k # l \/ i # n + 1
      <4>1. i \in Positions(k) /\ queue'[k][i] = queue[k][i]
        BY <2>2, <3>2, <1>4, <1>6
      <4>2. QED
        BY <4>1, <1>1, <1>3, <1>8 DEF MembersQueued
    <3>3. QED
      BY <3>1, <3>2
  <2>3. QED
    BY <2>1, <2>2 DEF MembersQueued
<1>10. QueuedAreMembers'
  <2> SUFFICES ASSUME NEW u \in Threads, pc'[u] \in QueuedLabels
               PROVE  \E i \in 1..Len(queue'[target'[u]]) : queue'[target'[u]][i] = u
    BY DEF QueuedAreMembers
  <2>1. CASE u = t
    <3>1. n + 1 \in 1..Len(queue'[l])
      BY <1>6
    <3>2. QED
      BY <2>1, <1>1, <1>6, <3>1
  <2>2. CASE u # t
    <3>1. PICK i \in Positions(target[u]) : queue[target[u]][i] = u
      BY <2>2, <1>8 DEF QueuedAreMembers
    <3>2. target[u] \in Locks
      BY <2>2, <1>8 DEF TypeOK, Labels, QueuedLabels, FrontLabels
    <3>3. CASE target[u] = l
      <4>1. i \in 1..n /\ i \in 1..(n + 1) /\ queue[l][i] = u
        BY <3>1, <3>3
      <4>2. i \in 1..Len(queue'[l]) /\ queue'[l][i] = u
        BY <4>1, <1>6
      <4>3. QED
        BY <4>2, <3>3, <1>1
    <3>4. CASE target[u] # l
      <4>1. queue'[target[u]] = queue[target[u]]
        BY <3>2, <3>4, <1>4
      <4>2. QED
        BY <4>1, <3>1, <1>1
    <3>5. QED
      BY <3>3, <3>4
  <2>3. QED
    BY <2>1, <2>2
<1>11. QueuedOnce'
  <2> SUFFICES ASSUME NEW k \in Locks, NEW i \in Positions(k)', NEW j \in Positions(k)',
                      queue'[k][i] = queue'[k][j]
               PROVE  i = j
    BY DEF QueuedOnce
  <2>1. CASE k = l
    <3>1. /\ i \in 1..n \/ i = n + 1
          /\ j \in 1..n \/ j = n + 1
      BY <2>1, <1>6
    <3>2. \A m \in 1..n : queue'[l][m] = queue[l][m] /\ queue[l][m] # t
      BY <1>3, <1>6
    <3>3. queue'[l][i] = queue'[l][j]
      BY <2>1
    <3>4. CASE i \in 1..n /\ j \in 1..n
      BY <3>2, <3>3, <3>4 DEF QueuedOnce
    <3>5. queue'[l][n + 1] = t /\ \A m \in 1..n : queue'[l][m] # t
      BY <3>2, <1>6
    <3>6. CASE i = n + 1
      BY <3>1, <3>3, <3>5, <3>6
    <3>7. CASE j = n + 1
      BY <3>1, <3>3, <3>5, <3>7
    <3>8. QED
      BY <3>1, <3>4, <3>6, <3>7
  <2>2. CASE k # l
    BY <2>2, <1>4 DEF QueuedOnce
  <2>3. QED
    BY <2>1, <2>2
<1>12. TailIsLast'
  BY <1>4, <1>6, <1>8 DEF TailIsLast
<1>13. NextIsLinked'
  <2> SUFFICES ASSUME NEW k \in Locks, NEW i \in Positions(k)'
               PROVE  next'[queue'[k][i]] =
                        IF i < Len(queue'[k]) /\ pc'[queue'[k][i + 1]] \notin {"arm", "link"}
                        THEN queue'[k][i + 1] ELSE None
    BY DEF NextIsLinked
  <2>1. CASE k = l /\ i = n + 1
    BY <2>1, <1>6, <1>8
  <2>2. CASE k = l /\ i = n
    <3>1. next[queue[l][n]] = None /\ queue[l][n] \in Threads \ {t} /\ n # 0
      BY <2>2, <1>3 DEF NextIsLinked
    <3>2. n \in 1..n /\ queue'[l][n] = queue[l][n]
      BY <3>1, <1>6
    <3>3. pc'[queue'[l][n + 1]] = "arm"
      BY <3>1, <1>6, <1>8
    <3>4. next'[queue[l][n]] = next[queue[l][n]]
      BY <3>1, <1>8
    <3>5. QED
      BY <2>2, <3>1, <3>2, <3>3, <3>4
  <2>3. CASE k # l \/ i < n
    <3>1. i \in Positions(k) /\ queue'[k][i] = queue[k][i]
          /\ (i < Len(queue[k]) <=> i < Len(queue'[k]))
      <4>1. CASE k # l
        BY <4>1, <1>4
      <4>2. CASE k = l /\ i < n
        BY <4>2, <1>6
      <4>3. QED
        BY <2>3, <4>1, <4>2
    <3>2. i < Len(queue[k]) => i + 1 \in Positions(k) /\ queue'[k][i + 1] = queue[k][i + 1]
      <4>1. CASE k # l
        BY <4>1, <3>1, <1>2, <1>4
      <4>2. CASE k = l /\ i < n
        BY <4>2, <3>1, <1>6
      <4>3. QED
        BY <2>3, <4>1, <4>2
    <3>3. next'[queue[k][i]] = next[queue[k][i]]
      BY <3>1, <1>3, <1>8
    <3>4. i < Len(queue[k]) => pc'[queue[k][i + 1]] = pc[queue[k][i + 1]]
      BY <3>2, <1>3, <1>8
    <3>5. next[queue[k][i]] = IF i < Len(queue[k]) /\ pc[queue[k][i + 1]] \notin {"arm", "link"}
                              THEN queue[k][i + 1] ELSE None
      BY <3>1 DEF NextIsLinked
    <3>6. QED
      BY <3>1, <3>2, <3>3, <3>4, <3>5
  <2>4. k = l => i \in 1..(n + 1)
    BY <1>6
  <2>5. k = l => i < n \/ i = n \/ i = n + 1
    BY <2>4
  <2>6. QED
    BY <2>1, <2>2, <2>3, <2>5
<1>14. HeadIsFront' /\ PredIsBefore'
  <2> SUFFICES ASSUME NEW k \in Locks, NEW i \in Positions(k)'
               PROVE  /\ i = 1 => \/ pc'[queue'[k][i]] \in FrontLabels
                                  \/ pc'[queue'[k][i]] = "spin" /\ ~waiting'[queue'[k][i]]
                      /\ i > 1 => \/ pc'[queue'[k][i]] \in {"link", "spin"} /\ waiting'[queue'[k][i]]
                                  \/ pc'[queue'[k][i]] = "arm"
                      /\ pc'[queue'[k][i]] \in {"arm", "link"} =>
                            i > 1 /\ pred'[queue'[k][i]] = queue'[k][i - 1]
    BY DEF HeadIsFront, HeadAt, PredIsBefore
  <2>1. CASE k = l /\ i = n + 1
    BY <2>1, <1>6, <1>8 DEF FrontLabels, TailIsLast
  <2>2. CASE k # l \/ i < n + 1
    <3>1. i \in Positions(k) /\ queue'[k][i] = queue[k][i]
      BY <2>2, <1>4, <1>6
    <3>2. i > 1 => queue'[k][i - 1] = queue[k][i - 1]
      <4>1. i > 1 => i - 1 \in Positions(k)
        BY <3>1, <1>2
      <4>2. QED
        BY <4>1, <1>4, <1>6
    <3>3. /\ pc'[queue[k][i]] = pc[queue[k][i]] /\ waiting'[queue[k][i]] = waiting[queue[k][i]]
          /\ pred'[queue[k][i]] = pred[queue[k][i]]
      BY <3>1, <1>3, <1>8
    <3>4. HeadAt(k, i)
      BY <3>1 DEF HeadIsFront
    <3>5. pc[queue[k][i]] \in {"arm", "link"} => i > 1 /\ pred[queue[k][i]] = queue[k][i - 1]
      BY <3>1 DEF PredIsBefore
    <3>6. QED
      BY <3>1, <3>2, <3>3, <3>4, <3>5 DEF HeadAt
  <2>3. QED
    BY <2>1, <2>2, <1>6
<1>15. SuccIsNext'
  BY <1>1, <1>8 DEF SuccIsNext
<1>16. QED
  BY <1>9, <1>10, <1>11, <1>12, <1>13, <1>14, <1>15

\* A thread stands at one place of one queue.
LEMMA OnePlace ==
  ASSUME QInv,
         NEW k \in Locks, NEW i \in Positions(k), NEW l \in Locks, NEW j \in Positions(l),
         queue[k][i] = queue[l][j]
  PROVE  k = l /\ i = j
<1>1. k = l
  BY DEF QInv, MembersQueued
<1>2. QED
  BY <1>1 DEF QInv, QueuedOnce

\* A queued thread raises its flag before it can be seen by its predecessor.
LEMMA ArmWaitingStep ==
  ASSUME QInv, TypeOK', NEW t \in Threads, ArmWaiting(t)
  PROVE  QInv'
<1> USE DEF QInv, Positions
<1>1. /\ pc[t] = "arm" /\ pc'[t] = "link" /\ waiting'[t]
      /\ \A u \in Threads \ {t} : pc'[u] = pc[u] /\ waiting'[u] = waiting[u]
      /\ UNCHANGED <<queue, tail, next, target, pred, succ>>
  BY DEF ArmWaiting, Goto, TypeOK
<1>2. \A k \in Locks : queue[k] \in Seq(Threads)
  BY DEF MembersQueued
<1>3. \A k \in Locks : \A i \in Positions(k) : queue[k][i] \in Threads
  BY <1>2
<1>4. MembersQueued' /\ QueuedAreMembers'
  BY <1>1, <1>3 DEF MembersQueued, QueuedAreMembers, QueuedLabels, FrontLabels
<1>5. QueuedOnce' /\ TailIsLast' /\ SuccIsNext'
  BY <1>1 DEF QueuedOnce, TailIsLast, SuccIsNext
<1>6. NextIsLinked'
  <2> SUFFICES ASSUME NEW k \in Locks, NEW i \in Positions(k)
               PROVE  next[queue[k][i]] =
                        IF i < Len(queue[k]) /\ pc'[queue[k][i + 1]] \notin {"arm", "link"}
                        THEN queue[k][i + 1] ELSE None
    BY <1>1 DEF NextIsLinked
  <2>1. i < Len(queue[k]) =>
          (pc'[queue[k][i + 1]] \in {"arm", "link"} <=> pc[queue[k][i + 1]] \in {"arm", "link"})
    BY <1>1, <1>2
  <2>2. QED
    BY <2>1 DEF NextIsLinked
<1>7. HeadIsFront'
  BY <1>1, <1>3 DEF HeadIsFront, HeadAt, PredIsBefore, FrontLabels
<1>8. PredIsBefore'
  BY <1>1, <1>3 DEF PredIsBefore
<1>9. QED
  BY <1>4, <1>5, <1>6, <1>7, <1>8

\* Only the head finds its flag cleared.
LEMMA SpinWaitingStep ==
  ASSUME QInv, TypeOK', NEW t \in Threads, SpinWaiting(t)
  PROVE  QInv'
<1> USE DEF QInv, Positions
<1>1. /\ pc[t] = "spin" /\ pc'[t] = "front" /\ ~waiting[t]
      /\ \A u \in Threads \ {t} : pc'[u] = pc[u]
      /\ UNCHANGED <<queue, tail, next, waiting, target, pred, succ>>
  BY DEF SpinWaiting, Goto, TypeOK, lockVars
<1>2. \A k \in Locks : queue[k] \in Seq(Threads)
  BY DEF MembersQueued
<1>3. \A k \in Locks : \A i \in Positions(k) : queue[k][i] \in Threads
  BY <1>2
<1>4. MembersQueued' /\ QueuedAreMembers'
  BY <1>1, <1>3 DEF MembersQueued, QueuedAreMembers, QueuedLabels, FrontLabels
<1>5. QueuedOnce' /\ TailIsLast' /\ SuccIsNext'
  BY <1>1 DEF QueuedOnce, TailIsLast, SuccIsNext
<1>6. NextIsLinked'
  <2> SUFFICES ASSUME NEW k \in Locks, NEW i \in Positions(k)
               PROVE  next[queue[k][i]] =
                        IF i < Len(queue[k]) /\ pc'[queue[k][i + 1]] \notin {"arm", "link"}
                        THEN queue[k][i + 1] ELSE None
    BY <1>1 DEF NextIsLinked
  <2>1. i < Len(queue[k]) =>
          (pc'[queue[k][i + 1]] \in {"arm", "link"} <=> pc[queue[k][i + 1]] \in {"arm", "link"})
    BY <1>1, <1>2
  <2>2. QED
    BY <2>1 DEF NextIsLinked
<1>7. HeadIsFront'
  BY <1>1, <1>3 DEF HeadIsFront, HeadAt, FrontLabels
<1>8. PredIsBefore'
  BY <1>1, <1>3 DEF PredIsBefore
<1>9. QED
  BY <1>4, <1>5, <1>6, <1>7, <1>8

\* A link writes the next pointer of the thread before, which is still there:
\* it cannot leave the queue while a thread that swapped after it is unlinked.
LEMMA LinkPredStep ==
  ASSUME QInv, TypeOK', NEW t \in Threads, LinkPred(t)
  PROVE  QInv'
<1> USE ConstantsAssumption DEF QInv, Positions
<1>1. /\ pc[t] = "link" /\ pc'[t] = "spin" /\ pred[t] \in Threads
      /\ \A u \in Threads \ {t} : pc'[u] = pc[u] /\ pred'[u] = pred[u]
      /\ \A u \in Threads : next'[u] = IF u = pred[t] THEN t ELSE next[u]
      /\ UNCHANGED <<queue, tail, waiting, target, succ>>
  BY DEF LinkPred, Goto, TypeOK
<1>2. \A k \in Locks : queue[k] \in Seq(Threads)
  BY DEF MembersQueued
<1>3. \A k \in Locks : \A i \in Positions(k) : queue[k][i] \in Threads
  BY <1>2
<1>4. PICK l \in Locks : l = target[t]
  BY <1>1 DEF TypeOK, Labels
<1>5. PICK p \in Positions(l) : queue[l][p] = t
  BY <1>1, <1>4 DEF QueuedAreMembers, QueuedLabels
<1>6. p > 1 /\ p - 1 \in Positions(l) /\ queue[l][p - 1] = pred[t]
  BY <1>1, <1>2, <1>5 DEF PredIsBefore
<1>7. next[pred[t]] = None
  <2>1. p \in Nat /\ (p - 1) + 1 = p
    BY <1>2, <1>5
  <2>2. pc[queue[l][(p - 1) + 1]] = "link"
    BY <2>1, <1>1, <1>5
  <2>3. next[queue[l][p - 1]] = None
    BY <2>2, <1>6 DEF NextIsLinked
  <2>4. QED
    BY <2>3, <1>6
<1>8. MembersQueued' /\ QueuedAreMembers'
  <2>1. \A u \in Threads : pc'[u] \in QueuedLabels <=> pc[u] \in QueuedLabels
    BY <1>1 DEF QueuedLabels
  <2>2. MembersQueued'
    BY <2>1, <1>1, <1>3 DEF MembersQueued
  <2>3. QueuedAreMembers'
    BY <2>1, <1>1 DEF QueuedAreMembers
  <2>4. QED
    BY <2>2, <2>3
<1>9. QueuedOnce' /\ TailIsLast'
  BY <1>1 DEF QueuedOnce, TailIsLast
<1>10. NextIsLinked'
  <2> SUFFICES ASSUME NEW k \in Locks, NEW i \in Positions(k)
               PROVE  next'[queue[k][i]] =
                        IF i < Len(queue[k]) /\ pc'[queue[k][i + 1]] \notin {"arm", "link"}
                        THEN queue[k][i + 1] ELSE None
    BY <1>1 DEF NextIsLinked
  <2>1. CASE k = l /\ i = p - 1
    BY <2>1, <1>1, <1>2, <1>5, <1>6
  <2>2. CASE ~(k = l /\ i = p - 1)
    <3>1. queue[k][i] # pred[t]
      BY <2>2, <1>6, OnePlace
    <3>2. i < Len(queue[k]) => i + 1 \in Positions(k) /\ queue[k][i + 1] # t
      <4>1. i < Len(queue[k]) => i + 1 \in Positions(k)
        BY <1>2
      <4>2. ASSUME i < Len(queue[k]), queue[k][i + 1] = t
            PROVE  k = l /\ i + 1 = p
        BY <4>1, <4>2, <1>5, OnePlace
      <4>3. i + 1 = p => i = p - 1
        BY <1>2, <1>5
      <4>4. QED
        BY <4>1, <4>2, <4>3, <2>2
    <3>3. next'[queue[k][i]] = next[queue[k][i]]
      BY <3>1, <1>1, <1>3
    <3>4. i < Len(queue[k]) => pc'[queue[k][i + 1]] = pc[queue[k][i + 1]]
      BY <3>2, <1>1, <1>3
    <3>5. next[queue[k][i]] = IF i < Len(queue[k]) /\ pc[queue[k][i + 1]] \notin {"arm", "link"}
                              THEN queue[k][i + 1] ELSE None
      BY DEF NextIsLinked
    <3>6. QED
      BY <3>3, <3>4, <3>5, <1>1
  <2>3. QED
    BY <2>1, <2>2
<1>11. HeadIsFront'
  <2> SUFFICES ASSUME NEW k \in Locks, NEW i \in Positions(k)
               PROVE  /\ i = 1 => \/ pc'[queue[k][i]] \in FrontLabels
                                  \/ pc'[queue[k][i]] = "spin" /\ ~waiting[queue[k][i]]
                      /\ i > 1 => \/ pc'[queue[k][i]] \in {"link", "spin"} /\ waiting[queue[k][i]]
                                  \/ pc'[queue[k][i]] = "arm"
    BY <1>1 DEF HeadIsFront, HeadAt
  <2>1. queue[k][i] = t => i > 1
    <3>1. queue[k][i] = t => i = p
      BY <1>5, OnePlace
    <3>2. QED
      BY <3>1, <1>6
  <2>2. HeadAt(k, i)
    BY DEF HeadIsFront
  <2>3. queue[k][i] # t => pc'[queue[k][i]] = pc[queue[k][i]]
    BY <1>1, <1>3
  <2>4. QED
    BY <2>1, <2>2, <2>3, <1>1 DEF HeadAt
<1>12. PredIsBefore'
  BY <1>1, <1>3 DEF PredIsBefore
<1>13. SuccIsNext'
  BY <1>1, <1>7 DEF SuccIsNext, TypeOK
<1>14. QED
  BY <1>8, <1>9, <1>10, <1>11, <1>12, <1>13

\* A front that is still the tail is alone, and leaves an empty queue.
LEMMA UnqueueStep ==
  ASSUME QInv, TypeOK', NEW t \in Threads, Unqueue(t)
  PROVE  QInv'
<1> USE ConstantsAssumption DEF QInv, Positions
<1>1. /\ pc[t] = "unqueue" /\ pc'[t] = "mark_entered" /\ tail[target[t]] = t
      /\ \A u \in Threads \ {t} : pc'[u] = pc[u]
      /\ UNCHANGED <<next, waiting, target, pred, succ>>
  BY DEF Unqueue, Goto, TypeOK
<1>2. \A k \in Locks : queue[k] \in Seq(Threads)
  BY DEF MembersQueued
<1>3. PICK l \in Locks : l = target[t]
  BY <1>1 DEF TypeOK, Labels
<1>4. Len(queue[l]) \in Nat \ {0} /\ queue[l][1] = t
  BY <1>1, <1>3, FrontIsHead DEF FrontLabels
<1>5. Len(queue[l]) = 1
  <2>1. queue[l][Len(queue[l])] = t
    BY <1>1, <1>3, <1>4 DEF TailIsLast
  <2>2. 1 \in Positions(l) /\ Len(queue[l]) \in Positions(l)
    BY <1>4
  <2>3. \A j \in Positions(l) : queue[l][1] = queue[l][j] => 1 = j
    BY <2>2 DEF QueuedOnce
  <2>4. QED
    BY <1>4, <2>1, <2>2, <2>3
<1>6. /\ queue'[l] = <<>> /\ tail'[l] = None
      /\ \A k \in Locks \ {l} : queue'[k] = queue[k] /\ tail'[k] = tail[k]
      /\ queue' \in [Locks -> Seq(Threads)]
  <2>1. Tail(queue[l]) = <<>>
    <3>1. queue[l] # <<>>
      BY <1>5
    <3>2. Tail(queue[l]) \in Seq(Threads) /\ Len(Tail(queue[l])) = 0
      BY <1>2, <1>5, <3>1
    <3>3. QED
      BY <3>2, EmptySeq
  <2>2. queue' = [queue EXCEPT ![l] = <<>>] /\ <<>> \in Seq(Threads)
    BY <1>3, <2>1, EmptySeq DEF Unqueue
  <2>3. tail' = [tail EXCEPT ![l] = None]
    BY <1>3 DEF Unqueue
  <2>4. queue \in [Locks -> Seq(Threads)] /\ tail \in [Locks -> Threads \cup {None}]
    BY DEF MembersQueued, TypeOK
  <2>5. QED
    BY <2>2, <2>3, <2>4
<1>7. \A k \in Locks : \A i \in Positions(k) :
        queue[k][i] \in Threads /\ (k # l => queue[k][i] # t /\ pc'[queue[k][i]] = pc[queue[k][i]])
  BY <1>1, <1>2, <1>3 DEF MembersQueued
<1>8. \A k \in Locks : \A i \in Positions(k)' : k # l /\ i \in Positions(k)
  BY <1>6
<1>9. MembersQueued'
  <2>1. ASSUME NEW k \in Locks, NEW i \in Positions(k)'
        PROVE  target'[queue'[k][i]] = k /\ pc'[queue'[k][i]] \in QueuedLabels
    <3>1. k # l /\ i \in Positions(k) /\ queue'[k] = queue[k]
      BY <1>6, <1>8
    <3>2. QED
      BY <3>1, <1>1, <1>7 DEF MembersQueued
  <2>2. QED
    BY <2>1, <1>6 DEF MembersQueued
<1>10. QueuedAreMembers'
  <2> SUFFICES ASSUME NEW u \in Threads, pc'[u] \in QueuedLabels
               PROVE  \E i \in 1..Len(queue'[target[u]]) : queue'[target[u]][i] = u
    BY <1>1 DEF QueuedAreMembers
  <2>1. u # t /\ pc[u] \in QueuedLabels /\ target[u] \in Locks
    BY <1>1 DEF QueuedLabels, FrontLabels, TypeOK, Labels
  <2>2. PICK i \in Positions(target[u]) : queue[target[u]][i] = u
    BY <2>1 DEF QueuedAreMembers
  <2>3. target[u] # l
    BY <2>1, <2>2, <1>4, <1>5
  <2>4. QED
    BY <2>1, <2>2, <2>3, <1>6
<1>11. QueuedOnce' /\ TailIsLast'
  BY <1>6, <1>8 DEF QueuedOnce, TailIsLast
<1>12. NextIsLinked'
  <2> SUFFICES ASSUME NEW k \in Locks, k # l, NEW i \in Positions(k)
               PROVE  next[queue[k][i]] =
                        IF i < Len(queue[k]) /\ pc'[queue[k][i + 1]] \notin {"arm", "link"}
                        THEN queue[k][i + 1] ELSE None
    BY <1>1, <1>6, <1>8 DEF NextIsLinked
  <2>1. i < Len(queue[k]) => i + 1 \in Positions(k)
    BY <1>2
  <2>2. i < Len(queue[k]) => pc'[queue[k][i + 1]] = pc[queue[k][i + 1]]
    BY <2>1, <1>7
  <2>3. QED
    BY <2>2 DEF NextIsLinked
<1>13. HeadIsFront' /\ PredIsBefore'
  <2>1. ASSUME NEW k \in Locks, NEW i \in Positions(k)'
        PROVE  /\ i \in Positions(k) /\ queue'[k] = queue[k]
               /\ pc'[queue[k][i]] = pc[queue[k][i]]
    BY <1>6, <1>7, <1>8
  <2>2. HeadIsFront'
    <3> SUFFICES ASSUME NEW k \in Locks, NEW i \in Positions(k)'
                 PROVE  HeadAt(k, i)'
      BY DEF HeadIsFront
    <3>1. i \in Positions(k)
      BY <2>1
    <3>2. HeadAt(k, i)
      BY <3>1 DEF HeadIsFront
    <3>3. /\ queue'[k][i] = queue[k][i] /\ waiting' = waiting
          /\ pc'[queue[k][i]] = pc[queue[k][i]]
      BY <2>1, <1>1
    <3>4. QED
      BY <3>2, <3>3 DEF HeadAt
  <2>3. PredIsBefore'
    <3> SUFFICES ASSUME NEW k \in Locks, NEW i \in Positions(k)',
                        pc'[queue'[k][i]] \in {"arm", "link"}
                 PROVE  i > 1 /\ pred'[queue'[k][i]] = queue'[k][i - 1]
      BY DEF PredIsBefore
    <3>1. /\ i \in Positions(k) /\ queue'[k] = queue[k]
          /\ pc'[queue[k][i]] = pc[queue[k][i]]
      BY <2>1
    <3>2. pc[queue[k][i]] \in {"arm", "link"}
      BY <3>1
    <3>3. i > 1 /\ pred[queue[k][i]] = queue[k][i - 1]
      BY <3>1, <3>2 DEF PredIsBefore
    <3>4. QED
      BY <3>1, <3>3, <1>1
  <2>4. QED
    BY <2>2, <2>3
<1>14. SuccIsNext'
  BY <1>1 DEF SuccIsNext
<1>15. QED
  BY <1>9, <1>10, <1>11, <1>12, <1>13, <1>14

\* A handoff clears the flag of the second thread of the queue, which has
\* linked and waits, and makes it the head.
LEMMA WakeSuccessorStep ==
  ASSUME QInv, TypeOK', NEW t \in Threads, WakeSuccessor(t)
  PROVE  QInv'
<1> USE ConstantsAssumption DEF QInv, Positions
<1>1. /\ pc[t] = "wake" /\ pc'[t] = "mark_entered" /\ succ[t] \in Threads /\ next[t] = succ[t]
      /\ \A u \in Threads \ {t} : pc'[u] = pc[u] /\ succ'[u] = succ[u]
      /\ \A u \in Threads : waiting'[u] = IF u = succ[t] THEN FALSE ELSE waiting[u]
      /\ UNCHANGED <<tail, next, target, pred>>
  BY DEF WakeSuccessor, Goto, TypeOK, SuccIsNext
<1>2. \A k \in Locks : queue[k] \in Seq(Threads)
  BY DEF MembersQueued
<1>3. PICK l \in Locks : l = target[t]
  BY <1>1 DEF TypeOK, Labels
<1>4. Len(queue[l]) \in Nat \ {0} /\ queue[l][1] = t
  BY <1>1, <1>3, FrontIsHead DEF FrontLabels
<1>5. /\ 1 \in Positions(l) /\ 2 \in Positions(l) /\ queue[l][2] = succ[t]
      /\ pc[queue[l][2]] = "spin" /\ queue[l][2] # t
  <2>1. 1 < Len(queue[l]) /\ queue[l][2] = succ[t] /\ pc[queue[l][2]] \notin {"arm", "link"}
    BY <1>1, <1>4 DEF NextIsLinked
  <2>2. 1 \in Positions(l) /\ 2 \in Positions(l)
    BY <1>4, <2>1
  <2>3. queue[l][2] # t
    BY <2>2, <1>4, OnePlace
  <2>4. pc[queue[l][2]] = "spin"
    <3>1. HeadAt(l, 2)
      BY <2>2 DEF HeadIsFront
    <3>2. QED
      BY <3>1, <2>1 DEF HeadAt
  <2>5. QED
    BY <2>1, <2>2, <2>3, <2>4
<1>6. PICK m \in Nat : Len(queue[l]) = m + 1 /\ m >= 1
  <2>1. 2 <= Len(queue[l])
    BY <1>4, <1>5
  <2>2. /\ Len(queue[l]) - 1 \in Nat /\ Len(queue[l]) - 1 >= 1
        /\ Len(queue[l]) = (Len(queue[l]) - 1) + 1
    BY <1>4, <2>1
  <2>3. QED
    BY <2>2
<1>7. /\ Len(queue'[l]) = m /\ \A i \in 1..m : queue'[l][i] = queue[l][i + 1]
      /\ \A k \in Locks \ {l} : queue'[k] = queue[k]
      /\ queue' \in [Locks -> Seq(Threads)]
  <2>1. queue[l] # <<>>
    BY <1>4
  <2>2. Tail(queue[l]) \in Seq(Threads) /\ Len(Tail(queue[l])) = m
        /\ \A i \in 1..m : Tail(queue[l])[i] = queue[l][i + 1]
    BY <1>2, <1>6, <2>1
  <2>3. QED
    BY <1>3, <2>2 DEF WakeSuccessor, MembersQueued
<1>8. \A k \in Locks : \A i \in Positions(k) :
        /\ queue[k][i] \in Threads
        /\ ~(k = l /\ i = 1) => queue[k][i] # t /\ pc'[queue[k][i]] = pc[queue[k][i]]
        /\ ~(k = l /\ i = 2) => waiting'[queue[k][i]] = waiting[queue[k][i]]
  <2>1. ASSUME NEW k \in Locks, NEW i \in Positions(k)
        PROVE  /\ queue[k][i] \in Threads
               /\ ~(k = l /\ i = 1) => queue[k][i] # t
               /\ ~(k = l /\ i = 2) => queue[k][i] # succ[t]
    BY <1>2, <1>4, <1>5, OnePlace
  <2>2. QED
    BY <2>1, <1>1
\* Where the threads of the new queues stood.
<1>9. ASSUME NEW k \in Locks, NEW i \in Positions(k)'
      PROVE  \E j \in Positions(k) :
               /\ j = IF k = l THEN i + 1 ELSE i
               /\ queue'[k][i] = queue[k][j]
               /\ i < Len(queue'[k]) <=> j < Len(queue[k])
               /\ i < Len(queue'[k]) => queue'[k][i + 1] = queue[k][j + 1]
               /\ i > 1 => queue'[k][i - 1] = queue[k][j - 1]
  <2>1. CASE k = l
    <3>1. i \in 1..m /\ i + 1 \in Positions(l) /\ queue'[l][i] = queue[l][i + 1]
      BY <2>1, <1>6, <1>7
    <3>2. i < Len(queue'[l]) <=> i + 1 < Len(queue[l])
      BY <3>1, <1>6, <1>7
    <3>3. i < Len(queue'[l]) => queue'[l][i + 1] = queue[l][(i + 1) + 1]
      BY <3>1, <1>6, <1>7
    <3>4. i > 1 => queue'[l][i - 1] = queue[l][(i + 1) - 1]
      <4>1. i > 1 => i - 1 \in 1..m /\ (i - 1) + 1 = (i + 1) - 1
        BY <3>1
      <4>2. QED
        BY <4>1, <1>7
    <3>5. QED
      BY <2>1, <3>1, <3>2, <3>3, <3>4
  <2>2. CASE k # l
    BY <2>2, <1>7, <1>9
  <2>3. QED
    BY <2>1, <2>2
<1>10. MembersQueued'
  <2>1. ASSUME NEW k \in Locks, NEW i \in Positions(k)'
        PROVE  target'[queue'[k][i]] = k /\ pc'[queue'[k][i]] \in QueuedLabels
    <3>1. PICK j \in Positions(k) :
            queue'[k][i] = queue[k][j] /\ j = IF k = l THEN i + 1 ELSE i
      BY <1>9
    <3>2. ~(k = l /\ j = 1)
      BY <3>1, <1>7
    <3>3. QED
      BY <3>1, <3>2, <1>1, <1>8 DEF MembersQueued
  <2>2. QED
    BY <2>1, <1>7 DEF MembersQueued
<1>11. QueuedAreMembers'
  <2> SUFFICES ASSUME NEW u \in Threads, pc'[u] \in QueuedLabels
               PROVE  \E i \in 1..Len(queue'[target[u]]) : queue'[target[u]][i] = u
    BY <1>1 DEF QueuedAreMembers
  <2>1. u # t /\ pc[u] \in QueuedLabels /\ target[u] \in Locks
    BY <1>1 DEF QueuedLabels, FrontLabels, TypeOK, Labels
  <2>2. PICK j \in Positions(target[u]) : queue[target[u]][j] = u
    BY <2>1 DEF QueuedAreMembers
  <2>3. CASE target[u] = l
    <3>1. j # 1 /\ j \in 1..(m + 1)
      BY <2>1, <2>2, <2>3, <1>4, <1>6
    <3>2. j - 1 \in 1..m /\ queue'[l][j - 1] = queue[l][j]
      BY <3>1, <1>7
    <3>3. QED
      BY <3>2, <2>2, <2>3, <1>7
  <2>4. CASE target[u] # l
    BY <2>1, <2>2, <2>4, <1>7
  <2>5. QED
    BY <2>3, <2>4
<1>12. QueuedOnce'
  <2> SUFFICES ASSUME NEW k \in Locks, NEW i \in Positions(k)', NEW j \in Positions(k)',
                      queue'[k][i] = queue'[k][j]
               PROVE  i = j
    BY DEF QueuedOnce
  <2>1. PICK a \in Positions(k) : a = (IF k = l THEN i + 1 ELSE i) /\ queue'[k][i] = queue[k][a]
    BY <1>9
  <2>2. PICK b \in Positions(k) : b = (IF k = l THEN j + 1 ELSE j) /\ queue'[k][j] = queue[k][b]
    BY <1>9
  <2>3. a = b
    BY <2>1, <2>2 DEF QueuedOnce
  <2>4. i \in Int /\ j \in Int
    BY <1>7
  <2>5. QED
    BY <2>1, <2>2, <2>3, <2>4
<1>13. TailIsLast'
  <2>1. queue'[l][m] = queue[l][m + 1]
    BY <1>6, <1>7
  <2>2. tail[l] = queue[l][m + 1] /\ m # 0 /\ m + 1 # 0
    BY <1>6 DEF TailIsLast
  <2>3. \A k \in Locks \ {l} : tail'[k] = tail[k] /\ queue'[k] = queue[k]
    BY <1>1, <1>7
  <2>4. tail' = tail /\ Len(queue'[l]) = m
    BY <1>1, <1>7
  <2> SUFFICES ASSUME NEW k \in Locks
               PROVE  tail'[k] = IF Len(queue'[k]) = 0 THEN None ELSE queue'[k][Len(queue'[k])]
    BY DEF TailIsLast
  <2>5. CASE k = l
    BY <2>1, <2>2, <2>4, <2>5
  <2>6. CASE k # l
    BY <2>3, <2>6 DEF TailIsLast
  <2>7. QED
    BY <2>5, <2>6
<1>14. NextIsLinked'
  <2> SUFFICES ASSUME NEW k \in Locks, NEW i \in Positions(k)'
               PROVE  next[queue'[k][i]] =
                        IF i < Len(queue'[k]) /\ pc'[queue'[k][i + 1]] \notin {"arm", "link"}
                        THEN queue'[k][i + 1] ELSE None
    BY <1>1 DEF NextIsLinked
  <2>1. PICK j \in Positions(k) :
          /\ j = IF k = l THEN i + 1 ELSE i
          /\ queue'[k][i] = queue[k][j]
          /\ i < Len(queue'[k]) <=> j < Len(queue[k])
          /\ i < Len(queue'[k]) => queue'[k][i + 1] = queue[k][j + 1]
    BY <1>9
  <2>2. j < Len(queue[k]) => pc'[queue[k][j + 1]] = pc[queue[k][j + 1]]
    <3>1. i \in Nat \ {0} /\ j \in Nat \ {0}
      BY <1>7, <2>1
    <3>2. j < Len(queue[k]) => j + 1 \in Positions(k) /\ j + 1 # 1
      BY <1>2, <3>1
    <3>3. QED
      BY <3>2, <1>8
  <2>3. next[queue[k][j]] = IF j < Len(queue[k]) /\ pc[queue[k][j + 1]] \notin {"arm", "link"}
                            THEN queue[k][j + 1] ELSE None
    BY DEF NextIsLinked
  <2>4. CASE i < Len(queue'[k])
    BY <2>1, <2>2, <2>3, <2>4
  <2>5. CASE ~(i < Len(queue'[k]))
    BY <2>1, <2>3, <2>5
  <2>6. QED
    BY <2>4, <2>5
<1>15. HeadIsFront' /\ PredIsBefore'
  <2> SUFFICES ASSUME NEW k \in Locks, NEW i \in Positions(k)'
               PROVE  /\ i = 1 => \/ pc'[queue'[k][i]] \in FrontLabels
                                  \/ pc'[queue'[k][i]] = "spin" /\ ~waiting'[queue'[k][i]]
                      /\ i > 1 => \/ pc'[queue'[k][i]] \in {"link", "spin"} /\ waiting'[queue'[k][i]]
                                  \/ pc'[queue'[k][i]] = "arm"
                      /\ pc'[queue'[k][i]] \in {"arm", "link"} =>
                            i > 1 /\ pred'[queue'[k][i]] = queue'[k][i - 1]
    BY DEF HeadIsFront, HeadAt, PredIsBefore
  <2>1. PICK j \in Positions(k) :
          /\ j = IF k = l THEN i + 1 ELSE i
          /\ queue'[k][i] = queue[k][j]
          /\ i > 1 => queue'[k][i - 1] = queue[k][j - 1]
    BY <1>9
  <2>2. i \in Nat \ {0}
    BY <1>7
  <2>3. CASE k = l /\ i = 1
    <3>1. queue'[k][i] = queue[l][2]
      BY <2>1, <2>3
    <3>2. pc'[queue[l][2]] = "spin" /\ ~waiting'[queue[l][2]]
      BY <1>1, <1>5
    <3>3. QED
      BY <2>3, <3>1, <3>2
  <2>4. CASE ~(k = l /\ i = 1)
    <3>1. ~(k = l /\ j \in {1, 2}) /\ (i > 1 <=> j > 1 /\ ~(k = l /\ j = 2)) /\ (i = 1 => k # l /\ j = 1)
      BY <2>1, <2>2, <2>4
    <3>2. pc'[queue[k][j]] = pc[queue[k][j]] /\ waiting'[queue[k][j]] = waiting[queue[k][j]]
      BY <3>1, <1>8
    <3>3. HeadAt(k, j)
      BY <2>1 DEF HeadIsFront
    <3>4. pc[queue[k][j]] \in {"arm", "link"} => j > 1 /\ pred'[queue[k][j]] = queue[k][j - 1]
      BY <2>1, <1>1 DEF PredIsBefore
    <3>5. pc'[queue[k][j]] \in {"arm", "link"} => i > 1 /\ pred'[queue[k][j]] = queue'[k][i - 1]
      <4>1. pc[queue[k][j]] \in {"arm", "link"} => j > 1 /\ ~(k = l /\ j = 2)
        BY <3>1, <3>4
      <4>2. QED
        BY <2>1, <3>1, <3>2, <3>4, <4>1
    <3>6. QED
      BY <2>1, <3>1, <3>2, <3>3, <3>5 DEF HeadAt
  <2>5. QED
    BY <2>3, <2>4
<1>16. SuccIsNext'
  BY <1>1 DEF SuccIsNext
<1>17. QED
  BY <1>10, <1>11, <1>12, <1>13, <1>14, <1>15, <1>16

----------------------------------------------------------------------------
\* The inductive invariant of the queue.
LEMMA QueueInvariant == Spec => []QInv
<1>1. Init => QInv
  <2> SUFFICES ASSUME Init
               PROVE  QInv
    OBVIOUS
  <2>1. TypeOK
    BY DEF Init, TypeOK, Labels, Words
  <2>2. \A l \in Locks : queue[l] = <<>> /\ Len(queue[l]) = 0 /\ Positions(l) = {}
    BY DEF Init, Positions
  <2>3. MembersQueued
    BY <2>2 DEF Init, MembersQueued
  <2>4. QueuedAreMembers /\ SuccIsNext
    BY DEF Init, QueuedAreMembers, SuccIsNext, QueuedLabels, FrontLabels
  <2>5. QueuedOnce /\ TailIsLast /\ NextIsLinked /\ HeadIsFront /\ PredIsBefore
    BY <2>2 DEF Init, QueuedOnce, TailIsLast, NextIsLinked, HeadIsFront, HeadAt, PredIsBefore
  <2>6. QED
    BY <2>1, <2>3, <2>4, <2>5 DEF QInv
<1>2. TypeOK' /\ QInv /\ [Next]_vars => QInv'
  <2> SUFFICES ASSUME TypeOK', QInv, [Next]_vars
               PROVE  QInv'
    OBVIOUS
  <2>1. TypeOK
    BY DEF QInv
  <2>2. ASSUME NEW t \in Threads,
               \/ \E l \in Locks : CallLock(t, l) \/ CallTrylock(t, l) \/ unlock_fast(t, l)
               \/ try_lock_fast(t, "try") \/ try_lock_fast(t, "trylock")
               \/ FastPathFails(t) \/ TrylockFails(t) \/ AdapterLock(t)
               \/ MarkEntered(t) \/ AdapterUnlock(t)
        PROVE  QInv'
    <3>1. pc[t] \notin QueuedLabels /\ pc'[t] \notin QueuedLabels
      BY <2>1, <2>2 DEF QueuedLabels, FrontLabels, TypeOK, Goto, CallLock, CallTrylock,
         unlock_fast, try_lock_fast, FastPathFails, TrylockFails, AdapterLock, MarkEntered,
         AdapterUnlock
    <3>2. \A u \in Threads : u # t => pc'[u] = pc[u] /\ target'[u] = target[u]
      BY <2>1, <2>2 DEF TypeOK, Goto, CallLock, CallTrylock, unlock_fast, try_lock_fast,
         FastPathFails, TrylockFails, AdapterLock, MarkEntered, AdapterUnlock
    <3>3. UNCHANGED <<queue, tail, next, waiting, pred, succ>>
      BY <2>2 DEF CallLock, CallTrylock, unlock_fast, try_lock_fast, FastPathFails,
         TrylockFails, AdapterLock, MarkEntered, AdapterUnlock, lockVars
    <3>4. QED
      BY <3>1, <3>2, <3>3, OutsideStep
  <2>3. ASSUME NEW t \in Threads,
               FrontSpin(t) \/ ReadNext(t) \/ UnqueueFails(t) \/ AwaitNext(t)
        PROVE  QInv'
    <3>1. /\ pc[t] \in FrontLabels /\ pc'[t] \in FrontLabels
          /\ \A u \in Threads : u # t => pc'[u] = pc[u] /\ succ'[u] = succ[u]
          /\ pc'[t] = "wake" => succ'[t] = next[t]
      BY <2>1, <2>3 DEF FrontLabels, TypeOK, Goto, FrontSpin, ReadNext, UnqueueFails, AwaitNext
    <3>2. UNCHANGED <<queue, tail, next, waiting, pred, target>>
      BY <2>3 DEF FrontSpin, ReadNext, UnqueueFails, AwaitNext, lockVars
    <3>3. QED
      BY <3>1, <3>2, FrontStep
  <2>4. ASSUME NEW t \in Threads, SwapTail(t)
        PROVE  QInv'
    <3>1. target[t] \in Locks /\ Len(queue[target[t]]) \in Nat
      BY <2>1, <2>4 DEF SwapTail, Goto, TypeOK, Labels, QInv, MembersQueued
    <3>2. QED
      BY <2>4, <3>1, SwapTailStep
  <2>5. CASE UNCHANGED vars
    BY <2>5 DEF vars, QInv, TypeOK, MembersQueued, QueuedAreMembers, QueuedOnce, TailIsLast,
       NextIsLinked, HeadIsFront, HeadAt, PredIsBefore, SuccIsNext, Positions
  <2>6. QED
    BY <2>2, <2>3, <2>4, <2>5, ArmWaitingStep, LinkPredStep, SpinWaitingStep, UnqueueStep,
       WakeSuccessorStep DEF Next, Call, Step
<1>3. QED
  BY <1>1, <1>2, TypeCorrect, PTL DEF Spec

\* Tail, next pointers and flags follow the order of the swaps, the head alone
\* is past waiting, and one thread at most competes for the flag.
THEOREM QueueKeepsShape == Spec => []QueueShape
<1>1. QInv => QueueShape
  <2> SUFFICES ASSUME QInv
               PROVE  QueueShape
    OBVIOUS
  <2>1. OneFrontRunner
    BY FrontIsHead DEF OneFrontRunner
  <2>2. ASSUME NEW l \in Locks
        PROVE  queue[l] \in Seq(Threads) /\ (queue[l] = <<>> <=> Len(queue[l]) = 0)
    BY DEF QInv, MembersQueued
  <2>3. QED
    BY <2>1, <2>2 DEF QInv, QueueShape, Positions, MembersQueued, TailIsLast, NextIsLinked, HeadIsFront, HeadAt
<1>2. QED
  BY <1>1, QueueInvariant, PTL

\* The thread that takes the flag on the slow path is the first of the queue.
THEOREM SlowPathIsFifo == Spec => FifoSlowPath
<1>1. QInv /\ [Next]_vars =>
        [\A t \in Threads :
           pc[t] = "front" /\ pc'[t] = "read_next" => Head(queue[target[t]]) = t]_vars
  <2> SUFFICES ASSUME QInv, NEW t \in Threads, pc[t] = "front"
               PROVE  Head(queue[target[t]]) = t
    OBVIOUS
  <2>1. target[t] \in Locks /\ queue[target[t]][1] = t /\ Len(queue[target[t]]) # 0
    BY FrontIsHead DEF FrontLabels
  <2>2. queue[target[t]] \in Seq(Threads)
    BY <2>1 DEF QInv, MembersQueued
  <2>3. QED
    BY <2>1, <2>2
<1>2. QED
  BY <1>1, QueueInvariant, PTL DEF Spec, FifoSlowPath

============================================================================
