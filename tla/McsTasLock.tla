----------------------------- MODULE McsTasLock -----------------------------
(***************************************************************************)
(* The default backend, libaccordin.so: McsTasLockRaw                      *)
(* (mcs_tas_accordin/src/mcs_tas.rs) under LockBackendAdapter and the      *)
(* lock_with_stats / unlock_with_stats wrappers of the exported hooks      *)
(* (accordin_shared/src/mutex_hook.rs).  One action per atomic access to   *)
(* shared memory.  A thread has ONE queue node (THREAD_NODE) for all the   *)
(* locks of the process, so a node is named by its thread.                 *)
(*                                                                         *)
(* A test-and-set flag "locked" is the lock proper; the MCS queue only     *)
(* chooses the single thread that may spin on it beside barging callers.   *)
(***************************************************************************)
EXTENDS Naturals, Sequences, FiniteSets, AdmissionWord

CONSTANTS
    Threads,
    Locks,              \* natural numbers: callers nest in increasing order
    None,               \* the null pointer
    AdmissionEnabled,   \* ~ACCORDIN_DISABLE_ADMISSION
    MaxHeld             \* how many locks a caller nests

ASSUME ConstantsAssumption ==
    /\ Locks \subseteq Nat
    /\ None \notin Threads /\ None \notin Locks
    /\ AdmissionEnabled \in BOOLEAN
    /\ MaxHeld \in Nat

VARIABLES
    tail,      \* tail[l]: last node of l's queue, or None
    locked,    \* locked[l]: the test-and-set flag
    next,      \* next[t]: Node.next of t's node
    waiting,   \* waiting[t]: Node.waiting of t's node
    word,      \* word[t]: t's admission word
    pc, target, pred, succ,   \* locals of the hook call t is in
    held,      \* held[t]: the locks t's caller holds
    queue      \* history: the threads in l's queue, in the order of their swaps

lockVars == <<tail, locked, next, waiting>>
vars     == <<tail, locked, next, waiting, word, pc, target, pred, succ, held, queue>>

Labels == {"idle", "try", "trylock", "mark_pending", "swap", "arm", "link",
           "spin", "front", "read_next", "unqueue", "await_next", "wake",
           "mark_entered", "mark_exit"}

\* Labels of a blocking request that has not obtained the lock yet.
RequestLabels == {"try", "mark_pending", "swap", "arm", "link", "spin", "front"}
\* Labels at which a thread is the front of its lock's queue.
FrontLabels   == {"front", "read_next", "unqueue", "await_next", "wake"}

Init ==
    /\ tail    = [l \in Locks |-> None]
    /\ locked  = [l \in Locks |-> FALSE]
    /\ next    = [t \in Threads |-> None]
    /\ waiting = [t \in Threads |-> FALSE]
    /\ word    = [t \in Threads |-> {}]
    /\ pc      = [t \in Threads |-> "idle"]
    /\ target  = [t \in Threads |-> None]
    /\ pred    = [t \in Threads |-> None]
    /\ succ    = [t \in Threads |-> None]
    /\ held    = [t \in Threads |-> {}]
    /\ queue   = [l \in Locks |-> <<>>]

Goto(t, from, to) ==
    /\ pc[t] = from
    /\ pc' = [pc EXCEPT ![t] = to]

----------------------------------------------------------------------------
(* Hook entry points.  Callers respect the pthread contract (no relock of  *)
(* a held lock, unlock by the holder) and nest blocking locks in           *)
(* increasing order, so a deadlock would be the backend's.                 *)

CallLock(t, l) ==
    /\ Goto(t, "idle", "try")
    /\ Cardinality(held[t]) < MaxHeld
    /\ \A k \in held[t] : k < l
    /\ target' = [target EXCEPT ![t] = l]
    /\ UNCHANGED <<lockVars, word, pred, succ, held, queue>>

CallTrylock(t, l) ==
    /\ Goto(t, "idle", "trylock")
    /\ Cardinality(held[t]) < MaxHeld
    /\ l \notin held[t]
    /\ target' = [target EXCEPT ![t] = l]
    /\ UNCHANGED <<lockVars, word, pred, succ, held, queue>>

----------------------------------------------------------------------------
(* try_lock_fast: one compare_exchange on "locked".                        *)

TakeFlag(t, l) ==
    /\ locked' = [locked EXCEPT ![l] = TRUE]
    /\ held'   = [held EXCEPT ![t] = @ \cup {l}]

\* Mutant: a store instead of the compare_exchange.
try_lock_fast_NoCompare(t, from) ==
    /\ Goto(t, from, "mark_entered")
    /\ TakeFlag(t, target[t])
    /\ UNCHANGED <<tail, next, waiting, word, target, pred, succ, queue>>


try_lock_fast(t, from) ==
    /\ Goto(t, from, "mark_entered")
    /\ ~locked[target[t]]
    /\ TakeFlag(t, target[t])
    /\ UNCHANGED <<tail, next, waiting, word, target, pred, succ, queue>>

\* lock_with_stats falls back to the slow path.
FastPathFails(t) ==
    /\ Goto(t, "try", "mark_pending")
    /\ locked[target[t]]
    /\ UNCHANGED <<lockVars, word, target, pred, succ, held, queue>>

\* pthread_mutex_trylock returns EBUSY.
TrylockFails(t) ==
    /\ Goto(t, "trylock", "idle")
    /\ locked[target[t]]
    /\ target' = [target EXCEPT ![t] = None]
    /\ UNCHANGED <<lockVars, word, pred, succ, held, queue>>

----------------------------------------------------------------------------
(* LockBackendAdapter::lock and McsTasLockRaw::lock_slow.                  *)

AdapterLock(t) ==
    /\ Goto(t, "mark_pending", "swap")
    /\ word' = [word EXCEPT ![t] = mark_slow_path_pending(@, AdmissionEnabled)]
    /\ UNCHANGED <<lockVars, target, pred, succ, held, queue>>

\* Mutant: the node keeps the next pointer of its previous use.
SwapTail_StaleNext(t) ==
    LET l == target[t] IN
    /\ Goto(t, "swap", IF tail[l] = None THEN "front" ELSE "arm")
    /\ waiting' = [waiting EXCEPT ![t] = FALSE]
    /\ pred'    = [pred EXCEPT ![t] = tail[l]]
    /\ tail'    = [tail EXCEPT ![l] = t]
    /\ queue'   = [queue EXCEPT ![l] = Append(@, t)]
    /\ UNCHANGED <<locked, next, word, target, succ, held>>

\* The node is private until the swap, so its two stores join it.
SwapTail(t) ==
    LET l == target[t] IN
    /\ Goto(t, "swap", IF tail[l] = None THEN "front" ELSE "arm")
    /\ next'    = [next EXCEPT ![t] = None]
    /\ waiting' = [waiting EXCEPT ![t] = FALSE]
    /\ pred'    = [pred EXCEPT ![t] = tail[l]]
    /\ tail'    = [tail EXCEPT ![l] = t]
    /\ queue'   = [queue EXCEPT ![l] = Append(@, t)]
    /\ UNCHANGED <<locked, word, target, succ, held>>

\* Mutant: the waiter links without raising its waiting flag.
ArmWaiting_Unarmed(t) ==
    /\ Goto(t, "arm", "link")
    /\ UNCHANGED <<lockVars, word, target, pred, succ, held, queue>>


ArmWaiting(t) ==
    /\ Goto(t, "arm", "link")
    /\ waiting' = [waiting EXCEPT ![t] = TRUE]
    /\ UNCHANGED <<tail, locked, next, word, target, pred, succ, held, queue>>

LinkPred(t) ==
    /\ Goto(t, "link", "spin")
    /\ next' = [next EXCEPT ![pred[t]] = t]
    /\ pred' = [pred EXCEPT ![t] = None]
    /\ UNCHANGED <<tail, locked, waiting, word, target, succ, held, queue>>

SpinWaiting(t) ==
    /\ Goto(t, "spin", "front")
    /\ ~waiting[t]
    /\ UNCHANGED <<lockVars, word, target, pred, succ, held, queue>>

\* Mutant: the result of the swap on "locked" is ignored.
FrontSpin_IgnoresFlag(t) ==
    /\ Goto(t, "front", "read_next")
    /\ TakeFlag(t, target[t])
    /\ UNCHANGED <<tail, next, waiting, word, target, pred, succ, queue>>


FrontSpin(t) ==
    /\ Goto(t, "front", "read_next")
    /\ ~locked[target[t]]
    /\ TakeFlag(t, target[t])
    /\ UNCHANGED <<tail, next, waiting, word, target, pred, succ, queue>>

ReadNext(t) ==
    /\ Goto(t, "read_next", IF next[t] = None THEN "unqueue" ELSE "wake")
    /\ succ' = [succ EXCEPT ![t] = next[t]]
    /\ UNCHANGED <<lockVars, word, target, pred, held, queue>>

Unqueue(t) ==
    LET l == target[t] IN
    /\ Goto(t, "unqueue", "mark_entered")
    /\ tail[l] = t
    /\ tail'  = [tail EXCEPT ![l] = None]
    /\ queue' = [queue EXCEPT ![l] = Tail(@)]
    /\ UNCHANGED <<locked, next, waiting, word, target, pred, succ, held>>

\* Mutant: the failed compare_exchange is taken for an empty queue.
UnqueueFails_NoHandoff(t) ==
    /\ Goto(t, "unqueue", "mark_entered")
    /\ tail[target[t]] # t
    /\ UNCHANGED <<lockVars, word, target, pred, succ, held, queue>>


UnqueueFails(t) ==
    /\ Goto(t, "unqueue", "await_next")
    /\ tail[target[t]] # t
    /\ UNCHANGED <<lockVars, word, target, pred, succ, held, queue>>

\* Mutant: no wait for the successor to link.
AwaitNext_NoWait(t) ==
    /\ Goto(t, "await_next", "wake")
    /\ succ' = [succ EXCEPT ![t] = next[t]]
    /\ UNCHANGED <<lockVars, word, target, pred, held, queue>>


AwaitNext(t) ==
    /\ Goto(t, "await_next", "wake")
    /\ next[t] # None
    /\ succ' = [succ EXCEPT ![t] = next[t]]
    /\ UNCHANGED <<lockVars, word, target, pred, held, queue>>

WakeSuccessor(t) ==
    /\ Goto(t, "wake", "mark_entered")
    /\ waiting' = [waiting EXCEPT ![succ[t]] = FALSE]
    /\ succ'    = [succ EXCEPT ![t] = None]
    /\ queue'   = [queue EXCEPT ![target[t]] = Tail(@)]
    /\ UNCHANGED <<tail, locked, next, word, target, pred, held>>

----------------------------------------------------------------------------
(* record_lock_acquired and unlock_with_stats (their statistics are left   *)
(* to the sampling model).  The adapter releases the raw lock first and    *)
(* clears the admission bit afterwards.                                    *)

MarkEntered(t) ==
    /\ Goto(t, "mark_entered", "idle")
    /\ word'   = [word EXCEPT ![t] = mark_critical_section_entered(@, AdmissionEnabled)]
    /\ target' = [target EXCEPT ![t] = None]
    /\ UNCHANGED <<lockVars, pred, succ, held, queue>>

unlock_fast(t, l) ==
    /\ Goto(t, "idle", "mark_exit")
    /\ l \in held[t]
    /\ locked' = [locked EXCEPT ![l] = FALSE]
    /\ held'   = [held EXCEPT ![t] = @ \ {l}]
    /\ UNCHANGED <<tail, next, waiting, word, target, pred, succ, queue>>

AdapterUnlock(t) ==
    /\ Goto(t, "mark_exit", "idle")
    /\ word' = [word EXCEPT ![t] = mark_critical_section_exit(@, AdmissionEnabled)]
    /\ UNCHANGED <<lockVars, target, pred, succ, held, queue>>

----------------------------------------------------------------------------
Call(t) == \E l \in Locks : CallLock(t, l) \/ CallTrylock(t, l) \/ unlock_fast(t, l)

\* The steps of a call in progress.
Step(t) ==
    \/ try_lock_fast(t, "try") \/ try_lock_fast(t, "trylock")
    \/ FastPathFails(t) \/ TrylockFails(t)
    \/ AdapterLock(t) \/ SwapTail(t) \/ ArmWaiting(t) \/ LinkPred(t)
    \/ SpinWaiting(t) \/ FrontSpin(t) \/ ReadNext(t)
    \/ Unqueue(t) \/ UnqueueFails(t) \/ AwaitNext(t) \/ WakeSuccessor(t)
    \/ MarkEntered(t) \/ AdapterUnlock(t)

Next == \E t \in Threads : Call(t) \/ Step(t)

Spec == Init /\ [][Next]_vars

\* A thread inside a hook call keeps being scheduled; a caller owes nothing.
FairSpec == Spec /\ \A t \in Threads : WF_vars(Step(t))

----------------------------------------------------------------------------
\* Types, and where a local is meaningful: a thread about to wake a
\* successor or to link behind a predecessor has a non-null pointer to it.
TypeOK ==
    /\ tail    \in [Locks -> Threads \cup {None}]
    /\ locked  \in [Locks -> BOOLEAN]
    /\ next    \in [Threads -> Threads \cup {None}]
    /\ waiting \in [Threads -> BOOLEAN]
    /\ word    \in [Threads -> Words]
    /\ pc      \in [Threads -> Labels]
    /\ target  \in [Threads -> Locks \cup {None}]
    /\ pred    \in [Threads -> Threads \cup {None}]
    /\ succ    \in [Threads -> Threads \cup {None}]
    /\ held    \in [Threads -> SUBSET Locks]
    /\ \A t \in Threads :
        /\ pc[t] \in Labels \ {"idle", "mark_exit"} => target[t] \in Locks
        /\ pc[t] \in {"arm", "link"} => pred[t] \in Threads
        /\ pc[t] = "wake" => succ[t] \in Threads

\* A lock has at most one holder, and its flag is set exactly while it has
\* one, through barging, handoff and unlock in any order.
MutualExclusion ==
    /\ \A t, u \in Threads : t # u => held[t] \cap held[u] = {}
    /\ \A l \in Locks : locked[l] <=> \E t \in Threads : l \in held[t]

OneFrontRunner ==
    \A t, u \in Threads :
        pc[t] \in FrontLabels /\ pc[u] \in FrontLabels /\ target[t] = target[u] => t = u

\* Pointers and flags of the shared nodes describe the order of the swaps:
\* tail is the last thread queued, a node points to its successor once that
\* has linked, the head alone is past waiting and every other waits armed; and
\* one thread at most competes for the flag beside barging callers.
QueueShape ==
    /\ OneFrontRunner
    /\ \A l \in Locks : LET q == queue[l] IN
           /\ q \in Seq(Threads)
           /\ tail[l] = IF q = <<>> THEN None ELSE q[Len(q)]
           /\ \A i \in 1..Len(q) :
               /\ target[q[i]] = l
               /\ next[q[i]] = IF i < Len(q) /\ pc[q[i + 1]] \notin {"arm", "link"}
                                  THEN q[i + 1] ELSE None
               /\ i = 1 => \/ pc[q[1]] \in FrontLabels
                           \/ pc[q[1]] = "spin" /\ ~waiting[q[1]]
               /\ i > 1 => \/ pc[q[i]] \in {"link", "spin"} /\ waiting[q[i]]
                           \/ pc[q[i]] = "arm"

\* While a caller runs with a lock held, the scheduler reads a word that
\* says so (it releases the thread's admission on a word that does not).
HolderMarked ==
    AdmissionEnabled =>
        \A t \in Threads : pc[t] = "idle" /\ held[t] # {} => IN_CRITICAL_SECTION \in word[t]

\* Between calls the word says neither more nor less than what its thread
\* does: a stale bit would keep an admission, a lost one would drop it.
WordTellsCriticalSection ==
    /\ HolderMarked
    /\ \A t \in Threads : pc[t] = "idle" =>
        /\ IN_CRITICAL_SECTION \in word[t] => held[t] # {}
        /\ SLOW_PATH_PENDING \notin word[t]

\* The slow path serves waiters in the order of their swaps on tail.
FifoSlowPath ==
    [][\A t \in Threads :
         pc[t] = "front" /\ pc'[t] = "read_next" => Head(queue[target[t]]) = t]_vars

============================================================================
