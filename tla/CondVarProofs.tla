--------------------------- MODULE CondVarProofs ---------------------------
(***************************************************************************)
(* No notification is lost, for any number of waiters, notifiers and       *)
(* calls, as long as nobody's wait can time out.  The count of waiters     *)
(* does not equal any set of them: what it covers is those that wait for   *)
(* the present sequence number, and, when no broadcast is under way, also  *)
(* those that an earlier change of it has not woken yet.                   *)
(***************************************************************************)
EXTENDS CondVar, FunctionTheorems, FiniteSetTheorems, SequenceTheorems, TLAPS

\* What a waiter and a notifier each may be doing.
TypeInv ==
    /\ crew \in Crews /\ seq \in Nat /\ waiters \in Nat /\ calls \in Nat
    /\ lock \in Waiters \cup {None}
    /\ mySeq \in [Waiters -> Nat] /\ \A w \in Waiters : mySeq[w] <= seq
    /\ pc \in [Threads -> WaiterLabels \cup NotifierLabels]
    /\ \A w \in Waiters : pc[w] \in WaiterLabels
    /\ \A p \in Notifiers : pc[p] \in NotifierLabels
    /\ futex \in Seq(Waiters)

\* Each notifier about to increment seq has made a call that it answers for.
CallsInv ==
    /\ calls <= crew.calls
    /\ seq + Cardinality(At({"bump_one", "bump_all"})) <= calls

\* The futex holds those that are asleep, each once, in the order in which
\* they went to sleep, and so in the order of their sequence numbers.
FutexInv ==
    /\ \A i \in 1..Len(futex) : pc[futex[i]] = "asleep"
    /\ \A w \in Waiters : pc[w] = "asleep" => \E i \in 1..Len(futex) : futex[i] = w
    /\ \A i, j \in 1..Len(futex) : futex[i] = futex[j] => i = j
    /\ \A i, j \in 1..Len(futex) : i <= j => mySeq[futex[i]] <= mySeq[futex[j]]

\* Waiters from AddWaiter on, whose wait the next change of seq will end ...
Fresh ==
    {w \in Waiters : pc[w] \in {"counted", "check", "wait", "asleep"} /\ mySeq[w] = seq}

\* ... and those that are asleep although it has changed.
Concerned == Fresh \cup {w \in Waiters : pc[w] = "asleep"}

\* The count covers them, together with the calls that have taken from it.
CountInv ==
    crew.timed = {} =>
        /\ \A w \in Waiters : pc[w] \notin {"expired", "cancel"}
        /\ At({"bump_all"}) = {} =>
              Cardinality(Fresh) <= waiters + Cardinality(At({"bump_one"}))
        /\ At({"bump_all", "wake_all"}) = {} =>
              Cardinality(Concerned) <= waiters + Cardinality(At({"bump_one", "wake_one"}))

----------------------------------------------------------------------------
(* The queue of the futex.                                                 *)

\* Elements behind the removed one move up by one place.
LEMMA RemoveAtProperties ==
  ASSUME NEW S, NEW s \in Seq(S), NEW i \in 1..Len(s)
  PROVE  /\ RemoveAt(s, i) \in Seq(S) /\ Len(RemoveAt(s, i)) = Len(s) - 1
         /\ \A j \in 1..(Len(s) - 1) : RemoveAt(s, i)[j] = IF j < i THEN s[j] ELSE s[j + 1]
<1> DEFINE a == SubSeq(s, 1, i - 1)
           b == SubSeq(s, i + 1, Len(s))
<1>1. /\ a \in Seq(S) /\ Len(a) = i - 1
      /\ \A j \in 1..(i - 1) : a[j] = s[j]
  BY SubSeqProperties
<1>2. /\ b \in Seq(S) /\ Len(b) = Len(s) - i
      /\ \A j \in 1..(Len(s) - i) : b[j] = s[i + j]
  BY SubSeqProperties
<1>3. RemoveAt(s, i) = a \o b
  BY DEF RemoveAt
<1> HIDE DEF a, b
<1>4. /\ a \o b \in Seq(S) /\ Len(a \o b) = Len(s) - 1
      /\ \A j \in 1..(Len(s) - 1) :
            (a \o b)[j] = IF j <= i - 1 THEN a[j] ELSE b[j - (i - 1)]
  <2>1. /\ a \o b \in Seq(S) /\ Len(a \o b) = Len(a) + Len(b)
        /\ \A j \in 1..(Len(a) + Len(b)) :
              (a \o b)[j] = IF j <= Len(a) THEN a[j] ELSE b[j - Len(a)]
    BY <1>1, <1>2, ConcatProperties
  <2>2. i \in Nat /\ Len(s) \in Nat /\ Len(a) + Len(b) = Len(s) - 1 /\ Len(a) = i - 1
    BY <1>1, <1>2
  <2>3. QED
    BY <2>1, <2>2
<1>5. \A j \in 1..(Len(s) - 1) : (a \o b)[j] = IF j < i THEN s[j] ELSE s[j + 1]
  <2> SUFFICES ASSUME NEW j \in 1..(Len(s) - 1)
               PROVE  (a \o b)[j] = IF j < i THEN s[j] ELSE s[j + 1]
    OBVIOUS
  <2>1. CASE j < i
    BY <2>1, <1>1, <1>4
  <2>2. CASE ~(j < i)
    <3>1. j - (i - 1) \in 1..(Len(s) - i) /\ i + (j - (i - 1)) = j + 1 /\ ~(j <= i - 1)
      BY <2>2
    <3>2. QED
      BY <2>2, <3>1, <1>2, <1>4
  <2>3. QED
    BY <2>1, <2>2
<1>6. QED
  BY <1>3, <1>4, <1>5

\* A wake takes the first k sleepers, n of them or all.
LEMMA WakeEffect ==
  ASSUME TypeInv, NEW p \in Notifiers, NEW n \in Nat, futex_wake(p, n)
  PROVE  \E k \in 0..Len(futex) :
            /\ k = IF n <= Len(futex) THEN n ELSE Len(futex)
            /\ futex' \in Seq(Waiters) /\ Len(futex') = Len(futex) - k
            /\ \A j \in 1..(Len(futex) - k) : futex'[j] = futex[j + k]
            /\ pc' = [q \in Threads |->
                        IF q = p THEN "idle"
                        ELSE IF \E i \in 1..k : futex[i] = q THEN "check" ELSE pc[q]]
<1>1. futex \in Seq(Waiters) /\ Len(futex) \in Nat
  BY DEF TypeInv
<1> DEFINE k == IF n <= Len(futex) THEN n ELSE Len(futex)
<1>2. k \in 0..Len(futex)
  BY <1>1
<1>3. Min({n, Len(futex)}) = k
  <2>1. k \in {n, Len(futex)} /\ \A y \in {n, Len(futex)} : k <= y
    BY <1>1
  <2>2. \A x \in {n, Len(futex)} : (\A y \in {n, Len(futex)} : x <= y) => x = k
    BY <1>1
  <2>3. QED
    BY <2>1, <2>2 DEF Min
<1>4. futex' = SubSeq(futex, n + 1, Len(futex))
  BY DEF futex_wake
<1>5. /\ futex' \in Seq(Waiters) /\ Len(futex') = Len(futex) - k
      /\ \A j \in 1..(Len(futex) - k) : futex'[j] = futex[j + k]
  <2>1. CASE n <= Len(futex)
    <3>1. /\ SubSeq(futex, n + 1, Len(futex)) \in Seq(Waiters)
          /\ Len(SubSeq(futex, n + 1, Len(futex))) = Len(futex) - n
          /\ \A j \in 1..(Len(futex) - n) :
                SubSeq(futex, n + 1, Len(futex))[j] = futex[j + n]
      BY <2>1, <1>1, SubSeqProperties
    <3>2. QED
      BY <2>1, <3>1, <1>4
  <2>2. CASE ~(n <= Len(futex))
    <3>1. SubSeq(futex, n + 1, Len(futex)) = << >>
      BY <2>2, <1>1, SubSeqEmpty
    <3>2. QED
      BY <2>2, <3>1, <1>1, <1>4, EmptySeq
  <2>3. QED
    BY <2>1, <2>2
<1>6. \A q \in Threads : q \in {futex[i] : i \in 1..k} <=> \E i \in 1..k : futex[i] = q
  OBVIOUS
<1>7. pc' = [q \in Threads |-> IF q = p THEN "idle"
                               ELSE IF q \in {futex[i] : i \in 1..k} THEN "check" ELSE pc[q]]
  BY <1>3, Zenon DEF futex_wake
<1> HIDE DEF k
<1>8. pc' = [q \in Threads |-> IF q = p THEN "idle"
                               ELSE IF \E i \in 1..k : futex[i] = q THEN "check" ELSE pc[q]]
  BY <1>6, <1>7
<1>9. QED
  BY <1>2, <1>5, <1>8 DEF k

----------------------------------------------------------------------------
\* Every variable keeps its type, no wait has a number that is still to come,
\* and waiters and notifiers are at places of their own calls.
LEMMA TypeInvariant == Spec => []TypeInv
<1> USE ThreadsAssumption DEF TypeInv, Threads, WaiterLabels, NotifierLabels
<1>1. Init => TypeInv
  BY EmptySeq DEF Init
<1>2. TypeInv /\ [Next]_vars => TypeInv'
  <2> SUFFICES ASSUME TypeInv, [Next]_vars
               PROVE  TypeInv'
    OBVIOUS
  <2>1. CASE UNCHANGED vars
    BY <2>1 DEF vars
  <2>2. ASSUME NEW w \in Waiters, UNCHANGED crew,
               LoadSeq(w) \/ AddWaiter(w) \/ Unlock(w) \/ CallerLocks(w) \/ Relock(w)
        PROVE  TypeInv'
    <3>1. CASE LoadSeq(w)
      BY <2>2, <3>1 DEF LoadSeq, Goto
    <3>2. CASE AddWaiter(w)
      BY <2>2, <3>2 DEF AddWaiter, Goto
    <3>3. CASE Unlock(w)
      BY <2>2, <3>3 DEF Unlock, Goto
    <3>4. CASE CallerLocks(w)
      BY <2>2, <3>4 DEF CallerLocks, Goto
    <3>5. CASE Relock(w)
      BY <2>2, <3>5 DEF Relock, Goto
    <3>6. QED
      BY <2>2, <3>1, <3>2, <3>3, <3>4, <3>5
  <2>3. ASSUME NEW w \in Waiters, UNCHANGED crew,
               CheckSeq(w) \/ CheckAfterTimeout(w) \/ cancel_one_waiter(w)
        PROVE  TypeInv'
    <3>1. CASE CheckSeq(w)
      BY <2>3, <3>1 DEF CheckSeq, Goto
    <3>2. CASE CheckAfterTimeout(w)
      BY <2>3, <3>2 DEF CheckAfterTimeout, Goto
    <3>3. CASE cancel_one_waiter(w)
      BY <2>3, <3>3 DEF cancel_one_waiter, Goto
    <3>4. QED
      BY <2>3, <3>1, <3>2, <3>3
  <2>4. ASSUME NEW w \in Waiters, UNCHANGED crew, futex_wait(w)
        PROVE  TypeInv'
    <3>1. futex' \in Seq(Waiters)
      BY <2>4, AppendProperties DEF futex_wait
    <3>2. QED
      BY <2>4, <3>1 DEF futex_wait, Goto
  <2>5. ASSUME NEW w \in Waiters, UNCHANGED crew, FutexInterrupted(w) \/ FutexTimesOut(w)
        PROVE  TypeInv'
    <3>1. futex' \in Seq(Waiters)
      <4>1. PICK i \in DOMAIN futex : futex' = RemoveAt(futex, i)
        BY <2>5 DEF FutexInterrupted, FutexTimesOut, Dequeue
      <4>2. i \in 1..Len(futex)
        BY <4>1, LenProperties
      <4>3. QED
        BY <4>1, <4>2, RemoveAtProperties
    <3>2. QED
      <4>1. CASE FutexInterrupted(w)
        BY <2>5, <3>1, <4>1 DEF FutexInterrupted, Goto
      <4>2. CASE FutexTimesOut(w)
        BY <2>5, <3>1, <4>2 DEF FutexTimesOut, Goto
      <4>3. QED
        BY <2>5, <4>1, <4>2
  <2>6. ASSUME NEW p \in Notifiers, UNCHANGED crew,
               signal_one_waiter(p) \/ BroadcastTakesAll(p) \/ BumpSeq(p)
        PROVE  TypeInv'
    <3>1. CASE signal_one_waiter(p)
      BY <2>6, <3>1 DEF signal_one_waiter, Goto
    <3>2. CASE BroadcastTakesAll(p)
      BY <2>6, <3>2 DEF BroadcastTakesAll, Goto
    <3>3. CASE BumpSeq(p)
      <4>1. \E to \in {"wake_one", "wake_all"} : pc' = [pc EXCEPT ![p] = to]
        BY <3>3 DEF BumpSeq, Goto
      <4>2. seq' = seq + 1 /\ UNCHANGED <<waiters, lock, mySeq, futex, calls>>
        BY <3>3 DEF BumpSeq
      <4>3. \A w \in Waiters : mySeq[w] <= seq + 1
        OBVIOUS
      <4>4. QED
        BY <2>6, <4>1, <4>2, <4>3
    <3>4. QED
      BY <2>6, <3>1, <3>2, <3>3
  <2>7. ASSUME NEW p \in Notifiers, UNCHANGED crew, NEW n \in Nat, futex_wake(p, n)
        PROVE  TypeInv'
    <3>1. PICK k \in 0..Len(futex) :
            /\ k = IF n <= Len(futex) THEN n ELSE Len(futex)
            /\ futex' \in Seq(Waiters) /\ Len(futex') = Len(futex) - k
            /\ \A j \in 1..(Len(futex) - k) : futex'[j] = futex[j + k]
            /\ pc' = [q \in Threads |->
                        IF q = p THEN "idle"
                        ELSE IF \E i \in 1..k : futex[i] = q THEN "check" ELSE pc[q]]
      <4> HIDE DEF TypeInv, Threads
      <4> QED
        BY <2>7, WakeEffect
    <3>2. \A i \in 1..k : futex[i] \in Waiters
      BY <3>1
    <3>3. \A q \in Notifiers : pc'[q] = IF q = p THEN "idle" ELSE pc[q]
      BY <3>1, <3>2
    <3>4. \A q \in Waiters : pc'[q] \in {"check", pc[q]}
      BY <3>1
    <3>5. pc' \in [Threads -> WaiterLabels \cup NotifierLabels]
      BY <3>1
    <3>6. UNCHANGED <<seq, waiters, lock, mySeq, calls>>
      BY <2>7 DEF futex_wake
    <3>7. QED
      BY <2>7, <3>1, <3>3, <3>4, <3>5, <3>6
  <2>8. Cardinality(Waiters) \in Nat
    BY FS_CardinalityType
  <2>9. CASE Next
    BY <2>2, <2>3, <2>4, <2>5, <2>6, <2>7, <2>8, <2>9
    DEF Next, WaiterStep, NotifierStep, WakeOne, WakeAll
  <2>10. QED
    BY <2>1, <2>9
<1>3. QED
  BY <1>1, <1>2, PTL DEF Spec

----------------------------------------------------------------------------
(* How the number of notifiers at a place changes.                         *)

CallLabels == {"bump_one", "bump_all", "wake_one", "wake_all"}

\* Only notifiers are at these places, and there are finitely many.
LEMMA NotifiersAt ==
  ASSUME TypeInv, NEW L \in SUBSET CallLabels
  PROVE  /\ At(L) = {p \in Notifiers : pc[p] \in L}
         /\ IsFiniteSet(At(L)) /\ Cardinality(At(L)) \in Nat
<1>1. At(L) = {p \in Notifiers : pc[p] \in L}
  BY ThreadsAssumption DEF TypeInv, At, Threads, CallLabels, WaiterLabels
<1>2. IsFiniteSet(At(L))
  BY <1>1, ThreadsAssumption, FS_Subset
<1>3. QED
  BY <1>1, <1>2, FS_CardinalityType

\* Steps that move no notifier.
LEMMA NotifiersStay ==
  ASSUME TypeInv, TypeInv', NEW L \in SUBSET CallLabels,
         \A p \in Notifiers : pc'[p] = pc[p]
  PROVE  At(L)' = At(L)
<1>1. At(L)' = {p \in Notifiers : pc'[p] \in L}
  BY ThreadsAssumption DEF TypeInv, At, Threads, CallLabels, WaiterLabels
<1>2. QED
  BY <1>1, NotifiersAt

\* Steps that move one.
LEMMA NotifierMoves ==
  ASSUME TypeInv, TypeInv', NEW L \in SUBSET CallLabels, NEW p \in Notifiers,
         \A q \in Notifiers \ {p} : pc'[q] = pc[q]
  PROVE  /\ pc[p] \in L /\ pc'[p] \notin L =>
                At(L)' = At(L) \ {p} /\ Cardinality(At(L)') = Cardinality(At(L)) - 1
         /\ pc[p] \notin L /\ pc'[p] \in L =>
                At(L)' = At(L) \cup {p} /\ Cardinality(At(L)') = Cardinality(At(L)) + 1
         /\ (pc[p] \in L <=> pc'[p] \in L) => At(L)' = At(L)
         /\ Cardinality(At(L)') \in Nat
<1>1. At(L) = {q \in Notifiers : pc[q] \in L} /\ IsFiniteSet(At(L))
  BY NotifiersAt
<1>2. At(L)' = {q \in Notifiers : pc'[q] \in L}
  BY ThreadsAssumption DEF TypeInv, At, Threads, CallLabels, WaiterLabels
<1>3. Cardinality(At(L)') \in Nat
  BY <1>2, ThreadsAssumption, FS_Subset, FS_CardinalityType
<1>4. CASE pc[p] \in L /\ pc'[p] \notin L
  <2>1. At(L)' = At(L) \ {p} /\ p \in At(L)
    BY <1>1, <1>2, <1>4
  <2>2. QED
    BY <1>1, <1>3, <1>4, <2>1, FS_RemoveElement
<1>5. CASE pc[p] \notin L /\ pc'[p] \in L
  <2>1. At(L)' = At(L) \cup {p} /\ p \notin At(L)
    BY <1>1, <1>2, <1>5
  <2>2. QED
    BY <1>1, <1>3, <1>5, <2>1, FS_AddElement
<1>6. CASE pc[p] \in L <=> pc'[p] \in L
  BY <1>1, <1>2, <1>3, <1>6
<1>7. QED
  BY <1>4, <1>5, <1>6

\* A wake ends the call of its notifier and moves no other.
LEMMA WakeMovesOne ==
  ASSUME TypeInv, NEW p \in Notifiers, NEW n \in Nat, futex_wake(p, n)
  PROVE  pc'[p] = "idle" /\ \A q \in Notifiers \ {p} : pc'[q] = pc[q]
<1>1. PICK k \in 0..Len(futex) :
        /\ k = IF n <= Len(futex) THEN n ELSE Len(futex)
        /\ futex' \in Seq(Waiters) /\ Len(futex') = Len(futex) - k
        /\ \A j \in 1..(Len(futex) - k) : futex'[j] = futex[j + k]
        /\ pc' = [q \in Threads |->
                    IF q = p THEN "idle"
                    ELSE IF \E i \in 1..k : futex[i] = q THEN "check" ELSE pc[q]]
  BY WakeEffect
<1>2. \A i \in 1..k : futex[i] \in Waiters
  BY <1>1 DEF TypeInv
<1>3. QED
  BY <1>1, <1>2, ThreadsAssumption DEF Threads

\* The notifiers answer for the numbers that seq may still take.
LEMMA CallsInvariant == Spec => []CallsInv
<1> DEFINE Bumping == {"bump_one", "bump_all"}
<1>1. Init => CallsInv
  <2> SUFFICES ASSUME Init
               PROVE  CallsInv
    OBVIOUS
  <2>1. At(Bumping) = {}
    BY DEF Init, At
  <2>2. QED
    <3>1. Cardinality(At(Bumping)) = 0
      BY <2>1, FS_EmptySet
    <3>2. crew.calls \in Nat
      BY ThreadsAssumption DEF Init
    <3>3. QED
      BY <3>1, <3>2 DEF Init, CallsInv
<1>2. TypeInv /\ TypeInv' /\ CallsInv /\ [Next]_vars => CallsInv'
  <2> SUFFICES ASSUME TypeInv, TypeInv', CallsInv, [Next]_vars
               PROVE  CallsInv'
    OBVIOUS
  <2>1. /\ seq \in Nat /\ calls \in Nat /\ crew.calls \in Nat
        /\ Cardinality(At(Bumping)) \in Nat /\ Bumping \in SUBSET CallLabels
    BY NotifiersAt, ThreadsAssumption DEF TypeInv, CallLabels
  <2>2. CASE UNCHANGED <<crew, seq, calls>> /\ At(Bumping)' = At(Bumping)
    BY <2>2 DEF CallsInv
  <2>3. CASE UNCHANGED vars
    <3>1. \A p \in Notifiers : pc'[p] = pc[p]
      BY <2>3 DEF vars
    <3>2. QED
      BY <2>1, <2>2, <2>3, <3>1, NotifiersStay DEF vars
  <2>4. ASSUME NEW w \in Waiters, UNCHANGED crew, WaiterStep(w)
        PROVE  CallsInv'
    <3>1. UNCHANGED <<seq, calls>>
      BY <2>4 DEF WaiterStep, CallerLocks, LoadSeq, AddWaiter, Unlock, CheckSeq, futex_wait,
           FutexInterrupted, FutexTimesOut, CheckAfterTimeout, cancel_one_waiter, Relock
    <3>2. \E to \in WaiterLabels : pc' = [pc EXCEPT ![w] = to]
      BY <2>4 DEF WaiterStep, CallerLocks, LoadSeq, AddWaiter, Unlock, CheckSeq, futex_wait, Goto,
           FutexInterrupted, FutexTimesOut, CheckAfterTimeout, cancel_one_waiter, Relock, WaiterLabels
    <3>3. \A p \in Notifiers : pc'[p] = pc[p]
      BY <3>2, ThreadsAssumption DEF TypeInv, Threads
    <3>4. QED
      BY <2>1, <2>2, <2>4, <3>1, <3>3, NotifiersStay
  <2>5. ASSUME NEW p \in Notifiers, UNCHANGED crew, signal_one_waiter(p) \/ BroadcastTakesAll(p)
        PROVE  CallsInv'
    <3>1. /\ calls < crew.calls /\ calls' = calls + 1 /\ UNCHANGED seq
          /\ pc[p] = "idle" /\ \A q \in Notifiers \ {p} : pc'[q] = pc[q]
      BY <2>5 DEF signal_one_waiter, BroadcastTakesAll, Goto, TypeInv, Threads
    <3>2. Cardinality(At(Bumping)') <= Cardinality(At(Bumping)) + 1
      <4>1. CASE pc'[p] \in Bumping
        BY <2>1, <3>1, <4>1, NotifierMoves
      <4>2. CASE pc'[p] \notin Bumping
        BY <2>1, <3>1, <4>2, NotifierMoves
      <4>3. QED
        BY <4>1, <4>2
    <3>3. Cardinality(At(Bumping)') \in Nat
      BY <2>1, <3>1, NotifierMoves
    <3>4. QED
      BY <2>1, <2>5, <3>1, <3>2, <3>3 DEF CallsInv
  <2>6. ASSUME NEW p \in Notifiers, UNCHANGED crew, BumpSeq(p)
        PROVE  CallsInv'
    <3>1. /\ pc[p] \in Bumping /\ pc'[p] \notin Bumping
          /\ \A q \in Notifiers \ {p} : pc'[q] = pc[q]
      BY <2>6 DEF BumpSeq, Goto, TypeInv, Threads
    <3>2. Cardinality(At(Bumping)') = Cardinality(At(Bumping)) - 1
      BY <2>1, <3>1, NotifierMoves
    <3>3. seq' = seq + 1 /\ UNCHANGED calls
      BY <2>6 DEF BumpSeq
    <3>4. QED
      BY <2>1, <2>6, <3>2, <3>3 DEF CallsInv
  <2>7. ASSUME NEW p \in Notifiers, UNCHANGED crew, WakeOne(p) \/ WakeAll(p)
        PROVE  CallsInv'
    <3>1. /\ pc[p] \in {"wake_one", "wake_all"} /\ UNCHANGED <<seq, calls>>
          /\ \E n \in Nat : futex_wake(p, n)
      BY <2>7, ThreadsAssumption, FS_CardinalityType DEF WakeOne, WakeAll, futex_wake
    <3>2. pc'[p] = "idle" /\ \A q \in Notifiers \ {p} : pc'[q] = pc[q]
      BY <3>1, WakeMovesOne
    <3>3. At(Bumping)' = At(Bumping)
      BY <2>1, <3>1, <3>2, NotifierMoves
    <3>4. QED
      BY <2>2, <2>7, <3>1, <3>3
  <2>8. QED
    BY <2>3, <2>4, <2>5, <2>6, <2>7, ThreadsAssumption DEF Next, NotifierStep, TypeInv
<1>3. QED
  BY <1>1, <1>2, TypeInvariant, PTL DEF Spec

\* Every variable has its type, the count never falls below zero, and seq is
\* never incremented more often than there are notifying calls.
THEOREM TypeCorrect == Spec => []TypeOK
<1>1. TypeInv /\ CallsInv => TypeOK
  <2> SUFFICES ASSUME TypeInv, CallsInv
               PROVE  TypeOK
    OBVIOUS
  <2>1. Cardinality(At({"bump_one", "bump_all"})) \in Nat
    BY NotifiersAt DEF CallLabels
  <2>2. crew.calls \in Nat
    BY ThreadsAssumption DEF TypeInv
  <2>3. QED
    BY <2>1, <2>2 DEF TypeInv, CallsInv, TypeOK
<1>2. QED
  BY <1>1, TypeInvariant, CallsInvariant, PTL

----------------------------------------------------------------------------
(* Who is asleep.                                                          *)

\* Steps that neither put a waiter to sleep nor wake one.
LEMMA NoSleeperMoves ==
  ASSUME TypeInv, FutexInv, UNCHANGED futex,
         \A w \in Waiters : /\ pc'[w] = "asleep" <=> pc[w] = "asleep"
                            /\ pc[w] = "asleep" => mySeq'[w] = mySeq[w]
  PROVE  FutexInv'
<1>1. \A i \in 1..Len(futex) : futex[i] \in Waiters
  BY DEF TypeInv
<1>2. QED
  BY <1>1 DEF FutexInv

\* A waiter at the end of the queue has the highest number.
LEMMA SleeperAppended ==
  ASSUME TypeInv, FutexInv, NEW w \in Waiters, futex_wait(w), seq = mySeq[w]
  PROVE  FutexInv'
<1> DEFINE n == Len(futex)
<1>1. /\ futex \in Seq(Waiters) /\ n \in Nat /\ \A i \in 1..n : futex[i] \in Waiters
      /\ \A u \in Waiters : mySeq[u] <= seq /\ mySeq[u] \in Nat
  BY DEF TypeInv
<1>2. /\ futex' = Append(futex, w) /\ UNCHANGED mySeq
      /\ pc[w] = "wait" /\ pc'[w] = "asleep" /\ \A u \in Waiters \ {w} : pc'[u] = pc[u]
  BY DEF futex_wait, Goto, TypeInv, Threads
<1>3. Len(futex') = n + 1 /\ futex'[n + 1] = w /\ \A i \in 1..n : futex'[i] = futex[i]
  BY <1>1, <1>2, AppendProperties
<1>4. \A i \in 1..n : futex[i] # w
  BY <1>2 DEF FutexInv
<1> HIDE DEF n
<1>5. \A i \in 1..(n + 1) : i \in 1..n \/ i = n + 1
  BY <1>1 DEF n
<1>6. \A i \in 1..(n + 1) : pc'[futex'[i]] = "asleep"
  <2> SUFFICES ASSUME NEW i \in 1..(n + 1)
               PROVE  pc'[futex'[i]] = "asleep"
    OBVIOUS
  <2>1. CASE i = n + 1
    BY <2>1, <1>2, <1>3
  <2>2. CASE i \in 1..n
    <3>1. pc[futex[i]] = "asleep"
      BY <2>2 DEF FutexInv, n
    <3>2. QED
      BY <2>2, <3>1, <1>1, <1>2, <1>3, <1>4
  <2>3. QED
    BY <2>1, <2>2, <1>5
<1>7. \A u \in Waiters : pc'[u] = "asleep" => \E i \in 1..(n + 1) : futex'[i] = u
  <2> SUFFICES ASSUME NEW u \in Waiters, pc'[u] = "asleep"
               PROVE  \E i \in 1..(n + 1) : futex'[i] = u
    OBVIOUS
  <2>1. n + 1 \in 1..(n + 1) /\ \A i \in 1..n : i \in 1..(n + 1)
    BY <1>1 DEF n
  <2>2. CASE u = w
    BY <2>1, <2>2, <1>3
  <2>3. CASE u # w
    <3>1. PICK i \in 1..n : futex[i] = u
      BY <2>3, <1>2 DEF FutexInv, n
    <3>2. QED
      BY <2>1, <3>1, <1>3
  <2>4. QED
    BY <2>2, <2>3
<1>8. \A i, j \in 1..(n + 1) : futex'[i] = futex'[j] => i = j
  <2>1. \A i, j \in 1..n : futex[i] = futex[j] => i = j
    BY DEF FutexInv, n
  <2>2. QED
    BY <2>1, <1>3, <1>4, <1>5
<1>9. \A i, j \in 1..(n + 1) : i <= j => mySeq[futex'[i]] <= mySeq[futex'[j]]
  <2> SUFFICES ASSUME NEW i \in 1..(n + 1), NEW j \in 1..(n + 1), i <= j
               PROVE  mySeq[futex'[i]] <= mySeq[futex'[j]]
    OBVIOUS
  <2>1. CASE j = n + 1
    <3>1. futex'[i] \in Waiters
      BY <1>1, <1>3, <1>5
    <3>2. mySeq[futex'[i]] <= seq
      BY <3>1, <1>1
    <3>3. QED
      BY <2>1, <3>2, <1>3
  <2>2. CASE j \in 1..n
    <3>1. i \in 1..n
      BY <2>2, <1>1 DEF n
    <3>2. mySeq[futex[i]] <= mySeq[futex[j]]
      BY <2>2, <3>1 DEF FutexInv, n
    <3>3. QED
      BY <2>2, <3>1, <3>2, <1>3
  <2>3. QED
    BY <2>1, <2>2, <1>5
<1>10. QED
  BY <1>2, <1>3, <1>6, <1>7, <1>8, <1>9 DEF FutexInv

\* One sleeper is taken out of the queue, wherever it is.
LEMMA SleeperRemoved ==
  ASSUME TypeInv, FutexInv, NEW w \in Waiters, pc[w] = "asleep", Dequeue(w), pc'[w] # "asleep",
         \A u \in Waiters \ {w} : pc'[u] = pc[u], UNCHANGED mySeq
  PROVE  FutexInv'
<1> DEFINE n == Len(futex)
<1>1. futex \in Seq(Waiters) /\ n \in Nat /\ \A i \in 1..n : futex[i] \in Waiters
  BY DEF TypeInv
<1>2. PICK k \in 1..n : futex[k] = w /\ futex' = RemoveAt(futex, k)
  BY <1>1, LenProperties DEF Dequeue
<1> DEFINE from(i) == IF i < k THEN i ELSE i + 1
<1>3. Len(futex') = n - 1 /\ \A i \in 1..(n - 1) : futex'[i] = futex[from(i)]
  <2> DEFINE r == RemoveAt(futex, k)
  <2>1. /\ Len(r) = Len(futex) - 1
        /\ \A i \in 1..(Len(futex) - 1) : r[i] = IF i < k THEN futex[i] ELSE futex[i + 1]
    BY <1>1, RemoveAtProperties
  <2>2. futex' = r
    BY <1>2
  <2> HIDE DEF r
  <2>3. QED
    BY <2>1, <2>2
<1> HIDE DEF n
<1>4. \A i \in 1..(n - 1) : from(i) \in 1..n /\ from(i) # k
  BY <1>1, <1>2
<1>5. \A i, j \in 1..(n - 1) : i <= j => from(i) <= from(j)
  BY <1>1, <1>2
<1>5a. \A i, j \in 1..(n - 1) : from(i) = from(j) => i = j
  BY <1>1, <1>2
<1>6. \A i \in 1..n : i # k => \E j \in 1..(n - 1) : from(j) = i
  <2> SUFFICES ASSUME NEW i \in 1..n, i # k
               PROVE  \E j \in 1..(n - 1) : from(j) = i
    OBVIOUS
  <2>1. CASE i < k
    <3>1. i \in 1..(n - 1) /\ from(i) = i
      BY <2>1, <1>1, <1>2
    <3>2. QED
      BY <3>1
  <2>2. CASE i > k
    <3>1. i - 1 \in 1..(n - 1) /\ from(i - 1) = i
      BY <2>2, <1>1, <1>2
    <3>2. QED
      BY <3>1
  <2>3. QED
    BY <2>1, <2>2, <1>1, <1>2
<1> HIDE DEF from
<1>7. /\ \A i \in 1..n : pc[futex[i]] = "asleep"
      /\ \A u \in Waiters : pc[u] = "asleep" => \E i \in 1..n : futex[i] = u
      /\ \A i, j \in 1..n : futex[i] = futex[j] => i = j
      /\ \A i, j \in 1..n : i <= j => mySeq[futex[i]] <= mySeq[futex[j]]
  BY DEF FutexInv, n
<1>8. \A i \in 1..(n - 1) : futex'[i] \in Waiters \ {w} /\ pc'[futex'[i]] = "asleep"
  <2> SUFFICES ASSUME NEW i \in 1..(n - 1)
               PROVE  futex'[i] \in Waiters \ {w} /\ pc'[futex'[i]] = "asleep"
    OBVIOUS
  <2>1. from(i) \in 1..n /\ from(i) # k /\ futex'[i] = futex[from(i)]
    BY <1>3, <1>4
  <2>2. futex[from(i)] \in Waiters /\ futex[from(i)] # w /\ pc[futex[from(i)]] = "asleep"
    BY <2>1, <1>1, <1>2, <1>7
  <2>3. QED
    BY <2>1, <2>2
<1>9. \A u \in Waiters : pc'[u] = "asleep" => \E i \in 1..(n - 1) : futex'[i] = u
  <2> SUFFICES ASSUME NEW u \in Waiters, pc'[u] = "asleep"
               PROVE  \E i \in 1..(n - 1) : futex'[i] = u
    OBVIOUS
  <2>1. PICK i \in 1..n : futex[i] = u /\ i # k
    BY <1>2, <1>7
  <2>2. PICK j \in 1..(n - 1) : from(j) = i
    BY <2>1, <1>6
  <2>3. QED
    BY <2>1, <2>2, <1>3
<1>10. \A i, j \in 1..(n - 1) : futex'[i] = futex'[j] => i = j
  <2> SUFFICES ASSUME NEW i \in 1..(n - 1), NEW j \in 1..(n - 1), futex'[i] = futex'[j]
               PROVE  i = j
    OBVIOUS
  <2>1. from(i) \in 1..n /\ futex'[i] = futex[from(i)]
    BY <1>3, <1>4
  <2>2. from(j) \in 1..n /\ futex'[j] = futex[from(j)]
    BY <1>3, <1>4
  <2>3. from(i) = from(j)
    <3>1. \A a, b \in 1..n : futex[a] = futex[b] => a = b
      BY <1>7
    <3>2. futex[from(i)] = futex[from(j)]
      BY <2>1, <2>2
    <3>3. QED
      BY <2>1, <2>2, <3>1, <3>2
  <2>4. QED
    BY <2>3, <1>5a
<1>11. \A i, j \in 1..(n - 1) : i <= j => mySeq'[futex'[i]] <= mySeq'[futex'[j]]
  <2> SUFFICES ASSUME NEW i \in 1..(n - 1), NEW j \in 1..(n - 1), i <= j
               PROVE  mySeq[futex'[i]] <= mySeq[futex'[j]]
    OBVIOUS
  <2>1. from(i) \in 1..n /\ from(j) \in 1..n /\ from(i) <= from(j)
    BY <1>4, <1>5
  <2>2. mySeq[futex[from(i)]] <= mySeq[futex[from(j)]]
    BY <2>1, <1>7
  <2>3. QED
    BY <2>2, <1>3
<1>12. QED
  BY <1>3, <1>8, <1>9, <1>10, <1>11 DEF FutexInv

\* The first sleepers are woken, and with them those that leave the queue.
LEMMA SleepersWoken ==
  ASSUME TypeInv, FutexInv, NEW p \in Notifiers, NEW n \in Nat, futex_wake(p, n)
  PROVE  FutexInv'
<1> DEFINE m == Len(futex)
<1>1. PICK k \in 0..m :
        /\ k = IF n <= Len(futex) THEN n ELSE Len(futex)
        /\ futex' \in Seq(Waiters) /\ Len(futex') = Len(futex) - k
        /\ \A j \in 1..(Len(futex) - k) : futex'[j] = futex[j + k]
        /\ pc' = [q \in Threads |->
                    IF q = p THEN "idle"
                    ELSE IF \E i \in 1..k : futex[i] = q THEN "check" ELSE pc[q]]
  BY WakeEffect
<1>2. m \in Nat /\ \A i \in 1..m : futex[i] \in Waiters
  BY DEF TypeInv
<1>3. UNCHANGED mySeq
  BY DEF futex_wake
<1>4. \A u \in Waiters :
        pc'[u] = IF \E i \in 1..k : futex[i] = u THEN "check" ELSE pc[u]
  BY <1>1, ThreadsAssumption DEF Threads
<1>5. Len(futex') = m - k /\ \A j \in 1..(m - k) : futex'[j] = futex[j + k]
  BY <1>1
<1>6. /\ \A i \in 1..m : pc[futex[i]] = "asleep"
      /\ \A u \in Waiters : pc[u] = "asleep" => \E i \in 1..m : futex[i] = u
      /\ \A i, j \in 1..m : futex[i] = futex[j] => i = j
      /\ \A i, j \in 1..m : i <= j => mySeq[futex[i]] <= mySeq[futex[j]]
  BY DEF FutexInv
<1> HIDE DEF m
<1>7. \A j \in 1..(m - k) : j + k \in 1..m /\ j + k \notin 1..k
  BY <1>2
<1>8. \A i \in 1..k : i \in 1..m
  BY <1>2
<1>9. \A i \in 1..m : i \in 1..k \/ (i - k \in 1..(m - k) /\ (i - k) + k = i)
  BY <1>2
<1>10. \A j \in 1..(m - k) : pc'[futex'[j]] = "asleep"
  <2> SUFFICES ASSUME NEW j \in 1..(m - k)
               PROVE  pc'[futex'[j]] = "asleep"
    OBVIOUS
  <2>1. futex'[j] = futex[j + k] /\ futex[j + k] \in Waiters /\ pc[futex[j + k]] = "asleep"
    BY <1>2, <1>5, <1>6, <1>7
  <2>2. ~ \E i \in 1..k : futex[i] = futex[j + k]
    BY <1>6, <1>7, <1>8
  <2>3. QED
    BY <2>1, <2>2, <1>4
<1>11. \A u \in Waiters : pc'[u] = "asleep" => \E j \in 1..(m - k) : futex'[j] = u
  <2> SUFFICES ASSUME NEW u \in Waiters, pc'[u] = "asleep"
               PROVE  \E j \in 1..(m - k) : futex'[j] = u
    OBVIOUS
  <2>1. pc[u] = "asleep" /\ ~ \E i \in 1..k : futex[i] = u
    BY <1>4
  <2>2. PICK i \in 1..m : futex[i] = u
    BY <2>1, <1>6
  <2>3. i - k \in 1..(m - k) /\ (i - k) + k = i
    BY <2>1, <2>2, <1>9
  <2>4. futex'[i - k] = u
    BY <2>2, <2>3, <1>5
  <2>5. QED
    BY <2>3, <2>4
<1>12. \A i, j \in 1..(m - k) : futex'[i] = futex'[j] => i = j
  <2> SUFFICES ASSUME NEW i \in 1..(m - k), NEW j \in 1..(m - k), futex'[i] = futex'[j]
               PROVE  i = j
    OBVIOUS
  <2>1. i + k = j + k
    BY <1>5, <1>6, <1>7
  <2>2. QED
    BY <2>1, <1>2
<1>13. \A i, j \in 1..(m - k) : i <= j => mySeq'[futex'[i]] <= mySeq'[futex'[j]]
  <2> SUFFICES ASSUME NEW i \in 1..(m - k), NEW j \in 1..(m - k), i <= j
               PROVE  mySeq'[futex'[i]] <= mySeq'[futex'[j]]
    OBVIOUS
  <2>1. i + k <= j + k
    BY <1>2
  <2>2. mySeq[futex[i + k]] <= mySeq[futex[j + k]]
    BY <2>1, <1>6, <1>7
  <2>3. QED
    BY <2>2, <1>3, <1>5
<1>14. QED
  BY <1>5, <1>10, <1>11, <1>12, <1>13 DEF FutexInv

\* The queue of the futex and the waiters that are asleep agree.
LEMMA FutexInvariant == Spec => []FutexInv
<1>1. Init => FutexInv
  <2> SUFFICES ASSUME Init
               PROVE  FutexInv
    OBVIOUS
  <2>1. futex = << >> /\ Len(futex) = 0 /\ \A w \in Waiters : pc[w] = "idle"
    BY EmptySeq DEF Init, Threads
  <2>2. QED
    BY <2>1 DEF FutexInv
<1>2. TypeInv /\ FutexInv /\ [Next]_vars => FutexInv'
  <2> SUFFICES ASSUME TypeInv, FutexInv, [Next]_vars
               PROVE  FutexInv'
    OBVIOUS
  <2>1. CASE UNCHANGED vars
    BY <2>1, NoSleeperMoves DEF vars
  <2>2. ASSUME NEW w \in Waiters,
               \/ CallerLocks(w) \/ LoadSeq(w) \/ AddWaiter(w) \/ Unlock(w) \/ CheckSeq(w)
               \/ CheckAfterTimeout(w) \/ cancel_one_waiter(w) \/ Relock(w)
               \/ (futex_wait(w) /\ seq # mySeq[w])
        PROVE  FutexInv'
    <3>1. UNCHANGED futex
      BY <2>2 DEF CallerLocks, LoadSeq, AddWaiter, Unlock, CheckSeq, CheckAfterTimeout,
           cancel_one_waiter, Relock, futex_wait
    <3>2. /\ pc[w] # "asleep"
          /\ \E to \in WaiterLabels \ {"asleep"} : pc' = [pc EXCEPT ![w] = to]
      BY <2>2 DEF CallerLocks, LoadSeq, AddWaiter, Unlock, CheckSeq, CheckAfterTimeout,
           cancel_one_waiter, Relock, futex_wait, Goto, WaiterLabels
    <3>3. \A u \in Waiters \ {w} : mySeq'[u] = mySeq[u]
      BY <2>2 DEF CallerLocks, LoadSeq, AddWaiter, Unlock, CheckSeq, CheckAfterTimeout,
           cancel_one_waiter, Relock, futex_wait, TypeInv
    <3>4. QED
      BY <3>1, <3>2, <3>3, NoSleeperMoves DEF TypeInv, Threads
  <2>3. ASSUME NEW w \in Waiters, FutexInterrupted(w) \/ FutexTimesOut(w)
        PROVE  FutexInv'
    <3>1. /\ pc[w] = "asleep" /\ pc'[w] # "asleep" /\ Dequeue(w) /\ UNCHANGED mySeq
          /\ \A u \in Waiters \ {w} : pc'[u] = pc[u]
      BY <2>3 DEF FutexInterrupted, FutexTimesOut, Goto, TypeInv, Threads
    <3>2. QED
      BY <3>1, SleeperRemoved
  <2>4. ASSUME NEW p \in Notifiers, signal_one_waiter(p) \/ BroadcastTakesAll(p) \/ BumpSeq(p)
        PROVE  FutexInv'
    <3>1. UNCHANGED <<futex, mySeq>>
      BY <2>4 DEF signal_one_waiter, BroadcastTakesAll, BumpSeq
    <3>2. \E to \in NotifierLabels : pc' = [pc EXCEPT ![p] = to]
      BY <2>4 DEF signal_one_waiter, BroadcastTakesAll, BumpSeq, Goto, NotifierLabels
    <3>3. \A w \in Waiters : pc'[w] = pc[w]
      BY <3>2, ThreadsAssumption DEF TypeInv, Threads
    <3>4. QED
      BY <3>1, <3>3, NoSleeperMoves
  <2>5. ASSUME NEW p \in Notifiers, WakeOne(p) \/ WakeAll(p)
        PROVE  FutexInv'
    <3>1. \E n \in Nat : futex_wake(p, n)
      BY <2>5, ThreadsAssumption, FS_CardinalityType DEF WakeOne, WakeAll
    <3>2. QED
      BY <3>1, SleepersWoken
  <2>6. crew.waiting \subseteq Waiters /\ crew.notifying \subseteq Notifiers
    BY ThreadsAssumption DEF TypeInv
  <2>7. CASE Next
    BY <2>2, <2>3, <2>4, <2>5, <2>6, <2>7, SleeperAppended DEF Next, WaiterStep, NotifierStep
  <2>8. QED
    BY <2>1, <2>7
<1>3. QED
  BY <1>1, <1>2, TypeInvariant, PTL DEF Spec

----------------------------------------------------------------------------
(* The count.                                                              *)

\* The two sets of waiters that the count covers.
LEMMA CountedSets ==
  /\ Fresh \subseteq Concerned /\ Concerned \subseteq Waiters
  /\ \A A \in SUBSET Waiters, B \in SUBSET Waiters :
        A \subseteq B => Cardinality(A) \in Nat /\ Cardinality(A) <= Cardinality(B)
  /\ \A A \in SUBSET Waiters, w \in Waiters :
        /\ Cardinality(A \cup {w}) <= Cardinality(A) + 1
        /\ w \in A => Cardinality(A \ {w}) = Cardinality(A) - 1
<1>1. \A A \in SUBSET Waiters : IsFiniteSet(A) /\ Cardinality(A) \in Nat
  BY ThreadsAssumption, FS_Subset, FS_CardinalityType
<1>2. Fresh \subseteq Concerned /\ Concerned \subseteq Waiters
  BY DEF Fresh, Concerned
<1>3. ASSUME NEW A \in SUBSET Waiters, NEW B \in SUBSET Waiters, A \subseteq B
      PROVE  Cardinality(A) \in Nat /\ Cardinality(A) <= Cardinality(B)
  BY <1>1, <1>3, FS_Subset
<1>4. ASSUME NEW A \in SUBSET Waiters, NEW w \in Waiters
      PROVE  /\ Cardinality(A \cup {w}) <= Cardinality(A) + 1
             /\ w \in A => Cardinality(A \ {w}) = Cardinality(A) - 1
  <2>1. IsFiniteSet(A) /\ Cardinality(A) \in Nat
    BY <1>1
  <2>2. Cardinality(A \cup {w}) = IF w \in A THEN Cardinality(A) ELSE Cardinality(A) + 1
    BY <2>1, FS_AddElement
  <2>3. Cardinality(A \ {w}) = IF w \in A THEN Cardinality(A) - 1 ELSE Cardinality(A)
    BY <2>1, FS_RemoveElement
  <2>4. QED
    BY <2>1, <2>2, <2>3
<1>5. QED
  BY <1>2, <1>3, <1>4

\* There are no more sleepers in the queue than waiters that are asleep.
LEMMA QueueLength ==
  ASSUME TypeInv, FutexInv
  PROVE  Len(futex) <= Cardinality({w \in Waiters : pc[w] = "asleep"})
<1> DEFINE n == Len(futex)
           Asleep == {w \in Waiters : pc[w] = "asleep"}
           f == [i \in 1..n |-> futex[i]]
<1>1. n \in Nat /\ \A i \in 1..n : futex[i] \in Waiters
  BY DEF TypeInv
<1>2. f \in [1..n -> Asleep]
  BY <1>1 DEF FutexInv
<1>3. \A i, j \in 1..n : f[i] = f[j] => i = j
  BY DEF FutexInv
<1> HIDE DEF f
<1>4. f \in Injection(1..n, Asleep)
  BY <1>2, <1>3, Fun_IsInj
<1>5. IsFiniteSet(Asleep)
  BY ThreadsAssumption, FS_Subset
<1>6. Cardinality(1..n) <= Cardinality(Asleep)
  BY <1>4, <1>5, FS_Injection
<1>7. Cardinality(1..n) = n
  <2>1. \A m \in Nat : Cardinality(1..m) = IF 1 > m THEN 0 ELSE m - 1 + 1
    BY FS_Interval
  <2>2. QED
    BY <1>1, <2>1
<1>8. QED
  BY <1>6, <1>7

\* Steps that add no waiter to the two sets, and take nothing from the count.
LEMMA FewerSleepers ==
  ASSUME TypeInv, TypeInv', CountInv, UNCHANGED <<crew, waiters>>,
         Fresh' \subseteq Fresh, Concerned' \subseteq Concerned,
         \A p \in Notifiers : pc'[p] = pc[p],
         crew.timed = {} => \A w \in Waiters : pc'[w] \notin {"expired", "cancel"}
  PROVE  CountInv'
<1>1. \A L \in SUBSET CallLabels : At(L)' = At(L) /\ Cardinality(At(L)) \in Nat
  BY NotifiersStay, NotifiersAt
<1>2. /\ At({"bump_all"})' = At({"bump_all"}) /\ At({"bump_one"})' = At({"bump_one"})
      /\ At({"bump_all", "wake_all"})' = At({"bump_all", "wake_all"})
      /\ At({"bump_one", "wake_one"})' = At({"bump_one", "wake_one"})
      /\ Cardinality(At({"bump_one"})) \in Nat /\ Cardinality(At({"bump_one", "wake_one"})) \in Nat
  BY <1>1 DEF CallLabels
<1>3. /\ Cardinality(Fresh') \in Nat /\ Cardinality(Fresh) \in Nat
      /\ Cardinality(Fresh') <= Cardinality(Fresh)
      /\ Cardinality(Concerned') \in Nat /\ Cardinality(Concerned) \in Nat
      /\ Cardinality(Concerned') <= Cardinality(Concerned)
  BY CountedSets
<1>4. waiters \in Nat
  BY DEF TypeInv
<1> HIDE DEF TypeInv
<1>5. QED
  BY <1>2, <1>3, <1>4 DEF CountInv

\* Only AddWaiter adds to the two sets, and it adds to the count as well.
LEMMA WaitersCounted ==
  ASSUME TypeInv, TypeInv', CountInv, NEW w \in crew.waiting, WaiterStep(w), UNCHANGED crew
  PROVE  CountInv'
<1>1. w \in Waiters /\ crew.waiting \subseteq Waiters
  BY ThreadsAssumption DEF TypeInv
<1>2. \E to \in WaiterLabels : pc' = [pc EXCEPT ![w] = to]
  BY DEF WaiterStep, CallerLocks, LoadSeq, AddWaiter, Unlock, CheckSeq, futex_wait, Goto,
     FutexInterrupted, FutexTimesOut, CheckAfterTimeout, cancel_one_waiter, Relock, WaiterLabels
<1>3. \A p \in Notifiers : pc'[p] = pc[p]
  BY <1>1, <1>2, ThreadsAssumption DEF TypeInv, Threads
<1>4. \A u \in Waiters \ {w} : pc'[u] = pc[u]
  BY <1>1, <1>2 DEF TypeInv, Threads
<1>5. CASE crew.timed # {}
  BY <1>5 DEF CountInv
<1>6. CASE crew.timed = {} /\ AddWaiter(w)
  <2>1. /\ pc[w] = "loaded" /\ pc'[w] = "counted" /\ waiters' = waiters + 1
        /\ UNCHANGED <<seq, mySeq>>
    BY <1>1, <1>6 DEF AddWaiter, Goto, TypeInv, Threads
  <2>2. Fresh' \subseteq Fresh \cup {w} /\ Concerned' \subseteq Concerned \cup {w}
    BY <1>4, <2>1 DEF Fresh, Concerned
  <2>3. /\ Cardinality(Fresh') \in Nat /\ Cardinality(Fresh) \in Nat
        /\ Cardinality(Fresh') <= Cardinality(Fresh) + 1
    <3>1. /\ Fresh' \in SUBSET Waiters /\ Fresh \in SUBSET Waiters
          /\ Fresh \cup {w} \in SUBSET Waiters
      BY <1>1 DEF Fresh
    <3>2. Cardinality(Fresh') <= Cardinality(Fresh \cup {w})
      BY <2>2, <3>1, CountedSets
    <3>3. Cardinality(Fresh \cup {w}) <= Cardinality(Fresh) + 1
      BY <1>1, <3>1, CountedSets
    <3>4. Cardinality(Fresh') \in Nat /\ Cardinality(Fresh) \in Nat
          /\ Cardinality(Fresh \cup {w}) \in Nat
      BY <3>1, CountedSets
    <3>5. QED
      BY <3>2, <3>3, <3>4
  <2>4. /\ Cardinality(Concerned') \in Nat /\ Cardinality(Concerned) \in Nat
        /\ Cardinality(Concerned') <= Cardinality(Concerned) + 1
    <3>1. /\ Concerned' \in SUBSET Waiters /\ Concerned \in SUBSET Waiters
          /\ Concerned \cup {w} \in SUBSET Waiters
      BY <1>1 DEF Fresh, Concerned
    <3>2. Cardinality(Concerned') <= Cardinality(Concerned \cup {w})
      BY <2>2, <3>1, CountedSets
    <3>3. Cardinality(Concerned \cup {w}) <= Cardinality(Concerned) + 1
      BY <1>1, <3>1, CountedSets
    <3>4. Cardinality(Concerned') \in Nat /\ Cardinality(Concerned) \in Nat
          /\ Cardinality(Concerned \cup {w}) \in Nat
      BY <3>1, CountedSets
    <3>5. QED
      BY <3>2, <3>3, <3>4
  <2>5. \A L \in SUBSET CallLabels : At(L)' = At(L) /\ Cardinality(At(L)) \in Nat
    BY <1>3, NotifiersStay, NotifiersAt
  <2>6. /\ At({"bump_all"})' = At({"bump_all"}) /\ At({"bump_one"})' = At({"bump_one"})
        /\ At({"bump_all", "wake_all"})' = At({"bump_all", "wake_all"})
        /\ At({"bump_one", "wake_one"})' = At({"bump_one", "wake_one"})
        /\ Cardinality(At({"bump_one"})) \in Nat /\ Cardinality(At({"bump_one", "wake_one"})) \in Nat
    BY <2>5 DEF CallLabels
  <2>7. waiters \in Nat
    BY DEF TypeInv
  <2>8. \A u \in Waiters : pc'[u] \notin {"expired", "cancel"}
    BY <1>4, <1>6, <2>1 DEF CountInv
  <2>9. QED
    BY <1>6, <2>1, <2>3, <2>4, <2>6, <2>7, <2>8 DEF CountInv
<1>7. CASE crew.timed = {} /\ ~AddWaiter(w)
  <2>1. ~FutexTimesOut(w) /\ ~CheckAfterTimeout(w) /\ ~cancel_one_waiter(w)
    BY <1>1, <1>7 DEF CountInv, FutexTimesOut, CheckAfterTimeout, cancel_one_waiter, Goto
  <2>2. UNCHANGED <<seq, waiters>> /\ pc'[w] \notin {"expired", "cancel"}
    BY <1>1, <1>7, <2>1 DEF WaiterStep, CallerLocks, LoadSeq, Unlock, CheckSeq, futex_wait, Goto,
       FutexInterrupted, Relock, TypeInv, Threads
  <2>3. \A u \in Waiters \ {w} : mySeq'[u] = mySeq[u]
    BY <1>1, <1>7, <2>1 DEF WaiterStep, CallerLocks, LoadSeq, Unlock, CheckSeq, futex_wait, Goto,
       FutexInterrupted, Relock, TypeInv
  <2>4. /\ w \in Fresh' => w \in Fresh
        /\ pc'[w] = "asleep" => w \in Fresh
    BY <1>1, <1>7, <2>1 DEF Fresh, WaiterStep, CallerLocks, LoadSeq, Unlock, CheckSeq, futex_wait,
       Goto, FutexInterrupted, Relock, TypeInv, Threads
  <2>5. Fresh' \subseteq Fresh /\ Concerned' \subseteq Concerned
    BY <1>4, <2>2, <2>3, <2>4 DEF Fresh, Concerned
  <2>6. \A u \in Waiters : pc'[u] \notin {"expired", "cancel"}
    BY <1>4, <1>7, <2>2 DEF CountInv
  <2>7. QED
    BY <1>3, <2>2, <2>5, <2>6, FewerSleepers
<1>8. QED
  BY <1>5, <1>6, <1>7

\* A call takes from the count when it begins, a broadcast all of it, and
\* moves the number for those whom it took.
LEMMA CallsCounted ==
  ASSUME TypeInv, TypeInv', CountInv, NEW p \in crew.notifying, UNCHANGED crew,
         signal_one_waiter(p) \/ BroadcastTakesAll(p) \/ BumpSeq(p)
  PROVE  CountInv'
<1>1. p \in Notifiers
  BY ThreadsAssumption DEF TypeInv
<1>2. /\ \E to \in NotifierLabels : pc' = [pc EXCEPT ![p] = to]
      /\ UNCHANGED <<mySeq, futex>>
  BY DEF signal_one_waiter, BroadcastTakesAll, BumpSeq, Goto, NotifierLabels
<1>3. /\ \A w \in Waiters : pc'[w] = pc[w]
      /\ \A q \in Notifiers \ {p} : pc'[q] = pc[q]
  BY <1>1, <1>2, ThreadsAssumption DEF TypeInv, Threads
<1>4. Concerned' \in SUBSET Waiters /\ Fresh' \in SUBSET Waiters
  BY DEF Fresh, Concerned
<1>5. /\ waiters \in Nat /\ seq \in Nat
      /\ \A L \in SUBSET CallLabels : Cardinality(At(L)) \in Nat /\ Cardinality(At(L)') \in Nat
  BY <1>1, <1>3, NotifiersAt, NotifierMoves DEF TypeInv
<1>6. /\ {"bump_all"} \in SUBSET CallLabels /\ {"bump_one"} \in SUBSET CallLabels
      /\ {"bump_all", "wake_all"} \in SUBSET CallLabels
      /\ {"bump_one", "wake_one"} \in SUBSET CallLabels
  BY DEF CallLabels
<1>7. Cardinality(Fresh) \in Nat /\ Cardinality(Concerned) \in Nat
  BY CountedSets DEF Fresh, Concerned
<1>8. CASE crew.timed # {}
  BY <1>8 DEF CountInv
<1>9. CASE UNCHANGED <<seq, waiters>> /\ pc'[p] = pc[p]
  <2>1. Fresh' = Fresh /\ Concerned' = Concerned
    BY <1>2, <1>3, <1>9 DEF Fresh, Concerned
  <2>2. QED
    BY <1>3, <1>9, <2>1, FewerSleepers DEF CountInv
<1>10. CASE signal_one_waiter(p) /\ waiters # 0
  <2>1. /\ pc[p] = "idle" /\ pc'[p] = "bump_one" /\ waiters' = waiters - 1 /\ UNCHANGED seq
    BY <1>1, <1>10 DEF signal_one_waiter, Goto, TypeInv, Threads
  <2>2. Fresh' = Fresh /\ Concerned' = Concerned
    BY <1>2, <1>3, <2>1 DEF Fresh, Concerned
  <2>3. /\ At({"bump_all"})' = At({"bump_all"})
        /\ At({"bump_all", "wake_all"})' = At({"bump_all", "wake_all"})
    BY <1>1, <1>3, <1>6, <2>1, NotifierMoves
  <2>4. /\ Cardinality(At({"bump_one"})') = Cardinality(At({"bump_one"})) + 1
        /\ Cardinality(At({"bump_one", "wake_one"})')
              = Cardinality(At({"bump_one", "wake_one"})) + 1
    BY <1>1, <1>3, <1>6, <2>1, NotifierMoves
  <2>5. /\ Cardinality(At({"bump_one"})) \in Nat
        /\ Cardinality(At({"bump_one", "wake_one"})) \in Nat
    BY <1>5, <1>6
  <2>6. QED
    BY <1>3, <1>5, <1>7, <2>1, <2>2, <2>3, <2>4, <2>5 DEF CountInv
<1>11. CASE BroadcastTakesAll(p) /\ waiters # 0
  <2>1. pc'[p] = "bump_all"
    BY <1>1, <1>11 DEF BroadcastTakesAll, Goto, TypeInv, Threads
  <2>2. p \in At({"bump_all"})' /\ p \in At({"bump_all", "wake_all"})'
    BY <1>1, <2>1 DEF At, Threads
  <2>3. QED
    BY <1>3, <2>2 DEF CountInv
<1>12. CASE BumpSeq(p) /\ crew.timed = {}
  <2>1. /\ seq' = seq + 1 /\ UNCHANGED waiters
        /\ \/ pc[p] = "bump_one" /\ pc'[p] = "wake_one"
           \/ pc[p] = "bump_all" /\ pc'[p] = "wake_all"
    BY <1>1, <1>12 DEF BumpSeq, Goto, TypeInv, Threads
  <2>2. Fresh' = {}
    BY <1>2, <1>5, <2>1 DEF Fresh, TypeInv
  <2>3. Concerned' \subseteq Concerned
    BY <1>3, <2>2 DEF Concerned
  <2>4. Cardinality(Fresh') = 0
    BY <2>2, FS_EmptySet
  <2>5. ASSUME At({"bump_all", "wake_all"})' = {}
        PROVE  Cardinality(Concerned')
                  <= waiters' + Cardinality(At({"bump_one", "wake_one"})')
    <3>1. pc[p] = "bump_one" /\ pc'[p] = "wake_one"
      <4>1. pc'[p] # "wake_all"
        BY <1>1, <2>5 DEF At, Threads
      <4>2. QED
        BY <2>1, <4>1
    <3>2. /\ At({"bump_all", "wake_all"})' = At({"bump_all", "wake_all"})
          /\ At({"bump_one", "wake_one"})' = At({"bump_one", "wake_one"})
      BY <1>1, <1>3, <1>6, <3>1, NotifierMoves
    <3>3. Cardinality(Concerned') \in Nat /\ Cardinality(Concerned') <= Cardinality(Concerned)
      BY <1>4, <2>3, CountedSets
    <3>4. Cardinality(At({"bump_one", "wake_one"})) \in Nat
      BY <1>5, <1>6
    <3>5. QED
      BY <1>5, <1>7, <1>12, <2>1, <2>5, <3>2, <3>3, <3>4 DEF CountInv
  <2>6. Cardinality(At({"bump_one"})') \in Nat
    BY <1>5, <1>6
  <2>7. QED
    BY <1>3, <1>5, <1>12, <2>1, <2>4, <2>5, <2>6 DEF CountInv
<1>13. CASE signal_one_waiter(p) /\ waiters = 0
  BY <1>1, <1>9, <1>13 DEF signal_one_waiter, Goto, TypeInv, Threads
<1>14. CASE BroadcastTakesAll(p) /\ waiters = 0
  BY <1>1, <1>9, <1>14 DEF BroadcastTakesAll, Goto, TypeInv, Threads
<1>15. QED
  BY <1>8, <1>10, <1>11, <1>12, <1>13, <1>14

\* A wake takes the first sleeper, whose number is the lowest, or all of them:
\* when somebody is left whose number is past, so was the one that was woken.
LEMMA WakesCounted ==
  ASSUME TypeInv, TypeInv', FutexInv, FutexInv', CountInv, NEW p \in crew.notifying,
         UNCHANGED crew, WakeOne(p) \/ WakeAll(p)
  PROVE  CountInv'
<1>1. p \in Notifiers
  BY ThreadsAssumption DEF TypeInv
<1> DEFINE m == Len(futex)
<1>2. m \in Nat /\ \A i \in 1..m : futex[i] \in Waiters
  BY DEF TypeInv
<1>3. PICK n \in Nat :
        /\ futex_wake(p, n)
        /\ pc[p] = "wake_one" => n = 1
        /\ pc[p] = "wake_all" => n = Cardinality(Waiters)
  BY ThreadsAssumption, FS_CardinalityType DEF WakeOne, WakeAll
<1>4. pc[p] = "wake_one" \/ pc[p] = "wake_all"
  BY DEF WakeOne, WakeAll
<1>5. PICK k \in 0..m :
        /\ k = IF n <= Len(futex) THEN n ELSE Len(futex)
        /\ futex' \in Seq(Waiters) /\ Len(futex') = Len(futex) - k
        /\ \A j \in 1..(Len(futex) - k) : futex'[j] = futex[j + k]
        /\ pc' = [q \in Threads |->
                    IF q = p THEN "idle"
                    ELSE IF \E i \in 1..k : futex[i] = q THEN "check" ELSE pc[q]]
  BY <1>1, <1>3, WakeEffect
<1>6. UNCHANGED <<seq, waiters, mySeq>>
  BY <1>3 DEF futex_wake
<1>7. pc'[p] = "idle" /\ \A q \in Notifiers \ {p} : pc'[q] = pc[q]
  BY <1>1, <1>3, WakeMovesOne
<1>8. \A u \in Waiters : pc'[u] = IF \E i \in 1..k : futex[i] = u THEN "check" ELSE pc[u]
  BY <1>1, <1>5, ThreadsAssumption DEF Threads
<1>9. \A i \in 1..k : i \in 1..m /\ pc[futex[i]] = "asleep"
  BY <1>2 DEF FutexInv
<1>10. /\ \A u \in Waiters : pc'[u] = "asleep" => pc[u] = "asleep"
       /\ \A u \in Waiters : pc'[u] = pc[u] \/ (pc[u] = "asleep" /\ pc'[u] = "check")
  BY <1>8, <1>9
<1>11. Fresh' \subseteq Fresh /\ Concerned' \subseteq Concerned
  BY <1>6, <1>10 DEF Fresh, Concerned
<1>12. /\ waiters \in Nat
       /\ Cardinality(Fresh) \in Nat /\ Cardinality(Concerned) \in Nat
       /\ Cardinality(Fresh') \in Nat /\ Cardinality(Fresh') <= Cardinality(Fresh)
       /\ Cardinality(Concerned') \in Nat /\ Cardinality(Concerned') <= Cardinality(Concerned)
  <2>1. /\ Fresh \in SUBSET Waiters /\ Fresh' \in SUBSET Waiters
        /\ Concerned \in SUBSET Waiters /\ Concerned' \in SUBSET Waiters
    BY DEF Fresh, Concerned
  <2>2. QED
    BY <1>11, <2>1, CountedSets DEF TypeInv
<1>13. /\ {"bump_all"} \in SUBSET CallLabels /\ {"bump_one"} \in SUBSET CallLabels
       /\ {"bump_all", "wake_all"} \in SUBSET CallLabels
       /\ {"bump_one", "wake_one"} \in SUBSET CallLabels
  BY DEF CallLabels
<1>14. /\ At({"bump_all"})' = At({"bump_all"}) /\ At({"bump_one"})' = At({"bump_one"})
       /\ Cardinality(At({"bump_one"})) \in Nat
       /\ Cardinality(At({"bump_one", "wake_one"})) \in Nat
       /\ Cardinality(At({"bump_one", "wake_one"})') \in Nat
  BY <1>1, <1>4, <1>7, <1>13, NotifierMoves, NotifiersAt
<1>15. CASE crew.timed # {}
  BY <1>15 DEF CountInv
<1>16. CASE crew.timed = {}
  <2>1. /\ \A u \in Waiters : pc'[u] \notin {"expired", "cancel"}
        /\ At({"bump_all"})' = {} =>
              Cardinality(Fresh') <= waiters' + Cardinality(At({"bump_one"})')
    BY <1>6, <1>10, <1>12, <1>14, <1>16 DEF CountInv
  <2>2. ASSUME At({"bump_all", "wake_all"})' = {}, Concerned' = Fresh'
        PROVE  Cardinality(Concerned')
                  <= waiters' + Cardinality(At({"bump_one", "wake_one"})')
    <3>1. At({"bump_all"})' = {}
      BY <2>2 DEF At
    <3>2. Cardinality(At({"bump_one"})') <= Cardinality(At({"bump_one", "wake_one"})')
      <4>1. /\ At({"bump_one", "wake_one"})' = {q \in Notifiers : pc'[q] \in {"bump_one", "wake_one"}}
            /\ At({"bump_one"})' = {q \in Notifiers : pc'[q] \in {"bump_one"}}
        BY ThreadsAssumption DEF TypeInv, At, Threads, WaiterLabels
      <4>2. IsFiniteSet(At({"bump_one", "wake_one"})')
        BY <4>1, ThreadsAssumption, FS_Subset
      <4>3. At({"bump_one"})' \in SUBSET (At({"bump_one", "wake_one"})')
        BY <4>1
      <4>4. QED
        BY <4>2, <4>3, FS_Subset
    <3>3. QED
      BY <1>6, <1>12, <1>14, <2>1, <2>2, <3>1, <3>2
  <2>3. ASSUME \A u \in Waiters : pc'[u] = "asleep" => mySeq[u] = seq
        PROVE  Concerned' = Fresh'
    BY <1>6, <2>3 DEF Fresh, Concerned
  <2>4. CASE pc[p] = "wake_all"
    <3>1. m <= n
      <4>1. IsFiniteSet(Waiters) /\ {w \in Waiters : pc[w] = "asleep"} \in SUBSET Waiters
        BY ThreadsAssumption
      <4>2. Cardinality({w \in Waiters : pc[w] = "asleep"}) <= Cardinality(Waiters)
        BY <4>1, FS_Subset
      <4>3. /\ Cardinality({w \in Waiters : pc[w] = "asleep"}) \in Nat
            /\ Cardinality(Waiters) \in Nat
        BY <4>1, FS_Subset, FS_CardinalityType
      <4>4. QED
        BY <1>2, <1>3, <2>4, <4>2, <4>3, QueueLength
    <3>2. k = m
      BY <1>2, <1>5, <3>1
    <3>3. \A u \in Waiters : pc'[u] # "asleep"
      BY <1>8, <3>2 DEF FutexInv
    <3>4. QED
      BY <1>16, <2>1, <2>2, <2>3, <3>3 DEF CountInv
  <2>5. CASE pc[p] = "wake_one" /\ (m > 0 => mySeq[futex[1]] = seq)
    <3>1. \A i \in 1..m : mySeq[futex[i]] = seq
      <4> SUFFICES ASSUME NEW i \in 1..m
                   PROVE  mySeq[futex[i]] = seq
        OBVIOUS
      <4>1. 1 \in 1..m /\ 1 <= i /\ m > 0
        BY <1>2
      <4>2. mySeq[futex[1]] <= mySeq[futex[i]]
        BY <4>1 DEF FutexInv
      <4>3. /\ mySeq[futex[i]] \in Nat /\ seq \in Nat
            /\ mySeq[futex[i]] <= seq /\ mySeq[futex[1]] = seq
        BY <1>2, <2>5, <4>1 DEF TypeInv
      <4>4. QED
        BY <4>2, <4>3
    <3>2. \A u \in Waiters : pc'[u] = "asleep" => mySeq[u] = seq
      BY <1>10, <3>1 DEF FutexInv
    <3>3. QED
      BY <1>16, <2>1, <2>2, <2>3, <3>2 DEF CountInv
  <2>6. CASE pc[p] = "wake_one" /\ m > 0 /\ mySeq[futex[1]] # seq
    <3>1. 1 \in 1..m /\ 1 \in 1..k
      BY <1>2, <1>3, <1>5, <2>6
    <3>2. futex[1] \in Waiters /\ pc[futex[1]] = "asleep" /\ pc'[futex[1]] = "check"
      BY <1>2, <1>8, <1>9, <3>1
    <3>3. futex[1] \in Concerned /\ Concerned' \subseteq Concerned \ {futex[1]}
      BY <1>6, <1>11, <2>6, <3>2 DEF Concerned, Fresh
    <3>4. Cardinality(Concerned') <= Cardinality(Concerned) - 1
      <4>1. /\ Concerned \in SUBSET Waiters /\ Concerned \ {futex[1]} \in SUBSET Waiters
            /\ Concerned' \in SUBSET Waiters
        BY DEF Concerned, Fresh
      <4>2. Cardinality(Concerned') <= Cardinality(Concerned \ {futex[1]})
        BY <3>3, <4>1, CountedSets
      <4>3. Cardinality(Concerned \ {futex[1]}) = Cardinality(Concerned) - 1
        BY <3>2, <3>3, <4>1, CountedSets
      <4>4. QED
        BY <4>2, <4>3
    <3>5. /\ At({"bump_all", "wake_all"})' = At({"bump_all", "wake_all"})
          /\ Cardinality(At({"bump_one", "wake_one"})')
                = Cardinality(At({"bump_one", "wake_one"})) - 1
      BY <1>1, <1>7, <1>13, <2>6, NotifierMoves
    <3>6. QED
      BY <1>6, <1>12, <1>14, <1>16, <2>1, <3>4, <3>5 DEF CountInv
  <2>7. QED
    BY <1>2, <1>4, <2>4, <2>5, <2>6
<1>17. QED
  BY <1>15, <1>16

\* As long as nobody's wait can time out, the count and the calls under way
\* cover the waiters that a notification has still to reach.
LEMMA CountInvariant == Spec => []CountInv
<1>1. Init => CountInv
  <2> SUFFICES ASSUME Init
               PROVE  CountInv
    OBVIOUS
  <2>1. \A p \in Threads : pc[p] = "idle"
    BY DEF Init
  <2>2. Fresh = {} /\ Concerned = {}
    BY <2>1 DEF Fresh, Concerned, Threads
  <2>3. At({"bump_one"}) = {} /\ At({"bump_one", "wake_one"}) = {}
    BY <2>1 DEF At
  <2>4. \A w \in Waiters : pc[w] \notin {"expired", "cancel"}
    BY <2>1 DEF Threads
  <2>5. waiters = 0 /\ Cardinality({}) = 0
    BY FS_EmptySet DEF Init
  <2>6. QED
    BY <2>2, <2>3, <2>4, <2>5 DEF CountInv
<1>2. TypeInv /\ TypeInv' /\ FutexInv /\ FutexInv' /\ CountInv /\ [Next]_vars => CountInv'
  <2> SUFFICES ASSUME TypeInv, TypeInv', FutexInv, FutexInv', CountInv, [Next]_vars
               PROVE  CountInv'
    OBVIOUS
  <2>1. CASE UNCHANGED vars
    BY <2>1 DEF vars, CountInv, Fresh, Concerned, At
  <2>2. CASE Next
    BY <2>2, WaitersCounted, CallsCounted, WakesCounted DEF Next, NotifierStep
  <2>3. QED
    BY <2>1, <2>2
<1>3. QED
  BY <1>1, <1>2, TypeInvariant, FutexInvariant, PTL DEF Spec

\* However many waiters, notifiers and calls there are: when nobody's wait can
\* time out, no thread is left asleep to whom later notifications do nothing
\* because they find the count at zero.
THEOREM SleepersAreCounted == Spec => []UntimedSleepersCounted
<1>1. TypeInv /\ FutexInv /\ CountInv => UntimedSleepersCounted
  <2> SUFFICES ASSUME TypeInv, FutexInv, CountInv, crew.timed = {},
                      At({"bump_all", "wake_all"}) = {}
               PROVE  Len(futex) <= waiters + Cardinality(At({"bump_one", "wake_one"}))
    BY DEF UntimedSleepersCounted, SleepersCounted
  <2>1. Cardinality(Concerned) <= waiters + Cardinality(At({"bump_one", "wake_one"}))
    BY DEF CountInv
  <2>2. Len(futex) <= Cardinality({w \in Waiters : pc[w] = "asleep"})
    BY QueueLength
  <2>3. /\ Cardinality({w \in Waiters : pc[w] = "asleep"}) \in Nat
        /\ Cardinality({w \in Waiters : pc[w] = "asleep"}) <= Cardinality(Concerned)
    <3>1. /\ {w \in Waiters : pc[w] = "asleep"} \in SUBSET Waiters
          /\ {w \in Waiters : pc[w] = "asleep"} \subseteq Concerned
          /\ Concerned \in SUBSET Waiters
      BY DEF Concerned, Fresh
    <3>2. QED
      BY <3>1, CountedSets
  <2>4. /\ Len(futex) \in Nat /\ waiters \in Nat /\ Cardinality(Concerned) \in Nat
        /\ Cardinality(At({"bump_one", "wake_one"})) \in Nat
    BY CountedSets, NotifiersAt DEF TypeInv, CallLabels
  <2>5. QED
    BY <2>1, <2>2, <2>3, <2>4
<1>2. QED
  BY <1>1, TypeInvariant, FutexInvariant, CountInvariant, PTL

\* Under the same condition release and wait are atomic for a notification:
\* it finds the waiter in the count once the mutex is released, or another
\* call is about to end the wait.
THEOREM ReleasedNoticed == Spec => []ReleasedIsNoticed
<1>1. TypeInv /\ CountInv => ReleasedIsNoticed
  <2> SUFFICES ASSUME TypeInv, CountInv, crew.timed = {},
                      NEW w \in At({"check", "wait", "asleep"}), mySeq[w] = seq,
                      At({"bump_one", "bump_all"}) = {}
               PROVE  waiters > 0
    BY DEF ReleasedIsNoticed
  <2>1. w \in Waiters
    BY DEF At, Threads, TypeInv, NotifierLabels
  <2>2. w \in Fresh
    BY <2>1 DEF Fresh, At
  <2>3. At({"bump_all"}) = {} /\ At({"bump_one"}) = {}
    BY DEF At
  <2>4. Cardinality(Fresh) <= waiters + 0
    BY <2>3, FS_EmptySet DEF CountInv
  <2>5. Cardinality(Fresh) \in Nat /\ Cardinality(Fresh) # 0
    <3>1. IsFiniteSet(Fresh) /\ Fresh # {}
      BY <2>2, ThreadsAssumption, FS_Subset DEF Fresh
    <3>2. QED
      BY <3>1, FS_EmptySet, FS_CardinalityType
  <2>6. QED
    BY <2>4, <2>5 DEF TypeInv
<1>2. QED
  BY <1>1, TypeInvariant, CountInvariant, PTL

============================================================================
