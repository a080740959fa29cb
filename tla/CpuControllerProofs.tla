------------------------ MODULE CpuControllerProofs ------------------------
(***************************************************************************)
(* Theorems about CpuController for any number of threads, any window and  *)
(* any CPUs.  The count of active CPUs comes from last_count, floor, limit *)
(* and the local of the thread in the tick; the inductive invariant says   *)
(* that each of these is within the bounds when it is used.                *)
(***************************************************************************)
EXTENDS CpuController, FiniteSetTheorems, TLAPS

WithinBounds(n) == config.requested <= n /\ n <= config.available

\* What the controller remembers, where 0 stands for nothing.
MemoryWithinBounds ==
    /\ last_count # 0 => WithinBounds(last_count)
    /\ floor # 0 => WithinBounds(floor)
    /\ limit # 0 => config.requested <= limit

\* What an update under way works with.
UpdateWithinBounds ==
    \A t \in Threads :
        /\ pc[t] \in {"swap", "push", "rollback", "applied"} => config.requested <= target
        /\ pc[t] \in {"push", "rollback"} => WithinBounds(previous)

\* No call has a time that is still to come.
TimesPassed == \A t \in Threads : at[t] <= now /\ seen[t] <= now

\* What the scheduler has while an update is under way.
PushUnderWay ==
    config.available <= config.addressable =>
        /\ mutex = None => active = mask
        /\ \A t \in Threads :
            /\ pc[t] \in {"decide", "swap", "applied"} => active = mask
            /\ pc[t] \in {"push", "rollback"} => previous = mask

\* The freeze waits for the mutex, so that no update outlives it.
NoUpdateWhenFrozen == frozen => mutex = None

IInv ==
    /\ CountWithinBounds /\ MemoryWithinBounds /\ UpdateWithinBounds
    /\ PushUnderWay /\ NoUpdateWhenFrozen

\* The part of TypeOK that is about samples.
SampleTypes ==
    /\ made \in 0..MaxSamples /\ sample \in [Threads -> 0..made]
    /\ \A t \in Threads : sample[t] # 0 <=> pc[t] \in AddLabels
    /\ process \in [Counters -> SUBSET (1..made)] /\ past \in [Counters -> SUBSET (1..made)]
    /\ dropped \subseteq 1..made /\ torn \subseteq 1..made
    /\ got \in [Threads -> [Counters -> SUBSET (1..made)]]

LEMMA OverlapTypes ==
  ASSUME made' \in Nat, sample' \in [Threads -> 0..made'],
         \A t \in Threads : sample'[t] # 0 <=> pc'[t] \in AddLabels,
         process' \in [Counters -> SUBSET (1..made')]
  PROVE  Overlaps' \subseteq 1..made'
<1>1. ASSUME NEW t \in Threads, pc'[t] \in AddLabels
      PROVE  sample'[t] \in 1..made'
  BY <1>1
<1>2. PartlyAdded' \subseteq 1..made'
  BY <1>1 DEF PartlyAdded, ThreadsAt, AddLabels
<1>3. UNION {process'[c] : c \in Counters} \subseteq 1..made'
  OBVIOUS
<1>4. QED
  BY <1>2, <1>3 DEF Overlaps

LEMMA AddTypes ==
  ASSUME TypeOK, NEW t \in Threads, NEW counter \in Counters,
         NEW from \in AddLabels, NEW to \in Labels, Add(t, counter, from, to), RecordOverlaps,
         \/ to \in AddLabels /\ sample' = sample
         \/ to = "load" /\ sample' = [sample EXCEPT ![t] = 0]
  PROVE  SampleTypes'
<1> USE BoundsAssumption
<1>1. /\ pc[t] = from /\ pc' = [pc EXCEPT ![t] = to] /\ pc \in [Threads -> Labels]
      /\ made' = made /\ past' = past /\ dropped' = dropped /\ got' = got /\ made \in Nat
  BY DEF Add, Goto, TypeOK
<1>2. sample[t] \in 1..made
  BY <1>1 DEF TypeOK
<1>3. process' \in [Counters -> SUBSET (1..made)]
  BY <1>2 DEF Add, TypeOK
<1>4. sample' \in [Threads -> 0..made] /\ \A u \in Threads : sample'[u] # 0 <=> pc'[u] \in AddLabels
  <2>1. sample \in [Threads -> 0..made] /\ \A u \in Threads : sample[u] # 0 <=> pc[u] \in AddLabels
    BY DEF TypeOK
  <2>2. CASE to \in AddLabels /\ sample' = sample
    BY <1>1, <1>2, <2>1, <2>2
  <2>3. CASE to = "load" /\ sample' = [sample EXCEPT ![t] = 0]
    <3>1. to \notin AddLabels
      BY <2>3 DEF AddLabels
    <3>2. QED
      BY <1>1, <2>1, <2>3, <3>1
  <2>4. QED
    BY <2>2, <2>3
<1>5. Overlaps' \subseteq 1..made
  BY <1>1, <1>3, <1>4, OverlapTypes
<1>6. QED
  BY <1>1, <1>3, <1>4, <1>5 DEF SampleTypes, TypeOK, RecordOverlaps

LEMMA TakeTypes ==
  ASSUME TypeOK, NEW t \in Threads, NEW counter \in Counters,
         NEW from \in Labels \ AddLabels, NEW to \in Labels \ AddLabels, SwapOut(t, counter, from, to)
  PROVE  SampleTypes'
<1> USE BoundsAssumption
<1>1. /\ pc[t] = from /\ pc' = [pc EXCEPT ![t] = to] /\ pc \in [Threads -> Labels]
      /\ made' = made /\ sample' = sample /\ past' = past /\ dropped' = dropped /\ made \in Nat
  BY DEF SwapOut, Take, Goto, TypeOK
<1>2. process' \in [Counters -> SUBSET (1..made)]
  BY DEF SwapOut, TypeOK
<1>3. got' \in [Threads -> [Counters -> SUBSET (1..made)]]
  <2>1. process[counter] \in SUBSET (1..made) /\ got \in [Threads -> [Counters -> SUBSET (1..made)]]
    BY DEF TypeOK
  <2>2. got' = [got EXCEPT ![t] = [got[t] EXCEPT ![counter] = process[counter]]]
    BY DEF SwapOut, Take
  <2>3. [got[t] EXCEPT ![counter] = process[counter]] \in [Counters -> SUBSET (1..made)]
    BY <2>1
  <2>4. QED
    BY <2>1, <2>2, <2>3
<1>4. \A u \in Threads : sample'[u] # 0 <=> pc'[u] \in AddLabels
  BY <1>1 DEF TypeOK
<1>5. Overlaps' \subseteq 1..made
  BY <1>1, <1>2, <1>4, OverlapTypes DEF TypeOK
<1>6. QED
  BY <1>1, <1>2, <1>3, <1>4, <1>5 DEF SampleTypes, TypeOK, SwapOut, RecordOverlaps

LEMMA DropTypes ==
  ASSUME TypeOK, NEW t \in Threads, NEW to \in Labels \ AddLabels, Goto(t, "averages", to), DropCounts(t),
         dropped' = dropped \/ dropped' = dropped \cup UNION {got[t][c] : c \in Counters}
  PROVE  SampleTypes'
<1>1. /\ pc[t] = "averages" /\ pc' = [pc EXCEPT ![t] = to] /\ pc \in [Threads -> Labels]
      /\ made' = made /\ sample' = sample /\ process' = process /\ torn' = torn
  BY DEF DropCounts, Goto, TypeOK
<1>2. past' \in [Counters -> SUBSET (1..made)]
  BY DEF DropCounts, TypeOK
<1>3. got' \in [Threads -> [Counters -> SUBSET (1..made)]]
  BY DEF DropCounts, TypeOK, Nothing
<1>4. \A u \in Threads : sample'[u] # 0 <=> pc'[u] \in AddLabels
  BY <1>1 DEF TypeOK, AddLabels
<1>5. dropped' \subseteq 1..made
  <2>1. got[t] \in [Counters -> SUBSET (1..made)] /\ dropped \subseteq 1..made
    BY DEF TypeOK
  <2>2. UNION {got[t][c] : c \in Counters} \subseteq 1..made
    BY <2>1
  <2>3. QED
    BY <2>1, <2>2
<1>6. QED
  BY <1>1, <1>2, <1>3, <1>4, <1>5 DEF SampleTypes, TypeOK

\* Every variable keeps its type, the mutex is held by the thread in the guarded
\* part of the tick, and no call works with a time that is still to come.
THEOREM TypeCorrect == Spec => [](TypeOK /\ TimesPassed)
<1> DEFINE Inv == TypeOK /\ TimesPassed
           Others ==
               /\ config \in Configs /\ now \in 1..MaxTime /\ last_tick \in 0..now
               /\ pc \in [Threads -> Labels]
               /\ at \in [Threads -> 0..MaxTime] /\ seen \in [Threads -> 0..MaxTime]
               /\ mutex \in Threads \cup {None}
               /\ \A t \in Threads : pc[t] \in InControl <=> mutex = t
               /\ last_count \in Nat /\ floor \in Nat /\ limit \in Nat /\ frozen \in BOOLEAN
               /\ target \in Nat /\ previous \in Nat /\ active \in Nat /\ mask \in Nat
               /\ TimesPassed
<1>0. (Inv <=> SampleTypes /\ Others) /\ (Inv' <=> SampleTypes' /\ Others')
  BY DEF TypeOK, SampleTypes
<1> USE ConfigsAssumption, BoundsAssumption DEF TypeOK, TimesPassed, Labels, AddLabels, TakeLabels, InControl
<1>1. Init => Inv
  <2> SUFFICES ASSUME Init
               PROVE  Inv
    OBVIOUS
  <2> USE DEF Init
  <2>1. /\ config \in Configs /\ now \in 1..MaxTime /\ last_tick \in 0..now
        /\ made \in 0..MaxSamples /\ sample \in [Threads -> 0..made]
        /\ \A t \in Threads : sample[t] # 0 <=> pc[t] \in AddLabels
    OBVIOUS
  <2>2. /\ process \in [Counters -> SUBSET (1..made)] /\ past \in [Counters -> SUBSET (1..made)]
        /\ dropped \subseteq 1..made /\ torn \subseteq 1..made
        /\ got \in [Threads -> [Counters -> SUBSET (1..made)]]
    BY DEF Nothing
  <2>3. /\ pc \in [Threads -> Labels]
        /\ at \in [Threads -> 0..MaxTime] /\ seen \in [Threads -> 0..MaxTime]
    OBVIOUS
  <2>4. /\ mutex \in Threads \cup {None}
        /\ \A t \in Threads : pc[t] \in InControl <=> mutex = t
    OBVIOUS
  <2>5. config.requested \in Nat
    BY <2>1
  <2>6. /\ last_count \in Nat /\ floor \in Nat /\ limit \in Nat /\ frozen \in BOOLEAN
        /\ target \in Nat /\ previous \in Nat /\ active \in Nat /\ mask \in Nat
    BY <2>5
  <2>7. TimesPassed
    BY <2>1
  <2>8. QED
    BY <2>1, <2>2, <2>3, <2>4, <2>6, <2>7
<1>2. Inv /\ [Next]_vars => Inv'
  <2> SUFFICES ASSUME Inv, [Next]_vars
               PROVE  Inv'
    OBVIOUS
  <2>0. config' = config
    BY DEF Next, vars
  <2> USE <2>0 DEF Goto, samples, history, election, control, affinity
  <2>1. CASE Advance
    BY <2>1 DEF Advance
  <2>2. CASE dynamic_cpu_affinity_freeze
    BY <2>2 DEF dynamic_cpu_affinity_freeze, current_cpu_count
  <2>3. ASSUME NEW t \in Threads, Sampled(t)
        PROVE  Inv'
    BY <2>3 DEF Sampled
  <2>4. ASSUME NEW t \in Threads, AddCriticalTime(t) \/ AddOutsideTime(t) \/ AddCritical(t)
        PROVE  Inv'
    <3>1. PICK counter \in Counters, from, to \in AddLabels : AddEarlier(t, counter, from, to)
      BY <2>4 DEF AddCriticalTime, AddOutsideTime, AddCritical, Counters
    <3>2. SampleTypes'
      BY <3>1, AddTypes DEF AddEarlier
    <3>3. Others'
      BY <3>1 DEF AddEarlier, Add
    <3>4. QED
      BY <1>0, <3>2, <3>3
  <2>5. ASSUME NEW t \in Threads, AddOutside(t)
        PROVE  Inv'
    <3>1. SampleTypes'
      BY <2>5, AddTypes DEF AddOutside, Counters
    <3>2. Others'
      BY <2>5 DEF AddOutside, Add
    <3>3. QED
      BY <1>0, <3>1, <3>2
  <2>6. ASSUME NEW t \in Threads, NotSampled(t)
        PROVE  Inv'
    BY <2>6 DEF NotSampled
  <2>7. ASSUME NEW t \in Threads, LoadTick(t)
        PROVE  Inv'
    BY <2>7 DEF LoadTick
  <2>8. ASSUME NEW t \in Threads, NotYet(t)
        PROVE  Inv'
    BY <2>8 DEF NotYet, DropTimes
  <2>9. ASSUME NEW t \in Threads, compare_exchange(t)
        PROVE  Inv'
    BY <2>9 DEF compare_exchange, DropTimes, WindowOver
  <2>10. ASSUME NEW t \in Threads, ExchangeFails(t)
         PROVE  Inv'
    BY <2>10 DEF ExchangeFails, WindowOver
  <2>11. ASSUME NEW t \in Threads, TakeCritical(t) \/ TakeOutside(t) \/ TakeCriticalTime(t)
         PROVE  Inv'
    <3>1. PICK counter \in Counters, from, to \in TakeLabels : SwapOut(t, counter, from, to)
      BY <2>11 DEF TakeCritical, TakeOutside, TakeCriticalTime, Counters
    <3>2. SampleTypes'
      BY <3>1, TakeTypes
    <3>3. Others'
      BY <3>1 DEF SwapOut, Take
    <3>4. QED
      BY <1>0, <3>2, <3>3
  <2>12. ASSUME NEW t \in Threads, TakeOutsideTime(t)
         PROVE  Inv'
    <3>1. SampleTypes'
      BY <2>12, TakeTypes DEF TakeOutsideTime, Counters
    <3>2. Others'
      BY <2>12 DEF TakeOutsideTime, SwapOut, Take
    <3>3. QED
      BY <1>0, <3>1, <3>2
  <2>13. ASSUME NEW t \in Threads, NoAverages(t)
         PROVE  Inv'
    <3>1. SampleTypes'
      BY <2>13, DropTypes DEF NoAverages
    <3>2. Others'
      BY <2>13 DEF NoAverages
    <3>3. QED
      BY <1>0, <3>1, <3>2
  <2>14. ASSUME NEW t \in Threads, LockControl(t)
         PROVE  Inv'
    <3>1. SampleTypes'
      BY <2>14, DropTypes DEF LockControl
    <3>2. Others'
      <4>1. CASE frozen
        BY <2>14, <4>1 DEF LockControl
      <4>2. CASE ~frozen
        <5>1. Goto(t, "averages", "decide") /\ mutex = None /\ mutex' = t
          BY <2>14, <4>2 DEF LockControl
        <5>2. \A u \in Threads : pc'[u] \in InControl <=> mutex' = u
          BY <5>1
        <5>3. pc' \in [Threads -> Labels] /\ mutex' \in Threads \cup {None}
          BY <5>1
        <5>4. UNCHANGED <<election, control, affinity>>
          BY <2>14 DEF LockControl
        <5>5. QED
          BY <5>2, <5>3, <5>4
      <4>3. QED
        BY <4>1, <4>2
    <3>3. QED
      BY <1>0, <3>1, <3>2
  <2>15. ASSUME NEW t \in Threads, LowLoadBypass(t)
         PROVE  Inv'
    BY <2>15 DEF LowLoadBypass, dynamic_cpu_low_load_bypass, dynamic_cpu_target_floor, current_cpu_count
  <2>16. ASSUME NEW t \in Threads, Decide(t)
         PROVE  Inv'
    <3>1. SampleTypes'
      BY <2>16 DEF Decide, SampleTypes
    <3>2. Others'
      <4>1. current_cpu_count \in Nat /\ dynamic_cpu_target_floor \in Nat /\ dynamic_cpu_target_limit \in Nat
        BY DEF current_cpu_count, dynamic_cpu_target_floor, dynamic_cpu_target_limit, DYNAMIC_CPU_MAX_TARGET_MULTIPLIER
      <4>2. \A n \in Targets : dynamic_cpu_target_bounded(n) \in Nat
        BY <4>1 DEF dynamic_cpu_target_bounded
      <4>3. /\ floor' \in Nat /\ limit' \in Nat /\ last_count' \in Nat /\ target' \in Nat
            /\ \/ Goto(t, "decide", "idle") /\ mutex' = None
               \/ Goto(t, "decide", "swap") /\ mutex' = mutex
            /\ UNCHANGED <<election, frozen, previous, active, mask>>
        BY <2>16, <4>1, <4>2 DEF Decide
      <4>4. QED
        BY <4>3
    <3>3. QED
      BY <1>0, <3>1, <3>2
  <2>17. ASSUME NEW t \in Threads, SwapCount(t)
         PROVE  Inv'
    BY <2>17 DEF SwapCount, applied_cpus
  <2>18. ASSUME NEW t \in Threads, BitmapFails(t)
         PROVE  Inv'
    BY <2>18 DEF BitmapFails, DropUpdate
  <2>19. ASSUME NEW t \in Threads, PushMask(t)
         PROVE  Inv'
    BY <2>19 DEF PushMask
  <2>20. ASSUME NEW t \in Threads, PushFails(t)
         PROVE  Inv'
    BY <2>20 DEF PushFails
  <2>21. ASSUME NEW t \in Threads, Rollback(t)
         PROVE  Inv'
    BY <2>21 DEF Rollback, DropUpdate
  <2>22. ASSUME NEW t \in Threads, Applied(t)
         PROVE  Inv'
    BY <2>22 DEF Applied, DropUpdate, applied_cpus
  <2>23. CASE UNCHANGED vars
    BY <2>23 DEF vars
  <2>24. QED
    BY <2>1, <2>2, <2>3, <2>4, <2>5, <2>6, <2>7, <2>8, <2>9, <2>10, <2>11, <2>12,
       <2>13, <2>14, <2>15, <2>16, <2>17, <2>18, <2>19, <2>20, <2>21, <2>22, <2>23 DEF Next, Call, Continue
<1>3. QED
  BY <1>1, <1>2, PTL DEF Spec

\* The inductive invariant of the count.
LEMMA InductiveInvariant == Spec => []IInv
<1> USE ConfigsAssumption, BoundsAssumption
      DEF IInv, CountWithinBounds, MemoryWithinBounds, UpdateWithinBounds, PushUnderWay,
          NoUpdateWhenFrozen, WithinBounds
<1>1. Init => IInv
  BY DEF Init
<1>2. TypeOK /\ TypeOK' /\ IInv /\ [Next]_vars => IInv'
  <2> SUFFICES ASSUME TypeOK, TypeOK', IInv, [Next]_vars
               PROVE  IInv'
    OBVIOUS
  <2>0. config' = config
    BY DEF Next, vars
  <2> USE <2>0 DEF Goto, samples, history, election, control, affinity, TypeOK, InControl, Labels, AddLabels, TakeLabels
  <2>1. CASE Advance
    BY <2>1 DEF Advance
  <2>2. CASE dynamic_cpu_affinity_freeze
    BY <2>2 DEF dynamic_cpu_affinity_freeze, current_cpu_count
  <2>3. ASSUME NEW t \in Threads, Sampled(t)
        PROVE  IInv'
    BY <2>3 DEF Sampled
  <2>4. ASSUME NEW t \in Threads, AddCriticalTime(t) \/ AddOutsideTime(t) \/ AddCritical(t)
        PROVE  IInv'
    BY <2>4 DEF AddCriticalTime, AddOutsideTime, AddCritical, AddEarlier, Add
  <2>5. ASSUME NEW t \in Threads, AddOutside(t)
        PROVE  IInv'
    BY <2>5 DEF AddOutside, Add
  <2>6. ASSUME NEW t \in Threads, NotSampled(t)
        PROVE  IInv'
    BY <2>6 DEF NotSampled
  <2>7. ASSUME NEW t \in Threads, LoadTick(t)
        PROVE  IInv'
    BY <2>7 DEF LoadTick
  <2>8. ASSUME NEW t \in Threads, NotYet(t)
        PROVE  IInv'
    BY <2>8 DEF NotYet, DropTimes
  <2>9. ASSUME NEW t \in Threads, compare_exchange(t)
        PROVE  IInv'
    BY <2>9 DEF compare_exchange, DropTimes, WindowOver
  <2>10. ASSUME NEW t \in Threads, ExchangeFails(t)
         PROVE  IInv'
    BY <2>10 DEF ExchangeFails, WindowOver
  <2>11. ASSUME NEW t \in Threads, TakeCritical(t) \/ TakeOutside(t)
         PROVE  IInv'
    BY <2>11 DEF TakeCritical, TakeOutside, SwapOut, Take
  <2>12. ASSUME NEW t \in Threads, TakeCriticalTime(t) \/ TakeOutsideTime(t)
         PROVE  IInv'
    BY <2>12 DEF TakeCriticalTime, TakeOutsideTime, SwapOut, Take
  <2>13. ASSUME NEW t \in Threads, NoAverages(t)
         PROVE  IInv'
    BY <2>13 DEF NoAverages, DropCounts
  <2>14. ASSUME NEW t \in Threads, LockControl(t)
         PROVE  IInv'
    BY <2>14 DEF LockControl, DropCounts
  <2>15. ASSUME NEW t \in Threads, LowLoadBypass(t)
         PROVE  IInv'
    BY <2>15 DEF LowLoadBypass, dynamic_cpu_low_load_bypass, dynamic_cpu_target_floor, current_cpu_count
  <2>16. ASSUME NEW t \in Threads, Decide(t)
         PROVE  IInv'
    BY <2>16 DEF Decide, dynamic_cpu_low_load_bypass, dynamic_cpu_target_floor, dynamic_cpu_target_limit, dynamic_cpu_target_bounded, dynamic_cpu_count_within_dead_zone, current_cpu_count, DYNAMIC_CPU_MAX_TARGET_MULTIPLIER
  <2>17. ASSUME NEW t \in Threads, SwapCount(t)
         PROVE  IInv'
    BY <2>17 DEF SwapCount, applied_cpus
  <2>18. ASSUME NEW t \in Threads, BitmapFails(t)
         PROVE  IInv'
    BY <2>18 DEF BitmapFails, DropUpdate
  <2>19. ASSUME NEW t \in Threads, PushMask(t)
         PROVE  IInv'
    BY <2>19 DEF PushMask
  <2>20. ASSUME NEW t \in Threads, PushFails(t)
         PROVE  IInv'
    BY <2>20 DEF PushFails
  <2>21. ASSUME NEW t \in Threads, Rollback(t)
         PROVE  IInv'
    BY <2>21 DEF Rollback, DropUpdate
  <2>22. ASSUME NEW t \in Threads, Applied(t)
         PROVE  IInv'
    BY <2>22 DEF Applied, DropUpdate, applied_cpus
  <2>23. CASE UNCHANGED vars
    BY <2>23 DEF vars
  <2>24. QED
    BY <2>1, <2>2, <2>3, <2>4, <2>5, <2>6, <2>7, <2>8, <2>9, <2>10, <2>11, <2>12,
       <2>13, <2>14, <2>15, <2>16, <2>17, <2>18, <2>19, <2>20, <2>21, <2>22, <2>23 DEF Next, Call, Continue
<1>3. QED
  BY <1>1, <1>2, TypeCorrect, PTL DEF Spec

\* No fewer CPUs than were asked for are ever active, and no more than there
\* are, whatever targets, failed pushes and rollbacks come one after the other.
THEOREM CountStaysWithinBounds == Spec => []CountWithinBounds
<1>1. IInv => CountWithinBounds
  BY DEF IInv
<1>2. QED
  BY <1>1, InductiveInvariant, PTL

\* Between updates the scheduler has the mask of the count that the controller
\* believes in, also after failed pushes, if each CPU fits the mask.
THEOREM CountAndMaskAgree == Spec => []CountIsPushed
<1>1. IInv => CountIsPushed
  BY DEF IInv, PushUnderWay, CountIsPushed
<1>2. QED
  BY <1>1, InductiveInvariant, PTL

\* Where the number of threads at some labels stays, where one joins them and
\* where one leaves them.
LEMMA ThreadStays ==
  ASSUME NEW CONSTANT S, NEW t \in Threads, pc \in [Threads -> Labels],
         NEW from, NEW to \in Labels, Goto(t, from, to), from \in S <=> to \in S
  PROVE  ThreadsAt(S)' = ThreadsAt(S)
BY DEF Goto, ThreadsAt

LEMMA ThreadJoins ==
  ASSUME NEW CONSTANT S, NEW t \in Threads, pc \in [Threads -> Labels],
         NEW from, NEW to \in Labels, Goto(t, from, to), from \notin S, to \in S
  PROVE  Cardinality(ThreadsAt(S)') = Cardinality(ThreadsAt(S)) + 1
<1>1. ThreadsAt(S)' = ThreadsAt(S) \cup {t} /\ t \notin ThreadsAt(S)
  BY DEF Goto, ThreadsAt
<1>2. IsFiniteSet(ThreadsAt(S))
  BY BoundsAssumption, FS_Subset DEF ThreadsAt
<1>3. QED
  BY <1>1, <1>2, FS_AddElement

LEMMA ThreadLeaves ==
  ASSUME NEW CONSTANT S, NEW t \in Threads, pc \in [Threads -> Labels],
         NEW from, NEW to \in Labels, Goto(t, from, to), from \in S, to \notin S
  PROVE  /\ Cardinality(ThreadsAt(S)) > 0
         /\ Cardinality(ThreadsAt(S)') = Cardinality(ThreadsAt(S)) - 1
<1>1. ThreadsAt(S)' = ThreadsAt(S) \ {t} /\ t \in ThreadsAt(S)
  BY DEF Goto, ThreadsAt
<1>2. IsFiniteSet(ThreadsAt(S))
  BY BoundsAssumption, FS_Subset DEF ThreadsAt
<1>3. Cardinality(ThreadsAt(S)') = Cardinality(ThreadsAt(S)) - 1
  BY <1>1, <1>2, FS_RemoveElement
<1>4. IsFiniteSet(ThreadsAt(S)')
  BY <1>1, <1>2, FS_RemoveElement
<1>5. Cardinality(ThreadsAt(S)) \in Nat /\ Cardinality(ThreadsAt(S)') \in Nat
  BY <1>2, <1>4, FS_CardinalityType
<1>6. QED
  BY <1>3, <1>5

\* What the samples go through, sample by sample.  PartsInOnePlace, where each
\* sample is added by one thread and a tick holds what it has taken:
Taken(t) ==
    CASE pc[t] = "take_ncs"     -> {"cs"}
      [] pc[t] = "take_cs_sum"  -> {"cs", "ncs"}
      [] pc[t] = "take_ncs_sum" -> {"cs", "ncs", "cs_sum"}
      [] pc[t] = "averages"     -> Counters
      [] OTHER                  -> {}

OneThreadEach == \A t, u \in Threads : sample[t] # 0 /\ sample[t] = sample[u] => t = u

OnlyTaken == \A t \in Threads : \A c \in Counters \ Taken(t) : got[t][c] = {}

Somewhere(s, c) ==
    \/ s \in process[c] \/ s \in past[c]
    \/ \E t \in Threads : s \in got[t][c]
    \/ \E t \in Threads : pc[t] \in Before(c) /\ sample[t] = s

NoneLost == \A c \in Counters : \A s \in 1..made : Somewhere(s, c)

NoneTwice ==
    \A c \in Counters :
        /\ process[c] \cap past[c] = {}
        /\ \A t \in Threads :
            /\ got[t][c] \cap (process[c] \cup past[c]) = {}
            /\ \A u \in Threads \ {t} : got[t][c] \cap got[u][c] = {}
            /\ pc[t] \in Before(c) =>
                /\ sample[t] \notin process[c] \cup past[c]
                /\ \A u \in Threads : sample[t] \notin got[u][c]

PlacesInv == OneThreadEach /\ OnlyTaken /\ NoneLost /\ NoneTwice

\* A sample that is not torn is whole: in the additions of its thread, in the
\* counters while no tick takes them, and between the counters and a tick.
Partly == {"add_ncs_sum", "add_cs", "add_ncs"}
Half == {"take_ncs", "take_cs_sum", "take_ncs_sum"}

Has(t, c) == IF c \in Taken(t) THEN got[t][c] ELSE process[c]

OverlapsTorn ==
    \A t \in Threads : pc[t] \in Half =>
        /\ \A u \in Threads : pc[u] \in Partly => sample[u] \in torn
        /\ \A u \in Threads \ {t} : pc[u] \in Half => \A c \in Counters : process[c] \subseteq torn

WholeInAdditions ==
    \A t \in Threads : pc[t] \in AddLabels /\ sample[t] \notin torn =>
        \A c \in Counters : sample[t] \in process[c] <=> pc[t] \notin Before(c)

WholeInCounters ==
    (\A t \in Threads : pc[t] \notin Half) =>
        \A c, d \in Counters : \A s \in process[c] \ torn :
            (\A t \in Threads : sample[t] # s) => s \in process[d]

WholeInTicks ==
    \A t \in Threads : Taken(t) # {} =>
        /\ \A c, d \in Counters : Has(t, c) \ torn \subseteq Has(t, d)
        /\ pc[t] \in Half => \A c \in Taken(t) : process[c] \subseteq torn

WholeInv ==
    /\ OverlapsTorn /\ WholeInAdditions /\ WholeInCounters /\ WholeInTicks
    /\ dropped \subseteq torn
\* Labels at which a thread has nothing to do with samples.
Quiet == Labels \ (AddLabels \cup Half \cup {"averages"})

LEMMA BeforeLabels ==
  /\ Before("cs_sum") = {"add_cs_sum"} /\ Before("ncs_sum") = {"add_cs_sum", "add_ncs_sum"}
  /\ Before("cs") = {"add_cs_sum", "add_ncs_sum", "add_cs"} /\ Before("ncs") = AddLabels
  /\ \A c \in Counters : Before(c) \subseteq AddLabels /\ "add_cs_sum" \in Before(c)
BY DEF Before, Counters, AddLabels

\* A step that moves a thread between quiet labels, or none.
LEMMA QuietStep ==
  ASSUME TypeOK, PlacesInv, WholeInv, UNCHANGED <<samples, got>>,
         pc' = pc \/ \E t \in Threads : \E from, to \in Quiet : Goto(t, from, to)
  PROVE  PlacesInv' /\ WholeInv'
<1>1. \A t \in Threads : pc'[t] = pc[t] \/ (pc[t] \in Quiet /\ pc'[t] \in Quiet)
  BY DEF Goto, TypeOK
<1>2. \A c \in Counters : Before(c)' = Before(c) /\ Before(c) \subseteq AddLabels
  BY BeforeLabels DEF Before
<1>3. \A t \in Threads, c \in Counters : pc'[t] \in Before(c) <=> pc[t] \in Before(c)
  BY <1>1, <1>2 DEF Quiet
<1>4. \A t \in Threads : /\ pc'[t] \in AddLabels <=> pc[t] \in AddLabels
                         /\ pc'[t] \in Half <=> pc[t] \in Half
                         /\ pc'[t] \in Partly <=> pc[t] \in Partly
  BY <1>1 DEF Quiet, Partly, AddLabels
<1>5. \A t \in Threads : Taken(t)' = Taken(t)
  BY <1>1 DEF Quiet, Half, Taken
<1>6. /\ process' = process /\ made' = made /\ sample' = sample /\ past' = past
      /\ dropped' = dropped /\ torn' = torn /\ got' = got
  BY DEF samples, history
<1>7. OneThreadEach' /\ OnlyTaken'
  BY <1>5, <1>6 DEF PlacesInv, OneThreadEach, OnlyTaken
<1>8. NoneLost'
  BY <1>2, <1>3, <1>6 DEF PlacesInv, NoneLost, Somewhere
<1>9. NoneTwice'
  BY <1>2, <1>3, <1>6 DEF PlacesInv, NoneTwice
<1>10. OverlapsTorn'
  BY <1>4, <1>6 DEF WholeInv, OverlapsTorn
<1>11. WholeInAdditions'
  BY <1>2, <1>3, <1>4, <1>6 DEF WholeInv, WholeInAdditions
<1>12. WholeInCounters'
  BY <1>4, <1>6 DEF WholeInv, WholeInCounters
<1>13. WholeInTicks'
  BY <1>4, <1>5, <1>6 DEF WholeInv, WholeInTicks, Has
<1>14. QED
  BY <1>6, <1>7, <1>8, <1>9, <1>10, <1>11, <1>12, <1>13 DEF PlacesInv, WholeInv

\* What the history variable of a step records.
LEMMA Recorded ==
  ASSUME RecordOverlaps, TypeOK'
  PROVE  OverlapsTorn' /\ torn \subseteq torn'
<1>1. Overlaps' \subseteq torn' /\ torn \subseteq torn'
  BY DEF RecordOverlaps
<1>2. ASSUME NEW t \in Threads, pc'[t] \in Half, NEW u \in Threads, pc'[u] \in Partly
      PROVE  sample'[u] \in torn'
  <2>1. t \in Taking' /\ sample'[u] \in PartlyAdded'
    BY <1>2 DEF Taking, PartlyAdded, ThreadsAt, Half, Partly
  <2>2. QED
    BY <1>1, <2>1 DEF Overlaps
<1>3. ASSUME NEW t \in Threads, pc'[t] \in Half, NEW u \in Threads \ {t}, pc'[u] \in Half, NEW c \in Counters
      PROVE  process'[c] \subseteq torn'
  <2>1. t \in Taking' /\ u \in Taking' /\ t # u
    BY <1>3 DEF Taking, ThreadsAt, Half
  <2>2. UNION {process'[d] : d \in Counters} \subseteq Overlaps'
    BY <2>1 DEF Overlaps
  <2>3. QED
    BY <1>1, <2>2
<1>4. QED
  BY <1>1, <1>2, <1>3 DEF OverlapsTorn

LEMMA SampledStep ==
  ASSUME TypeOK, TypeOK', PlacesInv, WholeInv, NEW t \in Threads, Sampled(t)
  PROVE  PlacesInv' /\ WholeInv'
<1> DEFINE s == made + 1
<1>1. /\ process' = process /\ past' = past /\ dropped' = dropped /\ torn' = torn /\ got' = got
      /\ made \in Nat /\ made' = s
  BY DEF Sampled, history, TypeOK
<1>2. /\ pc[t] = "idle" /\ pc'[t] = "add_cs_sum" /\ sample'[t] = s
      /\ \A u \in Threads : u # t => pc'[u] = pc[u] /\ sample'[u] = sample[u]
  BY DEF Sampled, Goto, TypeOK
<1>3. \A c \in Counters : Before(c)' = Before(c) /\ Before(c) \subseteq AddLabels /\ "add_cs_sum" \in Before(c)
  BY BeforeLabels DEF Before
<1>4. s \notin 1..made /\ 1..s = (1..made) \cup {s}
  BY <1>1
<1>5. \A c \in Counters : /\ s \notin process[c] /\ s \notin past[c]
                          /\ \A u \in Threads : s \notin got[u][c]
  BY <1>4 DEF TypeOK
<1>6. s \notin torn /\ \A u \in Threads : sample[u] # s
  BY <1>1, <1>4 DEF TypeOK
<1>7. \A u \in Threads : Taken(u)' = Taken(u)
  BY <1>2 DEF Taken
<1>8. \A u \in Threads : pc'[u] \in Half => u # t /\ pc[u] \in Half
  BY <1>2 DEF Half
<1>9. OneThreadEach'
  BY <1>2, <1>6 DEF PlacesInv, OneThreadEach
<1>10. OnlyTaken'
  BY <1>1, <1>7 DEF PlacesInv, OnlyTaken
<1>11. NoneLost'
  <2> SUFFICES ASSUME NEW c \in Counters, NEW r \in 1..made'
               PROVE  Somewhere(r, c)'
    BY DEF NoneLost
  <2>1. CASE r = s
    BY <2>1, <1>2, <1>3 DEF Somewhere
  <2>2. CASE r \in 1..made
    <3>1. Somewhere(r, c)
      BY <2>2 DEF PlacesInv, NoneLost
    <3>2. pc[t] \notin Before(c)
      BY <1>2, <1>3 DEF AddLabels
    <3>3. QED
      BY <3>1, <3>2, <1>1, <1>2, <1>3 DEF Somewhere
  <2>3. QED
    BY <2>1, <2>2, <1>1, <1>4
<1>12. NoneTwice'
  BY <1>1, <1>2, <1>3, <1>5 DEF PlacesInv, NoneTwice
<1>13. OverlapsTorn'
  BY <1>1, <1>2, <1>8 DEF WholeInv, OverlapsTorn, Partly
<1>14. WholeInAdditions'
  BY <1>1, <1>2, <1>3, <1>5 DEF WholeInv, WholeInAdditions
<1>15. WholeInCounters'
  <2> SUFFICES ASSUME \A u \in Threads : pc'[u] \notin Half,
                      NEW c \in Counters, NEW d \in Counters, NEW r \in process[c] \ torn,
                      \A u \in Threads : sample'[u] # r
               PROVE  r \in process[d]
    BY <1>1 DEF WholeInCounters
  <2>1. \A u \in Threads : pc[u] \notin Half
    BY <1>2 DEF Half
  <2>2. \A u \in Threads : sample[u] # r
    <3>1. sample[t] = 0
      BY <1>2 DEF TypeOK, AddLabels
    <3>2. r \in 1..made
      BY DEF TypeOK
    <3>3. QED
      BY <3>1, <3>2, <1>1, <1>2
  <2>3. QED
    BY <2>1, <2>2 DEF WholeInv, WholeInCounters
<1>16. WholeInTicks'
  BY <1>1, <1>2, <1>7, <1>8 DEF WholeInv, WholeInTicks, Has
<1>17. QED
  BY <1>1, <1>9, <1>10, <1>11, <1>12, <1>13, <1>14, <1>15, <1>16 DEF PlacesInv, WholeInv

\* An addition puts a part of a sample that one thread has into its counter.
LEMMA AddStep ==
  ASSUME TypeOK, TypeOK', PlacesInv, WholeInv,
         NEW t \in Threads, NEW counter \in Counters, NEW from \in AddLabels, NEW to \in Labels,
         Add(t, counter, from, to), RecordOverlaps,
         \A c \in Counters : to \in Before(c) <=> from \in Before(c) /\ c # counter,
         from \in Before(counter),
         \/ to \in Partly /\ sample' = sample
         \/ to = "load" /\ from \in Partly /\ sample' = [sample EXCEPT ![t] = 0]
  PROVE  PlacesInv' /\ WholeInv'
<1> DEFINE s == sample[t]
<1>1. /\ past' = past /\ dropped' = dropped /\ got' = got /\ made' = made
      /\ torn \subseteq torn' /\ OverlapsTorn'
  BY Recorded DEF Add
<1>2. /\ pc[t] = from /\ pc'[t] = to
      /\ \A u \in Threads : u # t => pc'[u] = pc[u] /\ sample'[u] = sample[u]
      /\ sample'[t] \in {s, 0} /\ (to # "load" => sample'[t] = s)
  BY DEF Add, Goto, TypeOK, Partly
<1>3. /\ process'[counter] = process[counter] \cup {s}
      /\ \A c \in Counters : c # counter => process'[c] = process[c]
  BY DEF Add, TypeOK
<1>4. \A c \in Counters : Before(c)' = Before(c) /\ Before(c) \subseteq AddLabels
  BY BeforeLabels DEF Before
<1>5. s # 0 /\ s \in 1..made
  BY <1>2 DEF TypeOK
<1>6. \A u \in Threads : u # t => sample[u] # s
  BY <1>5 DEF PlacesInv, OneThreadEach
<1>7. \A u \in Threads : Taken(u)' = Taken(u)
  BY <1>2 DEF Taken, AddLabels, Partly
<1>8. \A u \in Threads : pc'[u] \in Half <=> pc[u] \in Half
  BY <1>2 DEF Half, AddLabels, Partly
<1>9. \A u \in Threads, c \in Counters :
        pc'[u] \in Before(c) <=> pc[u] \in Before(c) /\ ~(u = t /\ c = counter)
  BY <1>2
<1>10. OneThreadEach'
  BY <1>2, <1>6 DEF PlacesInv, OneThreadEach
<1>11. OnlyTaken'
  BY <1>1, <1>7 DEF PlacesInv, OnlyTaken
<1>12. NoneLost'
  <2> SUFFICES ASSUME NEW c \in Counters, NEW r \in 1..made
               PROVE  Somewhere(r, c)'
    BY <1>1 DEF NoneLost
  <2>1. Somewhere(r, c)
    BY DEF PlacesInv, NoneLost
  <2>2. CASE r \in process[c]
    BY <2>2, <1>3 DEF Somewhere
  <2>3. CASE r \in past[c] \/ \E u \in Threads : r \in got[u][c]
    BY <2>3, <1>1 DEF Somewhere
  <2>4. ASSUME NEW u \in Threads, pc[u] \in Before(c), sample[u] = r
        PROVE  Somewhere(r, c)'
    <3>1. CASE u = t /\ c = counter
      BY <3>1, <2>4, <1>3 DEF Somewhere
    <3>2. CASE ~(u = t /\ c = counter)
      <4>1. pc'[u] \in Before(c)
        BY <3>2, <2>4, <1>9
      <4>2. sample'[u] = r
        BY <4>1, <2>4, <1>2, <1>4 DEF AddLabels
      <4>3. QED
        BY <4>1, <4>2, <1>4 DEF Somewhere
    <3>3. QED
      BY <3>1, <3>2
  <2>5. QED
    BY <2>1, <2>2, <2>3, <2>4 DEF Somewhere
<1>13. NoneTwice'
  <2> SUFFICES ASSUME NEW c \in Counters
               PROVE  /\ process'[c] \cap past[c] = {}
                      /\ \A v \in Threads :
                          /\ got[v][c] \cap (process'[c] \cup past[c]) = {}
                          /\ \A u \in Threads \ {v} : got[v][c] \cap got[u][c] = {}
                          /\ pc'[v] \in Before(c) =>
                              /\ sample'[v] \notin process'[c] \cup past[c]
                              /\ \A u \in Threads : sample'[v] \notin got[u][c]
    BY <1>1, <1>4 DEF NoneTwice
  <2>1. /\ process[c] \cap past[c] = {}
        /\ \A v \in Threads :
            /\ got[v][c] \cap (process[c] \cup past[c]) = {}
            /\ \A u \in Threads \ {v} : got[v][c] \cap got[u][c] = {}
            /\ pc[v] \in Before(c) =>
                /\ sample[v] \notin process[c] \cup past[c]
                /\ \A u \in Threads : sample[v] \notin got[u][c]
    BY DEF PlacesInv, NoneTwice
  <2>2. \A v \in Threads : pc'[v] \in Before(c) => sample'[v] = sample[v] /\ pc[v] \in Before(c)
    BY <1>2, <1>4, <1>9 DEF AddLabels
  <2>3. CASE c = counter
    <3>1. s \notin past[c] /\ \A u \in Threads : s \notin got[u][c]
      BY <2>1, <2>3, <1>2
    <3>2. \A v \in Threads : pc'[v] \in Before(c) => v # t
      BY <2>3, <1>9
    <3>3. QED
      BY <2>1, <2>2, <2>3, <3>1, <3>2, <1>3, <1>6
  <2>4. CASE c # counter
    BY <2>1, <2>2, <2>4, <1>3
  <2>5. QED
    BY <2>3, <2>4
\* An addition while a tick takes the counters is of a torn sample.
<1>14. ASSUME NEW u \in Threads, pc[u] \in Half
       PROVE  s \in torn'
  <2>1. CASE to \in Partly
    BY <2>1, <1>1, <1>2, <1>8, <1>14 DEF OverlapsTorn, Partly
  <2>2. CASE from \in Partly
    BY <2>2, <1>1, <1>2, <1>14 DEF WholeInv, OverlapsTorn
  <2>3. QED
    BY <2>1, <2>2
<1>15. WholeInAdditions'
  <2> SUFFICES ASSUME NEW u \in Threads, pc'[u] \in AddLabels, sample'[u] \notin torn',
                      NEW c \in Counters
               PROVE  sample'[u] \in process'[c] <=> pc'[u] \notin Before(c)
    BY <1>4 DEF WholeInAdditions
  <2>1. sample'[u] = sample[u] /\ pc[u] \in AddLabels /\ sample[u] \notin torn
    BY <1>1, <1>2 DEF AddLabels
  <2>2. sample[u] \in process[c] <=> pc[u] \notin Before(c)
    BY <2>1 DEF WholeInv, WholeInAdditions
  <2>3. QED
    BY <2>1, <2>2, <1>3, <1>6, <1>9
<1>16. WholeInCounters'
  <2> SUFFICES ASSUME \A u \in Threads : pc'[u] \notin Half,
                      NEW c \in Counters, NEW d \in Counters, NEW r \in process'[c] \ torn',
                      \A u \in Threads : sample'[u] # r
               PROVE  r \in process'[d]
    BY DEF WholeInCounters
  <2>1. CASE r = s
    <3>1. to = "load" /\ s \notin torn
      BY <2>1, <1>1, <1>2
    <3>2. \A e \in Counters : e # counter => from \notin Before(e)
      BY <3>1, <1>4 DEF AddLabels
    <3>3. \A e \in Counters : e # counter => s \in process[e]
      BY <3>1, <3>2, <1>2 DEF WholeInv, WholeInAdditions
    <3>4. QED
      BY <2>1, <3>3, <1>3
  <2>2. CASE r # s
    <3>1. r \in process[c] \ torn /\ \A u \in Threads : sample[u] # r
      BY <2>2, <1>1, <1>2, <1>3
    <3>2. r \in process[d]
      BY <3>1, <1>8 DEF WholeInv, WholeInCounters
    <3>3. QED
      BY <3>2, <1>3
  <2>3. QED
    BY <2>1, <2>2
<1>17. WholeInTicks'
  <2> SUFFICES ASSUME NEW u \in Threads, Taken(u) # {}
               PROVE  /\ \A c, d \in Counters : Has(u, c)' \ torn' \subseteq Has(u, d)'
                      /\ pc'[u] \in Half => \A c \in Taken(u) : process'[c] \subseteq torn'
    BY <1>7 DEF WholeInTicks
  <2>1. /\ \A c, d \in Counters : Has(u, c) \ torn \subseteq Has(u, d)
        /\ pc[u] \in Half => \A c \in Taken(u) : process[c] \subseteq torn
    BY DEF WholeInv, WholeInTicks
  <2>2. Taken(u) \subseteq Counters
    BY DEF Taken, Counters
  <2>3. CASE pc[u] \in Half
    <3>1. s \in torn'
      BY <2>3, <1>14
    <3>2. \A c \in Counters : Has(u, c)' \ torn' = Has(u, c) \ torn'
      BY <3>1, <1>1, <1>3, <1>7 DEF Has
    <3>3. \A c, d \in Counters : Has(u, c)' \ torn' \subseteq Has(u, d)'
      BY <2>1, <3>2, <1>1
    <3>4. \A c \in Taken(u) : process'[c] \subseteq torn'
      BY <2>1, <2>2, <2>3, <3>1, <1>1, <1>3
    <3>5. QED
      BY <3>3, <3>4
  <2>4. CASE pc[u] \notin Half
    <3>1. Taken(u) = Counters
      BY <2>4 DEF Taken, Half
    <3>2. \A c \in Counters : Has(u, c)' = Has(u, c)
      BY <3>1, <1>1, <1>7 DEF Has
    <3>3. QED
      BY <2>1, <2>4, <3>2, <1>1, <1>8
  <2>5. QED
    BY <2>3, <2>4
<1>18. dropped' \subseteq torn'
  BY <1>1 DEF WholeInv
<1>19. QED
  BY <1>1, <1>10, <1>11, <1>12, <1>13, <1>15, <1>16, <1>17, <1>18 DEF PlacesInv, WholeInv

\* A tick swaps one counter out.
LEMMA SwapStep ==
  ASSUME TypeOK, TypeOK', PlacesInv, WholeInv,
         NEW t \in Threads, NEW counter \in Counters, NEW from \in Labels, NEW to \in Labels,
         SwapOut(t, counter, from, to),
         (from = "take_cs" /\ counter = "cs") \/ from \in Half,
         (from = "take_cs" \/ from = "take_ncs" \/ from = "take_cs_sum") => to \in Half,
         from = "take_ncs_sum" => counter = "ncs_sum" /\ to = "averages",
         counter \notin Taken(t), Taken(t)' = Taken(t) \cup {counter}
  PROVE  PlacesInv' /\ WholeInv'
<1>1. /\ past' = past /\ dropped' = dropped /\ sample' = sample /\ made' = made
      /\ torn \subseteq torn' /\ OverlapsTorn'
  BY Recorded DEF SwapOut, Take
<1>2. /\ pc[t] = from /\ pc'[t] = to
      /\ \A u \in Threads : u # t => pc'[u] = pc[u]
  BY DEF SwapOut, Take, Goto, TypeOK
<1>3. /\ process'[counter] = {} /\ got'[t][counter] = process[counter]
      /\ \A c \in Counters : c # counter => process'[c] = process[c] /\ got'[t][c] = got[t][c]
      /\ \A u \in Threads : u # t => got'[u] = got[u]
  BY DEF SwapOut, Take, TypeOK
<1>4. \A c \in Counters : Before(c)' = Before(c) /\ Before(c) \subseteq AddLabels
  BY BeforeLabels DEF Before
<1>5. \A u \in Threads : u # t => Taken(u)' = Taken(u)
  BY <1>2 DEF Taken
<1>6. \A u \in Threads, c \in Counters : pc'[u] \in Before(c) <=> pc[u] \in Before(c)
  BY <1>2, <1>4 DEF AddLabels, Half
<1>7. \A u \in Threads : /\ pc'[u] \in AddLabels <=> pc[u] \in AddLabels
                         /\ pc'[u] \in Partly <=> pc[u] \in Partly
  BY <1>2 DEF AddLabels, Half, Partly
<1>8. \A u \in Threads : pc[u] \in Half => "cs" \in Taken(u)
  BY DEF Taken, Half
<1>9. pc'[t] \in Half \/ pc[t] \in Half
  BY <1>2
<1>10. OneThreadEach'
  BY <1>1 DEF PlacesInv, OneThreadEach
<1>11. OnlyTaken'
  BY <1>3, <1>5 DEF PlacesInv, OnlyTaken
<1>12. got[t][counter] = {}
  BY DEF PlacesInv, OnlyTaken
<1>13. NoneLost'
  <2> SUFFICES ASSUME NEW c \in Counters, NEW r \in 1..made
               PROVE  Somewhere(r, c)'
    BY <1>1 DEF NoneLost
  <2>1. Somewhere(r, c)
    BY DEF PlacesInv, NoneLost
  <2>2. CASE c = counter
    BY <2>1, <2>2, <1>1, <1>3, <1>4, <1>6, <1>12 DEF Somewhere
  <2>3. CASE c # counter
    BY <2>1, <2>3, <1>1, <1>3, <1>4, <1>6 DEF Somewhere
  <2>4. QED
    BY <2>2, <2>3
<1>14. NoneTwice'
  <2> SUFFICES ASSUME NEW c \in Counters
               PROVE  /\ process'[c] \cap past[c] = {}
                      /\ \A v \in Threads :
                          /\ got'[v][c] \cap (process'[c] \cup past[c]) = {}
                          /\ \A u \in Threads \ {v} : got'[v][c] \cap got'[u][c] = {}
                          /\ pc[v] \in Before(c) =>
                              /\ sample[v] \notin process'[c] \cup past[c]
                              /\ \A u \in Threads : sample[v] \notin got'[u][c]
    BY <1>1, <1>4, <1>6 DEF NoneTwice
  <2>1. /\ process[c] \cap past[c] = {}
        /\ \A v \in Threads :
            /\ got[v][c] \cap (process[c] \cup past[c]) = {}
            /\ \A u \in Threads \ {v} : got[v][c] \cap got[u][c] = {}
            /\ pc[v] \in Before(c) =>
                /\ sample[v] \notin process[c] \cup past[c]
                /\ \A u \in Threads : sample[v] \notin got[u][c]
    BY DEF PlacesInv, NoneTwice
  <2>2. CASE c = counter
    <3>1. process'[c] = {} /\ got'[t][c] = process[c] /\ \A u \in Threads : u # t => got'[u][c] = got[u][c]
      BY <2>2, <1>3
    <3>2. QED
      BY <2>1, <3>1
  <2>3. CASE c # counter
    <3>1. process'[c] = process[c] /\ \A u \in Threads : got'[u][c] = got[u][c]
      BY <2>3, <1>3
    <3>2. QED
      BY <2>1, <3>1
  <2>4. QED
    BY <2>2, <2>3
\* Samples that are being added meanwhile are torn, and all are if two ticks take.
<1>15. ASSUME NEW u \in Threads, pc[u] \in Partly
       PROVE  sample[u] \in torn'
  <2>1. CASE pc'[t] \in Half
    BY <2>1, <1>1, <1>7, <1>15 DEF OverlapsTorn
  <2>2. CASE pc[t] \in Half
    BY <2>2, <1>1, <1>15 DEF WholeInv, OverlapsTorn
  <2>3. QED
    BY <1>9, <2>1, <2>2
<1>16. ASSUME NEW u \in Threads, u # t, pc[u] \in Half, NEW c \in Counters
       PROVE  process[c] \subseteq torn'
  <2>1. CASE pc[t] \in Half
    BY <2>1, <1>1, <1>16 DEF WholeInv, OverlapsTorn
  <2>2. CASE pc[t] \notin Half
    <3>1. counter = "cs" /\ pc'[t] \in Half /\ pc'[u] \in Half
      BY <2>2, <1>2, <1>9, <1>16
    <3>2. CASE c = counter
      BY <3>1, <3>2, <1>1, <1>8, <1>16 DEF WholeInv, WholeInTicks
    <3>3. CASE c # counter
      BY <3>1, <3>3, <1>1, <1>3, <1>16 DEF OverlapsTorn
    <3>4. QED
      BY <3>2, <3>3
  <2>3. QED
    BY <2>1, <2>2
<1>17. WholeInAdditions'
  <2> SUFFICES ASSUME NEW u \in Threads, pc[u] \in AddLabels, sample[u] \notin torn',
                      NEW c \in Counters
               PROVE  sample[u] \in process'[c] <=> pc[u] \notin Before(c)
    BY <1>1, <1>4, <1>6, <1>7 DEF WholeInAdditions
  <2>1. pc[u] = "add_cs_sum"
    BY <1>15 DEF AddLabels, Partly
  <2>2. pc[u] \in Before(c)
    BY <2>1, BeforeLabels
  <2>3. sample[u] \notin process[c]
    BY <2>2 DEF PlacesInv, NoneTwice
  <2>4. QED
    BY <2>2, <2>3, <1>3
<1>18. WholeInCounters'
  <2> SUFFICES ASSUME \A u \in Threads : pc'[u] \notin Half,
                      NEW c \in Counters, NEW d \in Counters, NEW r \in process'[c] \ torn'
               PROVE  r \in process'[d]
    BY DEF WholeInCounters
  <2>1. from = "take_ncs_sum" /\ counter = "ncs_sum"
    BY <1>2 DEF Half
  <2>2. c \in Taken(t)
    <3>1. c # "ncs_sum"
      BY <2>1, <1>3
    <3>2. Taken(t) = {"cs", "ncs", "cs_sum"}
      BY <2>1, <1>2 DEF Taken
    <3>3. QED
      BY <3>1, <3>2 DEF Counters
  <2>3. process[c] \subseteq torn
    BY <2>1, <2>2, <1>2 DEF WholeInv, WholeInTicks, Half
  <2>4. QED
    BY <2>3, <1>1, <1>3
\* What the tick has, in its hands or in the counters, is as it was.
<1>19. \A c \in Counters : Has(t, c)' = Has(t, c)
  BY <1>3 DEF Has
<1>20. \A c, d \in Counters : Has(t, c)' \ torn' \subseteq Has(t, d)'
  <2>1. CASE pc[t] \in Half
    <3>1. Taken(t) # {}
      BY <2>1, <1>8
    <3>2. QED
      BY <3>1, <1>1, <1>19 DEF WholeInv, WholeInTicks
  <2>2. CASE pc[t] \notin Half
    <3>1. from = "take_cs" /\ pc'[t] \in Half /\ Taken(t) = {}
      BY <2>2, <1>2 DEF Taken
    <3>2. \A c \in Counters : Has(t, c) = process[c]
      BY <3>1 DEF Has
    <3>3. CASE \E u \in Threads : pc[u] \in Half
      BY <3>2, <3>3, <2>2, <1>16, <1>19
    <3>4. CASE \A u \in Threads : pc[u] \notin Half
      <4> SUFFICES ASSUME NEW c \in Counters, NEW d \in Counters, NEW r \in process[c] \ torn'
                   PROVE  r \in process[d]
        BY <3>2, <1>19
      <4>1. ASSUME NEW u \in Threads, sample[u] = r
            PROVE  FALSE
        <5>1. r # 0
          <6>1. r \in 1..made
            BY DEF TypeOK
          <6>2. QED
            BY <6>1
        <5>2. pc[u] \in AddLabels
          BY <4>1, <5>1 DEF TypeOK
        <5>3. pc[u] = "add_cs_sum"
          BY <4>1, <5>2, <1>15 DEF AddLabels, Partly
        <5>4. pc[u] \in Before(c)
          BY <5>3, BeforeLabels
        <5>5. QED
          BY <4>1, <5>4 DEF PlacesInv, NoneTwice
      <4>2. QED
        BY <4>1, <3>4, <1>1 DEF WholeInv, WholeInCounters
    <3>5. QED
      BY <3>3, <3>4
  <2>3. QED
    BY <2>1, <2>2
<1>21. ASSUME pc'[t] \in Half, NEW c \in Taken(t)'
       PROVE  process'[c] \subseteq torn'
  <2>1. CASE c = counter
    BY <2>1, <1>3
  <2>2. CASE c # counter
    <3>1. c \in Taken(t) /\ c \in Counters
      BY <2>2, <1>21 DEF Taken, Counters
    <3>2. pc[t] \in Half
      BY <3>1, <1>2 DEF Taken
    <3>3. QED
      BY <2>2, <3>1, <3>2, <1>1, <1>3 DEF WholeInv, WholeInTicks
  <2>3. QED
    BY <2>1, <2>2
<1>22. ASSUME NEW u \in Threads, u # t, Taken(u) # {}
       PROVE  /\ \A c, d \in Counters : Has(u, c)' \ torn' \subseteq Has(u, d)'
              /\ pc'[u] \in Half => \A c \in Taken(u) : process'[c] \subseteq torn'
  <2>1. /\ \A c, d \in Counters : Has(u, c) \ torn \subseteq Has(u, d)
        /\ pc[u] \in Half => \A c \in Taken(u) : process[c] \subseteq torn
    BY <1>22 DEF WholeInv, WholeInTicks
  <2>2. Taken(u) \subseteq Counters
    BY DEF Taken, Counters
  <2>3. CASE pc[u] \in Half
    <3>1. \A c \in Counters : process[c] \subseteq torn'
      BY <2>3, <1>16, <1>22
    <3>2. \A c \in Counters : process'[c] \subseteq torn'
      BY <3>1, <1>3
    <3>3. CASE counter \in Taken(u)
      <4>1. \A c \in Counters : Has(u, c)' = Has(u, c)
        BY <3>3, <1>3, <1>5, <1>22 DEF Has
      <4>2. QED
        BY <4>1, <2>1, <2>2, <3>2, <1>1
    <3>4. CASE counter \notin Taken(u)
      <4>1. \A c \in Counters : Has(u, c) \subseteq torn'
        BY <2>1, <3>1, <3>4, <1>1 DEF Has
      <4>2. \A c \in Counters : Has(u, c)' \subseteq torn'
        BY <4>1, <3>2, <1>3, <1>5, <1>22 DEF Has
      <4>3. QED
        BY <4>2, <2>2, <3>2
    <3>5. QED
      BY <3>3, <3>4
  <2>4. CASE pc[u] \notin Half
    <3>1. Taken(u) = Counters
      BY <2>4, <1>22 DEF Taken, Half
    <3>2. \A c \in Counters : Has(u, c)' = Has(u, c)
      BY <3>1, <1>3, <1>5, <1>22 DEF Has
    <3>3. QED
      BY <2>1, <2>4, <3>2, <1>1, <1>2, <1>22
  <2>5. QED
    BY <2>3, <2>4
<1>23. WholeInTicks'
  BY <1>5, <1>20, <1>21, <1>22 DEF WholeInTicks
<1>24. QED
  BY <1>1, <1>10, <1>11, <1>13, <1>14, <1>17, <1>18, <1>23 DEF PlacesInv, WholeInv

\* A tick has done with what it took; without averages it throws it away.
LEMMA DropStep ==
  ASSUME TypeOK, TypeOK', PlacesInv, WholeInv, NEW t \in Threads,
         DropCounts(t), NEW to \in Quiet, Goto(t, "averages", to),
         \/ dropped' = dropped
         \/ /\ got[t]["cs"] = {} \/ got[t]["ncs"] = {}
            /\ dropped' = dropped \cup UNION {got[t][c] : c \in Counters}
  PROVE  PlacesInv' /\ WholeInv'
<1>1. /\ process' = process /\ made' = made /\ sample' = sample /\ torn' = torn
      /\ \A c \in Counters : past'[c] = past[c] \cup got[t][c] /\ got'[t][c] = {}
      /\ \A u \in Threads : u # t => got'[u] = got[u]
  BY DEF DropCounts, TypeOK, Nothing
<1>2. /\ pc[t] = "averages" /\ pc'[t] = to
      /\ \A u \in Threads : u # t => pc'[u] = pc[u]
  BY DEF Goto, TypeOK
<1>3. \A c \in Counters : Before(c)' = Before(c) /\ Before(c) \subseteq AddLabels
  BY BeforeLabels DEF Before
<1>4. \A u \in Threads, c \in Counters : pc'[u] \in Before(c) <=> pc[u] \in Before(c)
  BY <1>2, <1>3 DEF Quiet, AddLabels
<1>5. \A u \in Threads : /\ pc'[u] \in AddLabels <=> pc[u] \in AddLabels
                         /\ pc'[u] \in Partly <=> pc[u] \in Partly
                         /\ pc'[u] \in Half <=> pc[u] \in Half
  BY <1>2 DEF Quiet, AddLabels, Half, Partly
<1>6. Taken(t) = Counters /\ Taken(t)' = {} /\ \A u \in Threads : u # t => Taken(u)' = Taken(u)
  BY <1>2 DEF Taken, Quiet, Half
<1>7. OneThreadEach' /\ OnlyTaken'
  BY <1>1, <1>6 DEF PlacesInv, OneThreadEach, OnlyTaken
<1>8. NoneLost'
  <2> SUFFICES ASSUME NEW c \in Counters, NEW r \in 1..made
               PROVE  Somewhere(r, c)'
    BY <1>1 DEF NoneLost
  <2>1. Somewhere(r, c)
    BY DEF PlacesInv, NoneLost
  <2>2. QED
    BY <2>1, <1>1, <1>3, <1>4 DEF Somewhere
<1>9. NoneTwice'
  <2> SUFFICES ASSUME NEW c \in Counters
               PROVE  /\ process[c] \cap past'[c] = {}
                      /\ \A v \in Threads :
                          /\ got'[v][c] \cap (process[c] \cup past'[c]) = {}
                          /\ \A u \in Threads \ {v} : got'[v][c] \cap got'[u][c] = {}
                          /\ pc[v] \in Before(c) =>
                              /\ sample[v] \notin process[c] \cup past'[c]
                              /\ \A u \in Threads : sample[v] \notin got'[u][c]
    BY <1>1, <1>3, <1>4 DEF NoneTwice
  <2>1. /\ process[c] \cap past[c] = {}
        /\ \A v \in Threads :
            /\ got[v][c] \cap (process[c] \cup past[c]) = {}
            /\ \A u \in Threads \ {v} : got[v][c] \cap got[u][c] = {}
            /\ pc[v] \in Before(c) =>
                /\ sample[v] \notin process[c] \cup past[c]
                /\ \A u \in Threads : sample[v] \notin got[u][c]
    BY DEF PlacesInv, NoneTwice
  <2>2. /\ past'[c] = past[c] \cup got[t][c] /\ got'[t][c] = {}
        /\ \A u \in Threads : u # t => got'[u][c] = got[u][c]
    BY <1>1
  <2>3. QED
    BY <2>1, <2>2
<1>10. OverlapsTorn'
  BY <1>1, <1>5 DEF WholeInv, OverlapsTorn
<1>11. WholeInAdditions'
  BY <1>1, <1>3, <1>4, <1>5 DEF WholeInv, WholeInAdditions
<1>12. WholeInCounters'
  BY <1>1, <1>5 DEF WholeInv, WholeInCounters
<1>13. WholeInTicks'
  BY <1>1, <1>5, <1>6 DEF WholeInv, WholeInTicks, Has
<1>14. dropped' \subseteq torn'
  <2>1. dropped \subseteq torn
    BY DEF WholeInv
  <2>2. ASSUME got[t]["cs"] = {} \/ got[t]["ncs"] = {}, NEW c \in Counters
        PROVE  got[t][c] \subseteq torn
    <3>1. \A d, e \in Counters : got[t][d] \ torn \subseteq got[t][e]
      BY <1>6 DEF WholeInv, WholeInTicks, Has
    <3>2. "cs" \in Counters /\ "ncs" \in Counters
      BY DEF Counters
    <3>3. QED
      BY <2>2, <3>1, <3>2
  <2>3. QED
    BY <2>1, <2>2, <1>1
<1>15. QED
  BY <1>7, <1>8, <1>9, <1>10, <1>11, <1>12, <1>13, <1>14 DEF PlacesInv, WholeInv

LEMMA SamplesInvariant == Spec => [](PlacesInv /\ WholeInv)
<1> DEFINE Inv == PlacesInv /\ WholeInv
<1>1. Init => Inv
  <2> SUFFICES ASSUME Init
               PROVE  Inv
    OBVIOUS
  <2>1. /\ process = Nothing /\ past = Nothing /\ dropped = {} /\ made = 0
        /\ \A t \in Threads : pc[t] = "idle" /\ sample[t] = 0 /\ got[t] = Nothing
    BY DEF Init
  <2>2. \A c \in Counters : Nothing[c] = {}
    BY DEF Nothing
  <2>3. \A t \in Threads, c \in Counters : Taken(t) = {} /\ pc[t] \notin Before(c)
    BY <2>1, BeforeLabels DEF Taken, AddLabels
  <2>4. \A t \in Threads : pc[t] \notin AddLabels /\ pc[t] \notin Half
    BY <2>1 DEF AddLabels, Half
  <2>5. PlacesInv
    <3>1. NoneLost
      BY <2>1 DEF NoneLost
    <3>2. QED
      BY <2>1, <2>2, <2>3, <3>1 DEF PlacesInv, OneThreadEach, OnlyTaken, NoneTwice
  <2>6. WholeInv
    BY <2>1, <2>2, <2>3, <2>4 DEF WholeInv, OverlapsTorn, WholeInAdditions, WholeInCounters, WholeInTicks
  <2>7. QED
    BY <2>5, <2>6
<1>2. TypeOK /\ TypeOK' /\ Inv /\ [Next]_vars => Inv'
  <2> SUFFICES ASSUME TypeOK, TypeOK', Inv, [Next]_vars
               PROVE  Inv'
    OBVIOUS
  <2>a. \A from, to \in Quiet : \A t \in Threads : Goto(t, from, to) /\ UNCHANGED <<samples, got>> => Inv'
    BY QuietStep
  <2>b. {"idle", "load", "elect", "take_cs", "decide", "swap", "push", "rollback", "applied"} \subseteq Quiet
    BY DEF Quiet, Labels, AddLabels, TakeLabels, Half
  <2>c. /\ AddLabels \subseteq Labels /\ TakeLabels \subseteq Labels
        /\ {"averages", "load"} \subseteq Labels
    BY DEF Labels
  <2> USE DEF Goto
  <2>1. CASE Advance
    BY <2>1, QuietStep DEF Advance
  <2>2. CASE dynamic_cpu_affinity_freeze
    BY <2>2, QuietStep DEF dynamic_cpu_affinity_freeze
  <2>3. ASSUME NEW t \in Threads, Sampled(t)
        PROVE  Inv'
    BY <2>3, SampledStep
  <2>4. ASSUME NEW t \in Threads, AddCriticalTime(t) \/ AddOutsideTime(t) \/ AddCritical(t) \/ AddOutside(t)
        PROVE  Inv'
    <3> USE BeforeLabels, <2>c DEF AddLabels, Counters, Partly
    <3>1. CASE AddCriticalTime(t)
      <4>1. Add(t, "cs_sum", "add_cs_sum", "add_ncs_sum") /\ RecordOverlaps /\ sample' = sample
        BY <3>1 DEF AddCriticalTime, AddEarlier
      <4>2. QED
        BY <4>1, AddStep
    <3>2. CASE AddOutsideTime(t)
      <4>1. Add(t, "ncs_sum", "add_ncs_sum", "add_cs") /\ RecordOverlaps /\ sample' = sample
        BY <3>2 DEF AddOutsideTime, AddEarlier
      <4>2. QED
        BY <4>1, AddStep
    <3>3. CASE AddCritical(t)
      <4>1. Add(t, "cs", "add_cs", "add_ncs") /\ RecordOverlaps /\ sample' = sample
        BY <3>3 DEF AddCritical, AddEarlier
      <4>2. QED
        BY <4>1, AddStep
    <3>4. CASE AddOutside(t)
      <4>1. Add(t, "ncs", "add_ncs", "load") /\ RecordOverlaps /\ sample' = [sample EXCEPT ![t] = 0]
        BY <3>4 DEF AddOutside
      <4>2. QED
        BY <4>1, AddStep
    <3>5. QED
      BY <2>4, <3>1, <3>2, <3>3, <3>4
  <2>5. ASSUME NEW t \in Threads, TakeCritical(t) \/ TakeOutside(t) \/ TakeCriticalTime(t) \/ TakeOutsideTime(t)
        PROVE  Inv'
    <3> USE <2>c DEF TakeLabels, Counters, Half
    <3>a. pc \in [Threads -> Labels]
      BY DEF TypeOK
    <3>1. CASE TakeCritical(t)
      <4>1. SwapOut(t, "cs", "take_cs", "take_ncs") /\ pc[t] = "take_cs" /\ pc'[t] = "take_ncs"
        BY <3>1, <3>a DEF TakeCritical, SwapOut, Take
      <4>2. Taken(t) = {} /\ Taken(t)' = {"cs"}
        BY <4>1 DEF Taken
      <4>3. QED
        BY <4>1, <4>2, SwapStep
    <3>2. CASE TakeOutside(t)
      <4>1. SwapOut(t, "ncs", "take_ncs", "take_cs_sum") /\ pc[t] = "take_ncs" /\ pc'[t] = "take_cs_sum"
        BY <3>2, <3>a DEF TakeOutside, SwapOut, Take
      <4>2. Taken(t) = {"cs"} /\ Taken(t)' = {"cs", "ncs"}
        BY <4>1 DEF Taken
      <4>3. QED
        BY <4>1, <4>2, SwapStep
    <3>3. CASE TakeCriticalTime(t)
      <4>1. SwapOut(t, "cs_sum", "take_cs_sum", "take_ncs_sum") /\ pc[t] = "take_cs_sum" /\ pc'[t] = "take_ncs_sum"
        BY <3>3, <3>a DEF TakeCriticalTime, SwapOut, Take
      <4>2. Taken(t) = {"cs", "ncs"} /\ Taken(t)' = {"cs", "ncs", "cs_sum"}
        BY <4>1 DEF Taken
      <4>3. QED
        BY <4>1, <4>2, SwapStep
    <3>4. CASE TakeOutsideTime(t)
      <4>1. SwapOut(t, "ncs_sum", "take_ncs_sum", "averages") /\ pc[t] = "take_ncs_sum" /\ pc'[t] = "averages"
        BY <3>4, <3>a DEF TakeOutsideTime, SwapOut, Take
      <4>2. Taken(t) = {"cs", "ncs", "cs_sum"} /\ Taken(t)' = Counters
        BY <4>1 DEF Taken
      <4>3. QED
        BY <4>1, <4>2, SwapStep
    <3>5. QED
      BY <2>5, <3>1, <3>2, <3>3, <3>4
  <2>6. ASSUME NEW t \in Threads, NoAverages(t)
        PROVE  Inv'
    BY <2>6, <2>b, DropStep DEF NoAverages
  <2>7. ASSUME NEW t \in Threads, LockControl(t)
        PROVE  Inv'
    <3>1. DropCounts(t) /\ dropped' = dropped
      BY <2>7 DEF LockControl
    <3>2. Goto(t, "averages", "idle") \/ Goto(t, "averages", "decide")
      BY <2>7 DEF LockControl
    <3>3. QED
      BY <2>b, <3>1, <3>2, DropStep
  <2>8. ASSUME NEW t \in Threads, NotSampled(t) \/ LoadTick(t) \/ NotYet(t)
        PROVE  Inv'
    BY <2>a, <2>b, <2>8 DEF NotSampled, LoadTick, NotYet
  <2>9. ASSUME NEW t \in Threads, compare_exchange(t)
        PROVE  Inv'
    <3>1. Goto(t, "elect", "idle") \/ Goto(t, "elect", "take_cs")
      BY <2>9 DEF compare_exchange
    <3>2. QED
      BY <2>a, <2>b, <2>9, <3>1 DEF compare_exchange
  <2>10. ASSUME NEW t \in Threads, ExchangeFails(t)
         PROVE  Inv'
    BY <2>10, QuietStep DEF ExchangeFails
  <2>11. ASSUME NEW t \in Threads, LowLoadBypass(t)
         PROVE  Inv'
    BY <2>a, <2>b, <2>11 DEF LowLoadBypass
  <2>12. ASSUME NEW t \in Threads, Decide(t)
         PROVE  Inv'
    <3>1. Goto(t, "decide", "idle") \/ Goto(t, "decide", "swap")
      BY <2>12 DEF Decide
    <3>2. QED
      BY <2>a, <2>b, <2>12, <3>1 DEF Decide
  <2>13. ASSUME NEW t \in Threads, SwapCount(t)
         PROVE  Inv'
    <3>1. Goto(t, "swap", "applied") \/ Goto(t, "swap", "push")
      BY <2>13 DEF SwapCount
    <3>2. QED
      BY <2>a, <2>b, <2>13, <3>1 DEF SwapCount
  <2>14. ASSUME NEW t \in Threads, BitmapFails(t) \/ PushMask(t) \/ PushFails(t) \/ Rollback(t) \/ Applied(t)
         PROVE  Inv'
    BY <2>a, <2>b, <2>14 DEF BitmapFails, PushMask, PushFails, Rollback, Applied
  <2>15. CASE UNCHANGED vars
    BY <2>15, QuietStep DEF vars
  <2>16. QED
    BY <2>1, <2>2, <2>3, <2>4, <2>5, <2>6, <2>7, <2>8, <2>9, <2>10, <2>11, <2>12,
       <2>13, <2>14, <2>15 DEF Next, Call, Continue
<1>3. QED
  BY <1>1, <1>2, TypeCorrect, PTL DEF Spec

\* No two ticks count a sample, and only those that were being added while a
\* tick took the counters, or were in them while two ticks did, may be split
\* between ticks or thrown away (record_dynamic_control_sample against
\* take_dynamic_sample_averages).
THEOREM OnlyTornSamplesLost == Spec => []SamplesAccounted
<1>1. TypeOK /\ PlacesInv /\ WholeInv => SamplesAccounted
  <2> SUFFICES ASSUME TypeOK, PlacesInv, WholeInv
               PROVE  SamplesAccounted
    OBVIOUS
  <2>1. ASSUME NEW c \in Counters
        PROVE  /\ 1..made = ToBeAdded(c) \cup process[c] \cup past[c] \cup UNION {got[t][c] : t \in Threads}
               /\ ToBeAdded(c) \cap (process[c] \cup past[c]) = {} /\ process[c] \cap past[c] = {}
               /\ \A t \in Threads :
                   /\ got[t][c] \cap (ToBeAdded(c) \cup process[c] \cup past[c]) = {}
                   /\ \A u \in Threads \ {t} : got[t][c] \cap got[u][c] = {}
    <3>1. \A s : s \in ToBeAdded(c) <=> \E t \in Threads : pc[t] \in Before(c) /\ sample[t] = s
      BY DEF ToBeAdded, ThreadsAt
    <3>2. \A s : s \in UNION {got[t][c] : t \in Threads} <=> \E t \in Threads : s \in got[t][c]
      OBVIOUS
    <3>3. \A s \in 1..made : Somewhere(s, c)
      BY DEF PlacesInv, NoneLost
    <3>4. process[c] \subseteq 1..made /\ past[c] \subseteq 1..made /\ \A t \in Threads : got[t][c] \subseteq 1..made
      BY DEF TypeOK
    <3>5. ToBeAdded(c) \subseteq 1..made
      <4> SUFFICES ASSUME NEW t \in Threads, pc[t] \in Before(c)
                   PROVE  sample[t] \in 1..made
        BY <3>1
      <4>1. sample[t] # 0 /\ sample[t] \in 0..made /\ made \in Nat
        BY BeforeLabels DEF TypeOK
      <4>2. QED
        BY <4>1
    <3>6. 1..made = ToBeAdded(c) \cup process[c] \cup past[c] \cup UNION {got[t][c] : t \in Threads}
      <4>1. 1..made \subseteq ToBeAdded(c) \cup process[c] \cup past[c] \cup UNION {got[t][c] : t \in Threads}
        BY <3>1, <3>2, <3>3 DEF Somewhere
      <4>2. UNION {got[t][c] : t \in Threads} \subseteq 1..made
        BY <3>2, <3>4
      <4>3. QED
        BY <4>1, <4>2, <3>4, <3>5
    <3>7. QED
      BY <3>1, <3>6 DEF PlacesInv, NoneTwice
  <2>2. PartsInOnePlace
    BY <2>1 DEF PartsInOnePlace
  <2>3. ASSUME NEW t \in ThreadsAt({"averages"}), NEW c \in Counters, NEW d \in Counters
        PROVE  got[t][c] \ torn = got[t][d] \ torn
    <3>1. t \in Threads /\ Taken(t) = Counters
      BY DEF ThreadsAt, Taken
    <3>2. got[t][c] \ torn \subseteq got[t][d] /\ got[t][d] \ torn \subseteq got[t][c]
      BY <3>1 DEF WholeInv, WholeInTicks, Has
    <3>3. QED
      BY <3>2
  <2>4. QED
    BY <2>2, <2>3 DEF SamplesAccounted, WholeInv
<1>2. QED
  BY <1>1, SamplesInvariant, TypeCorrect, PTL

\* The scheduler sees what CpuBudget allows: at most one change of the mask for
\* each tick, ticks a window apart, and none after the freeze.
THEOREM BudgetRefinement == Spec => ImplementsBudget
<1> DEFINE Inv == TypeOK /\ TimesPassed /\ IInv
<1> USE ConfigsAssumption, BoundsAssumption
<1>1. Init => Budget!Init
  <2> SUFFICES ASSUME Init
               PROVE  Budget!Init
    OBVIOUS
  <2>1. Ticking = {}
    BY DEF Init, Ticking, ThreadsAt, TickLabels, TakeLabels
  <2>2. Cardinality(Ticking) = 0
    BY <2>1, FS_EmptySet
  <2>3. QED
    BY <2>2 DEF Init, Budget!Init
<1>2. Inv /\ [Next]_vars => [Budget!Next]_(Budget!vars)
  <2> SUFFICES ASSUME Inv, [Next]_vars
               PROVE  [Budget!Next]_(Budget!vars)
    OBVIOUS
  <2> DEFINE Credit == Cardinality(Ticking)
             Rest   == UNCHANGED <<mask, last_tick, frozen>>
  <2>a. config' = config
    BY DEF Next, vars
  <2>b. pc \in [Threads -> Labels]
    BY DEF TypeOK
  <2>c. ASSUME Ticking' = Ticking, Rest
        PROVE  UNCHANGED Budget!vars
    BY <2>a, <2>c DEF Budget!vars
  <2>d. ASSUME NEW t \in Threads, NEW from, NEW to \in Labels, Goto(t, from, to), Rest,
               from \in TickLabels <=> to \in TickLabels
        PROVE  UNCHANGED Budget!vars
    BY <2>b, <2>c, <2>d, ThreadStays DEF Ticking
  <2>e. ASSUME NEW t \in Threads, NEW from, NEW to \in Labels, Goto(t, from, to), Rest,
               from \in TickLabels, to \notin TickLabels
        PROVE  Budget!Next
    <3>1. Credit > 0 /\ Credit' = Credit - 1
      BY <2>b, <2>e, ThreadLeaves DEF Ticking
    <3>2. QED
      BY <2>a, <2>e, <3>1 DEF Budget!Next, Budget!Lapse
  <2> USE DEF samples, history, election, control, affinity, Labels, AddLabels, TakeLabels, TickLabels
  <2>1. CASE Advance
    BY <2>1, <2>c DEF Advance, Ticking, ThreadsAt
  <2>2. CASE dynamic_cpu_affinity_freeze
    <3>1. Ticking' = Ticking
      BY <2>2 DEF dynamic_cpu_affinity_freeze, Ticking, ThreadsAt
    <3>2. QED
      BY <2>2, <2>a, <3>1 DEF dynamic_cpu_affinity_freeze, Budget!Next, Budget!Freeze
  <2>3. ASSUME NEW t \in Threads, Sampled(t)
        PROVE  [Budget!Next]_(Budget!vars)
    <3>1. Goto(t, "idle", "add_cs_sum") /\ Rest
      BY <2>3 DEF Sampled
    <3>2. QED
      BY <3>1, <2>d
  <2>4. ASSUME NEW t \in Threads, AddCriticalTime(t) \/ AddOutsideTime(t) \/ AddCritical(t)
        PROVE  [Budget!Next]_(Budget!vars)
    <3>1. /\ \/ Goto(t, "add_cs_sum", "add_ncs_sum") \/ Goto(t, "add_ncs_sum", "add_cs")
             \/ Goto(t, "add_cs", "add_ncs")
          /\ Rest
      BY <2>4 DEF AddCriticalTime, AddOutsideTime, AddCritical, AddEarlier, Add
    <3>2. QED
      BY <3>1, <2>d
  <2>5. ASSUME NEW t \in Threads, AddOutside(t)
        PROVE  [Budget!Next]_(Budget!vars)
    <3>1. Goto(t, "add_ncs", "load") /\ Rest
      BY <2>5 DEF AddOutside, Add
    <3>2. QED
      BY <3>1, <2>d
  <2>6. ASSUME NEW t \in Threads, NotSampled(t)
        PROVE  [Budget!Next]_(Budget!vars)
    <3>1. Goto(t, "idle", "load") /\ Rest
      BY <2>6 DEF NotSampled
    <3>2. QED
      BY <3>1, <2>d
  <2>7. ASSUME NEW t \in Threads, LoadTick(t)
        PROVE  [Budget!Next]_(Budget!vars)
    <3>1. Goto(t, "load", "elect") /\ Rest
      BY <2>7 DEF LoadTick
    <3>2. QED
      BY <3>1, <2>d
  <2>8. ASSUME NEW t \in Threads, NotYet(t)
        PROVE  [Budget!Next]_(Budget!vars)
    <3>1. Goto(t, "elect", "idle") /\ Rest
      BY <2>8 DEF NotYet
    <3>2. QED
      BY <3>1, <2>d
  <2>9. ASSUME NEW t \in Threads, TakeCritical(t) \/ TakeOutside(t) \/ TakeCriticalTime(t)
        PROVE  [Budget!Next]_(Budget!vars)
    <3>1. /\ \/ Goto(t, "take_cs", "take_ncs") \/ Goto(t, "take_ncs", "take_cs_sum")
             \/ Goto(t, "take_cs_sum", "take_ncs_sum")
          /\ Rest
      BY <2>9 DEF TakeCritical, TakeOutside, TakeCriticalTime, SwapOut, Take
    <3>2. QED
      BY <3>1, <2>d
  <2>10. ASSUME NEW t \in Threads, TakeOutsideTime(t)
         PROVE  [Budget!Next]_(Budget!vars)
    <3>1. Goto(t, "take_ncs_sum", "averages") /\ Rest
      BY <2>10 DEF TakeOutsideTime, SwapOut, Take
    <3>2. QED
      BY <3>1, <2>d
  <2>11. ASSUME NEW t \in Threads, LowLoadBypass(t)
         PROVE  [Budget!Next]_(Budget!vars)
    <3>1. Goto(t, "decide", "swap") /\ Rest
      BY <2>11 DEF LowLoadBypass
    <3>2. QED
      BY <3>1, <2>d
  <2>12. ASSUME NEW t \in Threads, Rollback(t)
         PROVE  [Budget!Next]_(Budget!vars)
    <3>1. Goto(t, "rollback", "idle") /\ Rest
      BY <2>12 DEF Rollback
    <3>2. QED
      BY <3>1, <2>d
  <2>13. ASSUME NEW t \in Threads, Applied(t)
         PROVE  [Budget!Next]_(Budget!vars)
    <3>1. Goto(t, "applied", "idle") /\ Rest
      BY <2>13 DEF Applied
    <3>2. QED
      BY <3>1, <2>d
  <2>14. ASSUME NEW t \in Threads, NoAverages(t)
         PROVE  [Budget!Next]_(Budget!vars)
    <3>1. Goto(t, "averages", "idle") /\ Rest
      BY <2>14 DEF NoAverages
    <3>2. QED
      BY <3>1, <2>e
  <2>15. ASSUME NEW t \in Threads, BitmapFails(t)
         PROVE  [Budget!Next]_(Budget!vars)
    <3>1. Goto(t, "push", "idle") /\ Rest
      BY <2>15 DEF BitmapFails
    <3>2. QED
      BY <3>1, <2>e
  <2>16. ASSUME NEW t \in Threads, PushFails(t)
         PROVE  [Budget!Next]_(Budget!vars)
    <3>1. Goto(t, "push", "rollback") /\ Rest
      BY <2>16 DEF PushFails
    <3>2. QED
      BY <3>1, <2>e
  <2>17. ASSUME NEW t \in Threads, ExchangeFails(t)
         PROVE  [Budget!Next]_(Budget!vars)
    BY <2>17, <2>c DEF ExchangeFails, Ticking, ThreadsAt
  <2>18. ASSUME NEW t \in Threads, LockControl(t)
         PROVE  [Budget!Next]_(Budget!vars)
    <3>1. Rest
      BY <2>18 DEF LockControl
    <3>2. CASE Goto(t, "averages", "idle")
      BY <3>1, <3>2, <2>e
    <3>3. CASE Goto(t, "averages", "decide")
      BY <3>1, <3>3, <2>d
    <3>4. QED
      BY <2>18, <3>2, <3>3 DEF LockControl
  <2>19. ASSUME NEW t \in Threads, Decide(t)
         PROVE  [Budget!Next]_(Budget!vars)
    <3>1. Rest
      BY <2>19 DEF Decide
    <3>2. CASE Goto(t, "decide", "idle")
      BY <3>1, <3>2, <2>e
    <3>3. CASE Goto(t, "decide", "swap")
      BY <3>1, <3>3, <2>d
    <3>4. QED
      BY <2>19, <3>2, <3>3 DEF Decide
  <2>20. ASSUME NEW t \in Threads, SwapCount(t)
         PROVE  [Budget!Next]_(Budget!vars)
    <3>1. Rest
      BY <2>20 DEF SwapCount
    <3>2. CASE Goto(t, "swap", "applied")
      BY <3>1, <3>2, <2>e
    <3>3. CASE Goto(t, "swap", "push")
      BY <3>1, <3>3, <2>d
    <3>4. QED
      BY <2>20, <3>2, <3>3 DEF SwapCount
  <2>21. ASSUME NEW t \in Threads, compare_exchange(t)
         PROVE  [Budget!Next]_(Budget!vars)
    <3>1. CASE seen[t] = 0
      <4>1. Goto(t, "elect", "idle") /\ UNCHANGED <<mask, frozen>>
        BY <2>21, <3>1 DEF compare_exchange, Goto
      <4>2. last_tick = 0 /\ last_tick' \in Nat
        BY <2>21, <3>1 DEF compare_exchange, TypeOK
      <4>3. Ticking' = Ticking
        BY <2>b, <4>1, ThreadStays DEF Ticking
      <4>4. QED
        BY <4>1, <4>2, <4>3, <2>a DEF Budget!Next, Budget!Begin
    <3>2. CASE seen[t] # 0
      <4>1. Goto(t, "elect", "take_cs") /\ UNCHANGED <<mask, frozen>>
        BY <2>21, <3>2 DEF compare_exchange, Goto
      <4>2. last_tick > 0 /\ last_tick' \in Nat /\ last_tick' >= last_tick + Window
        BY <2>21, <3>2 DEF compare_exchange, TypeOK, WindowOver
      <4>3. Credit' = Credit + 1
        BY <2>b, <4>1, ThreadJoins DEF Ticking
      <4>4. QED
        BY <4>1, <4>2, <4>3, <2>a DEF Budget!Next, Budget!Tick
    <3>3. QED
      BY <3>1, <3>2
  <2>22. ASSUME NEW t \in Threads, PushMask(t)
         PROVE  [Budget!Next]_(Budget!vars)
    <3>1. Goto(t, "push", "applied") /\ mask' = active /\ UNCHANGED <<last_tick, frozen>>
      BY <2>22 DEF PushMask
    <3>2. ~frozen
      BY <3>1 DEF Goto, TypeOK, InControl, IInv, NoUpdateWhenFrozen
    <3>3. mask' \in config.requested..config.available
      BY <3>1 DEF IInv, CountWithinBounds, TypeOK
    <3>4. Credit > 0 /\ Credit' = Credit - 1
      BY <2>b, <3>1, ThreadLeaves DEF Ticking
    <3>5. QED
      BY <3>1, <3>2, <3>3, <3>4, <2>a DEF Budget!Next, Budget!Adjust
  <2>23. CASE UNCHANGED vars
    BY <2>23, <2>c DEF vars, Ticking, ThreadsAt
  <2>24. QED
    BY <2>1, <2>2, <2>3, <2>4, <2>5, <2>6, <2>7, <2>8, <2>9, <2>10, <2>11, <2>12,
       <2>13, <2>14, <2>15, <2>16, <2>17, <2>18, <2>19, <2>20, <2>21, <2>22, <2>23 DEF Next, Call, Continue
<1>3. QED
  BY <1>1, <1>2, TypeCorrect, InductiveInvariant, PTL DEF Spec, ImplementsBudget, Budget!Spec

============================================================================
