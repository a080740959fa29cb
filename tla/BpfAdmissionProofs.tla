------------------------- MODULE BpfAdmissionProofs -------------------------
(***************************************************************************)
(* What the scheduler guarantees for any number of threads and CPUs, any   *)
(* affinities and any other constants.                                     *)
(*                                                                         *)
(* The first part is about threads whose reads do not fail, that do not    *)
(* sleep in their critical sections and whose mask stays: a preempted      *)
(* critical section waits in a local queue.  The second part has masks     *)
(* that change and reads that fail: each task has one place in the kernel, *)
(* the owner map agrees with the contexts as far as the code makes it, and *)
(* no step puts a task with a slow-path history on an inactive CPU, or any *)
(* task at all in statistics-only mode.                                    *)
(***************************************************************************)
EXTENDS BpfOwnership, NaturalsInduction, WellFoundedInduction, SequenceTheorems,
        FiniteSetTheorems, TLAPS

Undisturbed ==
    /\ ~MayFail /\ MaxPushes = 0 /\ Modes \subseteq {FALSE}
    /\ BlockPhases \cap {"cs", "unlocked"} = {}

\* What the steps look at, and that a CPU which is picking has a task to run.
Base ==
    /\ stats_only = FALSE /\ mask = CPUs /\ nudges = <<>> /\ pushes = 0
    /\ ctx \in [Tasks -> CtxRecords \cup {NoCtx}] /\ owner \in [CPUs -> Tasks \cup {None}]
    /\ word \in [Tasks -> Words] /\ registered \in [Tasks -> BOOLEAN]
    /\ phase \in [Tasks -> Phases] /\ st \in [Tasks -> States]
    /\ curr \in [CPUs -> Tasks \cup {None}] /\ picking \in [CPUs -> BOOLEAN]
    /\ dsq \in [DsqIds -> Seq(Tasks)]
    /\ \A c \in CPUs : picking[c] => dsq[LocalDsq(c)] # <<>>

InLocal(t) == \E c \in CPUs : t \in Range(dsq[LocalDsq(c)])

\* A thread whose word tells of its critical section is registered and has a
\* context, so its callbacks see the word, and it runs or waits locally.
ThreadInv(t) ==
    /\ IN_CRITICAL_SECTION \in word[t] =>
          /\ phase[t] \in {"cs", "unlocked"} /\ ctx[t] # NoCtx
          /\ st[t] = "running" \/ (st[t] = "queued" /\ InLocal(t))
    /\ phase[t] # "out" => registered[t]
    /\ st[t] \in {"exiting", "exited"} => phase[t] = "out"
    /\ st[t] \in {"running", "granting", "parking"} => ctx[t] # NoCtx

ThreadsInv == \A t \in Tasks : ThreadInv(t)

----------------------------------------------------------------------------
(* Dispatch queues.                                                        *)

\* A nonempty set of naturals has a minimum.
LEMMA MinOfNaturals ==
  ASSUME NEW S \in SUBSET Nat, S # {}
  PROVE  Min(S) \in S
<1> DEFINE R == OpToRel(<, Nat)
<1>1. IsWellFoundedOn(R, Nat)
  BY NatLessThanWellFounded
<1>2. \A x, y \in Nat : x < y => <<x, y>> \in R
  BY DEF OpToRel
<1> HIDE DEF R
<1>3. PICK x \in S : \A y \in S : ~ (<<y, x>> \in R)
  BY <1>1, WFMin
<1>4. \A y \in S : x <= y
  <2> SUFFICES ASSUME NEW y \in S
               PROVE  x <= y
    OBVIOUS
  <2>1. x \in Nat /\ y \in Nat
    OBVIOUS
  <2>2. ~ (y < x)
    BY <1>2, <1>3, <2>1
  <2>3. QED
    BY <2>1, <2>2
<1>5. QED
  BY <1>4 DEF Min

\* Queues without one of their elements, and with one more.
LEMMA QueueEdits ==
  ASSUME NEW s \in Seq(Tasks)
  PROVE  /\ \A i \in 1..Len(s) : RemoveAt(s, i) \in Seq(Tasks)
         /\ \A t \in Tasks : /\ Append(s, t) \in Seq(Tasks) /\ Append(s, t) # <<>>
                             /\ Range(Append(s, t)) = Range(s) \cup {t}
         /\ s # <<>> => /\ Head(s) \in Tasks /\ Tail(s) \in Seq(Tasks)
                        /\ Range(s) \subseteq Range(Tail(s)) \cup {Head(s)}
         /\ Range(s) \subseteq Tasks
<1>1. Len(s) \in Nat /\ DOMAIN s = 1..Len(s) /\ \A i \in 1..Len(s) : s[i] \in Tasks
  BY LenProperties
<1>2. ASSUME NEW i \in 1..Len(s)
      PROVE  RemoveAt(s, i) \in Seq(Tasks)
  <2>1. SubSeq(s, 1, i - 1) \in Seq(Tasks)
    BY <1>1, SubSeqProperties
  <2>2. SubSeq(s, i + 1, Len(s)) \in Seq(Tasks)
    BY <1>1, SubSeqProperties
  <2>3. QED
    BY <2>1, <2>2, ConcatProperties DEF RemoveAt
<1>3. ASSUME NEW t \in Tasks
      PROVE  /\ Append(s, t) \in Seq(Tasks) /\ Append(s, t) # <<>>
             /\ Range(Append(s, t)) = Range(s) \cup {t}
  <2> DEFINE a == Append(s, t)
  <2>1. /\ a \in Seq(Tasks) /\ Len(a) = Len(s) + 1 /\ a[Len(s) + 1] = t
        /\ \A i \in 1..Len(s) : a[i] = s[i]
    BY AppendProperties
  <2>2. DOMAIN a = 1..(Len(s) + 1) /\ a # <<>>
    BY <1>1, <2>1, LenProperties, EmptySeq
  <2> HIDE DEF a
  <2>3. \A i \in 1..(Len(s) + 1) : i \in 1..Len(s) \/ i = Len(s) + 1
    BY <1>1
  <2>4. Len(s) + 1 \in 1..(Len(s) + 1) /\ \A i \in 1..Len(s) : i \in 1..(Len(s) + 1)
    BY <1>1
  <2>5. Range(a) \subseteq Range(s) \cup {t}
    BY <1>1, <2>1, <2>2, <2>3 DEF Range
  <2>6. Range(s) \cup {t} \subseteq Range(a)
    BY <1>1, <2>1, <2>2, <2>4 DEF Range
  <2>7. QED
    BY <2>1, <2>2, <2>5, <2>6 DEF a
<1>4. ASSUME s # <<>>
      PROVE  /\ Head(s) \in Tasks /\ Tail(s) \in Seq(Tasks)
             /\ Range(s) \subseteq Range(Tail(s)) \cup {Head(s)}
  <2>1. /\ Head(s) \in Tasks /\ Tail(s) \in Seq(Tasks) /\ Len(Tail(s)) = Len(s) - 1
        /\ \A i \in 1..Len(Tail(s)) : Tail(s)[i] = s[i + 1]
    BY <1>4, HeadTailProperties
  <2>2. Head(s) = s[1] /\ DOMAIN Tail(s) = 1..(Len(s) - 1)
    BY <2>1, LenProperties
  <2>3. ASSUME NEW i \in 1..Len(s), i # 1
        PROVE  s[i] \in Range(Tail(s))
    <3>1. i - 1 \in 1..(Len(s) - 1) /\ (i - 1) + 1 = i
      BY <1>1, <2>3
    <3>2. Tail(s)[i - 1] = s[i]
      BY <2>1, <3>1
    <3>3. QED
      BY <2>2, <3>1, <3>2 DEF Range
  <2>4. QED
    BY <1>1, <2>1, <2>2, <2>3 DEF Range
<1>5. Range(s) \subseteq Tasks
  BY <1>1 DEF Range
<1>6. QED
  BY <1>2, <1>3, <1>4, <1>5

----------------------------------------------------------------------------
(* What the callbacks do to a context.                                     *)

Results == [x : CtxRecords, owner : [CPUs -> Tasks \cup {None}], kick : SUBSET CPUs]

\* A context that exists is none that is missing.
LEMMA Contexts == NoCtx \notin CtxRecords /\ InitCtx \in CtxRecords /\ InitCtx # NoCtx
<1>1. InitCtx \in CtxRecords
  BY DEF InitCtx, CtxRecords
<1>2. NoCtx \notin CtxRecords
  <2> SUFFICES ASSUME NoCtx \in CtxRecords
               PROVE  FALSE
    OBVIOUS
  <2>1. "cpu" \in DOMAIN NoCtx
    BY DEF CtxRecords
  <2>2. QED
    BY <2>1 DEF NoCtx
<1>3. QED
  BY <1>1, <1>2

\* The CPU that is found is one the task may use, as all CPUs are active.
LEMMA PickedIsAllowed ==
  ASSUME NEW t \in Tasks, mask = CPUs
  PROVE  /\ Allowed(t) = Affinity[t] /\ Affinity[t] \subseteq CPUs
         /\ \A f : pick_allowed_cpu(t, f) \subseteq Affinity[t]
<1>1. Affinity[t] \subseteq CPUs /\ Allowed(t) = Affinity[t]
  BY ConstantsAssumption DEF Allowed
<1>2. ASSUME NEW f
      PROVE  pick_allowed_cpu(t, f) \subseteq Affinity[t]
  <2>1. CASE f \in Allowed(t)
    BY <1>1, <2>1 DEF pick_allowed_cpu
  <2>2. CASE f \notin Allowed(t) /\ taskCpu[t] \in Allowed(t)
    BY <1>1, <2>2 DEF pick_allowed_cpu
  <2>3. CASE f \notin Allowed(t) /\ taskCpu[t] \notin Allowed(t)
    BY <1>1, <2>3 DEF pick_allowed_cpu
  <2>4. QED
    BY <2>1, <2>2, <2>3
<1>3. QED
  BY <1>1, <1>2

\* The updates that the callbacks share keep the types.
LEMMA Updates ==
  ASSUME NEW t \in Tasks, NEW s \in Results, NEW have \in BOOLEAN
  PROVE  /\ refresh_slow_path_seen(t, s, have) \in Results
         /\ release_admission(t, s) \in Results
         /\ clear_invalid_admission_cpu(t, s) \in Results
         /\ release_if_explicit(t, s, have) \in Results
         /\ \A c \in CPUs : [s EXCEPT !.x.cpu = c] \in Results
         /\ \A b \in BOOLEAN : [s EXCEPT !.x.must = b] \in Results
         /\ \A c \in CPUs \cup {None} : Granted(t, s, c) \in Results
<1>1. s.x \in CtxRecords /\ s.owner \in [CPUs -> Tasks \cup {None}] /\ s.kick \in SUBSET CPUs
  BY DEF Results
<1>2. \A b \in BOOLEAN : /\ [s EXCEPT !.x.seen = b] \in Results
                         /\ [s EXCEPT !.x.must = b] \in Results
  BY DEF Results, CtxRecords
<1>3. refresh_slow_path_seen(t, s, have) \in Results
  <2> DEFINE b == s.x.seen \/ (have /\ word[t] \cap {SLOW_PATH_PENDING, SLOW_PATH_SEEN} # {})
  <2>1. b \in BOOLEAN
    OBVIOUS
  <2>2. refresh_slow_path_seen(t, s, have) = [s EXCEPT !.x.seen = b]
    BY DEF refresh_slow_path_seen, Results, CtxRecords
  <2> HIDE DEF b
  <2>3. QED
    BY <1>2, <2>1, <2>2
<1>4. release_admission(t, s) \in Results
  BY <1>1 DEF release_admission, Results, CtxRecords
<1>5. clear_invalid_admission_cpu(t, s) \in Results /\ release_if_explicit(t, s, have) \in Results
  BY <1>4 DEF clear_invalid_admission_cpu, release_if_explicit
<1>6. \A c \in CPUs : [s EXCEPT !.x.cpu = c] \in Results
  BY DEF Results, CtxRecords
<1>7. \A c \in CPUs \cup {None} : Granted(t, s, c) \in Results
  BY <1>1 DEF Granted, Results, CtxRecords
<1>8. QED
  BY <1>2, <1>3, <1>4, <1>5, <1>6, <1>7

\* A protected critical section must go to a CPU that it may use.
LEMMA Protects ==
  ASSUME NEW t \in Tasks, mask = CPUs, NEW s \in Results, NEW here,
         NEW r \in protect_critical_section(t, s, here)
  PROVE  r \in Results /\ r.x.must /\ r.x.cpu \in Affinity[t]
<1> DEFINE found == IF s.x.cpu \in Allowed(t) THEN {s.x.cpu} ELSE pick_allowed_cpu(t, here)
           moved(c) == [s EXCEPT !.x.cpu = c]
           owned(c) == IF ~s.x.holds /\ CanGrant(t, s.owner, c)
                         THEN Granted(t, moved(c), c) ELSE moved(c)
           on(c) == [owned(c) EXCEPT !.x.must = TRUE]
<1>1. found \subseteq Affinity[t] /\ Affinity[t] \subseteq CPUs
  BY PickedIsAllowed
<1>2. None \notin CPUs
  BY ConstantsAssumption
<1>3. r \in {IF c = None THEN s ELSE on(c) : c \in found}
  BY DEF protect_critical_section
<1> HIDE DEF found
<1>4. PICK c \in found : r = on(c)
  BY <1>1, <1>2, <1>3
<1>5. c \in CPUs /\ moved(c) \in Results
  BY <1>1, Updates
<1>6. Granted(t, moved(c), c) \in Results
  BY <1>5, Updates
<1>7. owned(c) \in Results /\ owned(c).x.cpu = c
  <2>1. moved(c).x.cpu = c
    BY DEF Results, CtxRecords
  <2>2. Granted(t, moved(c), c).x.cpu = c
    BY <1>5 DEF Granted, Results, CtxRecords
  <2>3. QED
    BY <1>5, <1>6, <2>1, <2>2
<1> HIDE DEF owned
<1>8. on(c) \in Results /\ on(c).x.must /\ on(c).x.cpu = c
  BY <1>7, Updates DEF Results, CtxRecords
<1>9. QED
  BY <1>1, <1>4, <1>8

----------------------------------------------------------------------------
(* Callbacks.                                                              *)

\* The context may still be missing when a callback starts.
Outcomes == [x : CtxRecords \cup {NoCtx}, owner : [CPUs -> Tasks \cup {None}], kick : SUBSET CPUs]

LEMMA Starts ==
  ASSUME Base, NEW x \in CtxRecords \cup {NoCtx}
  PROVE  /\ Start(x) \in Outcomes /\ Start(x).x = x
         /\ x # NoCtx => Start(x) \in Results
BY Contexts DEF Base, Start, Outcomes, Results

\* A task gets a context when it has none, and its word is read.
LEMMA Reads ==
  ASSUME Base, Undisturbed, NEW t \in Tasks
  PROVE  /\ get_task_ctx(t) \subseteq CtxRecords
         /\ HaveUser(t) = {registered[t]} /\ registered[t] \in BOOLEAN
<1>1. ~MayFail /\ registered[t] \in BOOLEAN /\ ctx[t] \in CtxRecords \cup {NoCtx}
  BY DEF Undisturbed, Base
<1>2. get_task_ctx(t) \subseteq CtxRecords
  BY <1>1, Contexts DEF get_task_ctx
<1>3. HaveUser(t) = {registered[t]}
  BY <1>1 DEF HaveUser
<1>4. QED
  BY <1>1, <1>2, <1>3

\* An enqueue that acts at once queues the task; the others know its CPU.
LEMMA EnqueueCtx ==
  ASSUME Base, NEW t \in Tasks, NEW s0 \in Results, NEW have \in BOOLEAN,
         NEW r \in enqueue_ctx(t, s0, have)
  PROVE  r.s \in Results /\ r.st \in {"queued", "granting", "parking"}
<1> DEFINE s == release_if_explicit(t,
                  clear_invalid_admission_cpu(t, refresh_slow_path_seen(t, s0, have)), have)
           on(c) == [s EXCEPT !.x.cpu = c]
           stays == s.x.cpu # None /\ (s.x.holds \/ s.x.must)
<1>1. s \in Results
  <2>1. refresh_slow_path_seen(t, s0, have) \in Results
    BY Updates
  <2>2. clear_invalid_admission_cpu(t, refresh_slow_path_seen(t, s0, have)) \in Results
    BY <2>1, Updates
  <2>3. QED
    BY <2>2, Updates
<1>2. \A c \in CPUs : on(c) \in Results
  BY <1>1, Updates
<1>3. requested_cpu(t, s.x) \subseteq CPUs /\ None \notin CPUs
  BY PickedIsAllowed, ConstantsAssumption DEF requested_cpu, Base
<1>4. \/ r = To(s, LocalDsq(s.x.cpu))
      \/ r \in {IF c = None THEN To(s, CONTROLLED)
                ELSE [s |-> on(c), to |-> INACTIVE(c),
                      st |-> IF CanGrant(t, s.owner, c) THEN "granting" ELSE "parking"] :
                c \in requested_cpu(t, s.x)}
      \/ r \in {To(IF c = None THEN s ELSE on(c), CONTROLLED) : c \in requested_cpu(t, s.x)}
      \/ r = To(s, LocalDsq(pick_task_cpu(t, None)))
      \/ r = To(s, GLOBAL)
  BY DEF enqueue_ctx
<1> HIDE DEF s
<1>5. QED
  BY <1>1, <1>2, <1>3, <1>4 DEF To

\* A critical section that must go to a CPU is queued there.
LEMMA EnqueueCritical ==
  ASSUME Base, NEW t \in Tasks, NEW s0 \in Results, NEW have \in BOOLEAN,
         NEW r \in enqueue_ctx(t, s0, have),
         IN_CRITICAL_SECTION \in word[t], s0.x.must, s0.x.cpu \in Affinity[t]
  PROVE  r.st = "queued" /\ \E c \in CPUs : r.to = LocalDsq(c)
<1> DEFINE s1 == refresh_slow_path_seen(t, s0, have)
<1>1. /\ s1 \in Results /\ s1.x.must /\ s1.x.cpu = s0.x.cpu
      /\ s1.x.cpu \in CPUs /\ s1.x.cpu # None
  <2>1. s1 \in Results
    BY Updates
  <2>2. s1.x.must = s0.x.must /\ s1.x.cpu = s0.x.cpu
    BY DEF refresh_slow_path_seen, Results, CtxRecords
  <2>3. QED
    BY <2>1, <2>2, PickedIsAllowed, ConstantsAssumption DEF Base
<1>2. clear_invalid_admission_cpu(t, s1) = s1
  BY <1>1, PickedIsAllowed DEF clear_invalid_admission_cpu, Base
<1>3. release_if_explicit(t, s1, have) = s1
  BY DEF release_if_explicit, should_release_from_user, explicit_release
<1>4. enqueue_ctx(t, s0, have) = {To(s1, LocalDsq(s1.x.cpu))}
  BY <1>1, <1>2, <1>3 DEF enqueue_ctx
<1>5. QED
  BY <1>1, <1>4 DEF To

LEMMA Enqueues ==
  ASSUME Base, Undisturbed, NEW t \in Tasks, NEW s \in Outcomes,
         NEW r \in accordin_enqueue(t, s)
  PROVE  /\ r.s \in Results /\ r.st \in {"queued", "granting", "parking"}
         /\ IN_CRITICAL_SECTION \in word[t] /\ s \in Results /\ s.x.must /\ s.x.cpu \in Affinity[t]
               => r.st = "queued" /\ \E c \in CPUs : r.to = LocalDsq(c)
<1> DEFINE xs == IF s.x = NoCtx THEN get_task_ctx(t) ELSE {s.x}
<1>1. xs \subseteq CtxRecords
  BY Reads DEF Outcomes
<1>2. r \in UNION {IF x = NoCtx THEN {To(s, GLOBAL)}
                   ELSE UNION {enqueue_ctx(t, [s EXCEPT !.x = x], have) : have \in HaveUser(t)} :
                   x \in xs}
  BY DEF accordin_enqueue, Base
<1>3. PICK x \in xs :
        r \in UNION {enqueue_ctx(t, [s EXCEPT !.x = x], have) : have \in HaveUser(t)}
  BY <1>1, <1>2, Contexts
<1>4. PICK have \in HaveUser(t) : r \in enqueue_ctx(t, [s EXCEPT !.x = x], have)
  BY <1>3
<1>5. have \in BOOLEAN
  BY Reads
<1>6. [s EXCEPT !.x = x] \in Results
  BY <1>1 DEF Outcomes, Results
<1>7. s \in Results => [s EXCEPT !.x = x] = s
  BY Contexts DEF Results
<1>8. r.s \in Results /\ r.st \in {"queued", "granting", "parking"}
  BY <1>4, <1>5, <1>6, EnqueueCtx
<1>9. ASSUME IN_CRITICAL_SECTION \in word[t], s \in Results, s.x.must, s.x.cpu \in Affinity[t]
      PROVE  r.st = "queued" /\ \E c \in CPUs : r.to = LocalDsq(c)
  BY <1>4, <1>5, <1>7, <1>9, EnqueueCritical
<1>10. QED
  BY <1>8, <1>9

\* stopping protects a runnable task whose word tells of a critical section.
LEMMA Stops ==
  ASSUME Base, NEW t \in Tasks, NEW x \in CtxRecords, NEW runnable \in BOOLEAN, NEW here,
         NEW have \in BOOLEAN, NEW s \in accordin_stopping(t, x, runnable, here, have)
  PROVE  /\ s \in Results
         /\ runnable /\ have /\ IN_CRITICAL_SECTION \in word[t] =>
               s.x.must /\ s.x.cpu \in Affinity[t]
<1> DEFINE s1 == refresh_slow_path_seen(t, Start(x), have)
<1>1. s1 \in Results
  BY Starts, Contexts, Updates
<1>2. release_admission(t, s1) \in Results
  BY <1>1, Updates
<1>3. [s1 EXCEPT !.x.must = @ \/ s1.x.holds] \in Results
  <2>1. [s1 EXCEPT !.x.must = @ \/ s1.x.holds]
            \in {[s1 EXCEPT !.x.must = b] : b \in BOOLEAN}
    BY <1>1 DEF Results, CtxRecords
  <2>2. QED
    BY <1>1, <2>1, Updates
<1>4. \/ should_release_from_user(t, s1.x, have) /\ s = release_admission(t, s1)
      \/ /\ ~should_release_from_user(t, s1.x, have)
         /\ runnable /\ have /\ IN_CRITICAL_SECTION \in word[t]
         /\ s \in protect_critical_section(t, s1, here)
      \/ /\ ~(runnable /\ have /\ IN_CRITICAL_SECTION \in word[t])
         /\ s = [s1 EXCEPT !.x.must = @ \/ s1.x.holds]
  BY DEF accordin_stopping
<1>5. IN_CRITICAL_SECTION \in word[t] => ~should_release_from_user(t, s1.x, have)
  BY DEF should_release_from_user, explicit_release
<1> HIDE DEF s1
<1>6. QED
  BY <1>1, <1>2, <1>3, <1>4, <1>5, Protects DEF Base

\* running and tick leave the task with a context.
LEMMA Refreshes ==
  ASSUME Base, Undisturbed, NEW t \in Tasks, NEW c, Refresh(t, c)
  PROVE  /\ \E x \in CtxRecords : ctx' = [ctx EXCEPT ![t] = x]
         /\ owner' \in [CPUs -> Tasks \cup {None}]
<1>1. PICK x \in get_task_ctx(t), have \in HaveUser(t) :
        LET s == IF x = NoCtx THEN Start(ctx[t]) ELSE refresh_running_state(t, x, c, have) IN
        ctx' = [ctx EXCEPT ![t] = s.x] /\ owner' = s.owner
  BY DEF Refresh, Base
<1>2. x \in CtxRecords /\ x # NoCtx /\ have \in BOOLEAN
  BY Reads, Contexts
<1> DEFINE s1 == refresh_slow_path_seen(t, Start(x), have)
           s == refresh_running_state(t, x, c, have)
<1>3. s1 \in Results
  BY <1>2, Starts, Updates
<1>4. [s1 EXCEPT !.x.must = @ /\ s1.x.cpu # c] \in Results
  <2>1. [s1 EXCEPT !.x.must = @ /\ s1.x.cpu # c] \in {[s1 EXCEPT !.x.must = b] : b \in BOOLEAN}
    BY <1>3 DEF Results, CtxRecords
  <2>2. QED
    BY <1>3, <2>1, Updates
<1>5. s \in Results
  BY <1>3, <1>4, Updates DEF refresh_running_state
<1>6. s.x \in CtxRecords /\ s.owner \in [CPUs -> Tasks \cup {None}]
  BY <1>5 DEF Results
<1>7. ctx' = [ctx EXCEPT ![t] = s.x] /\ owner' = s.owner
  BY <1>1, <1>2
<1> HIDE DEF s
<1>8. QED
  BY <1>6, <1>7

\* select_cpu and the kernel's choice for a task bound to one CPU.
LEMMA Selects ==
  ASSUME Base, Undisturbed, NEW t \in Tasks, NEW r \in WakeTargets(t)
  PROVE  r.s \in Outcomes
<1>1. ctx[t] \in CtxRecords \cup {NoCtx} /\ Results \subseteq Outcomes
  BY DEF Base, Results, Outcomes
<1>2. CASE Cardinality(Affinity[t]) = 1
  BY <1>1, <1>2, Starts DEF WakeTargets
<1>3. CASE Cardinality(Affinity[t]) # 1
  <2>1. r \in UNION {IF x = NoCtx
                  THEN {[s |-> Start(NoCtx), cpu |-> d[1], direct |-> d[2]] : d \in select_cpu_dfl(t)}
                  ELSE UNION {select_cpu_ctx(t, x, have) : have \in HaveUser(t)} :
                x \in get_task_ctx(t)}
    BY <1>3 DEF WakeTargets, accordin_select_cpu, Base
  <2>2. PICK x \in get_task_ctx(t) : r \in UNION {select_cpu_ctx(t, x, have) : have \in HaveUser(t)}
    BY <2>1, Reads, Contexts
  <2>3. PICK have \in HaveUser(t) : r \in select_cpu_ctx(t, x, have)
    BY <2>2
  <2>4. x \in CtxRecords /\ x # NoCtx /\ have \in BOOLEAN
    BY Reads, Contexts
  <2> DEFINE s1 == refresh_slow_path_seen(t, Start(x), have)
             s == clear_invalid_admission_cpu(t, s1)
             on(c) == IF c \in Allowed(t) THEN [s EXCEPT !.x.cpu = c] ELSE s
  <2>5. s \in Results
    <3>1. s1 \in Results
      BY <2>4, Starts, Updates
    <3>2. QED
      BY <2>4, <3>1, Updates
  <2>6. \A c : on(c) \in Results
    BY <2>5, PickedIsAllowed, Updates DEF Base
  <2>7. \/ r.s = s
        \/ \E c : r.s = on(c)
    BY <2>3 DEF select_cpu_ctx
  <2> HIDE DEF s, on
  <2>8. QED
    BY <1>1, <2>5, <2>6, <2>7
<1>4. QED
  BY <1>2, <1>3

----------------------------------------------------------------------------
(* Looking for work.                                                       *)

Shared == {GLOBAL, CONTROLLED} \cup {INACTIVE(c) : c \in CPUs}

\* Only dispatch queues that are not local are looked through for a task.
LEMMA SourcesAreShared ==
  ASSUME NEW c \in CPUs, NEW own
  PROVE  SourcesOf(c, own) \in Seq(Shared)
<1>1. <<GLOBAL>> \in Seq(Shared) /\ <<>> \in Seq(Shared)
  BY DEF Shared
<1>2. \A e \in CPUs : <<INACTIVE(e)>> \in Seq(Shared) /\ <<CONTROLLED, INACTIVE(e)>> \in Seq(Shared)
  BY DEF Shared
<1>3. steal_inactive(c) \in Seq(Shared)
  <2> DEFINE n == Min({StealScan, NCpus - 1})
  <2>1. StealScan \in Nat /\ NCpus \in Nat \ {0} /\ NCpus - 1 \in Nat
    BY ConstantsAssumption
  <2>2. n \in Nat
    <3>1. {StealScan, NCpus - 1} \in SUBSET Nat
      BY <2>1
    <3>2. QED
      BY <3>1, MinOfNaturals
  <2> HIDE DEF n
  <2>3. \A i \in 1..n : INACTIVE((c + i) % NCpus) \in Shared
    <3> SUFFICES ASSUME NEW i \in 1..n
                 PROVE  (c + i) % NCpus \in CPUs
      BY DEF Shared
    <3>1. c + i \in Nat
      BY <2>2 DEF CPUs
    <3>2. QED
      BY <2>1, <3>1 DEF CPUs
  <2>4. [i \in 1..n |-> INACTIVE((c + i) % NCpus)] \in Seq(Shared)
    BY <2>2, <2>3
  <2>5. QED
    BY <2>4 DEF steal_inactive, n
<1>4. accordin_dispatch(c, own) \in Seq(Shared)
  <2>1. (IF should_drain_inactive(c, own) THEN <<INACTIVE(c)>> ELSE <<>>) \in Seq(Shared)
    BY <1>1, <1>2
  <2>2. QED
    BY <1>2, <1>3, <2>1, ConcatProperties DEF accordin_dispatch
<1>5. (IF CallsDispatch(c) THEN accordin_dispatch(c, own) ELSE <<>>) \in Seq(Shared)
  BY <1>1, <1>4
<1>6. QED
  BY <1>1, <1>5, ConcatProperties DEF SourcesOf

\* The queues that are shared are none of the local ones.
LEMMA Ids ==
  /\ Shared \subseteq DsqIds
  /\ \A c \in CPUs : /\ LocalDsq(c) \in DsqIds /\ LocalDsq(c) \notin Shared
                     /\ LocalDsq(c)[1] = "LOCAL" /\ LocalDsq(c)[2] = c
                     /\ INACTIVE(c) \in Shared /\ INACTIVE(c) # CONTROLLED
  /\ \A d \in Shared : d[1] # "LOCAL"
  /\ \A c, e \in CPUs : LocalDsq(c) = LocalDsq(e) => c = e
  /\ GLOBAL \in Shared /\ CONTROLLED \in Shared
<1>1. Shared \subseteq DsqIds
  BY DEF Shared, DsqIds
<1>2. \A d \in Shared : d[1] # "LOCAL"
  BY DEF Shared, GLOBAL, CONTROLLED, INACTIVE
<1>3. \A c \in CPUs : /\ LocalDsq(c) \in DsqIds
                      /\ LocalDsq(c)[1] = "LOCAL" /\ LocalDsq(c)[2] = c
                      /\ INACTIVE(c) \in Shared
  BY DEF LocalDsq, DsqIds, Shared
<1>4. \A c \in CPUs : INACTIVE(c) # CONTROLLED
  BY DEF CONTROLLED, INACTIVE
<1>5. GLOBAL \in Shared /\ CONTROLLED \in Shared
  BY DEF Shared
<1>6. QED
  BY <1>1, <1>2, <1>3, <1>4, <1>5

\* Looking for work moves at most one task, that fits, to the local queue.
LEMMA BalancedForm ==
  ASSUME dsq \in [DsqIds -> Seq(Tasks)], NEW c \in CPUs, NEW own
  PROVE  \/ Balanced(c, own) = [dsq |-> dsq, task |-> None]
         \/ \E d \in Shared : \E i \in DOMAIN dsq[d] :
               /\ dsq[LocalDsq(c)] = <<>> /\ c \in Affinity[dsq[d][i]]
               /\ d = GLOBAL \/ CallsDispatch(c)
               /\ Balanced(c, own) =
                     [dsq  |-> [dsq EXCEPT ![d] = RemoveAt(@, i), ![LocalDsq(c)] = <<dsq[d][i]>>],
                      task |-> dsq[d][i]]
<1> DEFINE S == SourcesOf(c, own)
           I == {i \in 1..Len(S) : Fits(S[i], c) # {}}
           from == IF I # {} THEN Min(I) ELSE 0
           d == S[from]
           i == Min(Fits(d, c))
<1>1. S \in Seq(Shared) /\ Len(S) \in Nat /\ I \in SUBSET Nat
  BY SourcesAreShared
<1>2. SelectInSeq(S, LAMBDA e : Fits(e, c) # {}) = from
  BY DEF SelectInSeq
<1>3. Balanced(c, own) =
        IF from = 0 THEN [dsq |-> dsq, task |-> None]
        ELSE [dsq  |-> [dsq EXCEPT ![d] = RemoveAt(@, i), ![LocalDsq(c)] = <<dsq[d][i]>>],
              task |-> dsq[d][i]]
  BY <1>2 DEF Balanced
<1>4. CASE from = 0
  BY <1>3, <1>4
<1>5. CASE from # 0
  <2>1. from \in I
    BY <1>1, <1>5, MinOfNaturals
  <2> HIDE DEF from, S
  <2>2. d \in Shared /\ Fits(d, c) # {}
    <3>1. from \in 1..Len(S) /\ Fits(S[from], c) # {}
      BY <2>1
    <3>2. QED
      BY <1>1, <3>1, ElementOfSeq
  <2>3. dsq[LocalDsq(c)] = <<>>
    <3>1. CASE dsq[LocalDsq(c)] # <<>>
      <4>1. S = <<>>
        BY <3>1 DEF SourcesOf, S
      <4>2. QED
        BY <2>1, <4>1
    <3>2. QED
      BY <3>1
  <2>4. d = GLOBAL \/ CallsDispatch(c)
    <3>1. CASE ~CallsDispatch(c)
      <4>1. S = <<GLOBAL>> \o <<>>
        BY <2>3, <3>1 DEF SourcesOf, S
      <4>2. S = <<GLOBAL>>
        BY <4>1
      <4>3. from = 1
        BY <2>1, <4>2
      <4>4. QED
        BY <4>2, <4>3
    <3>2. QED
      BY <3>1
  <2> HIDE DEF d, I
  <2>5. i \in DOMAIN dsq[d] /\ c \in Affinity[dsq[d][i]]
    <3>1. d \in DsqIds
      BY <2>2 DEF Shared, DsqIds
    <3>2. DOMAIN dsq[d] = 1..Len(dsq[d]) /\ Len(dsq[d]) \in Nat
      BY <3>1, LenProperties
    <3>3. Fits(d, c) \in SUBSET Nat
      BY <3>2 DEF Fits
    <3>4. i \in Fits(d, c)
      BY <2>2, <3>3, MinOfNaturals
    <3>5. QED
      BY <3>4 DEF Fits
  <2> HIDE DEF i
  <2>6. QED
    BY <1>3, <1>5, <2>2, <2>3, <2>4, <2>5
<1>6. QED
  BY <1>4, <1>5

LEMMA Balances ==
  ASSUME Base, NEW c \in CPUs, NEW own
  PROVE  /\ Balanced(c, own).dsq \in [DsqIds -> Seq(Tasks)]
         /\ \A e \in CPUs :
               /\ Range(dsq[LocalDsq(e)]) \subseteq Range(Balanced(c, own).dsq[LocalDsq(e)])
               /\ dsq[LocalDsq(e)] # <<>> => Balanced(c, own).dsq[LocalDsq(e)] # <<>>
<1>1. dsq \in [DsqIds -> Seq(Tasks)]
  BY DEF Base
<1>2. CASE Balanced(c, own) = [dsq |-> dsq, task |-> None]
  BY <1>1, <1>2
<1>3. ASSUME NEW d \in Shared, NEW i \in DOMAIN dsq[d], dsq[LocalDsq(c)] = <<>>,
             Balanced(c, own).dsq =
                [dsq EXCEPT ![d] = RemoveAt(@, i), ![LocalDsq(c)] = <<dsq[d][i]>>]
      PROVE  /\ Balanced(c, own).dsq \in [DsqIds -> Seq(Tasks)]
             /\ \A e \in CPUs :
                   /\ Range(dsq[LocalDsq(e)]) \subseteq Range(Balanced(c, own).dsq[LocalDsq(e)])
                   /\ dsq[LocalDsq(e)] # <<>> => Balanced(c, own).dsq[LocalDsq(e)] # <<>>
  <2>1. d \in DsqIds /\ \A e \in CPUs : d # LocalDsq(e) /\ LocalDsq(e) \in DsqIds
    BY Ids
  <2>2. dsq[d] \in Seq(Tasks) /\ i \in 1..Len(dsq[d])
    BY <1>1, <1>3, <2>1, LenProperties
  <2>3. RemoveAt(dsq[d], i) \in Seq(Tasks) /\ dsq[d][i] \in Tasks
    BY <2>2, QueueEdits, ElementOfSeq
  <2>4. <<dsq[d][i]>> \in Seq(Tasks) /\ Range(<<>>) = {}
    BY <2>3 DEF Range
  <2> DEFINE b == Balanced(c, own).dsq
  <2>5. b = [dsq EXCEPT ![d] = RemoveAt(@, i), ![LocalDsq(c)] = <<dsq[d][i]>>]
    BY <1>3
  <2> HIDE DEF b
  <2>6. b \in [DsqIds -> Seq(Tasks)]
    BY <1>1, <2>1, <2>3, <2>4, <2>5
  <2>7. ASSUME NEW e \in CPUs
        PROVE  /\ Range(dsq[LocalDsq(e)]) \subseteq Range(b[LocalDsq(e)])
               /\ dsq[LocalDsq(e)] # <<>> => b[LocalDsq(e)] # <<>>
    <3>1. CASE LocalDsq(e) = LocalDsq(c)
      BY <1>3, <2>4, <3>1
    <3>2. CASE LocalDsq(e) # LocalDsq(c)
      BY <1>1, <2>1, <2>5, <3>2
    <3>3. QED
      BY <3>1, <3>2
  <2>8. QED
    BY <2>6, <2>7 DEF b
<1>4. CASE Balanced(c, own) # [dsq |-> dsq, task |-> None]
  <2>1. PICK d \in Shared : \E i \in DOMAIN dsq[d] :
          /\ dsq[LocalDsq(c)] = <<>> /\ c \in Affinity[dsq[d][i]]
          /\ d = GLOBAL \/ CallsDispatch(c)
          /\ Balanced(c, own) =
                [dsq  |-> [dsq EXCEPT ![d] = RemoveAt(@, i), ![LocalDsq(c)] = <<dsq[d][i]>>],
                 task |-> dsq[d][i]]
    BY <1>1, <1>4, BalancedForm
  <2>2. PICK i \in DOMAIN dsq[d] :
          /\ dsq[LocalDsq(c)] = <<>>
          /\ Balanced(c, own) =
                [dsq  |-> [dsq EXCEPT ![d] = RemoveAt(@, i), ![LocalDsq(c)] = <<dsq[d][i]>>],
                 task |-> dsq[d][i]]
    BY <2>1
  <2>3. Balanced(c, own).dsq = [dsq EXCEPT ![d] = RemoveAt(@, i), ![LocalDsq(c)] = <<dsq[d][i]>>]
    BY <2>2
  <2>4. QED
    BY <1>3, <2>2, <2>3
<1>5. QED
  BY <1>2, <1>4

----------------------------------------------------------------------------
(* Steps.                                                                  *)

\* The queues q hold, of the local ones, all that the queues now hold.
Grows(q) ==
    /\ q \in [DsqIds -> Seq(Tasks)]
    /\ \A e \in CPUs : /\ Range(dsq[LocalDsq(e)]) \subseteq Range(q[LocalDsq(e)])
                       /\ dsq[LocalDsq(e)] # <<>> => q[LocalDsq(e)] # <<>>

LEMMA Appending ==
  ASSUME NEW q, Grows(q), NEW t \in Tasks, NEW d
  PROVE  /\ Grows([q EXCEPT ![d] = Append(@, t)])
         /\ \A e \in CPUs :
               /\ d = LocalDsq(e) => t \in Range([q EXCEPT ![d] = Append(@, t)][d])
               /\ q[LocalDsq(e)] # <<>> => [q EXCEPT ![d] = Append(@, t)][LocalDsq(e)] # <<>>
<1> DEFINE n == [q EXCEPT ![d] = Append(@, t)]
<1>1. q \in [DsqIds -> Seq(Tasks)] /\ \A e \in CPUs : LocalDsq(e) \in DsqIds
  BY DEF Grows, DsqIds
<1>2. \A f \in DsqIds : /\ n[f] \in Seq(Tasks)
                        /\ Range(q[f]) \subseteq Range(n[f])
                        /\ q[f] # <<>> => n[f] # <<>>
  <2> SUFFICES ASSUME NEW f \in DsqIds
               PROVE  /\ n[f] \in Seq(Tasks)
                      /\ Range(q[f]) \subseteq Range(n[f])
                      /\ q[f] # <<>> => n[f] # <<>>
    OBVIOUS
  <2>1. q[f] \in Seq(Tasks)
    BY <1>1
  <2>2. n[f] = IF f = d THEN Append(q[f], t) ELSE q[f]
    BY <1>1
  <2>3. QED
    BY <2>1, <2>2, QueueEdits
<1>3. n \in [DsqIds -> Seq(Tasks)]
  BY <1>1, <1>2
<1>4. ASSUME NEW e \in CPUs, d = LocalDsq(e)
      PROVE  t \in Range(n[d])
  <2>1. q[d] \in Seq(Tasks) /\ n[d] = Append(q[d], t)
    BY <1>1, <1>4
  <2>2. QED
    BY <2>1, QueueEdits
<1>5. Grows(n)
  BY <1>1, <1>2, <1>3 DEF Grows
<1>6. QED
  BY <1>1, <1>2, <1>4, <1>5

\* The other threads keep their part of the invariant.
LEMMA OthersStay ==
  ASSUME ThreadsInv, NEW t \in Tasks, ThreadInv(t)',
         \A u \in Tasks : u # t =>
             /\ word'[u] = word[u] /\ phase'[u] = phase[u] /\ registered'[u] = registered[u]
             /\ ctx'[u] = ctx[u] /\ st'[u] = st[u],
         \A e \in CPUs : Range(dsq[LocalDsq(e)]) \subseteq Range(dsq'[LocalDsq(e)]) \cup {t}
  PROVE  ThreadsInv'
<1> SUFFICES ASSUME NEW u \in Tasks, u # t
             PROVE  ThreadInv(u)'
  BY DEF ThreadsInv
<1>1. ThreadInv(u)
  BY DEF ThreadsInv
<1>2. InLocal(u) => InLocal(u)'
  BY DEF InLocal
<1>3. QED
  BY <1>1, <1>2 DEF ThreadInv

\* What an enqueue writes.
LEMMA EnqueueEffect ==
  ASSUME Base, NEW t \in Tasks, NEW r, NEW q, NEW f, NEW here,
         r.s \in Results, r.st \in {"queued", "granting", "parking"},
         Grows(q), Enqueue(t, r, q, f, here)
  PROVE  /\ ctx' \in [Tasks -> CtxRecords \cup {NoCtx}] /\ ctx'[t] # NoCtx
         /\ owner' \in [CPUs -> Tasks \cup {None}]
         /\ st' \in [Tasks -> States] /\ st'[t] = r.st
         /\ \A u \in Tasks : u # t => ctx'[u] = ctx[u] /\ st'[u] = st[u]
         /\ Grows(dsq') /\ \A c \in CPUs : q[LocalDsq(c)] # <<>> => dsq'[LocalDsq(c)] # <<>>
         /\ r.st = "queued" /\ (\E c \in CPUs : r.to = LocalDsq(c)) => InLocal(t)'
<1>1. r.s.x \in CtxRecords /\ r.s.owner \in [CPUs -> Tasks \cup {None}] /\ r.s.x # NoCtx
  BY Contexts DEF Results
<1>2. /\ ctx' = [ctx EXCEPT ![t] = r.s.x] /\ owner' = r.s.owner
      /\ st' = [st EXCEPT ![t] = r.st]
      /\ dsq' = IF r.st = "queued" THEN [q EXCEPT ![r.to] = Append(@, t)] ELSE q
  BY DEF Enqueue
<1>3. /\ ctx \in [Tasks -> CtxRecords \cup {NoCtx}] /\ st \in [Tasks -> States]
      /\ r.st \in States
  BY DEF Base, States
<1>4. Grows(dsq') /\ \A c \in CPUs : q[LocalDsq(c)] # <<>> => dsq'[LocalDsq(c)] # <<>>
  BY <1>2, Appending
<1>5. ASSUME r.st = "queued", NEW c \in CPUs, r.to = LocalDsq(c)
      PROVE  InLocal(t)'
  BY <1>2, <1>5, Appending DEF InLocal
<1>6. QED
  BY <1>1, <1>2, <1>3, <1>4, <1>5

\* The variables of the mask.
Still == UNCHANGED <<stats_only, mask, nudges, pushes>>

\* An enqueue keeps the invariant if it queues a critical section locally.
LEMMA Queued ==
  ASSUME Base, ThreadsInv, NEW t \in Tasks, NEW r, NEW q, NEW f, NEW here,
         r.s \in Results, r.st \in {"queued", "granting", "parking"},
         Grows(q), Enqueue(t, r, q, f, here),
         Still, UNCHANGED <<word, registered>>,
         phase' = phase \/ phase' = [phase EXCEPT ![t] = IF @ = "yield" THEN "spin" ELSE @],
         curr' \in [CPUs -> Tasks \cup {None}], picking' \in [CPUs -> BOOLEAN],
         \A c \in CPUs : picking'[c] => picking[c] \/ q[LocalDsq(c)] # <<>>,
         IN_CRITICAL_SECTION \in word[t] => r.st = "queued" /\ \E c \in CPUs : r.to = LocalDsq(c)
  PROVE  Base' /\ ThreadsInv'
<1>1. /\ ctx' \in [Tasks -> CtxRecords \cup {NoCtx}] /\ ctx'[t] # NoCtx
      /\ owner' \in [CPUs -> Tasks \cup {None}]
      /\ st' \in [Tasks -> States] /\ st'[t] = r.st
      /\ \A u \in Tasks : u # t => ctx'[u] = ctx[u] /\ st'[u] = st[u]
      /\ Grows(dsq') /\ \A c \in CPUs : q[LocalDsq(c)] # <<>> => dsq'[LocalDsq(c)] # <<>>
      /\ r.st = "queued" /\ (\E c \in CPUs : r.to = LocalDsq(c)) => InLocal(t)'
  BY EnqueueEffect
<1>2. /\ phase' \in [Tasks -> Phases] /\ \A u \in Tasks : u # t => phase'[u] = phase[u]
      /\ phase'[t] # "out" => phase[t] # "out"
      /\ phase[t] \in {"cs", "unlocked"} => phase'[t] = phase[t]
  BY DEF Base, Phases
<1>3. \A c \in CPUs : picking'[c] => dsq'[LocalDsq(c)] # <<>>
  BY <1>1 DEF Grows, Base
<1>4. Base'
  BY <1>1, <1>2, <1>3 DEF Base, Still, Grows
<1>5. ThreadInv(t)'
  BY <1>1, <1>2 DEF ThreadsInv, ThreadInv
<1>6. ThreadsInv'
  BY <1>1, <1>2, <1>5, OthersStay DEF Grows
<1>7. QED
  BY <1>4, <1>6

LEMMA WakeStep ==
  ASSUME Base, ThreadsInv, Undisturbed, NEW t \in Tasks, K_Wake(t)
  PROVE  Base' /\ ThreadsInv'
<1>1. PICK r \in WakeTargets(t) :
        /\ ctx' = [ctx EXCEPT ![t] = r.s.x] /\ owner' = r.s.owner
        /\ st' = [st EXCEPT ![t] = IF r.direct THEN "queued" ELSE "waking"]
        /\ dsq' = IF r.direct THEN [dsq EXCEPT ![LocalDsq(r.cpu)] = Append(@, t)] ELSE dsq
        /\ UNCHANGED <<curr, picking>>
  BY DEF K_Wake
<1>2. st[t] = "blocked" /\ Still /\ UNCHANGED <<word, registered, phase>>
  BY DEF K_Wake, Still, maskVars, userVars
<1>3. r.s.x \in CtxRecords \cup {NoCtx} /\ r.s.owner \in [CPUs -> Tasks \cup {None}]
  BY Selects DEF Outcomes
<1>4. Grows(dsq)
  BY DEF Grows, Base
<1>5. Grows(dsq')
  BY <1>1, <1>4, Appending
<1>6. Base'
  BY <1>1, <1>2, <1>3, <1>5 DEF Base, Still, Grows, States
<1>7. /\ st'[t] \in {"queued", "waking"}
      /\ \A u \in Tasks : u # t => ctx'[u] = ctx[u] /\ st'[u] = st[u]
  BY <1>1 DEF Base
<1>8. ThreadInv(t)'
  BY <1>2, <1>7 DEF ThreadsInv, ThreadInv
<1>9. ThreadsInv'
  BY <1>2, <1>5, <1>7, <1>8, OthersStay DEF Grows
<1>10. QED
  BY <1>6, <1>9

LEMMA EnqueueStep ==
  ASSUME Base, ThreadsInv, Undisturbed, NEW t \in Tasks, K_WakeEnqueue(t)
  PROVE  Base' /\ ThreadsInv'
<1>1. PICK r \in accordin_enqueue(t, Start(ctx[t])) : Enqueue(t, r, dsq, taskCpu, taskCpu[t])
  BY DEF K_WakeEnqueue
<1>2. /\ st[t] = "waking" /\ UNCHANGED <<curr, picking>>
      /\ Still /\ UNCHANGED <<word, registered, phase>>
  BY DEF K_WakeEnqueue, Still, maskVars, userVars
<1>3. Start(ctx[t]) \in Outcomes
  BY Starts DEF Base
<1>4. r.s \in Results /\ r.st \in {"queued", "granting", "parking"}
  BY <1>3, Enqueues
<1>5. IN_CRITICAL_SECTION \notin word[t]
  BY <1>2 DEF ThreadsInv, ThreadInv
<1>6. /\ Grows(dsq) /\ curr' \in [CPUs -> Tasks \cup {None}] /\ picking' \in [CPUs -> BOOLEAN]
      /\ \A c \in CPUs : picking'[c] => picking[c]
  BY <1>2 DEF Grows, Base
<1>7. QED
  BY <1>1, <1>2, <1>4, <1>5, <1>6, Queued

\* The second half of an enqueue.
LEMMA SettleStep ==
  ASSUME Base, ThreadsInv, NEW t \in Tasks, grant_admission(t) \/ park(t)
  PROVE  Base' /\ ThreadsInv'
<1> DEFINE s == Granted(t, Start(ctx[t]), ctx[t].cpu)
           granted == To(s, LocalDsq(ctx[t].cpu))
           parked == To(Start(ctx[t]), INACTIVE(ctx[t].cpu))
<1>1. /\ Still /\ UNCHANGED <<curr, picking, word, registered, phase>>
      /\ st[t] \in {"granting", "parking"}
      /\ \/ Enqueue(t, granted, dsq, taskCpu, taskCpu[t])
         \/ Enqueue(t, parked, dsq, taskCpu, taskCpu[t])
  BY DEF grant_admission, park, Still, maskVars, userVars
<1>2. IN_CRITICAL_SECTION \notin word[t] /\ ctx[t] # NoCtx
  BY <1>1 DEF ThreadsInv, ThreadInv
<1>3. ctx[t] \in CtxRecords /\ Start(ctx[t]) \in Results
  BY <1>2, Starts DEF Base
<1>4. s \in Results
  BY <1>3, Updates DEF CtxRecords
<1>5. /\ granted.s \in Results /\ granted.st = "queued"
      /\ parked.s \in Results /\ parked.st = "queued"
  BY <1>3, <1>4 DEF To
<1>6. /\ Grows(dsq) /\ curr' \in [CPUs -> Tasks \cup {None}] /\ picking' \in [CPUs -> BOOLEAN]
      /\ \A c \in CPUs : picking'[c] => picking[c]
  BY <1>1 DEF Grows, Base
<1> HIDE DEF granted, parked
<1>7. QED
  BY <1>1, <1>2, <1>5, <1>6, Queued

\* A preempted critical section is registered, so stopping sees its word.
LEMMA PreemptStep ==
  ASSUME Base, ThreadsInv, Undisturbed, NEW c \in CPUs, K_Preempt(c)
  PROVE  Base' /\ ThreadsInv'
<1> DEFINE b == Balanced(c, owner)
<1>1. PICK t \in Tasks : t = curr[c]
  BY DEF K_Preempt, Base
<1>2. /\ Still /\ UNCHANGED <<word, registered>>
      /\ phase' = [phase EXCEPT ![t] = IF @ = "yield" THEN "spin" ELSE @]
  BY <1>1 DEF K_Preempt, Still, maskVars
<1>3. Grows(b.dsq)
  BY Balances DEF Grows
<1>4. CASE b.dsq[LocalDsq(c)] = <<>>
  <2>1. UNCHANGED <<ctx, owner, kernelVars>>
    BY <1>1, <1>4 DEF K_Preempt
  <2>2. /\ phase' \in [Tasks -> Phases] /\ \A u \in Tasks : u # t => phase'[u] = phase[u]
        /\ phase'[t] # "out" => phase[t] # "out"
        /\ phase[t] \in {"cs", "unlocked", "out"} => phase'[t] = phase[t]
    BY <1>2 DEF Base, Phases
  <2>3. Base'
    BY <1>2, <2>1, <2>2 DEF Base, Still, kernelVars
  <2>4. ThreadInv(t)'
    BY <1>2, <2>1, <2>2 DEF ThreadsInv, ThreadInv, InLocal, kernelVars
  <2>5. ThreadsInv'
    BY <1>2, <2>1, <2>2, <2>4, OthersStay DEF kernelVars
  <2>6. QED
    BY <2>3, <2>5
<1>5. CASE b.dsq[LocalDsq(c)] # <<>>
  <2>1. /\ curr' = [curr EXCEPT ![c] = None] /\ picking' = [picking EXCEPT ![c] = TRUE]
        /\ \E have \in HaveUser(t) :
           \E s \in IF stats_only \/ ctx[t] = NoCtx THEN {Start(ctx[t])}
                    ELSE accordin_stopping(t, ctx[t], TRUE, c, have) :
           \E r \in accordin_enqueue(t, s) : Enqueue(t, r, b.dsq, OnCpu(b.task, c), c)
    BY <1>1, <1>5 DEF K_Preempt
  <2> HIDE DEF b
  <2>2. PICK have \in HaveUser(t) :
           \E s \in IF ctx[t] = NoCtx THEN {Start(ctx[t])}
                    ELSE accordin_stopping(t, ctx[t], TRUE, c, have) :
           \E r \in accordin_enqueue(t, s) : Enqueue(t, r, b.dsq, OnCpu(b.task, c), c)
    BY <2>1 DEF Base
  <2>3. PICK s \in IF ctx[t] = NoCtx THEN {Start(ctx[t])}
                   ELSE accordin_stopping(t, ctx[t], TRUE, c, have) :
             \E r \in accordin_enqueue(t, s) : Enqueue(t, r, b.dsq, OnCpu(b.task, c), c)
    BY <2>2
  <2>4. PICK r \in accordin_enqueue(t, s) : Enqueue(t, r, b.dsq, OnCpu(b.task, c), c)
    BY <2>3
  <2>5. /\ have \in BOOLEAN /\ have = registered[t]
        /\ IN_CRITICAL_SECTION \in word[t] => have /\ ctx[t] # NoCtx
    BY <1>2, Reads DEF ThreadsInv, ThreadInv
  <2>6. /\ s \in Outcomes
        /\ IN_CRITICAL_SECTION \in word[t] => s \in Results /\ s.x.must /\ s.x.cpu \in Affinity[t]
    <3>1. CASE ctx[t] = NoCtx
      BY <1>2, <2>3, <2>5, <3>1, Starts DEF Base
    <3>2. CASE ctx[t] # NoCtx
      <4>1. ctx[t] \in CtxRecords /\ s \in accordin_stopping(t, ctx[t], TRUE, c, have)
        BY <1>2, <2>3, <3>2 DEF Base
      <4>2. s \in Results
        BY <1>2, <2>5, <4>1, Stops
      <4>3. QED
        BY <1>2, <2>5, <4>1, <4>2, Stops DEF Outcomes, Results
    <3>3. QED
      BY <3>1, <3>2
  <2>7. /\ r.s \in Results /\ r.st \in {"queued", "granting", "parking"}
        /\ IN_CRITICAL_SECTION \in word[t]
              => r.st = "queued" /\ \E e \in CPUs : r.to = LocalDsq(e)
    BY <1>2, <2>6, Enqueues
  <2>8. /\ curr' \in [CPUs -> Tasks \cup {None}] /\ picking' \in [CPUs -> BOOLEAN]
        /\ \A e \in CPUs : picking'[e] => picking[e] \/ b.dsq[LocalDsq(e)] # <<>>
    BY <1>5, <2>1 DEF Base, b
  <2>9. QED
    BY <1>2, <1>3, <2>4, <2>7, <2>8, Queued
<1>6. QED
  BY <1>4, <1>5

\* A thread leaves its CPU outside its critical section.
LEMMA LeaveStep ==
  ASSUME Base, ThreadsInv, Undisturbed, NEW c \in CPUs, K_Block(c) \/ K_Exit(c)
  PROVE  Base' /\ ThreadsInv'
<1>1. PICK t \in Tasks : t = curr[c]
  BY DEF K_Block, K_Exit, Base, Leave
<1>2. PICK next \in {"blocked", "exiting"} :
        /\ Leave(c, next) /\ phase[t] \notin {"cs", "unlocked"}
        /\ next = "exiting" => phase[t] = "out"
  BY <1>1 DEF K_Block, K_Exit, Undisturbed
<1>3. /\ Still /\ UNCHANGED <<word, registered, phase>>
      /\ st' = [st EXCEPT ![t] = next]
  BY <1>1, <1>2 DEF Leave, Still, maskVars, userVars
<1> DEFINE Left(s) ==
             LET b == Balanced(c, s.owner) IN
             /\ ctx' = [ctx EXCEPT ![t] = s.x] /\ owner' = s.owner
             /\ dsq' = b.dsq
             /\ curr' = [curr EXCEPT ![c] = None]
             /\ picking' = [picking EXCEPT ![c] = b.dsq[LocalDsq(c)] # <<>>]
<1>4. PICK have \in HaveUser(t) :
        \E s \in IF ctx[t] = NoCtx THEN {Start(ctx[t])}
                 ELSE accordin_stopping(t, ctx[t], FALSE, c, have) : Left(s)
  <2>1. ~stats_only
    BY DEF Base
  <2>2. \E have \in HaveUser(t) :
        \E s \in IF stats_only \/ ctx[t] = NoCtx THEN {Start(ctx[t])}
                 ELSE accordin_stopping(t, ctx[t], FALSE, c, have) : Left(s)
    BY <1>1, <1>2 DEF Leave
  <2> HIDE DEF Left
  <2>3. QED
    BY <2>1, <2>2
<1>5. PICK s \in IF ctx[t] = NoCtx THEN {Start(ctx[t])}
                 ELSE accordin_stopping(t, ctx[t], FALSE, c, have) : Left(s)
  <2> HIDE DEF Left
  <2>1. QED
    BY <1>4
<1>6. s \in Outcomes
  <2>1. CASE ctx[t] = NoCtx
    BY <1>3, <1>5, <2>1, Starts DEF Base
  <2>2. CASE ctx[t] # NoCtx
    <3>1. ctx[t] \in CtxRecords /\ have \in BOOLEAN
      BY <1>3, <2>2, Reads DEF Base
    <3>2. s \in Results
      BY <1>3, <1>5, <2>2, <3>1, Stops
    <3>3. QED
      BY <3>2 DEF Outcomes, Results
  <2>3. QED
    BY <2>1, <2>2
<1>7. Grows(dsq')
  BY <1>5, Balances DEF Grows
<1>8. s.x \in CtxRecords \cup {NoCtx} /\ s.owner \in [CPUs -> Tasks \cup {None}]
  BY <1>6 DEF Outcomes
<1>9. \A e \in CPUs : picking'[e] => dsq'[LocalDsq(e)] # <<>>
  BY <1>5, <1>7 DEF Grows, Base
<1>10. picking' \in [CPUs -> BOOLEAN] /\ curr' \in [CPUs -> Tasks \cup {None}]
  BY <1>5 DEF Base
<1>11. Base'
  BY <1>3, <1>5, <1>7, <1>8, <1>9, <1>10 DEF Base, Still, Grows, States
<1>12. st'[t] = next /\ \A u \in Tasks : u # t => ctx'[u] = ctx[u] /\ st'[u] = st[u]
  BY <1>3, <1>5 DEF Base
<1>13. ThreadInv(t)'
  BY <1>2, <1>3, <1>12 DEF ThreadsInv, ThreadInv
<1>14. ThreadsInv'
  BY <1>3, <1>7, <1>12, <1>13, OthersStay DEF Grows
<1>15. QED
  BY <1>11, <1>14

LEMMA ExitStep ==
  ASSUME Base, ThreadsInv, NEW t \in Tasks, accordin_exit_task(t)
  PROVE  Base' /\ ThreadsInv'
<1> DEFINE s == IF ctx[t].holds THEN release_admission(t, Start(ctx[t])) ELSE Start(ctx[t])
<1>1. /\ st[t] = "exiting" /\ owner' = s.owner /\ UNCHANGED <<curr, picking>>
      /\ ctx' = [ctx EXCEPT ![t] = NoCtx]
      /\ registered' = [registered EXCEPT ![t] = FALSE]
      /\ st' = [st EXCEPT ![t] = "exited"]
      /\ Still /\ UNCHANGED <<word, phase, dsq>>
  BY DEF accordin_exit_task, Still, maskVars
<1>2. s.owner \in [CPUs -> Tasks \cup {None}]
  <2>1. CASE ctx[t] = NoCtx
    BY <2>1 DEF NoCtx, Start, Base
  <2>2. CASE ctx[t] # NoCtx
    <3>1. Start(ctx[t]) \in Results
      BY <2>2, Starts DEF Base
    <3>2. release_admission(t, Start(ctx[t])) \in Results
      BY <3>1, Updates
    <3>3. QED
      BY <3>1, <3>2 DEF Results
  <2>3. QED
    BY <2>1, <2>2
<1>3. Base'
  BY <1>1, <1>2 DEF Base, Still, States
<1>4. /\ st'[t] = "exited" /\ phase[t] = "out"
      /\ \A u \in Tasks : u # t => ctx'[u] = ctx[u] /\ st'[u] = st[u] /\ registered'[u] = registered[u]
  BY <1>1 DEF Base, ThreadsInv, ThreadInv
<1>5. ThreadInv(t)'
  BY <1>1, <1>4 DEF ThreadsInv, ThreadInv
<1>6. ThreadsInv'
  BY <1>1, <1>4, <1>5, OthersStay
<1>7. QED
  BY <1>3, <1>6

LEMMA IdleStep ==
  ASSUME Base, ThreadsInv, NEW c \in CPUs, K_IdleSchedule(c)
  PROVE  Base' /\ ThreadsInv'
<1>1. /\ dsq' = Balanced(c, owner).dsq /\ Still
      /\ picking' = [picking EXCEPT ![c] = Balanced(c, owner).dsq[LocalDsq(c)] # <<>>]
      /\ UNCHANGED <<ctx, owner, word, registered, phase, st, curr>>
  BY DEF K_IdleSchedule, Still, maskVars, userVars
<1>2. Grows(dsq')
  BY <1>1, Balances DEF Grows
<1>3. picking' \in [CPUs -> BOOLEAN] /\ \A e \in CPUs : picking'[e] => dsq'[LocalDsq(e)] # <<>>
  BY <1>1, <1>2 DEF Grows, Base
<1>4. Base'
  BY <1>1, <1>2, <1>3 DEF Base, Still, Grows
<1>5. \A u \in Tasks : InLocal(u) => InLocal(u)'
  BY <1>2 DEF InLocal, Grows
<1>6. ThreadsInv'
  BY <1>1, <1>5 DEF ThreadsInv, ThreadInv
<1>7. QED
  BY <1>4, <1>6

\* The thread that a CPU picks leaves the local queue to run.
LEMMA RunningStep ==
  ASSUME Base, ThreadsInv, Undisturbed, NEW c \in CPUs, accordin_running(c)
  PROVE  Base' /\ ThreadsInv'
<1> DEFINE d == LocalDsq(c)
<1>1. dsq[d] \in Seq(Tasks) /\ dsq[d] # <<>> /\ picking[c]
  BY DEF accordin_running, Base, DsqIds
<1>2. PICK t \in Tasks : t = Head(dsq[d])
  BY <1>1, QueueEdits
<1>3. /\ dsq' = [dsq EXCEPT ![d] = Tail(@)] /\ curr' = [curr EXCEPT ![c] = t]
      /\ picking' = [picking EXCEPT ![c] = FALSE] /\ st' = [st EXCEPT ![t] = "running"]
      /\ Refresh(t, c) /\ Still /\ UNCHANGED <<word, registered, phase>>
  BY <1>2 DEF accordin_running, Still, maskVars, userVars
<1>4. PICK x \in CtxRecords : ctx' = [ctx EXCEPT ![t] = x] /\ owner' \in [CPUs -> Tasks \cup {None}]
  BY <1>3, Refreshes
<1>5. Tail(dsq[d]) \in Seq(Tasks) /\ Range(dsq[d]) \subseteq Range(Tail(dsq[d])) \cup {t}
  BY <1>1, <1>2, QueueEdits
<1>6. /\ dsq' \in [DsqIds -> Seq(Tasks)]
      /\ \A e \in CPUs : dsq'[LocalDsq(e)] = IF e = c THEN Tail(dsq[d]) ELSE dsq[LocalDsq(e)]
  <2>1. \A e \in CPUs : LocalDsq(e) \in DsqIds /\ (LocalDsq(e) = d => e = c)
    BY DEF DsqIds, LocalDsq
  <2>2. QED
    BY <1>3, <1>5, <2>1 DEF Base
<1>7. \A e \in CPUs : picking'[e] => dsq'[LocalDsq(e)] # <<>>
  BY <1>3, <1>6 DEF Base
<1>8. Base'
  BY <1>3, <1>4, <1>6, <1>7 DEF Base, Still, States
<1>9. /\ st'[t] = "running" /\ ctx'[t] # NoCtx
      /\ \A u \in Tasks : u # t => ctx'[u] = ctx[u] /\ st'[u] = st[u]
  BY <1>3, <1>4, Contexts DEF Base
<1>10. ThreadInv(t)'
  BY <1>3, <1>9 DEF ThreadsInv, ThreadInv
<1>11. ThreadsInv'
  BY <1>3, <1>5, <1>6, <1>9, <1>10, OthersStay
<1>12. QED
  BY <1>8, <1>11

LEMMA TickStep ==
  ASSUME Base, ThreadsInv, Undisturbed, NEW c \in CPUs, accordin_tick(c)
  PROVE  Base' /\ ThreadsInv'
<1>1. PICK t \in Tasks : t = curr[c]
  BY DEF accordin_tick, Base
<1>2. /\ Refresh(t, c) /\ Still /\ UNCHANGED <<word, registered, phase, curr, picking, st, dsq>>
  BY <1>1 DEF accordin_tick, Still, maskVars, userVars
<1>3. PICK x \in CtxRecords : ctx' = [ctx EXCEPT ![t] = x] /\ owner' \in [CPUs -> Tasks \cup {None}]
  BY <1>2, Refreshes
<1>4. Base'
  BY <1>2, <1>3 DEF Base, Still
<1>5. ctx'[t] # NoCtx /\ \A u \in Tasks : u # t => ctx'[u] = ctx[u]
  BY <1>3, Contexts DEF Base
<1>6. ThreadInv(t)'
  BY <1>2, <1>5 DEF ThreadsInv, ThreadInv, InLocal
<1>7. ThreadsInv'
  BY <1>2, <1>5, <1>6, OthersStay
<1>8. QED
  BY <1>4, <1>7

LEMMA UserStep ==
  ASSUME Base, ThreadsInv, NEW t \in Tasks,
         \/ FastLock(t) \/ SlowPending(t) \/ Acquire(t)
         \/ MarkEntered(t) \/ Unlock(t) \/ MarkExit(t)
  PROVE  Base' /\ ThreadsInv'
<1>1. /\ Still /\ UNCHANGED <<ctx, owner, st, curr, picking, dsq>> /\ st[t] = "running"
      /\ \E to \in Phases : phase' = [phase EXCEPT ![t] = to]
  BY DEF FastLock, SlowPending, Acquire, MarkEntered, Unlock, MarkExit, User, Phases,
         Still, maskVars, mapVars, kernelVars
<1>2. /\ registered' = registered \/ registered' = [registered EXCEPT ![t] = TRUE]
      /\ \E w \in Words : word' = [word EXCEPT ![t] = w]
  <2>1. word[t] \in Words /\ word = [word EXCEPT ![t] = word[t]]
    BY DEF Base
  <2>2. QED
    BY <2>1 DEF FastLock, SlowPending, Acquire, MarkEntered, Unlock, MarkExit, Words, WordBits,
           mark_slow_path_pending, mark_critical_section_entered, mark_critical_section_exit
<1>3. Base'
  <2>1. phase' \in [Tasks -> Phases]
    BY <1>1 DEF Base
  <2>2. word' \in [Tasks -> Words] /\ registered' \in [Tasks -> BOOLEAN]
    BY <1>2 DEF Base
  <2>3. QED
    BY <1>1, <2>1, <2>2 DEF Base, Still
<1>4. /\ IN_CRITICAL_SECTION \in word'[t] => phase'[t] \in {"cs", "unlocked"}
      /\ phase'[t] # "out" => registered'[t]
  <2>1. ThreadInv(t) /\ phase \in [Tasks -> Phases] /\ word \in [Tasks -> Words]
        /\ registered \in [Tasks -> BOOLEAN]
    BY DEF ThreadsInv, Base
  <2>2. CASE FastLock(t)
    BY <2>1, <2>2 DEF ThreadInv, FastLock, User
  <2>3. CASE SlowPending(t)
    BY <2>1, <2>3 DEF ThreadInv, SlowPending, User, mark_slow_path_pending,
                      IN_CRITICAL_SECTION, SLOW_PATH_PENDING, SLOW_PATH_SEEN
  <2>4. CASE Acquire(t)
    BY <2>1, <2>4 DEF ThreadInv, Acquire, User
  <2>5. CASE MarkEntered(t)
    BY <2>1, <2>5 DEF ThreadInv, MarkEntered, User
  <2>6. CASE Unlock(t)
    BY <2>1, <2>6 DEF ThreadInv, Unlock, User
  <2>7. CASE MarkExit(t)
    BY <2>1, <2>7 DEF ThreadInv, MarkExit, User, mark_critical_section_exit
  <2>8. QED
    BY <2>2, <2>3, <2>4, <2>5, <2>6, <2>7
<1>5. ThreadInv(t)'
  BY <1>1, <1>4 DEF ThreadsInv, ThreadInv
<1>6. \A u \in Tasks : u # t => /\ word'[u] = word[u] /\ phase'[u] = phase[u]
                                /\ registered'[u] = registered[u]
  BY <1>1, <1>2 DEF Base
<1>7. ThreadsInv'
  BY <1>1, <1>5, <1>6, OthersStay
<1>8. QED
  BY <1>3, <1>7

----------------------------------------------------------------------------
\* A preempted thread whose word says that it is in its critical section waits
\* in a local queue, whatever the number of threads and CPUs, the affinities,
\* the drain interval and the steal scan (accordin_stopping, accordin_enqueue).
THEOREM CriticalIsLocal ==
  ASSUME Undisturbed
  PROVE  Spec => []CriticalStaysLocal
<1>1. Init => Base /\ ThreadsInv
  <2> SUFFICES ASSUME Init
               PROVE  Base /\ ThreadsInv
    OBVIOUS
  <2>1. stats_only = FALSE /\ \A w \in {{}} : w \in Words
    BY DEF Init, Undisturbed, Words
  <2>2. Base
    BY <2>1 DEF Init, Base, States, Phases
  <2>3. ThreadsInv
    BY DEF Init, ThreadsInv, ThreadInv
  <2>4. QED
    BY <2>2, <2>3
<1>2. Base /\ ThreadsInv /\ [Next]_vars => Base' /\ ThreadsInv'
  <2> SUFFICES ASSUME Base, ThreadsInv, [Next]_vars
               PROVE  Base' /\ ThreadsInv'
    OBVIOUS
  <2>1. ASSUME NEW t \in Tasks,
               K_Wake(t) \/ K_WakeEnqueue(t) \/ grant_admission(t) \/ park(t) \/ accordin_exit_task(t)
        PROVE  Base' /\ ThreadsInv'
    BY <2>1, WakeStep, EnqueueStep, SettleStep, ExitStep
  <2>2. ASSUME NEW c \in CPUs,
               \/ K_Preempt(c) \/ K_Block(c) \/ K_Exit(c) \/ K_IdleSchedule(c)
               \/ accordin_running(c) \/ accordin_tick(c)
        PROVE  Base' /\ ThreadsInv'
    BY <2>2, PreemptStep, LeaveStep, IdleStep, RunningStep, TickStep
  <2>3. ASSUME NEW t \in Tasks,
               \/ FastLock(t) \/ SlowPending(t) \/ Acquire(t)
               \/ MarkEntered(t) \/ Unlock(t) \/ MarkExit(t)
        PROVE  Base' /\ ThreadsInv'
    BY <2>3, UserStep
  <2>4. ~accordin_set_active_cpus /\ ~accordin_nudge_cpu
    BY DEF Base, accordin_set_active_cpus, accordin_nudge_cpu, Undisturbed
  <2>5. CASE UNCHANGED vars
    BY <2>5 DEF vars, mapVars, maskVars, userVars, kernelVars, Base, ThreadsInv, ThreadInv, InLocal
  <2>6. QED
    BY <2>1, <2>2, <2>3, <2>4, <2>5 DEF Next, KernelNext, UserNext
<1>3. ThreadsInv => CriticalStaysLocal
  BY DEF ThreadsInv, ThreadInv, CriticalStaysLocal, InLocal
<1>4. QED
  BY <1>1, <1>2, <1>3, PTL DEF Spec

----------------------------------------------------------------------------
(* Outcomes of callbacks under any mask, with reads that may fail.         *)

\* The admission CPU is one that the task may use, if there is one.
LawfulResults(t)  == {s \in Results : s.x.cpu \in Affinity[t] \cup {None}}
LawfulOutcomes(t) == LawfulResults(t) \cup {s \in Outcomes : s.x = NoCtx}

\* What the owner map says of t is what its context says, and the entries of
\* other tasks are neither made nor removed.
Faithful(t, s) ==
    /\ s.x.holds => s.x.cpu # None
    /\ \A c \in CPUs : /\ s.owner[c] = t => s.x.holds /\ s.x.cpu = c
                       /\ s.owner[c] \in {None, t, owner[c]}
                       /\ owner[c] \notin {None, t} => s.owner[c] = owner[c]

Claimed(t, s) == s.x.holds => s.owner[s.x.cpu] = t

\* k tells whether a task that holds is known to be the owner.
Sound(t, s, k) == Faithful(t, s) /\ (k => Claimed(t, s))

LEMMA Picks ==
  ASSUME NEW t \in Tasks
  PROVE  /\ Allowed(t) \subseteq Affinity[t] /\ Affinity[t] \subseteq CPUs
         /\ None \notin CPUs /\ None \notin Tasks
         /\ \A f : pick_allowed_cpu(t, f) \subseteq Allowed(t) \cup {None}
         /\ \A x : requested_cpu(t, x) \subseteq Allowed(t) \cup {None}
         /\ taskCpu[t] \in Affinity[t] =>
               /\ \A f : pick_task_cpu(t, f) \in Affinity[t]
               /\ \A c : active_or_any(t, c) \subseteq Affinity[t]
<1>1. /\ Allowed(t) \subseteq Affinity[t] /\ Affinity[t] \subseteq CPUs
      /\ None \notin CPUs /\ None \notin Tasks
  BY ConstantsAssumption DEF Allowed
<1>2. ASSUME NEW f
      PROVE  pick_allowed_cpu(t, f) \subseteq Allowed(t) \cup {None}
  <2>1. CASE f \in Allowed(t)
    BY <2>1 DEF pick_allowed_cpu
  <2>2. CASE f \notin Allowed(t) /\ taskCpu[t] \in Allowed(t)
    BY <2>2 DEF pick_allowed_cpu
  <2>3. CASE f \notin Allowed(t) /\ taskCpu[t] \notin Allowed(t)
    BY <2>3 DEF pick_allowed_cpu
  <2>4. QED
    BY <2>1, <2>2, <2>3
<1>3. \A x : requested_cpu(t, x) \subseteq Allowed(t) \cup {None}
  BY <1>2 DEF requested_cpu
<1>4. ASSUME taskCpu[t] \in Affinity[t]
      PROVE  /\ \A f : pick_task_cpu(t, f) \in Affinity[t]
             /\ \A c : active_or_any(t, c) \subseteq Affinity[t]
  <2>1. \A f : pick_task_cpu(t, f) \in Affinity[t]
    BY <1>4 DEF pick_task_cpu
  <2>2. \A c : active_or_any(t, c) \subseteq Affinity[t]
    BY <1>1, <1>2, <2>1 DEF active_or_any
  <2>3. QED
    BY <2>1, <2>2
<1>5. QED
  BY <1>1, <1>2, <1>3, <1>4

\* The updates that the callbacks share keep the admission CPU lawful.
LEMMA LawfulUpdates ==
  ASSUME NEW t \in Tasks, NEW s \in LawfulResults(t), NEW have \in BOOLEAN
  PROVE  /\ refresh_slow_path_seen(t, s, have) \in LawfulResults(t)
         /\ release_admission(t, s) \in LawfulResults(t)
         /\ clear_invalid_admission_cpu(t, s) \in LawfulResults(t)
         /\ release_if_explicit(t, s, have) \in LawfulResults(t)
         /\ \A b \in BOOLEAN : [s EXCEPT !.x.must = b] \in LawfulResults(t)
         /\ \A c \in Affinity[t] : /\ [s EXCEPT !.x.cpu = c] \in LawfulResults(t)
                                   /\ Granted(t, s, c) \in LawfulResults(t)
<1>1. s \in Results /\ s.x.cpu \in Affinity[t] \cup {None} /\ s.x \in CtxRecords
  BY DEF LawfulResults, Results
<1>2. refresh_slow_path_seen(t, s, have) \in LawfulResults(t)
  <2>1. refresh_slow_path_seen(t, s, have).x.cpu = s.x.cpu
    BY <1>1 DEF refresh_slow_path_seen, Results, CtxRecords
  <2>2. QED
    BY <1>1, <2>1, Updates DEF LawfulResults
<1>3. release_admission(t, s) \in LawfulResults(t)
  <2>1. release_admission(t, s).x.cpu = None
    BY <1>1 DEF release_admission, CtxRecords
  <2>2. QED
    BY <1>1, <2>1, Updates DEF LawfulResults
<1>4. /\ clear_invalid_admission_cpu(t, s) \in LawfulResults(t)
      /\ release_if_explicit(t, s, have) \in LawfulResults(t)
  BY <1>3 DEF clear_invalid_admission_cpu, release_if_explicit
<1>5. ASSUME NEW b \in BOOLEAN
      PROVE  [s EXCEPT !.x.must = b] \in LawfulResults(t)
  <2>1. [s EXCEPT !.x.must = b].x.cpu = s.x.cpu
    BY <1>1 DEF Results, CtxRecords
  <2>2. QED
    BY <1>1, <2>1, Updates DEF LawfulResults
<1>6. ASSUME NEW c \in Affinity[t]
      PROVE  /\ [s EXCEPT !.x.cpu = c] \in LawfulResults(t)
             /\ Granted(t, s, c) \in LawfulResults(t)
  <2>1. [s EXCEPT !.x.cpu = c].x.cpu = c /\ Granted(t, s, c).x.cpu = c
    BY <1>1 DEF Granted, Results, CtxRecords
  <2>2. c \in CPUs
    BY Picks
  <2>3. QED
    BY <1>1, <2>1, <2>2, Updates DEF LawfulResults
<1>7. QED
  BY <1>2, <1>3, <1>4, <1>5, <1>6

\* Releasing clears the entry of the task, granting makes it.
LEMMA SoundUpdates ==
  ASSUME NEW t \in Tasks, NEW s \in LawfulResults(t), NEW have \in BOOLEAN, NEW k,
         Sound(t, s, k)
  PROVE  /\ Sound(t, refresh_slow_path_seen(t, s, have), k)
         /\ Sound(t, release_admission(t, s), k)
         /\ Sound(t, clear_invalid_admission_cpu(t, s), k)
         /\ Sound(t, release_if_explicit(t, s, have), k)
         /\ \A b : Sound(t, [s EXCEPT !.x.must = b], k)
         /\ ~s.x.holds => \A c \in Affinity[t] :
               /\ Sound(t, [s EXCEPT !.x.cpu = c], k) /\ ~[s EXCEPT !.x.cpu = c].x.holds
               /\ CanGrant(t, s.owner, c) => Sound(t, Granted(t, [s EXCEPT !.x.cpu = c], c), k)
<1>1. /\ s.x \in CtxRecords /\ s.owner \in [CPUs -> Tasks \cup {None}] /\ s \in Results
      /\ None \notin CPUs /\ None \notin Tasks /\ Affinity[t] \subseteq CPUs
  BY Picks DEF LawfulResults, Results
<1>2. ASSUME NEW r, r.owner = s.owner, r.x.holds = s.x.holds, r.x.cpu = s.x.cpu
      PROVE  Sound(t, r, k)
  BY <1>2 DEF Sound, Faithful, Claimed
<1>3. Sound(t, refresh_slow_path_seen(t, s, have), k)
  <2> DEFINE r == refresh_slow_path_seen(t, s, have)
  <2>1. r.owner = s.owner /\ r.x.holds = s.x.holds /\ r.x.cpu = s.x.cpu
    BY <1>1 DEF refresh_slow_path_seen, Results, CtxRecords
  <2> HIDE DEF r
  <2>2. QED
    BY <1>2, <2>1 DEF r
<1>4. Sound(t, release_admission(t, s), k)
  <2> DEFINE r == release_admission(t, s)
             c == s.x.cpu
  <2>1. /\ r.x.holds = FALSE
        /\ r.owner = IF c # None /\ s.owner[c] = t THEN [s.owner EXCEPT ![c] = None] ELSE s.owner
    BY <1>1 DEF release_admission, CtxRecords
  <2> HIDE DEF r
  <2>2. ASSUME NEW e \in CPUs
        PROVE  /\ r.owner[e] # t
               /\ r.owner[e] = IF s.owner[e] = t THEN None ELSE s.owner[e]
    BY <1>1, <2>1 DEF Sound, Faithful
  <2>3. Faithful(t, r)
    BY <1>1, <2>1, <2>2 DEF Sound, Faithful
  <2>4. Claimed(t, r)
    BY <2>1 DEF Claimed
  <2>5. QED
    BY <2>3, <2>4 DEF Sound, r
<1>5. /\ Sound(t, clear_invalid_admission_cpu(t, s), k)
      /\ Sound(t, release_if_explicit(t, s, have), k)
  BY <1>4 DEF clear_invalid_admission_cpu, release_if_explicit
<1>6. ASSUME NEW b
      PROVE  Sound(t, [s EXCEPT !.x.must = b], k)
  <2> DEFINE r == [s EXCEPT !.x.must = b]
  <2>1. r.owner = s.owner /\ r.x.holds = s.x.holds /\ r.x.cpu = s.x.cpu
    BY <1>1 DEF Results, CtxRecords
  <2> HIDE DEF r
  <2>2. QED
    BY <1>2, <2>1 DEF r
<1>7. ASSUME ~s.x.holds, NEW c \in Affinity[t]
      PROVE  /\ Sound(t, [s EXCEPT !.x.cpu = c], k) /\ ~[s EXCEPT !.x.cpu = c].x.holds
             /\ CanGrant(t, s.owner, c) => Sound(t, Granted(t, [s EXCEPT !.x.cpu = c], c), k)
  <2> DEFINE r == [s EXCEPT !.x.cpu = c]
             g == Granted(t, [s EXCEPT !.x.cpu = c], c)
  <2>1. r.owner = s.owner /\ r.x.holds = FALSE
    BY <1>1, <1>7 DEF Results, CtxRecords
  <2>2. g.owner = [s.owner EXCEPT ![c] = t] /\ g.x.holds = TRUE /\ g.x.cpu = c /\ c \in CPUs
    BY <1>1 DEF Granted, Results
  <2>3. \A e \in CPUs : s.owner[e] # t
    BY <1>7 DEF Sound, Faithful
  <2> HIDE DEF r, g
  <2>4. Sound(t, r, k)
    BY <1>7, <2>1, <2>3 DEF Sound, Faithful, Claimed
  <2>5. ASSUME CanGrant(t, s.owner, c)
        PROVE  Sound(t, g, k)
    <3>1. s.owner[c] = None
      BY <2>2, <2>3, <2>5 DEF CanGrant
    <3>2. owner[c] \in {None, t}
      BY <1>1, <2>2, <3>1 DEF Sound, Faithful
    <3>3. \A e \in CPUs : g.owner[e] = IF e = c THEN t ELSE s.owner[e]
      BY <1>1, <2>2
    <3>4. Faithful(t, g)
      BY <1>1, <2>2, <2>3, <3>2, <3>3 DEF Sound, Faithful
    <3>5. Claimed(t, g)
      BY <2>2, <3>3 DEF Claimed
    <3>6. QED
      BY <3>4, <3>5 DEF Sound
  <2>6. QED
    BY <2>1, <2>4, <2>5 DEF r, g
<1>8. QED
  BY <1>3, <1>4, <1>5, <1>6, <1>7

\* A critical section that holds its CPU stays; another is granted a CPU that
\* has no owner, or goes there without.
LEMMA ProtectsSoundly ==
  ASSUME NEW t \in Tasks, NEW s \in LawfulResults(t), NEW here,
         NEW r \in protect_critical_section(t, s, here)
  PROVE  /\ r \in LawfulResults(t)
         /\ \A k : mask = CPUs /\ Sound(t, s, k) => Sound(t, r, k)
<1> DEFINE found == IF s.x.cpu \in Allowed(t) THEN {s.x.cpu} ELSE pick_allowed_cpu(t, here)
           moved(c) == [s EXCEPT !.x.cpu = c]
           owned(c) == IF ~s.x.holds /\ CanGrant(t, s.owner, c)
                         THEN Granted(t, moved(c), c) ELSE moved(c)
           on(c) == [owned(c) EXCEPT !.x.must = TRUE]
<1>1. found \subseteq Allowed(t) \cup {None} /\ Allowed(t) \subseteq Affinity[t]
  BY Picks
<1>2. r \in {IF c = None THEN s ELSE on(c) : c \in found}
  BY DEF protect_critical_section
<1>3. PICK c \in found : r = IF c = None THEN s ELSE on(c)
  BY <1>2
<1>4. CASE c = None
  BY <1>3, <1>4
<1>5. CASE c # None
  <2>1. c \in Affinity[t] /\ moved(c) \in LawfulResults(t)
    BY <1>1, <1>5, LawfulUpdates
  <2>2. Granted(t, moved(c), c) \in LawfulResults(t)
    BY <2>1, LawfulUpdates
  <2> HIDE DEF found, moved
  <2>3. owned(c) \in LawfulResults(t)
    BY <2>1, <2>2
  <2>4. ASSUME NEW k, mask = CPUs, Sound(t, s, k)
        PROVE  Sound(t, owned(c), k)
    <3>1. CASE s.x.holds
      <4>1. s.x.cpu \in Allowed(t)
        BY <2>4, <3>1, PickedIsAllowed DEF Sound, Faithful, LawfulResults
      <4>2. c = s.x.cpu
        BY <4>1 DEF found
      <4>3. owned(c) = s
        BY <3>1, <4>2 DEF moved, LawfulResults, Results, CtxRecords
      <4>4. QED
        BY <2>4, <4>3
    <3>2. CASE ~s.x.holds
      <4>1. /\ Sound(t, moved(c), k)
            /\ CanGrant(t, s.owner, c) => Sound(t, Granted(t, moved(c), c), k)
        BY <2>1, <2>4, <3>2, SoundUpdates DEF moved
      <4>2. QED
        BY <4>1
    <3>3. QED
      BY <3>1, <3>2
  <2> HIDE DEF owned
  <2>5. on(c) \in LawfulResults(t)
    BY <2>3, LawfulUpdates
  <2>6. \A k : mask = CPUs /\ Sound(t, s, k) => Sound(t, on(c), k)
    BY <2>3, <2>4, SoundUpdates
  <2>7. QED
    BY <1>3, <1>5, <2>5, <2>6
<1>6. QED
  BY <1>4, <1>5

LEMMA StopsSoundly ==
  ASSUME NEW t \in Tasks, NEW x, Start(x) \in LawfulResults(t), NEW runnable, NEW here,
         NEW have \in BOOLEAN, NEW s \in accordin_stopping(t, x, runnable, here, have)
  PROVE  /\ s \in LawfulResults(t)
         /\ \A k : mask = CPUs /\ Sound(t, Start(x), k) => Sound(t, s, k)
<1> DEFINE s1 == refresh_slow_path_seen(t, Start(x), have)
           b == s1.x.must \/ s1.x.holds
<1>1. s1 \in LawfulResults(t) /\ \A k : Sound(t, Start(x), k) => Sound(t, s1, k)
  BY LawfulUpdates, SoundUpdates
<1>2. \/ s = release_admission(t, s1)
      \/ s \in protect_critical_section(t, s1, here)
      \/ s = [s1 EXCEPT !.x.must = @ \/ s1.x.holds]
  BY DEF accordin_stopping
<1> HIDE DEF s1
<1>3. b \in BOOLEAN /\ [s1 EXCEPT !.x.must = @ \/ s1.x.holds] = [s1 EXCEPT !.x.must = b]
  BY <1>1 DEF LawfulResults, Results, CtxRecords
<1> HIDE DEF b
<1>4. CASE s = release_admission(t, s1)
  BY <1>1, <1>4, LawfulUpdates, SoundUpdates
<1>5. CASE s \in protect_critical_section(t, s1, here)
  BY <1>1, <1>5, ProtectsSoundly
<1>6. CASE s = [s1 EXCEPT !.x.must = @ \/ s1.x.holds]
  BY <1>1, <1>3, <1>6, LawfulUpdates, SoundUpdates
<1>7. QED
  BY <1>2, <1>4, <1>5, <1>6

\* An outcome of enqueue: a queue for the task, or an admission CPU on which
\* it is about to be granted or parked.
Posted(t, r) ==
    /\ r.st \in {"queued", "granting", "parking"} /\ r.to \in DsqIds
    /\ r.st = "queued" /\ r.to[1] = "LOCAL" => r.to[2] \in Affinity[t]
    /\ r.st # "queued" => /\ r.s.x # NoCtx /\ r.s.x.cpu \in Affinity[t]
    /\ r.st = "granting" => CanGrant(t, r.s.owner, r.s.x.cpu)

LEMMA PostedTo ==
  ASSUME NEW t \in Tasks, NEW s
  PROVE  /\ Posted(t, To(s, GLOBAL)) /\ Posted(t, To(s, CONTROLLED))
         /\ \A c \in CPUs : Posted(t, To(s, INACTIVE(c)))
         /\ \A c \in Affinity[t] : Posted(t, To(s, LocalDsq(c)))
<1>1. Affinity[t] \subseteq CPUs
  BY Picks
<1>2. QED
  BY <1>1 DEF Posted, To, GLOBAL, CONTROLLED, INACTIVE, LocalDsq, DsqIds

LEMMA EnqueueCtxSoundly ==
  ASSUME NEW t \in Tasks, taskCpu[t] \in Affinity[t], NEW s0 \in LawfulResults(t),
         NEW have \in BOOLEAN, NEW r \in enqueue_ctx(t, s0, have)
  PROVE  /\ r.s \in LawfulResults(t) /\ Posted(t, r)
         /\ \A k : Sound(t, s0, k) => Sound(t, r.s, k) /\ (r.st # "queued" => ~r.s.x.holds)
<1> DEFINE s == release_if_explicit(t,
                  clear_invalid_admission_cpu(t, refresh_slow_path_seen(t, s0, have)), have)
           on(c) == [s EXCEPT !.x.cpu = c]
           stays == s.x.cpu # None /\ (s.x.holds \/ s.x.must)
<1>1. s \in LawfulResults(t) /\ \A k : Sound(t, s0, k) => Sound(t, s, k)
  <2>1. /\ refresh_slow_path_seen(t, s0, have) \in LawfulResults(t)
        /\ \A k : Sound(t, s0, k) => Sound(t, refresh_slow_path_seen(t, s0, have), k)
    BY LawfulUpdates, SoundUpdates
  <2> DEFINE s1 == refresh_slow_path_seen(t, s0, have)
             s2 == clear_invalid_admission_cpu(t, s1)
  <2> HIDE DEF s1
  <2>2. s2 \in LawfulResults(t) /\ \A k : Sound(t, s1, k) => Sound(t, s2, k)
    BY <2>1, LawfulUpdates, SoundUpdates DEF s1
  <2> HIDE DEF s2
  <2>3. /\ release_if_explicit(t, s2, have) \in LawfulResults(t)
        /\ \A k : Sound(t, s2, k) => Sound(t, release_if_explicit(t, s2, have), k)
    BY <2>2, LawfulUpdates, SoundUpdates
  <2>4. QED
    BY <2>1, <2>2, <2>3 DEF s1, s2
<1> HIDE DEF s
<1>2. \A c \in Affinity[t] : on(c) \in LawfulResults(t) /\ on(c).x.cpu = c /\ on(c).owner = s.owner
  <2>1. \A c \in Affinity[t] : on(c) \in LawfulResults(t)
    BY <1>1, LawfulUpdates
  <2>2. \A c \in Affinity[t] : on(c).x.cpu = c /\ on(c).owner = s.owner
    BY <1>1 DEF LawfulResults, Results, CtxRecords
  <2>3. QED
    BY <2>1, <2>2
<1>3. requested_cpu(t, s.x) \subseteq Affinity[t] \cup {None} /\ Affinity[t] \subseteq CPUs
  BY Picks
<1>4. \/ stays /\ r = To(s, LocalDsq(s.x.cpu))
      \/ /\ ~stays /\ slow_path_requested(t, s.x, have)
         /\ r \in {IF c = None THEN To(s, CONTROLLED)
                   ELSE [s |-> on(c), to |-> INACTIVE(c),
                         st |-> IF CanGrant(t, s.owner, c) THEN "granting" ELSE "parking"] :
                   c \in requested_cpu(t, s.x)}
      \/ /\ ~stays
         /\ r \in {To(IF c = None THEN s ELSE on(c), CONTROLLED) : c \in requested_cpu(t, s.x)}
      \/ r = To(s, LocalDsq(pick_task_cpu(t, None)))
      \/ r = To(s, GLOBAL)
  BY DEF enqueue_ctx, s
<1>5. \A k : Sound(t, s, k) /\ ~stays => /\ ~s.x.holds
                                         /\ \A c \in Affinity[t] : Sound(t, on(c), k) /\ ~on(c).x.holds
  <2> SUFFICES ASSUME NEW k, Sound(t, s, k), ~stays
               PROVE  ~s.x.holds /\ \A c \in Affinity[t] : Sound(t, on(c), k) /\ ~on(c).x.holds
    OBVIOUS
  <2>1. ~s.x.holds
    BY DEF Sound, Faithful
  <2>2. QED
    BY <1>1, <2>1, SoundUpdates
<1> HIDE DEF on
<1>6. CASE stays /\ r = To(s, LocalDsq(s.x.cpu))
  <2>1. s.x.cpu \in Affinity[t]
    BY <1>1, <1>6 DEF LawfulResults
  <2>2. Posted(t, r) /\ r.s = s /\ r.st = "queued"
    BY <1>6, <2>1, PostedTo DEF To
  <2>3. QED
    BY <1>1, <2>2
<1>7. CASE /\ ~stays /\ slow_path_requested(t, s.x, have)
           /\ r \in {IF c = None THEN To(s, CONTROLLED)
                     ELSE [s |-> on(c), to |-> INACTIVE(c),
                           st |-> IF CanGrant(t, s.owner, c) THEN "granting" ELSE "parking"] :
                     c \in requested_cpu(t, s.x)}
  <2>1. PICK c \in requested_cpu(t, s.x) :
          r = IF c = None THEN To(s, CONTROLLED)
              ELSE [s |-> on(c), to |-> INACTIVE(c),
                    st |-> IF CanGrant(t, s.owner, c) THEN "granting" ELSE "parking"]
    BY <1>7
  <2>2. CASE c = None
    <3>1. Posted(t, r) /\ r.s = s /\ r.st = "queued"
      BY <2>1, <2>2, PostedTo DEF To
    <3>2. QED
      BY <1>1, <3>1
  <2>3. CASE c # None
    <3>1. c \in Affinity[t] /\ c \in CPUs
      BY <1>3, <2>3
    <3>2. /\ r.s = on(c) /\ r.to = INACTIVE(c)
          /\ r.st = IF CanGrant(t, s.owner, c) THEN "granting" ELSE "parking"
      BY <2>1, <2>3
    <3>3. r.s \in LawfulResults(t) /\ r.s.x.cpu = c /\ r.s.owner = s.owner /\ r.s.x # NoCtx
      BY <1>2, <3>1, <3>2, Contexts DEF LawfulResults, Results
    <3>4. r.to \in DsqIds
      BY <3>1, <3>2 DEF DsqIds
    <3>5. Posted(t, r)
      BY <3>1, <3>2, <3>3, <3>4 DEF Posted
    <3>6. \A k : Sound(t, s0, k) => Sound(t, r.s, k) /\ ~r.s.x.holds
      BY <1>1, <1>5, <1>7, <3>1, <3>2
    <3>7. QED
      BY <3>3, <3>5, <3>6
  <2>4. QED
    BY <2>2, <2>3
<1>8. CASE /\ ~stays
           /\ r \in {To(IF c = None THEN s ELSE on(c), CONTROLLED) : c \in requested_cpu(t, s.x)}
  <2>1. PICK c \in requested_cpu(t, s.x) : r = To(IF c = None THEN s ELSE on(c), CONTROLLED)
    BY <1>8
  <2>2. Posted(t, r) /\ r.s = (IF c = None THEN s ELSE on(c)) /\ r.st = "queued"
    BY <2>1, PostedTo DEF To
  <2>3. c # None => c \in Affinity[t]
    BY <1>3
  <2>4. QED
    BY <1>1, <1>2, <1>5, <1>8, <2>2, <2>3
<1>9. CASE r = To(s, LocalDsq(pick_task_cpu(t, None)))
  <2>1. pick_task_cpu(t, None) \in Affinity[t]
    BY Picks
  <2>2. Posted(t, r) /\ r.s = s /\ r.st = "queued"
    BY <1>9, <2>1, PostedTo DEF To
  <2>3. QED
    BY <1>1, <2>2
<1>10. CASE r = To(s, GLOBAL)
  <2>1. Posted(t, r) /\ r.s = s /\ r.st = "queued"
    BY <1>10, PostedTo DEF To
  <2>2. QED
    BY <1>1, <2>1
<1>11. QED
  BY <1>4, <1>6, <1>7, <1>8, <1>9, <1>10

\* What the reads of a callback may return.
LEMMA Fetches ==
  ASSUME NEW t \in Tasks
  PROVE  /\ HaveUser(t) \subseteq BOOLEAN
         /\ ctx[t] # NoCtx => get_task_ctx(t) = {ctx[t]}
         /\ ctx[t] = NoCtx => get_task_ctx(t) \subseteq {InitCtx, NoCtx}
<1>1. HaveUser(t) \subseteq BOOLEAN
  BY DEF HaveUser
<1>2. QED
  BY <1>1 DEF get_task_ctx

\* Where a task may be, and the queues and CPUs that the kernel has it on.
Distinct(q) ==
    \A d, e \in DsqIds : \A i \in DOMAIN q[d], j \in DOMAIN q[e] :
        q[d][i] = q[e][j] => d = e /\ i = j

Placed(q, f, s) ==
    /\ q \in [DsqIds -> Seq(Tasks)] /\ Distinct(q)
    /\ \A d \in DsqIds : \A i \in DOMAIN q[d] : s[q[d][i]] = "queued"
    /\ \A c \in CPUs : \A i \in DOMAIN q[LocalDsq(c)] : f[q[LocalDsq(c)][i]] = c

Places ==
    /\ Placed(dsq, taskCpu, st)
    /\ \A c \in CPUs : /\ curr[c] # None => st[curr[c]] = "running" /\ taskCpu[curr[c]] = c
                       /\ picking[c] => dsq[LocalDsq(c)] # <<>>
    /\ \A t \in Tasks :
          /\ taskCpu[t] \in Affinity[t]
          /\ ctx[t] # NoCtx => ctx[t].cpu \in Affinity[t] \cup {None}
          /\ st[t] \in {"granting", "parking"} => ctx[t] # NoCtx /\ ctx[t].cpu \in Affinity[t]

\* The owner of a CPU is admitted to it, and an enqueue under way holds none.
Backed ==
    \A t \in Tasks : /\ ctx[t].holds => ctx[t].cpu # None
                     /\ \A c \in CPUs : owner[c] = t => ctx[t].holds /\ ctx[t].cpu = c
                     /\ st[t] \in {"granting", "parking"} => ~ctx[t].holds

Owns(t) == ctx[t].holds => owner[ctx[t].cpu] = t

\* A callback starts with a lawful context, that agrees with the owner map.
LEMMA StartsSoundly ==
  ASSUME TypeOK, Places, NEW t \in Tasks
  PROVE  /\ Start(ctx[t]) \in LawfulOutcomes(t)
         /\ \A x \in get_task_ctx(t) :
               /\ Start(x) \in LawfulOutcomes(t)
               /\ x # NoCtx => Start(x) \in LawfulResults(t)
               /\ x = NoCtx => ctx[t] = NoCtx
               /\ Backed => \A k : (k => Owns(t)) => Sound(t, Start(x), k)
         /\ Backed => \A k : (k => Owns(t)) => Sound(t, Start(ctx[t]), k)
<1>1. /\ ctx[t] \in CtxRecords \cup {NoCtx} /\ owner \in [CPUs -> Tasks \cup {None}]
      /\ ctx[t] # NoCtx => ctx[t].cpu \in Affinity[t] \cup {None}
  BY DEF TypeOK, Places
<1>2. \A x : Start(x).x = x /\ Start(x).owner = owner
  BY DEF Start
<1>3. \A x \in CtxRecords \cup {NoCtx} :
        /\ Start(x) \in Outcomes
        /\ x # NoCtx => Start(x) \in Results
  BY <1>1 DEF Start, Outcomes, Results
<1>4. InitCtx.cpu = None /\ ~InitCtx.holds /\ ~NoCtx.holds
  BY DEF InitCtx, NoCtx
<1>5. \A x \in {ctx[t], InitCtx, NoCtx} : /\ Start(x) \in LawfulOutcomes(t)
                                          /\ x # NoCtx => Start(x) \in LawfulResults(t)
  BY <1>1, <1>2, <1>3, <1>4, Contexts DEF LawfulOutcomes, LawfulResults
<1>6. ASSUME Backed, NEW k, k => Owns(t)
      PROVE  Sound(t, Start(ctx[t]), k)
  <2>1. Faithful(t, Start(ctx[t]))
    BY <1>1, <1>2, <1>6 DEF Faithful, Backed
  <2>2. Owns(t) => Claimed(t, Start(ctx[t]))
    BY <1>2 DEF Owns, Claimed
  <2>3. QED
    BY <1>6, <2>1, <2>2 DEF Sound
<1>7. ASSUME Backed, NEW k, ctx[t] = NoCtx, NEW x \in {InitCtx, NoCtx}
      PROVE  Sound(t, Start(x), k)
  <2>1. Faithful(t, Start(x))
    BY <1>2, <1>4, <1>7 DEF Faithful, Backed
  <2>2. Claimed(t, Start(x))
    BY <1>2, <1>4, <1>7 DEF Claimed
  <2>3. QED
    BY <2>1, <2>2 DEF Sound
<1>8. ASSUME NEW x \in get_task_ctx(t)
      PROVE  /\ x = NoCtx => ctx[t] = NoCtx
             /\ x \in {ctx[t], InitCtx, NoCtx}
             /\ Backed => \A k : (k => Owns(t)) => Sound(t, Start(x), k)
  BY <1>6, <1>7, Fetches
<1>9. QED
  BY <1>5, <1>6, <1>8

LEMMA EnqueuesSoundly ==
  ASSUME TypeOK, Places, NEW t \in Tasks, NEW s \in LawfulOutcomes(t),
         s.x = NoCtx => ctx[t] = NoCtx, NEW r \in accordin_enqueue(t, s)
  PROVE  /\ r.s \in LawfulOutcomes(t) /\ Posted(t, r)
         /\ \A k : Sound(t, s, k) => Sound(t, r.s, k) /\ (r.st # "queued" => ~r.s.x.holds)
<1>1. taskCpu[t] \in Affinity[t]
  BY DEF Places
<1>2. CASE stats_only
  <2>1. r \in enqueue_stats_only(t, s)
    BY <1>2 DEF accordin_enqueue
  <2>2. pick_allowed_cpu(t, None) \subseteq Affinity[t] \cup {None}
    BY Picks
  <2>3. r = To(s, GLOBAL) \/ \E c \in Affinity[t] : r = To(s, LocalDsq(c))
    BY <2>1, <2>2 DEF enqueue_stats_only
  <2>4. Posted(t, r)
    BY <2>3, PostedTo
  <2>5. r.s = s /\ r.st = "queued"
    BY <2>3 DEF To
  <2>6. QED
    BY <2>4, <2>5
<1>3. CASE stats_only = FALSE
  <2> DEFINE xs == IF s.x = NoCtx THEN get_task_ctx(t) ELSE {s.x}
  <2>1. r \in UNION {IF x = NoCtx THEN {To(s, GLOBAL)}
                     ELSE UNION {enqueue_ctx(t, [s EXCEPT !.x = x], have) : have \in HaveUser(t)} :
                     x \in xs}
    BY <1>3 DEF accordin_enqueue
  <2>2. PICK x \in xs :
          r \in IF x = NoCtx THEN {To(s, GLOBAL)}
                ELSE UNION {enqueue_ctx(t, [s EXCEPT !.x = x], have) : have \in HaveUser(t)}
    BY <2>1
  <2>3. CASE x = NoCtx
    <3>1. r = To(s, GLOBAL)
      BY <2>2, <2>3
    <3>2. Posted(t, r) /\ r.s = s /\ r.st = "queued"
      BY <3>1, PostedTo DEF To
    <3>3. QED
      BY <3>2
  <2>4. CASE x # NoCtx
    <3> DEFINE s0 == [s EXCEPT !.x = x]
    <3>1. s \in Outcomes
      BY DEF LawfulOutcomes, LawfulResults, Outcomes, Results
    <3>2. s0.x = x /\ s0.owner = s.owner /\ s0.kick = s.kick
      BY <3>1 DEF Outcomes
    <3>3. s.x = NoCtx => x = InitCtx
      BY <2>4, Fetches
    <3>4. s.x # NoCtx => s0 = s /\ s \in LawfulResults(t)
      BY <3>1 DEF Outcomes, LawfulOutcomes
    <3>5. InitCtx.cpu = None /\ ~InitCtx.holds /\ ~NoCtx.holds
      BY DEF InitCtx, NoCtx
    <3>6. s.x = NoCtx => s0 \in LawfulResults(t)
      BY <3>1, <3>3, <3>5, Contexts DEF Outcomes, Results, LawfulResults
    <3>7. \A k : s.x = NoCtx /\ Sound(t, s, k) => Sound(t, s0, k)
      <4> HIDE DEF s0
      <4>1. QED
        BY <3>2, <3>3, <3>5 DEF Sound, Faithful, Claimed
    <3> HIDE DEF s0
    <3>8. PICK have \in HaveUser(t) : r \in enqueue_ctx(t, s0, have)
      BY <2>2, <2>4 DEF s0
    <3>9. have \in BOOLEAN /\ s0 \in LawfulResults(t)
      BY <3>4, <3>6, Fetches
    <3>10. /\ r.s \in LawfulResults(t) /\ Posted(t, r)
           /\ \A k : Sound(t, s0, k) => Sound(t, r.s, k) /\ (r.st # "queued" => ~r.s.x.holds)
      BY <1>1, <3>8, <3>9, EnqueueCtxSoundly
    <3>11. \A k : Sound(t, s, k) => Sound(t, s0, k)
      BY <3>4, <3>7
    <3>12. QED
      BY <3>10, <3>11 DEF LawfulOutcomes
  <2>5. QED
    BY <2>3, <2>4
<1>4. QED
  BY <1>2, <1>3 DEF TypeOK

\* running and tick only refresh the context, and may release.
LEMMA RefreshesSoundly ==
  ASSUME TypeOK, Places, NEW t \in Tasks, NEW c, Refresh(t, c)
  PROVE  \E s \in LawfulOutcomes(t) :
            /\ ctx' = [ctx EXCEPT ![t] = s.x] /\ owner' = s.owner /\ Kick(s.kick)
            /\ ctx[t] # NoCtx => s.x # NoCtx
            /\ \A e \in CPUs : s.owner[e] \in {None, owner[e]}
            /\ Backed => \A k : (k => Owns(t)) => Sound(t, s, k)
<1>1. PICK x \in IF stats_only THEN {NoCtx} ELSE get_task_ctx(t), have \in HaveUser(t) :
        LET s == IF x = NoCtx THEN Start(ctx[t]) ELSE refresh_running_state(t, x, c, have) IN
        ctx' = [ctx EXCEPT ![t] = s.x] /\ owner' = s.owner /\ Kick(s.kick)
  BY DEF Refresh
<1>2. have \in BOOLEAN /\ owner \in [CPUs -> Tasks \cup {None}]
  BY Fetches DEF TypeOK
<1>3. CASE x = NoCtx
  <2>1. /\ ctx' = [ctx EXCEPT ![t] = Start(ctx[t]).x] /\ owner' = Start(ctx[t]).owner
        /\ Kick(Start(ctx[t]).kick)
    BY <1>1, <1>3
  <2>2. Start(ctx[t]).x = ctx[t] /\ Start(ctx[t]).owner = owner
    BY DEF Start
  <2>3. QED
    BY <2>1, <2>2, StartsSoundly
<1>4. CASE x # NoCtx
  <2> DEFINE s1 == refresh_slow_path_seen(t, Start(x), have)
             s == refresh_running_state(t, x, c, have)
             b == s1.x.must /\ s1.x.cpu # c
  <2>1. x \in get_task_ctx(t)
    BY <1>1, <1>4
  <2>2. /\ Start(x) \in LawfulResults(t)
        /\ Backed => \A k : (k => Owns(t)) => Sound(t, Start(x), k)
    BY <1>4, <2>1, StartsSoundly
  <2>3. s1 \in LawfulResults(t) /\ \A k : Sound(t, Start(x), k) => Sound(t, s1, k)
    BY <1>2, <2>2, LawfulUpdates, SoundUpdates
  <2>4. s1.owner = owner
    BY DEF refresh_slow_path_seen, Start
  <2>5. s = IF should_release_from_user(t, s1.x, have) THEN release_admission(t, s1)
            ELSE [s1 EXCEPT !.x.must = @ /\ s1.x.cpu # c]
    BY DEF refresh_running_state
  <2>6. ctx' = [ctx EXCEPT ![t] = s.x] /\ owner' = s.owner /\ Kick(s.kick)
    BY <1>1, <1>4
  <2> HIDE DEF s1, s
  <2>7. b \in BOOLEAN /\ [s1 EXCEPT !.x.must = @ /\ s1.x.cpu # c] = [s1 EXCEPT !.x.must = b]
    BY <2>3 DEF LawfulResults, Results, CtxRecords
  <2>8. \A e \in CPUs : s.owner[e] \in {None, owner[e]}
    BY <1>2, <2>4, <2>5 DEF release_admission
  <2> HIDE DEF b
  <2>9. s \in LawfulResults(t) /\ \A k : Sound(t, s1, k) => Sound(t, s, k)
    BY <1>2, <2>3, <2>5, <2>7, LawfulUpdates, SoundUpdates
  <2>10. s.x # NoCtx /\ s \in LawfulOutcomes(t)
    BY <2>9, Contexts DEF LawfulOutcomes, LawfulResults, Results
  <2>11. Backed => \A k : (k => Owns(t)) => Sound(t, s, k)
    BY <2>2, <2>3, <2>9
  <2>12. QED
    BY <2>6, <2>8, <2>10, <2>11
<1>5. QED
  BY <1>3, <1>4

\* A woken task is sent to a CPU that it may use.
LEMMA SelectsSoundly ==
  ASSUME TypeOK, Places, NEW t \in Tasks, NEW r \in WakeTargets(t)
  PROVE  /\ r.s \in LawfulOutcomes(t) /\ r.cpu \in Affinity[t] /\ r.direct \in BOOLEAN
         /\ Backed => \A k : (k => Owns(t)) => Sound(t, r.s, k)
<1>1. /\ taskCpu[t] \in Affinity[t] /\ Start(ctx[t]) \in LawfulOutcomes(t)
      /\ Backed => \A k : (k => Owns(t)) => Sound(t, Start(ctx[t]), k)
      /\ stats_only \in BOOLEAN
      /\ \A a : active_or_any(t, a) \subseteq Affinity[t]
  BY StartsSoundly, Picks DEF Places, TypeOK
<1>2. ASSUME NEW d \in select_cpu_dfl(t)
      PROVE  d[1] \in Affinity[t] /\ d[2] \in BOOLEAN
  <2>1. (\E c \in Affinity[t] : d = <<c, TRUE>>) \/ d = <<taskCpu[t], FALSE>>
    BY DEF select_cpu_dfl
  <2>2. CASE d = <<taskCpu[t], FALSE>>
    BY <1>1, <2>2
  <2>3. ASSUME NEW c \in Affinity[t], d = <<c, TRUE>>
        PROVE  d[1] \in Affinity[t] /\ d[2] \in BOOLEAN
    BY <2>3
  <2>4. QED
    BY <2>1, <2>2, <2>3
<1>3. CASE Cardinality(Affinity[t]) = 1
  <2>1. PICK c \in Affinity[t] : r = [s |-> Start(ctx[t]), cpu |-> c, direct |-> FALSE]
    BY <1>3 DEF WakeTargets
  <2>2. r.s = Start(ctx[t]) /\ r.cpu = c /\ r.direct = FALSE
    BY <2>1
  <2>3. QED
    BY <1>1, <2>2
<1>4. CASE Cardinality(Affinity[t]) # 1 /\ stats_only = TRUE
  <2>1. r \in select_cpu_stats_only(t)
    BY <1>4 DEF WakeTargets, accordin_select_cpu
  <2>2. PICK d \in select_cpu_dfl(t) : \E c \in active_or_any(t, d[1]) :
          r = [s |-> Start(ctx[t]), cpu |-> c, direct |-> d[2] /\ c = d[1] /\ c \in Allowed(t)]
    BY <2>1 DEF select_cpu_stats_only
  <2> PICK c \in active_or_any(t, d[1]) :
        r = [s |-> Start(ctx[t]), cpu |-> c, direct |-> d[2] /\ c = d[1] /\ c \in Allowed(t)]
    BY <2>2
  <2>3. r.s = Start(ctx[t]) /\ r.cpu = c /\ r.direct = (d[2] /\ c = d[1] /\ c \in Allowed(t))
    BY <2>2
  <2>4. c \in Affinity[t] /\ r.direct \in BOOLEAN
    BY <1>1, <1>2, <2>3
  <2>5. QED
    BY <1>1, <1>4, <2>3, <2>4
<1>5. CASE Cardinality(Affinity[t]) # 1 /\ stats_only = FALSE
  <2>1. r \in UNION {IF x = NoCtx
                  THEN {[s |-> Start(NoCtx), cpu |-> d[1], direct |-> d[2]] : d \in select_cpu_dfl(t)}
                  ELSE UNION {select_cpu_ctx(t, x, have) : have \in HaveUser(t)} :
                x \in get_task_ctx(t)}
    BY <1>5 DEF WakeTargets, accordin_select_cpu
  <2>2. PICK x \in get_task_ctx(t) :
          r \in IF x = NoCtx
                THEN {[s |-> Start(NoCtx), cpu |-> d[1], direct |-> d[2]] : d \in select_cpu_dfl(t)}
                ELSE UNION {select_cpu_ctx(t, x, have) : have \in HaveUser(t)}
    BY <2>1
  <2>3. CASE x = NoCtx
    <3>1. PICK d \in select_cpu_dfl(t) : r = [s |-> Start(NoCtx), cpu |-> d[1], direct |-> d[2]]
      BY <2>2, <2>3
    <3>2. r.s = Start(x) /\ r.cpu = d[1] /\ r.direct = d[2]
      BY <2>3, <3>1
    <3>3. QED
      BY <1>2, <1>5, <3>2, StartsSoundly
  <2>4. CASE x # NoCtx
    <3>1. PICK have \in HaveUser(t) : r \in select_cpu_ctx(t, x, have)
      BY <2>2, <2>4
    <3> DEFINE prev == taskCpu[t]
               s1 == refresh_slow_path_seen(t, Start(x), have)
               s == clear_invalid_admission_cpu(t, s1)
               wants == slow_path_requested(t, s.x, have)
               on(c) == IF c \in Allowed(t) THEN [s EXCEPT !.x.cpu = c] ELSE s
               stays == s.x.cpu # None /\ (s.x.holds \/ s.x.must)
    <3>2. s \in LawfulResults(t) /\ \A k : Sound(t, Start(x), k) => Sound(t, s, k)
      <4>1. have \in BOOLEAN /\ Start(x) \in LawfulResults(t)
        BY <2>4, Fetches, StartsSoundly
      <4>2. s1 \in LawfulResults(t) /\ \A k : Sound(t, Start(x), k) => Sound(t, s1, k)
        BY <4>1, LawfulUpdates, SoundUpdates
      <4> HIDE DEF s1
      <4>3. QED
        BY <4>1, <4>2, LawfulUpdates, SoundUpdates
    <3>3. \/ /\ stays /\ r = [s |-> s, cpu |-> s.x.cpu, direct |-> FALSE]
          \/ /\ ~stays /\ prev \in Allowed(t)
             /\ r = [s |-> on(prev), cpu |-> prev, direct |-> FALSE]
          \/ /\ ~stays /\ r = [s |-> s, cpu |-> prev, direct |-> FALSE]
          \/ /\ ~stays
             /\ r \in {[s |-> on(c), cpu |-> c, direct |-> FALSE] :
                         c \in UNION {active_or_any(t, d[1]) : d \in select_cpu_dfl(t)}}
          \/ r \in {[s |-> s, cpu |-> d[1], direct |-> d[2]] : d \in select_cpu_dfl(t)}
      BY <3>1 DEF select_cpu_ctx
    <3> HIDE DEF s
    <3>4. \A c : on(c) \in LawfulResults(t)
      BY <3>2, Picks, LawfulUpdates
    <3>5. \A k : Sound(t, s, k) /\ ~stays => \A c : Sound(t, on(c), k)
      <4> SUFFICES ASSUME NEW k, Sound(t, s, k), ~stays, NEW c \in Allowed(t)
                   PROVE  Sound(t, [s EXCEPT !.x.cpu = c], k)
        OBVIOUS
      <4>1. ~s.x.holds
        BY DEF Sound, Faithful
      <4>2. c \in Affinity[t]
        BY Picks
      <4>3. QED
        BY <3>2, <4>1, <4>2, SoundUpdates
    <3>6. s.x.cpu \in Affinity[t] \cup {None}
      BY <3>2 DEF LawfulResults
    <3> HIDE DEF on
    <3>7. /\ r.s = s \/ (~stays /\ \E c : r.s = on(c))
          /\ r.cpu \in Affinity[t] /\ r.direct \in BOOLEAN
      <4>1. CASE stays /\ r = [s |-> s, cpu |-> s.x.cpu, direct |-> FALSE]
        BY <3>6, <4>1
      <4>2. CASE ~stays /\ r = [s |-> on(prev), cpu |-> prev, direct |-> FALSE]
        BY <1>1, <4>2
      <4>3. CASE r = [s |-> s, cpu |-> prev, direct |-> FALSE]
        BY <1>1, <4>3
      <4>4. CASE /\ ~stays
                 /\ r \in {[s |-> on(c), cpu |-> c, direct |-> FALSE] :
                             c \in UNION {active_or_any(t, d[1]) : d \in select_cpu_dfl(t)}}
        <5>1. PICK c \in UNION {active_or_any(t, d[1]) : d \in select_cpu_dfl(t)} :
                r = [s |-> on(c), cpu |-> c, direct |-> FALSE]
          BY <4>4
        <5>2. QED
          BY <1>1, <4>4, <5>1
      <4>5. CASE r \in {[s |-> s, cpu |-> d[1], direct |-> d[2]] : d \in select_cpu_dfl(t)}
        BY <1>2, <4>5
      <4>6. QED
        BY <3>3, <4>1, <4>2, <4>3, <4>4, <4>5
    <3> HIDE DEF stays
    <3>8. Backed => \A k : (k => Owns(t)) => Sound(t, Start(x), k)
      BY StartsSoundly
    <3>9. QED
      BY <1>5, <3>2, <3>4, <3>5, <3>7, <3>8 DEF LawfulOutcomes
  <2>5. QED
    BY <2>3, <2>4
<1>6. QED
  BY <1>1, <1>3, <1>4, <1>5

----------------------------------------------------------------------------
(* Every task is in at most one place.                                     *)

\* Only a task that a queue says is queued may be found there.
LEMMA NotQueued ==
  ASSUME NEW q, NEW f, NEW s, Placed(q, f, s), NEW t, s[t] # "queued"
  PROVE  \A d \in DsqIds : \A i \in DOMAIN q[d] : q[d][i] # t
BY DEF Placed

\* A task that is in no queue may change its state and its CPU.
LEMMA PlacedElsewhere ==
  ASSUME NEW q, NEW f, NEW s, Placed(q, f, s), NEW t, s[t] # "queued", NEW f1, NEW s1,
         f1 \in [Tasks -> CPUs], s1 \in [Tasks -> States],
         \A u \in Tasks : u # t => f1[u] = f[u] /\ s1[u] = s[u]
  PROVE  Placed(q, f1, s1)
<1>1. q \in [DsqIds -> Seq(Tasks)] /\ Distinct(q)
  BY DEF Placed
<1>2. \A d \in DsqIds : \A i \in DOMAIN q[d] : q[d][i] \in Tasks /\ q[d][i] # t
  <2> SUFFICES ASSUME NEW d \in DsqIds, NEW i \in DOMAIN q[d]
               PROVE  q[d][i] \in Tasks /\ q[d][i] # t
    OBVIOUS
  <2>1. q[d] \in Seq(Tasks) /\ DOMAIN q[d] = 1..Len(q[d])
    BY <1>1, LenProperties
  <2>2. QED
    BY <2>1, NotQueued, ElementOfSeq
<1>3. \A c \in CPUs : LocalDsq(c) \in DsqIds
  BY DEF DsqIds
<1>4. QED
  BY <1>1, <1>2, <1>3 DEF Placed

\* A task that is in no queue joins one.
LEMMA PlacedAtEnd ==
  ASSUME NEW q, NEW f, NEW s, Placed(q, f, s), NEW t \in Tasks, s[t] # "queued",
         s \in [Tasks -> States], f \in [Tasks -> CPUs],
         NEW d \in DsqIds, d[1] = "LOCAL" => d[2] \in CPUs
  PROVE  Placed([q EXCEPT ![d] = Append(@, t)],
                IF d[1] = "LOCAL" THEN [f EXCEPT ![t] = d[2]] ELSE f,
                [s EXCEPT ![t] = "queued"])
<1> DEFINE n == [q EXCEPT ![d] = Append(@, t)]
           f1 == IF d[1] = "LOCAL" THEN [f EXCEPT ![t] = d[2]] ELSE f
           s1 == [s EXCEPT ![t] = "queued"]
           L == Len(q[d]) + 1
<1>1. /\ q \in [DsqIds -> Seq(Tasks)] /\ Distinct(q)
      /\ \A e \in DsqIds : DOMAIN q[e] = 1..Len(q[e]) /\ Len(q[e]) \in Nat
  BY LenProperties DEF Placed
<1>2. f1 \in [Tasks -> CPUs] /\ s1 \in [Tasks -> States] /\ s1[t] = "queued"
      /\ \A u \in Tasks : u # t => f1[u] = f[u] /\ s1[u] = s[u]
  BY DEF States
<1>3. Placed(q, f1, s1)
  <2> HIDE DEF f1, s1
  <2>1. QED
    BY <1>2, PlacedElsewhere
<1>4. n[d] \in Seq(Tasks) /\ DOMAIN n[d] = 1..L /\ n[d][L] = t
      /\ \A i \in 1..Len(q[d]) : n[d][i] = q[d][i]
  <2>1. q[d] \in Seq(Tasks) /\ n[d] = Append(q[d], t)
    BY <1>1
  <2>2. QED
    BY <2>1, AppendProperties, LenProperties
<1>5. \A e \in DsqIds : e # d => n[e] = q[e]
  BY <1>1
<1>6. n \in [DsqIds -> Seq(Tasks)]
  BY <1>1, <1>4, <1>5
<1> HIDE DEF n, f1, s1
<1>7. \A e \in DsqIds : \A i \in DOMAIN n[e] :
        \/ i \in DOMAIN q[e] /\ n[e][i] = q[e][i] /\ n[e][i] # t
        \/ e = d /\ i = L /\ n[e][i] = t
  <2> SUFFICES ASSUME NEW e \in DsqIds, NEW i \in DOMAIN n[e]
               PROVE  \/ i \in DOMAIN q[e] /\ n[e][i] = q[e][i] /\ n[e][i] # t
                      \/ e = d /\ i = L /\ n[e][i] = t
    OBVIOUS
  <2>1. CASE e = d
    <3>1. i \in 1..Len(q[d]) \/ i = L
      BY <1>1, <1>4, <2>1
    <3>2. QED
      BY <1>1, <1>4, <2>1, <3>1, NotQueued
  <2>2. CASE e # d
    BY <1>5, <2>2, NotQueued
  <2>3. QED
    BY <2>1, <2>2
<1>8. Distinct(n)
  <2> SUFFICES ASSUME NEW a \in DsqIds, NEW e \in DsqIds, NEW i \in DOMAIN n[a], NEW j \in DOMAIN n[e],
                      n[a][i] = n[e][j]
               PROVE  a = e /\ i = j
    BY DEF Distinct
  <2>1. \/ i \in DOMAIN q[a] /\ n[a][i] = q[a][i] /\ n[a][i] # t
        \/ a = d /\ i = L /\ n[a][i] = t
    BY <1>7
  <2>2. \/ j \in DOMAIN q[e] /\ n[e][j] = q[e][j] /\ n[e][j] # t
        \/ e = d /\ j = L /\ n[e][j] = t
    BY <1>7
  <2>3. QED
    BY <1>1, <2>1, <2>2 DEF Distinct
<1>9. ASSUME NEW e \in DsqIds, NEW i \in DOMAIN n[e]
      PROVE  s1[n[e][i]] = "queued"
  <2>1. n[e][i] = t \/ (i \in DOMAIN q[e] /\ n[e][i] = q[e][i])
    BY <1>7
  <2>2. QED
    BY <1>2, <1>3, <2>1 DEF Placed
<1>10. \A c \in CPUs : \A i \in DOMAIN n[LocalDsq(c)] : f1[n[LocalDsq(c)][i]] = c
  <2> SUFFICES ASSUME NEW c \in CPUs, NEW i \in DOMAIN n[LocalDsq(c)]
               PROVE  f1[n[LocalDsq(c)][i]] = c
    OBVIOUS
  <2>1. LocalDsq(c) \in DsqIds /\ LocalDsq(c)[1] = "LOCAL" /\ LocalDsq(c)[2] = c
    BY DEF DsqIds, LocalDsq
  <2>2. CASE i \in DOMAIN q[LocalDsq(c)] /\ n[LocalDsq(c)][i] = q[LocalDsq(c)][i]
    BY <1>3, <2>1, <2>2 DEF Placed
  <2>3. CASE LocalDsq(c) = d /\ n[LocalDsq(c)][i] = t
    BY <2>1, <2>3 DEF f1
  <2>4. QED
    BY <1>7, <2>1, <2>2, <2>3
<1>11. QED
  BY <1>6, <1>8, <1>9, <1>10 DEF Placed, n, f1, s1

\* A queue without its element at i.
LEMMA Removed ==
  ASSUME NEW s \in Seq(Tasks), NEW i \in 1..Len(s)
  PROVE  /\ RemoveAt(s, i) \in Seq(Tasks) /\ DOMAIN RemoveAt(s, i) = 1..(Len(s) - 1)
         /\ \A j \in 1..(Len(s) - 1) : RemoveAt(s, i)[j] = s[IF j < i THEN j ELSE j + 1]
<1> DEFINE a == SubSeq(s, 1, i - 1)
           b == SubSeq(s, i + 1, Len(s))
           n == Len(s)
<1>1. n \in Nat /\ i \in 1..n
  BY LenProperties
<1>2. a \in Seq(Tasks) /\ Len(a) = i - 1 /\ \A j \in 1..(i - 1) : a[j] = s[j]
  <2>1. /\ \A j \in 1..(i - 1) : j \in 1..n
        /\ 1 <= i - 1 + 1
    BY <1>1
  <2>2. QED
    BY <1>1, <2>1, SubSeqProperties
<1>3. b \in Seq(Tasks) /\ Len(b) = n - i /\ \A j \in 1..(n - i) : b[j] = s[j + i]
  BY <1>1, SubSeqProperties
<1> HIDE DEF a, b, n
<1>4. /\ a \o b \in Seq(Tasks) /\ Len(a \o b) = n - 1
      /\ \A j \in 1..(n - 1) : (a \o b)[j] = IF j <= Len(a) THEN a[j] ELSE b[j - Len(a)]
  <2>1. /\ a \o b \in Seq(Tasks) /\ Len(a \o b) = Len(a) + Len(b)
        /\ \A j \in 1..(Len(a) + Len(b)) :
              (a \o b)[j] = IF j <= Len(a) THEN a[j] ELSE b[j - Len(a)]
    BY <1>2, <1>3, ConcatProperties
  <2>2. Len(a) + Len(b) = n - 1
    BY <1>1, <1>2, <1>3
  <2>3. QED
    BY <2>1, <2>2
<1>5. ASSUME NEW j \in 1..(n - 1)
      PROVE  (a \o b)[j] = s[IF j < i THEN j ELSE j + 1]
  <2>1. CASE j < i
    BY <1>1, <1>2, <1>4, <2>1
  <2>2. CASE ~(j < i)
    <3>1. j - (i - 1) \in 1..(n - i) /\ (j - (i - 1)) + i = j + 1
      BY <1>1, <2>2
    <3>2. QED
      BY <1>1, <1>2, <1>3, <1>4, <2>2, <3>1
  <2>3. QED
    BY <2>1, <2>2
<1>6. RemoveAt(s, i) = a \o b
  BY DEF RemoveAt, a, b
<1>7. QED
  BY <1>4, <1>5, <1>6, LenProperties DEF n

\* Queues whose elements come, each from a place of its own, from queues in
\* which every task is at most once: I[e][j] of D[e][j] is that place.
ComesFrom(n, q, D, I) ==
    /\ \A e \in DsqIds : \A j \in DOMAIN n[e] :
          /\ D[e][j] \in DsqIds /\ I[e][j] \in DOMAIN q[D[e][j]]
          /\ n[e][j] = q[D[e][j]][I[e][j]]
    /\ \A d, e \in DsqIds : \A i \in DOMAIN n[d], j \in DOMAIN n[e] :
          D[d][i] = D[e][j] /\ I[d][i] = I[e][j] => d = e /\ i = j

LEMMA Rearranged ==
  ASSUME NEW q, Distinct(q), NEW n, NEW D, NEW I, ComesFrom(n, q, D, I)
  PROVE  Distinct(n)
<1> SUFFICES ASSUME NEW d \in DsqIds, NEW e \in DsqIds, NEW i \in DOMAIN n[d], NEW j \in DOMAIN n[e],
                    n[d][i] = n[e][j]
             PROVE  d = e /\ i = j
  BY DEF Distinct
<1>1. q[D[d][i]][I[d][i]] = q[D[e][j]][I[e][j]]
  BY DEF ComesFrom
<1>2. D[d][i] = D[e][j] /\ I[d][i] = I[e][j]
  BY <1>1 DEF Distinct, ComesFrom
<1>3. QED
  BY <1>2 DEF ComesFrom

\* The task that is moved was queued, and its CPU is now the one that took it.
LEMMA PlacedBalanced ==
  ASSUME TypeOK, Places, NEW c \in CPUs, NEW own
  PROVE  LET b == Balanced(c, own) IN
         /\ Placed(b.dsq, OnCpu(b.task, c), st)
         /\ OnCpu(b.task, c) \in [Tasks -> CPUs]
         /\ \A u \in Tasks : /\ OnCpu(b.task, c)[u] \in Affinity[u]
                             /\ st[u] # "queued" => OnCpu(b.task, c)[u] = taskCpu[u]
         /\ \A e \in CPUs : dsq[LocalDsq(e)] # <<>> => b.dsq[LocalDsq(e)] # <<>>
<1> DEFINE b == Balanced(c, own)
           l == LocalDsq(c)
<1>1. /\ dsq \in [DsqIds -> Seq(Tasks)] /\ taskCpu \in [Tasks -> CPUs]
      /\ Placed(dsq, taskCpu, st) /\ \A u \in Tasks : taskCpu[u] \in Affinity[u]
      /\ Distinct(dsq)
  BY DEF TypeOK, Places, Placed
<1>2. CASE b = [dsq |-> dsq, task |-> None]
  <2>1. b.dsq = dsq /\ OnCpu(b.task, c) = taskCpu
    BY <1>2 DEF OnCpu
  <2>2. QED
    BY <1>1, <2>1
<1>3. ASSUME NEW d \in Shared, NEW k \in DOMAIN dsq[d],
             dsq[l] = <<>>, c \in Affinity[dsq[d][k]],
             b = [dsq  |-> [dsq EXCEPT ![d] = RemoveAt(@, k), ![l] = <<dsq[d][k]>>],
                  task |-> dsq[d][k]]
      PROVE  /\ Placed(b.dsq, OnCpu(b.task, c), st)
             /\ OnCpu(b.task, c) \in [Tasks -> CPUs]
             /\ \A u \in Tasks : /\ OnCpu(b.task, c)[u] \in Affinity[u]
                                 /\ st[u] # "queued" => OnCpu(b.task, c)[u] = taskCpu[u]
             /\ \A e \in CPUs : dsq[LocalDsq(e)] # <<>> => b.dsq[LocalDsq(e)] # <<>>
  <2> DEFINE n == b.dsq
             t == dsq[d][k]
             f == OnCpu(b.task, c)
  <2>1. /\ d \in DsqIds /\ l \in DsqIds /\ d # l /\ d[1] # "LOCAL"
        /\ l[1] = "LOCAL" /\ l[2] = c
    BY Ids
  <2>2. /\ dsq[d] \in Seq(Tasks) /\ DOMAIN dsq[d] = 1..Len(dsq[d]) /\ Len(dsq[d]) \in Nat
        /\ k \in 1..Len(dsq[d])
    BY <1>1, <2>1, LenProperties
  <2>3. t \in Tasks /\ t # None
    BY <2>2, ElementOfSeq, ConstantsAssumption
  <2>4. /\ n = [dsq EXCEPT ![d] = RemoveAt(@, k), ![l] = <<t>>]
        /\ f = [taskCpu EXCEPT ![t] = c]
    BY <1>3, <2>3 DEF OnCpu
  <2>5. /\ n[d] = RemoveAt(dsq[d], k) /\ n[l] = <<t>>
        /\ \A e \in DsqIds : e # d /\ e # l => n[e] = dsq[e]
    BY <1>1, <2>1, <2>4
  <2>6. /\ n[d] \in Seq(Tasks) /\ DOMAIN n[d] = 1..(Len(dsq[d]) - 1)
        /\ \A j \in 1..(Len(dsq[d]) - 1) : n[d][j] = dsq[d][IF j < k THEN j ELSE j + 1]
    BY <2>2, <2>5, Removed
  <2>7. n[l] \in Seq(Tasks) /\ n[l] # <<>> /\ DOMAIN n[l] = {1} /\ n[l][1] = t
    <3>1. DOMAIN <<t>> = 1..1 /\ 1..1 = {1}
      OBVIOUS
    <3>2. QED
      BY <2>3, <2>5, <3>1
  <2>8. n \in [DsqIds -> Seq(Tasks)]
    BY <1>1, <2>4, <2>5, <2>6, <2>7
  <2> HIDE DEF n, f, t, b, l
  <2>9. Distinct(n)
    <3> DEFINE Dt == [e \in DsqIds |-> [j \in Nat |-> IF e = l THEN d ELSE e]]
               It == [e \in DsqIds |-> [j \in Nat |->
                         IF e = l THEN k ELSE IF e = d /\ ~(j < k) THEN j + 1 ELSE j]]
    <3>1. ASSUME NEW e \in DsqIds, NEW j \in DOMAIN n[e]
          PROVE  /\ j \in Nat
                 /\ Dt[e][j] = IF e = l THEN d ELSE e
                 /\ It[e][j] = IF e = l THEN k ELSE IF e = d /\ ~(j < k) THEN j + 1 ELSE j
                 /\ Dt[e][j] \in DsqIds /\ It[e][j] \in DOMAIN dsq[Dt[e][j]]
                 /\ n[e][j] = dsq[Dt[e][j]][It[e][j]]
      <4>1. DOMAIN n[e] = 1..Len(n[e])
        BY <2>8, LenProperties
      <4>2. j \in Nat
        BY <4>1
      <4>3. /\ Dt[e][j] = IF e = l THEN d ELSE e
            /\ It[e][j] = IF e = l THEN k ELSE IF e = d /\ ~(j < k) THEN j + 1 ELSE j
        BY <4>2
      <4> HIDE DEF Dt, It
      <4>4. CASE e = l
        BY <2>1, <2>2, <2>7, <4>2, <4>3, <4>4 DEF t
      <4>5. CASE e = d
        <5>1. j \in 1..(Len(dsq[d]) - 1)
          BY <2>6, <4>5
        <5>2. It[e][j] \in 1..Len(dsq[d]) /\ Dt[e][j] = d
          BY <2>1, <2>2, <4>3, <4>5, <5>1
        <5>3. It[e][j] = IF j < k THEN j ELSE j + 1
          BY <2>1, <4>3, <4>5
        <5>4. QED
          BY <2>1, <2>2, <2>6, <4>2, <4>3, <4>5, <5>1, <5>2, <5>3
      <4>6. CASE e # l /\ e # d
        BY <2>5, <4>2, <4>3, <4>6
      <4>7. QED
        BY <4>4, <4>5, <4>6
    <3> HIDE DEF Dt, It
    <3>2. ASSUME NEW a \in DsqIds, NEW e \in DsqIds, NEW i \in DOMAIN n[a], NEW j \in DOMAIN n[e],
                 Dt[a][i] = Dt[e][j], It[a][i] = It[e][j]
          PROVE  a = e /\ i = j
      <4>1. /\ Dt[a][i] = IF a = l THEN d ELSE a
            /\ It[a][i] = IF a = l THEN k ELSE IF a = d /\ ~(i < k) THEN i + 1 ELSE i
            /\ Dt[e][j] = IF e = l THEN d ELSE e
            /\ It[e][j] = IF e = l THEN k ELSE IF e = d /\ ~(j < k) THEN j + 1 ELSE j
            /\ i \in Nat /\ j \in Nat /\ k \in Nat
            /\ a = l => i = 1
            /\ e = l => j = 1
        BY <2>2, <2>7, <3>1
      <4>2. CASE a = l /\ e = l
        BY <4>1, <4>2
      <4>3. CASE a = l /\ e # l
        <5>1. e = d /\ It[e][j] = k
          BY <3>2, <4>1, <4>3
        <5>2. k = IF j < k THEN j ELSE j + 1
          BY <4>1, <4>3, <5>1
        <5>3. QED
          BY <4>1, <5>2
      <4>4. CASE a # l /\ e = l
        <5>1. a = d /\ It[a][i] = k
          BY <3>2, <4>1, <4>4
        <5>2. k = IF i < k THEN i ELSE i + 1
          BY <4>1, <4>4, <5>1
        <5>3. QED
          BY <4>1, <5>2
      <4>5. CASE a # l /\ e # l
        <5>1. a = e
          BY <3>2, <4>1, <4>5
        <5>2. CASE a = d
          <6>1. (IF i < k THEN i ELSE i + 1) = (IF j < k THEN j ELSE j + 1)
            BY <3>2, <4>1, <4>5, <5>1, <5>2
          <6>2. QED
            BY <4>1, <5>1, <6>1
        <5>3. CASE a # d
          BY <3>2, <4>1, <4>5, <5>1, <5>3
        <5>4. QED
          BY <5>2, <5>3
      <4>6. QED
        BY <4>2, <4>3, <4>4, <4>5
    <3>3. \A e \in DsqIds : \A j \in DOMAIN n[e] :
             /\ Dt[e][j] \in DsqIds /\ It[e][j] \in DOMAIN dsq[Dt[e][j]]
             /\ n[e][j] = dsq[Dt[e][j]][It[e][j]]
      BY <3>1
    <3>4. \A a, e \in DsqIds : \A i \in DOMAIN n[a], j \in DOMAIN n[e] :
             Dt[a][i] = Dt[e][j] /\ It[a][i] = It[e][j] => a = e /\ i = j
      BY <3>2
    <3>5. ComesFrom(n, dsq, Dt, It)
      BY <3>3, <3>4 DEF ComesFrom
    <3>6. QED
      BY <1>1, <3>5, Rearranged
  <2>10. \A e \in DsqIds : \A j \in DOMAIN n[e] :
            \/ e = l /\ n[e][j] = t
            \/ e # l /\ \E a \in DOMAIN dsq[e] : n[e][j] = dsq[e][a]
    <3> SUFFICES ASSUME NEW e \in DsqIds, NEW j \in DOMAIN n[e]
                 PROVE  \/ e = l /\ n[e][j] = t
                        \/ e # l /\ \E a \in DOMAIN dsq[e] : n[e][j] = dsq[e][a]
      OBVIOUS
    <3>1. CASE e = l
      BY <2>7, <3>1
    <3>2. CASE e = d
      <4>1. j \in 1..(Len(dsq[d]) - 1)
        BY <2>6, <3>2
      <4>2. (IF j < k THEN j ELSE j + 1) \in DOMAIN dsq[d]
        BY <2>2, <4>1
      <4>3. QED
        BY <2>1, <2>6, <3>2, <4>1, <4>2
    <3>3. CASE e # l /\ e # d
      BY <2>5, <3>3
    <3>4. QED
      BY <3>1, <3>2, <3>3
  <2>11. st[t] = "queued"
    BY <1>1, <2>1 DEF Placed, t
  <2>12. \A e \in DsqIds : \A j \in DOMAIN n[e] : st[n[e][j]] = "queued"
    BY <1>1, <2>10, <2>11 DEF Placed
  <2>13. \A e \in CPUs : \A j \in DOMAIN n[LocalDsq(e)] : f[n[LocalDsq(e)][j]] = e
    <3> SUFFICES ASSUME NEW e \in CPUs, NEW j \in DOMAIN n[LocalDsq(e)]
                 PROVE  f[n[LocalDsq(e)][j]] = e
      OBVIOUS
    <3>1. LocalDsq(e) \in DsqIds /\ (LocalDsq(e) = l => e = c)
      BY Ids DEF l
    <3>2. CASE LocalDsq(e) = l
      BY <1>1, <2>3, <2>4, <2>7, <3>1, <3>2
    <3>3. CASE LocalDsq(e) # l
      <4>1. PICK a \in DOMAIN dsq[LocalDsq(e)] : n[LocalDsq(e)][j] = dsq[LocalDsq(e)][a]
        BY <2>10, <3>1, <3>3
      <4>2. LocalDsq(e) # d
        BY Ids
      <4>3. dsq[LocalDsq(e)][a] # t
        BY <1>1, <2>1, <3>1, <4>2 DEF Distinct, t
      <4>4. taskCpu[dsq[LocalDsq(e)][a]] = e
        BY <1>1 DEF Placed
      <4>5. QED
        BY <1>1, <2>4, <4>1, <4>3, <4>4
    <3>4. QED
      BY <3>2, <3>3
  <2>14. Placed(n, f, st)
    BY <2>8, <2>9, <2>12, <2>13 DEF Placed
  <2>15. /\ f \in [Tasks -> CPUs]
         /\ \A u \in Tasks : f[u] \in Affinity[u] /\ (st[u] # "queued" => f[u] = taskCpu[u])
    BY <1>1, <1>3, <2>3, <2>4, <2>11 DEF t
  <2>16. \A e \in CPUs : dsq[LocalDsq(e)] # <<>> => n[LocalDsq(e)] # <<>>
    <3> SUFFICES ASSUME NEW e \in CPUs, dsq[LocalDsq(e)] # <<>>
                 PROVE  n[LocalDsq(e)] # <<>>
      OBVIOUS
    <3>1. LocalDsq(e) \in DsqIds /\ LocalDsq(e) # d
      BY Ids
    <3>2. QED
      BY <2>5, <2>7, <3>1
  <2>17. QED
    BY <2>14, <2>15, <2>16 DEF n, f
<1>4. QED
  BY <1>1, <1>2, <1>3, BalancedForm DEF l

\* The first task of a local queue leaves it to run.
LEMMA PlacedRunning ==
  ASSUME NEW q, NEW f, NEW s \in [Tasks -> States], Placed(q, f, s),
         NEW c \in CPUs, q[LocalDsq(c)] # <<>>
  PROVE  LET t == Head(q[LocalDsq(c)]) IN
         /\ t \in Tasks /\ s[t] = "queued" /\ f[t] = c
         /\ Placed([q EXCEPT ![LocalDsq(c)] = Tail(@)], f, [s EXCEPT ![t] = "running"])
<1> DEFINE l == LocalDsq(c)
           t == Head(q[l])
           n == [q EXCEPT ![l] = Tail(@)]
           s1 == [s EXCEPT ![t] = "running"]
           It == [e \in DsqIds |-> [j \in Nat |-> IF e = l THEN j + 1 ELSE j]]
           Dt == [e \in DsqIds |-> [j \in Nat |-> e]]
<1>1. /\ q \in [DsqIds -> Seq(Tasks)] /\ Distinct(q) /\ l \in DsqIds
      /\ \A e \in DsqIds : DOMAIN q[e] = 1..Len(q[e]) /\ Len(q[e]) \in Nat
  BY Ids, LenProperties DEF Placed
<1>2. /\ q[l] \in Seq(Tasks) /\ q[l] # <<>>
      /\ t \in Tasks /\ t = q[l][1] /\ 1 \in DOMAIN q[l]
  <2>1. q[l] \in Seq(Tasks) /\ q[l] # <<>>
    BY <1>1
  <2>2. t \in Tasks /\ Len(q[l]) # 0
    BY <2>1, HeadTailProperties, EmptySeq
  <2>3. QED
    BY <1>1, <2>1, <2>2
<1>3. /\ n[l] \in Seq(Tasks) /\ DOMAIN n[l] = 1..(Len(q[l]) - 1)
      /\ \A j \in 1..(Len(q[l]) - 1) : n[l][j] = q[l][j + 1]
      /\ \A e \in DsqIds : e # l => n[e] = q[e]
  <2>1. n[l] = Tail(q[l]) /\ \A e \in DsqIds : e # l => n[e] = q[e]
    BY <1>1
  <2>2. /\ Tail(q[l]) \in Seq(Tasks) /\ Len(Tail(q[l])) = Len(q[l]) - 1
        /\ \A j \in 1..(Len(q[l]) - 1) : Tail(q[l])[j] = q[l][j + 1]
    BY <1>2, HeadTailProperties
  <2>3. QED
    BY <2>1, <2>2, LenProperties
<1>4. n \in [DsqIds -> Seq(Tasks)]
  BY <1>1, <1>3
<1> HIDE DEF n
<1>5. \A e \in DsqIds : \A j \in DOMAIN n[e] :
         /\ j \in Nat /\ j > 0 /\ Dt[e][j] = e /\ It[e][j] = IF e = l THEN j + 1 ELSE j
         /\ It[e][j] \in DOMAIN q[e] /\ n[e][j] = q[e][It[e][j]]
  <2> SUFFICES ASSUME NEW e \in DsqIds, NEW j \in DOMAIN n[e]
               PROVE  /\ j \in Nat /\ j > 0 /\ Dt[e][j] = e
                      /\ It[e][j] = IF e = l THEN j + 1 ELSE j
                      /\ It[e][j] \in DOMAIN q[e] /\ n[e][j] = q[e][It[e][j]]
    OBVIOUS
  <2>1. j \in 1..Len(n[e])
    BY <1>4, LenProperties
  <2>2. /\ j \in Nat /\ j > 0 /\ Dt[e][j] = e
        /\ It[e][j] = IF e = l THEN j + 1 ELSE j
    BY <2>1
  <2> HIDE DEF It, Dt
  <2>3. CASE e = l
    <3>1. j \in 1..(Len(q[l]) - 1)
      BY <1>3, <2>3
    <3>2. j + 1 \in 1..Len(q[l])
      BY <1>1, <3>1
    <3>3. QED
      BY <1>1, <1>3, <2>2, <2>3, <3>1, <3>2
  <2>4. CASE e # l
    BY <1>3, <2>2, <2>4
  <2>5. QED
    BY <2>2, <2>3, <2>4
<1> HIDE DEF It, Dt
<1>6. Distinct(n)
  <2>1. \A e \in DsqIds : \A j \in DOMAIN n[e] :
           /\ Dt[e][j] \in DsqIds /\ It[e][j] \in DOMAIN q[Dt[e][j]]
           /\ n[e][j] = q[Dt[e][j]][It[e][j]]
    BY <1>5
  <2>2. ASSUME NEW a \in DsqIds, NEW e \in DsqIds, NEW i \in DOMAIN n[a], NEW j \in DOMAIN n[e],
               Dt[a][i] = Dt[e][j], It[a][i] = It[e][j]
        PROVE  a = e /\ i = j
    <3>1. a = e
      BY <1>5, <2>2
    <3>2. (IF e = l THEN i + 1 ELSE i) = (IF e = l THEN j + 1 ELSE j) /\ i \in Nat /\ j \in Nat
      BY <1>5, <2>2, <3>1
    <3>3. QED
      BY <3>1, <3>2
  <2>3. ComesFrom(n, q, Dt, It)
    BY <2>1, <2>2 DEF ComesFrom
  <2>4. QED
    BY <1>1, <2>3, Rearranged
<1>7. \A e \in DsqIds : \A j \in DOMAIN n[e] : n[e][j] # t
  <2> SUFFICES ASSUME NEW e \in DsqIds, NEW j \in DOMAIN n[e], n[e][j] = t
               PROVE  FALSE
    OBVIOUS
  <2>1. q[e][It[e][j]] = q[l][1] /\ It[e][j] \in DOMAIN q[e]
    BY <1>2, <1>5
  <2>2. e = l /\ It[e][j] = 1
    BY <1>1, <1>2, <2>1 DEF Distinct
  <2>3. j \in Nat /\ j > 0 /\ It[e][j] = j + 1
    BY <1>5, <2>2
  <2>4. QED
    BY <2>2, <2>3
<1>8. s[t] = "queued" /\ f[t] = c
  BY <1>1, <1>2 DEF Placed
<1>9. \A e \in DsqIds : \A j \in DOMAIN n[e] : s1[n[e][j]] = "queued"
  <2> SUFFICES ASSUME NEW e \in DsqIds, NEW j \in DOMAIN n[e]
               PROVE  s1[n[e][j]] = "queued"
    OBVIOUS
  <2>1. s[n[e][j]] = "queued" /\ n[e][j] # t
    BY <1>5, <1>7 DEF Placed
  <2>2. n[e] \in Seq(Tasks) /\ DOMAIN n[e] = 1..Len(n[e])
    BY <1>4, LenProperties
  <2>3. n[e][j] \in Tasks
    BY <2>2, ElementOfSeq
  <2>4. QED
    BY <2>1, <2>3
<1>10. ASSUME NEW e \in CPUs, NEW j \in DOMAIN n[LocalDsq(e)]
       PROVE  f[n[LocalDsq(e)][j]] = e
  <2>1. LocalDsq(e) \in DsqIds
    BY Ids
  <2>2. It[LocalDsq(e)][j] \in DOMAIN q[LocalDsq(e)]
        /\ n[LocalDsq(e)][j] = q[LocalDsq(e)][It[LocalDsq(e)][j]]
    BY <1>5, <2>1
  <2>3. QED
    BY <2>2 DEF Placed
<1>11. Placed(n, f, s1)
  BY <1>4, <1>6, <1>9, <1>10 DEF Placed
<1>12. QED
  BY <1>2, <1>8, <1>11 DEF n

\* The drain of a CPU that is nudged appends its inactive queue to another.
LEMMA PlacedDrained ==
  ASSUME NEW q, NEW f, NEW s, Placed(q, f, s), NEW a \in Shared, NEW b \in Shared, a # b
  PROVE  Placed([q EXCEPT ![a] = @ \o q[b], ![b] = <<>>], f, s)
<1> DEFINE n == [q EXCEPT ![a] = @ \o q[b], ![b] = <<>>]
           La == Len(q[a])
           late(e, j) == e = a /\ j > La
           Dt == [e \in DsqIds |-> [j \in Nat |-> IF late(e, j) THEN b ELSE e]]
           It == [e \in DsqIds |-> [j \in Nat |-> IF late(e, j) THEN j - La ELSE j]]
<1>1. /\ q \in [DsqIds -> Seq(Tasks)] /\ Distinct(q) /\ a \in DsqIds /\ b \in DsqIds
      /\ \A e \in DsqIds : DOMAIN q[e] = 1..Len(q[e]) /\ Len(q[e]) \in Nat
  BY Ids, LenProperties DEF Placed
<1>2. /\ q[a] \in Seq(Tasks) /\ q[b] \in Seq(Tasks)
  BY <1>1
<1>3. /\ n[a] \in Seq(Tasks) /\ DOMAIN n[a] = 1..(La + Len(q[b]))
      /\ \A j \in 1..(La + Len(q[b])) : n[a][j] = IF j <= La THEN q[a][j] ELSE q[b][j - La]
      /\ n[b] = <<>> /\ DOMAIN n[b] = {}
      /\ \A e \in DsqIds : e # a /\ e # b => n[e] = q[e]
  <2>1. /\ n[a] = q[a] \o q[b] /\ n[b] = <<>>
        /\ \A e \in DsqIds : e # a /\ e # b => n[e] = q[e]
    BY <1>1
  <2> HIDE DEF n
  <2>2. /\ q[a] \o q[b] \in Seq(Tasks) /\ Len(q[a] \o q[b]) = La + Len(q[b])
        /\ \A j \in 1..(La + Len(q[b])) :
              (q[a] \o q[b])[j] = IF j <= La THEN q[a][j] ELSE q[b][j - La]
    BY <1>2, ConcatProperties
  <2>3. DOMAIN n[a] = 1..(La + Len(q[b]))
    BY <2>1, <2>2, LenProperties
  <2>4. DOMAIN n[b] = {}
    BY <2>1
  <2>5. QED
    BY <2>1, <2>2, <2>3, <2>4
<1>4. n \in [DsqIds -> Seq(Tasks)]
  <2>1. <<>> \in Seq(Tasks) /\ n[b] = <<>>
    BY <1>3
  <2>2. n = [q EXCEPT ![a] = n[a], ![b] = n[b]] /\ n[b] \in Seq(Tasks)
    BY <1>1, <1>3, <2>1
  <2> HIDE DEF n
  <2>3. QED
    BY <1>1, <1>3, <2>2
<1> HIDE DEF n
<1>5. \A e \in DsqIds : \A j \in DOMAIN n[e] :
         /\ j \in Nat /\ j > 0 /\ e # b
         /\ Dt[e][j] = (IF late(e, j) THEN b ELSE e)
         /\ It[e][j] = (IF late(e, j) THEN j - La ELSE j)
         /\ Dt[e][j] \in DsqIds /\ It[e][j] \in DOMAIN q[Dt[e][j]]
         /\ n[e][j] = q[Dt[e][j]][It[e][j]]
  <2> SUFFICES ASSUME NEW e \in DsqIds, NEW j \in DOMAIN n[e]
               PROVE  /\ j \in Nat /\ j > 0 /\ e # b
                      /\ Dt[e][j] = (IF late(e, j) THEN b ELSE e)
                      /\ It[e][j] = (IF late(e, j) THEN j - La ELSE j)
                      /\ Dt[e][j] \in DsqIds /\ It[e][j] \in DOMAIN q[Dt[e][j]]
                      /\ n[e][j] = q[Dt[e][j]][It[e][j]]
    OBVIOUS
  <2>1. j \in 1..Len(n[e])
    BY <1>4, LenProperties
  <2>2. /\ j \in Nat /\ j > 0 /\ e # b
    BY <1>3, <2>1
  <2>3. /\ Dt[e][j] = (IF late(e, j) THEN b ELSE e)
        /\ It[e][j] = (IF late(e, j) THEN j - La ELSE j)
    BY <2>2
  <2> HIDE DEF It, Dt
  <2>4. CASE late(e, j)
    <3>1. e = a /\ j > La /\ j \in 1..(La + Len(q[b]))
      BY <1>3, <2>4
    <3>2. j - La \in 1..Len(q[b]) /\ ~(j <= La)
      BY <1>1, <3>1
    <3>3. Dt[e][j] = b /\ It[e][j] = j - La
      BY <2>3, <2>4
    <3> HIDE DEF late, La
    <3>4. n[e][j] = q[b][j - La]
      BY <1>3, <3>1, <3>2
    <3>5. QED
      BY <1>1, <2>2, <2>3, <3>2, <3>3, <3>4
  <2>5. CASE ~late(e, j) /\ e = a
    <3>1. ~(j > La) /\ j \in 1..(La + Len(q[b]))
      BY <1>3, <2>5
    <3>2. j \in 1..La /\ j <= La
      BY <1>1, <3>1
    <3>3. Dt[e][j] = a /\ It[e][j] = j
      BY <2>3, <2>5
    <3> HIDE DEF late
    <3>4. n[e][j] = q[a][j]
      BY <1>3, <2>5, <3>1, <3>2
    <3>5. QED
      BY <1>1, <2>2, <2>3, <3>2, <3>3, <3>4
  <2>6. CASE e # a
    <3>1. n[e] = q[e] /\ Dt[e][j] = e /\ It[e][j] = j
      BY <1>3, <2>2, <2>3, <2>6
    <3> HIDE DEF late
    <3>2. QED
      BY <1>1, <2>2, <2>3, <3>1
  <2>7. QED
    BY <2>4, <2>5, <2>6
<1> HIDE DEF It, Dt
<1>6. Distinct(n)
  <2>1. ASSUME NEW d \in DsqIds, NEW e \in DsqIds, NEW i \in DOMAIN n[d], NEW j \in DOMAIN n[e],
               Dt[d][i] = Dt[e][j], It[d][i] = It[e][j]
        PROVE  d = e /\ i = j
    <3>1. /\ Dt[d][i] = (IF late(d, i) THEN b ELSE d)
          /\ It[d][i] = (IF late(d, i) THEN i - La ELSE i)
          /\ Dt[e][j] = (IF late(e, j) THEN b ELSE e)
          /\ It[e][j] = (IF late(e, j) THEN j - La ELSE j)
          /\ i \in Nat /\ j \in Nat /\ d # b /\ e # b
      BY <1>5
    <3>2. late(d, i) <=> late(e, j)
      BY <2>1, <3>1
    <3>3. CASE late(d, i)
      <4>1. d = a /\ e = a /\ i - La = j - La /\ La \in Nat
        BY <1>1, <2>1, <3>1, <3>2, <3>3
      <4> HIDE DEF La
      <4>2. QED
        BY <3>1, <4>1
    <3>4. CASE ~late(d, i)
      BY <2>1, <3>1, <3>2, <3>4
    <3>5. QED
      BY <3>3, <3>4
  <2>2. ComesFrom(n, q, Dt, It)
    BY <1>5, <2>1 DEF ComesFrom
  <2>3. QED
    BY <1>1, <2>2, Rearranged
<1>7. \A e \in DsqIds : \A j \in DOMAIN n[e] : s[n[e][j]] = "queued"
  BY <1>5 DEF Placed
<1>8. \A e \in CPUs : \A j \in DOMAIN n[LocalDsq(e)] : f[n[LocalDsq(e)][j]] = e
  <2> SUFFICES ASSUME NEW e \in CPUs, NEW j \in DOMAIN n[LocalDsq(e)]
               PROVE  f[n[LocalDsq(e)][j]] = e
    OBVIOUS
  <2>1. LocalDsq(e) \in DsqIds /\ LocalDsq(e) # a /\ LocalDsq(e) # b
    BY Ids
  <2>2. n[LocalDsq(e)] = q[LocalDsq(e)]
    BY <1>3, <2>1
  <2>3. QED
    BY <2>2 DEF Placed
<1>9. QED
  BY <1>4, <1>6, <1>7, <1>8 DEF Placed, n

\* The CPUs of a set are listed, each of them at its rank in the set.
LEMMA Ranks ==
  ASSUME NEW S \in SUBSET CPUs
  PROVE  InOrder(S) \in Seq(S)
<1> DEFINE n == Cardinality(S)
           below(c) == {e \in S : e <= c}
           rank == [c \in S |-> Cardinality(below(c))]
<1>1. IsFiniteSet(S) /\ n \in Nat /\ \A c \in S : c \in Nat
  <2>1. IsFiniteSet(CPUs)
    BY ConstantsAssumption, FS_Interval DEF CPUs
  <2>2. IsFiniteSet(S) /\ Cardinality(S) \in Nat
    BY <2>1, FS_Subset, FS_CardinalityType
  <2>3. \A c \in S : c \in Nat
    BY DEF CPUs
  <2>4. QED
    BY <2>2, <2>3
<1>2. \A c \in S : /\ IsFiniteSet(below(c)) /\ Cardinality(below(c)) \in 1..n
  <2> SUFFICES ASSUME NEW c \in S
               PROVE  IsFiniteSet(below(c)) /\ Cardinality(below(c)) \in 1..n
    OBVIOUS
  <2>1. below(c) \in SUBSET S /\ c \in below(c)
    BY <1>1
  <2> HIDE DEF below
  <2>2. IsFiniteSet(below(c)) /\ Cardinality(below(c)) <= n
    BY <1>1, <2>1, FS_Subset
  <2>3. Cardinality(below(c)) \in Nat /\ Cardinality(below(c)) # 0
    BY <2>1, <2>2, FS_CardinalityType, FS_EmptySet
  <2>4. QED
    BY <1>1, <2>2, <2>3
<1>3. \A c, d \in S : c < d => Cardinality(below(c)) # Cardinality(below(d))
  <2> SUFFICES ASSUME NEW c \in S, NEW d \in S, c < d, Cardinality(below(c)) = Cardinality(below(d))
               PROVE  FALSE
    OBVIOUS
  <2>1. below(c) \in SUBSET below(d) /\ d \in below(d) /\ d \notin below(c)
    BY <1>1
  <2> HIDE DEF below
  <2>2. below(d) = below(c)
    BY <1>2, <2>1, FS_Subset
  <2>3. QED
    BY <2>1, <2>2
<1>4. rank \in [S -> 1..n]
  BY <1>2
<1>5. \A c, d \in S : rank[c] = rank[d] => c = d
  <2> SUFFICES ASSUME NEW c \in S, NEW d \in S, rank[c] = rank[d]
               PROVE  c = d
    OBVIOUS
  <2>1. Cardinality(below(c)) = Cardinality(below(d))
    OBVIOUS
  <2> HIDE DEF below
  <2>2. ~(c < d) /\ ~(d < c)
    BY <1>3, <2>1
  <2>3. QED
    BY <1>1, <2>2
<1>6. IsFiniteSet(1..n) /\ Cardinality(1..n) = n
  BY <1>1, FS_Interval
<1> HIDE DEF below, n
<1>7. rank \in Injection(S, 1..n)
  BY <1>4, <1>5 DEF Injection, IsInjective
<1>8. rank \in Surjection(S, 1..n)
  <2> HIDE DEF rank
  <2>1. QED
    BY <1>6, <1>7, FS_Injection DEF n
<1>9. \A i \in 1..n : \E c \in S : rank[c] = i
  <2> HIDE DEF rank
  <2>1. QED
    BY <1>8 DEF Surjection
<1>10. \A i \in 1..n : \E c \in S : Cardinality(below(c)) = i
  BY <1>9
<1>11. \A i \in 1..n : (CHOOSE c \in S : Cardinality(below(c)) = i) \in S
  BY <1>10
<1>12. InOrder(S) = [i \in 1..n |-> CHOOSE c \in S : Cardinality(below(c)) = i]
  BY DEF InOrder, n, below
<1>13. InOrder(S) \in [1..n -> S]
  BY <1>11, <1>12
<1>14. n \in Nat
  BY <1>1 DEF n
<1>15. QED
  BY <1>13, <1>14, SeqDef

\* The controller nudges CPUs that exist.
LEMMA NudgesExist ==
  ASSUME NEW before \in SUBSET CPUs, NEW wanted \in SUBSET CPUs
  PROVE  nudge_changed_cpus(before, wanted) \in Seq([cpu : CPUs, drain : BOOLEAN])
<1> DEFINE S == (before \ wanted) \cup (wanted \ before)
           changed == InOrder(S)
           T == [cpu : CPUs, drain : BOOLEAN]
           calls == [i \in DOMAIN changed |-> [cpu |-> changed[i], drain |-> changed[i] \in before]]
           last == IF before \subseteq wanted \/ wanted = {} THEN <<>>
                   ELSE <<[cpu |-> Min(wanted), drain |-> FALSE]>>
<1>1. changed \in Seq(CPUs)
  <2>1. S \in SUBSET CPUs
    OBVIOUS
  <2> HIDE DEF S
  <2>2. changed \in Seq(S)
    BY <2>1, Ranks
  <2>3. QED
    BY <2>1, <2>2
<1> HIDE DEF changed
<1>2. calls \in Seq(T)
  <2>1. DOMAIN changed = 1..Len(changed) /\ Len(changed) \in Nat
    BY <1>1, LenProperties
  <2>2. \A i \in DOMAIN changed : changed[i] \in CPUs
    BY <1>1, <2>1, ElementOfSeq
  <2>3. \A i \in 1..Len(changed) : [cpu |-> changed[i], drain |-> changed[i] \in before] \in T
    BY <2>1, <2>2
  <2>4. QED
    BY <2>1, <2>3
<1>3. last \in Seq(T)
  <2>1. CASE before \subseteq wanted \/ wanted = {}
    BY <2>1
  <2>2. CASE ~(before \subseteq wanted \/ wanted = {})
    <3>1. wanted \in SUBSET Nat
      BY DEF CPUs
    <3>2. Min(wanted) \in CPUs
      BY <2>2, <3>1, MinOfNaturals
    <3>3. [cpu |-> Min(wanted), drain |-> FALSE] \in T
      BY <3>2
    <3> HIDE DEF T
    <3>4. QED
      BY <2>2, <3>3
  <2>3. QED
    BY <2>1, <2>2
<1>4. nudge_changed_cpus(before, wanted) = calls \o last
  BY DEF nudge_changed_cpus, changed
<1> HIDE DEF calls, last, T
<1>5. QED
  BY <1>2, <1>3, <1>4, ConcatProperties DEF T

----------------------------------------------------------------------------
(* What a step has to keep.                                                *)

\* A task that holds a CPU, admitted while no other grant of it was under way,
\* is its owner, and nobody is about to grant the CPU to another task.
Settled ==
    \A t \in Tasks \ overlapped : ctx[t].holds => /\ owner[ctx[t].cpu] = t
                                                 /\ ~GrantUnderWay(t, ctx[t].cpu)

Kept ==
    /\ TypeOK' /\ Places'
    /\ mask = CPUs /\ Backed => Backed'
    /\ mask = CPUs /\ Backed /\ Settled /\ Recorded => Settled'

\* What a callback for t writes.
Effect(t, s, to) ==
    ctx' = [ctx EXCEPT ![t] = s.x] /\ owner' = s.owner /\ st' = [st EXCEPT ![t] = to]

LEMMA Effects ==
  ASSUME TypeOK, NEW t \in Tasks, NEW s \in LawfulOutcomes(t), NEW to \in States, Effect(t, s, to)
  PROVE  /\ ctx' \in [Tasks -> CtxRecords \cup {NoCtx}] /\ owner' \in [CPUs -> Tasks \cup {None}]
         /\ st' \in [Tasks -> States] /\ s.kick \subseteq CPUs
         /\ ctx'[t] = s.x /\ st'[t] = to
         /\ ctx'[t] # NoCtx => ctx'[t].cpu \in Affinity[t] \cup {None}
         /\ \A u \in Tasks : u # t => ctx'[u] = ctx[u] /\ st'[u] = st[u]
<1>1. /\ s.x \in CtxRecords \cup {NoCtx} /\ s.owner \in [CPUs -> Tasks \cup {None}]
      /\ s.kick \subseteq CPUs
      /\ s.x # NoCtx => s.x.cpu \in Affinity[t] \cup {None}
  BY DEF LawfulOutcomes, LawfulResults, Results, Outcomes
<1>2. ctx \in [Tasks -> CtxRecords \cup {NoCtx}] /\ st \in [Tasks -> States]
  BY DEF TypeOK
<1>3. QED
  BY <1>1, <1>2 DEF Effect

LEMMA TaskStep ==
  ASSUME TypeOK, Places, NEW t \in Tasks, NEW s \in LawfulOutcomes(t), NEW to \in States,
         Effect(t, s, to),
         to \in {"granting", "parking"} => s.x # NoCtx /\ s.x.cpu \in Affinity[t],
         Placed(dsq', taskCpu', st'), taskCpu' \in [Tasks -> CPUs],
         \A u \in Tasks : taskCpu'[u] \in Affinity[u],
         curr' \in [CPUs -> Tasks \cup {None}], picking' \in [CPUs -> BOOLEAN],
         \A c \in CPUs : /\ curr'[c] # None => st'[curr'[c]] = "running" /\ taskCpu'[curr'[c]] = c
                         /\ picking'[c] => dsq'[LocalDsq(c)] # <<>>,
         kicked' \subseteq CPUs, seq' \in [CPUs -> 0..(DrainInterval - 1)], Still,
         word' \in [Tasks -> Words], registered' \in [Tasks -> BOOLEAN], phase' \in [Tasks -> Phases]
  PROVE  TypeOK' /\ Places'
<1>1. TypeOK'
  <2>1. /\ ctx' \in [Tasks -> CtxRecords \cup {NoCtx}] /\ owner' \in [CPUs -> Tasks \cup {None}]
        /\ st' \in [Tasks -> States]
    BY Effects
  <2>2. dsq' \in [DsqIds -> Seq(Tasks)]
    BY DEF Placed
  <2>3. /\ stats_only' \in BOOLEAN /\ mask' \in SUBSET CPUs /\ pushes' \in 0..MaxPushes
        /\ nudges' \in Seq([cpu : CPUs, drain : BOOLEAN])
    BY DEF TypeOK, Still
  <2>4. QED
    BY <2>1, <2>2, <2>3 DEF TypeOK
<1>2. \A u \in Tasks :
         /\ ctx'[u] # NoCtx => ctx'[u].cpu \in Affinity[u] \cup {None}
         /\ st'[u] \in {"granting", "parking"} => ctx'[u] # NoCtx /\ ctx'[u].cpu \in Affinity[u]
  <2> SUFFICES ASSUME NEW u \in Tasks
               PROVE  /\ ctx'[u] # NoCtx => ctx'[u].cpu \in Affinity[u] \cup {None}
                      /\ st'[u] \in {"granting", "parking"} =>
                            ctx'[u] # NoCtx /\ ctx'[u].cpu \in Affinity[u]
    OBVIOUS
  <2>1. CASE u = t
    BY <2>1, Effects
  <2>2. CASE u # t
    BY <2>2, Effects DEF Places
  <2>3. QED
    BY <2>1, <2>2
<1>3. Places'
  BY <1>2 DEF Places
<1>4. QED
  BY <1>1, <1>3

\* A step of t that leaves the entries of the others, or takes one over.
LEMMA BackedStep ==
  ASSUME TypeOK, Backed, NEW t \in Tasks, NEW s \in LawfulOutcomes(t), NEW to \in States,
         Effect(t, s, to),
         s.x.holds => s.x.cpu # None,
         \A c \in CPUs : /\ s.owner[c] = t => s.x.holds /\ s.x.cpu = c
                         /\ s.owner[c] \in {None, t, owner[c]},
         to \in {"granting", "parking"} => ~s.x.holds
  PROVE  Backed'
<1> SUFFICES ASSUME NEW u \in Tasks
             PROVE  /\ ctx'[u].holds => ctx'[u].cpu # None
                    /\ \A c \in CPUs : owner'[c] = u => ctx'[u].holds /\ ctx'[u].cpu = c
                    /\ st'[u] \in {"granting", "parking"} => ~ctx'[u].holds
  BY DEF Backed
<1>1. None \notin Tasks /\ owner' = s.owner
  BY ConstantsAssumption DEF Effect
<1>2. CASE u = t
  BY <1>1, <1>2, Effects
<1>3. CASE u # t
  BY <1>1, <1>3, Effects DEF Backed
<1>4. QED
  BY <1>2, <1>3

\* Among what a step of t may do, only the end of an enqueue that was under way
\* takes an entry from another task.
LEMMA SettledStep ==
  ASSUME TypeOK, Places, Places', Backed, Backed', Settled, Recorded,
         NEW t \in Tasks, NEW s \in LawfulOutcomes(t), NEW to \in States,
         Effect(t, s, to), Owns(t) => Claimed(t, s),
         \A c \in CPUs : /\ s.owner[c] \in {None, t, owner[c]}
                         /\ owner[c] \notin {None, t} =>
                               s.owner[c] = owner[c] \/ (st[t] = "granting" /\ ctx[t].cpu = c),
         to = "granting" => s.owner[s.x.cpu] \in {None, t}
  PROVE  Settled'
<1> SUFFICES ASSUME NEW u \in Tasks, u \notin overlapped', ctx'[u].holds
             PROVE  /\ owner'[ctx'[u].cpu] = u
                    /\ \A v \in Tasks \ {u} : st'[v] = "granting" => ctx'[v].cpu # ctx'[u].cpu
  BY DEF Settled, GrantUnderWay
<1> DEFINE c == ctx'[u].cpu
           settles == \A v \in Tasks \ {u} : st'[v] = "granting" => ctx'[v].cpu # c
<1>1. None \notin Tasks /\ owner' = s.owner /\ Affinity[u] \subseteq CPUs
  BY ConstantsAssumption DEF Effect
<1>2. /\ \A v \in Tasks : v # t => ctx'[v] = ctx[v] /\ st'[v] = st[v]
      /\ ctx'[t] = s.x /\ st'[t] = to
  BY Effects
<1>3. c \in CPUs
  <2>1. ctx'[u] # NoCtx /\ c # None
    BY DEF NoCtx, Backed
  <2>2. QED
    BY <1>1, <2>1 DEF Places
<1> HIDE DEF c, settles
\* Nobody but t comes to be about to grant c, and t only if c has no owner.
<1>4. ASSUME owner'[c] = u, ~GrantUnderWay(u, c)
      PROVE  settles
  <2> SUFFICES ASSUME NEW v \in Tasks \ {u}, st'[v] = "granting", ctx'[v].cpu = c
               PROVE  FALSE
    BY DEF settles
  <2>1. CASE v = t
    BY <1>1, <1>2, <1>4, <2>1
  <2>2. CASE v # t
    BY <1>2, <1>4, <2>2 DEF GrantUnderWay
  <2>3. QED
    BY <2>1, <2>2
<1>5. CASE Gets(u, c)
  <2>1. \E e \in CPUs : Gets(u, e)
    BY <1>3, <1>5
  <2>2. ~GrantUnderWay(u, c)
    BY <1>3, <1>5, <2>1 DEF Recorded
  <2>3. owner'[c] = u
    BY <1>5 DEF Gets
  <2>4. QED
    BY <1>4, <2>2, <2>3 DEF settles, c
<1>6. CASE ~Gets(u, c)
  <2>1. \A e \in CPUs : ~Gets(u, e)
    BY <1>6 DEF Backed, Gets, c
  <2>2. u \notin overlapped
    BY <2>1 DEF Recorded
  <2>3. CASE u = t
    <3>1. Owns(t)
      BY <2>2, <2>3 DEF Settled, Owns
    <3>2. owner'[c] = u
      BY <1>1, <1>2, <2>3, <3>1 DEF Claimed, c
    <3>3. owner[c] = u
      BY <1>6, <3>2 DEF Gets
    <3>4. ctx[u].holds /\ ctx[u].cpu = c
      BY <1>3, <3>3 DEF Backed
    <3>5. QED
      BY <1>4, <2>2, <3>2, <3>4 DEF Settled, settles, c
  <2>4. CASE u # t
    <3>1. ctx[u].holds /\ ctx[u].cpu = c
      BY <1>2, <2>4 DEF c
    <3>2. owner[c] = u /\ ~GrantUnderWay(u, c)
      BY <2>2, <3>1 DEF Settled
    <3>3. owner'[c] = u
      BY <1>1, <1>3, <2>4, <3>2 DEF GrantUnderWay
    <3>4. QED
      BY <1>4, <3>2, <3>3 DEF settles, c
  <2>5. QED
    BY <2>3, <2>4
<1>7. QED
  BY <1>5, <1>6

\* A sound outcome takes no entry from another task.
LEMMA SoundSettles ==
  ASSUME TypeOK, Places, Places', Backed, Backed', Settled, Recorded,
         NEW t \in Tasks, NEW s \in LawfulOutcomes(t), NEW to \in States,
         Effect(t, s, to), Sound(t, s, Owns(t)),
         to = "granting" => s.owner[s.x.cpu] \in {None, t}
  PROVE  Settled'
<1>1. Owns(t) => Claimed(t, s)
  BY DEF Sound
<1>2. \A c \in CPUs : /\ s.owner[c] \in {None, t, owner[c]}
                      /\ owner[c] \notin {None, t} => s.owner[c] = owner[c]
  BY DEF Sound, Faithful
<1>3. QED
  BY <1>1, <1>2, SettledStep

----------------------------------------------------------------------------
(* One lemma per action.                                                   *)

LEMMA NextSeqTyped ==
  ASSUME TypeOK, NEW c \in CPUs, NEW own
  PROVE  NextSeq(c, own) \in [CPUs -> 0..(DrainInterval - 1)]
<1>1. seq \in [CPUs -> 0..(DrainInterval - 1)] /\ DrainInterval \in Nat \ {0}
  BY ConstantsAssumption DEF TypeOK
<1>2. seq[c] + 1 \in Nat
  BY <1>1
<1>3. (seq[c] + 1) % DrainInterval \in 0..(DrainInterval - 1)
  BY <1>1, <1>2
<1>4. QED
  BY <1>1, <1>3 DEF NextSeq

\* An enqueue puts its task into one queue, or into none yet.
LEMMA EnqueuePlaces ==
  ASSUME TypeOK, NEW t \in Tasks, st[t] # "queued",
         NEW r, r.s \in LawfulOutcomes(t), Posted(t, r),
         NEW q, NEW f \in [Tasks -> CPUs], Placed(q, f, st), \A u \in Tasks : f[u] \in Affinity[u],
         NEW here \in CPUs, Enqueue(t, r, q, f, here)
  PROVE  /\ r.st \in States \ {"running"} /\ Effect(t, r.s, r.st)
         /\ r.st \in {"granting", "parking"} => r.s.x # NoCtx /\ r.s.x.cpu \in Affinity[t]
         /\ Placed(dsq', taskCpu', st') /\ taskCpu' \in [Tasks -> CPUs]
         /\ \A u \in Tasks : taskCpu'[u] \in Affinity[u] /\ (u # t => taskCpu'[u] = f[u])
         /\ \A c \in CPUs : q[LocalDsq(c)] # <<>> => dsq'[LocalDsq(c)] # <<>>
         /\ kicked' \subseteq CPUs
<1>1. /\ r.st \in States \ {"running"} /\ r.to \in DsqIds
      /\ r.st = "queued" /\ r.to[1] = "LOCAL" => r.to[2] \in Affinity[t] /\ r.to[2] \in CPUs
      /\ r.st \in {"granting", "parking"} => r.s.x # NoCtx /\ r.s.x.cpu \in Affinity[t]
  BY Picks DEF Posted, States
<1>2. Effect(t, r.s, r.st)
  BY DEF Enqueue, Effect
<1>3. st \in [Tasks -> States] /\ st' = [st EXCEPT ![t] = r.st] /\ st' \in [Tasks -> States]
  BY <1>1, <1>2, Effects DEF Effect, TypeOK
<1>4. q \in [DsqIds -> Seq(Tasks)]
  BY DEF Placed
<1>5. /\ Placed(dsq', taskCpu', st') /\ taskCpu' \in [Tasks -> CPUs]
      /\ \A u \in Tasks : taskCpu'[u] \in Affinity[u] /\ (u # t => taskCpu'[u] = f[u])
      /\ \A c \in CPUs : q[LocalDsq(c)] # <<>> => dsq'[LocalDsq(c)] # <<>>
  <2>1. CASE r.st = "queued"
    <3>1. /\ dsq' = [q EXCEPT ![r.to] = Append(@, t)] /\ st' = [st EXCEPT ![t] = "queued"]
          /\ taskCpu' = IF r.to[1] = "LOCAL" THEN [f EXCEPT ![t] = r.to[2]] ELSE f
      BY <1>3, <2>1 DEF Enqueue
    <3>2. Placed(dsq', taskCpu', st')
      <4> DEFINE d == r.to
      <4>1. /\ d \in DsqIds /\ (d[1] = "LOCAL" => d[2] \in CPUs)
            /\ dsq' = [q EXCEPT ![d] = Append(@, t)]
            /\ taskCpu' = IF d[1] = "LOCAL" THEN [f EXCEPT ![t] = d[2]] ELSE f
        BY <1>1, <2>1, <3>1
      <4> HIDE DEF d
      <4>2. st \in [Tasks -> States] /\ st' = [st EXCEPT ![t] = "queued"] /\ Placed(q, f, st)
        BY <1>3, <3>1
      <4>3. Placed([q EXCEPT ![d] = Append(@, t)],
                   IF d[1] = "LOCAL" THEN [f EXCEPT ![t] = d[2]] ELSE f,
                   [st EXCEPT ![t] = "queued"])
        BY <4>1, <4>2, PlacedAtEnd
      <4>4. QED
        BY <4>1, <4>2, <4>3
    <3>3. taskCpu' \in [Tasks -> CPUs]
      BY <1>1, <2>1, <3>1
    <3>4. \A u \in Tasks : taskCpu'[u] \in Affinity[u] /\ (u # t => taskCpu'[u] = f[u])
      BY <1>1, <2>1, <3>1
    <3>5. ASSUME NEW c \in CPUs, q[LocalDsq(c)] # <<>>
          PROVE  dsq'[LocalDsq(c)] # <<>>
      <4>1. LocalDsq(c) \in DsqIds /\ q[LocalDsq(c)] \in Seq(Tasks)
        BY <1>4, Ids
      <4>2. dsq'[LocalDsq(c)] = IF LocalDsq(c) = r.to THEN Append(q[LocalDsq(c)], t) ELSE q[LocalDsq(c)]
        BY <1>4, <3>1, <4>1
      <4>3. Append(q[LocalDsq(c)], t) # <<>>
        BY <4>1, QueueEdits
      <4>4. QED
        BY <3>5, <4>2, <4>3
    <3>6. QED
      BY <3>2, <3>3, <3>4, <3>5
  <2>2. CASE r.st # "queued"
    <3>1. dsq' = q /\ taskCpu' = f
      BY <2>2 DEF Enqueue
    <3>2. \A u \in Tasks : u # t => f[u] = f[u] /\ st'[u] = st[u]
      BY <1>3
    <3>3. Placed(q, f, st')
      BY <1>3, <3>2, PlacedElsewhere
    <3>4. QED
      BY <3>1, <3>3
  <2>3. QED
    BY <2>1, <2>2
<1>6. kicked' \subseteq CPUs
  <2>1. r.s.kick \subseteq CPUs /\ kicked \subseteq CPUs
    BY <1>1, <1>2, Effects DEF TypeOK
  <2> DEFINE more == r.s.kick \cup {here}
                       \cup (IF r.st = "queued" /\ r.to[1] = "LOCAL" THEN {r.to[2]} ELSE {})
  <2>2. more \subseteq CPUs
    BY <1>1, <2>1
  <2>3. Kick(more)
    BY DEF Enqueue
  <2> HIDE DEF more
  <2>4. QED
    BY <2>1, <2>2, <2>3 DEF Kick
<1>7. QED
  BY <1>1, <1>2, <1>5, <1>6

LEMMA Wakes ==
  ASSUME TypeOK, Places, NEW t \in Tasks, K_Wake(t)
  PROVE  Kept
<1>1. PICK r \in WakeTargets(t) :
        /\ ctx' = [ctx EXCEPT ![t] = r.s.x] /\ owner' = r.s.owner
        /\ taskCpu' = [taskCpu EXCEPT ![t] = r.cpu]
        /\ st' = [st EXCEPT ![t] = IF r.direct THEN "queued" ELSE "waking"]
        /\ dsq' = IF r.direct THEN [dsq EXCEPT ![LocalDsq(r.cpu)] = Append(@, t)] ELSE dsq
        /\ UNCHANGED <<curr, picking>>
        /\ Kick(r.s.kick \cup IF r.direct THEN {r.cpu} ELSE {})
  BY DEF K_Wake
<1>2. st[t] = "blocked" /\ Still /\ UNCHANGED <<seq, word, registered, phase>>
  BY DEF K_Wake, Still, maskVars, userVars
<1> DEFINE to == IF r.direct THEN "queued" ELSE "waking"
<1>3. /\ r.s \in LawfulOutcomes(t) /\ r.cpu \in Affinity[t] /\ r.cpu \in CPUs
      /\ r.direct \in BOOLEAN /\ to \in States \ {"granting", "parking", "running"}
      /\ Backed => \A k : (k => Owns(t)) => Sound(t, r.s, k)
  BY SelectsSoundly, Picks DEF States
<1>4. Effect(t, r.s, to)
  BY <1>1 DEF Effect
<1> HIDE DEF to
<1>5. /\ st \in [Tasks -> States] /\ taskCpu \in [Tasks -> CPUs] /\ Placed(dsq, taskCpu, st)
      /\ dsq \in [DsqIds -> Seq(Tasks)]
  BY DEF TypeOK, Places
<1>6. /\ taskCpu' \in [Tasks -> CPUs] /\ taskCpu'[t] = r.cpu
      /\ \A u \in Tasks : u # t => taskCpu'[u] = taskCpu[u]
      /\ \A u \in Tasks : taskCpu'[u] \in Affinity[u]
  BY <1>1, <1>3, <1>5 DEF Places
<1>7. /\ st' \in [Tasks -> States] /\ st'[t] = to /\ r.s.kick \subseteq CPUs
      /\ \A u \in Tasks : u # t => st'[u] = st[u]
  BY <1>3, <1>4, Effects
<1>8. /\ Placed(dsq', taskCpu', st')
      /\ \A c \in CPUs : dsq[LocalDsq(c)] # <<>> => dsq'[LocalDsq(c)] # <<>>
  <2>1. CASE r.direct
    <3> DEFINE d == LocalDsq(r.cpu)
    <3>1. d \in DsqIds /\ d[1] = "LOCAL" /\ d[2] = r.cpu
      BY <1>3, Ids
    <3>2. /\ dsq' = [dsq EXCEPT ![d] = Append(@, t)] /\ st' = [st EXCEPT ![t] = "queued"]
          /\ taskCpu' = IF d[1] = "LOCAL" THEN [taskCpu EXCEPT ![t] = d[2]] ELSE taskCpu
      BY <1>1, <2>1, <3>1
    <3> HIDE DEF d
    <3>3. Placed(dsq', taskCpu', st')
      BY <1>2, <1>3, <1>5, <3>1, <3>2, PlacedAtEnd
    <3>4. ASSUME NEW c \in CPUs, dsq[LocalDsq(c)] # <<>>
          PROVE  dsq'[LocalDsq(c)] # <<>>
      <4>1. LocalDsq(c) \in DsqIds /\ dsq[LocalDsq(c)] \in Seq(Tasks)
        BY <1>5, Ids
      <4>2. dsq'[LocalDsq(c)] = IF LocalDsq(c) = d THEN Append(dsq[LocalDsq(c)], t) ELSE dsq[LocalDsq(c)]
        BY <1>5, <3>2, <4>1
      <4>3. Append(dsq[LocalDsq(c)], t) # <<>>
        BY <4>1, QueueEdits
      <4>4. QED
        BY <3>4, <4>2, <4>3
    <3>5. QED
      BY <3>3, <3>4
  <2>2. CASE ~r.direct
    <3>1. dsq' = dsq
      BY <1>1, <2>2
    <3>2. \A u \in Tasks : u # t => taskCpu'[u] = taskCpu[u] /\ st'[u] = st[u]
      BY <1>6, <1>7
    <3>3. Placed(dsq, taskCpu', st')
      BY <1>2, <1>5, <1>6, <1>7, <3>2, PlacedElsewhere
    <3>4. QED
      BY <3>1, <3>3
  <2>3. QED
    BY <2>1, <2>2
<1>9. /\ curr' \in [CPUs -> Tasks \cup {None}] /\ picking' \in [CPUs -> BOOLEAN]
      /\ seq' \in [CPUs -> 0..(DrainInterval - 1)]
      /\ word' \in [Tasks -> Words] /\ registered' \in [Tasks -> BOOLEAN]
      /\ phase' \in [Tasks -> Phases]
  BY <1>1, <1>2 DEF TypeOK
<1>10. kicked' \subseteq CPUs
  <2> DEFINE more == r.s.kick \cup IF r.direct THEN {r.cpu} ELSE {}
  <2>1. more \subseteq CPUs /\ kicked \subseteq CPUs
    BY <1>3, <1>7 DEF TypeOK
  <2> HIDE DEF more
  <2>2. QED
    BY <1>1, <2>1 DEF Kick, more
<1>11. \A c \in CPUs :
         /\ curr'[c] # None => st'[curr'[c]] = "running" /\ taskCpu'[curr'[c]] = c
         /\ picking'[c] => dsq'[LocalDsq(c)] # <<>>
  <2>1. \A c \in CPUs : curr[c] # None => /\ curr[c] \in Tasks /\ curr[c] # t
                                          /\ st[curr[c]] = "running" /\ taskCpu[curr[c]] = c
    BY <1>2 DEF TypeOK, Places
  <2>2. QED
    BY <1>1, <1>6, <1>7, <1>8, <2>1 DEF Places
<1>12. TypeOK' /\ Places'
  BY <1>2, <1>3, <1>4, <1>6, <1>8, <1>9, <1>10, <1>11, TaskStep
<1>13. ASSUME mask = CPUs, Backed
       PROVE  Backed'
  BY <1>3, <1>4, <1>13, BackedStep DEF Sound, Faithful
<1>14. ASSUME mask = CPUs, Backed, Settled, Recorded
       PROVE  Settled'
  <2>1. Sound(t, r.s, Owns(t))
    BY <1>3, <1>14
  <2>2. to \in States /\ to # "granting"
    BY <1>3
  <2>3. QED
    BY <1>3, <1>4, <1>12, <1>13, <1>14, <2>1, <2>2, SoundSettles
<1>15. QED
  BY <1>12, <1>13, <1>14 DEF Kept

\* An enqueue that runs from the runqueue of here, from a sound outcome s.
LEMMA EnqueueKeeps ==
  ASSUME TypeOK, Places, NEW t \in Tasks, st[t] # "queued",
         NEW r, r.s \in LawfulOutcomes(t), Posted(t, r),
         NEW q, NEW f \in [Tasks -> CPUs], Placed(q, f, st),
         \A u \in Tasks : f[u] \in Affinity[u] /\ (st[u] # "queued" => f[u] = taskCpu[u]),
         NEW here \in CPUs, Enqueue(t, r, q, f, here),
         curr' \in [CPUs -> Tasks \cup {None}], picking' \in [CPUs -> BOOLEAN],
         \A c \in CPUs : /\ curr'[c] # None => curr'[c] = curr[c] /\ curr[c] # t
                         /\ picking'[c] => q[LocalDsq(c)] # <<>>,
         seq' \in [CPUs -> 0..(DrainInterval - 1)], Still, UNCHANGED <<word, registered>>,
         phase' \in [Tasks -> Phases],
         mask = CPUs /\ Backed => \A k : (k => Owns(t)) =>
             Sound(t, r.s, k) /\ (r.st # "queued" => ~r.s.x.holds)
  PROVE  Kept
<1>1. /\ r.st \in States \ {"running"} /\ Effect(t, r.s, r.st)
      /\ r.st \in {"granting", "parking"} => r.s.x # NoCtx /\ r.s.x.cpu \in Affinity[t]
      /\ Placed(dsq', taskCpu', st') /\ taskCpu' \in [Tasks -> CPUs]
      /\ \A u \in Tasks : taskCpu'[u] \in Affinity[u] /\ (u # t => taskCpu'[u] = f[u])
      /\ \A c \in CPUs : q[LocalDsq(c)] # <<>> => dsq'[LocalDsq(c)] # <<>>
      /\ kicked' \subseteq CPUs
  BY EnqueuePlaces
<1>2. \A c \in CPUs :
         /\ curr'[c] # None => st'[curr'[c]] = "running" /\ taskCpu'[curr'[c]] = c
         /\ picking'[c] => dsq'[LocalDsq(c)] # <<>>
  <2> SUFFICES ASSUME NEW c \in CPUs
               PROVE  /\ curr'[c] # None => st'[curr'[c]] = "running" /\ taskCpu'[curr'[c]] = c
                      /\ picking'[c] => dsq'[LocalDsq(c)] # <<>>
    OBVIOUS
  <2>1. picking'[c] => dsq'[LocalDsq(c)] # <<>>
    BY <1>1
  <2>2. ASSUME curr'[c] # None
        PROVE  st'[curr'[c]] = "running" /\ taskCpu'[curr'[c]] = c
    <3>1. /\ curr'[c] = curr[c] /\ curr[c] # t /\ curr[c] \in Tasks
          /\ st[curr[c]] = "running" /\ taskCpu[curr[c]] = c
      BY <2>2 DEF TypeOK, Places
    <3>2. st'[curr[c]] = "running"
      BY <1>1, <3>1, Effects
    <3>3. taskCpu'[curr[c]] = c
      BY <1>1, <3>1
    <3>4. QED
      BY <3>1, <3>2, <3>3
  <2>3. QED
    BY <2>1, <2>2
<1>3. word' \in [Tasks -> Words] /\ registered' \in [Tasks -> BOOLEAN]
  BY DEF TypeOK
<1>4. TypeOK' /\ Places'
  BY <1>1, <1>2, <1>3, TaskStep
<1>5. ASSUME mask = CPUs, Backed
      PROVE  Backed'
  <2>1. Sound(t, r.s, FALSE) /\ (r.st # "queued" => ~r.s.x.holds)
    BY <1>5
  <2>2. /\ r.s.x.holds => r.s.x.cpu # None
        /\ \A c \in CPUs : /\ r.s.owner[c] = t => r.s.x.holds /\ r.s.x.cpu = c
                           /\ r.s.owner[c] \in {None, t, owner[c]}
    BY <2>1 DEF Sound, Faithful
  <2>3. r.st \in States /\ (r.st \in {"granting", "parking"} => ~r.s.x.holds)
    BY <1>1, <2>1
  <2>4. QED
    BY <1>1, <1>5, <2>2, <2>3, BackedStep
<1>6. ASSUME mask = CPUs, Backed, Settled, Recorded
      PROVE  Settled'
  <2>1. Sound(t, r.s, Owns(t))
    BY <1>6
  <2>2. r.st = "granting" => r.s.owner[r.s.x.cpu] \in {None, t}
    BY DEF Posted, CanGrant
  <2>3. QED
    BY <1>1, <1>4, <1>5, <1>6, <2>1, <2>2, SoundSettles
<1>7. QED
  BY <1>4, <1>5, <1>6 DEF Kept

LEMMA WakeEnqueues ==
  ASSUME TypeOK, Places, NEW t \in Tasks, K_WakeEnqueue(t)
  PROVE  Kept
<1>1. PICK r \in accordin_enqueue(t, Start(ctx[t])) : Enqueue(t, r, dsq, taskCpu, taskCpu[t])
  BY DEF K_WakeEnqueue
<1>2. /\ st[t] = "waking" /\ RqFree(taskCpu[t]) /\ UNCHANGED <<curr, picking, seq>>
      /\ Still /\ UNCHANGED <<word, registered, phase>>
  BY DEF K_WakeEnqueue, Still, maskVars, userVars
<1>3. /\ Placed(dsq, taskCpu, st) /\ taskCpu \in [Tasks -> CPUs] /\ taskCpu[t] \in CPUs
      /\ \A u \in Tasks : taskCpu[u] \in Affinity[u] /\ (st[u] # "queued" => taskCpu[u] = taskCpu[u])
  BY DEF TypeOK, Places
<1>4. /\ curr' \in [CPUs -> Tasks \cup {None}] /\ picking' \in [CPUs -> BOOLEAN]
      /\ seq' \in [CPUs -> 0..(DrainInterval - 1)] /\ phase' \in [Tasks -> Phases]
  BY <1>2 DEF TypeOK
<1>5. \A c \in CPUs : /\ curr'[c] # None => curr'[c] = curr[c] /\ curr[c] # t
                      /\ picking'[c] => dsq[LocalDsq(c)] # <<>>
  BY <1>2 DEF TypeOK, Places
<1>6. /\ Start(ctx[t]) \in LawfulOutcomes(t) /\ Start(ctx[t]).x = ctx[t]
      /\ Backed => \A k : (k => Owns(t)) => Sound(t, Start(ctx[t]), k)
  BY StartsSoundly DEF Start
<1>7. /\ r.s \in LawfulOutcomes(t) /\ Posted(t, r)
      /\ \A k : Sound(t, Start(ctx[t]), k) => Sound(t, r.s, k) /\ (r.st # "queued" => ~r.s.x.holds)
  BY <1>6, EnqueuesSoundly
<1>8. QED
  BY <1>1, <1>2, <1>3, <1>4, <1>5, <1>6, <1>7, EnqueueKeeps

\* An enqueue that found its admission CPU free grants it now, whoever the
\* owner is by then.
LEMMA Grants ==
  ASSUME TypeOK, Places, NEW t \in Tasks, grant_admission(t)
  PROVE  Kept
<1> DEFINE c == ctx[t].cpu
           s == Granted(t, Start(ctx[t]), c)
           r == To(s, LocalDsq(c))
<1>1. /\ st[t] = "granting" /\ ctx[t] \in CtxRecords /\ ctx[t] # NoCtx /\ c \in Affinity[t] /\ c \in CPUs
      /\ taskCpu \in [Tasks -> CPUs] /\ owner \in [CPUs -> Tasks \cup {None}]
  BY Picks DEF grant_admission, TypeOK, Places
<1>2. /\ Enqueue(t, r, dsq, taskCpu, taskCpu[t]) /\ UNCHANGED <<curr, picking, seq>>
      /\ Still /\ UNCHANGED <<word, registered, phase>>
  BY DEF grant_admission, Still, maskVars, userVars
<1>3. s \in LawfulOutcomes(t)
  <2>1. Start(ctx[t]) \in LawfulResults(t)
    BY <1>1, StartsSoundly, Fetches
  <2>2. \A have \in BOOLEAN : Granted(t, Start(ctx[t]), c) \in LawfulResults(t)
    BY <1>1, <2>1, LawfulUpdates
  <2>3. QED
    BY <2>2 DEF LawfulOutcomes
<1>4. /\ s.x = [seen |-> TRUE, holds |-> TRUE, must |-> FALSE, cpu |-> c]
      /\ s.owner = [owner EXCEPT ![c] = t]
  BY DEF Granted, Start
<1>5. r.s = s /\ r.st = "queued" /\ Posted(t, r)
  BY <1>1, PostedTo DEF To
<1> HIDE DEF s, r
<1>6. /\ Placed(dsq, taskCpu, st) /\ taskCpu[t] \in CPUs /\ \A u \in Tasks : taskCpu[u] \in Affinity[u]
  BY DEF TypeOK, Places
<1>7. /\ Effect(t, s, "queued") /\ Placed(dsq', taskCpu', st') /\ taskCpu' \in [Tasks -> CPUs]
      /\ \A u \in Tasks : taskCpu'[u] \in Affinity[u] /\ (u # t => taskCpu'[u] = taskCpu[u])
      /\ \A e \in CPUs : dsq[LocalDsq(e)] # <<>> => dsq'[LocalDsq(e)] # <<>>
      /\ kicked' \subseteq CPUs
  BY <1>1, <1>2, <1>3, <1>5, <1>6, EnqueuePlaces
<1>8. "queued" \in States /\ "queued" \notin {"granting", "parking"}
  BY DEF States
<1>9. \A e \in CPUs :
         /\ curr'[e] # None => st'[curr'[e]] = "running" /\ taskCpu'[curr'[e]] = e
         /\ picking'[e] => dsq'[LocalDsq(e)] # <<>>
  <2>1. \A e \in CPUs : curr[e] # None => /\ curr[e] \in Tasks /\ curr[e] # t
                                          /\ st[curr[e]] = "running" /\ taskCpu[curr[e]] = e
    BY <1>1 DEF TypeOK, Places
  <2>2. \A u \in Tasks : u # t => st'[u] = st[u]
    BY <1>3, <1>7, <1>8, Effects
  <2>3. QED
    BY <1>2, <1>7, <2>1, <2>2 DEF Places
<1>10. /\ curr' \in [CPUs -> Tasks \cup {None}] /\ picking' \in [CPUs -> BOOLEAN]
       /\ seq' \in [CPUs -> 0..(DrainInterval - 1)] /\ phase' \in [Tasks -> Phases]
       /\ word' \in [Tasks -> Words] /\ registered' \in [Tasks -> BOOLEAN]
  BY <1>2 DEF TypeOK
<1>11. TypeOK' /\ Places'
  BY <1>2, <1>3, <1>7, <1>8, <1>9, <1>10, TaskStep
<1>12. ASSUME Backed
       PROVE  \A e \in CPUs : /\ s.owner[e] = t => s.x.holds /\ s.x.cpu = e
                              /\ s.owner[e] \in {None, t, owner[e]}
  BY <1>1, <1>4, <1>12 DEF Backed
<1>13. s.x.holds /\ s.x.cpu = c /\ c # None
  BY <1>1, <1>4, Picks
<1>14. ASSUME Backed
       PROVE  Backed'
  BY <1>3, <1>7, <1>8, <1>12, <1>13, <1>14, BackedStep
<1>15. ASSUME Backed, Settled, Recorded
       PROVE  Settled'
  <2>1. Owns(t) => Claimed(t, s)
    BY <1>1, <1>4, <1>13 DEF Claimed
  <2>2. \A e \in CPUs : /\ s.owner[e] \in {None, t, owner[e]}
                        /\ s.owner[e] = owner[e] \/ (st[t] = "granting" /\ ctx[t].cpu = e)
    BY <1>1, <1>4
  <2>3. QED
    BY <1>3, <1>7, <1>8, <1>11, <1>14, <1>15, <2>1, <2>2, SettledStep
<1>16. QED
  BY <1>11, <1>14, <1>15 DEF Kept

\* An enqueue that found its admission CPU taken queues the task there.
LEMMA Parks ==
  ASSUME TypeOK, Places, NEW t \in Tasks, park(t)
  PROVE  Kept
<1> DEFINE c == ctx[t].cpu
           s == Start(ctx[t])
           r == To(s, INACTIVE(c))
<1>1. /\ st[t] = "parking" /\ c \in Affinity[t] /\ c \in CPUs
      /\ taskCpu \in [Tasks -> CPUs] /\ owner \in [CPUs -> Tasks \cup {None}]
  BY Picks DEF park, TypeOK, Places
<1>2. /\ Enqueue(t, r, dsq, taskCpu, taskCpu[t]) /\ UNCHANGED <<curr, picking, seq>>
      /\ Still /\ UNCHANGED <<word, registered, phase>>
  BY DEF park, Still, maskVars, userVars
<1>3. /\ s \in LawfulOutcomes(t) /\ s.owner = owner
      /\ Backed => \A k : (k => Owns(t)) => Sound(t, s, k)
  BY StartsSoundly DEF Start
<1>5. r.s = s /\ r.st = "queued" /\ Posted(t, r)
  BY <1>1, PostedTo DEF To
<1> HIDE DEF s, r
<1>6. /\ Placed(dsq, taskCpu, st) /\ taskCpu[t] \in CPUs /\ \A u \in Tasks : taskCpu[u] \in Affinity[u]
  BY DEF TypeOK, Places
<1>7. /\ Effect(t, s, "queued") /\ Placed(dsq', taskCpu', st') /\ taskCpu' \in [Tasks -> CPUs]
      /\ \A u \in Tasks : taskCpu'[u] \in Affinity[u] /\ (u # t => taskCpu'[u] = taskCpu[u])
      /\ \A e \in CPUs : dsq[LocalDsq(e)] # <<>> => dsq'[LocalDsq(e)] # <<>>
      /\ kicked' \subseteq CPUs
  BY <1>1, <1>2, <1>3, <1>5, <1>6, EnqueuePlaces
<1>8. "queued" \in States /\ "queued" \notin {"granting", "parking"}
  BY DEF States
<1>9. \A e \in CPUs :
         /\ curr'[e] # None => st'[curr'[e]] = "running" /\ taskCpu'[curr'[e]] = e
         /\ picking'[e] => dsq'[LocalDsq(e)] # <<>>
  <2>1. \A e \in CPUs : curr[e] # None => /\ curr[e] \in Tasks /\ curr[e] # t
                                          /\ st[curr[e]] = "running" /\ taskCpu[curr[e]] = e
    BY <1>1 DEF TypeOK, Places
  <2>2. \A u \in Tasks : u # t => st'[u] = st[u]
    BY <1>3, <1>7, <1>8, Effects
  <2>3. QED
    BY <1>2, <1>7, <2>1, <2>2 DEF Places
<1>10. /\ curr' \in [CPUs -> Tasks \cup {None}] /\ picking' \in [CPUs -> BOOLEAN]
       /\ seq' \in [CPUs -> 0..(DrainInterval - 1)] /\ phase' \in [Tasks -> Phases]
       /\ word' \in [Tasks -> Words] /\ registered' \in [Tasks -> BOOLEAN]
  BY <1>2 DEF TypeOK
<1>11. TypeOK' /\ Places'
  BY <1>2, <1>3, <1>7, <1>8, <1>9, <1>10, TaskStep
<1>12. ASSUME Backed
       PROVE  Backed'
  <2>1. Sound(t, s, FALSE)
    BY <1>3, <1>12
  <2>2. /\ s.x.holds => s.x.cpu # None
        /\ \A e \in CPUs : /\ s.owner[e] = t => s.x.holds /\ s.x.cpu = e
                           /\ s.owner[e] \in {None, t, owner[e]}
    BY <2>1 DEF Sound, Faithful
  <2>3. QED
    BY <1>3, <1>7, <1>8, <1>12, <2>2, BackedStep
<1>13. ASSUME Backed, Settled, Recorded
       PROVE  Settled'
  <2>1. Sound(t, s, Owns(t))
    BY <1>3, <1>13
  <2>2. QED
    BY <1>3, <1>7, <1>8, <1>11, <1>12, <1>13, <2>1, SoundSettles
<1>14. QED
  BY <1>11, <1>12, <1>13 DEF Kept

\* A step that writes nothing that the scheduler keeps of a task.
LEMMA QuietStep ==
  ASSUME TypeOK, Places, UNCHANGED <<ctx, owner, st, curr>>,
         Placed(dsq', taskCpu', st), taskCpu' \in [Tasks -> CPUs],
         \A u \in Tasks : taskCpu'[u] \in Affinity[u] /\ (st[u] # "queued" => taskCpu'[u] = taskCpu[u]),
         picking' \in [CPUs -> BOOLEAN], \A c \in CPUs : picking'[c] => dsq'[LocalDsq(c)] # <<>>,
         kicked' \subseteq CPUs, seq' \in [CPUs -> 0..(DrainInterval - 1)],
         stats_only' \in BOOLEAN, mask' \in SUBSET CPUs, pushes' \in 0..MaxPushes,
         nudges' \in Seq([cpu : CPUs, drain : BOOLEAN]),
         word' \in [Tasks -> Words], registered' \in [Tasks -> BOOLEAN], phase' \in [Tasks -> Phases]
  PROVE  Kept
<1>1. TypeOK'
  BY DEF TypeOK, Placed
<1>2. Places'
  <2>1. Placed(dsq', taskCpu', st')
    OBVIOUS
  <2>2. \A c \in CPUs : curr'[c] # None => st'[curr'[c]] = "running" /\ taskCpu'[curr'[c]] = c
    <3> SUFFICES ASSUME NEW c \in CPUs, curr'[c] # None
                 PROVE  st'[curr'[c]] = "running" /\ taskCpu'[curr'[c]] = c
      OBVIOUS
    <3>1. curr[c] \in Tasks /\ st[curr[c]] = "running" /\ taskCpu[curr[c]] = c
      BY DEF TypeOK, Places
    <3>2. QED
      BY <3>1
  <2>3. \A u \in Tasks :
          /\ taskCpu'[u] \in Affinity[u]
          /\ ctx'[u] # NoCtx => ctx'[u].cpu \in Affinity[u] \cup {None}
          /\ st'[u] \in {"granting", "parking"} => ctx'[u] # NoCtx /\ ctx'[u].cpu \in Affinity[u]
    BY DEF Places
  <2>4. QED
    BY <2>1, <2>2, <2>3 DEF Places
<1>3. Backed => Backed'
  BY DEF Backed
<1>4. ASSUME Settled, Recorded
      PROVE  Settled'
  <2>1. overlapped' = overlapped \cap Tasks
    BY <1>4 DEF Recorded, Gets
  <2>2. QED
    BY <1>4, <2>1 DEF Settled, GrantUnderWay
<1>5. QED
  BY <1>1, <1>2, <1>3, <1>4 DEF Kept

\* What the kernel does in a step that leaves the queues and the tasks alone.
LEMMA SameKernel ==
  ASSUME TypeOK, Places, UNCHANGED <<ctx, owner, kernelVars>>
  PROVE  /\ UNCHANGED <<ctx, owner, st, curr>> /\ kicked' \subseteq CPUs
         /\ Placed(dsq', taskCpu', st) /\ taskCpu' \in [Tasks -> CPUs]
         /\ \A u \in Tasks : /\ taskCpu'[u] \in Affinity[u]
                             /\ st[u] # "queued" => taskCpu'[u] = taskCpu[u]
         /\ picking' \in [CPUs -> BOOLEAN] /\ \A c \in CPUs : picking'[c] => dsq'[LocalDsq(c)] # <<>>
BY DEF TypeOK, Places, kernelVars

\* The outcome of stopping, where the task has a context.
LEMMA StoppedSoundly ==
  ASSUME TypeOK, Places, NEW t \in Tasks, NEW runnable, NEW here, NEW have \in BOOLEAN,
         NEW s \in IF stats_only \/ ctx[t] = NoCtx THEN {Start(ctx[t])}
                   ELSE accordin_stopping(t, ctx[t], runnable, here, have)
  PROVE  /\ s \in LawfulOutcomes(t) /\ (s.x = NoCtx => ctx[t] = NoCtx)
         /\ mask = CPUs /\ Backed => \A k : (k => Owns(t)) => Sound(t, s, k)
<1>1. CASE stats_only \/ ctx[t] = NoCtx
  <2>1. s = Start(ctx[t]) /\ s.x = ctx[t]
    BY <1>1 DEF Start
  <2>2. QED
    BY <2>1, StartsSoundly
<1>2. CASE ~(stats_only \/ ctx[t] = NoCtx)
  <2>1. s \in accordin_stopping(t, ctx[t], runnable, here, have)
    BY <1>2
  <2>2. Start(ctx[t]) \in LawfulResults(t)
    BY <1>2, StartsSoundly, Fetches
  <2>3. /\ s \in LawfulResults(t)
        /\ \A k : mask = CPUs /\ Sound(t, Start(ctx[t]), k) => Sound(t, s, k)
    BY <2>1, <2>2, StopsSoundly
  <2>4. s \in LawfulOutcomes(t) /\ s.x # NoCtx
    BY <2>3, Contexts DEF LawfulOutcomes, LawfulResults, Results
  <2>5. QED
    BY <2>3, <2>4, StartsSoundly
<1>3. QED
  BY <1>1, <1>2

\* A CPU looks for work, and puts its task if it has found some.
LEMMA Preempts ==
  ASSUME TypeOK, Places, NEW c \in CPUs, K_Preempt(c)
  PROVE  Kept
<1> DEFINE t == curr[c]
           b == Balanced(c, owner)
           f == OnCpu(b.task, c)
<1>1. /\ t \in Tasks /\ st[t] = "running" /\ taskCpu[t] = c /\ RqFree(taskCpu[t])
      /\ Still /\ UNCHANGED <<word, registered>>
  BY DEF K_Preempt, TypeOK, Places, Still, maskVars
<1>2. /\ seq' \in [CPUs -> 0..(DrainInterval - 1)] /\ phase' \in [Tasks -> Phases]
      /\ word' \in [Tasks -> Words] /\ registered' \in [Tasks -> BOOLEAN]
  <2>1. phase \in [Tasks -> Phases] /\ "spin" \in Phases
    BY DEF TypeOK, Phases
  <2>2. phase' = [phase EXCEPT ![t] = IF @ = "yield" THEN "spin" ELSE @] /\ seq' = NextSeq(c, owner)
    BY DEF K_Preempt
  <2>3. QED
    BY <1>1, <2>1, <2>2, NextSeqTyped DEF TypeOK
<1>3. CASE b.dsq[LocalDsq(c)] = <<>>
  <2>1. UNCHANGED <<ctx, owner, kernelVars>>
    BY <1>3 DEF K_Preempt
  <2>2. /\ stats_only' \in BOOLEAN /\ mask' \in SUBSET CPUs /\ pushes' \in 0..MaxPushes
        /\ nudges' \in Seq([cpu : CPUs, drain : BOOLEAN])
    BY <1>1 DEF TypeOK, Still
  <2>3. QED
    BY <1>2, <2>1, <2>2, SameKernel, QuietStep
<1>4. CASE b.dsq[LocalDsq(c)] # <<>>
  <2>1. /\ curr' = [curr EXCEPT ![c] = None] /\ picking' = [picking EXCEPT ![c] = TRUE]
        /\ \E have \in HaveUser(t) :
           \E s \in IF stats_only \/ ctx[t] = NoCtx THEN {Start(ctx[t])}
                    ELSE accordin_stopping(t, ctx[t], TRUE, c, have) :
           \E r \in accordin_enqueue(t, s) : Enqueue(t, r, b.dsq, f, c)
    BY <1>4 DEF K_Preempt
  <2> PICK have \in HaveUser(t) :
           \E s \in IF stats_only \/ ctx[t] = NoCtx THEN {Start(ctx[t])}
                    ELSE accordin_stopping(t, ctx[t], TRUE, c, have) :
           \E r \in accordin_enqueue(t, s) : Enqueue(t, r, b.dsq, f, c)
    BY <2>1
  <2> PICK s \in IF stats_only \/ ctx[t] = NoCtx THEN {Start(ctx[t])}
                 ELSE accordin_stopping(t, ctx[t], TRUE, c, have) :
           \E r \in accordin_enqueue(t, s) : Enqueue(t, r, b.dsq, f, c)
    OBVIOUS
  <2>2. PICK r \in accordin_enqueue(t, s) : Enqueue(t, r, b.dsq, f, c)
    OBVIOUS
  <2>3. have \in BOOLEAN
    BY <1>1, Fetches
  <2>4. /\ s \in LawfulOutcomes(t) /\ (s.x = NoCtx => ctx[t] = NoCtx)
        /\ mask = CPUs /\ Backed => \A k : (k => Owns(t)) => Sound(t, s, k)
    BY <1>1, <2>3, StoppedSoundly
  <2>5. /\ r.s \in LawfulOutcomes(t) /\ Posted(t, r)
        /\ \A k : Sound(t, s, k) => Sound(t, r.s, k) /\ (r.st # "queued" => ~r.s.x.holds)
    BY <1>1, <2>4, EnqueuesSoundly
  <2>6. /\ Placed(b.dsq, f, st) /\ f \in [Tasks -> CPUs]
        /\ \A u \in Tasks : f[u] \in Affinity[u] /\ (st[u] # "queued" => f[u] = taskCpu[u])
        /\ \A e \in CPUs : dsq[LocalDsq(e)] # <<>> => b.dsq[LocalDsq(e)] # <<>>
    BY PlacedBalanced
  <2> DEFINE q == b.dsq
  <2> HIDE DEF b, f, q
  <2>7. curr' \in [CPUs -> Tasks \cup {None}] /\ picking' \in [CPUs -> BOOLEAN]
    BY <2>1 DEF TypeOK
  <2>8. ASSUME NEW e \in CPUs
        PROVE  /\ curr'[e] # None => curr'[e] = curr[e] /\ curr[e] # t
               /\ picking'[e] => q[LocalDsq(e)] # <<>>
    <3>1. CASE e = c
      BY <1>4, <2>1, <3>1 DEF TypeOK, q
    <3>2. CASE e # c
      <4>1. curr'[e] = curr[e] /\ picking'[e] = picking[e]
        BY <2>1, <3>2 DEF TypeOK
      <4>2. curr[e] # None => taskCpu[curr[e]] = e
        BY DEF Places
      <4>3. picking[e] => dsq[LocalDsq(e)] # <<>>
        BY DEF Places
      <4>4. QED
        BY <1>1, <2>6, <3>2, <4>1, <4>2, <4>3 DEF q
    <3>3. QED
      BY <3>1, <3>2
  <2>9. mask = CPUs /\ Backed => \A k : (k => Owns(t)) =>
             Sound(t, r.s, k) /\ (r.st # "queued" => ~r.s.x.holds)
    BY <2>4, <2>5
  <2>10. /\ st[t] # "queued" /\ r.s \in LawfulOutcomes(t) /\ Posted(t, r)
         /\ f \in [Tasks -> CPUs] /\ Placed(q, f, st)
         /\ \A u \in Tasks : f[u] \in Affinity[u] /\ (st[u] # "queued" => f[u] = taskCpu[u])
         /\ Enqueue(t, r, q, f, c)
    BY <1>1, <2>2, <2>5, <2>6 DEF q
  <2> HIDE DEF t
  <2>11. QED
    BY <1>1, <1>2, <2>7, <2>8, <2>9, <2>10, EnqueueKeeps
<1>5. QED
  BY <1>3, <1>4

\* The running task leaves its CPU, which looks for work.
LEMMA Leaves ==
  ASSUME TypeOK, Places, NEW c \in CPUs, NEW to \in {"blocked", "exiting"}, Leave(c, to)
  PROVE  Kept
<1> DEFINE t == curr[c]
<1>1. /\ t \in Tasks /\ st[t] = "running" /\ taskCpu[t] = c /\ RqFree(taskCpu[t])
      /\ Still /\ UNCHANGED <<word, registered, phase>> /\ st' = [st EXCEPT ![t] = to]
  BY DEF Leave, TypeOK, Places, Still, maskVars, userVars
<1>2. to \in States /\ to \notin {"granting", "parking", "running", "queued"}
  BY DEF States
<1> PICK have \in HaveUser(t) :
      \E s \in IF stats_only \/ ctx[t] = NoCtx THEN {Start(ctx[t])}
               ELSE accordin_stopping(t, ctx[t], FALSE, c, have) :
        LET b == Balanced(c, s.owner) IN
        /\ ctx' = [ctx EXCEPT ![t] = s.x]
        /\ owner' = s.owner
        /\ seq' = NextSeq(c, s.owner)
        /\ dsq' = b.dsq /\ taskCpu' = OnCpu(b.task, c)
        /\ curr' = [curr EXCEPT ![c] = None]
        /\ picking' = [picking EXCEPT ![c] = b.dsq[LocalDsq(c)] # <<>>]
        /\ Kick(s.kick)
  BY DEF Leave
<1> PICK s \in IF stats_only \/ ctx[t] = NoCtx THEN {Start(ctx[t])}
               ELSE accordin_stopping(t, ctx[t], FALSE, c, have) :
        LET b == Balanced(c, s.owner) IN
        /\ ctx' = [ctx EXCEPT ![t] = s.x]
        /\ owner' = s.owner
        /\ seq' = NextSeq(c, s.owner)
        /\ dsq' = b.dsq /\ taskCpu' = OnCpu(b.task, c)
        /\ curr' = [curr EXCEPT ![c] = None]
        /\ picking' = [picking EXCEPT ![c] = b.dsq[LocalDsq(c)] # <<>>]
        /\ Kick(s.kick)
  OBVIOUS
<1> DEFINE b == Balanced(c, s.owner)
<1>3. /\ ctx' = [ctx EXCEPT ![t] = s.x] /\ owner' = s.owner /\ seq' = NextSeq(c, s.owner)
      /\ dsq' = b.dsq /\ taskCpu' = OnCpu(b.task, c)
      /\ curr' = [curr EXCEPT ![c] = None]
      /\ picking' = [picking EXCEPT ![c] = dsq'[LocalDsq(c)] # <<>>]
      /\ Kick(s.kick)
  OBVIOUS
<1>4. have \in BOOLEAN
  BY <1>1, Fetches
<1>5. /\ s \in LawfulOutcomes(t)
      /\ mask = CPUs /\ Backed => \A k : (k => Owns(t)) => Sound(t, s, k)
  BY <1>1, <1>4, StoppedSoundly
<1>6. /\ Placed(dsq', taskCpu', st) /\ taskCpu' \in [Tasks -> CPUs]
      /\ \A u \in Tasks : taskCpu'[u] \in Affinity[u] /\ (st[u] # "queued" => taskCpu'[u] = taskCpu[u])
      /\ \A e \in CPUs : dsq[LocalDsq(e)] # <<>> => dsq'[LocalDsq(e)] # <<>>
  BY <1>3, PlacedBalanced
<1>7. Effect(t, s, to)
  BY <1>1, <1>3 DEF Effect
<1> HIDE DEF t, b
<1>8. /\ st' \in [Tasks -> States] /\ s.kick \subseteq CPUs
      /\ st'[t] = to /\ \A u \in Tasks : u # t => st'[u] = st[u]
  BY <1>1, <1>2, <1>5, <1>7, Effects
<1>9. Placed(dsq', taskCpu', st')
  <2>1. st[t] # "queued" /\ \A u \in Tasks : u # t => taskCpu'[u] = taskCpu'[u] /\ st'[u] = st[u]
    BY <1>1, <1>8
  <2>2. QED
    BY <1>6, <1>8, <2>1, PlacedElsewhere
<1>10. /\ curr' \in [CPUs -> Tasks \cup {None}] /\ picking' \in [CPUs -> BOOLEAN]
       /\ seq' \in [CPUs -> 0..(DrainInterval - 1)] /\ kicked' \subseteq CPUs
       /\ word' \in [Tasks -> Words] /\ registered' \in [Tasks -> BOOLEAN]
       /\ phase' \in [Tasks -> Phases]
  BY <1>1, <1>3, <1>8, NextSeqTyped DEF TypeOK, Kick
<1>11. ASSUME NEW e \in CPUs
       PROVE  /\ curr'[e] # None => st'[curr'[e]] = "running" /\ taskCpu'[curr'[e]] = e
              /\ picking'[e] => dsq'[LocalDsq(e)] # <<>>
  <2>1. CASE e = c
    BY <1>3, <2>1 DEF TypeOK
  <2>2. CASE e # c
    <3>1. curr'[e] = curr[e] /\ picking'[e] = picking[e]
      BY <1>3, <2>2 DEF TypeOK
    <3>2. curr[e] # None => curr[e] \in Tasks /\ st[curr[e]] = "running" /\ taskCpu[curr[e]] = e
      BY DEF TypeOK, Places
    <3>3. picking[e] => dsq[LocalDsq(e)] # <<>>
      BY DEF Places
    <3>4. QED
      BY <1>1, <1>6, <1>8, <2>2, <3>1, <3>2, <3>3
  <2>3. QED
    BY <2>1, <2>2
<1>12. TypeOK' /\ Places'
  BY <1>1, <1>2, <1>5, <1>6, <1>7, <1>9, <1>10, <1>11, TaskStep
<1>13. ASSUME mask = CPUs, Backed
       PROVE  Backed'
  <2>1. Sound(t, s, FALSE)
    BY <1>5, <1>13
  <2>2. /\ s.x.holds => s.x.cpu # None
        /\ \A e \in CPUs : /\ s.owner[e] = t => s.x.holds /\ s.x.cpu = e
                           /\ s.owner[e] \in {None, t, owner[e]}
    BY <2>1 DEF Sound, Faithful
  <2>3. QED
    BY <1>1, <1>2, <1>5, <1>7, <1>13, <2>2, BackedStep
<1>14. ASSUME mask = CPUs, Backed, Settled, Recorded
       PROVE  Settled'
  <2>1. Sound(t, s, Owns(t))
    BY <1>5, <1>14
  <2>2. QED
    BY <1>1, <1>2, <1>5, <1>7, <1>12, <1>13, <1>14, <2>1, SoundSettles
<1>15. QED
  BY <1>12, <1>13, <1>14 DEF Kept

\* What an exiting task holds is released, and its context goes.
LEMMA ExitsTask ==
  ASSUME TypeOK, Places, NEW t \in Tasks, accordin_exit_task(t)
  PROVE  Kept
<1> DEFINE s0 == IF ctx[t].holds THEN release_admission(t, Start(ctx[t])) ELSE Start(ctx[t])
           s  == [x |-> NoCtx, owner |-> s0.owner, kick |-> s0.kick]
<1>1. /\ st[t] = "exiting" /\ Still /\ UNCHANGED <<seq, word, phase, taskCpu, dsq, curr, picking>>
      /\ registered' = [registered EXCEPT ![t] = FALSE]
      /\ Kick(s0.kick) /\ Effect(t, s, "exited")
  BY DEF accordin_exit_task, Still, maskVars, Effect
<1>2. Start(ctx[t]).x = ctx[t] /\ Start(ctx[t]) \in LawfulOutcomes(t)
  BY StartsSoundly DEF Start
<1>3. ASSUME ctx[t].holds
      PROVE  ctx[t] # NoCtx
  BY <1>3 DEF NoCtx
<1>4. s0 \in LawfulOutcomes(t)
  <2>1. CASE ctx[t].holds
    <3>1. Start(ctx[t]) \in LawfulResults(t)
      BY <1>3, <2>1, StartsSoundly, Fetches
    <3>2. \A have \in BOOLEAN : release_admission(t, Start(ctx[t])) \in LawfulResults(t)
      BY <3>1, LawfulUpdates
    <3>3. QED
      BY <2>1, <3>2 DEF LawfulOutcomes
  <2>2. CASE ~ctx[t].holds
    BY <1>2, <2>2
  <2>3. QED
    BY <2>1, <2>2
<1>5. Backed => \A k : (k => Owns(t)) => Sound(t, s0, k) /\ ~s0.x.holds
  <2>1. CASE ctx[t].holds
    <3>1. Start(ctx[t]) \in LawfulResults(t)
      BY <1>3, <2>1, StartsSoundly, Fetches
    <3>2. \A have \in BOOLEAN : \A k : Sound(t, Start(ctx[t]), k) => Sound(t, release_admission(t, Start(ctx[t])), k)
      BY <3>1, SoundUpdates
    <3>3. ~release_admission(t, Start(ctx[t])).x.holds
      BY <1>2, <3>1 DEF release_admission, LawfulResults, Results, CtxRecords
    <3>4. QED
      BY <2>1, <3>2, <3>3, StartsSoundly
  <2>2. CASE ~ctx[t].holds
    BY <1>2, <2>2, StartsSoundly
  <2>3. QED
    BY <2>1, <2>2
<1>6. s0.owner \in [CPUs -> Tasks \cup {None}] /\ s0.kick \in SUBSET CPUs
  BY <1>4 DEF LawfulOutcomes, LawfulResults, Results, Outcomes
<1> HIDE DEF s0
<1>7. /\ s \in LawfulOutcomes(t) /\ s.x = NoCtx /\ s.owner = s0.owner /\ ~s.x.holds
      /\ Backed => \A k : (k => Owns(t)) => Sound(t, s, k)
  BY <1>5, <1>6 DEF LawfulOutcomes, Outcomes, NoCtx, Sound, Faithful, Claimed
<1>8. "exited" \in States /\ "exited" \notin {"granting", "parking", "running", "queued"}
  BY DEF States
<1> HIDE DEF s
<1>9. /\ st' \in [Tasks -> States] /\ st'[t] = "exited"
      /\ \A u \in Tasks : u # t => st'[u] = st[u]
  BY <1>1, <1>7, <1>8, Effects
<1>10. Placed(dsq', taskCpu', st')
  <2>1. st[t] # "queued" /\ \A u \in Tasks : u # t => taskCpu[u] = taskCpu[u] /\ st'[u] = st[u]
    BY <1>1, <1>9
  <2>2. taskCpu \in [Tasks -> CPUs] /\ Placed(dsq, taskCpu, st)
    BY DEF TypeOK, Places
  <2>3. QED
    BY <1>1, <1>9, <2>1, <2>2, PlacedElsewhere
<1>11. /\ curr' \in [CPUs -> Tasks \cup {None}] /\ picking' \in [CPUs -> BOOLEAN]
       /\ seq' \in [CPUs -> 0..(DrainInterval - 1)] /\ kicked' \subseteq CPUs
       /\ word' \in [Tasks -> Words] /\ registered' \in [Tasks -> BOOLEAN]
       /\ phase' \in [Tasks -> Phases]
       /\ taskCpu' \in [Tasks -> CPUs] /\ \A u \in Tasks : taskCpu'[u] \in Affinity[u]
  BY <1>1, <1>6 DEF TypeOK, Places, Kick
<1>12. \A c \in CPUs :
         /\ curr'[c] # None => st'[curr'[c]] = "running" /\ taskCpu'[curr'[c]] = c
         /\ picking'[c] => dsq'[LocalDsq(c)] # <<>>
  <2>1. \A c \in CPUs : curr[c] # None => /\ curr[c] \in Tasks /\ curr[c] # t
                                          /\ st[curr[c]] = "running" /\ taskCpu[curr[c]] = c
    BY <1>1 DEF TypeOK, Places
  <2>2. QED
    BY <1>1, <1>9, <2>1 DEF Places
<1>13. TypeOK' /\ Places'
  BY <1>1, <1>7, <1>8, <1>10, <1>11, <1>12, TaskStep
<1>14. ASSUME Backed
       PROVE  Backed'
  <2>1. Sound(t, s, FALSE)
    BY <1>7, <1>14
  <2>2. /\ s.x.holds => s.x.cpu # None
        /\ \A e \in CPUs : /\ s.owner[e] = t => s.x.holds /\ s.x.cpu = e
                           /\ s.owner[e] \in {None, t, owner[e]}
    BY <2>1 DEF Sound, Faithful
  <2>3. QED
    BY <1>1, <1>7, <1>8, <1>14, <2>2, BackedStep
<1>15. ASSUME Backed, Settled, Recorded
       PROVE  Settled'
  <2>1. Sound(t, s, Owns(t))
    BY <1>7, <1>15
  <2>2. QED
    BY <1>1, <1>7, <1>8, <1>13, <1>14, <1>15, <2>1, SoundSettles
<1>16. QED
  BY <1>13, <1>14, <1>15 DEF Kept

LEMMA IdleSchedules ==
  ASSUME TypeOK, Places, NEW c \in CPUs, K_IdleSchedule(c)
  PROVE  Kept
<1>1. /\ UNCHANGED <<ctx, owner, st, curr>> /\ Still /\ UNCHANGED <<word, registered, phase>>
      /\ seq' = NextSeq(c, owner) /\ kicked' = kicked \ {c}
      /\ dsq' = Balanced(c, owner).dsq /\ taskCpu' = OnCpu(Balanced(c, owner).task, c)
      /\ picking' = [picking EXCEPT ![c] = dsq'[LocalDsq(c)] # <<>>]
  BY DEF K_IdleSchedule, Still, maskVars, userVars
<1>2. /\ Placed(dsq', taskCpu', st) /\ taskCpu' \in [Tasks -> CPUs]
      /\ \A u \in Tasks : taskCpu'[u] \in Affinity[u] /\ (st[u] # "queued" => taskCpu'[u] = taskCpu[u])
      /\ \A e \in CPUs : dsq[LocalDsq(e)] # <<>> => dsq'[LocalDsq(e)] # <<>>
  BY <1>1, PlacedBalanced
<1>3. /\ picking' \in [CPUs -> BOOLEAN] /\ kicked' \subseteq CPUs
      /\ seq' \in [CPUs -> 0..(DrainInterval - 1)]
      /\ stats_only' \in BOOLEAN /\ mask' \in SUBSET CPUs /\ pushes' \in 0..MaxPushes
      /\ nudges' \in Seq([cpu : CPUs, drain : BOOLEAN])
      /\ word' \in [Tasks -> Words] /\ registered' \in [Tasks -> BOOLEAN]
      /\ phase' \in [Tasks -> Phases]
  BY <1>1, NextSeqTyped DEF TypeOK, Still
<1>4. \A e \in CPUs : picking'[e] => dsq'[LocalDsq(e)] # <<>>
  BY <1>1, <1>2 DEF TypeOK, Places
<1>5. QED
  BY <1>1, <1>2, <1>3, <1>4, QuietStep

\* running and tick only take away from what the owner map says.
LEMMA RefreshKeeps ==
  ASSUME TypeOK, Places, NEW t \in Tasks, NEW c \in CPUs, Refresh(t, c),
         st' = [st EXCEPT ![t] = "running"], Placed(dsq', taskCpu', st'), taskCpu' = taskCpu,
         curr' \in [CPUs -> Tasks \cup {None}], picking' \in [CPUs -> BOOLEAN],
         \A e \in CPUs : /\ curr'[e] # None => taskCpu[curr'[e]] = e
                                               /\ (curr'[e] = t \/ curr'[e] = curr[e])
                         /\ picking'[e] => dsq'[LocalDsq(e)] # <<>>,
         Still, UNCHANGED <<seq, word, registered, phase>>
  PROVE  Kept
<1>1. PICK s \in LawfulOutcomes(t) :
        /\ ctx' = [ctx EXCEPT ![t] = s.x] /\ owner' = s.owner /\ Kick(s.kick)
        /\ ctx[t] # NoCtx => s.x # NoCtx
        /\ \A e \in CPUs : s.owner[e] \in {None, owner[e]}
        /\ Backed => \A k : (k => Owns(t)) => Sound(t, s, k)
  BY RefreshesSoundly
<1>2. /\ Effect(t, s, "running") /\ "running" \in States
      /\ "running" \notin {"granting", "parking"}
  BY <1>1 DEF Effect, States
<1>3. /\ st'[t] = "running" /\ s.kick \subseteq CPUs
      /\ \A u \in Tasks : u # t => st'[u] = st[u]
  BY <1>1, <1>2, Effects
<1>4. /\ kicked' \subseteq CPUs /\ seq' \in [CPUs -> 0..(DrainInterval - 1)]
      /\ word' \in [Tasks -> Words] /\ registered' \in [Tasks -> BOOLEAN]
      /\ phase' \in [Tasks -> Phases]
      /\ taskCpu' \in [Tasks -> CPUs] /\ \A u \in Tasks : taskCpu'[u] \in Affinity[u]
  BY <1>1, <1>3 DEF TypeOK, Places, Kick
<1>5. ASSUME NEW e \in CPUs
      PROVE  /\ curr'[e] # None => st'[curr'[e]] = "running" /\ taskCpu'[curr'[e]] = e
             /\ picking'[e] => dsq'[LocalDsq(e)] # <<>>
  <2>1. curr[e] # None => curr[e] \in Tasks /\ st[curr[e]] = "running"
    BY DEF TypeOK, Places
  <2>2. QED
    BY <1>3, <2>1
<1>6. TypeOK' /\ Places'
  BY <1>1, <1>2, <1>4, <1>5, TaskStep
<1>7. ASSUME Backed
      PROVE  Backed'
  <2>1. Sound(t, s, FALSE)
    BY <1>1, <1>7
  <2>2. /\ s.x.holds => s.x.cpu # None
        /\ \A e \in CPUs : /\ s.owner[e] = t => s.x.holds /\ s.x.cpu = e
                           /\ s.owner[e] \in {None, t, owner[e]}
    BY <2>1 DEF Sound, Faithful
  <2>3. QED
    BY <1>1, <1>2, <1>7, <2>2, BackedStep
<1>8. ASSUME Backed, Settled, Recorded
      PROVE  Settled'
  <2>1. Sound(t, s, Owns(t))
    BY <1>1, <1>8
  <2>2. QED
    BY <1>1, <1>2, <1>6, <1>7, <1>8, <2>1, SoundSettles
<1>9. QED
  BY <1>6, <1>7, <1>8 DEF Kept

LEMMA Runs ==
  ASSUME TypeOK, Places, NEW c \in CPUs, accordin_running(c)
  PROVE  Kept
<1> DEFINE t == Head(dsq[LocalDsq(c)])
<1>1. /\ picking[c] /\ Refresh(t, c) /\ dsq' = [dsq EXCEPT ![LocalDsq(c)] = Tail(@)]
      /\ curr' = [curr EXCEPT ![c] = t] /\ picking' = [picking EXCEPT ![c] = FALSE]
      /\ st' = [st EXCEPT ![t] = "running"] /\ taskCpu' = taskCpu
      /\ Still /\ UNCHANGED <<seq, word, registered, phase>>
  BY DEF accordin_running, Still, maskVars, userVars
<1>2. /\ st \in [Tasks -> States] /\ Placed(dsq, taskCpu, st) /\ dsq[LocalDsq(c)] # <<>>
      /\ dsq \in [DsqIds -> Seq(Tasks)]
  BY <1>1 DEF TypeOK, Places
<1>3. /\ t \in Tasks /\ st[t] = "queued" /\ taskCpu[t] = c
      /\ Placed(dsq', taskCpu', st')
  <2>1. /\ t \in Tasks /\ st[t] = "queued" /\ taskCpu[t] = c
        /\ Placed([dsq EXCEPT ![LocalDsq(c)] = Tail(@)], taskCpu, [st EXCEPT ![t] = "running"])
    BY <1>2, PlacedRunning
  <2>2. QED
    BY <1>1, <2>1
<1> HIDE DEF t
<1>4. curr' \in [CPUs -> Tasks \cup {None}] /\ picking' \in [CPUs -> BOOLEAN]
  BY <1>1, <1>3 DEF TypeOK
<1>5. ASSUME NEW e \in CPUs
      PROVE  /\ curr'[e] # None => taskCpu[curr'[e]] = e /\ (curr'[e] = t \/ curr'[e] = curr[e])
             /\ picking'[e] => dsq'[LocalDsq(e)] # <<>>
  <2>1. CASE e = c
    BY <1>1, <1>3, <2>1 DEF TypeOK
  <2>2. CASE e # c
    <3>1. curr'[e] = curr[e] /\ picking'[e] = picking[e]
      BY <1>1, <2>2 DEF TypeOK
    <3>2. dsq'[LocalDsq(e)] = dsq[LocalDsq(e)]
      BY <1>1, <1>2, <2>2, Ids
    <3>3. QED
      BY <3>1, <3>2 DEF Places
  <2>3. QED
    BY <2>1, <2>2
<1>6. QED
  BY <1>1, <1>3, <1>4, <1>5, RefreshKeeps

LEMMA Ticks ==
  ASSUME TypeOK, Places, NEW c \in CPUs, accordin_tick(c)
  PROVE  Kept
<1> DEFINE t == curr[c]
<1>1. /\ t \in Tasks /\ st[t] = "running" /\ Refresh(t, c)
      /\ UNCHANGED <<curr, picking, st, taskCpu, dsq>>
      /\ Still /\ UNCHANGED <<seq, word, registered, phase>>
  BY DEF accordin_tick, Still, maskVars, userVars, TypeOK, Places
<1> HIDE DEF t
<1>2. st' = [st EXCEPT ![t] = "running"]
  BY <1>1 DEF TypeOK
<1>3. /\ Placed(dsq', taskCpu', st') /\ curr' \in [CPUs -> Tasks \cup {None}]
      /\ picking' \in [CPUs -> BOOLEAN]
  BY <1>1 DEF TypeOK, Places
<1>4. \A e \in CPUs :
         /\ curr'[e] # None => taskCpu[curr'[e]] = e /\ (curr'[e] = t \/ curr'[e] = curr[e])
         /\ picking'[e] => dsq'[LocalDsq(e)] # <<>>
  BY <1>1 DEF Places
<1>5. QED
  BY <1>1, <1>2, <1>3, <1>4, RefreshKeeps

LEMMA UsersStep ==
  ASSUME TypeOK, Places, NEW t \in Tasks,
         \/ FastLock(t) \/ SlowPending(t) \/ Acquire(t)
         \/ MarkEntered(t) \/ Unlock(t) \/ MarkExit(t)
  PROVE  Kept
<1>1. /\ UNCHANGED <<ctx, owner, kernelVars, seq>> /\ Still
      /\ \E to \in Phases : phase' = [phase EXCEPT ![t] = to]
  BY DEF FastLock, SlowPending, Acquire, MarkEntered, Unlock, MarkExit, User, Phases,
         Still, maskVars, mapVars
<1>2. /\ registered' = registered \/ registered' = [registered EXCEPT ![t] = TRUE]
      /\ \E w \in Words : word' = [word EXCEPT ![t] = w]
  <2>1. word[t] \in Words /\ word = [word EXCEPT ![t] = word[t]]
    BY DEF TypeOK
  <2>2. QED
    BY <2>1 DEF FastLock, SlowPending, Acquire, MarkEntered, Unlock, MarkExit, Words, WordBits,
           mark_slow_path_pending, mark_critical_section_entered, mark_critical_section_exit
<1>3. /\ seq' \in [CPUs -> 0..(DrainInterval - 1)]
      /\ stats_only' \in BOOLEAN /\ mask' \in SUBSET CPUs /\ pushes' \in 0..MaxPushes
      /\ nudges' \in Seq([cpu : CPUs, drain : BOOLEAN])
      /\ word' \in [Tasks -> Words] /\ registered' \in [Tasks -> BOOLEAN]
      /\ phase' \in [Tasks -> Phases]
  <2>1. phase' \in [Tasks -> Phases]
    BY <1>1 DEF TypeOK
  <2>2. word' \in [Tasks -> Words] /\ registered' \in [Tasks -> BOOLEAN]
    BY <1>2 DEF TypeOK
  <2>3. QED
    BY <1>1, <2>1, <2>2 DEF TypeOK, Still
<1>4. QED
  BY <1>1, <1>3, SameKernel, QuietStep

\* A push of the mask leaves tasks and queues to the nudges that follow it.
LEMMA SetsMask ==
  ASSUME TypeOK, Places, accordin_set_active_cpus
  PROVE  Kept
<1>1. /\ UNCHANGED <<ctx, owner, kernelVars, seq, stats_only, word, registered, phase>>
      /\ pushes < MaxPushes /\ pushes' = pushes + 1
      /\ \E m \in Masks : mask' = m /\ nudges' = nudge_changed_cpus(mask, m)
  BY DEF accordin_set_active_cpus, mapVars, userVars
<1>2. mask' \in SUBSET CPUs /\ nudges' \in Seq([cpu : CPUs, drain : BOOLEAN])
  <2>1. PICK m \in Masks : mask' = m /\ nudges' = nudge_changed_cpus(mask, m)
    BY <1>1
  <2>2. mask \in SUBSET CPUs /\ m \in SUBSET CPUs
    BY ConstantsAssumption DEF TypeOK
  <2>3. QED
    BY <2>1, <2>2, NudgesExist
<1>3. pushes' \in 0..MaxPushes
  BY <1>1, ConstantsAssumption DEF TypeOK
<1>4. /\ seq' \in [CPUs -> 0..(DrainInterval - 1)] /\ stats_only' \in BOOLEAN
      /\ word' \in [Tasks -> Words] /\ registered' \in [Tasks -> BOOLEAN]
      /\ phase' \in [Tasks -> Phases]
  BY <1>1 DEF TypeOK
<1>5. QED
  BY <1>1, <1>2, <1>3, <1>4, SameKernel, QuietStep

\* A nudge moves the tasks of an inactive queue to the controlled one.
LEMMA Nudges ==
  ASSUME TypeOK, Places, accordin_nudge_cpu
  PROVE  Kept
<1> DEFINE n == Head(nudges)
<1>1. /\ nudges # <<>> /\ nudges' = Tail(nudges) /\ Kick({n.cpu})
      /\ UNCHANGED <<ctx, owner, seq, stats_only, mask, pushes, word, registered, phase>>
      /\ UNCHANGED <<st, taskCpu, curr, picking>>
      /\ dsq' = IF ~stats_only /\ n.drain
                THEN [dsq EXCEPT ![CONTROLLED] = @ \o dsq[INACTIVE(n.cpu)], ![INACTIVE(n.cpu)] = <<>>]
                ELSE dsq
  BY DEF accordin_nudge_cpu, mapVars, userVars
<1>2. /\ n \in [cpu : CPUs, drain : BOOLEAN]
      /\ nudges' \in Seq([cpu : CPUs, drain : BOOLEAN])
  BY <1>1, HeadTailProperties DEF TypeOK
<1> HIDE DEF n
<1>3. n.cpu \in CPUs /\ kicked' \subseteq CPUs
  BY <1>1, <1>2 DEF TypeOK, Kick
<1>4. Placed(dsq, taskCpu, st) /\ dsq \in [DsqIds -> Seq(Tasks)] /\ taskCpu \in [Tasks -> CPUs]
  BY DEF TypeOK, Places
<1>5. Placed(dsq', taskCpu', st) /\ \A c \in CPUs : dsq'[LocalDsq(c)] = dsq[LocalDsq(c)]
  <2>1. CASE ~stats_only /\ n.drain
    <3> DEFINE a == CONTROLLED
               b == INACTIVE(n.cpu)
    <3>1. /\ a \in Shared /\ b \in Shared /\ a # b
          /\ \A c \in CPUs : LocalDsq(c) \in DsqIds /\ LocalDsq(c) # a /\ LocalDsq(c) # b
      BY <1>3, Ids
    <3>2. dsq' = [dsq EXCEPT ![a] = @ \o dsq[b], ![b] = <<>>] /\ taskCpu' = taskCpu
      BY <1>1, <2>1
    <3> HIDE DEF a, b
    <3>3. Placed([dsq EXCEPT ![a] = @ \o dsq[b], ![b] = <<>>], taskCpu, st)
      BY <1>4, <3>1, PlacedDrained
    <3>4. \A c \in CPUs : dsq'[LocalDsq(c)] = dsq[LocalDsq(c)]
      BY <1>4, <3>1, <3>2
    <3>5. QED
      BY <3>2, <3>3, <3>4
  <2>2. CASE ~(~stats_only /\ n.drain)
    BY <1>1, <1>4, <2>2
  <2>3. QED
    BY <2>1, <2>2
<1>6. /\ taskCpu' \in [Tasks -> CPUs]
      /\ \A u \in Tasks : taskCpu'[u] \in Affinity[u] /\ (st[u] # "queued" => taskCpu'[u] = taskCpu[u])
      /\ picking' \in [CPUs -> BOOLEAN] /\ \A c \in CPUs : picking'[c] => dsq'[LocalDsq(c)] # <<>>
  BY <1>1, <1>4, <1>5 DEF TypeOK, Places
<1>7. /\ seq' \in [CPUs -> 0..(DrainInterval - 1)]
      /\ stats_only' \in BOOLEAN /\ mask' \in SUBSET CPUs /\ pushes' \in 0..MaxPushes
      /\ word' \in [Tasks -> Words] /\ registered' \in [Tasks -> BOOLEAN]
      /\ phase' \in [Tasks -> Phases]
  BY <1>1 DEF TypeOK
<1>8. QED
  BY <1>1, <1>2, <1>3, <1>5, <1>6, <1>7, QuietStep

----------------------------------------------------------------------------
(* The invariants, and what follows from them.                             *)

LEMMA Begins == Init => TypeOK /\ Places /\ mask = CPUs /\ Backed
<1> SUFFICES ASSUME Init
             PROVE  TypeOK /\ Places /\ mask = CPUs /\ Backed
  OBVIOUS
<1>1. /\ DrainInterval \in Nat \ {0} /\ MaxPushes \in Nat /\ Modes \subseteq BOOLEAN
      /\ None \notin Tasks /\ None \notin CPUs
  BY ConstantsAssumption
<1>2. /\ ~NoCtx.holds /\ "blocked" \in States /\ "blocked" \notin {"granting", "parking"}
      /\ "out" \in Phases
  BY DEF NoCtx, States, Phases
<1>3. TypeOK
  <2>1. word \in [Tasks -> Words]
    BY DEF Init, Words
  <2>2. nudges \in Seq([cpu : CPUs, drain : BOOLEAN])
    BY DEF Init
  <2>3. dsq \in [DsqIds -> Seq(Tasks)]
    BY DEF Init
  <2>4. /\ ctx \in [Tasks -> CtxRecords \cup {NoCtx}] /\ owner \in [CPUs -> Tasks \cup {None}]
        /\ seq \in [CPUs -> 0..(DrainInterval - 1)]
        /\ stats_only \in BOOLEAN /\ mask \in SUBSET CPUs /\ pushes \in 0..MaxPushes
        /\ registered \in [Tasks -> BOOLEAN] /\ phase \in [Tasks -> Phases]
        /\ st \in [Tasks -> States] /\ taskCpu \in [Tasks -> CPUs]
        /\ curr \in [CPUs -> Tasks \cup {None}]
        /\ picking \in [CPUs -> BOOLEAN] /\ kicked \subseteq CPUs
    BY <1>1, <1>2 DEF Init
  <2>5. QED
    BY <2>1, <2>2, <2>3, <2>4 DEF TypeOK
<1>4. Places
  <2>1. \A d \in DsqIds : DOMAIN dsq[d] = {}
    BY DEF Init
  <2>2. Placed(dsq, taskCpu, st)
    <3>1. \A c \in CPUs : LocalDsq(c) \in DsqIds
      BY Ids
    <3>2. QED
      BY <1>3, <2>1, <3>1 DEF Placed, Distinct, TypeOK
  <2>3. QED
    BY <1>2, <2>2 DEF Init, Places
<1>5. Backed
  BY <1>1, <1>2 DEF Init, Backed
<1>6. QED
  BY <1>3, <1>4, <1>5 DEF Init

\* Every step keeps the types and the places of the tasks; where all CPUs are
\* active it keeps the owner map backed by the contexts.
LEMMA EveryStep == TypeOK /\ Places /\ [Next]_vars => Kept
<1> SUFFICES ASSUME TypeOK, Places, [Next]_vars
             PROVE  Kept
  OBVIOUS
<1>1. ASSUME NEW t \in Tasks,
             K_Wake(t) \/ K_WakeEnqueue(t) \/ grant_admission(t) \/ park(t) \/ accordin_exit_task(t)
      PROVE  Kept
  BY <1>1, Wakes, WakeEnqueues, Grants, Parks, ExitsTask
<1>2. ASSUME NEW c \in CPUs,
             \/ K_Preempt(c) \/ K_Block(c) \/ K_Exit(c) \/ K_IdleSchedule(c)
             \/ accordin_running(c) \/ accordin_tick(c)
      PROVE  Kept
  <2>1. K_Block(c) => Leave(c, "blocked")
    BY DEF K_Block
  <2>2. K_Exit(c) => Leave(c, "exiting")
    BY DEF K_Exit
  <2>3. QED
    BY <1>2, <2>1, <2>2, Preempts, Leaves, IdleSchedules, Runs, Ticks
<1>3. ASSUME NEW t \in Tasks,
             \/ FastLock(t) \/ SlowPending(t) \/ Acquire(t)
             \/ MarkEntered(t) \/ Unlock(t) \/ MarkExit(t)
      PROVE  Kept
  BY <1>3, UsersStep
<1>4. CASE UNCHANGED vars
  <2>1. UNCHANGED <<ctx, owner, kernelVars, seq, stats_only, mask, nudges, pushes, word, registered, phase>>
    BY <1>4 DEF vars, mapVars, maskVars, userVars
  <2>2. /\ seq' \in [CPUs -> 0..(DrainInterval - 1)]
        /\ stats_only' \in BOOLEAN /\ mask' \in SUBSET CPUs /\ pushes' \in 0..MaxPushes
        /\ nudges' \in Seq([cpu : CPUs, drain : BOOLEAN])
        /\ word' \in [Tasks -> Words] /\ registered' \in [Tasks -> BOOLEAN]
        /\ phase' \in [Tasks -> Phases]
    BY <2>1 DEF TypeOK
  <2>3. QED
    BY <2>1, <2>2, SameKernel, QuietStep
<1>5. QED
  BY <1>1, <1>2, <1>3, <1>4, SetsMask, Nudges DEF Next, KernelNext, UserNext

\* The mask changes by a push only.
LEMMA MaskStays ==
  ASSUME MaxPushes = 0, TypeOK, mask = CPUs, [Next]_vars
  PROVE  mask' = CPUs
<1>1. ~accordin_set_active_cpus
  BY DEF accordin_set_active_cpus, TypeOK
<1>2. ASSUME NEW t \in Tasks,
             K_Wake(t) \/ K_WakeEnqueue(t) \/ grant_admission(t) \/ park(t) \/ accordin_exit_task(t)
      PROVE  mask' = CPUs
  BY <1>2 DEF K_Wake, K_WakeEnqueue, grant_admission, park, accordin_exit_task, maskVars
<1>3. ASSUME NEW c \in CPUs,
             \/ K_Preempt(c) \/ K_Block(c) \/ K_Exit(c) \/ K_IdleSchedule(c)
             \/ accordin_running(c) \/ accordin_tick(c)
      PROVE  mask' = CPUs
  BY <1>3 DEF K_Preempt, K_Block, K_Exit, Leave, K_IdleSchedule, accordin_running, accordin_tick,
              maskVars
<1>4. ASSUME NEW t \in Tasks,
             \/ FastLock(t) \/ SlowPending(t) \/ Acquire(t)
             \/ MarkEntered(t) \/ Unlock(t) \/ MarkExit(t)
      PROVE  mask' = CPUs
  BY <1>4 DEF FastLock, SlowPending, Acquire, MarkEntered, Unlock, MarkExit, User, maskVars
<1>5. accordin_nudge_cpu \/ UNCHANGED vars => mask' = CPUs
  BY DEF accordin_nudge_cpu, vars, maskVars
<1>6. QED
  BY <1>1, <1>2, <1>3, <1>4, <1>5 DEF Next, KernelNext, UserNext

\* Every variable has its type, under any mask pushed at any time, with failing
\* reads and in statistics-only mode: no callback sends a task to a CPU or a
\* queue that does not exist, and the controller nudges no CPU that does not
\* exist (bpf/main.bpf.c, all callbacks; nudge_changed_cpus).
THEOREM TypeCorrect == Spec => []TypeOK
<1>1. Init => TypeOK /\ Places
  BY Begins
<1>2. TypeOK /\ Places /\ [Next]_vars => TypeOK' /\ Places'
  BY EveryStep DEF Kept
<1>3. QED
  BY <1>1, <1>2, PTL DEF Spec

\* Each task is in at most one place: in one dispatch queue once, on the one CPU
\* that runs it, or under way in a callback.  A local queue has tasks of its CPU
\* only, and neither the CPU of a task nor the one it is admitted to is outside
\* its affinity, whatever the callbacks of other CPUs and the nudges that drain
\* the inactive queues do (bpf/main.bpf.c, accordin_dispatch, accordin_nudge_cpu).
THEOREM TasksHaveOnePlace == Spec => []Places
<1>1. Init => TypeOK /\ Places
  BY Begins
<1>2. TypeOK /\ Places /\ [Next]_vars => TypeOK' /\ Places'
  BY EveryStep DEF Kept
<1>3. QED
  BY <1>1, <1>2, PTL DEF Spec

\* As long as all CPUs stay active, the owner recorded for a CPU is a task
\* admitted to it, whatever the enqueues under way on different runqueues do to
\* each other: the later of two grants takes the entry, and the task that lost
\* it does not clear it when it releases (grant_admission, release_admission).
THEOREM OwnersAreAdmitted ==
  ASSUME MaxPushes = 0
  PROVE  Spec => []OwnerBacked
<1> DEFINE Inv == TypeOK /\ Places /\ mask = CPUs /\ Backed
<1>1. Init => Inv
  BY Begins
<1>2. Inv /\ [Next]_vars => Inv'
  BY EveryStep, MaskStays DEF Kept
<1>3. Inv => OwnerBacked
  BY DEF TypeOK, Backed, OwnerBacked, Admitted
<1> HIDE DEF Inv
<1>4. QED
  BY <1>1, <1>2, <1>3, PTL DEF Spec

\* As long as all CPUs stay active, a task that believes it is admitted to a
\* CPU is its recorded owner, whatever the callbacks of any number of runqueues
\* do to each other, exits and failing reads included, but for the one race of
\* grant_admission: the task was admitted while another enqueue, that had seen
\* the CPU free, was still to write its grant.
THEOREM HoldersAreOwners ==
  ASSUME MaxPushes = 0
  PROVE  OwnershipSpec => []HolderIsOwner
<1> DEFINE Inv == TypeOK /\ Places /\ mask = CPUs /\ Backed /\ Settled
<1>1. OwnershipInit => Inv
  BY Begins DEF OwnershipInit, Init, Settled, NoCtx
<1>2. Inv /\ [OwnershipNext]_historyVars => Inv'
  <2> SUFFICES ASSUME Inv, [OwnershipNext]_historyVars
               PROVE  Inv'
    OBVIOUS
  <2>1. [Next]_vars
    BY DEF OwnershipNext, historyVars
  <2>2. Kept /\ mask' = CPUs
    BY <2>1, EveryStep, MaskStays
  <2>3. CASE Recorded
    BY <2>2, <2>3 DEF Kept
  <2>4. CASE UNCHANGED historyVars
    <3>1. UNCHANGED <<ctx, owner, st, overlapped>>
      BY <2>4 DEF historyVars, vars, mapVars, kernelVars
    <3>2. Settled'
      BY <3>1 DEF Settled, GrantUnderWay
    <3>3. QED
      BY <2>2, <3>2 DEF Kept
  <2>5. QED
    BY <2>3, <2>4 DEF OwnershipNext
<1>3. Inv => HolderIsOwner
  BY DEF Settled, HolderIsOwner, Admitted
<1> HIDE DEF Inv
<1>4. QED
  BY <1>1, <1>2, <1>3, PTL DEF OwnershipSpec

----------------------------------------------------------------------------
(* Which tasks come into the local queue of an inactive CPU.               *)

\* A task in the global queue has no slow-path history, and statistics-only
\* mode makes no contexts.
Unseen ==
    /\ \A t \in Tasks : t \in Range(dsq[GLOBAL]) => ~ctx[t].seen
    /\ stats_only => \A t \in Tasks : ctx[t] = NoCtx

OnActive(t, c) == Joins(t, LocalDsq(c)) /\ ctx'[t].seen => st[t] = "granting"

Delivered(t, c) ==
    stats_only /\ st[t] \in {"blocked", "waking", "running"} => ~Joins(t, LocalDsq(c))

Followed == Unseen' /\ \A t \in Tasks : \A c \in CPUs \ mask : OnActive(t, c) /\ Delivered(t, c)

\* What an outcome of enqueue must not be.
Destined(t, r) ==
    /\ stats_only => r.s.x = NoCtx
    /\ r.st = "queued" /\ r.to = GLOBAL => ~r.s.x.seen
    /\ \A c \in CPUs \ mask : r.st = "queued" /\ r.to = LocalDsq(c) => ~r.s.x.seen /\ ~stats_only

LEMMA Follows ==
  ASSUME TypeOK, Places, Unseen, stats_only' = stats_only,
         \A t \in Tasks : ctx'[t] = ctx[t] \/ st[t] # "queued" \/ t \notin Range(dsq[GLOBAL]),
         stats_only => \A t \in Tasks : ctx'[t] = NoCtx,
         \A t \in Tasks : t \in Range(dsq'[GLOBAL]) => t \in Range(dsq[GLOBAL]) \/ ~ctx'[t].seen,
         \A t \in Tasks : \A c \in CPUs \ mask : Joins(t, LocalDsq(c)) =>
             t \in Range(dsq[GLOBAL]) \/ st[t] = "granting" \/ (~ctx'[t].seen /\ ~stats_only)
  PROVE  Followed
<1>1. ASSUME NEW t \in Tasks, t \in Range(dsq[GLOBAL])
      PROVE  st[t] = "queued" /\ ~ctx'[t].seen
  <2>1. st[t] = "queued"
    BY <1>1, Ids DEF Places, Placed, Range, Shared
  <2>2. QED
    BY <1>1, <2>1 DEF Unseen
<1>2. Unseen'
  BY <1>1 DEF Unseen
<1>3. ASSUME NEW t \in Tasks, NEW c \in CPUs \ mask
      PROVE  OnActive(t, c) /\ Delivered(t, c)
  BY <1>1 DEF OnActive, Delivered
<1>4. QED
  BY <1>2, <1>3 DEF Followed

\* An inactive CPU, and in statistics-only mode any CPU, takes tasks from the
\* global queue only.
LEMMA Moves ==
  ASSUME TypeOK, NEW c \in CPUs, NEW own
  PROVE  LET b == Balanced(c, own) IN
         \A t \in Tasks :
            /\ t \in Range(b.dsq[GLOBAL]) => t \in Range(dsq[GLOBAL])
            /\ \A e \in CPUs : t \in Range(b.dsq[LocalDsq(e)]) /\ t \notin Range(dsq[LocalDsq(e)])
                  => (e \in mask /\ ~stats_only) \/ t \in Range(dsq[GLOBAL])
<1> DEFINE b == Balanced(c, own).dsq
           l == LocalDsq(c)
<1>1. dsq \in [DsqIds -> Seq(Tasks)]
  BY DEF TypeOK
<1>2. CASE Balanced(c, own) = [dsq |-> dsq, task |-> None]
  BY <1>2
<1>3. ASSUME NEW d \in Shared, NEW i \in DOMAIN dsq[d], d = GLOBAL \/ CallsDispatch(c),
             Balanced(c, own).dsq = [dsq EXCEPT ![d] = RemoveAt(@, i), ![l] = <<dsq[d][i]>>],
             NEW t \in Tasks
      PROVE  /\ t \in Range(b[GLOBAL]) => t \in Range(dsq[GLOBAL])
             /\ \A e \in CPUs : t \in Range(b[LocalDsq(e)]) /\ t \notin Range(dsq[LocalDsq(e)])
                   => (e \in mask /\ ~stats_only) \/ t \in Range(dsq[GLOBAL])
  <2>1. b = [dsq EXCEPT ![d] = RemoveAt(@, i), ![l] = <<dsq[d][i]>>]
    BY <1>3
  <2> HIDE DEF b
  <2>2. /\ d \in DsqIds /\ GLOBAL \in DsqIds /\ l \in DsqIds /\ l # GLOBAL /\ l # d
        /\ \A e \in CPUs : LocalDsq(e) \in DsqIds /\ LocalDsq(e) # d
        /\ \A e \in CPUs : LocalDsq(e) = l => e = c
    BY Ids
  <2> HIDE DEF l
  <2>3. dsq[d] \in Seq(Tasks) /\ i \in 1..Len(dsq[d]) /\ Len(dsq[d]) \in Nat
        /\ DOMAIN dsq[d] = 1..Len(dsq[d])
    BY <1>1, <2>2, LenProperties
  <2>4. Range(RemoveAt(dsq[d], i)) \subseteq Range(dsq[d])
    <3> DEFINE a == RemoveAt(dsq[d], i)
    <3>1. /\ DOMAIN a = 1..(Len(dsq[d]) - 1)
          /\ \A j \in 1..(Len(dsq[d]) - 1) : a[j] = dsq[d][IF j < i THEN j ELSE j + 1]
      BY <2>3, Removed
    <3>2. \A j \in 1..(Len(dsq[d]) - 1) : (IF j < i THEN j ELSE j + 1) \in 1..Len(dsq[d])
      BY <2>3
    <3> HIDE DEF a
    <3>3. QED
      BY <2>3, <3>1, <3>2 DEF Range, a
  <2>5. t \in Range(b[GLOBAL]) => t \in Range(dsq[GLOBAL])
    BY <1>1, <2>1, <2>2, <2>4
  <2>6. ASSUME NEW e \in CPUs, t \in Range(b[LocalDsq(e)]), t \notin Range(dsq[LocalDsq(e)])
        PROVE  (e \in mask /\ ~stats_only) \/ t \in Range(dsq[GLOBAL])
    <3>1. LocalDsq(e) = l
      BY <1>1, <2>1, <2>2, <2>6
    <3>2. e = c /\ b[l] = <<dsq[d][i]>>
      BY <1>1, <2>1, <2>2, <3>1
    <3>3. t = dsq[d][i]
      BY <2>6, <3>1, <3>2 DEF Range
    <3>4. t \in Range(dsq[d])
      BY <3>3 DEF Range
    <3>5. QED
      BY <1>3, <3>2, <3>4 DEF CallsDispatch
  <2>7. QED
    BY <2>5, <2>6
<1>4. CASE Balanced(c, own) # [dsq |-> dsq, task |-> None]
  <2>1. PICK d \in Shared : \E i \in DOMAIN dsq[d] :
          /\ dsq[LocalDsq(c)] = <<>> /\ c \in Affinity[dsq[d][i]]
          /\ d = GLOBAL \/ CallsDispatch(c)
          /\ Balanced(c, own) =
                [dsq  |-> [dsq EXCEPT ![d] = RemoveAt(@, i), ![LocalDsq(c)] = <<dsq[d][i]>>],
                 task |-> dsq[d][i]]
    BY <1>1, <1>4, BalancedForm
  <2>2. PICK i \in DOMAIN dsq[d] :
          /\ d = GLOBAL \/ CallsDispatch(c)
          /\ Balanced(c, own) =
                [dsq  |-> [dsq EXCEPT ![d] = RemoveAt(@, i), ![LocalDsq(c)] = <<dsq[d][i]>>],
                 task |-> dsq[d][i]]
    BY <2>1
  <2>3. Balanced(c, own).dsq = [dsq EXCEPT ![d] = RemoveAt(@, i), ![l] = <<dsq[d][i]>>]
    BY <2>2
  <2>4. QED
    BY <1>3, <2>2, <2>3
<1>5. QED
  BY <1>2, <1>4

\* The queues after an enqueue have one task more, where the outcome says.
LEMMA Enqueued ==
  ASSUME NEW t \in Tasks, NEW r, r.to \in DsqIds, NEW q \in [DsqIds -> Seq(Tasks)], NEW f, NEW here,
         Enqueue(t, r, q, f, here)
  PROVE  \A d \in DsqIds : \A u \in Tasks : u \in Range(dsq'[d]) =>
             u \in Range(q[d]) \/ (u = t /\ r.st = "queued" /\ r.to = d)
<1> SUFFICES ASSUME NEW d \in DsqIds, NEW u \in Tasks, u \in Range(dsq'[d])
             PROVE  u \in Range(q[d]) \/ (u = t /\ r.st = "queued" /\ r.to = d)
  OBVIOUS
<1>1. dsq' = IF r.st = "queued" THEN [q EXCEPT ![r.to] = Append(@, t)] ELSE q
  BY DEF Enqueue
<1>2. dsq'[d] = IF r.st = "queued" /\ r.to = d THEN Append(q[d], t) ELSE q[d]
  BY <1>1
<1>3. Range(Append(q[d], t)) = Range(q[d]) \cup {t}
  BY QueueEdits
<1>4. QED
  BY <1>2, <1>3

LEMMA EnqueueFollows ==
  ASSUME TypeOK, Places, Unseen, stats_only' = stats_only, NEW t \in Tasks, st[t] # "queued",
         NEW r, r.to \in DsqIds, Destined(t, r) \/ (st[t] = "granting" /\ r.to # GLOBAL),
         NEW q \in [DsqIds -> Seq(Tasks)], NEW f, NEW here, Enqueue(t, r, q, f, here),
         \A u \in Tasks :
            /\ u \in Range(q[GLOBAL]) => u \in Range(dsq[GLOBAL])
            /\ \A e \in CPUs : u \in Range(q[LocalDsq(e)]) /\ u \notin Range(dsq[LocalDsq(e)])
                  => (e \in mask /\ ~stats_only) \/ u \in Range(dsq[GLOBAL])
  PROVE  Followed
<1>1. \A d \in DsqIds : \A u \in Tasks : u \in Range(dsq'[d]) =>
         u \in Range(q[d]) \/ (u = t /\ r.st = "queued" /\ r.to = d)
  BY Enqueued
<1>2. /\ ctx \in [Tasks -> CtxRecords \cup {NoCtx}] /\ ctx' = [ctx EXCEPT ![t] = r.s.x]
      /\ GLOBAL \in DsqIds /\ \A c \in CPUs : LocalDsq(c) \in DsqIds
  BY Ids DEF TypeOK, Enqueue
<1>3. ctx'[t] = r.s.x /\ \A u \in Tasks : u # t => ctx'[u] = ctx[u]
  BY <1>2
<1>4. st[t] = "granting" => ~stats_only
  BY DEF Places, Unseen
<1>5. \A u \in Tasks : ctx'[u] = ctx[u] \/ st[u] # "queued"
  BY <1>3
<1>6. stats_only => \A u \in Tasks : ctx'[u] = NoCtx
  BY <1>3, <1>4 DEF Destined, Unseen
<1>7. \A u \in Tasks : u \in Range(dsq'[GLOBAL]) => u \in Range(dsq[GLOBAL]) \/ ~ctx'[u].seen
  BY <1>1, <1>2, <1>3 DEF Destined
<1>8. ASSUME NEW u \in Tasks, NEW c \in CPUs \ mask, Joins(u, LocalDsq(c))
      PROVE  u \in Range(dsq[GLOBAL]) \/ st[u] = "granting" \/ (~ctx'[u].seen /\ ~stats_only)
  BY <1>1, <1>2, <1>3, <1>8 DEF Destined, Joins
<1>9. QED
  BY <1>5, <1>6, <1>7, <1>8, Follows

\* What clear_invalid_admission_cpu and an explicit release leave is active.
LEMMA ClearedIsActive ==
  ASSUME NEW t \in Tasks, NEW s \in LawfulResults(t), NEW have \in BOOLEAN
  PROVE  /\ clear_invalid_admission_cpu(t, s).x.cpu \in Allowed(t) \cup {None}
         /\ release_if_explicit(t, s, have).x.cpu \in {s.x.cpu, None}
<1>1. release_admission(t, s).x.cpu = None
  BY DEF release_admission, LawfulResults, Results, CtxRecords
<1>2. QED
  BY <1>1 DEF clear_invalid_admission_cpu, release_if_explicit

LEMMA QueueNames ==
  /\ CONTROLLED # GLOBAL
  /\ \A c : LocalDsq(c) # GLOBAL /\ LocalDsq(c) # CONTROLLED
  /\ \A c, e : LocalDsq(c) = LocalDsq(e) => c = e
BY DEF GLOBAL, CONTROLLED, LocalDsq

\* A task with slow-path history is sent to an active CPU, or waits.
LEMMA EnqueueCtxDestined ==
  ASSUME stats_only = FALSE, NEW t \in Tasks, NEW s0 \in LawfulResults(t),
         NEW have \in BOOLEAN, NEW r \in enqueue_ctx(t, s0, have)
  PROVE  Destined(t, r)
<1> DEFINE s1 == clear_invalid_admission_cpu(t, refresh_slow_path_seen(t, s0, have))
           s == release_if_explicit(t, s1, have)
           on(c) == [s EXCEPT !.x.cpu = c]
           stays == s.x.cpu # None /\ (s.x.holds \/ s.x.must)
<1>1. s.x.cpu \in Allowed(t) \cup {None}
  <2> DEFINE s2 == refresh_slow_path_seen(t, s0, have)
  <2>1. s2 \in LawfulResults(t)
    BY LawfulUpdates
  <2> HIDE DEF s2
  <2>2. s1 \in LawfulResults(t) /\ s1.x.cpu \in Allowed(t) \cup {None}
    BY <2>1, LawfulUpdates, ClearedIsActive DEF s2
  <2> HIDE DEF s1
  <2>3. s.x.cpu \in {s1.x.cpu, None}
    BY <2>2, ClearedIsActive
  <2>4. QED
    BY <2>2, <2>3
<1> HIDE DEF s1, s
<1>2. \/ stays /\ r = To(s, LocalDsq(s.x.cpu))
      \/ r \in {IF c = None THEN To(s, CONTROLLED)
                ELSE [s |-> on(c), to |-> INACTIVE(c),
                      st |-> IF CanGrant(t, s.owner, c) THEN "granting" ELSE "parking"] :
                c \in requested_cpu(t, s.x)}
      \/ r \in {To(IF c = None THEN s ELSE on(c), CONTROLLED) : c \in requested_cpu(t, s.x)}
      \/ ~s.x.seen /\ \E d : r = To(s, d)
  BY DEF enqueue_ctx, s, s1
<1> HIDE DEF on
<1>3. CASE stays /\ r = To(s, LocalDsq(s.x.cpu))
  <2>1. r.to = LocalDsq(s.x.cpu) /\ s.x.cpu \in mask
    BY <1>1, <1>3 DEF To, Allowed
  <2>2. QED
    BY <2>1, QueueNames DEF Destined
<1>4. CASE r \in {IF c = None THEN To(s, CONTROLLED)
                  ELSE [s |-> on(c), to |-> INACTIVE(c),
                        st |-> IF CanGrant(t, s.owner, c) THEN "granting" ELSE "parking"] :
                  c \in requested_cpu(t, s.x)}
  <2>1. r.to = CONTROLLED \/ r.st # "queued"
    BY <1>4 DEF To
  <2>2. QED
    BY <2>1, QueueNames DEF Destined
<1>5. CASE r \in {To(IF c = None THEN s ELSE on(c), CONTROLLED) : c \in requested_cpu(t, s.x)}
  <2>1. r.to = CONTROLLED
    BY <1>5 DEF To
  <2>2. QED
    BY <2>1, QueueNames DEF Destined
<1>6. CASE ~s.x.seen /\ \E d : r = To(s, d)
  <2>1. r.s = s
    BY <1>6 DEF To
  <2>2. QED
    BY <1>6, <2>1 DEF Destined
<1>7. QED
  BY <1>2, <1>3, <1>4, <1>5, <1>6

LEMMA EnqueuesDestined ==
  ASSUME TypeOK, Places, NEW t \in Tasks, NEW s \in LawfulOutcomes(t),
         s.x = NoCtx => ctx[t] = NoCtx, stats_only => s.x = NoCtx, NEW r \in accordin_enqueue(t, s)
  PROVE  Destined(t, r)
<1>1. CASE stats_only
  <2>1. r \in enqueue_stats_only(t, s) /\ ~NoCtx.seen
    BY <1>1 DEF accordin_enqueue, NoCtx
  <2>2. r = To(s, GLOBAL) \/ \E c \in pick_allowed_cpu(t, None) : c # None /\ r = To(s, LocalDsq(c))
    BY <2>1 DEF enqueue_stats_only
  <2>3. r = To(s, GLOBAL) \/ \E c \in mask : r = To(s, LocalDsq(c))
    BY <2>2, Picks DEF Allowed
  <2>4. CASE r = To(s, GLOBAL)
    BY <1>1, <2>1, <2>4, QueueNames DEF Destined, To
  <2>5. ASSUME NEW c \in mask, r = To(s, LocalDsq(c))
        PROVE  Destined(t, r)
    <3>1. r.s = s /\ r.to = LocalDsq(c)
      BY <2>5 DEF To
    <3>2. QED
      BY <1>1, <3>1, QueueNames DEF Destined
  <2>6. QED
    BY <2>3, <2>4, <2>5
<1>2. CASE stats_only = FALSE
  <2> DEFINE xs == IF s.x = NoCtx THEN get_task_ctx(t) ELSE {s.x}
  <2>1. r \in UNION {IF x = NoCtx THEN {To(s, GLOBAL)}
                     ELSE UNION {enqueue_ctx(t, [s EXCEPT !.x = x], have) : have \in HaveUser(t)} :
                     x \in xs}
    BY <1>2 DEF accordin_enqueue
  <2>2. PICK x \in xs :
          r \in IF x = NoCtx THEN {To(s, GLOBAL)}
                ELSE UNION {enqueue_ctx(t, [s EXCEPT !.x = x], have) : have \in HaveUser(t)}
    BY <2>1
  <2>3. CASE x = NoCtx
    <3>1. r.s = s /\ r.to = GLOBAL /\ s.x = NoCtx /\ ~NoCtx.seen
      BY <2>2, <2>3 DEF To, NoCtx
    <3>2. QED
      BY <1>2, <3>1, QueueNames DEF Destined
  <2>4. CASE x # NoCtx
    <3> DEFINE s0 == [s EXCEPT !.x = x]
    <3>1. s \in Outcomes
      BY DEF LawfulOutcomes, LawfulResults, Outcomes, Results
    <3>2. s0.x = x /\ s0.owner = s.owner /\ s0.kick = s.kick
      BY <3>1 DEF Outcomes
    <3>3. s.x = NoCtx => x = InitCtx
      BY <2>4, Fetches
    <3>4. s.x # NoCtx => s0 = s /\ s \in LawfulResults(t)
      BY <3>1 DEF Outcomes, LawfulOutcomes
    <3>5. InitCtx.cpu = None
      BY DEF InitCtx
    <3>6. s0 \in LawfulResults(t)
      BY <3>1, <3>3, <3>4, <3>5, Contexts DEF Outcomes, Results, LawfulResults
    <3> HIDE DEF s0
    <3>7. PICK have \in HaveUser(t) : r \in enqueue_ctx(t, s0, have)
      BY <2>2, <2>4 DEF s0
    <3>8. have \in BOOLEAN
      BY Fetches
    <3>9. QED
      BY <1>2, <3>6, <3>7, <3>8, EnqueueCtxDestined
  <2>5. QED
    BY <2>3, <2>4
<1>3. QED
  BY <1>1, <1>2 DEF TypeOK

\* A task is inserted directly only without slow-path history, and in
\* statistics-only mode only where the CPU is active.
LEMMA SelectsDestined ==
  ASSUME TypeOK, Places, Unseen, NEW t \in Tasks, NEW r \in WakeTargets(t)
  PROVE  /\ r.direct /\ r.cpu \notin mask => ~r.s.x.seen /\ ~stats_only
         /\ stats_only => r.s.x = NoCtx
<1>1. Start(ctx[t]).x = ctx[t] /\ (stats_only => ctx[t] = NoCtx)
  BY DEF Start, Unseen
<1>2. CASE Cardinality(Affinity[t]) = 1
  <2>1. PICK c \in Affinity[t] : r = [s |-> Start(ctx[t]), cpu |-> c, direct |-> FALSE]
    BY <1>2 DEF WakeTargets
  <2>2. r.s = Start(ctx[t]) /\ r.direct = FALSE
    BY <2>1
  <2>3. QED
    BY <1>1, <2>2
<1>3. CASE Cardinality(Affinity[t]) # 1 /\ stats_only = TRUE
  <2>1. r \in select_cpu_stats_only(t)
    BY <1>3 DEF WakeTargets, accordin_select_cpu
  <2>2. PICK d \in select_cpu_dfl(t) : \E c \in active_or_any(t, d[1]) :
          r = [s |-> Start(ctx[t]), cpu |-> c, direct |-> d[2] /\ c = d[1] /\ c \in Allowed(t)]
    BY <2>1 DEF select_cpu_stats_only
  <2> PICK c \in active_or_any(t, d[1]) :
        r = [s |-> Start(ctx[t]), cpu |-> c, direct |-> d[2] /\ c = d[1] /\ c \in Allowed(t)]
    BY <2>2
  <2>3. r.s = Start(ctx[t]) /\ r.cpu = c /\ r.direct = (d[2] /\ c = d[1] /\ c \in Allowed(t))
    BY <2>2
  <2>4. r.direct => r.cpu \in mask
    BY <2>3 DEF Allowed
  <2>5. QED
    BY <1>1, <2>3, <2>4
<1>4. CASE Cardinality(Affinity[t]) # 1 /\ stats_only = FALSE
  <2>1. r \in UNION {IF x = NoCtx
                  THEN {[s |-> Start(NoCtx), cpu |-> d[1], direct |-> d[2]] : d \in select_cpu_dfl(t)}
                  ELSE UNION {select_cpu_ctx(t, x, have) : have \in HaveUser(t)} :
                x \in get_task_ctx(t)}
    BY <1>4 DEF WakeTargets, accordin_select_cpu
  <2>2. PICK x \in get_task_ctx(t) :
          r \in IF x = NoCtx
                THEN {[s |-> Start(NoCtx), cpu |-> d[1], direct |-> d[2]] : d \in select_cpu_dfl(t)}
                ELSE UNION {select_cpu_ctx(t, x, have) : have \in HaveUser(t)}
    BY <2>1
  <2>3. CASE x = NoCtx
    <3>1. r.s = Start(NoCtx)
      BY <2>2, <2>3
    <3>2. ~r.s.x.seen
      BY <3>1 DEF Start, NoCtx
    <3>3. QED
      BY <1>4, <3>2
  <2>4. CASE x # NoCtx
    <3>1. PICK have \in HaveUser(t) : r \in select_cpu_ctx(t, x, have)
      BY <2>2, <2>4
    <3> DEFINE s == clear_invalid_admission_cpu(t, refresh_slow_path_seen(t, Start(x), have))
    <3>2. r.direct = FALSE \/ (r.s = s /\ ~s.x.seen)
      BY <3>1 DEF select_cpu_ctx
    <3>3. QED
      BY <1>4, <3>2
  <2>5. QED
    BY <2>3, <2>4
<1>5. QED
  BY <1>2, <1>3, <1>4 DEF TypeOK

LEMMA WakeFollows ==
  ASSUME TypeOK, Places, Unseen, NEW t \in Tasks, K_Wake(t)
  PROVE  Followed
<1>1. PICK r \in WakeTargets(t) :
        /\ ctx' = [ctx EXCEPT ![t] = r.s.x]
        /\ dsq' = IF r.direct THEN [dsq EXCEPT ![LocalDsq(r.cpu)] = Append(@, t)] ELSE dsq
  BY DEF K_Wake
<1>2. st[t] = "blocked" /\ stats_only' = stats_only
  BY DEF K_Wake, maskVars
<1>3. /\ r.cpu \in CPUs
      /\ r.direct /\ r.cpu \notin mask => ~r.s.x.seen /\ ~stats_only
      /\ stats_only => r.s.x = NoCtx
  BY SelectsSoundly, Picks, SelectsDestined
<1>4. /\ ctx \in [Tasks -> CtxRecords \cup {NoCtx}] /\ dsq \in [DsqIds -> Seq(Tasks)]
  BY DEF TypeOK
<1>5. ctx'[t] = r.s.x /\ \A u \in Tasks : u # t => ctx'[u] = ctx[u]
  BY <1>1, <1>4
<1> DEFINE l == LocalDsq(r.cpu)
<1>6. /\ l \in DsqIds /\ GLOBAL \in DsqIds /\ l # GLOBAL
      /\ \A c \in CPUs : LocalDsq(c) \in DsqIds /\ (LocalDsq(c) = l => c = r.cpu)
  BY <1>3, Ids, QueueNames
<1> HIDE DEF l
<1>7. \A d \in DsqIds : dsq'[d] = IF r.direct /\ d = l THEN Append(dsq[d], t) ELSE dsq[d]
  BY <1>1, <1>4, <1>6 DEF l
<1>8. \A d \in DsqIds : Range(Append(dsq[d], t)) = Range(dsq[d]) \cup {t}
  BY <1>4, QueueEdits
<1>9. \A d \in DsqIds : \A u \in Tasks : u \in Range(dsq'[d]) =>
         u \in Range(dsq[d]) \/ (u = t /\ r.direct /\ d = l)
  BY <1>7, <1>8
<1>10. \A u \in Tasks : ctx'[u] = ctx[u] \/ st[u] # "queued"
  BY <1>2, <1>5
<1>11. stats_only => \A u \in Tasks : ctx'[u] = NoCtx
  BY <1>3, <1>5 DEF Unseen
<1>12. \A u \in Tasks : u \in Range(dsq'[GLOBAL]) => u \in Range(dsq[GLOBAL])
  BY <1>6, <1>9
<1>13. \A u \in Tasks : \A c \in CPUs \ mask : Joins(u, LocalDsq(c)) => ~ctx'[u].seen /\ ~stats_only
  BY <1>3, <1>5, <1>6, <1>9 DEF Joins
<1>14. QED
  BY <1>2, <1>10, <1>11, <1>12, <1>13, Follows

\* An enqueue from the queues as they are.
LEMMA PlainEnqueueFollows ==
  ASSUME TypeOK, Places, Unseen, stats_only' = stats_only, NEW t \in Tasks, st[t] # "queued",
         NEW r, r.to \in DsqIds, Destined(t, r) \/ (st[t] = "granting" /\ r.to # GLOBAL),
         NEW f, NEW here, Enqueue(t, r, dsq, f, here)
  PROVE  Followed
<1>1. dsq \in [DsqIds -> Seq(Tasks)]
  BY DEF TypeOK
<1>2. \A u \in Tasks :
            /\ u \in Range(dsq[GLOBAL]) => u \in Range(dsq[GLOBAL])
            /\ \A e \in CPUs : u \in Range(dsq[LocalDsq(e)]) /\ u \notin Range(dsq[LocalDsq(e)])
                  => (e \in mask /\ ~stats_only) \/ u \in Range(dsq[GLOBAL])
  OBVIOUS
<1>3. QED
  BY <1>1, <1>2, EnqueueFollows

LEMMA WakeEnqueueFollows ==
  ASSUME TypeOK, Places, Unseen, NEW t \in Tasks, K_WakeEnqueue(t)
  PROVE  Followed
<1>1. PICK r \in accordin_enqueue(t, Start(ctx[t])) : Enqueue(t, r, dsq, taskCpu, taskCpu[t])
  BY DEF K_WakeEnqueue
<1>2. st[t] # "queued" /\ stats_only' = stats_only
  BY DEF K_WakeEnqueue, maskVars
<1>3. Start(ctx[t]) \in LawfulOutcomes(t) /\ Start(ctx[t]).x = ctx[t]
  BY StartsSoundly DEF Start
<1>4. Posted(t, r)
  BY <1>3, EnqueuesSoundly
<1>5. Destined(t, r)
  BY <1>3, EnqueuesDestined DEF Unseen
<1>6. r.to \in DsqIds
  BY <1>4 DEF Posted
<1>7. QED
  BY <1>1, <1>2, <1>5, <1>6, PlainEnqueueFollows

LEMMA SettleFollows ==
  ASSUME TypeOK, Places, Unseen, NEW t \in Tasks, grant_admission(t) \/ park(t)
  PROVE  Followed
<1>1. /\ st[t] \in {"granting", "parking"} /\ st[t] # "queued" /\ stats_only' = stats_only
      /\ ctx[t].cpu \in CPUs
  BY Picks DEF grant_admission, park, maskVars, Places
<1>2. CASE grant_admission(t)
  <2> DEFINE r == To(Granted(t, Start(ctx[t]), ctx[t].cpu), LocalDsq(ctx[t].cpu))
  <2>1. Enqueue(t, r, dsq, taskCpu, taskCpu[t]) /\ st[t] = "granting"
    BY <1>2 DEF grant_admission
  <2>2. r.to \in DsqIds /\ r.to # GLOBAL
    BY <1>1, Ids, QueueNames DEF To
  <2> HIDE DEF r
  <2>3. QED
    BY <1>1, <2>1, <2>2, PlainEnqueueFollows
<1>3. CASE park(t)
  <2> DEFINE r == To(Start(ctx[t]), INACTIVE(ctx[t].cpu))
  <2>1. Enqueue(t, r, dsq, taskCpu, taskCpu[t])
    BY <1>3 DEF park
  <2>2. r.to = INACTIVE(ctx[t].cpu) /\ r.s.x = ctx[t]
    BY DEF To, Start
  <2> HIDE DEF r
  <2>3. /\ r.to \in DsqIds /\ r.to # GLOBAL /\ \A c \in CPUs : r.to # LocalDsq(c)
    <3>1. INACTIVE(ctx[t].cpu) # GLOBAL
      BY DEF INACTIVE, GLOBAL
    <3>2. QED
      BY <1>1, <2>2, <3>1, Ids
  <2>4. Destined(t, r)
    BY <2>2, <2>3 DEF Destined, Unseen
  <2>5. QED
    BY <1>1, <2>1, <2>3, <2>4, PlainEnqueueFollows
<1>4. QED
  BY <1>2, <1>3

\* A step that changes contexts of tasks outside the queues, and lets a CPU
\* look for work or leaves the local and the global queues.
LEMMA LooksFollow ==
  ASSUME TypeOK, Places, Unseen, stats_only' = stats_only,
         \A u \in Tasks : ctx'[u] = ctx[u] \/ st[u] # "queued" \/ u \notin Range(dsq[GLOBAL]),
         stats_only => \A u \in Tasks : ctx'[u] = NoCtx,
         \/ \E c \in CPUs : \E own : dsq' = Balanced(c, own).dsq
         \/ /\ \A u \in Tasks : u \in Range(dsq'[GLOBAL]) => u \in Range(dsq[GLOBAL])
            /\ \A u \in Tasks : \A c \in CPUs : ~Joins(u, LocalDsq(c))
  PROVE  Followed
<1>1. ASSUME NEW c \in CPUs, NEW own, dsq' = Balanced(c, own).dsq
      PROVE  Followed
  <2>1. \A u \in Tasks :
            /\ u \in Range(dsq'[GLOBAL]) => u \in Range(dsq[GLOBAL])
            /\ \A e \in CPUs : u \in Range(dsq'[LocalDsq(e)]) /\ u \notin Range(dsq[LocalDsq(e)])
                  => (e \in mask /\ ~stats_only) \/ u \in Range(dsq[GLOBAL])
    BY <1>1, Moves
  <2>2. \A u \in Tasks : \A e \in CPUs \ mask : Joins(u, LocalDsq(e)) => u \in Range(dsq[GLOBAL])
    BY <2>1 DEF Joins
  <2>3. QED
    BY <2>1, <2>2, Follows
<1>2. CASE /\ \A u \in Tasks : u \in Range(dsq'[GLOBAL]) => u \in Range(dsq[GLOBAL])
           /\ \A u \in Tasks : \A c \in CPUs : ~Joins(u, LocalDsq(c))
  BY <1>2, Follows
<1>3. QED
  BY <1>1, <1>2

LEMMA PreemptFollows ==
  ASSUME TypeOK, Places, Unseen, NEW c \in CPUs, K_Preempt(c)
  PROVE  Followed
<1> DEFINE t == curr[c]
           b == Balanced(c, owner)
           f == OnCpu(b.task, c)
           q == b.dsq
<1>1. t \in Tasks /\ st[t] = "running" /\ stats_only' = stats_only
  BY DEF K_Preempt, TypeOK, Places, maskVars
<1>2. CASE q[LocalDsq(c)] = <<>>
  <2>1. UNCHANGED <<ctx, dsq>>
    BY <1>2 DEF K_Preempt, kernelVars
  <2>2. stats_only => \A u \in Tasks : ctx'[u] = NoCtx
    BY <2>1 DEF Unseen
  <2>3. \A u \in Tasks : \A e \in CPUs : ~Joins(u, LocalDsq(e))
    BY <2>1 DEF Joins
  <2>4. QED
    BY <1>1, <2>1, <2>2, <2>3, LooksFollow
<1>3. CASE q[LocalDsq(c)] # <<>>
  <2>1. \E have \in HaveUser(t) :
        \E s \in IF stats_only \/ ctx[t] = NoCtx THEN {Start(ctx[t])}
                 ELSE accordin_stopping(t, ctx[t], TRUE, c, have) :
        \E r \in accordin_enqueue(t, s) : Enqueue(t, r, q, f, c)
    BY <1>3 DEF K_Preempt
  <2> PICK have \in HaveUser(t) :
        \E s \in IF stats_only \/ ctx[t] = NoCtx THEN {Start(ctx[t])}
                 ELSE accordin_stopping(t, ctx[t], TRUE, c, have) :
        \E r \in accordin_enqueue(t, s) : Enqueue(t, r, q, f, c)
    BY <2>1
  <2> PICK s \in IF stats_only \/ ctx[t] = NoCtx THEN {Start(ctx[t])}
                 ELSE accordin_stopping(t, ctx[t], TRUE, c, have) :
        \E r \in accordin_enqueue(t, s) : Enqueue(t, r, q, f, c)
    OBVIOUS
  <2>2. PICK r \in accordin_enqueue(t, s) : Enqueue(t, r, q, f, c)
    OBVIOUS
  <2>3. have \in BOOLEAN
    BY <1>1, Fetches
  <2> HIDE DEF t
  <2>4. /\ s \in LawfulOutcomes(t) /\ (s.x = NoCtx => ctx[t] = NoCtx)
        /\ mask = CPUs /\ Backed => \A k : (k => Owns(t)) => Sound(t, s, k)
    BY <1>1, <2>3, StoppedSoundly
  <2>5. stats_only => s.x = NoCtx
    BY <1>1 DEF Start, Unseen
  <2>6. Posted(t, r) /\ Destined(t, r)
    BY <1>1, <2>4, <2>5, EnqueuesSoundly, EnqueuesDestined
  <2>7. q \in [DsqIds -> Seq(Tasks)]
    BY PlacedBalanced DEF Placed
  <2>8. \A u \in Tasks :
            /\ u \in Range(q[GLOBAL]) => u \in Range(dsq[GLOBAL])
            /\ \A e \in CPUs : u \in Range(q[LocalDsq(e)]) /\ u \notin Range(dsq[LocalDsq(e)])
                  => (e \in mask /\ ~stats_only) \/ u \in Range(dsq[GLOBAL])
    BY Moves
  <2> HIDE DEF q, f
  <2>9. r.to \in DsqIds
    BY <2>6 DEF Posted
  <2>10. st[t] # "queued"
    BY <1>1
  <2>11. QED
    BY <1>1, <2>2, <2>6, <2>7, <2>8, <2>9, <2>10, EnqueueFollows
<1>4. QED
  BY <1>2, <1>3

LEMMA LeaveFollows ==
  ASSUME TypeOK, Places, Unseen, NEW c \in CPUs, NEW to, Leave(c, to)
  PROVE  Followed
<1> DEFINE t == curr[c]
<1>1. t \in Tasks /\ st[t] = "running" /\ stats_only' = stats_only
  BY DEF Leave, TypeOK, Places, maskVars
<1>2. \E have \in HaveUser(t) :
      \E s \in IF stats_only \/ ctx[t] = NoCtx THEN {Start(ctx[t])}
               ELSE accordin_stopping(t, ctx[t], FALSE, c, have) :
         ctx' = [ctx EXCEPT ![t] = s.x] /\ dsq' = Balanced(c, s.owner).dsq
  BY DEF Leave
<1> PICK have \in HaveUser(t) :
      \E s \in IF stats_only \/ ctx[t] = NoCtx THEN {Start(ctx[t])}
               ELSE accordin_stopping(t, ctx[t], FALSE, c, have) :
         ctx' = [ctx EXCEPT ![t] = s.x] /\ dsq' = Balanced(c, s.owner).dsq
  BY <1>2
<1>3. PICK s \in IF stats_only \/ ctx[t] = NoCtx THEN {Start(ctx[t])}
                 ELSE accordin_stopping(t, ctx[t], FALSE, c, have) :
         ctx' = [ctx EXCEPT ![t] = s.x] /\ dsq' = Balanced(c, s.owner).dsq
  OBVIOUS
<1>4. stats_only => s.x = NoCtx
  BY <1>1 DEF Start, Unseen
<1> HIDE DEF t
<1>5. ctx'[t] = s.x /\ \A u \in Tasks : u # t => ctx'[u] = ctx[u]
  BY <1>1, <1>3 DEF TypeOK
<1>6. /\ \A u \in Tasks : ctx'[u] = ctx[u] \/ st[u] # "queued"
      /\ stats_only => \A u \in Tasks : ctx'[u] = NoCtx
  BY <1>1, <1>4, <1>5 DEF Unseen
<1>7. QED
  BY <1>1, <1>3, <1>6, LooksFollow

LEMMA ExitFollows ==
  ASSUME TypeOK, Places, Unseen, NEW t \in Tasks, accordin_exit_task(t)
  PROVE  Followed
<1>1. /\ st[t] = "exiting" /\ stats_only' = stats_only /\ dsq' = dsq
      /\ ctx' = [ctx EXCEPT ![t] = NoCtx]
  BY DEF accordin_exit_task, maskVars
<1>2. ctx'[t] = NoCtx /\ \A u \in Tasks : u # t => ctx'[u] = ctx[u]
  BY <1>1 DEF TypeOK
<1>3. /\ \A u \in Tasks : ctx'[u] = ctx[u] \/ st[u] # "queued"
      /\ stats_only => \A u \in Tasks : ctx'[u] = NoCtx
  BY <1>1, <1>2 DEF Unseen
<1>4. \A u \in Tasks : \A c \in CPUs : ~Joins(u, LocalDsq(c))
  BY <1>1 DEF Joins
<1>5. QED
  BY <1>1, <1>3, <1>4, LooksFollow

LEMMA IdleFollows ==
  ASSUME TypeOK, Places, Unseen, NEW c \in CPUs, K_IdleSchedule(c)
  PROVE  Followed
<1>1. stats_only' = stats_only /\ ctx' = ctx /\ dsq' = Balanced(c, owner).dsq
  BY DEF K_IdleSchedule, maskVars
<1>2. QED
  BY <1>1, LooksFollow DEF Unseen

\* running and tick write the context of a task that is in no queue or leaves one.
LEMMA RefreshFollows ==
  ASSUME TypeOK, Places, Unseen, NEW t \in Tasks, NEW c, Refresh(t, c)
  PROVE  \E x : ctx' = [ctx EXCEPT ![t] = x] /\ (stats_only => x = NoCtx)
<1>1. PICK x \in IF stats_only THEN {NoCtx} ELSE get_task_ctx(t), have \in HaveUser(t) :
        ctx' = [ctx EXCEPT ![t] = (IF x = NoCtx THEN Start(ctx[t])
                                   ELSE refresh_running_state(t, x, c, have)).x]
  BY DEF Refresh
<1>2. CASE stats_only
  <2>1. Start(ctx[t]).x = NoCtx /\ x = NoCtx
    BY <1>2 DEF Start, Unseen
  <2>2. QED
    BY <1>1, <2>1
<1>3. CASE ~stats_only
  BY <1>1, <1>3
<1>4. QED
  BY <1>2, <1>3

LEMMA RunningFollows ==
  ASSUME TypeOK, Places, Unseen, NEW c \in CPUs, accordin_running(c) \/ accordin_tick(c)
  PROVE  Followed
<1>1. CASE accordin_running(c)
  <2> DEFINE l == LocalDsq(c)
             t == Head(dsq[l])
  <2>1. /\ picking[c] /\ Refresh(t, c) /\ stats_only' = stats_only
        /\ dsq' = [dsq EXCEPT ![l] = Tail(@)]
    BY <1>1 DEF accordin_running, maskVars
  <2>2. /\ dsq \in [DsqIds -> Seq(Tasks)] /\ Distinct(dsq) /\ dsq[l] # <<>>
        /\ l \in DsqIds /\ GLOBAL \in DsqIds /\ l # GLOBAL
        /\ \A e \in CPUs : LocalDsq(e) \in DsqIds
    BY <2>1, Ids DEF TypeOK, Places, Placed
  <2> HIDE DEF l
  <2>3. /\ dsq[l] \in Seq(Tasks) /\ t \in Tasks /\ t = dsq[l][1] /\ 1 \in DOMAIN dsq[l]
        /\ Tail(dsq[l]) \in Seq(Tasks) /\ Range(Tail(dsq[l])) \subseteq Range(dsq[l])
    <3>1. dsq[l] \in Seq(Tasks) /\ dsq[l] # <<>>
      BY <2>2
    <3> DEFINE s == dsq[l]
    <3> HIDE DEF s
    <3>2. /\ s \in Seq(Tasks) /\ Head(s) \in Tasks /\ Head(s) = s[1] /\ Len(s) \in Nat /\ Len(s) # 0
          /\ DOMAIN s = 1..Len(s) /\ Tail(s) \in Seq(Tasks)
          /\ DOMAIN Tail(s) = 1..(Len(s) - 1) /\ \A i \in 1..(Len(s) - 1) : Tail(s)[i] = s[i + 1]
      BY <3>1, HeadTailProperties, LenProperties, EmptySeq DEF s
    <3>3. \A i \in 1..(Len(s) - 1) : i + 1 \in 1..Len(s)
      BY <3>2
    <3>4. 1 \in DOMAIN s /\ Range(Tail(s)) \subseteq Range(s)
      BY <3>2, <3>3 DEF Range
    <3>5. QED
      BY <3>2, <3>4 DEF s
  <2> HIDE DEF t
  <2>4. t \notin Range(dsq[GLOBAL])
    BY <2>2, <2>3 DEF Distinct, Range
  <2>5. PICK x : ctx' = [ctx EXCEPT ![t] = x] /\ (stats_only => x = NoCtx)
    BY <2>1, <2>3, RefreshFollows
  <2>6. ctx'[t] = x /\ \A u \in Tasks : u # t => ctx'[u] = ctx[u]
    BY <2>3, <2>5 DEF TypeOK
  <2>7. /\ \A u \in Tasks : ctx'[u] = ctx[u] \/ st[u] # "queued" \/ u \notin Range(dsq[GLOBAL])
        /\ stats_only => \A u \in Tasks : ctx'[u] = NoCtx
    BY <2>4, <2>5, <2>6 DEF Unseen
  <2>8. /\ dsq'[GLOBAL] = dsq[GLOBAL]
        /\ \A e \in CPUs : Range(dsq'[LocalDsq(e)]) \subseteq Range(dsq[LocalDsq(e)])
    BY <2>1, <2>2, <2>3
  <2>9. \A u \in Tasks : \A e \in CPUs : ~Joins(u, LocalDsq(e))
    BY <2>8 DEF Joins
  <2>10. QED
    BY <2>1, <2>7, <2>8, <2>9, LooksFollow
<1>2. CASE accordin_tick(c)
  <2> DEFINE t == curr[c]
  <2>1. /\ t \in Tasks /\ st[t] = "running" /\ Refresh(t, c) /\ stats_only' = stats_only /\ dsq' = dsq
    BY <1>2 DEF accordin_tick, TypeOK, Places, maskVars
  <2> HIDE DEF t
  <2>2. PICK x : ctx' = [ctx EXCEPT ![t] = x] /\ (stats_only => x = NoCtx)
    BY <2>1, RefreshFollows
  <2>3. ctx'[t] = x /\ \A u \in Tasks : u # t => ctx'[u] = ctx[u]
    BY <2>1, <2>2 DEF TypeOK
  <2>4. /\ \A u \in Tasks : ctx'[u] = ctx[u] \/ st[u] # "queued" \/ u \notin Range(dsq[GLOBAL])
        /\ stats_only => \A u \in Tasks : ctx'[u] = NoCtx
    BY <2>1, <2>2, <2>3 DEF Unseen
  <2>5. \A u \in Tasks : \A e \in CPUs : ~Joins(u, LocalDsq(e))
    BY <2>1 DEF Joins
  <2>6. QED
    BY <2>1, <2>4, <2>5, LooksFollow
<1>3. QED
  BY <1>1, <1>2

LEMMA StillFollows ==
  ASSUME TypeOK, Places, Unseen, UNCHANGED <<ctx, stats_only, dsq>>
  PROVE  Followed
<1>1. \A u \in Tasks : \A e \in CPUs : ~Joins(u, LocalDsq(e))
  BY DEF Joins
<1>2. stats_only => \A u \in Tasks : ctx'[u] = NoCtx
  BY DEF Unseen
<1>3. QED
  BY <1>1, <1>2, LooksFollow

LEMMA NudgeFollows ==
  ASSUME TypeOK, Places, Unseen, accordin_nudge_cpu
  PROVE  Followed
<1> DEFINE n == Head(nudges)
<1>1. /\ UNCHANGED <<ctx, stats_only>> /\ n.cpu \in CPUs
      /\ dsq' = IF ~stats_only /\ n.drain
                THEN [dsq EXCEPT ![CONTROLLED] = @ \o dsq[INACTIVE(n.cpu)], ![INACTIVE(n.cpu)] = <<>>]
                ELSE dsq
  <2>1. n \in [cpu : CPUs, drain : BOOLEAN]
    <3>1. nudges # <<>> /\ nudges \in Seq([cpu : CPUs, drain : BOOLEAN])
      BY DEF accordin_nudge_cpu, TypeOK
    <3>2. QED
      BY <3>1, HeadTailProperties
  <2>2. n.cpu \in CPUs
    BY <2>1
  <2>3. QED
    BY <2>2, Zenon DEF accordin_nudge_cpu
<1> HIDE DEF n
<1>2. INACTIVE(n.cpu) # GLOBAL /\ \A c : LocalDsq(c) # INACTIVE(n.cpu)
  BY DEF INACTIVE, GLOBAL, LocalDsq
<1>3. dsq'[GLOBAL] = dsq[GLOBAL] /\ \A c \in CPUs : dsq'[LocalDsq(c)] = dsq[LocalDsq(c)]
  BY <1>1, <1>2, Ids, QueueNames DEF TypeOK
<1>4. \A u \in Tasks : \A e \in CPUs : ~Joins(u, LocalDsq(e))
  BY <1>3 DEF Joins
<1>5. stats_only => \A u \in Tasks : ctx'[u] = NoCtx
  BY <1>1 DEF Unseen
<1>6. QED
  BY <1>1, <1>3, <1>4, <1>5, LooksFollow

LEMMA EveryStepFollows == TypeOK /\ Places /\ Unseen /\ [Next]_vars => Followed
<1> SUFFICES ASSUME TypeOK, Places, Unseen, [Next]_vars
             PROVE  Followed
  OBVIOUS
<1>1. ASSUME NEW t \in Tasks,
             K_Wake(t) \/ K_WakeEnqueue(t) \/ grant_admission(t) \/ park(t) \/ accordin_exit_task(t)
      PROVE  Followed
  BY <1>1, WakeFollows, WakeEnqueueFollows, SettleFollows, ExitFollows
<1>2. ASSUME NEW c \in CPUs,
             \/ K_Preempt(c) \/ K_Block(c) \/ K_Exit(c) \/ K_IdleSchedule(c)
             \/ accordin_running(c) \/ accordin_tick(c)
      PROVE  Followed
  <2>1. K_Block(c) => Leave(c, "blocked")
    BY DEF K_Block
  <2>2. K_Exit(c) => Leave(c, "exiting")
    BY DEF K_Exit
  <2>3. QED
    BY <1>2, <2>1, <2>2, PreemptFollows, LeaveFollows, IdleFollows, RunningFollows
<1>3. ASSUME NEW t \in Tasks,
             \/ FastLock(t) \/ SlowPending(t) \/ Acquire(t)
             \/ MarkEntered(t) \/ Unlock(t) \/ MarkExit(t)
      PROVE  Followed
  <2>1. UNCHANGED <<ctx, stats_only, dsq>>
    BY <1>3 DEF FastLock, SlowPending, Acquire, MarkEntered, Unlock, MarkExit, User,
                maskVars, kernelVars
  <2>2. QED
    BY <2>1, StillFollows
<1>4. CASE accordin_set_active_cpus \/ UNCHANGED vars
  <2>1. UNCHANGED <<ctx, stats_only, dsq>>
    BY <1>4 DEF accordin_set_active_cpus, vars, maskVars, kernelVars
  <2>2. QED
    BY <2>1, StillFollows
<1>5. QED
  BY <1>1, <1>2, <1>3, <1>4, NudgeFollows DEF Next, KernelNext, UserNext

LEMMA BeginsUnseen == Init => Unseen
<1>1. Range(<<>>) = {} /\ GLOBAL \in DsqIds
  BY Ids DEF Range
<1>2. QED
  BY <1>1 DEF Init, Unseen

\* A task with slow-path history comes into the local queue of an active CPU
\* only, whatever masks the controller pushes and when: no callback delivers it
\* elsewhere, and an inactive CPU, which takes from the global queue alone, finds
\* no such task there.  The exception is an enqueue whose grant was under way
\* when the mask changed (accordin_select_cpu, accordin_enqueue, accordin_dispatch).
THEOREM SeenTasksStayOnActive == Spec => SeenStaysOnActive
<1>1. Init => TypeOK /\ Places /\ Unseen
  BY Begins, BeginsUnseen
<1>2. TypeOK /\ Places /\ Unseen /\ [Next]_vars => TypeOK' /\ Places' /\ Unseen'
  BY EveryStep, EveryStepFollows DEF Kept, Followed
<1>3. TypeOK /\ Places /\ Unseen /\ [Next]_vars =>
        [\A t \in Tasks : \A c \in CPUs \ mask :
            Joins(t, LocalDsq(c)) /\ ctx'[t].seen => st[t] = "granting"]_vars
  BY EveryStepFollows DEF Followed, OnActive
<1>4. QED
  BY <1>1, <1>2, <1>3, PTL DEF Spec, SeenStaysOnActive

\* In statistics-only mode no callback that begins after a push of the mask puts
\* a task into the local queue of a CPU that the mask leaves out; what such a CPU
\* finds in the global queue itself was queued before (select_cpu_stats_only,
\* enqueue_stats_only).
THEOREM StatsTasksGoToActive == Spec => StatsDeliverToActive
<1>1. Init => TypeOK /\ Places /\ Unseen
  BY Begins, BeginsUnseen
<1>2. TypeOK /\ Places /\ Unseen /\ [Next]_vars => TypeOK' /\ Places' /\ Unseen'
  BY EveryStep, EveryStepFollows DEF Kept, Followed
<1>3. TypeOK /\ Places /\ Unseen /\ [Next]_vars =>
        [stats_only => \A t \in Tasks : \A c \in CPUs \ mask :
            st[t] \in {"blocked", "waking", "running"} => ~Joins(t, LocalDsq(c))]_vars
  BY EveryStepFollows DEF Followed, Delivered
<1>4. QED
  BY <1>1, <1>2, <1>3, PTL DEF Spec, StatsDeliverToActive

============================================================================
