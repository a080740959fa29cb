---------------------------- MODULE BpfAdmission ----------------------------
(***************************************************************************)
(* The sched_ext scheduler of bpf/main.bpf.c: the admission state it keeps *)
(* per task and per CPU, its callbacks, and the two syscall programs by    *)
(* which the controller changes the active CPUs.  Around it, as external   *)
(* parts, the kernel that calls it (one runqueue per CPU, dispatch queues) *)
(* and hooked threads contending for one lock, which drive their           *)
(* admission words.                                                        *)
(*                                                                         *)
(* A callback runs under the lock of a runqueue, so the callbacks of one   *)
(* CPU are serialised; those of different CPUs are not, and the maps have  *)
(* no lock.  enqueue therefore is two steps where it acts on a value read  *)
(* before: the owner found by grant_admission, and the CPU chosen for the  *)
(* inactive queue.                                                         *)
(***************************************************************************)
EXTENDS Naturals, SequencesExt, AdmissionWord

CONSTANTS
    Tasks, NCpus,
    None,             \* pid 0, and ADMISSION_CPU_NONE
    Affinity,         \* Affinity[t]: p->cpus_ptr
    Hooked,           \* the tasks that are threads of the preloaded process
    Modes,            \* the values stats_only_mode may have
    MayFail,          \* task storage and user reads may fail
    DrainInterval,    \* INACTIVE_DRAIN_INTERVAL
    StealScan,        \* INACTIVE_STEAL_SCAN
    Masks,            \* the masks the controller may push
    BlockPhases,      \* the phases in which a thread may block
    Exiting,          \* the tasks that may exit
    MaxPushes         \* bound on the number of pushes

CPUs == 0..(NCpus - 1)

Phases == {"out", "locked", "cs", "unlocked", "yield", "spin"}

ASSUME ConstantsAssumption ==
    /\ NCpus \in Nat \ {0} /\ DrainInterval \in Nat \ {0} /\ StealScan \in Nat
    /\ None \notin Tasks /\ None \notin CPUs
    /\ Affinity \in [Tasks -> SUBSET CPUs] /\ \A t \in Tasks : Affinity[t] # {}
    /\ Hooked \subseteq Tasks /\ Exiting \subseteq Tasks /\ BlockPhases \subseteq Phases
    /\ Modes \subseteq BOOLEAN /\ MayFail \in BOOLEAN
    /\ Masks \subseteq SUBSET CPUs /\ MaxPushes \in Nat

VARIABLES
    ctx,        \* ctx[t]: task_scx_ctx of t, or NoCtx
    owner,      \* owner[c]: cpu_admission_owner_map, None for 0
    seq,        \* seq[c]: cpu_dispatch_seq_map modulo DrainInterval
    stats_only, \* stats_only_mode, set before the scheduler is loaded
    mask,       \* the active CPUs of active_cpumask_map
    nudges,     \* nudge_cpu calls the pusher of the mask has still to make
    pushes,     \* number of set_active_cpus calls so far
    word,       \* word[t]: admission word
    registered, \* registered[t]: t is in thread_ctx_addr_map
    phase,      \* phase[t]: what t does about the lock
    st,         \* st[t]: what the kernel does with t
    taskCpu,    \* taskCpu[t]: scx_bpf_task_cpu
    curr,       \* curr[c]: the task running on c, or None
    picking,    \* picking[c]: c has put its task and not yet picked one
    kicked,     \* CPUs with a pending reschedule
    dsq         \* the dispatch queues

mapVars    == <<owner, seq>>
maskVars   == <<stats_only, mask, nudges, pushes>>
userVars   == <<word, registered, phase>>
kernelVars == <<st, taskCpu, curr, picking, kicked, dsq>>
vars == <<ctx, mapVars, maskVars, userVars, kernelVars>>

GLOBAL      == <<"GLOBAL", 0>>
CONTROLLED  == <<"CONTROLLED", 0>>
LocalDsq(c) == <<"LOCAL", c>>
INACTIVE(c) == <<"INACTIVE", c>>
DsqIds == {GLOBAL, CONTROLLED} \cup {LocalDsq(c) : c \in CPUs} \cup {INACTIVE(c) : c \in CPUs}

CtxRecords == [seen : BOOLEAN, holds : BOOLEAN, must : BOOLEAN, cpu : CPUs \cup {None}]
NoCtx      == [seen |-> FALSE, holds |-> FALSE, must |-> FALSE]
InitCtx    == [seen |-> FALSE, holds |-> FALSE, must |-> FALSE, cpu |-> None]

\* In "granting" and "parking" an enqueue has read and not yet written.
States == {"blocked", "waking", "granting", "parking", "queued", "running", "exiting", "exited"}

Init ==
    /\ ctx = [t \in Tasks |-> NoCtx]
    /\ owner = [c \in CPUs |-> None]
    /\ seq = [c \in CPUs |-> 0]
    /\ stats_only \in Modes
    /\ mask = CPUs /\ nudges = <<>> /\ pushes = 0
    /\ word = [t \in Tasks |-> {}]
    /\ registered = [t \in Tasks |-> FALSE]
    /\ phase = [t \in Tasks |-> "out"]
    /\ st = [t \in Tasks |-> "blocked"]
    /\ taskCpu \in {f \in [Tasks -> CPUs] : \A t \in Tasks : f[t] \in Affinity[t]}
    /\ curr = [c \in CPUs |-> None]
    /\ picking = [c \in CPUs |-> FALSE]
    /\ kicked = {}
    /\ dsq = [d \in DsqIds |-> <<>>]

----------------------------------------------------------------------------
(* Reads.  Allowed is task_cpu_allowed.  A failing read of the user word   *)
(* leaves the callback without it; a failing task storage without context. *)

Allowed(t) == Affinity[t] \cap mask

HaveUser(t) == IF ~registered[t] THEN {FALSE}
               ELSE IF MayFail THEN BOOLEAN ELSE {TRUE}

get_task_ctx(t) ==
    IF ctx[t] # NoCtx THEN {ctx[t]}
    ELSE {InitCtx} \cup (IF MayFail THEN {NoCtx} ELSE {})

explicit_release(t) == word[t] \cap {SLOW_PATH_PENDING, IN_CRITICAL_SECTION} = {}

slow_path_requested(t, x, have) == ~x.holds /\ have /\ SLOW_PATH_PENDING \in word[t]

should_release_from_user(t, x, have) == x.holds /\ have /\ explicit_release(t)

pick_allowed_cpu(t, fallback) ==
    CASE fallback \in Allowed(t)   -> {fallback}
      [] fallback \notin Allowed(t) /\ taskCpu[t] \in Allowed(t) -> {taskCpu[t]}
      [] OTHER -> Allowed(t) \cup (IF Affinity[t] \subseteq mask THEN {} ELSE {None})

pick_task_cpu(t, fallback) == IF fallback \in Affinity[t] THEN fallback ELSE taskCpu[t]

requested_cpu(t, x) == IF x.cpu \in Allowed(t) THEN {x.cpu} ELSE pick_allowed_cpu(t, None)

----------------------------------------------------------------------------
(* Updates a callback makes before it decides.  A record s carries the     *)
(* context, the owner map and the CPUs kicked so far.                      *)

Start(x) == [x |-> x, owner |-> owner, kick |-> {}]

refresh_slow_path_seen(t, s, have) ==
    [s EXCEPT !.x.seen = @ \/ (have /\ word[t] \cap {SLOW_PATH_PENDING, SLOW_PATH_SEEN} # {})]

\* Mutant: the owner map keeps its entry.
release_admission_KeepsOwner(t, s) ==
    [x     |-> [s.x EXCEPT !.holds = FALSE, !.must = FALSE, !.cpu = None],
     owner |-> s.owner,
     kick  |-> s.kick \cup ({s.x.cpu} \ {None})]

\* Mutant: the entry is cleared whoever the owner is.
release_admission_AnyOwner(t, s) ==
    [x     |-> [s.x EXCEPT !.holds = FALSE, !.must = FALSE, !.cpu = None],
     owner |-> IF s.x.cpu # None THEN [s.owner EXCEPT ![s.x.cpu] = None] ELSE s.owner,
     kick  |-> s.kick \cup ({s.x.cpu} \ {None})]

release_admission(t, s) ==
    LET c == s.x.cpu IN
    [x     |-> [s.x EXCEPT !.holds = FALSE, !.must = FALSE, !.cpu = None],
     owner |-> IF c # None /\ s.owner[c] = t THEN [s.owner EXCEPT ![c] = None] ELSE s.owner,
     kick  |-> s.kick \cup ({c} \ {None})]

\* Mutant: the admission CPU is not checked against the mask.
clear_invalid_admission_cpu_Keeps(t, s) == s

clear_invalid_admission_cpu(t, s) ==
    IF s.x.cpu # None /\ s.x.cpu \notin Allowed(t) THEN release_admission(t, s) ELSE s

release_if_explicit(t, s, have) ==
    IF should_release_from_user(t, s.x, have) THEN release_admission(t, s) ELSE s

CanGrant(t, own, c) == own[c] \in {None, t}

\* The writes of grant_admission.
Granted(t, s, c) ==
    [s EXCEPT !.owner[c] = t, !.x = [seen |-> TRUE, holds |-> TRUE, must |-> FALSE, cpu |-> c]]

\* The set of outcomes: pick_allowed_cpu may find any active CPU, or none.
protect_critical_section(t, s, here) ==
    LET found == IF s.x.cpu \in Allowed(t) THEN {s.x.cpu} ELSE pick_allowed_cpu(t, here)
        on(c) == LET moved == [s EXCEPT !.x.cpu = c]
                     owned == IF ~s.x.holds /\ CanGrant(t, s.owner, c)
                                 THEN Granted(t, moved, c) ELSE moved
                 IN  [owned EXCEPT !.x.must = TRUE]
    IN  {IF c = None THEN s ELSE on(c) : c \in found}

refresh_running_state(t, x, here, have) ==
    LET s == refresh_slow_path_seen(t, Start(x), have) IN
    IF should_release_from_user(t, s.x, have) THEN release_admission(t, s)
    ELSE [s EXCEPT !.x.must = @ /\ s.x.cpu # here]

\* Mutant: a critical section is not protected.
accordin_stopping_Unprotected(t, x, runnable, here, have) ==
    LET s == refresh_slow_path_seen(t, Start(x), have) IN
    IF should_release_from_user(t, s.x, have) THEN {release_admission(t, s)}
    ELSE {[s EXCEPT !.x.must = @ \/ s.x.holds]}

accordin_stopping(t, x, runnable, here, have) ==
    LET s == refresh_slow_path_seen(t, Start(x), have) IN
    IF should_release_from_user(t, s.x, have) THEN {release_admission(t, s)}
    ELSE IF runnable /\ have /\ IN_CRITICAL_SECTION \in word[t]
         THEN protect_critical_section(t, s, here)
    ELSE {[s EXCEPT !.x.must = @ \/ s.x.holds]}

----------------------------------------------------------------------------
(* select_cpu: the set of results [s, cpu, direct], direct meaning that    *)
(* the task was inserted into the local queue of cpu and is not enqueued.  *)

Idle == {c \in CPUs : curr[c] = None /\ ~picking[c]}

\* scx_bpf_select_cpu_dfl: an idle CPU, or the previous one.
select_cpu_dfl(t) ==
    {<<c, TRUE>> : c \in Affinity[t] \cap Idle} \cup {<<taskCpu[t], FALSE>>}

\* The CPU if it is active, else an active one, else any the task may use.
active_or_any(t, c) ==
    IF c \in Allowed(t) THEN {c}
    ELSE {IF a = None THEN pick_task_cpu(t, taskCpu[t]) ELSE a : a \in pick_allowed_cpu(t, taskCpu[t])}

\* Mutant: an idle CPU is taken whether it is active or not.
select_cpu_stats_only_AnyIdle(t) ==
    {[s |-> Start(ctx[t]), cpu |-> d[1], direct |-> d[2]] : d \in select_cpu_dfl(t)}

select_cpu_stats_only(t) ==
    UNION {{[s |-> Start(ctx[t]), cpu |-> c, direct |-> d[2] /\ c = d[1] /\ c \in Allowed(t)] :
               c \in active_or_any(t, d[1])} : d \in select_cpu_dfl(t)}

select_cpu_ctx(t, x, have) ==
    LET prev  == taskCpu[t]
        s     == clear_invalid_admission_cpu(t, refresh_slow_path_seen(t, Start(x), have))
        wants == slow_path_requested(t, s.x, have)
        on(c) == IF c \in Allowed(t) THEN [s EXCEPT !.x.cpu = c] ELSE s
    IN  IF s.x.cpu # None /\ (s.x.holds \/ s.x.must)
            THEN {[s |-> s, cpu |-> s.x.cpu, direct |-> FALSE]}
        ELSE IF wants /\ prev \in Allowed(t)
            THEN {[s |-> on(prev), cpu |-> prev, direct |-> FALSE]}
        ELSE IF s.x.seen /\ prev \in Allowed(t)
            THEN {[s |-> s, cpu |-> prev, direct |-> FALSE]}
        ELSE IF wants \/ s.x.seen
            THEN {[s |-> on(c), cpu |-> c, direct |-> FALSE] :
                     c \in UNION {active_or_any(t, d[1]) : d \in select_cpu_dfl(t)}}
        ELSE {[s |-> s, cpu |-> d[1], direct |-> d[2]] : d \in select_cpu_dfl(t)}

\* Without a context the task counts as one that never took the slow path.
accordin_select_cpu(t) ==
    IF stats_only THEN select_cpu_stats_only(t)
    ELSE UNION {IF x = NoCtx
                  THEN {[s |-> Start(NoCtx), cpu |-> d[1], direct |-> d[2]] : d \in select_cpu_dfl(t)}
                  ELSE UNION {select_cpu_ctx(t, x, have) : have \in HaveUser(t)} :
                x \in get_task_ctx(t)}

----------------------------------------------------------------------------
(* enqueue: the set of results [s, st, to]: the task is queued on "to", or *)
(* about to be granted or parked on its admission CPU.                     *)

To(s, d) == [s |-> s, st |-> "queued", to |-> d]

enqueue_stats_only(t, s) ==
    IF Cardinality(Affinity[t]) = 1
    THEN {To(s, IF c = None THEN GLOBAL ELSE LocalDsq(c)) : c \in pick_allowed_cpu(t, None)}
    ELSE {To(s, GLOBAL)}

enqueue_ctx(t, s0, have) ==
    LET s == release_if_explicit(t,
                 clear_invalid_admission_cpu(t, refresh_slow_path_seen(t, s0, have)), have)
        on(c) == [s EXCEPT !.x.cpu = c]
    IN  IF s.x.cpu # None /\ (s.x.holds \/ s.x.must)
            THEN {To(s, LocalDsq(s.x.cpu))}
        ELSE IF slow_path_requested(t, s.x, have)
            THEN {IF c = None THEN To(s, CONTROLLED)
                  ELSE [s |-> on(c), to |-> INACTIVE(c),
                        st |-> IF CanGrant(t, s.owner, c) THEN "granting" ELSE "parking"] :
                  c \in requested_cpu(t, s.x)}
        ELSE IF s.x.seen
            THEN {To(IF c = None THEN s ELSE on(c), CONTROLLED) : c \in requested_cpu(t, s.x)}
        ELSE IF Cardinality(Affinity[t]) = 1
            THEN {To(s, LocalDsq(pick_task_cpu(t, None)))}
        ELSE {To(s, GLOBAL)}

accordin_enqueue(t, s) ==
    IF stats_only THEN enqueue_stats_only(t, s)
    ELSE UNION {IF x = NoCtx THEN {To(s, GLOBAL)}
                ELSE UNION {enqueue_ctx(t, [s EXCEPT !.x = x], have) : have \in HaveUser(t)} :
                x \in IF s.x = NoCtx THEN get_task_ctx(t) ELSE {s.x}}

----------------------------------------------------------------------------
(* dispatch.  The kernel looks at the local and the global queue first and *)
(* calls accordin_dispatch only when both have nothing for the CPU.        *)

Fits(d, c) == {i \in DOMAIN dsq[d] : c \in Affinity[dsq[d][i]]}

CallsDispatch(c) == dsq[LocalDsq(c)] = <<>> /\ Fits(GLOBAL, c) = {} /\ c \in mask /\ ~stats_only

\* Mutant: no periodic drain while the CPU has an owner.
should_drain_inactive_OwnerFree(c, own) == own[c] = None

should_drain_inactive(c, own) == own[c] = None \/ (seq[c] + 1) % DrainInterval = 0

steal_inactive(c) ==
    [i \in 1..Min({StealScan, NCpus - 1}) |-> INACTIVE((c + i) % NCpus)]

accordin_dispatch(c, own) ==
    (IF should_drain_inactive(c, own) THEN <<INACTIVE(c)>> ELSE <<>>)
        \o <<CONTROLLED, INACTIVE(c)>> \o steal_inactive(c)

SourcesOf(c, own) ==
    IF dsq[LocalDsq(c)] # <<>> THEN <<>>
    ELSE <<GLOBAL>> \o (IF CallsDispatch(c) THEN accordin_dispatch(c, own) ELSE <<>>)

\* The queues after CPU c has looked for work, and the task it moved.
Balanced(c, own) ==
    LET from == SelectInSeq(SourcesOf(c, own), LAMBDA d : Fits(d, c) # {}) IN
    IF from = 0 THEN [dsq |-> dsq, task |-> None]
    ELSE LET d == SourcesOf(c, own)[from]
             i == Min(Fits(d, c))
         IN  [dsq  |-> [dsq EXCEPT ![d] = RemoveAt(@, i), ![LocalDsq(c)] = <<dsq[d][i]>>],
              task |-> dsq[d][i]]

NextSeq(c, own) ==
    IF CallsDispatch(c) /\ own[c] # None THEN [seq EXCEPT ![c] = (@ + 1) % DrainInterval] ELSE seq

OnCpu(t, c) == IF t = None THEN taskCpu ELSE [taskCpu EXCEPT ![t] = c]

----------------------------------------------------------------------------
(* The kernel.  A kick matters to a CPU that is idle: a running task with  *)
(* slice left goes on.  RqFree: no enqueue holds the runqueue of c.        *)

RqFree(c) == \A t \in Tasks : st[t] \in {"granting", "parking"} => taskCpu[t] # c

\* curr and picking must be primed before; "more" are the CPUs kicked by this step.
Kick(more) == kicked' = {c \in kicked \cup more : curr'[c] = None /\ ~picking'[c]}

\* The enqueue of t with outcome r, on queues q, from the runqueue of here.
Enqueue(t, r, q, f, here) ==
    /\ ctx' = [ctx EXCEPT ![t] = r.s.x]
    /\ owner' = r.s.owner
    /\ st' = [st EXCEPT ![t] = r.st]
    /\ IF r.st = "queued"
       THEN /\ dsq' = [q EXCEPT ![r.to] = Append(@, t)]
            /\ taskCpu' = IF r.to[1] = "LOCAL" THEN [f EXCEPT ![t] = r.to[2]] ELSE f
       ELSE dsq' = q /\ taskCpu' = f
    /\ Kick(r.s.kick \cup {here} \cup (IF r.st = "queued" /\ r.to[1] = "LOCAL" THEN {r.to[2]} ELSE {}))

\* select_task_rq: a task bound to one CPU does not come to select_cpu.
WakeTargets(t) ==
    IF Cardinality(Affinity[t]) = 1
    THEN {[s |-> Start(ctx[t]), cpu |-> c, direct |-> FALSE] : c \in Affinity[t]}
    ELSE accordin_select_cpu(t)

K_Wake(t) ==
    /\ st[t] = "blocked"
    /\ \E r \in WakeTargets(t) :
        /\ r.direct => RqFree(r.cpu) /\ ~picking[r.cpu]
        /\ ctx' = [ctx EXCEPT ![t] = r.s.x]
        /\ owner' = r.s.owner
        /\ taskCpu' = [taskCpu EXCEPT ![t] = r.cpu]
        /\ st' = [st EXCEPT ![t] = IF r.direct THEN "queued" ELSE "waking"]
        /\ dsq' = IF r.direct THEN [dsq EXCEPT ![LocalDsq(r.cpu)] = Append(@, t)] ELSE dsq
        /\ UNCHANGED <<curr, picking>>
        /\ Kick(r.s.kick \cup IF r.direct THEN {r.cpu} ELSE {})
    /\ UNCHANGED <<seq, maskVars, userVars>>

K_WakeEnqueue(t) ==
    /\ st[t] = "waking" /\ RqFree(taskCpu[t]) /\ ~picking[taskCpu[t]]
    /\ UNCHANGED <<curr, picking>>
    /\ \E r \in accordin_enqueue(t, Start(ctx[t])) : Enqueue(t, r, dsq, taskCpu, taskCpu[t])
    /\ UNCHANGED <<seq, maskVars, userVars>>

\* The end of an enqueue that found the admission CPU free: grant_admission.
grant_admission(t) ==
    LET c == ctx[t].cpu
        s == Granted(t, Start(ctx[t]), c)
    IN  /\ st[t] = "granting"
        /\ UNCHANGED <<curr, picking>>
        /\ Enqueue(t, To(s, LocalDsq(c)), dsq, taskCpu, taskCpu[t])
        /\ UNCHANGED <<seq, maskVars, userVars>>

\* The end of an enqueue that found the admission CPU taken.
park(t) ==
    /\ st[t] = "parking"
    /\ UNCHANGED <<curr, picking>>
    /\ Enqueue(t, To(Start(ctx[t]), INACTIVE(ctx[t].cpu)), dsq, taskCpu, taskCpu[t])
    /\ UNCHANGED <<seq, maskVars, userVars>>

\* The slice of the running task ends, or it calls sched_yield: the CPU
\* looks for work first, and puts the task only when there is some.
K_Preempt(c) ==
    LET t == curr[c]
        b == Balanced(c, owner)
    IN  /\ t # None /\ RqFree(c)
        /\ seq' = NextSeq(c, owner)
        /\ phase' = [phase EXCEPT ![t] = IF @ = "yield" THEN "spin" ELSE @]
        /\ IF b.dsq[LocalDsq(c)] = <<>>
           THEN UNCHANGED <<ctx, owner, kernelVars>>
           ELSE /\ curr' = [curr EXCEPT ![c] = None]
                /\ picking' = [picking EXCEPT ![c] = TRUE]
                /\ \E have \in HaveUser(t) :
                   \E s \in IF stats_only \/ ctx[t] = NoCtx THEN {Start(ctx[t])}
                            ELSE accordin_stopping(t, ctx[t], TRUE, c, have) :
                   \E r \in accordin_enqueue(t, s) : Enqueue(t, r, b.dsq, OnCpu(b.task, c), c)
        /\ UNCHANGED <<maskVars, word, registered>>

\* The running task leaves the CPU, to sleep or for good.
Leave(c, next) ==
    LET t == curr[c] IN
    /\ t # None /\ RqFree(c)
    /\ \E have \in HaveUser(t) :
       \E s \in IF stats_only \/ ctx[t] = NoCtx THEN {Start(ctx[t])}
                ELSE accordin_stopping(t, ctx[t], FALSE, c, have) :
        LET b == Balanced(c, s.owner) IN
        /\ ctx' = [ctx EXCEPT ![t] = s.x]
        /\ owner' = s.owner
        /\ seq' = NextSeq(c, s.owner)
        /\ dsq' = b.dsq /\ taskCpu' = OnCpu(b.task, c)
        /\ curr' = [curr EXCEPT ![c] = None]
        /\ picking' = [picking EXCEPT ![c] = b.dsq[LocalDsq(c)] # <<>>]
        /\ Kick(s.kick)
    /\ st' = [st EXCEPT ![t] = next]
    /\ UNCHANGED <<maskVars, userVars>>

K_Block(c) == curr[c] # None /\ phase[curr[c]] \in BlockPhases /\ Leave(c, "blocked")

K_Exit(c) == curr[c] # None /\ curr[c] \in Exiting /\ phase[curr[c]] = "out" /\ Leave(c, "exiting")

accordin_exit_task(t) ==
    /\ st[t] = "exiting"
    /\ LET s == IF ctx[t].holds THEN release_admission(t, Start(ctx[t])) ELSE Start(ctx[t]) IN
        /\ owner' = s.owner
        /\ UNCHANGED <<curr, picking>>
        /\ Kick(s.kick)
    /\ ctx' = [ctx EXCEPT ![t] = NoCtx]
    /\ registered' = [registered EXCEPT ![t] = FALSE]
    /\ st' = [st EXCEPT ![t] = "exited"]
    /\ UNCHANGED <<seq, maskVars, word, phase, taskCpu, dsq>>

K_IdleSchedule(c) ==
    LET b == Balanced(c, owner) IN
    /\ c \in kicked /\ RqFree(c)
    /\ seq' = NextSeq(c, owner)
    /\ dsq' = b.dsq /\ taskCpu' = OnCpu(b.task, c)
    /\ picking' = [picking EXCEPT ![c] = b.dsq[LocalDsq(c)] # <<>>]
    /\ kicked' = kicked \ {c}
    /\ UNCHANGED <<ctx, owner, maskVars, userVars, st, curr>>

\* running and tick.
Refresh(t, c) ==
    \E x \in IF stats_only THEN {NoCtx} ELSE get_task_ctx(t) :
    \E have \in HaveUser(t) :
        LET s == IF x = NoCtx THEN Start(ctx[t]) ELSE refresh_running_state(t, x, c, have) IN
        /\ ctx' = [ctx EXCEPT ![t] = s.x]
        /\ owner' = s.owner
        /\ Kick(s.kick)

accordin_running(c) ==
    LET t == Head(dsq[LocalDsq(c)]) IN
    /\ picking[c] /\ RqFree(c)
    /\ dsq' = [dsq EXCEPT ![LocalDsq(c)] = Tail(@)]
    /\ curr' = [curr EXCEPT ![c] = t]
    /\ picking' = [picking EXCEPT ![c] = FALSE]
    /\ st' = [st EXCEPT ![t] = "running"]
    /\ Refresh(t, c)
    /\ UNCHANGED <<seq, maskVars, userVars, taskCpu>>

accordin_tick(c) ==
    /\ curr[c] # None /\ RqFree(c)
    /\ UNCHANGED <<curr, picking>>
    /\ Refresh(curr[c], c)
    /\ UNCHANGED <<seq, maskVars, userVars, st, taskCpu, dsq>>

----------------------------------------------------------------------------
(* The hooked threads, all at one lock; each step is taken while running.  *)

LockFree == \A t \in Tasks : phase[t] \notin {"locked", "cs"}

User(t, from, to) ==
    /\ t \in Hooked /\ st[t] = "running" /\ phase[t] = from
    /\ phase' = [phase EXCEPT ![t] = to]
    /\ UNCHANGED <<ctx, mapVars, maskVars, kernelVars>>

FastLock(t) ==
    /\ User(t, "out", "locked") /\ LockFree
    /\ registered' = [registered EXCEPT ![t] = TRUE] /\ UNCHANGED word

\* The hook finds the lock taken, marks the word and calls sched_yield.
SlowPending(t) ==
    /\ User(t, "out", "yield") /\ ~LockFree
    /\ registered' = [registered EXCEPT ![t] = TRUE]
    /\ word' = [word EXCEPT ![t] = mark_slow_path_pending(@, TRUE)]

Acquire(t) == User(t, "spin", "locked") /\ LockFree /\ UNCHANGED <<word, registered>>

MarkEntered(t) ==
    /\ User(t, "locked", "cs")
    /\ word' = [word EXCEPT ![t] = mark_critical_section_entered(@, TRUE)] /\ UNCHANGED registered

Unlock(t) == User(t, "cs", "unlocked") /\ UNCHANGED <<word, registered>>

MarkExit(t) ==
    /\ User(t, "unlocked", "out")
    /\ word' = [word EXCEPT ![t] = mark_critical_section_exit(@, TRUE)] /\ UNCHANGED registered

----------------------------------------------------------------------------
(* The controller: accordin_set_active_cpus, then nudge_changed_cpus makes *)
(* its accordin_nudge_cpu calls in order.  The model starts when           *)
(* init_scheduler has made its first push, of all the CPUs.                *)

\* The loop over all CPUs that acts on those of S.
InOrder(S) ==
    [i \in 1..Cardinality(S) |-> CHOOSE c \in S : Cardinality({e \in S : e <= c}) = i]

\* Mutant: CPUs are counted from one.
nudge_changed_cpus_OffByOne(before, wanted) ==
    LET changed == InOrder((before \ wanted) \cup (wanted \ before))
    IN  [i \in DOMAIN changed |-> [cpu |-> changed[i] + 1, drain |-> changed[i] \in before]]

nudge_changed_cpus(before, wanted) ==
    LET changed == InOrder((before \ wanted) \cup (wanted \ before))
        call(c) == [cpu |-> c, drain |-> c \in before]
    IN  [i \in DOMAIN changed |-> call(changed[i])]
            \o IF before \subseteq wanted \/ wanted = {} THEN <<>>
               ELSE <<[cpu |-> Min(wanted), drain |-> FALSE]>>

accordin_set_active_cpus ==
    /\ nudges = <<>> /\ pushes < MaxPushes
    /\ \E m \in Masks \ {mask} :
        /\ mask' = m
        /\ nudges' = nudge_changed_cpus(mask, m)
    /\ pushes' = pushes + 1
    /\ UNCHANGED <<ctx, mapVars, stats_only, userVars, kernelVars>>

accordin_nudge_cpu ==
    LET n == Head(nudges) IN
    /\ nudges # <<>>
    /\ nudges' = Tail(nudges)
    /\ dsq' = IF ~stats_only /\ n.drain
              THEN [dsq EXCEPT ![CONTROLLED] = @ \o dsq[INACTIVE(n.cpu)], ![INACTIVE(n.cpu)] = <<>>]
              ELSE dsq
    /\ UNCHANGED <<curr, picking>>
    /\ Kick({n.cpu})
    /\ UNCHANGED <<ctx, mapVars, stats_only, mask, pushes, userVars, st, taskCpu>>

----------------------------------------------------------------------------
KernelNext ==
    \/ \E t \in Tasks : \/ K_Wake(t) \/ K_WakeEnqueue(t) \/ grant_admission(t) \/ park(t)
                        \/ accordin_exit_task(t)
    \/ \E c \in CPUs : \/ K_Preempt(c) \/ K_Block(c) \/ K_Exit(c) \/ K_IdleSchedule(c)
                       \/ accordin_running(c) \/ accordin_tick(c)

UserNext ==
    \E t \in Tasks : \/ FastLock(t) \/ SlowPending(t) \/ Acquire(t) \/ MarkEntered(t)
                     \/ Unlock(t) \/ MarkExit(t)

Next == KernelNext \/ UserNext \/ accordin_set_active_cpus \/ accordin_nudge_cpu

Spec == Init /\ [][Next]_vars

\* Every variable has its type; a CPU that the controller nudges exists.
TypeOK ==
    /\ ctx \in [Tasks -> CtxRecords \cup {NoCtx}]
    /\ owner \in [CPUs -> Tasks \cup {None}]
    /\ seq \in [CPUs -> 0..(DrainInterval - 1)]
    /\ stats_only \in BOOLEAN /\ mask \in SUBSET CPUs /\ pushes \in 0..MaxPushes
    /\ nudges \in Seq([cpu : CPUs, drain : BOOLEAN])
    /\ word \in [Tasks -> Words] /\ registered \in [Tasks -> BOOLEAN]
    /\ phase \in [Tasks -> Phases] /\ st \in [Tasks -> States]
    /\ taskCpu \in [Tasks -> CPUs] /\ curr \in [CPUs -> Tasks \cup {None}]
    /\ picking \in [CPUs -> BOOLEAN] /\ kicked \subseteq CPUs
    /\ dsq \in [DsqIds -> Seq(Tasks)]

Admitted(c) == {t \in Tasks : ctx[t].holds /\ ctx[t].cpu = c}

\* README.md:66: the owner map records one admission owner per CPU, so at most
\* one task is admitted to a CPU at any time.
OneAdmittedPerCpu == \A c \in CPUs : Cardinality(Admitted(c)) <= 1

\* The owner recorded for a CPU is a task that believes it is admitted to it.
\* An owner that is not would keep the CPU from every later waiter, since only
\* release_admission of that task clears the entry.  README.md:69.
OwnerBacked == \A c \in CPUs : owner[c] # None => owner[c] \in Admitted(c)

\* A preempted thread whose word says that it is in its critical section waits
\* in a local queue, never behind other waiters in the controlled, inactive or
\* global queue (accordin_stopping and the first branch of accordin_enqueue).
CriticalStaysLocal ==
    \A t \in Tasks : IN_CRITICAL_SECTION \in word[t] /\ st[t] \in {"queued", "granting", "parking"}
        => \E c \in CPUs : t \in Range(dsq[LocalDsq(c)])

Joins(t, d) == t \notin Range(dsq[d]) /\ t \in Range(dsq'[d])

\* A task with slow-path history comes into the local queue of an active CPU
\* only, whichever of the callbacks puts it there and whatever mask was active
\* when its admission CPU was chosen; the exception is an enqueue that was
\* under way when the mask changed.  README.md:70.
SeenStaysOnActive ==
    [][\A t \in Tasks : \A c \in CPUs \ mask :
        Joins(t, LocalDsq(c)) /\ ctx'[t].seen => st[t] = "granting"]_vars

\* In statistics-only mode, once accordin_set_active_cpus has returned, no
\* callback that begins later puts a task into the local queue of an inactive
\* CPU (2026-05-06-bpf-active-cpumask-design.md:89).  What an inactive CPU takes
\* from the global queue itself is not delivered by a callback.
StatsDeliverToActive ==
    [][stats_only => \A t \in Tasks : \A c \in CPUs \ mask :
        st[t] \in {"blocked", "waking", "running"} => ~Joins(t, LocalDsq(c))]_vars

\* A CPU that can look for work, because its slice ends or it was kicked, and
\* again and again finds its local and global queues empty, does so.
DispatchFairness ==
    \A c \in CPUs : SF_vars((K_Preempt(c) \/ K_IdleSchedule(c)) /\ CallsDispatch(c))

FairSpec == Spec /\ DispatchFairness

\* A waiter does not stay in the inactive queue of a CPU whose dispatch is
\* called again and again, even while the CPU has an owner and the controlled
\* queue never empties: the periodic drain of should_drain_inactive.
WaiterDrains ==
    \A t \in Tasks : \A c \in CPUs :
        []<>CallsDispatch(c) => []<>(t \notin Range(dsq[INACTIVE(c)]))

============================================================================
