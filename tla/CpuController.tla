--------------------------- MODULE CpuController ---------------------------
(***************************************************************************)
(* The dynamic concurrency controller: record_post_unlock and the control  *)
(* tick of accordin_shared/src/lock_stats.rs with update_dynamic_cpu_count *)
(* of cpu_affinity.rs.  Threads that release a lock add a sample to the    *)
(* counters of the window; one of those that see the window over is        *)
(* elected to run the tick, which takes the samples and, under the mutex   *)
(* of the control state, moves the number of active CPUs and pushes the    *)
(* mask to the BPF scheduler.  A counter is the set of the samples that    *)
(* were added to it: the two sums and the two counts each hold one part of *)
(* a sample.  The moving averages are abstracted to the target they yield: *)
(* some number of CPUs from 1 up to the limit.                             *)
(***************************************************************************)
EXTENDS Integers, FiniteSets

CONSTANTS
    Threads,
    None,
    Configs,      \* [requested, available, addressable]: the value of
                  \* ACCORDIN_CPU_MASK_K, the CPUs available to the process, and
                  \* how many of them come before one outside MAX_CPUS
    Targets,      \* the rounded targets that samples may lead to
    Registered,   \* the values registered_thread_count may have
    Window,       \* dynamic_cpu_window_ns
    MaxTime,      \* bound on the clock
    MaxSamples    \* bound on the samples

\* load_cpu_affinity_state accepts no other counts, and a scheduler whose first
\* push fails does not start.
ASSUME ConfigsAssumption ==
    \A c \in Configs :
        /\ c.requested \in Nat /\ c.available \in Nat /\ c.addressable \in Nat
        /\ 1 <= c.requested /\ c.requested <= c.available /\ c.requested <= c.addressable

ASSUME BoundsAssumption ==
    /\ Targets \subseteq Nat /\ Registered \subseteq Nat
    /\ Window \in Nat \ {0} /\ MaxTime \in Nat \ {0} /\ MaxSamples \in Nat
    /\ IsFiniteSet(Threads) /\ None \notin Threads

DYNAMIC_CPU_MAX_TARGET_MULTIPLIER      == 8
DYNAMIC_CPU_LOW_LOAD_BYPASS_MIN_FLOOR  == 8
DYNAMIC_CPU_LOW_LOAD_BYPASS_MULTIPLIER == 2

VARIABLES
    config,
    now,             \* the clock
    last_tick,       \* DYNAMIC_CPU_LAST_TICK_NS
    process,         \* PROCESS_CS_SUM_NS, PROCESS_NCS_SUM_NS, PROCESS_CS_COUNT
                     \* and PROCESS_NCS_COUNT: the samples in each
    made,            \* the samples are 1 to made
    sample,          \* sample[t]: the sample that t adds, or 0
    past,            \* history: the parts that ticks have done with
    dropped,         \* history: samples of which a tick threw a part away
    torn,            \* history: samples that met with a tick, see Overlaps
    pc,
    at,              \* at[t]: now_ns, the time the call took after the unlock
    seen,            \* seen[t]: the local last_tick of the election
    got,             \* got[t]: what a tick has swapped out of each counter
    mutex,           \* the thread that holds DYNAMIC_CPU_CONTROL
    last_count, floor, limit, frozen,    \* WindowControlState, 0 for an Option that is None
    target, previous,                    \* locals of the thread that holds the mutex
    active,          \* CpuAffinityConfig.active_cpu_count
    mask             \* the number of CPUs in the mask that BPF has

history == <<past, dropped, torn>>
samples == <<process, made, sample, history>>
election == <<now, last_tick, at, seen>>
control == <<last_count, floor, limit, frozen>>
affinity == <<target, previous, active, mask>>
vars == <<config, samples, election, control, affinity, pc, got, mutex>>

Counters == {"cs_sum", "ncs_sum", "cs", "ncs"}

Nothing == [c \in Counters |-> {}]

Init ==
    /\ config \in Configs
    /\ now = 1 /\ last_tick = 0
    /\ process = Nothing /\ past = Nothing /\ dropped = {} /\ torn = {}
    /\ made = 0 /\ sample = [t \in Threads |-> 0]
    /\ pc = [t \in Threads |-> "idle"]
    /\ at = [t \in Threads |-> 0] /\ seen = [t \in Threads |-> 0]
    /\ got = [t \in Threads |-> Nothing]
    /\ mutex = None
    /\ last_count = 0 /\ floor = 0 /\ limit = 0 /\ frozen = FALSE
    /\ target = 0 /\ previous = 0
    /\ active = config.requested /\ mask = config.requested

Goto(t, from, to) == pc[t] = from /\ pc' = [pc EXCEPT ![t] = to]

Advance ==
    /\ now < MaxTime /\ now' = now + 1
    /\ UNCHANGED <<samples, last_tick, at, seen, control, affinity, pc, got, mutex>>

----------------------------------------------------------------------------
ThreadsAt(labels) == {t \in Threads : pc[t] \in labels}

\* Some but not all of the additions of a sample, or of the swaps of a tick, are done.
PartlyAdded == {sample[t] : t \in ThreadsAt({"add_ncs_sum", "add_cs", "add_ncs"})}
Taking == ThreadsAt({"take_ncs", "take_cs_sum", "take_ncs_sum"})

\* The samples of which a tick may get some parts and not others: those being
\* added while it takes the counters, and all while two ticks take them at once.
Overlaps ==
    (IF Taking # {} THEN PartlyAdded ELSE {})
        \cup (IF \E t, u \in Taking : t # u THEN UNION {process[c] : c \in Counters} ELSE {})

RecordOverlaps == torn' = torn \cup Overlaps'

----------------------------------------------------------------------------
(* record_post_unlock: a sampled call adds to the counters one by one.     *)

Sampled(t) ==
    /\ made < MaxSamples /\ made' = made + 1
    /\ sample' = [sample EXCEPT ![t] = made + 1]
    /\ Goto(t, "idle", "add_cs_sum")
    /\ at' = [at EXCEPT ![t] = now]
    /\ UNCHANGED <<process, history, now, last_tick, seen, control, affinity, got, mutex>>

Add(t, counter, from, to) ==
    /\ Goto(t, from, to)
    /\ process' = [process EXCEPT ![counter] = @ \cup {sample[t]}]
    /\ UNCHANGED <<made, past, dropped, now, last_tick, seen, control, affinity, got, mutex>>

AddEarlier(t, counter, from, to) ==
    /\ Add(t, counter, from, to)
    /\ UNCHANGED <<sample, at>> /\ RecordOverlaps

AddCriticalTime(t) == AddEarlier(t, "cs_sum", "add_cs_sum", "add_ncs_sum")
AddOutsideTime(t) == AddEarlier(t, "ncs_sum", "add_ncs_sum", "add_cs")
AddCritical(t) == AddEarlier(t, "cs", "add_cs", "add_ncs")

\* The time is that of the release, or read again to begin the next sample.
AddOutside(t) ==
    /\ Add(t, "ncs", "add_ncs", "load")
    /\ \E time \in {at[t], now} : at' = [at EXCEPT ![t] = time]
    /\ sample' = [sample EXCEPT ![t] = 0] /\ RecordOverlaps

\* A call that was not sampled reads the clock after the unlock.
NotSampled(t) ==
    /\ Goto(t, "idle", "load")
    /\ at' = [at EXCEPT ![t] = now]
    /\ UNCHANGED <<samples, now, last_tick, seen, control, affinity, got, mutex>>

----------------------------------------------------------------------------
(* maybe_run_dynamic_cpu_control.                                          *)

LoadTick(t) ==
    /\ Goto(t, "load", "elect")
    /\ seen' = [seen EXCEPT ![t] = last_tick]
    /\ UNCHANGED <<samples, now, last_tick, at, control, affinity, got, mutex>>

\* Locals are 0 when they are no longer needed.
DropTimes(t) == at' = [at EXCEPT ![t] = 0] /\ seen' = [seen EXCEPT ![t] = 0]
DropCounts(t) ==
    /\ past' = [c \in Counters |-> past[c] \cup got[t][c]]
    /\ got' = [got EXCEPT ![t] = Nothing]
    /\ UNCHANGED <<process, made, sample, torn>>
DropUpdate == target' = 0 /\ previous' = 0

WindowOver(t) == at[t] - seen[t] >= Window

NotYet(t) ==
    /\ seen[t] # 0 /\ ~WindowOver(t)
    /\ Goto(t, "elect", "idle") /\ DropTimes(t)
    /\ UNCHANGED <<samples, now, last_tick, control, affinity, got, mutex>>

\* Mutant: the exchange is a plain store.
compare_exchange_Store(t) ==
    /\ pc[t] = "elect" /\ (seen[t] = 0 \/ WindowOver(t))
    /\ last_tick' = at[t] /\ DropTimes(t)
    /\ pc' = [pc EXCEPT ![t] = IF seen[t] = 0 THEN "idle" ELSE "take_cs"]
    /\ UNCHANGED <<samples, now, control, affinity, got, mutex>>

\* The first call of all starts the first window; later ones elect.
compare_exchange(t) ==
    /\ pc[t] = "elect" /\ (seen[t] = 0 \/ WindowOver(t))
    /\ last_tick = seen[t]
    /\ last_tick' = at[t] /\ DropTimes(t)
    /\ pc' = [pc EXCEPT ![t] = IF seen[t] = 0 THEN "idle" ELSE "take_cs"]
    /\ UNCHANGED <<samples, now, control, affinity, got, mutex>>

\* Mutant: a failed exchange is tried again with the same value.
ExchangeFails_Again(t) ==
    /\ pc[t] = "elect" /\ (seen[t] = 0 \/ WindowOver(t))
    /\ last_tick # seen[t]
    /\ UNCHANGED <<samples, election, control, affinity, pc, got, mutex>>

ExchangeFails(t) ==
    /\ pc[t] = "elect" /\ (seen[t] = 0 \/ WindowOver(t))
    /\ last_tick # seen[t]
    /\ seen' = [seen EXCEPT ![t] = last_tick]
    /\ UNCHANGED <<samples, now, last_tick, at, control, affinity, pc, got, mutex>>

----------------------------------------------------------------------------
(* run_dynamic_cpu_control_tick: take_dynamic_sample_averages swaps the    *)
(* counters out one by one, before the mutex is taken.                     *)

Take(t, counter, from, to) ==
    /\ Goto(t, from, to)
    /\ got' = [got EXCEPT ![t][counter] = process[counter]]
    /\ UNCHANGED <<made, sample, past, dropped, election, control, affinity, mutex>>

\* Mutant: the counter is read and not reset.
SwapOut_NoReset(t, counter, from, to) ==
    /\ Take(t, counter, from, to)
    /\ UNCHANGED process /\ RecordOverlaps

SwapOut(t, counter, from, to) ==
    /\ Take(t, counter, from, to)
    /\ process' = [process EXCEPT ![counter] = {}]
    /\ RecordOverlaps

TakeCritical(t) == SwapOut(t, "cs", "take_cs", "take_ncs")
TakeOutside(t) == SwapOut(t, "ncs", "take_ncs", "take_cs_sum")
TakeCriticalTime(t) == SwapOut(t, "cs_sum", "take_cs_sum", "take_ncs_sum")
TakeOutsideTime(t) == SwapOut(t, "ncs_sum", "take_ncs_sum", "averages")

\* Without a count of each kind there is no average: the tick is over, and what
\* it has taken is thrown away.
NoAverages(t) ==
    /\ got[t]["cs"] = {} \/ got[t]["ncs"] = {}
    /\ Goto(t, "averages", "idle") /\ DropCounts(t)
    /\ dropped' = dropped \cup UNION {got[t][c] : c \in Counters}
    /\ UNCHANGED <<election, control, affinity, mutex>>

\* Mutant: the state is read without the mutex.
LockControl_Unlocked(t) ==
    /\ got[t]["cs"] # {} /\ got[t]["ncs"] # {} /\ DropCounts(t)
    /\ IF frozen
       THEN Goto(t, "averages", "idle") /\ UNCHANGED mutex
       ELSE mutex' = t /\ Goto(t, "averages", "decide")
    /\ UNCHANGED <<dropped, election, control, affinity>>

LockControl(t) ==
    /\ got[t]["cs"] # {} /\ got[t]["ncs"] # {}
    /\ mutex = None /\ DropCounts(t)
    /\ IF frozen
       THEN Goto(t, "averages", "idle") /\ UNCHANGED mutex
       ELSE mutex' = t /\ Goto(t, "averages", "decide")
    /\ UNCHANGED <<dropped, election, control, affinity>>

current_cpu_count == IF last_count # 0 THEN last_count ELSE active

dynamic_cpu_target_floor == IF floor = 0 THEN current_cpu_count ELSE floor

dynamic_cpu_target_limit ==
    IF limit = 0 THEN current_cpu_count * DYNAMIC_CPU_MAX_TARGET_MULTIPLIER ELSE limit

\* With few registered threads all available CPUs are given.
dynamic_cpu_low_load_bypass(registered) ==
    LET least == dynamic_cpu_target_floor IN
    /\ least >= DYNAMIC_CPU_LOW_LOAD_BYPASS_MIN_FLOOR
    /\ registered # 0 /\ config.available > least
    /\ registered <= least * DYNAMIC_CPU_LOW_LOAD_BYPASS_MULTIPLIER

LowLoadBypass(t) ==
    /\ Goto(t, "decide", "swap")
    /\ \E registered \in Registered : dynamic_cpu_low_load_bypass(registered)
    /\ floor' = dynamic_cpu_target_floor /\ target' = config.available
    /\ UNCHANGED <<samples, election, last_count, limit, frozen, previous, active, mask, got, mutex>>

\* Mutant: the floor is left out.
dynamic_cpu_target_bounded_NoFloor(n) ==
    IF n > dynamic_cpu_target_limit THEN dynamic_cpu_target_limit ELSE n

dynamic_cpu_target_bounded(n) ==
    LET raised == IF n < dynamic_cpu_target_floor THEN dynamic_cpu_target_floor ELSE n
    IN IF raised > dynamic_cpu_target_limit THEN dynamic_cpu_target_limit ELSE raised

dynamic_cpu_count_within_dead_zone(n) == n - current_cpu_count \in {-1, 0, 1}

\* The averages yield a target, or none when they are not usable.
Decide(t) ==
    /\ pc[t] = "decide"
    /\ \E registered \in Registered : ~dynamic_cpu_low_load_bypass(registered)
    /\ floor' = dynamic_cpu_target_floor /\ limit' = dynamic_cpu_target_limit
    /\ \/ /\ Goto(t, "decide", "idle") /\ mutex' = None
          /\ UNCHANGED <<last_count, target>>
       \/ \E n \in Targets : LET bounded == dynamic_cpu_target_bounded(n) IN
            IF dynamic_cpu_count_within_dead_zone(bounded)
            THEN /\ last_count' = current_cpu_count
                 /\ Goto(t, "decide", "idle") /\ mutex' = None /\ UNCHANGED target
            ELSE /\ target' = bounded /\ Goto(t, "decide", "swap")
                 /\ UNCHANGED <<last_count, mutex>>
    /\ UNCHANGED <<samples, election, frozen, previous, active, mask, got>>

----------------------------------------------------------------------------
(* update_dynamic_cpu_count, and what the tick does with its result.       *)

applied_cpus == IF target < config.available THEN target ELSE config.available

SwapCount(t) ==
    /\ Goto(t, "swap", IF active = applied_cpus THEN "applied" ELSE "push")
    /\ previous' = active /\ active' = applied_cpus
    /\ UNCHANGED <<samples, election, control, target, mask, got, mutex>>

\* The new count stays when the bitmap cannot be built.
BitmapFails(t) ==
    /\ active > config.addressable
    /\ Goto(t, "push", "idle") /\ mutex' = None /\ DropUpdate
    /\ UNCHANGED <<samples, election, control, active, mask, got>>

PushMask(t) ==
    /\ active <= config.addressable
    /\ Goto(t, "push", "applied")
    /\ mask' = active
    /\ UNCHANGED <<samples, election, control, target, previous, active, got, mutex>>

\* The BPF program returns an error, or no scheduler has registered its sink.
PushFails(t) ==
    /\ active <= config.addressable
    /\ Goto(t, "push", "rollback")
    /\ UNCHANGED <<samples, election, control, affinity, got, mutex>>

\* Mutant: the count is not restored.
Rollback_Forgotten(t) ==
    /\ Goto(t, "rollback", "idle") /\ mutex' = None /\ DropUpdate
    /\ UNCHANGED <<samples, election, control, active, mask, got>>

Rollback(t) ==
    /\ Goto(t, "rollback", "idle") /\ mutex' = None /\ DropUpdate
    /\ active' = previous
    /\ UNCHANGED <<samples, election, control, mask, got>>

Applied(t) ==
    /\ Goto(t, "applied", "idle") /\ mutex' = None /\ DropUpdate
    /\ last_count' = applied_cpus
    /\ UNCHANGED <<samples, election, floor, limit, frozen, active, mask, got>>

\* The benchmark ends its warm-up.
dynamic_cpu_affinity_freeze ==
    /\ mutex = None /\ ~frozen
    /\ frozen' = TRUE /\ last_count' = current_cpu_count
    /\ UNCHANGED <<samples, election, floor, limit, affinity, pc, got, mutex>>

----------------------------------------------------------------------------
Call(t) == Sampled(t) \/ NotSampled(t)

Continue(t) ==
    \/ AddCriticalTime(t) \/ AddOutsideTime(t) \/ AddCritical(t) \/ AddOutside(t)
    \/ LoadTick(t) \/ NotYet(t)
    \/ compare_exchange(t) \/ ExchangeFails(t)
    \/ TakeCritical(t) \/ TakeOutside(t) \/ TakeCriticalTime(t) \/ TakeOutsideTime(t)
    \/ NoAverages(t) \/ LockControl(t)
    \/ LowLoadBypass(t) \/ Decide(t) \/ SwapCount(t) \/ BitmapFails(t)
    \/ PushMask(t) \/ PushFails(t) \/ Rollback(t) \/ Applied(t)

Next ==
    /\ UNCHANGED config
    /\ Advance \/ dynamic_cpu_affinity_freeze \/ \E t \in Threads : Call(t) \/ Continue(t)

Spec == Init /\ [][Next]_vars

\* A thread goes on with what follows its unlock, and the mutex of the control
\* state, which each holder lets go, is not kept from one thread for ever.
FairSpec ==
    /\ Spec
    /\ \A t \in Threads :
        /\ WF_vars(UNCHANGED config /\ Continue(t))
        /\ SF_vars(UNCHANGED config /\ LockControl(t))

----------------------------------------------------------------------------
AddLabels == {"add_cs_sum", "add_ncs_sum", "add_cs", "add_ncs"}
TakeLabels == {"take_cs", "take_ncs", "take_cs_sum", "take_ncs_sum"}

Labels == {"idle", "load", "elect", "averages", "decide", "swap", "push", "rollback", "applied"}
              \cup AddLabels \cup TakeLabels

InControl == {"decide", "swap", "push", "rollback", "applied"}

\* Every variable has its type, and the mutex is held by the thread that is in
\* the part of the tick which it guards.
TypeOK ==
    /\ config \in Configs /\ now \in 1..MaxTime /\ last_tick \in 0..now
    /\ made \in 0..MaxSamples /\ sample \in [Threads -> 0..made]
    /\ \A t \in Threads : sample[t] # 0 <=> pc[t] \in AddLabels
    /\ process \in [Counters -> SUBSET (1..made)] /\ past \in [Counters -> SUBSET (1..made)]
    /\ dropped \subseteq 1..made /\ torn \subseteq 1..made
    /\ pc \in [Threads -> Labels]
    /\ at \in [Threads -> 0..MaxTime] /\ seen \in [Threads -> 0..MaxTime]
    /\ got \in [Threads -> [Counters -> SUBSET (1..made)]]
    /\ mutex \in Threads \cup {None}
    /\ \A t \in Threads : pc[t] \in InControl <=> mutex = t
    /\ last_count \in Nat /\ floor \in Nat /\ limit \in Nat /\ frozen \in BOOLEAN
    /\ target \in Nat /\ previous \in Nat /\ active \in Nat /\ mask \in Nat

\* Whatever targets, failed pushes and rollbacks come one after the other, no
\* fewer CPUs than were asked for are active, and no more than there are.
CountWithinBounds == config.requested <= active /\ active <= config.available

\* Between updates the scheduler has the mask of the count that the controller
\* believes in, also after failed pushes; provided that each CPU fits the mask.
CountIsPushed ==
    (mutex = None /\ config.available <= config.addressable) => active = mask

\* The samples whose addition to a counter is still to come.
Before(c) ==
    CASE c = "cs_sum"  -> {"add_cs_sum"}
      [] c = "ncs_sum" -> {"add_cs_sum", "add_ncs_sum"}
      [] c = "cs"      -> {"add_cs_sum", "add_ncs_sum", "add_cs"}
      [] c = "ncs"     -> AddLabels
ToBeAdded(c) == {sample[t] : t \in ThreadsAt(Before(c))}

\* Each part of each sample is in one place: still to be added, in its counter,
\* with the one tick that took it, or done with.
PartsInOnePlace ==
    \A c \in Counters :
        /\ 1..made = ToBeAdded(c) \cup process[c] \cup past[c] \cup UNION {got[t][c] : t \in Threads}
        /\ ToBeAdded(c) \cap (process[c] \cup past[c]) = {} /\ process[c] \cap past[c] = {}
        /\ \A t \in Threads :
            /\ got[t][c] \cap (ToBeAdded(c) \cup process[c] \cup past[c]) = {}
            /\ \A u \in Threads \ {t} : got[t][c] \cap got[u][c] = {}

\* No two ticks count a sample, and only the samples that Overlaps names are
\* split or lost: of any other, a tick that forms averages has all four parts or
\* none, and none is thrown away for want of a count (lock_stats.rs:685).
SamplesAccounted ==
    /\ PartsInOnePlace
    /\ \A t \in ThreadsAt({"averages"}) : \A c, d \in Counters : got[t][c] \ torn = got[t][d] \ torn
    /\ dropped \subseteq torn

TickLabels == TakeLabels \cup {"averages", "decide", "swap", "push"}

\* The threads in a tick that may still push a mask.
Ticking == ThreadsAt(TickLabels)

\* The scheduler sees what CpuBudget allows it to see: the mask stays within its
\* bounds, moves once per tick at most, and never after the freeze.
Budget == INSTANCE CpuBudget WITH
    least <- config.requested, most <- config.available, budget <- mask, last <- last_tick,
    credit <- Cardinality(Ticking), frozen <- frozen

ImplementsBudget == Budget!Spec

\* What follows an unlock ends, the election and the tick included.
CallsEnd == \A t \in Threads : pc[t] # "idle" ~> pc[t] = "idle"

============================================================================
