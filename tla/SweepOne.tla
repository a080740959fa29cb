----------------------------- MODULE SweepOne ------------------------------
(***************************************************************************)
(* run_experiment_one.py: a base sweep of several locks for each group of  *)
(* equal thread counts, one sweep per Accordin variant and one of the MCS  *)
(* extension, then the combined CSV.  --supplement-locks sweeps base locks *)
(* in a root that may have results.                                        *)
(***************************************************************************)
EXTENDS SweepRoot

CONSTANT OneSessions   \* [locks, threads, supplement, profile, force]; the locks
                       \* of a full run are those of its profile

BASE_LOCK_KEYS == {"mcs", "mcstp", "mcs-tas", "reciprocating", "malthusian", "flexguard"}
FLEXGUARD_INTERPOSE_KEYS == {"mcstp", "malthusian", "flexguard"}
ONE_LOCK_KEYS == BASE_LOCK_KEYS \cup ACCORDIN_VARIANT_LOCKS \cup {"mcs_extension"}
optional == ACCORDIN_VARIANT_LOCKS \cup {"reciprocating", "malthusian"}

\* What the argument parser accepts.
ASSUME OneLinesAssumption ==
    \A a \in OneSessions :
        /\ a.locks \in Seq(ONE_LOCK_KEYS) /\ a.profile \in Seq(ONE_LOCK_KEYS)
        /\ a.threads \in Seq(Nat) /\ a.supplement \in BOOLEAN /\ a.force \in BOOLEAN

lock_has_existing_results(lock) == lock \in DOMAIN raw

\* Mutant: a supplement sweeps its locks also where they have results.
Refused_NoTargets(a) == ~a.supplement /\ sessions > 0 /\ ~a.force

\* A supplement may use any root; ensure_supplement_targets guards its locks.
Refused(a) ==
    IF a.supplement THEN ~a.force /\ \E l \in ToSet(a.locks) : lock_has_existing_results(l)
    ELSE sessions > 0 /\ ~a.force

write_settings(a) ==
    settings' = IF ~a.supplement THEN a.locks ELSE IF settings = <<>> THEN a.profile ELSE settings

\* ensure_inputs: mutex_bench is always made, a missing wrapper is built.
ensure_inputs(a) ==
    LET wrappers == Among(a.locks, FLEXGUARD_INTERPOSE_KEYS)
        Builds(ls) == [i \in DOMAIN ls |-> Command("build", <<ls[i]>>, <<>>, <<>>)]
    IN {Builds(<<"mutex_bench">>), Builds(<<"mutex_bench">> \o wrappers)}

\* Every logger reads commands.json, after the settings have been written.
OneStart ==
    /\ NewSession
    /\ \E a \in OneSessions :
        IF Refused(a) THEN Exit("refused") /\ args' = a /\ UNCHANGED settings
        ELSE /\ write_settings(a)
             /\ IF torn THEN Exit("refused") /\ args' = a
                ELSE \E builds \in ensure_inputs(a) : Begin(a, "builds", builds)
    /\ UNCHANGED <<raw, report, failed, logs, torn>>

Out(lock) == [file |-> lock, points |-> Points(runnable_threads_for_lock(lock, args.threads))]

OneSweep(name, locks) == Command("sweep", name, [i \in DOMAIN locks |-> Out(locks[i])], <<>>)

run_multi_lock_sweeps(locks) ==
    LET groups == lock_thread_groups(locks, [l \in ToSet(locks) |-> runnable_threads_for_lock(l, args.threads)])
    IN [g \in DOMAIN groups |-> OneSweep(<<"base", Len(groups) > 1>>, groups[g])]

\* The direct library may be missing.
run_accordin_sweeps(locks, build) ==
    (IF build THEN <<Command("build", <<"direct">>, <<>>, <<>>)>> ELSE <<>>)
        \o [i \in DOMAIN locks |-> OneSweep(<<locks[i]>>, <<locks[i]>>)]

run_benchmarks ==
    /\ stage = "builds" /\ Over
    /\ \E build \in BOOLEAN :
        LET In(S) == Among(args.locks, S)
            accordin == In(ACCORDIN_VARIANT_LOCKS)
        IN /\ build => accordin # <<>>
           /\ Proceed("sweeps", run_multi_lock_sweeps(In(BASE_LOCK_KEYS))
                \o run_accordin_sweeps(accordin, build)
                \o run_accordin_sweeps(In({"mcs_extension"}), FALSE))
    /\ UNCHANGED <<rows, files, bounds>>

\* Mutant: a log of that name is overwritten.
resolve_log_path_First(name) == <<name, 0>>

resolve_log_path(name) ==
    <<name, Min({i \in 0..Cardinality(DOMAIN logs) : <<name, i>> \notin DOMAIN logs})>>

CombinedLocks == IF args.supplement THEN settings ELSE args.locks

load_combined_rows ==
    LET have == Among(CombinedLocks, DOMAIN raw)
    IN [i \in DOMAIN have |-> [name |-> have[i], by |-> raw[have[i]].by, n |-> raw[have[i]].n]]

\* Without failures each lock that is not optional must have results.
MissingResults ==
    failures = {} /\ \E l \in ToSet(CombinedLocks) : l \notin DOMAIN raw /\ l \notin optional

Combine ==
    /\ stage = "sweeps" /\ Over
    /\ IF MissingResults
       THEN Exit("error") /\ UNCHANGED report
       ELSE /\ pc' = "finish" /\ report' = [state |-> "whole", rows |-> load_combined_rows]
            /\ UNCHANGED <<stage, work, pos, log, rows, failures, status>>
    /\ UNCHANGED <<args, raw, failed, settings, logs, torn, bounds>>

HandleFailure ==
    pc = "raised" /\ IF Item.kind = "build" THEN Raise ELSE append_command_failure

OneStep ==
    \/ run_benchmarks \/ Combine \/ Continue \/ HandleFailure
    \/ pc = "next" /\ pos <= Len(work) /\ StartCommand(resolve_log_path(Item.name))
    \/ pc = "finish" /\ Finish
    \/ LoggerStep

============================================================================
