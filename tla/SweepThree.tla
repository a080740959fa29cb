---------------------------- MODULE SweepThree -----------------------------
(***************************************************************************)
(* run_experiment_three.py: sweeps of the locks whose results are missing  *)
(* or incomplete.  The taskset variant is swept in parts, one per ratio,   *)
(* each bound to its own number of CPUs; complete parts of an earlier      *)
(* session are kept, and the parts merged at the end.                      *)
(***************************************************************************)
EXTENDS SweepRoot

CONSTANTS ThreeSessions,   \* the command lines: [locks, threads, force]
          Combos           \* taskset_ratio_combos: <<critical_ns, outside_ns>>

ACCORDIN_TASKSET_LOCK == "mcs_tas_accordin_taskset"
MULTI_LOCK_SWEEP_LOCKS == {"mcs", "mcstp", "mcs-tas", "flexguard", "malthusian", "reciprocating"}
THREE_LOCK_KEYS == MULTI_LOCK_SWEEP_LOCKS \cup ACCORDIN_VARIANT_LOCKS \cup {"mcs_extension"}

\* What the argument parser accepts, and the table of ratios.
ASSUME ThreeLinesAssumption ==
    /\ Combos \in Seq((Nat \ {0}) \X Nat) /\ IsInjective(Combos)
    /\ \A a \in ThreeSessions :
        a.locks \in Seq(THREE_LOCK_KEYS) /\ a.threads \in Seq(Nat) /\ a.force \in BOOLEAN

LockFile(lock) == <<lock>>
Part(combo) == <<ACCORDIN_TASKSET_LOCK, combo>>

\* The points of a lock: of each combo those of each thread count and repeat.
PointsOf(threads) == ForEach(Combos, LAMBDA c :
    [i \in DOMAIN Points(threads) |-> <<c, Points(threads)[i]>>])

PartPoints(combo, threads) == [i \in DOMAIN Points(threads) |-> <<combo, Points(threads)[i]>>]

\* Mutant: a file with rows is complete.
lock_is_complete_Any(lock, threads) == LockFile(lock) \in DOMAIN raw

\* Rows are counted, not looked at.
lock_is_complete(lock, threads) ==
    LockFile(lock) \in DOMAIN raw /\ raw[LockFile(lock)].n = Len(threads) * Len(Combos) * Repeats

incomplete_or_missing_locks(locks, threads) ==
    Among(locks, {l \in ToSet(locks) : ~lock_is_complete(l, threads)})

resolve_requested_locks(a) == IF a.force THEN a.locks ELSE incomplete_or_missing_locks(a.locks, a.threads)

\* round(1 + outside / critical), between one and all CPUs.
taskset_target_cpu_count(combo) ==
    LET target == (2 * combo[2] + 3 * combo[1]) \div (2 * combo[1])
    IN Min({Len(ordered_cpus), Max({1, target})})

ThreeStart ==
    /\ NewSession
    /\ \E a \in ThreeSessions : LET locks == resolve_requested_locks(a) IN
        IF locks = <<>> THEN Exit("ok") /\ args' = a
        ELSE Begin([locks |-> a.locks, threads |-> a.threads, force |-> a.force, targets |-> locks],
                   "builds", <<Command("build", <<"mutex_bench">>, <<>>, <<>>)>>)
    /\ UNCHANGED files

FilesOf(lock) == {LockFile(lock)} \cup IF lock = ACCORDIN_TASKSET_LOCK THEN {Part(c) : c \in ToSet(Combos)} ELSE {}

ThreeSweep(locks) ==
    Command("sweep", locks, [i \in DOMAIN locks |-> [file |-> LockFile(locks[i]), points |-> PointsOf(args.threads)]], <<>>)

taskset_sweep_specs ==
    [i \in DOMAIN Combos |->
        Command("sweep", Part(Combos[i]),
                <<[file |-> Part(Combos[i]), points |-> PartPoints(Combos[i], args.threads)]>>,
                cpu_list_for_threads(taskset_target_cpu_count(Combos[i])))]

\* multi-lock groups, the extension, then the Accordin variants and the plots;
\* wrappers and the direct library may have to be built first.
run_baseline_supplement(built) ==
    LET In(S) == Among(args.targets, S)
        multi == In(MULTI_LOCK_SWEEP_LOCKS)
        accordin == In(ACCORDIN_VARIANT_LOCKS)
        Build(name) == IF built THEN <<>> ELSE <<Command("build", <<name>>, <<>>, <<>>)>>
    IN ForEach(lock_thread_groups(multi, [l \in ToSet(multi) |-> args.threads]), LAMBDA g : Build("wrappers") \o <<ThreeSweep(g)>>)
       \o ForEach(In({"mcs_extension"}), LAMBDA l : <<ThreeSweep(<<l>>)>>)
       \o (IF accordin = <<>> THEN <<>> ELSE Build("direct"))
       \o ForEach(accordin, LAMBDA l :
            IF l = ACCORDIN_TASKSET_LOCK
            THEN taskset_sweep_specs \o <<Command("merge", LockFile(l), <<>>, <<>>)>> ELSE <<ThreeSweep(<<l>>)>>)
       \o <<Command("plot", <<"plots">>, <<>>, <<>>)>>

\* prepare_target_dirs, once mutex_bench has been made.
prepare_target_dirs ==
    /\ stage = "builds" /\ Over
    /\ IF ~args.force /\ \E l \in ToSet(args.targets) : LockFile(l) \in DOMAIN raw
       THEN Exit("error") /\ UNCHANGED <<args, raw>>
       ELSE \E built \in BOOLEAN :
            /\ Proceed("sweeps", run_baseline_supplement(built)) /\ UNCHANGED rows
            /\ raw' = LET gone == UNION {FilesOf(l) : l \in IF args.force THEN ToSet(args.targets) ELSE {}}
                      IN [f \in DOMAIN raw \ gone |-> raw[f]]
    /\ UNCHANGED <<report, failed, settings, logs, torn, bounds>>

IsPart == pc = "next" /\ pos <= Len(work) /\ Item.cpus # <<>>

taskset_part_is_complete(part) ==
    part \in DOMAIN raw /\ raw[part].summed /\ raw[part].n = Len(args.threads) * Repeats

SkipPart ==
    /\ IsPart /\ taskset_part_is_complete(Item.name)
    /\ pos' = pos + 1
    /\ UNCHANGED <<pc, args, stage, work, log, rows, failures, status, files, bounds>>

\* A part that is left of a killed session is removed and swept anew.
RemovePart ==
    /\ IsPart /\ ~taskset_part_is_complete(Item.name) /\ Item.name \in DOMAIN raw
    /\ raw' = [f \in DOMAIN raw \ {Item.name} |-> raw[f]]
    /\ UNCHANGED <<memory, report, failed, settings, logs, torn, bounds>>

RunCommand ==
    /\ pc = "next" /\ pos <= Len(work) /\ Item.kind # "merge"
    /\ IsPart => Item.name \notin DOMAIN raw
    /\ StartCommand(<<Item.name, 0>>)

\* merge_taskset_part_csvs: the raw.csv of the lock is truncated, and written.
OpenMerge ==
    /\ pc = "next" /\ pos <= Len(work) /\ Item.kind = "merge" /\ pc' = "merge"
    /\ raw' = With(raw, Item.name, [by |-> sessions, of |-> <<>>, n |-> 0, summed |-> FALSE])
    /\ UNCHANGED <<args, stage, work, pos, log, rows, failures, status, report, failed, settings, logs, torn, bounds>>

MergedPoints == ForEach(Combos, LAMBDA c : SubSeq(raw[Part(c)].of, 1, raw[Part(c)].n))

WriteMerge ==
    /\ pc = "merge" /\ pc' = "next" /\ pos' = pos + 1
    /\ raw' = [raw EXCEPT ![Item.name] =
                [@ EXCEPT !.of = MergedPoints, !.n = Len(MergedPoints), !.summed = TRUE]]
    /\ UNCHANGED <<args, stage, work, log, rows, failures, status, report, failed, settings, logs, torn, bounds>>

Checked ==
    /\ stage = "sweeps" /\ Over
    /\ Exit(IF incomplete_or_missing_locks(args.targets, args.threads) = <<>> THEN "ok" ELSE "incomplete")
    /\ UNCHANGED <<args, files, bounds>>

ThreeStep ==
    \/ prepare_target_dirs \/ SkipPart \/ RemovePart \/ RunCommand \/ OpenMerge \/ WriteMerge
    \/ Checked \/ Continue \/ Raise \/ LoggerStep

============================================================================
