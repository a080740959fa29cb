----------------------------- MODULE SweepTwo ------------------------------
(***************************************************************************)
(* run_experiment_two.py: one sweep for each lock and thread count, bound  *)
(* to as many CPUs, whose rows are collected in the raw.csv of the root.   *)
(* --resume takes the completed points from that file.                     *)
(***************************************************************************)
EXTENDS SweepRoot

CONSTANT TwoSessions   \* the command lines: [locks, threads, resume, force, dry]

\* What main lets pass: nothing is named twice, and there are CPUs enough.
ASSUME TwoLinesAssumption ==
    \A a \in TwoSessions :
        /\ a.locks \in Seq(STRING) /\ IsInjective(a.locks)
        /\ a.threads \in Seq(1..Len(ordered_cpus)) /\ IsInjective(a.threads)
        /\ a.resume \in BOOLEAN /\ a.force \in BOOLEAN /\ a.dry \in BOOLEAN

PointFile(lock, t) == <<"per_run", lock, t>>

\* resolve_lock_specs drops duplicates; --build-missing builds the preload.
ensure_mcs_tse_library(a) ==
    IF a.dry THEN {<<>>}
    ELSE {<<>>} \cup IF "mcs_tse" \in ToSet(a.locks)
                     THEN {<<Command("build", <<"mcs_tse">>, <<>>, <<>>)>>} ELSE {}

build_sweep_command(a, lock, t) ==
    Command(IF a.dry THEN "dry" ELSE "sweep", <<lock, t>>,
            <<[file |-> PointFile(lock, t), points |-> Points(<<t>>)]>>, cpu_list_for_threads(t))

\* ensure_output_root, then the logger, which reads commands.json to resume.
TwoStart ==
    /\ NewSession
    /\ \E a \in TwoSessions :
        IF (sessions > 0 /\ ~a.force /\ ~a.resume) \/ (a.resume /\ torn)
        THEN Exit("refused") /\ args' = a
        ELSE \E builds \in ensure_mcs_tse_library(a) : Begin(a, "builds", builds)
    /\ UNCHANGED files

Builds == stage = "builds" /\ (Raise \/ Continue)

completed_points(rs) ==
    {p \in {rs[i].name : i \in DOMAIN rs} :
        Cardinality({i \in DOMAIN rs : rs[i].name = p}) >= Repeats}

Load ==
    /\ stage = "builds" /\ Over
    /\ LET loaded == IF args.resume THEN report.rows ELSE <<>>
           done == IF args.resume THEN completed_points(loaded) ELSE {}
           all == ForEach(args.locks, LAMBDA l :
                      [i \in DOMAIN args.threads |-> build_sweep_command(args, l, args.threads[i])])
       IN /\ rows' = loaded
          /\ Proceed("sweeps", Among(all, {c \in ToSet(all) : c.name \notin done}))
    /\ settings' = args.locks
    /\ UNCHANGED <<raw, report, failed, logs, torn, bounds>>

DryRun ==
    /\ pc = "next" /\ pos <= Len(work) /\ Item.kind = "dry"
    /\ pc' = "dump_dry" /\ torn' = TRUE
    /\ UNCHANGED <<args, stage, work, pos, log, rows, failures, status, raw, report, failed, settings, logs, bounds>>

\* Mutant: the rows of a file are added also when its sweep has failed.
append_sweep_rows_Always ==
    /\ pc \in {"ended", "raised"} /\ stage = "sweeps" /\ pc' = "progress"
    /\ LET f == Item.outs[1].file
           m == IF f \in DOMAIN raw THEN raw[f].n ELSE 0
       IN rows' = rows \o [i \in 1..m |-> [name |-> Item.name, point |-> raw[f].of[i], by |-> raw[f].by]]
    /\ UNCHANGED <<args, stage, work, pos, log, failures, status, files, bounds>>

append_sweep_rows ==
    /\ pc = "ended" /\ stage = "sweeps" /\ pc' = "progress"
    /\ LET f == Item.outs[1].file
       IN rows' = rows \o
            [i \in 1..raw[f].n |-> [name |-> Item.name, point |-> raw[f].of[i], by |-> raw[f].by]]
    /\ UNCHANGED <<args, stage, work, pos, log, failures, status, files, bounds>>

OpenReport(from, to) ==
    /\ pc = from /\ pc' = to /\ report' = [state |-> "torn", rows |-> <<>>]
    /\ UNCHANGED <<args, stage, work, pos, log, rows, failures, status, raw, failed, settings, logs, torn, bounds>>

CloseReport(from, to) ==
    /\ pc = from /\ pc' = to /\ report' = [state |-> "whole", rows |-> rows]
    /\ pos' = IF to = "next" THEN pos + 1 ELSE pos
    /\ UNCHANGED <<args, stage, work, log, rows, failures, status, raw, failed, settings, logs, torn, bounds>>

write_raw_csv ==
    \/ OpenReport("progress", "progress_open") \/ CloseReport("progress_open", "next")
    \/ OpenReport("report", "report_open")     \/ CloseReport("report_open", "finish")

SweepsOver ==
    /\ stage = "sweeps" /\ Over /\ pc' = IF args.dry THEN "finish" ELSE "report"
    /\ UNCHANGED <<args, stage, work, pos, log, rows, failures, status, files, bounds>>

TwoStep ==
    \/ Builds \/ Load \/ DryRun \/ append_sweep_rows \/ write_raw_csv \/ SweepsOver
    \/ pc = "next" /\ pos <= Len(work) /\ StartCommand(<<Item.name, 0>>)
    \/ stage = "sweeps" /\ append_command_failure
    \/ pc = "finish" /\ Finish
    \/ LoggerStep

============================================================================
