---------------------------- MODULE HookCampaign ----------------------------
(***************************************************************************)
(* run_experiment_six.py: PARSEC benchmarks through parsecmgmt.  Unlike    *)
(* ParsecCampaign it accepts output without cycle counts, and its inputs   *)
(* can be fetched.                                                         *)
(***************************************************************************)
EXTENDS ResultRoot

CONSTANT HookSessions   \* the command lines; native is the FlexGuard input size

target_keys(a) == ForEach(a.benchmarks, LAMBDA b : KeysOf(b, a.locks, a.threads, a.repeats))

Start == \E a \in HookSessions : StartSession(a, target_keys(a))

ensure_flexguard_inputs ==
    IF args.native /\ "dedup" \in ToSet(args.benchmarks) THEN <<"dedup_input">> ELSE <<>>

\* parsecmgmt itself is neither built nor fetched.
EnsureTools ==
    /\ pc = "ensure"
    /\ LET helpers == interposed(args.locks) \o accordin_preload(args.locks) \o mcs_extension_preload(args.locks)
       IN IF FirstMissing(helpers) = "none" /\ "parsecmgmt" \notin tools
          THEN Exit("error") /\ UNCHANGED <<args, targets, files, bounds>>
          ELSE Ensure(FirstMissing(helpers \o args.benchmarks \o ensure_flexguard_inputs))

row_from_completed_record(rec) == rec.ok /\ rec.log[1] = "run"

completed_rows_from_records ==
    LET usable == {i \in DOMAIN records : row_from_completed_record(records[i])}
        done   == Among(targets, {records[i].log[2] : i \in usable})
    IN [i \in DOMAIN done |-> [key |-> done[i], run |-> Log(<<"run", done[i]>>).run]]

LoadExisting ==
    /\ pc = "load" /\ pc' = "next"
    /\ rows' = IF args.resume THEN completed_rows_from_records ELSE <<>>
    /\ UNCHANGED <<args, targets, pos, stage, records, failures, status, files, bounds>>

SkipCompleted ==
    /\ pc = "next" /\ pos <= Len(targets) /\ Key \in Keys(rows)
    /\ pos' = pos + 1
    /\ UNCHANGED <<pc, args, targets, stage, records, rows, failures, status, files, bounds>>

\* Mutant: completed runs are not recognised.
StartRun_Always ==
    /\ pc = "next" /\ pos <= Len(targets)
    /\ temps' = temps \cup {Temp} /\ OpenLog("run")
    /\ UNCHANGED <<args, targets, pos, records, rows, failures, status,
                   commands, rawCsv, failedCsv, tools, bounds>>

StartRun ==
    /\ pc = "next" /\ pos <= Len(targets) /\ Key \notin Keys(rows)
    /\ temps' = temps \cup {Temp}
    /\ OpenLog("run")
    /\ UNCHANGED <<args, targets, pos, records, rows, failures, status,
                   commands, rawCsv, failedCsv, tools, bounds>>

EndRun == pc = "running" /\ \E rc \in {"ok", "bad"} : CloseLog(rc)

row_from_output ==
    /\ pc = "handle" /\ stage = "run" /\ Last(records).ok
    /\ rows' = Append(rows, [key |-> Key, run |-> Log(<<"run", Key>>).run])
    /\ temps' = temps \ {Temp}
    /\ pos' = pos + 1 /\ pc' = "next"
    /\ UNCHANGED <<args, targets, stage, records, failures, status,
                   logs, commands, rawCsv, failedCsv, tools, bounds>>

RecordFailure == pc = "handle" /\ stage = "run" /\ ~Last(records).ok /\ append_command_failure

RunsOver ==
    /\ pc = "next" /\ pos > Len(targets) /\ pc' = "raw"
    /\ UNCHANGED <<args, targets, pos, stage, records, rows, failures, status, files, bounds>>

write_raw_csv == (OpenRaw("raw", "raw_open") \/ CloseRaw("raw_open", "report")) /\ UNCHANGED temps

Step ==
    \/ EnsureTools \/ LoadExisting \/ SkipCompleted \/ StartRun \/ EndRun \/ row_from_output
    \/ RecordFailure \/ RunsOver \/ write_raw_csv \/ Report \/ LoggerStep

============================================================================
