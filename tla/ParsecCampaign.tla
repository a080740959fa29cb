--------------------------- MODULE ParsecCampaign ---------------------------
(***************************************************************************)
(* run_experiment_three_common.py: dedup and streamcluster under each lock *)
(* (experiments three and their variants).                                 *)
(***************************************************************************)
EXTENDS ResultRoot

CONSTANT ParsecSessions   \* the command lines

target_keys(a) == ForEach(a.benchmarks, LAMBDA b : KeysOf(b, a.locks, a.threads, a.repeats))

Start == \E a \in ParsecSessions : StartSession(a, target_keys(a))

\* The lock helpers, then the binaries, then the input of dedup.
Required ==
    interposed(args.locks) \o accordin_preload(args.locks) \o mcs_extension_preload(args.locks)
        \o args.benchmarks \o IF "dedup" \in ToSet(args.benchmarks) THEN <<"dedup_input">> ELSE <<>>

EnsureTools ==
    /\ pc = "ensure"
    /\ IF FirstMissing(Required) = "dedup_input"
       THEN Exit("error") /\ UNCHANGED <<args, targets, files, bounds>>
       ELSE Ensure(FirstMissing(Required))

\* A successful record whose name is that of a result log yields a row.
row_from_completed_record(rec) == rec.ok /\ rec.log[1] = "run"

completed_rows_from_records ==
    LET usable == {i \in DOMAIN records : row_from_completed_record(records[i])}
        done   == Among(targets, {records[i].log[2] : i \in usable})
    IN [i \in DOMAIN done |-> [key |-> done[i], run |-> Log(<<"run", done[i]>>).run]]

\* Every usable record is parsed, and one without results raises.
LoadExisting ==
    /\ pc = "load"
    /\ IF args.resume /\ \E i \in DOMAIN records :
            row_from_completed_record(records[i]) /\ ~Log(records[i].log).printed
       THEN Exit("error") /\ UNCHANGED <<args, targets>>
       ELSE /\ pc' = "next"
            /\ rows' = IF args.resume THEN completed_rows_from_records ELSE <<>>
            /\ UNCHANGED <<args, targets, pos, stage, records, failures, status>>
    /\ UNCHANGED <<files, bounds>>

SkipCompleted ==
    /\ pc = "next" /\ pos <= Len(targets) /\ Key \in Keys(rows)
    /\ pos' = pos + 1
    /\ UNCHANGED <<pc, args, targets, stage, records, rows, failures, status, files, bounds>>

StartRun ==
    /\ pc = "next" /\ pos <= Len(targets) /\ Key \notin Keys(rows)
    /\ temps' = temps \cup {Temp}
    /\ OpenLog("run")
    /\ UNCHANGED <<args, targets, pos, records, rows, failures, status,
                   commands, rawCsv, failedCsv, tools, bounds>>

EndRun == pc = "running" /\ \E rc \in {"ok", "bad"} : CloseLog(rc)

\* Mutant: the finally block is left out of the path of a row.
AppendRow_KeepsTemp ==
    /\ pc = "handle" /\ stage = "run" /\ Last(records).ok
    /\ rows' = Append(rows, [key |-> Key, run |-> Log(<<"run", Key>>).run])
    /\ pos' = pos + 1 /\ pc' = "next"
    /\ UNCHANGED <<args, targets, stage, records, failures, status, files, bounds>>

\* Output without cycle counts raises, through the finally block, to main.
AppendRow ==
    /\ pc = "handle" /\ stage = "run" /\ Last(records).ok
    /\ temps' = temps \ {Temp}
    /\ IF Log(<<"run", Key>>).printed
       THEN /\ rows' = Append(rows, [key |-> Key, run |-> Log(<<"run", Key>>).run])
            /\ pos' = pos + 1 /\ pc' = "next"
            /\ UNCHANGED <<args, targets, stage, records, failures, status>>
       ELSE Exit("error") /\ UNCHANGED <<args, targets>>
    /\ UNCHANGED <<logs, commands, rawCsv, failedCsv, tools, bounds>>

RecordFailure == pc = "handle" /\ stage = "run" /\ ~Last(records).ok /\ append_command_failure

\* Mutant: the loop ends with its first failure.
RunsOver_Early ==
    /\ pc = "next" /\ (pos > Len(targets) \/ failures # {}) /\ pc' = "raw"
    /\ UNCHANGED <<args, targets, pos, stage, records, rows, failures, status, files, bounds>>

RunsOver ==
    /\ pc = "next" /\ pos > Len(targets) /\ pc' = "raw"
    /\ UNCHANGED <<args, targets, pos, stage, records, rows, failures, status, files, bounds>>

write_raw_csv == (OpenRaw("raw", "raw_open") \/ CloseRaw("raw_open", "report")) /\ UNCHANGED temps

Step ==
    \/ EnsureTools \/ LoadExisting \/ SkipCompleted \/ StartRun \/ EndRun \/ AppendRow
    \/ RecordFailure \/ RunsOver \/ write_raw_csv \/ Report \/ LoggerStep

============================================================================
