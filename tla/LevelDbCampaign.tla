--------------------------- MODULE LevelDbCampaign ---------------------------
(***************************************************************************)
(* run_experiment_four.py: LevelDB's db_bench under each lock.  There is   *)
(* no resuming; --rerun-failures runs what failed_runs.csv lists again.    *)
(***************************************************************************)
EXTENDS ResultRoot

CONSTANTS
    LevelDbSessions,      \* the command lines
    FilledBenchmarks      \* --init-existing-benchmarks

target_keys(a) == ForEach(a.benchmarks, LAMBDA b : KeysOf(b, a.locks, a.threads, a.repeats))

\* An empty list of failures raises.
load_failure_selection_fails(a) == a.rerun /\ failedCsv = {}

Selected(a) ==
    IF a.rerun THEN Among(target_keys(a), failedCsv) ELSE target_keys(a)

Start == \E a \in LevelDbSessions :
    ~load_failure_selection_fails(a) /\ StartSession(a, Selected(a))

----------------------------------------------------------------------------
LEVELDB_ACCORDIN_DIRECT_VARIANT_LOCKS ==
    {"mcs_tas_accordin_direct_admission_only", "mcs_tas_accordin_direct_sampled",
     "mcs_tas_accordin_direct_no_admission", "mcs_tas_accordin_direct_taskset"}

is_direct(lock) == lock \in LEVELDB_ACCORDIN_DIRECT_VARIANT_LOCKS

ensure_mcs_tas_accordin_direct_preload ==
    IF \E l \in ToSet(args.locks) : is_direct(l) THEN <<"direct">> ELSE <<>>

ensure_lock_helpers ==
    interposed(SelectSeq(args.locks, LAMBDA l : ~is_direct(l))) \o accordin_preload(args.locks)
        \o ensure_mcs_tas_accordin_direct_preload \o mcs_extension_preload(args.locks)

\* With --build-missing the source is fetched and patched first, and a binary
\* older than its sources is built again.
ensure_db_bench ==
    IF args.build
    THEN <<"leveldb", "leveldb_patched">>
         \o IF {"db_bench", "current"} \subseteq tools THEN <<>> ELSE <<"configured", "current">>
    ELSE <<"db_bench">>

\* The patch applies, or is applied already, or main gives up.
EnsureTools ==
    /\ pc = "ensure"
    /\ LET next == FirstMissing(ensure_lock_helpers \o ensure_db_bench)
       IN IF next = "leveldb_patched" /\ "conflict" \in tools
          THEN Exit("error") /\ UNCHANGED <<args, targets, files, bounds>>
          ELSE Ensure(next)

lock_command_prefix(lock) == IF is_direct(lock) THEN {"direct"} ELSE command_helper(lock)

----------------------------------------------------------------------------
NothingToLoad ==
    /\ pc = "load" /\ pc' = "next"
    /\ UNCHANGED <<args, targets, pos, stage, records, rows, failures, status, files, bounds>>

\* A fresh database, which a benchmark of FilledBenchmarks fills first.
StartPoint ==
    /\ pc = "next" /\ pos <= Len(targets)
    /\ temps' = temps \cup {Temp}
    /\ OpenLog(IF Key[1] \in FilledBenchmarks THEN "init" ELSE "run")
    /\ UNCHANGED <<args, targets, pos, records, rows, failures, status,
                   commands, rawCsv, failedCsv, tools, bounds>>

EndCommand == pc = "running" /\ stage \in {"init", "run"} /\ \E rc \in {"ok", "bad"} : CloseLog(rc)

StartMeasured ==
    /\ pc = "handle" /\ stage = "init" /\ Last(records).ok /\ OpenLog("run")
    /\ UNCHANGED <<args, targets, pos, records, rows, failures, status,
                   commands, rawCsv, failedCsv, temps, tools, bounds>>

\* parse_latency raises when there is no latency line; the finally block runs.
AppendRow ==
    /\ pc = "handle" /\ stage = "run" /\ Last(records).ok
    /\ temps' = IF args.keep THEN temps ELSE temps \ {Temp}
    /\ IF Log(<<"run", Key>>).printed
       THEN /\ rows' = Append(rows, [key |-> Key, run |-> Log(<<"run", Key>>).run])
            /\ pos' = pos + 1 /\ pc' = "next"
            /\ UNCHANGED <<args, targets, stage, records, failures, status>>
       ELSE Exit("error") /\ UNCHANGED <<args, targets>>
    /\ UNCHANGED <<logs, commands, rawCsv, failedCsv, tools, bounds>>

RecordFailure ==
    /\ pc = "handle" /\ stage \in {"init", "run"} /\ ~Last(records).ok
    /\ failures' = failures \cup {Key} /\ failedCsv' = failures'
    /\ temps' = IF args.keep THEN temps ELSE temps \ {Temp}
    /\ pos' = pos + 1 /\ pc' = "next"
    /\ UNCHANGED <<args, targets, stage, records, rows, status, logs, commands, rawCsv, tools, bounds>>

RunsOver ==
    /\ pc = "next" /\ pos > Len(targets) /\ pc' = "raw"
    /\ UNCHANGED <<args, targets, pos, stage, records, rows, failures, status, files, bounds>>

write_raw_csv == (OpenRaw("raw", "raw_open") \/ CloseRaw("raw_open", "report")) /\ UNCHANGED temps

Step ==
    \/ EnsureTools \/ NothingToLoad \/ StartPoint \/ EndCommand \/ StartMeasured \/ AppendRow
    \/ RecordFailure \/ RunsOver \/ write_raw_csv \/ Report \/ LoggerStep

============================================================================
