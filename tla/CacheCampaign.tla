---------------------------- MODULE CacheCampaign ----------------------------
(***************************************************************************)
(* run_experiment_five.py: CacheBench and RocksDB under each lock.  raw.csv *)
(* is rewritten after each row and read back by --resume; a CacheBench     *)
(* that printed its results and was stopped by its timeout is accepted.    *)
(***************************************************************************)
EXTENDS ResultRoot

CONSTANTS
    CacheSessions,     \* the command lines
    InitBenchmarks     \* --rocksdb-init-existing-benchmarks

workload(key) == IF key[1] = "cachebench" THEN "cachebench" ELSE "rocksdb"

\* A workload is named by its benchmarks: CacheBench first, then those of RocksDB.
target_keys(a) == ForEach(a.benchmarks, LAMBDA b : KeysOf(b, a.locks, a.threads, a.repeats))

Start == \E a \in CacheSessions : StartSession(a, target_keys(a))

----------------------------------------------------------------------------
ensure_lock_helpers ==
    interposed(args.locks) \o accordin_preload(args.locks) \o mcs_extension_preload(args.locks)

\* A binary that is there is taken; to build one, its source must be there.
ensure_cachebench_bin ==
    IF "cachebench" \in tools THEN <<>> ELSE <<"cachelib", "cachebench">>

\* Without a build directory of its own CMake is configured first.
ensure_rocksdb_db_bench ==
    IF "db_bench" \in tools THEN <<>> ELSE <<"rocksdb", "configured", "db_bench">>

ensure_required_binaries ==
    LET workloads == {workload(k) : k \in ToSet(targets)}
    IN (IF "cachebench" \in workloads THEN ensure_cachebench_bin ELSE <<>>)
       \o IF "rocksdb" \in workloads THEN ensure_rocksdb_db_bench ELSE <<>>

EnsureTools == pc = "ensure" /\ Ensure(FirstMissing(ensure_lock_helpers \o ensure_required_binaries))

----------------------------------------------------------------------------
(* What --resume finds.                                                    *)

\* Successful records whose log still ends with return code 0.
successful_records_by_log_name ==
    {records[i].log : i \in {j \in DOMAIN records :
        records[j].ok /\ Log(records[j].log).rc = "ok"}}

completed_rows_from_records ==
    LET done == Among(targets, {k \in ToSet(targets) : <<"run", k>> \in successful_records_by_log_name})
    IN [i \in DOMAIN done |-> [key |-> done[i], run |-> Log(<<"run", done[i]>>).run]]

\* One row per target, the last of its rows.
ordered_completed_rows(rs) ==
    LET done == Among(targets, Keys(rs))
    IN [i \in DOMAIN done |-> rs[Max({j \in DOMAIN rs : rs[j].key = done[i]})]]

\* A raw.csv cut off in its header raises; one cut off in a row may, when the key
\* of the row is not whole, or has it as a row; one cut off between rows does not.
load_raw_rows_may_fail == rawCsv.state = "torn"

LoadExisting ==
    /\ pc = "load"
    /\ \/ /\ args.resume /\ load_raw_rows_may_fail
          /\ Exit("error") /\ UNCHANGED <<args, targets>>
       \/ /\ rows' = IF args.resume
                     THEN ordered_completed_rows(rawCsv.rows \o completed_rows_from_records) ELSE <<>>
          /\ pc' = IF rows' = <<>> THEN "next" ELSE "progress"
          /\ UNCHANGED <<args, targets, pos, stage, records, failures, status>>
    /\ UNCHANGED <<files, bounds>>

\* In the loop of RocksDB the finally block removes the database afterwards.
write_progress_csvs ==
    \/ OpenRaw("progress", "progress_open") /\ UNCHANGED temps
    \/ CloseRaw("progress_open", "next") /\ temps' = temps \ {Temp}

----------------------------------------------------------------------------
SkipCompleted ==
    /\ pc = "next" /\ pos <= Len(targets) /\ Key \in Keys(rows)
    /\ pos' = pos + 1
    /\ UNCHANGED <<pc, args, targets, stage, records, rows, failures, status, files, bounds>>

Due(w) == pc = "next" /\ pos <= Len(targets) /\ Key \notin Keys(rows) /\ workload(Key) = w

StartCachebench ==
    /\ Due("cachebench") /\ OpenLog("run")
    /\ UNCHANGED <<args, targets, pos, records, rows, failures, status,
                   commands, rawCsv, failedCsv, temps, tools, bounds>>

EndCachebench ==
    /\ pc = "running" /\ stage = "run" /\ workload(Key) = "cachebench"
    /\ \E rc \in {"ok", "bad", "timeout"} : CloseLog(rc)

\* SkipCompleted leaves the target once its row is written.
AddRow ==
    /\ rows' = Append(rows, [key |-> Key, run |-> Log(<<"run", Key>>).run])
    /\ pc' = "progress"

\* Mutant: a timeout is accepted whether or not the results were printed.
accepted_timed_out_cachebench_result_Any == Log(<<"run", Key>>).rc = "timeout"

accepted_timed_out_cachebench_result ==
    Log(<<"run", Key>>).rc = "timeout" /\ Log(<<"run", Key>>).printed

\* An accepted timeout is both a failure and a row.
CachebenchEnded ==
    /\ pc = "handle" /\ stage = "run" /\ workload(Key) = "cachebench"
    /\ \/ Last(records).ok /\ AddRow /\ UNCHANGED <<pos, failures, failedCsv>>
       \/ /\ ~Last(records).ok
          /\ failures' = failures \cup {Key} /\ failedCsv' = failures'
          /\ IF accepted_timed_out_cachebench_result
             THEN AddRow /\ UNCHANGED pos
             ELSE pc' = "next" /\ pos' = pos + 1 /\ UNCHANGED rows
    /\ UNCHANGED <<args, targets, stage, records, status, logs, commands, rawCsv, temps, tools, bounds>>

\* A fresh database, which a benchmark of InitBenchmarks fills first.
StartRocksdb ==
    /\ Due("rocksdb")
    /\ temps' = temps \cup {Temp}
    /\ OpenLog(IF Key[1] \in InitBenchmarks THEN "init" ELSE "run")
    /\ UNCHANGED <<args, targets, pos, records, rows, failures, status,
                   commands, rawCsv, failedCsv, tools, bounds>>

EndRocksdb ==
    /\ pc = "running" /\ workload(Key) = "rocksdb"
    /\ \E rc \in {"ok", "bad"} : CloseLog(rc)

FilledDatabase ==
    /\ pc = "handle" /\ stage = "init" /\ Last(records).ok /\ OpenLog("run")
    /\ UNCHANGED <<args, targets, pos, records, rows, failures, status,
                   commands, rawCsv, failedCsv, temps, tools, bounds>>

RocksdbSucceeded ==
    /\ pc = "handle" /\ stage = "run" /\ workload(Key) = "rocksdb" /\ Last(records).ok
    /\ AddRow
    /\ UNCHANGED <<args, targets, pos, stage, records, failures, status, files, bounds>>

RocksdbFailed ==
    /\ pc = "handle" /\ stage \in {"init", "run"} /\ workload(Key) = "rocksdb"
    /\ ~Last(records).ok /\ append_command_failure

RunsOver ==
    /\ pc = "next" /\ pos > Len(targets) /\ pc' = "raw"
    /\ UNCHANGED <<args, targets, pos, stage, records, rows, failures, status, files, bounds>>

write_raw_csv == (OpenRaw("raw", "raw_open") \/ CloseRaw("raw_open", "report")) /\ UNCHANGED temps

Step ==
    \/ EnsureTools \/ LoadExisting \/ write_progress_csvs \/ SkipCompleted
    \/ StartCachebench \/ EndCachebench \/ CachebenchEnded
    \/ StartRocksdb \/ EndRocksdb \/ FilledDatabase \/ RocksdbSucceeded \/ RocksdbFailed
    \/ RunsOver \/ write_raw_csv \/ Report \/ LoggerStep

============================================================================
