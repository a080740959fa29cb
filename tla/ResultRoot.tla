----------------------------- MODULE ResultRoot -----------------------------
(***************************************************************************)
(* What the campaign runners of experiments three to six share: the files  *)
(* of a result root, which outlive the process, the memory of the process, *)
(* which does not, the command logger, the output-root check, the lock     *)
(* helpers and the thread limits.  Each campaign module adds one program.  *)
(* A process may be killed or interrupted between any two steps; a file is *)
(* truncated by one step and written by a later one.                       *)
(***************************************************************************)
EXTENDS HarnessLocks

CONSTANTS
    MaxSessions,   \* bound on the command lines given to one root
    MaxKills       \* bound on the kills and interruptions

ASSUME RootAssumption == Cores \in Nat /\ MaxSessions \in Nat /\ MaxKills \in Nat

VARIABLES
    logs,       \* log files: name -> [run, printed, rc], name = <<stage, key>>
    commands,   \* commands.json: [torn, recs]
    rawCsv,     \* raw.csv: [state, rows], a row being [key, run]
    failedCsv,  \* the keys in failed_runs.csv
    temps,      \* the temporary files and databases that exist
    tools,      \* lock helpers, binaries and inputs that are in place
    pc, args, targets, pos, stage, records, rows, failures,  \* the process
    status,     \* how the last session ended
    sessions, kills,
    mixed       \* a forced session has begun to overwrite another's results,
                \* and no session without --resume has come to its report since

memory == <<pc, args, targets, pos, stage, records, rows, failures, status>>
files  == <<logs, commands, rawCsv, failedCsv, temps, tools>>
bounds == <<sessions, kills, mixed>>
rootVars == <<memory, files, bounds>>

NoLog == [run |-> 0, printed |-> FALSE, rc |-> "none"]
Log(name) == IF name \in DOMAIN logs THEN logs[name] ELSE NoLog
Key == targets[pos]
Temp == <<Key, sessions>>   \* a name no other run uses
InRun == stage \in {"init", "run"} /\ pc \notin {"off", "next", "raw", "raw_open", "report"}
Keys(rs) == {rs[i].key : i \in DOMAIN rs}

----------------------------------------------------------------------------
(* Locks and threads.                                                      *)

KeysOf(benchmark, locks, threads, repeats) ==
    ForEach(locks, LAMBDA lock : ForEach(runnable_threads_for_lock(lock, threads),
        LAMBDA t : [r \in 1..repeats |-> <<benchmark, lock, t, r>>]))

----------------------------------------------------------------------------
(* The helpers a lock needs, and what the ensure_* functions look for.     *)

\* The first element of a sequence of tools that is not in place.
FirstMissing(required) ==
    LET missing == SelectSeq(required, LAMBDA t : t \notin tools)
    IN IF missing = <<>> THEN "none" ELSE Head(missing)

interposed(locks) ==
    SelectSeq(locks, LAMBDA l : l \notin {"stock", "mcs_extension"} \cup ACCORDIN_VARIANT_LOCKS)

accordin_preload(locks) ==
    IF ToSet(locks) \cap ACCORDIN_VARIANT_LOCKS # {} THEN <<"accordin">> ELSE <<>>

mcs_extension_preload(locks) ==
    IF "mcs_extension" \in ToSet(locks) THEN <<"mcs_tse">> ELSE <<>>

\* What the command line built for a lock preloads or wraps with.
command_helper(lock) ==
    CASE lock = "stock" -> {}
      [] lock \in ACCORDIN_VARIANT_LOCKS -> {"accordin"}
      [] lock = "mcs_extension" -> {"mcs_tse"}
      [] OTHER -> {lock}

\* make_all.sh builds the wrappers of every lock, cmake --build a current
\* binary; other commands make one tool.
BuiltBy(tool) ==
    CASE tool \in ToSet(interposed(args.locks)) -> ToSet(interposed(args.locks))
      [] tool = "current" -> {"db_bench", "current"}
      [] OTHER -> {tool}

\* A patched source is newer than the binary; a build configures anew.
OutdatedBy(tool) ==
    CASE tool = "leveldb_patched" -> {"current"}
      [] tool \in {"current", "db_bench"} -> {"configured"}
      [] OTHER -> {}

\* Commands after which nothing is looked for: their return code tells.
Unchecked == {"leveldb_patched", "configured"} \cup IF "db_bench" \in tools THEN {"current"} ELSE {}

----------------------------------------------------------------------------
(* Sessions.                                                               *)

RootInit ==
    /\ logs = <<>> /\ commands = [torn |-> FALSE, recs |-> <<>>]
    /\ rawCsv = [state |-> "absent", rows |-> <<>>]
    /\ failedCsv = {} /\ temps = {}
    /\ pc = "off" /\ args = <<>> /\ targets = <<>> /\ pos = 1 /\ stage = "none"
    /\ records = <<>> /\ rows = <<>> /\ failures = {} /\ status = "none"
    /\ sessions = 0 /\ kills = 0 /\ mixed = FALSE

\* The process ends and its memory is gone; targets and args stay for the
\* properties, which compare them with the files.
Exit(how) ==
    /\ pc' = "off" /\ status' = how
    /\ pos' = 1 /\ stage' = "none" /\ records' = <<>> /\ rows' = <<>> /\ failures' = {}

\* A root that has been used holds at least the directory of the logs.
ensure_output_root(a) == sessions = 0 \/ a.force \/ a.resume

load_records(a) == IF a.resume THEN commands.recs ELSE <<>>

StartSession(a, keys) ==
    /\ pc = "off" /\ sessions < MaxSessions
    /\ sessions' = sessions + 1 /\ args' = a /\ targets' = keys
    /\ IF ~ensure_output_root(a) \/ (a.resume /\ commands.torn)
       THEN Exit("refused") /\ UNCHANGED mixed
       ELSE /\ pc' = "ensure" /\ status' = "running" /\ pos' = 1 /\ stage' = "none"
            /\ records' = load_records(a) /\ rows' = <<>> /\ failures' = {}
            /\ mixed' = (mixed \/ (sessions > 0 /\ ~a.resume))
    /\ UNCHANGED <<files, kills>>

\* SIGKILL ends the process where it stands; Ctrl-C runs the finally blocks.
\* What is left of a file that was being written is a prefix of it.
Stop(interrupted) ==
    /\ pc # "off" /\ kills < MaxKills /\ kills' = kills + 1
    /\ temps' = IF interrupted /\ InRun /\ ~args.keep THEN temps \ {Temp} ELSE temps
    /\ IF pc \in {"raw_open", "progress_open"}
       THEN \E n \in 0..Len(rows) : rawCsv' = [rawCsv EXCEPT !.rows = SubSeq(rows, 1, n)]
       ELSE UNCHANGED rawCsv
    /\ Exit(IF interrupted THEN "interrupted" ELSE "killed")
    /\ UNCHANGED <<logs, commands, failedCsv, tools, args, targets, sessions, mixed>>

----------------------------------------------------------------------------
(* CommandLogger.run: the log is truncated, filled while the command runs, *)
(* and ended by its return code; then the record is appended and           *)
(* commands.json is truncated and written.                                 *)

OpenLog(st) ==
    /\ logs' = [name \in DOMAIN logs \cup {<<st, Key>>} |->
                  IF name = <<st, Key>> THEN [run |-> Log(name).run + 1, printed |-> FALSE, rc |-> "none"]
                  ELSE logs[name]]
    /\ pc' = "running" /\ stage' = st

PrintResults ==
    /\ pc = "running" /\ stage = "run" /\ ~Log(<<stage, Key>>).printed
    /\ logs' = [logs EXCEPT ![<<stage, Key>>].printed = TRUE]
    /\ UNCHANGED <<memory, commands, rawCsv, failedCsv, temps, tools, bounds>>

CloseLog(rc) ==
    /\ pc = "running" /\ pc' = "manifest"
    /\ logs' = [logs EXCEPT ![<<stage, Key>>].rc = rc]
    /\ records' = Append(records, [log |-> <<stage, Key>>, run |-> Log(<<stage, Key>>).run, ok |-> rc = "ok"])
    /\ UNCHANGED <<args, targets, pos, stage, rows, failures, status,
                   commands, rawCsv, failedCsv, temps, tools, bounds>>

OpenManifest ==
    /\ pc = "manifest" /\ pc' = "dump"
    /\ commands' = [torn |-> TRUE, recs |-> <<>>]
    /\ UNCHANGED <<args, targets, pos, stage, records, rows, failures, status,
                   logs, rawCsv, failedCsv, temps, tools, bounds>>

CloseManifest ==
    /\ pc = "dump" /\ pc' = "handle"
    /\ commands' = [torn |-> FALSE, recs |-> records]
    /\ UNCHANGED <<args, targets, pos, stage, records, rows, failures, status,
                   logs, rawCsv, failedCsv, temps, tools, bounds>>

\* A build command may succeed, succeed without making its tool, or fail.
Build(tool) ==
    /\ \E made, ok \in BOOLEAN :
        /\ made => ok
        /\ (tool \in Unchecked /\ ok) => made
        /\ records' = Append(records, [log |-> <<"build", tool>>, run |-> 1, ok |-> ok])
        /\ tools' = IF made THEN (tools \ OutdatedBy(tool)) \cup BuiltBy(tool) ELSE tools
    /\ stage' = "build" /\ pc' = "manifest"
    /\ UNCHANGED <<args, targets, pos, rows, failures, status,
                   logs, commands, rawCsv, failedCsv, temps, bounds>>

\* The ensure_* calls of main, of which the first that finds its tool missing
\* builds it or raises; a build that fails or makes nothing raises too.
Ensure(next) ==
    /\ pc = "ensure"
    /\ IF next = "none"
       THEN pc' = "load" /\ UNCHANGED <<args, targets, pos, stage, records, rows, failures, status, files, bounds>>
       ELSE IF ~args.build
       THEN Exit("error") /\ UNCHANGED <<args, targets, files, bounds>>
       ELSE Build(next)

AfterBuild ==
    /\ pc = "handle" /\ stage = "build"
    /\ IF Last(records).log[2] \in tools /\ Last(records).ok
       THEN pc' = "ensure" /\ stage' = "none" /\ UNCHANGED <<args, targets, pos, records, rows, failures, status>>
       ELSE Exit("error") /\ UNCHANGED <<args, targets>>
    /\ UNCHANGED <<files, bounds>>

----------------------------------------------------------------------------
(* The report: raw.csv is truncated and then written.                      *)

OpenRaw(from, to) ==
    /\ pc = from /\ pc' = to
    /\ rawCsv' = [state |-> "torn", rows |-> <<>>]
    /\ UNCHANGED <<args, targets, pos, stage, records, rows, failures, status,
                   logs, commands, failedCsv, tools, bounds>>

CloseRaw(from, to) ==
    /\ pc = from /\ pc' = to
    /\ rawCsv' = [state |-> "whole", rows |-> rows]
    /\ UNCHANGED <<args, targets, pos, stage, records, rows, failures, status,
                   logs, commands, failedCsv, tools, bounds>>

\* write_failures_csv, and the exit code that main returns.
Report ==
    /\ pc = "report"
    /\ failedCsv' = failures /\ mixed' = (mixed /\ args.resume)
    /\ Exit(IF failures = {} THEN "ok" ELSE "failures")
    /\ UNCHANGED <<args, targets, logs, commands, rawCsv, temps, tools, sessions, kills>>

\* A failed run is listed at once, its temporary file removed, the loop goes on.
append_command_failure ==
    /\ failures' = failures \cup {Key} /\ failedCsv' = failures'
    /\ temps' = temps \ {Temp}
    /\ pos' = pos + 1 /\ pc' = "next"
    /\ UNCHANGED <<args, targets, stage, records, rows, status, logs, commands, rawCsv, tools, bounds>>

LoggerStep == PrintResults \/ OpenManifest \/ CloseManifest \/ AfterBuild

============================================================================
