----------------------------- MODULE SweepRoot -----------------------------
(***************************************************************************)
(* What the sweep programs (experiments one, two and three, and the tool   *)
(* that merges results of experiment four) share: the files of a result    *)
(* root, the process that runs a list of commands and may be killed        *)
(* between any two steps, and the sweep script, which is external: it      *)
(* truncates the raw.csv of one lock after the other, adds the rows of its *)
(* points in order, and writes the summary of a lock last.                 *)
(***************************************************************************)
EXTENDS HarnessLocks

CONSTANTS
    Nodes,         \* the CPUs of the NUMA nodes, a sequence of sequences
    Repeats,       \* repeats of each point
    MaxSessions,   \* bound on the command lines given to one root
    MaxKills       \* bound on the kills

ASSUME SweepRootAssumption ==
    /\ Cores \in Nat /\ Repeats \in Nat \ {0} /\ MaxSessions \in Nat /\ MaxKills \in Nat
    /\ Nodes \in Seq(Seq(Nat)) /\ \E i \in DOMAIN Nodes : Nodes[i] # <<>>
    /\ \A i \in DOMAIN Nodes : IsInjective(Nodes[i])
    /\ \A i, j \in DOMAIN Nodes : i # j => ToSet(Nodes[i]) \cap ToSet(Nodes[j]) = {}

VARIABLES
    raw,        \* the raw.csv files: file -> [by, of, n, summed], the first n of
                \* the points in "of", written in session "by"
    report,     \* the raw.csv or combined CSV of the root: [state, rows]
    failed,     \* failed_runs.csv: a set of [name, log, by]
    settings,   \* the locks in settings.json, <<>> without that file
    logs,       \* the log files: <<name, index>> -> [by, rc]
    torn,       \* commands.json is truncated and not written
    pc, args, stage, work, pos, log, rows, failures, status,   \* the process
    sessions, kills,
    finished    \* the <<file, session>> of which a sweep has ended with 0

memory == <<pc, args, stage, work, pos, log, rows, failures, status>>
files  == <<raw, report, failed, settings, logs, torn>>
bounds == <<sessions, kills, finished>>
rootVars == <<memory, files, bounds>>

\* A command: kind build, sweep, dry or plot; outs is the sequence of the
\* [file, points] that a sweep writes, cpus its taskset list.
Command(kind, name, outs, cpus) == [kind |-> kind, name |-> name, outs |-> outs, cpus |-> cpus]

Item == work[pos]
Over == pc = "next" /\ pos > Len(work)

\* f with the value v for x.
With(f, x, v) == [y \in DOMAIN f \cup {x} |-> IF y = x THEN v ELSE f[y]]

Points(threads) == ForEach(threads, LAMBDA t : [r \in 1..Repeats |-> <<t, r>>])

\* lock_thread_groups: locks with the same runnable threads share a sweep.
lock_thread_groups(locks, threadsOf) ==
    LET Alike(l) == {k \in ToSet(locks) : threadsOf[k] = threadsOf[l]}
        IsFirst(l) == l = locks[Min({i \in DOMAIN locks : locks[i] \in Alike(l)})]
        first == Among(locks, {l \in ToSet(locks) : IsFirst(l)})
    IN [g \in DOMAIN first |-> Among(locks, Alike(first[g]))]

----------------------------------------------------------------------------
(* CPU lists.                                                              *)

\* Mutant: CPUs in the order of their numbers.
ordered_cpus_ByNumber == SetToSortSeq(ToSet(FlattenSeq(Nodes)), LAMBDA a, b : a < b)

ordered_cpus == FlattenSeq(Nodes)

\* Also taskset_cpu_list, whose count is within 1..Len(ordered_cpus).
cpu_list_for_threads(n) == SubSeq(ordered_cpus, 1, n)

----------------------------------------------------------------------------
(* Sessions.                                                               *)

SweepRootInit ==
    /\ raw = <<>> /\ report = [state |-> "absent", rows |-> <<>>] /\ failed = {}
    /\ settings = <<>> /\ logs = <<>> /\ torn = FALSE
    /\ pc = "off" /\ args = <<>> /\ stage = "none" /\ work = <<>> /\ pos = 1
    /\ log = <<>> /\ rows = <<>> /\ failures = {} /\ status = "none"
    /\ sessions = 0 /\ kills = 0 /\ finished = {}

Exit(how) ==
    /\ pc' = "off" /\ status' = how
    /\ stage' = "none" /\ work' = <<>> /\ pos' = 1 /\ log' = <<>> /\ rows' = <<>> /\ failures' = {}

Begin(a, st, commands) ==
    /\ pc' = "next" /\ status' = "running" /\ args' = a
    /\ stage' = st /\ work' = commands /\ pos' = 1 /\ log' = <<>> /\ rows' = <<>> /\ failures' = {}

\* The next list of commands.
Proceed(st, commands) ==
    /\ pc' = "next" /\ stage' = st /\ work' = commands /\ pos' = 1
    /\ UNCHANGED <<args, log, failures, status>>

NewSession ==
    /\ pc = "off" /\ sessions < MaxSessions /\ sessions' = sessions + 1
    /\ UNCHANGED <<kills, finished>>

----------------------------------------------------------------------------
(* CommandLogger.run.                                                      *)

\* What a sweep has written when it is in the k-th lock, at row n.
Written(k, n, whole) ==
    LET Of(f) == {i \in 1..k : Item.outs[i].file = f}
        At(i) == [by |-> sessions, of |-> Item.outs[i].points,
                  n |-> IF i < k THEN Len(Item.outs[i].points) ELSE n, summed |-> i < k \/ whole]
    IN [f \in DOMAIN raw \cup {Item.outs[i].file : i \in 1..k} |->
            IF Of(f) = {} THEN raw[f] ELSE At(CHOOSE i \in Of(f) : TRUE)]

WrittenInPart ==
    \/ UNCHANGED raw
    \/ \E k \in DOMAIN Item.outs : \E n \in 0..Len(Item.outs[k].points) : raw' = Written(k, n, FALSE)

StartCommand(path) ==
    /\ pc = "next" /\ pos <= Len(work) /\ Item.kind # "dry" /\ pc' = "running"
    /\ log' = path /\ logs' = With(logs, path, [by |-> sessions, rc |-> "none"])
    /\ UNCHANGED <<args, stage, work, pos, rows, failures, status, raw, report, failed, settings, torn, bounds>>

\* The log is closed, and commands.json truncated.
EndCommand(ok) ==
    /\ pc = "running" /\ pc' = IF ok THEN "dump_ok" ELSE "dump_bad"
    /\ logs' = [logs EXCEPT ![log].rc = IF ok THEN "ok" ELSE "bad"]
    /\ torn' = TRUE
    /\ IF ok THEN /\ raw' = IF Item.outs = <<>> THEN raw
                            ELSE Written(Len(Item.outs), Len(Last(Item.outs).points), TRUE)
                  /\ finished' = finished \cup {<<Item.outs[i].file, sessions>> : i \in DOMAIN Item.outs}
       ELSE WrittenInPart /\ UNCHANGED finished
    /\ UNCHANGED <<args, stage, work, pos, log, rows, failures, status, report, failed, settings, sessions, kills>>

write_manifest ==
    /\ pc \in {"dump_ok", "dump_bad", "dump_dry"} /\ torn' = FALSE
    /\ pc' = CASE pc = "dump_ok" -> "ended" [] pc = "dump_bad" -> "raised" [] OTHER -> "next"
    /\ pos' = IF pc = "dump_dry" THEN pos + 1 ELSE pos
    /\ UNCHANGED <<args, stage, work, log, rows, failures, status, raw, report, failed, settings, logs, bounds>>

\* A failed build, and in experiment three any failed command, ends the session.
Raise ==
    /\ pc = "raised" /\ Exit("error")
    /\ UNCHANGED <<args, files, bounds>>

Continue ==
    /\ pc = "ended" /\ pc' = "next" /\ pos' = pos + 1
    /\ UNCHANGED <<args, stage, work, log, rows, failures, status, files, bounds>>

append_command_failure ==
    /\ pc = "raised" /\ Item.kind = "sweep"
    /\ failures' = failures \cup {[name |-> Item.name, log |-> log, by |-> sessions]}
    /\ failed' = failures'
    /\ pc' = "next" /\ pos' = pos + 1
    /\ UNCHANGED <<args, stage, work, log, rows, status, raw, report, settings, logs, torn, bounds>>

\* write_failures_csv, and the exit code of main.
Finish ==
    /\ failed' = failures
    /\ Exit(IF failures = {} THEN "ok" ELSE "failures")
    /\ UNCHANGED <<args, raw, report, settings, logs, torn, bounds>>

Kill ==
    /\ pc # "off" /\ kills < MaxKills /\ kills' = kills + 1
    /\ IF pc = "running" THEN WrittenInPart ELSE UNCHANGED raw
    /\ IF pc \in {"progress_open", "report_open"}
       THEN \E n \in 0..Len(rows) : report' = [report EXCEPT !.rows = SubSeq(rows, 1, n)]
       ELSE UNCHANGED report
    /\ Exit("killed")
    /\ UNCHANGED <<args, failed, settings, logs, torn, sessions, finished>>

LoggerStep == (\E ok \in BOOLEAN : EndCommand(ok)) \/ write_manifest

============================================================================
