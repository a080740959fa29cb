------------------------------ MODULE Campaigns ------------------------------
(***************************************************************************)
(* The campaign runners of experiments three to six on one result root:    *)
(* the sessions of one of the programs, each given a command line, with    *)
(* kills and interruptions in between.                                     *)
(***************************************************************************)
EXTENDS ResultRoot

CONSTANTS
    Experiments, ParsecSessions, HookSessions, CacheSessions, LevelDbSessions,
    InitBenchmarks, FilledBenchmarks, Toolchains

CommandLines == ParsecSessions \cup HookSessions \cup CacheSessions \cup LevelDbSessions

\* What the argument parsers accept: the lists are not empty, the counts are
\* positive, a lock named twice is taken once, experiment four does not resume.
ASSUME LinesAssumption ==
    /\ Experiments \subseteq {"three", "four", "five", "six"}
    /\ \A a \in CommandLines :
        /\ a.benchmarks \in Seq(STRING) /\ a.benchmarks # <<>>
        /\ a.locks \in Seq(STRING) /\ a.locks # <<>> /\ IsInjective(a.locks)
        /\ a.threads \in Seq(Nat \ {0}) /\ a.threads # <<>>
        /\ a.repeats \in Nat \ {0}
    /\ \A a \in LevelDbSessions : ~a.resume

\* What they do not look at: no command line names a benchmark or a thread
\* count twice, which would run and count a point again.
ASSUME NamedOnceAssumption ==
    \A a \in CommandLines : IsInjective(a.benchmarks) /\ IsInjective(a.threads)

VARIABLE experiment   \* the program

vars == <<experiment, rootVars>>

Parsec  == INSTANCE ParsecCampaign
Hook    == INSTANCE HookCampaign
Cache   == INSTANCE CacheCampaign
LevelDb == INSTANCE LevelDbCampaign

Init == experiment \in Experiments /\ tools \in Toolchains /\ RootInit

Start ==
    \/ experiment = "three" /\ Parsec!Start
    \/ experiment = "six" /\ Hook!Start
    \/ experiment = "five" /\ Cache!Start
    \/ experiment = "four" /\ LevelDb!Start

Step ==
    \/ experiment = "three" /\ Parsec!Step
    \/ experiment = "six" /\ Hook!Step
    \/ experiment = "five" /\ Cache!Step
    \/ experiment = "four" /\ LevelDb!Step

Next == UNCHANGED experiment /\ (Start \/ Step \/ \E i \in BOOLEAN : Stop(i))

Spec == Init /\ [][Next]_vars

----------------------------------------------------------------------------
\* A log that a row may be taken from: the command has ended well, and its
\* results are there where the program insists on them; CacheBench may also
\* have been stopped after it printed them.
Acceptable(log) ==
    \/ log.rc = "ok" /\ (log.printed \/ experiment \in {"five", "six"})
    \/ log.rc = "timeout" /\ log.printed /\ experiment = "five"

Backed(row) == Log(<<"run", row.key>>).run = row.run /\ Acceptable(Log(<<"run", row.key>>))

\* Every row, in memory or in raw.csv, is of a finished run whose log is still
\* there: whatever was killed, retried, torn or resumed in between.  Not so
\* while a forced session is overwriting the results of another.  And no point
\* is counted twice, however the rows of an earlier session, of its records and
\* of new runs come together.
RowsAreOfFinishedRuns ==
    /\ ~mixed => /\ \A i \in DOMAIN rows : Backed(rows[i])
                 /\ \A i \in DOMAIN rawCsv.rows : Backed(rawCsv.rows[i])
    /\ Cardinality(Keys(rawCsv.rows)) = Len(rawCsv.rows)

\* Exit code 0 means that raw.csv has a row for every target; after a report
\* with failures each target has a row or is listed in failed_runs.csv, and
\* both only when its timeout was accepted.
ExitTellsOutcome ==
    LET reported == Keys(rawCsv.rows) IN
    /\ status = "ok" =>
        rawCsv.state = "whole" /\ reported = ToSet(targets) /\ failedCsv = {}
    /\ status = "failures" =>
        /\ rawCsv.state = "whole" /\ reported \cup failedCsv = ToSet(targets)
        /\ \A k \in reported \cap failedCsv : Log(<<"run", k>>).rc = "timeout"

\* A result that has been recorded: its manifest record and its log agree.
Completed(key) ==
    LET log == Log(<<"run", key>>) IN
    /\ log.rc = "ok" /\ log.printed
    /\ \E i \in DOMAIN commands.recs :
        commands.recs[i] = [log |-> <<"run", key>>, run |-> log.run, ok |-> TRUE]

\* --resume never runs a completed point again, which would truncate its log:
\* also after kills, with other targets, and between the steps of the manifest.
CompletedRunsKept ==
    [][\A name \in DOMAIN logs :
        (args # <<>> /\ args.resume /\ name[1] = "run" /\ Completed(name[2]))
            => logs'[name] = logs[name]]_vars

\* The temporary files and databases of a session outlive it only when it was
\* killed or was told to keep them: not when a run failed, printed what cannot
\* be parsed, timed out or was interrupted.
TempsRemoved ==
    pc = "off" /\ status # "killed" => \A t \in temps : t[2] = sessions => args.keep

============================================================================
