------------------------------- MODULE Sweeps ------------------------------
(***************************************************************************)
(* The sweep programs of experiments one, two and three and the tool that  *)
(* merges results of experiment four, each on one root: sessions with      *)
(* their command lines, and kills in between.                              *)
(***************************************************************************)
EXTENDS SweepOne, SweepTwo, SweepThree, MergeResults

CONSTANT Programs   \* those that are looked at

ASSUME ProgramsAssumption == Programs \subseteq {"one", "two", "three", "merge"}

VARIABLE program

vars == <<program, rootVars>>

Init == program \in Programs /\ SweepRootInit

Start ==
    \/ program = "one" /\ OneStart
    \/ program = "two" /\ TwoStart
    \/ program = "three" /\ ThreeStart
    \/ program = "merge" /\ MergeStart

Step ==
    \/ program = "one" /\ OneStep
    \/ program = "two" /\ TwoStep
    \/ program = "three" /\ ThreeStep
    \/ program = "merge" /\ MergeStep

Next == UNCHANGED program /\ (Start \/ Step \/ Kill)

Spec == Init /\ [][Next]_vars

----------------------------------------------------------------------------
\* The files of a full run of experiment one, all of this session.
OneSwept(lock) ==
    lock \in DOMAIN raw /\ raw[lock].by = sessions /\ raw[lock].n = Len(raw[lock].of)

NamesOf(rs) == {rs[i].name : i \in DOMAIN rs}

\* What exit code 0 says.  Experiment one: the locks of this session have been
\* swept in it, and those that settings.json lists are in the combined CSV.
\* Two: raw.csv has as many rows of every point as there are repeats, and every
\* repeat unless two sessions have been killed, each of which may have left a
\* part of them.  Three: each lock asked for has as many rows as its matrix, and
\* its points if this session has swept it, with all of its parts; the rows of
\* another matrix may be as many and are not told apart.  Merge: no expected
\* row is missing.
ExitTellsOutcome ==
    status = "ok" =>
        CASE program = "one" ->
                /\ \A l \in ToSet(args.locks) : OneSwept(l)
                /\ ToSet(args.locks) \cap ToSet(settings) \subseteq NamesOf(report.rows)
                /\ failed = {}
          [] program = "two" -> args.dry \/
                /\ report.state = "whole" /\ failed = {}
                /\ \A l \in ToSet(args.locks), t \in ToSet(args.threads) :
                    /\ <<l, t>> \in completed_points(report.rows)
                    /\ kills <= 1 => \A r \in 1..Repeats : \E i \in DOMAIN report.rows :
                        report.rows[i].name = <<l, t>> /\ report.rows[i].point = <<t, r>>
          [] program = "three" ->
                \A l \in ToSet(args.locks) :
                    LET f == LockFile(l) IN
                    /\ raw[f].n = Len(PointsOf(args.threads))
                    /\ \/ raw[f].of = PointsOf(args.threads)
                       \/ \E g \in FilesOf(l) \cap DOMAIN raw : raw[g].by # sessions
          [] program = "merge" -> report.state = "whole"

\* Before the report each sweep of this session has ended well or is listed as a
\* failure, for failed_runs.csv: none goes unnoticed.
Listed ==
    (pc = "finish" /\ ~(program = "two" /\ args.dry)) =>
        \A i \in DOMAIN work :
            \/ work[i].kind = "build" \/ \E f \in failures : f.name = work[i].name
            \/ \A j \in DOMAIN work[i].outs : <<work[i].outs[j].file, sessions>> \in finished

\* No failure goes unnoticed, and the log that failed_runs.csv names for it is
\* the log of that failure: in experiment one always, also when later sessions
\* run commands of the same name; in two, which reuses names, once a session
\* has reported.
FailuresKeepTheirLogs ==
    /\ Listed
    /\ (program = "one" \/ status \in {"ok", "failures"}) =>
        \A f \in failed : logs[f.log] = [by |-> f.by, rc |-> "bad"]

\* Every row that experiment two collects, in memory or in raw.csv, is of a
\* sweep that has ended well, in whichever session.
RowsOfFinishedSweeps ==
    program = "two" => \A r \in ToSet(rows) \cup ToSet(report.rows) :
        <<PointFile(r.name[1], r.name[2]), r.by>> \in finished

\* A file that is complete for the session that runs is not written again
\* without --force: a supplement leaves the results it finds, a resumed session
\* the points of a whole raw.csv, experiment three its locks and parts.
Settled(f) ==
    CASE program = "one" -> args.supplement
      [] program = "two" -> args.resume /\ report.state = "whole"
            /\ \E l \in ToSet(args.locks), t \in ToSet(args.threads) :
                f = PointFile(l, t) /\ <<l, t>> \in completed_points(report.rows)
      [] program = "three" -> \E l \in ToSet(args.locks) :
            /\ f \in FilesOf(l)
            /\ f # LockFile(l) => raw[f].summed
            /\ raw[f].n = IF f = LockFile(l) THEN Len(PointsOf(args.threads)) ELSE Len(Points(args.threads))
      [] OTHER -> FALSE

CompletedSweepsKept ==
    [][\A f \in DOMAIN raw :
        (pc # "off" /\ ~args.force /\ raw[f].by # sessions /\ Settled(f))
            => f \in DOMAIN raw' /\ raw'[f] = raw[f]]_vars

\* A sweep is bound to as many CPUs as it has threads, or as its ratio asks
\* for, and a CPU of a node is used only when those of the nodes before are.
PinnedNumaFirst ==
    (pc = "running" /\ Item.cpus # <<>>) =>
        LET used == ToSet(Item.cpus) IN
        /\ Cardinality(used) =
            IF program = "two" THEN Item.name[2]
            ELSE LET combo == Item.name[2] IN
                 CHOOSE n \in 1..Len(ordered_cpus) :
                    \A m \in 1..Len(ordered_cpus) :
                        LET Off(k) == LET d == k * combo[1] - combo[1] - combo[2] IN d * d
                        IN Off(n) < Off(m) \/ (Off(n) = Off(m) /\ n >= m)
        /\ \A i, j \in DOMAIN Nodes :
            (i < j /\ used \cap ToSet(Nodes[j]) # {}) => ToSet(Nodes[i]) \subseteq used

\* The merged file has one row per key, from the last root that has the key and
\* may be read for it; which roots are read last is a matter of their kind.
MergeTakesLast ==
    (program = "merge" /\ report.state = "whole" /\ pc = "off") =>
        LET order == OfKind(args.roots, "commands") \o OfKind(args.roots, "raw")
            Has(i, k) == k[2] \notin args.exclude /\
                IF order[i].kind = "raw" THEN k \in ToSet(order[i].keys)
                ELSE \E j \in DOMAIN order[i].recs : order[i].recs[j].key = k /\ Measured(order[i].recs[j])
            Last1(k) == Max({i \in DOMAIN order : Has(i, k)})
        IN status \in {"ok", "missing"} =>
            /\ \A r, s \in DOMAIN report.rows : report.rows[r].name = report.rows[s].name => r = s
            /\ \A r \in ToSet(report.rows) : Has(r.by, r.name) /\ r.by = Last1(r.name)
            /\ status = "ok" <=> \A k \in Head(order).expected :
                k[2] \in args.exclude \/ \E i \in DOMAIN order : Has(i, k)

============================================================================
