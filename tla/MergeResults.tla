---------------------------- MODULE MergeResults ---------------------------
(***************************************************************************)
(* merge_experiment_four_results.py: the rows of several result roots of   *)
(* experiment four in one.  Roots of interrupted sessions are recovered    *)
(* from their command records and logs, the others read from raw.csv; of   *)
(* rows with the same key the last read stays.                             *)
(***************************************************************************)
EXTENDS SweepRoot

CONSTANT MergeSessions
    \* [roots, exclude, force]: a root is [kind, recs, keys, settings, expected],
    \* a record [key, stage, ok, printed, existing], a key <<benchmark, lock>>

ASSUME MergeLinesAssumption ==
    \A a \in MergeSessions :
        /\ a.roots \in Seq(ToSet(a.roots)) /\ a.force \in BOOLEAN
        /\ \A r \in ToSet(a.roots) :
            r.keys \in Seq(ToSet(r.keys)) /\ r.recs \in Seq(ToSet(r.recs)) /\ r.settings \in BOOLEAN

DEFAULT_FILL_BENCHMARK == "fillseq"

OfKind(roots, kind) == Among(roots, {r \in ToSet(roots) : r.kind = kind})

\* An output root that is in the way is removed before anything is read.
MergeStart ==
    /\ NewSession
    /\ \E a \in MergeSessions :
        IF report.state # "absent" /\ ~a.force
        THEN Exit("refused") /\ args' = a /\ UNCHANGED report
        ELSE /\ Begin(a, "roots", OfKind(a.roots, "commands") \o OfKind(a.roots, "raw"))
             /\ report' = [state |-> "empty", rows |-> <<>>]
    /\ UNCHANGED <<raw, failed, settings, logs, torn>>

Measured(rec) == rec.ok /\ rec.stage = "run" /\ rec.key[1] # DEFAULT_FILL_BENCHMARK

Recoverable(root, rec) ==
    /\ rec.printed
    /\ rec.existing => \E i \in DOMAIN root.recs :
        LET init == root.recs[i] IN init.stage = "init" /\ init.key = rec.key /\ init.ok

recover_command_rows(root) ==
    LET measured == Among(root.recs, {rec \in ToSet(root.recs) : Measured(rec)}) IN [i \in DOMAIN measured |-> measured[i].key]

Unreadable(root) ==
    root.kind = "commands" /\
        (~root.settings \/ \E i \in DOMAIN root.recs :
            Measured(root.recs[i]) /\ ~Recoverable(root, root.recs[i]))

\* Mutant: the first row of a key stays.
Update_KeepsFirst(old, keys) ==
    LET new == {k \in ToSet(keys) : k[2] \notin args.exclude /\ \A i \in DOMAIN old : old[i].name # k}
    IN SetToSeq(ToSet(old) \cup {[name |-> k, by |-> pos] : k \in new})

\* rows_by_key, to which the keys of a root are added; its values are sorted
\* in the end, whatever the order here.
Update(old, keys) ==
    LET new == {k \in ToSet(keys) : k[2] \notin args.exclude}
    IN SetToSeq({r \in ToSet(old) : r.name \notin new} \cup {[name |-> k, by |-> pos] : k \in new})

ReadRoot ==
    /\ pc = "next" /\ pos <= Len(work)
    /\ IF Unreadable(Item) THEN Exit("error")
       ELSE /\ rows' = Update(rows, IF Item.kind = "raw" THEN Item.keys ELSE recover_command_rows(Item))
            /\ pos' = pos + 1
            /\ UNCHANGED <<pc, stage, work, log, failures, status>>
    /\ UNCHANGED <<args, files, bounds>>

NoSettings == work = <<>> \/ ~Head(work).settings

RootsRead ==
    /\ stage = "roots" /\ Over
    /\ IF NoSettings THEN Exit("error") /\ UNCHANGED report
       ELSE /\ pc' = "report_open" /\ report' = [state |-> "torn", rows |-> <<>>]
            /\ UNCHANGED <<stage, work, pos, log, rows, failures, status>>
    /\ UNCHANGED <<args, raw, failed, settings, logs, torn, bounds>>

expected_keys == {k \in Head(work).expected : k[2] \notin args.exclude}

WriteMerged ==
    /\ pc = "report_open"
    /\ report' = [state |-> "whole", rows |-> rows]
    /\ Exit(IF expected_keys \subseteq {rows[i].name : i \in DOMAIN rows} THEN "ok" ELSE "missing")
    /\ UNCHANGED <<args, raw, failed, settings, logs, torn, bounds>>

MergeStep == ReadRoot \/ RootsRead \/ WriteMerged

============================================================================
