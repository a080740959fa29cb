------------------------------ MODULE MCSweeps -----------------------------
(* Instances of the sweep programs for TLC. *)
EXTENDS Sweeps

MCNodes == <<<<0, 2, 4>>, <<1, 3>>>>

\* mcs runs one oversubscribed point only, so that it has a sweep apart from
\* mcs-tas; the extension and an Accordin variant have sweeps of their own.
Full == <<"mcs", "mcs-tas">>
Extension == <<"mcs_extension", "mcs_tas_accordin_sampled">>
Minimal == <<"mcs_tas_accordin_sampled">>

MCOneSessions ==
    {[locks |-> Full, threads |-> <<2, 3>>, supplement |-> FALSE, profile |-> Full, force |-> FALSE],
     [locks |-> Extension, threads |-> <<2>>, supplement |-> FALSE, profile |-> Extension, force |-> TRUE],
     [locks |-> Minimal, threads |-> <<2>>, supplement |-> FALSE, profile |-> Minimal, force |-> FALSE]}
    \cup {[locks |-> <<"mcs", "malthusian">>, threads |-> <<2>>, supplement |-> TRUE,
           profile |-> Minimal, force |-> f] : f \in BOOLEAN}

MCTwoSessions ==
    {[locks |-> l, threads |-> t, resume |-> o[1], force |-> o[2], dry |-> o[3]] :
        l \in {<<"mcs_tse">>, <<"mcs_tas">>}, t \in {<<1, 3>>},
        o \in {<<FALSE, FALSE, FALSE>>, <<TRUE, FALSE, FALSE>>, <<FALSE, TRUE, FALSE>>, <<TRUE, FALSE, TRUE>>}}

\* Ratios that round up to 4 CPUs, one of the second node, and to more than there are.
MCCombos == <<<<2, 5>>, <<1, 9>>>>

MCThreeSessions ==
    {[locks |-> l, threads |-> t, force |-> f] : f \in BOOLEAN, t \in {<<1>>, <<2>>, <<1, 2>>},
        l \in {<<"mcs", "mcs_tas_accordin_taskset">>, <<"mcs_extension", "mcs_tas_accordin_sampled">>}}

Rec(b, l, st, ok, printed) ==
    [key |-> <<b, l>>, stage |-> st, ok |-> ok, printed |-> printed, existing |-> b = "readrandom"]

Expected == {<<b, l>> : b \in {"readrandom", "fillrandom"}, l \in {"mcs", "stock"}}

Records(init, ok, printed) ==
    <<Rec("readrandom", "mcs", "init", init, TRUE), Rec("readrandom", "mcs", "run", TRUE, TRUE),
      Rec("fillseq", "mcs", "run", TRUE, TRUE), Rec("fillrandom", "stock", "run", ok, printed)>>

Root(kind, recs, keys, stored) ==
    [kind |-> kind, recs |-> recs, keys |-> keys, settings |-> stored, expected |-> Expected]

\* Of the interrupted roots one is good, and one each has a failed fill, a failed
\* run, a log without a result, and no settings.json.
MCRoots ==
    {Root("commands", Records(f[1], f[2], f[3]), <<>>, f[4]) :
        f \in {g \in [1..4 -> BOOLEAN] : Cardinality({i \in 1..4 : ~g[i]}) <= 1}}
    \cup {Root("raw", <<>>, k, TRUE) :
        k \in {<<<<"readrandom", "mcs">>, <<"readrandom", "stock">>>>, <<<<"fillrandom", "mcs">>, <<"fillrandom", "stock">>>>}}

MCMergeSessions ==
    {[roots |-> r, exclude |-> e, force |-> f] : r \in {<<>>} \cup MCRoots \X MCRoots,
        e \in {{}, {"mcs"}}, f \in BOOLEAN}
============================================================================
