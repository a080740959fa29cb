----------------------------- MODULE MCCampaigns -----------------------------
(* Instances of the campaign runners for TLC. *)
EXTENDS Campaigns

CONSTANTS NewSessions   \* options of a session: <<resume, force, build>>

Line(benchmarks, locks, threads) ==
    [benchmarks : {benchmarks}, locks : {locks}, threads : {threads}, repeats : {1},
     native : {TRUE}, keep : {FALSE}, rerun : {FALSE},
     resume : BOOLEAN, force : BOOLEAN, build : BOOLEAN]

Offered(lines) ==
    {a \in lines : <<a.resume, a.force, a.build>> \in NewSessions}

\* mcs is limited to one oversubscribed point: of 2 and 3 threads to 2.
Pair == <<"mcs", "flexguard">>

MCParsecSessions ==
    Offered(Line(<<"dedup">>, Pair, <<2>>) \cup Line(<<"dedup">>, <<"mcs">>, <<2, 3>>)
        \cup Line(<<"dedup">>, <<"mcs_extension", "mcs_tas_accordin_sampled">>, <<2>>))

MCHookSessions ==
    Offered(Line(<<"dedup">>, Pair, <<2>>)
        \cup Line(<<"dedup", "canneal">>, <<"mcs_extension">>, <<2>>))

MCCacheSessions ==
    Offered(Line(<<"cachebench", "readrandom">>, <<"mcs">>, <<2>>)
        \cup Line(<<"cachebench">>, <<"mcs">>, <<2>>))

MCLevelDbSessions ==
    {[a EXCEPT !.rerun = b, !.keep = c] : b \in BOOLEAN, c \in BOOLEAN,
      a \in {x \in Offered(Line(<<"fillrandom", "readrandom">>, <<"mcs_tas_accordin_direct_sampled">>, <<2>>)
                          \cup Line(<<"fillrandom">>, <<"stock">>, <<2>>)) : ~x.resume}}

Everything ==
    {"dedup", "dedup_input", "parsecmgmt", "mcs", "flexguard", "mcs_tse", "accordin", "direct",
     "cachelib", "cachebench", "rocksdb", "leveldb", "db_bench", "current"}

MCToolchains == {Everything, {"dedup_input", "parsecmgmt"}, {"conflict", "leveldb"}}

MCFilled == {"readrandom"}

\* <<resume, force, build>>: a first run, a resumed one, a forced one.
MCNewSessions == {<<FALSE, FALSE, FALSE>>, <<TRUE, FALSE, TRUE>>, <<FALSE, TRUE, TRUE>>}
============================================================================
