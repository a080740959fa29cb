---------------------------- MODULE HarnessLocks ----------------------------
(* The lock tables and thread limits of experiment_defaults.py. *)
EXTENDS Naturals, SequencesExt, FiniteSetsExt

CONSTANT Cores   \* MACHINE_PHYSICAL_CORES

\* [x \in s |-> F(x)] of a sequence s, and the concatenation of the results.
ForEach(s, F(_)) == FlattenSeq([i \in DOMAIN s |-> F(s[i])])

\* The elements of a sequence that are in S, in their order.
Among(s, S) == ForEach(s, LAMBDA x : IF x \in S THEN <<x>> ELSE <<>>)

SINGLE_OVERSUBSCRIBED_LOCKS == {"mcs", "mcstp", "mcs_extension", "malthusian", "reciprocating"}

ACCORDIN_VARIANT_LOCKS ==
    {"mcs_tas_accordin_admission_only", "mcs_tas_accordin_sampled",
     "mcs_tas_accordin_no_admission", "mcs_tas_accordin_taskset"}

first_oversubscribed_thread_count(threads) == Min({t \in ToSet(threads) : t > Cores})

limit_to_single_oversubscribed_thread_count(threads) ==
    IF \A t \in ToSet(threads) : t <= Cores THEN threads
    ELSE Among(threads, {t \in ToSet(threads) : t <= Cores \/ t = first_oversubscribed_thread_count(threads)})

runnable_threads_for_lock(lock, threads) ==
    IF lock \in SINGLE_OVERSUBSCRIBED_LOCKS
    THEN limit_to_single_oversubscribed_thread_count(threads) ELSE threads

============================================================================
