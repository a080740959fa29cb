----------------------------- MODULE CpuBudget -----------------------------
(***************************************************************************)
(* What the dynamic concurrency controller promises of the number of       *)
(* active CPUs that the scheduler is given: it stays between the number    *)
(* the user asked for and the number available, it changes at most once    *)
(* for each control tick, ticks are at least a window apart, and nothing   *)
(* changes once the affinity is frozen.                                    *)
(***************************************************************************)
EXTENDS Naturals

CONSTANT Window   \* dynamic_cpu_window_ns

VARIABLES
    least, most,   \* ACCORDIN_CPU_MASK_K and the CPUs available
    budget,        \* the number of active CPUs
    last,          \* the time of the last tick, 0 before the first
    credit,        \* ticks that may still change the budget
    frozen

vars == <<least, most, budget, last, credit, frozen>>

Init ==
    /\ least \in Nat /\ most \in Nat /\ 1 <= least /\ least <= most
    /\ budget = least /\ last = 0 /\ credit = 0 /\ frozen = FALSE

\* The first call starts the first window.
Begin ==
    /\ last = 0 /\ last' \in Nat
    /\ UNCHANGED <<least, most, budget, credit, frozen>>

Tick ==
    /\ last > 0 /\ last' \in Nat /\ last' >= last + Window
    /\ credit' = credit + 1
    /\ UNCHANGED <<least, most, budget, frozen>>

Adjust ==
    /\ credit > 0 /\ credit' = credit - 1
    /\ ~frozen
    /\ budget' \in least..most
    /\ UNCHANGED <<least, most, last, frozen>>

Lapse ==
    /\ credit > 0 /\ credit' = credit - 1
    /\ UNCHANGED <<least, most, budget, last, frozen>>

Freeze ==
    /\ frozen' = TRUE
    /\ UNCHANGED <<least, most, budget, last, credit>>

Next == Begin \/ Tick \/ Adjust \/ Lapse \/ Freeze

Spec == Init /\ [][Next]_vars

============================================================================
