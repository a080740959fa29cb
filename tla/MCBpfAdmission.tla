--------------------------- MODULE MCBpfAdmission ---------------------------
(* Instances of the scheduler model for TLC. *)
EXTENDS BpfAdmission

CONSTANTS t1, t2, t3

\* Sound where every task has the same affinity and hooks and no liveness
\* property is checked.
Symmetry     == Permutations(Tasks)

Anywhere     == [t \in Tasks |-> CPUs]
\* t1 is bound to the highest CPU, the others may run anywhere.
OneBound     == [t \in Tasks |-> IF t = t1 THEN {NCpus - 1} ELSE CPUs]

NoMask       == {}
EitherHalf   == {{0}, {1}, {0, 1}}

\* A thread waits for I/O while it holds the lock, or a page fault blocks it
\* while it spins.
InCS         == {"cs"}
Spinning     == {"spin"}
Nowhere      == {}
============================================================================
