-------------------------- MODULE MCCpuController --------------------------
(* Instances of the concurrency controller for TLC. *)
EXTENDS CpuController

Machine(k, n, fit) == [requested |-> k, available |-> n, addressable |-> fit]

\* Where the low-load bypass applies and gives more than the limit of 64; where
\* K is too small for it, the limit of 16 is beyond the CPUs there are, and some
\* of these are outside the mask.
MCConfigs == {Machine(8, 66, 66), Machine(2, 12, 10)}

\* Below the floor of 8 and so in the dead zone, or above that of 2, and above
\* the limit of both.
MCTargets == {5, 64}

MCRegistered == {3, 40}
============================================================================
