--------------------------- MODULE MCLockBackends ---------------------------
(* Instances of the alternative backends for TLC. *)
EXTENDS LockBackends, TLC
ThreadSymmetry == Permutations(Threads)
============================================================================
