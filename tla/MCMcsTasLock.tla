---------------------------- MODULE MCMcsTasLock ----------------------------
EXTENDS McsTasLockRefinement, TLC
ThreadSymmetry == Permutations(Threads)
============================================================================
