------------------------ MODULE McsTasLockRefinement ------------------------
(***************************************************************************)
(* McsTasLock implements AbstractMutex: a request is pending from the      *)
(* entry of pthread_mutex_lock until the flag is taken.                    *)
(***************************************************************************)
EXTENDS McsTasLock

\* The lock that each thread is blocked on.
Requests == [t \in Threads |-> IF pc[t] \in RequestLabels THEN target[t] ELSE None]

Mutex == INSTANCE AbstractMutex WITH want <- Requests

\* Safety: every step of the backend is a step of the abstract mutex or
\* leaves it unchanged.
ImplementsMutex == Mutex!Spec

\* With every call in progress scheduled fairly, a free lock that is wanted
\* is eventually taken: no handoff is lost between queue and flag.
DeadlockFree == Mutex!FairSpec

============================================================================
