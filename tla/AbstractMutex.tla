--------------------------- MODULE AbstractMutex ---------------------------
(***************************************************************************)
(* What a mutex backend promises to the callers of the pthread hooks: a    *)
(* lock has at most one holder, a blocking request is granted only while   *)
(* the lock is free, and a free lock that is requested is granted to       *)
(* someone (deadlock freedom; no backend that allows barging promises more *)
(* than that).  Which requester is served is left open.                    *)
(***************************************************************************)
CONSTANTS Threads, Locks, None

VARIABLES
    want,   \* want[t]: the lock t is blocked on, or None
    held    \* held[t]: the locks t holds

vars == <<want, held>>

Free(l) == \A t \in Threads : l \notin held[t]

Init == /\ want = [t \in Threads |-> None]
        /\ held = [t \in Threads |-> {}]

Request(t, l) ==
    /\ want[t] = None
    /\ l \notin held[t]
    /\ want' = [want EXCEPT ![t] = l]
    /\ UNCHANGED held

Acquire(t, l) ==
    /\ want[t] = l
    /\ Free(l)
    /\ want' = [want EXCEPT ![t] = None]
    /\ held' = [held EXCEPT ![t] = @ \cup {l}]

TryAcquire(t, l) ==
    /\ want[t] = None
    /\ Free(l)
    /\ held' = [held EXCEPT ![t] = @ \cup {l}]
    /\ UNCHANGED want

Release(t, l) ==
    /\ want[t] = None
    /\ l \in held[t]
    /\ held' = [held EXCEPT ![t] = @ \ {l}]
    /\ UNCHANGED want

Grant(l) == \E t \in Threads : Acquire(t, l)

Next == \E t \in Threads, l \in Locks :
            Request(t, l) \/ Acquire(t, l) \/ TryAcquire(t, l) \/ Release(t, l)

Spec     == Init /\ [][Next]_vars
FairSpec == Spec /\ \A l \in Locks : WF_vars(Grant(l))

============================================================================
