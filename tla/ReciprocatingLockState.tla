----------------------- MODULE ReciprocatingLockState -----------------------
(***************************************************************************)
(* The state of the reciprocating backend, ReciprocatingLockRaw of         *)
(* reciprocating_accordin/src/reciprocating.rs, and what has to hold of    *)
(* it.  A thread has ONE wait element for all locks, named here by the     *)
(* thread; it is the successor's handle and the end-of-segment marker.     *)
(***************************************************************************)
EXTENDS LockHooks

CONSTANT LOCKED_EMPTY  \* the tagged pointer 1, neither an element nor null

ASSUME TagAssumption == LOCKED_EMPTY \notin Threads \cup {None}

VARIABLES
    arv,      \* arv[l]: the last arrival, LOCKED_EMPTY, or None when free
    gate,     \* gate[t]: WaitElement.gate of t's element
    context,  \* context[t][l]: the LockContext pushed for a lock t holds; that
              \* of the lock it waits for while it waits
    waiter,   \* waiter[t]: the segment an unlock has detached
    bypass    \* history: bypass[t][u], acquisitions by u of the lock t waits
              \* for, since t arrived

recipVars == <<arv, gate, context, waiter, bypass>>

Empty == [succ |-> None, eos |-> None]

RecipInit ==
    /\ arv = [l \in Locks |-> None]
    /\ gate = [t \in Threads |-> None]
    /\ context = [t \in Threads |-> [l \in Locks |-> Empty]]
    /\ waiter = [t \in Threads |-> None]
    /\ bypass = [t \in Threads |-> [u \in Threads |-> 0]]

----------------------------------------------------------------------------
\* The debug assertions of acquire_context and unlock_with_context, which a
\* release build leaves out: no thread waits for itself, an opened gate names
\* another element, and a detached segment is a waiting thread's.
AssertionsHold == backend = "reciprocating" =>
    \A t \in Threads :
        /\ pc[t] = "arrive" => arv[target[t]] # t
        /\ pc[t] = "wait" => context[t][target[t]].succ # t /\ gate[t] # t
        /\ pc[t] \in {"release", "detach", "grant"} =>
            context[t][target[t]].eos # None /\ context[t][target[t]].succ # LOCKED_EMPTY
        /\ pc[t] = "grant" => waiter[t] \in Threads \ {context[t][target[t]].eos}

\* A lock that is not free has exactly one thread that holds it or whose gate
\* is open, and a free lock has no waiter: no release loses the waiters that
\* arrive while it looks at arv, nor opens two gates.
OneAdmitted == backend = "reciprocating" =>
    \A l \in Locks :
        LET Waiting == {t \in Threads : pc[t] = "wait" /\ target[t] = l}
            Holding == {t \in Threads : l \in held[t]}
        IN  IF arv[l] = None THEN Waiting \cup Holding = {}
            ELSE Cardinality(Holding \cup {t \in Waiting : gate[t] # None}) = 1

\* Last in first out within a segment, first come first served between them:
\* no thread overtakes a waiter more than twice, once from the segment being
\* served and once from the waiter's own.
BoundedBypass == \A t, u \in Threads : bypass[t][u] <= 2

============================================================================
