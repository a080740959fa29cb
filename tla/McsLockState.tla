---------------------------- MODULE McsLockState ----------------------------
(***************************************************************************)
(* The state of the MCS backend, define_mcs_lock of                        *)
(* accordin_shared/src/mcs.rs, and what has to hold of it.  A thread has   *)
(* MaxNodes queue nodes; a node is taken for a lock from the request until *)
(* the release.                                                            *)
(***************************************************************************)
EXTENDS LockHooks, SequencesExt, FiniteSetsExt

CONSTANT MaxNodes    \* MAX_THREAD_NODES: 4, or 8 in mcs_tse; at least MaxHeld,
                     \* because a thread that nests deeper panics

ASSUME NodesAssumption ==
    /\ MaxNodes \in Nat /\ MaxHeld <= MaxNodes
    /\ None \notin Threads \X (1..MaxNodes)

VARIABLES
    tail,        \* tail[l]: the last node of l's queue, or None
    next,        \* next[n]: Node.next
    locked,      \* locked[n]: Node.locked
    lockOwner,   \* lockOwner[n]: lock_owners, None for a node not in_use
    node, pred, succ,  \* locals of the hook call t is in
    queue        \* history: the threads in l's queue, in the order of their swaps

mcsVars == <<tail, next, locked, lockOwner, node, pred, succ, queue>>

Nodes == Threads \X (1..MaxNodes)

McsInit ==
    /\ tail = [l \in Locks |-> None]
    /\ next = [n \in Nodes |-> None]
    /\ locked = [n \in Nodes |-> FALSE]
    /\ lockOwner = [n \in Nodes |-> None]
    /\ node = [t \in Threads |-> None]
    /\ pred = [t \in Threads |-> None]
    /\ succ = [t \in Threads |-> None]
    /\ queue = [l \in Locks |-> <<>>]

----------------------------------------------------------------------------
\* The nodes in use are exactly those of the locks a thread holds or waits
\* for, one each: no release frees the node of another lock, whatever the
\* order in which nested locks are released, and a free node is clean.
NodesAccounted == backend = "mcs" =>
    /\ \A t \in Threads : \A l \in Locks :
        Cardinality({i \in 1..MaxNodes : lockOwner[<<t, i>>] = l})
            = IF l \in held[t] \/ (target[t] = l /\ pc[t] \in {"link", "spin"}) THEN 1 ELSE 0
    /\ \A n \in Nodes : lockOwner[n] = None => next[n] = None /\ ~locked[n]

\* Locks are obtained in the order of the swaps, and no handoff is lost: the
\* first of the queue holds the lock or has been told that it may, all others
\* wait, and tail and the next pointers follow the queue.  All of them use one
\* state: none is created or freed under a queue.
GrantedInOrder == backend = "mcs" =>
    \A l \in Locks : LET q == queue[l] IN
        /\ q # <<>> => cell[l] = "state"
        /\ \A t \in Threads : l \in held[t] => q # <<>> /\ q[1] = t
        /\ \A i \in 1..Len(q) :
            IF i = 1 THEN l \in held[q[1]] \/ (pc[q[1]] = "spin" /\ ~locked[node[q[1]]])
            ELSE pc[q[i]] \in {"link", "spin"} /\ target[q[i]] = l /\ locked[node[q[i]]]
        /\ IF q = <<>> THEN tail[l] = None ELSE tail[l] # None /\ tail[l][1] = Last(q)
        /\ \A n \in Nodes : lockOwner[n] = l /\ next[n] # None =>
            \E i \in 1..(Len(q) - 1) : q[i] = n[1] /\ q[i + 1] = next[n][1]

============================================================================
