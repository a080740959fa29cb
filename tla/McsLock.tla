------------------------------ MODULE McsLock ------------------------------
(***************************************************************************)
(* The steps of the MCS backend, under lock_with_stats of the exported     *)
(* hooks.  Steps that touch only the own thread join the shared access     *)
(* next to them.                                                           *)
(***************************************************************************)
EXTENDS McsLockState

vars == <<mcsVars, hookVars>>

Init == HookInit /\ backend = "mcs" /\ McsInit

FirstFree(t) == <<t, Min({i \in 1..MaxNodes : lockOwner[<<t, i>>] = None})>>

\* Mutant: the search does not look at in_use.
locked_thread_node_AnyFirst(t, l) == <<t, 1>>

locked_thread_node(t, l) ==
    <<t, Min({i \in 1..MaxNodes : lockOwner[<<t, i>>] = l})>>

\* acquire_thread_node: the first free node, with a fresh next pointer.
TakeNode(t, wait) ==
    LET n == FirstFree(t) IN
    /\ lockOwner' = [lockOwner EXCEPT ![n] = target[t]]
    /\ next' = [next EXCEPT ![n] = None]
    /\ locked' = [locked EXCEPT ![n] = wait]

try_lock_fast(t, from) ==
    /\ Goto(t, from, "idle")
    /\ tail[target[t]] = None
    /\ TakeNode(t, FALSE)
    /\ tail' = [tail EXCEPT ![target[t]] = FirstFree(t)]
    /\ queue' = [queue EXCEPT ![target[t]] = Append(@, t)]
    /\ Obtain(t)
    /\ UNCHANGED <<node, pred, succ>>

\* The node is taken and given back clean.
FastPathFails(t) ==
    GoSlow(t, "swap") /\ tail[target[t]] # None /\ UNCHANGED mcsVars

TrylockFails(t) ==
    GiveUp(t) /\ tail[target[t]] # None /\ UNCHANGED mcsVars

----------------------------------------------------------------------------
(* lock_queue *)

SwapTail(t) ==
    LET l == target[t]
        n == FirstFree(t)
    IN  /\ pc[t] = "swap"
        /\ TakeNode(t, TRUE)
        /\ tail' = [tail EXCEPT ![l] = n]
        /\ queue' = [queue EXCEPT ![l] = Append(@, t)]
        /\ pred' = [pred EXCEPT ![t] = tail[l]]
        /\ IF tail[l] = None
           THEN pc' = [pc EXCEPT ![t] = "idle"] /\ Obtain(t) /\ UNCHANGED node
           ELSE /\ pc' = [pc EXCEPT ![t] = "link"]
                /\ node' = [node EXCEPT ![t] = n]
                /\ UNCHANGED <<cell, word, target, held>>
        /\ UNCHANGED succ

LinkPred(t) ==
    /\ Goto(t, "link", "spin")
    /\ next' = [next EXCEPT ![pred[t]] = node[t]]
    /\ pred' = [pred EXCEPT ![t] = None]
    /\ UNCHANGED <<tail, locked, lockOwner, node, succ, queue, cell, word, target, held>>

\* Mutant: the waiter does not look at its node.
SpinLocked_NoWait(t) ==
    /\ Goto(t, "spin", "idle")
    /\ Obtain(t)
    /\ node' = [node EXCEPT ![t] = None]
    /\ UNCHANGED <<tail, next, locked, lockOwner, pred, succ, queue>>

SpinLocked(t) ==
    /\ Goto(t, "spin", "idle")
    /\ ~locked[node[t]]
    /\ Obtain(t)
    /\ node' = [node EXCEPT ![t] = None]
    /\ UNCHANGED <<tail, next, locked, lockOwner, pred, succ, queue>>

----------------------------------------------------------------------------
(* unlock_queue *)

ReadNext(t, l) ==
    LET n == locked_thread_node(t, l) IN
    /\ l \in held[t]
    /\ Goto(t, "idle", IF next[n] = None THEN "detach" ELSE "pass")
    /\ target' = [target EXCEPT ![t] = l]
    /\ node' = [node EXCEPT ![t] = n]
    /\ succ' = [succ EXCEPT ![t] = next[n]]
    /\ UNCHANGED <<tail, next, locked, lockOwner, pred, queue, cell, word, held>>

\* The queue lets go of t; release_thread_node cleans and frees the node.
Released(t) ==
    /\ Relinquish(t, target[t])
    /\ node' = [node EXCEPT ![t] = None]
    /\ succ' = [succ EXCEPT ![t] = None]
    /\ lockOwner' = [lockOwner EXCEPT ![node[t]] = None]
    /\ next' = [next EXCEPT ![node[t]] = None]
    /\ queue' = [queue EXCEPT ![target[t]] = Tail(@)]

Detach(t) ==
    /\ Goto(t, "detach", "idle")
    /\ tail[target[t]] = node[t]
    /\ tail' = [tail EXCEPT ![target[t]] = None]
    /\ locked' = [locked EXCEPT ![node[t]] = FALSE]
    /\ Released(t)
    /\ UNCHANGED pred

DetachFails(t) ==
    /\ Goto(t, "detach", "await_next")
    /\ tail[target[t]] # node[t]
    /\ UNCHANGED <<mcsVars, cell, word, target, held>>

AwaitNext(t) ==
    /\ Goto(t, "await_next", "pass")
    /\ next[node[t]] # None
    /\ succ' = [succ EXCEPT ![t] = next[node[t]]]
    /\ UNCHANGED <<tail, next, locked, lockOwner, node, pred, queue, cell, word, target, held>>

Pass(t) ==
    /\ Goto(t, "pass", "idle")
    /\ locked' = [locked EXCEPT ![succ[t]] = FALSE, ![node[t]] = FALSE]
    /\ Released(t)
    /\ UNCHANGED <<tail, pred>>

----------------------------------------------------------------------------
\* Backend::create_state for the mutex l.
create_state(l) ==
    /\ tail' = [tail EXCEPT ![l] = None]
    /\ UNCHANGED <<next, locked, lockOwner, node, pred, succ, queue>>

Call(t) == \E l \in Locks :
    \/ (EnterLock(t, l) \/ EnterTrylock(t, l)) /\ UNCHANGED mcsVars
    \/ ReadNext(t, l)

LifeCycle ==
    \/ \E t \in Threads :
        \/ (Claim(t) \/ Found(t)) /\ UNCHANGED mcsVars
        \/ Publish(t) /\ create_state(target[t])
    \/ \E l \in Locks :
        \/ pthread_mutex_init(l) /\ create_state(l)
        \/ pthread_mutex_destroy(l) /\ UNCHANGED mcsVars

Step(t) ==
    \/ try_lock_fast(t, "try") \/ try_lock_fast(t, "trylock")
    \/ FastPathFails(t) \/ TrylockFails(t)
    \/ SwapTail(t) \/ LinkPred(t) \/ SpinLocked(t)
    \/ Detach(t) \/ DetachFails(t) \/ AwaitNext(t) \/ Pass(t)

Next ==
    /\ UNCHANGED backend
    /\ LifeCycle \/ \E t \in Threads : Call(t) \/ Step(t)

Spec == Init /\ [][Next]_vars

============================================================================
