-------------------------- MODULE ReciprocatingLock --------------------------
(***************************************************************************)
(* The steps of the reciprocating backend, under lock_with_stats.          *)
(* Arriving threads push themselves on arv; the thread that releases with  *)
(* no successor detaches the whole segment, which is then served last in   *)
(* first out.                                                              *)
(***************************************************************************)
EXTENDS ReciprocatingLockState

vars == <<recipVars, hookVars>>

Init == HookInit /\ backend = "reciprocating" /\ RecipInit

untag(p) == IF p = LOCKED_EMPTY THEN None ELSE p

----------------------------------------------------------------------------
\* The lock is t's, with the context c that push_lock_context keeps.
ObtainWith(t, c) ==
    /\ context' = [context EXCEPT ![t][target[t]] = c]
    /\ Obtain(t)
    /\ bypass' = [u \in Threads |->
            IF u = t THEN [v \in Threads |-> 0]
            ELSE IF pc[u] = "wait" /\ target[u] = target[t]
                 THEN [bypass[u] EXCEPT ![t] = @ + 1] ELSE bypass[u]]

ResetGate(t) == gate' = [gate EXCEPT ![t] = None]

try_lock_fast(t, from) ==
    /\ Goto(t, from, "idle")
    /\ arv[target[t]] = None
    /\ arv' = [arv EXCEPT ![target[t]] = t]
    /\ ResetGate(t)
    /\ ObtainWith(t, [succ |-> None, eos |-> t])
    /\ UNCHANGED waiter

\* The gate is reset also when the compare_exchange fails.
FastPathFails(t) ==
    /\ GoSlow(t, "arrive") /\ arv[target[t]] # None
    /\ ResetGate(t)
    /\ UNCHANGED <<arv, context, waiter, bypass>>

TrylockFails(t) ==
    /\ GiveUp(t) /\ arv[target[t]] # None
    /\ ResetGate(t)
    /\ UNCHANGED <<arv, context, waiter, bypass>>

----------------------------------------------------------------------------
(* acquire_context *)

Arrive(t) ==
    LET before == arv[target[t]] IN
    /\ pc[t] = "arrive"
    /\ arv' = [arv EXCEPT ![target[t]] = t]
    /\ ResetGate(t)
    /\ IF before = None
       THEN pc' = [pc EXCEPT ![t] = "idle"] /\ ObtainWith(t, [succ |-> None, eos |-> t])
       ELSE /\ pc' = [pc EXCEPT ![t] = "wait"]
            /\ context' = [context EXCEPT ![t][target[t]] = [succ |-> untag(before), eos |-> t]]
            /\ UNCHANGED <<cell, word, target, held, bypass>>
    /\ UNCHANGED waiter

\* Mutant: the end of the segment is not recognised.
Admitted_NoTerminus(t) ==
    LET succ == context[t][target[t]].succ IN [succ |-> succ, eos |-> gate[t]]

\* What the opened gate makes of the context: at the end of the segment there
\* is no successor, and arv holds LOCKED_EMPTY until the next arrival.
Admitted(t) ==
    LET succ == context[t][target[t]].succ IN
    IF succ = gate[t] THEN [succ |-> None, eos |-> LOCKED_EMPTY]
                      ELSE [succ |-> succ, eos |-> gate[t]]

AwaitGate(t) ==
    /\ Goto(t, "wait", "idle")
    /\ gate[t] # None
    /\ ObtainWith(t, Admitted(t))
    /\ UNCHANGED <<arv, gate, waiter>>

----------------------------------------------------------------------------
(* unlock_fast: pop_lock_context and unlock_with_context *)

CallUnlock(t, l) ==
    /\ l \in held[t] /\ Goto(t, "idle", "release")
    /\ target' = [target EXCEPT ![t] = l]
    /\ UNCHANGED <<recipVars, cell, word, held>>

Released(t) ==
    /\ context' = [context EXCEPT ![t][target[t]] = Empty]
    /\ Relinquish(t, target[t])

PassToSuccessor(t) ==
    LET c == context[t][target[t]] IN
    /\ Goto(t, "release", "idle") /\ c.succ # None
    /\ gate' = [gate EXCEPT ![c.succ] = c.eos]
    /\ Released(t)
    /\ UNCHANGED <<arv, waiter, bypass>>

\* Mutant: a store instead of the compare_exchange.
Free_Store(t) ==
    LET c == context[t][target[t]] IN
    /\ Goto(t, "release", "idle") /\ c.succ = None
    /\ arv' = [arv EXCEPT ![target[t]] = None]
    /\ Released(t)
    /\ UNCHANGED <<gate, waiter, bypass>>

Free(t) ==
    LET c == context[t][target[t]] IN
    /\ Goto(t, "release", "idle") /\ c.succ = None
    /\ arv[target[t]] = c.eos
    /\ arv' = [arv EXCEPT ![target[t]] = None]
    /\ Released(t)
    /\ UNCHANGED <<gate, waiter, bypass>>

FreeFails(t) ==
    LET c == context[t][target[t]] IN
    /\ Goto(t, "release", "detach") /\ c.succ = None
    /\ arv[target[t]] # c.eos
    /\ UNCHANGED <<recipVars, cell, word, target, held>>

\* Mutant: the lock is left free for a barging arrival.
Detach_Opens(t) ==
    /\ Goto(t, "detach", "grant")
    /\ waiter' = [waiter EXCEPT ![t] = arv[target[t]]]
    /\ arv' = [arv EXCEPT ![target[t]] = None]
    /\ UNCHANGED <<gate, context, bypass, cell, word, target, held>>

Detach(t) ==
    /\ Goto(t, "detach", "grant")
    /\ waiter' = [waiter EXCEPT ![t] = arv[target[t]]]
    /\ arv' = [arv EXCEPT ![target[t]] = LOCKED_EMPTY]
    /\ UNCHANGED <<gate, context, bypass, cell, word, target, held>>

Grant(t) ==
    /\ Goto(t, "grant", "idle")
    /\ gate' = [gate EXCEPT ![waiter[t]] = context[t][target[t]].eos]
    /\ waiter' = [waiter EXCEPT ![t] = None]
    /\ Released(t)
    /\ UNCHANGED <<arv, bypass>>

----------------------------------------------------------------------------
\* Backend::create_state for the mutex l.
create_state(l) ==
    /\ arv' = [arv EXCEPT ![l] = None]
    /\ UNCHANGED <<gate, context, waiter, bypass>>

Call(t) == \E l \in Locks :
    \/ (EnterLock(t, l) \/ EnterTrylock(t, l)) /\ UNCHANGED recipVars
    \/ CallUnlock(t, l)

LifeCycle ==
    \/ \E t \in Threads :
        \/ (Claim(t) \/ Found(t)) /\ UNCHANGED recipVars
        \/ Publish(t) /\ create_state(target[t])
    \/ \E l \in Locks :
        \/ pthread_mutex_init(l) /\ create_state(l)
        \/ pthread_mutex_destroy(l) /\ UNCHANGED recipVars

Step(t) ==
    \/ try_lock_fast(t, "try") \/ try_lock_fast(t, "trylock")
    \/ FastPathFails(t) \/ TrylockFails(t) \/ Arrive(t) \/ AwaitGate(t)
    \/ PassToSuccessor(t) \/ Free(t) \/ FreeFails(t) \/ Detach(t) \/ Grant(t)

Next ==
    /\ UNCHANGED backend
    /\ LifeCycle \/ \E t \in Threads : Call(t) \/ Step(t)

Spec == Init /\ [][Next]_vars

============================================================================
