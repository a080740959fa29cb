------------------------------ MODULE TtasLock ------------------------------
(***************************************************************************)
(* The test-and-test-and-set backend, ttas_accordin/src/ttas.rs.           *)
(***************************************************************************)
EXTENDS LockHooks

VARIABLE flag    \* flag[l]: TtasLockRaw.locked

vars == <<flag, hookVars>>

TtasInit == flag = [l \in Locks |-> FALSE]

Init == HookInit /\ backend = "ttas" /\ TtasInit

Take(t) ==
    /\ flag' = [flag EXCEPT ![target[t]] = TRUE]
    /\ Obtain(t)

try_lock_fast(t, from) ==
    Goto(t, from, "idle") /\ ~flag[target[t]] /\ Take(t)

FastPathFails(t) == GoSlow(t, "spin") /\ flag[target[t]] /\ UNCHANGED flag
TrylockFails(t)  == GiveUp(t) /\ flag[target[t]] /\ UNCHANGED flag

SpinFlag(t) ==
    /\ Goto(t, "spin", "cas") /\ ~flag[target[t]]
    /\ UNCHANGED <<flag, cell, word, target, held>>

Compete(t) == Goto(t, "cas", "idle") /\ ~flag[target[t]] /\ Take(t)

\* compare_exchange_weak may fail on a free flag too.
CompeteFails(t) ==
    Goto(t, "cas", "spin") /\ UNCHANGED <<flag, cell, word, target, held>>

unlock_fast(t, l) ==
    /\ l \in held[t] /\ Goto(t, "idle", "idle")
    /\ flag' = [flag EXCEPT ![l] = FALSE]
    /\ Relinquish(t, l)

----------------------------------------------------------------------------
\* Backend::create_state for the mutex l.
create_state(l) == flag' = [flag EXCEPT ![l] = FALSE]

Call(t) == \E l \in Locks :
    \/ (EnterLock(t, l) \/ EnterTrylock(t, l)) /\ UNCHANGED flag
    \/ unlock_fast(t, l)

LifeCycle ==
    \/ \E t \in Threads :
        \/ (Claim(t) \/ Found(t)) /\ UNCHANGED flag
        \/ Publish(t) /\ create_state(target[t])
    \/ \E l \in Locks :
        \/ pthread_mutex_init(l) /\ create_state(l)
        \/ pthread_mutex_destroy(l) /\ UNCHANGED flag

Step(t) ==
    \/ try_lock_fast(t, "try") \/ try_lock_fast(t, "trylock")
    \/ FastPathFails(t) \/ TrylockFails(t)
    \/ SpinFlag(t) \/ Compete(t) \/ CompeteFails(t)

Next ==
    /\ UNCHANGED backend
    /\ LifeCycle \/ \E t \in Threads : Call(t) \/ Step(t)

Spec == Init /\ [][Next]_vars

============================================================================
