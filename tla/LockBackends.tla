---------------------------- MODULE LockBackends ----------------------------
(***************************************************************************)
(* The alternative backends, each a library of its own; a process preloads *)
(* one of them, and only the state of that one ever changes.               *)
(***************************************************************************)
EXTENDS McsLockState, ReciprocatingLockState

VARIABLE flag    \* of TtasLock

vars == <<mcsVars, recipVars, flag, hookVars>>

Mcs           == INSTANCE McsLock
Reciprocating == INSTANCE ReciprocatingLock
Ttas          == INSTANCE TtasLock

Init ==
    /\ HookInit /\ backend \in {"mcs", "reciprocating", "ttas"}
    /\ McsInit /\ RecipInit /\ Ttas!TtasInit

Next ==
    \/ backend = "mcs" /\ Mcs!Next /\ UNCHANGED <<recipVars, flag>>
    \/ backend = "reciprocating" /\ Reciprocating!Next /\ UNCHANGED <<mcsVars, flag>>
    \/ backend = "ttas" /\ Ttas!Next /\ UNCHANGED <<mcsVars, recipVars>>

Spec == Init /\ [][Next]_vars

============================================================================
