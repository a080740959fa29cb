------------------------------ MODULE LockHooks ------------------------------
(***************************************************************************)
(* What the backends built on MutexHookBackend share: the exported lock,   *)
(* trylock and unlock hooks (accordin_shared/src/mutex_hook.rs) around a   *)
(* backend's try_lock, lock and unlock, with admission enabled, and the    *)
(* life of the backend state behind a mutex: pthread_mutex_init creates    *)
(* it, else the first call that needs it does, and pthread_mutex_destroy   *)
(* frees it.  Every mutex is hooked.  Callers respect the pthread contract *)
(* and nest blocking locks in increasing order, so that a deadlock would   *)
(* be the library's.                                                       *)
(***************************************************************************)
EXTENDS Naturals, FiniteSets, AdmissionWord

CONSTANTS
    Threads,
    Locks,       \* natural numbers
    None,        \* the null pointer
    MaxHeld      \* bound: how many locks a caller nests

ASSUME HookAssumption ==
    /\ Locks \subseteq Nat /\ MaxHeld \in Nat
    /\ None \notin Threads /\ None \notin Locks

VARIABLES
    backend,     \* the library that the process has preloaded; it never changes
    cell,        \* cell[l]: the first word of the pthread_mutex_t: "zero",
                 \* "SENTINEL", or "state" for the pointer to the HookState
    word,        \* word[t]: t's admission word
    pc, target,  \* where t is in a hook call, and the lock of that call
    held         \* held[t]: the locks t's caller holds

hookVars == <<backend, cell, word, pc, target, held>>

\* PTHREAD_MUTEX_INITIALIZER is all zero.
HookInit ==
    /\ cell   = [l \in Locks |-> "zero"]
    /\ word   = [t \in Threads |-> {}]
    /\ pc     = [t \in Threads |-> "idle"]
    /\ target = [t \in Threads |-> None]
    /\ held   = [t \in Threads |-> {}]

Goto(t, from, to) == pc[t] = from /\ pc' = [pc EXCEPT ![t] = to]

----------------------------------------------------------------------------
(* The state of a mutex *)

\* Where a call that goes on at "try" or "trylock" looks for the state, and
\* where it stores one that it has allocated.
LooksAt   == [try |-> "ensure", trylock |-> "try_ensure"]
CreatesAt == [try |-> "create", trylock |-> "try_create"]

\* ensure_state: the load that begins a call tells whether to create.
Enter(t, l, call) ==
    /\ Goto(t, "idle", IF cell[l] = "state" THEN call ELSE LooksAt[call])
    /\ Cardinality(held[t]) < MaxHeld
    /\ target' = [target EXCEPT ![t] = l]
    /\ UNCHANGED <<cell, word, held>>

EnterLock(t, l)    == Enter(t, l, "try") /\ \A k \in held[t] : k < l
EnterTrylock(t, l) == Enter(t, l, "trylock") /\ l \notin held[t]

\* Mutant: a load and a store in place of the compare_exchange.
Claim_Store(t) == \E call \in DOMAIN LooksAt :
    /\ Goto(t, LooksAt[call], CreatesAt[call])
    /\ cell' = [cell EXCEPT ![target[t]] = "SENTINEL"]
    /\ UNCHANGED <<word, target, held>>

\* ensure_state_slow: one thread replaces 0 by SENTINEL and allocates, the
\* others read again until they see the pointer.
Claim(t) == \E call \in DOMAIN LooksAt :
    /\ Goto(t, LooksAt[call], CreatesAt[call])
    /\ cell[target[t]] = "zero"
    /\ cell' = [cell EXCEPT ![target[t]] = "SENTINEL"]
    /\ UNCHANGED <<word, target, held>>

Found(t) == \E call \in DOMAIN LooksAt :
    /\ Goto(t, LooksAt[call], call)
    /\ cell[target[t]] = "state"
    /\ UNCHANGED <<cell, word, target, held>>

\* The backend adds its fresh lock to the two actions that store a pointer.
Publish(t) == \E call \in DOMAIN LooksAt :
    /\ Goto(t, CreatesAt[call], call)
    /\ cell' = [cell EXCEPT ![target[t]] = "state"]
    /\ UNCHANGED <<word, target, held>>

\* POSIX: only a mutex that is not locked and that no call is using is
\* initialised or destroyed; it may be as soon as the last unlock let it go.
Unused(l) == \A t \in Threads : l \notin held[t] /\ target[t] # l

\* By a thread that is not in a call itself.
SetCell(l, from, to) ==
    /\ Unused(l) /\ \E t \in Threads : pc[t] = "idle"
    /\ cell[l] = from /\ cell' = [cell EXCEPT ![l] = to]
    /\ UNCHANGED <<word, pc, target, held>>

pthread_mutex_init(l)    == SetCell(l, "zero", "state")
pthread_mutex_destroy(l) == SetCell(l, "state", "zero")

----------------------------------------------------------------------------
(* The calls *)

\* lock_with_stats falls back to Backend::lock, which begins by marking the
\* word; pthread_mutex_trylock returns EBUSY.
GoSlow(t, to) ==
    /\ Goto(t, "try", to)
    /\ word' = [word EXCEPT ![t] = mark_slow_path_pending(@, TRUE)]
    /\ UNCHANGED <<cell, target, held>>

GiveUp(t) ==
    /\ Goto(t, "trylock", "idle")
    /\ target' = [target EXCEPT ![t] = None]
    /\ UNCHANGED <<cell, word, held>>

\* The lock is t's; record_lock_acquired marks the word.
Obtain(t) ==
    /\ held'   = [held EXCEPT ![t] = @ \cup {target[t]}]
    /\ word'   = [word EXCEPT ![t] = mark_critical_section_entered(@, TRUE)]
    /\ target' = [target EXCEPT ![t] = None]
    /\ UNCHANGED cell

\* pthread_mutex_unlock, which finds no state behind a destroyed mutex and
\* returns EINVAL: the lock l is no longer t's; every backend clears the mark
\* afterwards.
Relinquish(t, l) ==
    /\ cell[l] = "state"
    /\ held'   = [held EXCEPT ![t] = @ \ {l}]
    /\ word'   = [word EXCEPT ![t] = mark_critical_section_exit(@, TRUE)]
    /\ target' = [target EXCEPT ![t] = None]
    /\ UNCHANGED cell

----------------------------------------------------------------------------
\* Labels of a blocking request that has not obtained the lock yet.
RequestLabels == {"ensure", "create", "try", "swap", "link", "spin", "arrive", "wait", "cas"}

\* The lock that each thread is blocked on.
Requests == [t \in Threads |-> IF pc[t] \in RequestLabels THEN target[t] ELSE None]

Mutex == INSTANCE AbstractMutex WITH want <- Requests

\* The hooks over a backend implement the abstract mutex: mutual exclusion, and
\* no grant of a lock that was not requested or is not free, also while mutexes
\* are created by their first callers, destroyed and created again.
ImplementsMutex == Mutex!Spec

============================================================================
