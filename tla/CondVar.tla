------------------------------ MODULE CondVar ------------------------------
(***************************************************************************)
(* The hooked condition variables of accordin_shared/src/mutex_hook.rs: a  *)
(* CondState is a sequence number, which a notification increments and on  *)
(* which waiters sleep, and a count of waiters, without which a            *)
(* notification does nothing.  The mutex of the waiters is a hooked one,   *)
(* used by what AbstractMutex promises; the futex is the kernel's.  A      *)
(* compare_exchange loop is one step, at its successful exchange.          *)
(***************************************************************************)
EXTENDS Naturals, SequencesExt, FiniteSetsExt

CONSTANTS
    Waiters,     \* threads that call pthread_cond_wait or _timedwait
    Notifiers,   \* threads that call pthread_cond_signal or _broadcast
    Crews,       \* who takes part: records [waiting, timed, notifying, calls],
                 \* timed being those that call pthread_cond_timedwait, and
                 \* calls a bound on the number of notifying calls
    None

ASSUME ThreadsAssumption ==
    /\ \A c \in Crews : c.timed \subseteq c.waiting /\ c.waiting \subseteq Waiters
                        /\ c.notifying \subseteq Notifiers /\ c.calls \in Nat
    /\ IsFiniteSet(Waiters) /\ IsFiniteSet(Notifiers) /\ Waiters \cap Notifiers = {}
    /\ None \notin Waiters

VARIABLES
    crew,      \* the threads that take part, one of Crews
    seq,       \* CondState.seq
    waiters,   \* CondState.waiters
    lock,      \* the waiter that holds the mutex, or None
    mySeq,     \* mySeq[w]: the local "seq" of a wait
    pc,        \* where each thread is
    futex,     \* the threads asleep on seq, in the order the kernel wakes them
    calls      \* notifying calls made

vars == <<crew, seq, waiters, lock, mySeq, pc, futex, calls>>

Threads == Waiters \cup Notifiers

WaiterLabels   == {"idle", "locked", "loaded", "counted", "check", "wait", "asleep",
                   "expired", "cancel", "relock"}
NotifierLabels == {"idle", "bump_one", "wake_one", "bump_all", "wake_all"}

Init ==
    /\ crew \in Crews
    /\ seq = 0 /\ waiters = 0 /\ lock = None /\ calls = 0
    /\ mySeq = [w \in Waiters |-> 0]
    /\ pc = [p \in Threads |-> "idle"]
    /\ futex = <<>>

Goto(p, from, to) == pc[p] = from /\ pc' = [pc EXCEPT ![p] = to]

----------------------------------------------------------------------------
(* pthread_cond_wait and pthread_cond_timedwait.  The caller holds the     *)
(* mutex when it calls, and again when the call returns.                   *)

CallerLocks(w) ==
    /\ Goto(w, "idle", "locked")
    /\ lock = None /\ lock' = w
    /\ UNCHANGED <<seq, waiters, mySeq, futex, calls>>

LoadSeq(w) ==
    /\ Goto(w, "locked", "loaded")
    /\ mySeq' = [mySeq EXCEPT ![w] = seq]
    /\ UNCHANGED <<seq, waiters, lock, futex, calls>>

\* Mutant: the count is used as a flag.
AddWaiter_Flag(w) ==
    /\ Goto(w, "loaded", "counted")
    /\ waiters' = 1
    /\ UNCHANGED <<seq, lock, mySeq, futex, calls>>

AddWaiter(w) ==
    /\ Goto(w, "loaded", "counted")
    /\ waiters' = waiters + 1
    /\ UNCHANGED <<seq, lock, mySeq, futex, calls>>

Unlock(w) ==
    /\ Goto(w, "counted", "check")
    /\ lock' = None
    /\ UNCHANGED <<seq, waiters, mySeq, futex, calls>>

CheckSeq(w) ==
    /\ Goto(w, "check", IF seq = mySeq[w] THEN "wait" ELSE "relock")
    /\ UNCHANGED <<seq, waiters, lock, mySeq, futex, calls>>

\* FUTEX_WAIT sleeps only if seq still has the expected value.
futex_wait(w) ==
    /\ Goto(w, "wait", IF seq = mySeq[w] THEN "asleep" ELSE "check")
    /\ futex' = IF seq = mySeq[w] THEN Append(futex, w) ELSE futex
    /\ UNCHANGED <<seq, waiters, lock, mySeq, calls>>

\* The kernel takes w off the queue of the futex.
Dequeue(w) == \E i \in DOMAIN futex : futex[i] = w /\ futex' = RemoveAt(futex, i)

\* A signal handler interrupts the call; both loops then look at seq again.
FutexInterrupted(w) ==
    /\ Goto(w, "asleep", "check")
    /\ Dequeue(w)
    /\ UNCHANGED <<seq, waiters, lock, mySeq, calls>>

FutexTimesOut(w) ==
    /\ w \in crew.timed /\ Goto(w, "asleep", "expired")
    /\ Dequeue(w)
    /\ UNCHANGED <<seq, waiters, lock, mySeq, calls>>

CheckAfterTimeout(w) ==
    /\ Goto(w, "expired", IF seq = mySeq[w] THEN "cancel" ELSE "relock")
    /\ UNCHANGED <<seq, waiters, lock, mySeq, futex, calls>>

cancel_one_waiter(w) ==
    /\ Goto(w, "cancel", "relock")
    /\ waiters' = IF waiters = 0 THEN 0 ELSE waiters - 1
    /\ UNCHANGED <<seq, lock, mySeq, futex, calls>>

\* The call takes the mutex and returns; its caller then releases the mutex.
Relock(w) ==
    /\ Goto(w, "relock", "idle") /\ lock = None
    /\ UNCHANGED <<seq, waiters, lock, mySeq, futex, calls>>

----------------------------------------------------------------------------
(* pthread_cond_signal and pthread_cond_broadcast, which their caller may  *)
(* call with the mutex or without it.                                      *)

\* Mutant: the count is decremented without a look at it.
signal_one_waiter_Unchecked(p) ==
    /\ calls < crew.calls /\ calls' = calls + 1
    /\ Goto(p, "idle", "bump_one")
    /\ waiters' = waiters - 1
    /\ UNCHANGED <<seq, lock, mySeq, futex>>

signal_one_waiter(p) ==
    /\ calls < crew.calls /\ calls' = calls + 1
    /\ Goto(p, "idle", IF waiters = 0 THEN "idle" ELSE "bump_one")
    /\ waiters' = IF waiters = 0 THEN 0 ELSE waiters - 1
    /\ UNCHANGED <<seq, lock, mySeq, futex>>

BroadcastTakesAll(p) ==
    /\ calls < crew.calls /\ calls' = calls + 1
    /\ Goto(p, "idle", IF waiters = 0 THEN "idle" ELSE "bump_all")
    /\ waiters' = 0
    /\ UNCHANGED <<seq, lock, mySeq, futex>>

\* Mutant: a signal wakes without moving the sequence number.
BumpSeq_OnlyAll(p) ==
    /\ \/ Goto(p, "bump_one", "wake_one") /\ UNCHANGED seq
       \/ Goto(p, "bump_all", "wake_all") /\ seq' = seq + 1
    /\ UNCHANGED <<waiters, lock, mySeq, futex, calls>>

BumpSeq(p) ==
    /\ Goto(p, "bump_one", "wake_one") \/ Goto(p, "bump_all", "wake_all")
    /\ seq' = seq + 1
    /\ UNCHANGED <<waiters, lock, mySeq, futex, calls>>

\* FUTEX_WAKE of the first n sleepers, or of all when there are fewer.
futex_wake(p, n) ==
    LET woken == {futex[i] : i \in 1..Min({n, Len(futex)})} IN
    /\ pc' = [q \in Threads |-> IF q = p THEN "idle" ELSE IF q \in woken THEN "check" ELSE pc[q]]
    /\ futex' = SubSeq(futex, n + 1, Len(futex))
    /\ UNCHANGED <<seq, waiters, lock, mySeq, calls>>

WakeOne(p) == pc[p] = "wake_one" /\ futex_wake(p, 1)

\* Mutant: a broadcast wakes a single sleeper.
WakeAll_One(p) == pc[p] = "wake_all" /\ futex_wake(p, 1)

WakeAll(p) == pc[p] = "wake_all" /\ futex_wake(p, Cardinality(Waiters))

----------------------------------------------------------------------------
WaiterStep(w) ==
    \/ CallerLocks(w) \/ LoadSeq(w) \/ AddWaiter(w) \/ Unlock(w) \/ CheckSeq(w)
    \/ futex_wait(w) \/ FutexInterrupted(w) \/ FutexTimesOut(w)
    \/ CheckAfterTimeout(w) \/ cancel_one_waiter(w) \/ Relock(w)

NotifierStep(p) ==
    \/ signal_one_waiter(p) \/ BroadcastTakesAll(p) \/ BumpSeq(p) \/ WakeOne(p) \/ WakeAll(p)

Next ==
    /\ (\E w \in crew.waiting : WaiterStep(w)) \/ (\E p \in crew.notifying : NotifierStep(p))
    /\ UNCHANGED crew

Spec == Init /\ [][Next]_vars

\* A thread that has begun a call goes on with it; the mutex is starvation-free
\* for the threads that call again after a wait (FifoSlowPath of McsTasLock).
Fairness ==
    /\ \A w \in Waiters :
        /\ WF_vars(UNCHANGED crew /\ (LoadSeq(w) \/ AddWaiter(w) \/ Unlock(w) \/ CheckSeq(w)
                       \/ futex_wait(w) \/ CheckAfterTimeout(w) \/ cancel_one_waiter(w)))
        /\ SF_vars(UNCHANGED crew /\ Relock(w))
    /\ \A p \in Notifiers : WF_vars(UNCHANGED crew /\ (BumpSeq(p) \/ WakeOne(p) \/ WakeAll(p)))

FairSpec == Spec /\ Fairness

----------------------------------------------------------------------------
\* Every variable has its type; the count, a u32, never falls below zero.
TypeOK ==
    /\ crew \in Crews /\ seq \in 0..crew.calls /\ waiters \in Nat /\ calls \in 0..crew.calls
    /\ lock \in Waiters \cup {None}
    /\ mySeq \in [Waiters -> Nat]
    /\ pc \in [Threads -> WaiterLabels \cup NotifierLabels]
    /\ futex \in Seq(Waiters)

At(labels) == {p \in Threads : pc[p] \in labels}

\* Each thread asleep is counted in waiters, or a notification that has taken
\* its count has still to wake a thread: no sleeper is left to whom later
\* notifications, which look at the count first, do nothing.
SleepersCounted ==
    At({"bump_all", "wake_all"}) = {} =>
        Len(futex) <= waiters + Cardinality(At({"bump_one", "wake_one"}))

\* The same as long as nobody's wait can time out.
UntimedSleepersCounted == crew.timed = {} => SleepersCounted

\* POSIX calls release and wait atomic for a notification: one that comes once
\* the mutex is released finds the waiter in the count, unless another that is
\* under way is about to move the sequence number on which it waits.  As above,
\* as long as nobody's wait can time out.
ReleasedIsNoticed ==
    crew.timed = {} => \A w \in At({"check", "wait", "asleep"}) :
        mySeq[w] = seq => waiters > 0 \/ At({"bump_one", "bump_all"}) # {}

\* Every thread that has released the mutex when a broadcast takes the count
\* returns from its wait, also if it was on its way into the futex.
BroadcastFreesAll ==
    \A w \in Waiters :
        (pc[w] \in {"check", "wait", "asleep"} /\ At({"bump_all"}) # {}) ~> pc[w] = "idle"

============================================================================
