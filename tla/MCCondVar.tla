----------------------------- MODULE MCCondVar -----------------------------
(* Instances of the condition variable for TLC. *)
EXTENDS CondVar

Some(S, n) == CHOOSE T \in SUBSET S : Cardinality(T) = n

Crew(w, t, n, c) ==
    LET waiting == Some(Waiters, w)
    IN [waiting |-> waiting, timed |-> Some(waiting, t), notifying |-> Some(Notifiers, n), calls |-> c]

\* Three waiters and a notifier that makes two calls, or two of each and three
\* calls; nobody's wait is timed, or one waiter's.
MCCrews == {Crew(3, 0, 1, 2), Crew(2, 0, 2, 3), Crew(2, 1, 2, 3)}
============================================================================
