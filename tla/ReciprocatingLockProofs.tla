----------------------- MODULE ReciprocatingLockProofs -----------------------
(***************************************************************************)
(* The reciprocating backend admits one thread at a time, loses no waiter, *)
(* lets a waiter be overtaken at most twice by each other thread and       *)
(* implements the abstract mutex, for any number of threads and locks.     *)
(*                                                                         *)
(* The code keeps no list of who waits: a thread knows its successor, the  *)
(* lock its last arrival.  The invariant says that for every lock there    *)
(* are stamps, the moments of arrival, and a set of waiters, the detached  *)
(* segment, that the pointers picture: the segment from the handle of the  *)
(* owner to its end marker, the other waiters from arv to the base, each   *)
(* in the order of falling stamps.                                         *)
(***************************************************************************)
EXTENDS ReciprocatingLock, FiniteSetTheorems, TLAPS

----------------------------------------------------------------------------
(* Stacks of waiters, as the pointers picture them: X are the waiters, st  *)
(* their stamps, sc their successors.                                      *)

Top(X, st, u)    == u \in X /\ \A w \in X : st[w] <= st[u]
Bottom(X, st, u) == u \in X /\ \A w \in X : st[u] <= st[w]

Under(X, st, u, v) ==
    v \in X /\ st[v] < st[u] /\ \A w \in X : st[w] < st[u] => st[w] <= st[v]

Chained(X, st, sc, end) ==
    \A u \in X : Under(X, st, u, sc[u]) \/ (Bottom(X, st, u) /\ sc[u] = untag(end))

Distinct(X, st) == \A t, u \in X : st[t] = st[u] => t = u

\* What arv shows below the arrivals: the end marker of an owner without
\* successors, LOCKED_EMPTY while a segment is served.
Base(eos, handle) == IF handle = None THEN eos ELSE LOCKED_EMPTY

\* The owner o of a lock knows the segment S of the waiters W by its handle and
\* end marker eos, and arv, here last, shows the rest.
Lined(W, S, st, sc, o, eos, handle, last) ==
    /\ eos # None /\ eos \notin S
    /\ IF handle = None THEN S = {} /\ eos \in {o, LOCKED_EMPTY} ELSE Top(S, st, handle)
    /\ Chained(S, st, sc, eos)
    /\ Chained(W \ S, st, sc, Base(eos, handle))
    /\ IF W \ S = {} THEN last = Base(eos, handle) ELSE Top(W \ S, st, last)

\* How often the waiters, and the threads op whose gate is open, have been
\* overtaken: by counts it, for each of them and each thread.
Overtaken(W, S, st, op, by) ==
    \A t, u \in Threads :
        /\ t \in W \ S => by[t][u] <= 1 /\ (u \in S \cup op => by[t][u] = 0)
        /\ t \in S =>
            by[t][u] <= 2 /\ (u \in op \/ (u \in S /\ st[t] < st[u]) => by[t][u] <= 1)
        /\ t \in op => by[t][u] <= 2

Elements == Threads \cup {None, LOCKED_EMPTY}

LEMMA NotThreads ==
  /\ None \notin Threads /\ LOCKED_EMPTY \notin Threads /\ LOCKED_EMPTY # None
  /\ untag(LOCKED_EMPTY) = None /\ untag(None) = None /\ \A t \in Threads : untag(t) = t
BY HookAssumption, TagAssumption DEF untag

\* A thread that arrives comes to lie on the others.
LEMMA ChainPush ==
  ASSUME NEW X \in SUBSET Threads, NEW st \in [Threads -> Nat], NEW clock \in Nat,
         NEW sc \in [Threads -> Elements], NEW sd \in [Threads -> Elements], NEW end \in Elements, NEW last, NEW t \in Threads, t \notin X,
         \A u \in X : st[u] < clock, \A u \in X : sd[u] = sc[u],
         sd[t] = untag(last), Chained(X, st, sc, end),
         IF X = {} THEN last = end ELSE Top(X, st, last)
  PROVE  /\ Chained(X \cup {t}, [st EXCEPT ![t] = clock], sd, end)
         /\ Top(X \cup {t}, [st EXCEPT ![t] = clock], t)
<1> DEFINE s == [st EXCEPT ![t] = clock]
<1>1. /\ s[t] = clock /\ \A u \in X : s[u] = st[u] /\ s[u] \in Nat /\ s[u] < clock
      /\ \A u \in X : u # t
  OBVIOUS
<1> HIDE DEF s
<1>2. Top(X \cup {t}, s, t)
  BY <1>1 DEF Top
<1>3. ASSUME NEW u \in X
      PROVE  Under(X \cup {t}, s, u, sd[u]) \/ (Bottom(X \cup {t}, s, u) /\ sd[u] = untag(end))
  <2>1. Under(X, st, u, sc[u]) \/ (Bottom(X, st, u) /\ sc[u] = untag(end))
    BY DEF Chained
  <2>2. CASE Under(X, st, u, sc[u])
    BY <1>1, <2>2 DEF Under
  <2>3. CASE Bottom(X, st, u) /\ sc[u] = untag(end)
    BY <1>1, <2>3 DEF Bottom
  <2>4. QED
    BY <2>1, <2>2, <2>3
<1>4. Under(X \cup {t}, s, t, sd[t]) \/ (Bottom(X \cup {t}, s, t) /\ sd[t] = untag(end))
  <2>1. CASE X = {}
    BY <1>1, <2>1 DEF Bottom
  <2>2. CASE X # {}
    <3>1. last \in X /\ \A w \in X : st[w] <= st[last]
      BY <2>2 DEF Top
    <3>2. sd[t] = last
      BY <3>1, NotThreads
    <3>3. QED
      BY <1>1, <3>1, <3>2 DEF Under
  <2>3. QED
    BY <2>1, <2>2
<1>5. QED
  BY <1>2, <1>3, <1>4 DEF Chained, s

\* Without the one on top, a stack begins with the successor of that one.
Stack(X, st, sc, end, h) ==
    /\ X \in SUBSET Threads /\ st \in [Threads -> Nat] /\ sc \in [Threads -> Elements]
    /\ Distinct(X, st)
    /\ end \in Elements /\ end \notin X
    /\ Top(X, st, h) /\ Chained(X, st, sc, end)

LEMMA TopIsAbove ==
  ASSUME NEW X \in SUBSET Threads, NEW st \in [Threads -> Nat], Distinct(X, st),
         NEW h, Top(X, st, h)
  PROVE  h \in X /\ h \in Threads /\ \A w \in X : w # h => st[w] < st[h]
BY DEF Top, Distinct

Popped(X, st, sc, end, h) ==
    /\ Chained(X \ {h}, st, sc, end)
    /\ sc[h] # h
    /\ Top(X \ {h}, st, sc[h]) \/ (X \ {h} = {} /\ sc[h] = untag(end))

LEMMA ChainPop ==
  ASSUME NEW X, NEW st, NEW sc, NEW end, NEW h, Stack(X, st, sc, end, h)
  PROVE  Popped(X, st, sc, end, h)
<1> USE DEF Stack, Popped
<1>1. h \in X /\ h \in Threads /\ \A w \in X : w # h => st[w] < st[h]
  BY TopIsAbove
<1>2. ASSUME NEW u \in X \ {h}
      PROVE  Under(X \ {h}, st, u, sc[u]) \/ (Bottom(X \ {h}, st, u) /\ sc[u] = untag(end))
  <2>1. Under(X, st, u, sc[u]) \/ (Bottom(X, st, u) /\ sc[u] = untag(end))
    BY DEF Chained
  <2>2. CASE Under(X, st, u, sc[u])
    BY <1>1, <2>2 DEF Under
  <2>3. CASE Bottom(X, st, u) /\ sc[u] = untag(end)
    BY <2>3 DEF Bottom
  <2>4. QED
    BY <2>1, <2>2, <2>3
<1>3. Under(X, st, h, sc[h]) \/ (Bottom(X, st, h) /\ sc[h] = untag(end))
  BY <1>1 DEF Chained
<1>4. CASE Under(X, st, h, sc[h])
  <2>1. sc[h] \in X \ {h}
    BY <1>4 DEF Under
  <2>2. Top(X \ {h}, st, sc[h])
    BY <1>1, <1>4, <2>1 DEF Top, Under
  <2>3. QED
    BY <1>2, <2>1, <2>2 DEF Chained
<1>5. CASE Bottom(X, st, h) /\ sc[h] = untag(end)
  <2>1. X \ {h} = {}
    BY <1>1, <1>5 DEF Bottom
  <2>2. untag(end) # h
    BY <1>1, NotThreads DEF untag
  <2>3. QED
    BY <1>2, <1>5, <2>1, <2>2 DEF Chained
<1>6. QED
  BY <1>3, <1>4, <1>5

----------------------------------------------------------------------------
(* The steps of a lock's waiters: one arrives, the handle's gate is        *)
(* opened, a segment is detached, the thread with the open gate goes on.   *)

Pushing(W, S, st, clock, sc, sd, o, eos, handle, last, t) ==
    /\ W \in SUBSET Threads /\ S \in SUBSET W /\ t \in Threads /\ t \notin W
    /\ st \in [Threads -> Nat] /\ clock \in Nat /\ eos \in Elements
    /\ sc \in [Threads -> Elements] /\ sd \in [Threads -> Elements]
    /\ \A u \in W : st[u] < clock /\ sd[u] = sc[u]
    /\ sd[t] = untag(last)
    /\ Lined(W, S, st, sc, o, eos, handle, last)

LEMMA LinedPush ==
  ASSUME NEW W, NEW S, NEW st, NEW clock, NEW sc, NEW sd, NEW o, NEW eos, NEW handle,
         NEW last, NEW t, Pushing(W, S, st, clock, sc, sd, o, eos, handle, last, t)
  PROVE  Lined(W \cup {t}, S, [st EXCEPT ![t] = clock], sd, o, eos, handle, t)
<1> USE DEF Pushing
<1> DEFINE s    == [st EXCEPT ![t] = clock]
           A    == W \ S
           base == Base(eos, handle)
<1>1. (W \cup {t}) \ S = A \cup {t} /\ A \in SUBSET Threads /\ t \notin A /\ S \subseteq Threads /\ base \in Elements
  BY DEF Base, Elements
<1>2. \A u \in S : s[u] = st[u]
  OBVIOUS
<1>3. Chained(A, st, sc, base) /\ IF A = {} THEN last = base ELSE Top(A, st, last)
  BY DEF Lined
<1>4. (\A u \in A : st[u] < clock) /\ (\A u \in A : sd[u] = sc[u])
  OBVIOUS
<1> HIDE DEF A, base
<1>5. Chained(A \cup {t}, s, sd, base) /\ Top(A \cup {t}, s, t)
  BY <1>1, <1>3, <1>4, ChainPush
<1>6. Chained(S, s, sd, eos)
  <2> HIDE DEF s
  <2>1. Chained(S, st, sc, eos) /\ \A u \in S : sd[u] = sc[u]
    BY DEF Lined
  <2>2. QED
    BY <1>2, <2>1 DEF Chained, Under, Bottom
<1>7. eos # None /\ eos \notin S /\ IF handle = None THEN S = {} /\ eos \in {o, LOCKED_EMPTY} ELSE Top(S, s, handle)
  <2> HIDE DEF s
  <2>1. QED
    BY <1>2 DEF Lined, Top
<1>8. A \cup {t} # {}
  OBVIOUS
<1>9. QED
  <2> HIDE DEF s
  <2>1. Lined(W \cup {t}, S, s, sd, o, eos, handle, t)
    BY <1>1, <1>5, <1>6, <1>7, <1>8 DEF Lined, base
  <2>2. QED
    BY <2>1 DEF s

\* What the opened gate makes of the context: Admitted(t), of any thread.
Passed(succ, eos) ==
    IF succ = eos THEN [succ |-> None, eos |-> LOCKED_EMPTY] ELSE [succ |-> succ, eos |-> eos]

Popping(W, S, st, sc, o, eos, h, last) ==
    /\ W \in SUBSET Threads /\ S \in SUBSET W /\ Distinct(W, st)
    /\ st \in [Threads -> Nat] /\ eos \in Elements /\ sc \in [Threads -> Elements]
    /\ h # None /\ Lined(W, S, st, sc, o, eos, h, last)

AfterPop(W, S, st, sc, eos, h, last) ==
    LET c == Passed(sc[h], eos)
    IN  /\ Top(S, st, h) /\ sc[h] # h /\ eos # h /\ eos # None
        /\ Lined(W \ {h}, S \ {h}, st, sc, h, c.eos, c.succ, last)

LEMMA LinedPop ==
  ASSUME NEW W, NEW S, NEW st, NEW sc, NEW o, NEW eos, NEW h, NEW last,
         Popping(W, S, st, sc, o, eos, h, last)
  PROVE  AfterPop(W, S, st, sc, eos, h, last)
<1> USE DEF Popping, AfterPop
<1> DEFINE c == Passed(sc[h], eos)
<1> SUFFICES /\ Top(S, st, h) /\ sc[h] # h /\ eos # h /\ eos # None
             /\ Lined(W \ {h}, S \ {h}, st, sc, h, c.eos, c.succ, last)
  OBVIOUS
<1>1. /\ eos # None /\ eos \notin S /\ Top(S, st, h) /\ Chained(S, st, sc, eos)
      /\ Chained(W \ S, st, sc, LOCKED_EMPTY)
      /\ IF W \ S = {} THEN last = LOCKED_EMPTY ELSE Top(W \ S, st, last)
  BY DEF Lined, Base
<1>2. Distinct(S, st) /\ S \in SUBSET Threads /\ h \in S /\ h \in Threads
  BY <1>1 DEF Distinct, Top
<1> DEFINE R == S \ {h}
<1>3. /\ Chained(R, st, sc, eos) /\ sc[h] # h
      /\ Top(R, st, sc[h]) \/ (R = {} /\ sc[h] = untag(eos))
  <2>1. Stack(S, st, sc, eos, h)
    BY <1>1, <1>2 DEF Stack
  <2>2. Popped(S, st, sc, eos, h)
    BY <2>1, ChainPop
  <2>3. QED
    BY <2>2 DEF Popped
<1>4. (W \ {h}) \ R = W \ S
  BY <1>2
<1> HIDE DEF R
<1>5. CASE Top(R, st, sc[h])
  <2>1. sc[h] \in S /\ sc[h] # eos /\ sc[h] # None
    BY <1>1, <1>2, <1>5, NotThreads DEF Top, R
  <2>2. c.succ = sc[h] /\ c.eos = eos
    BY <2>1 DEF Passed
  <2>3. eos \notin R
    BY <1>1 DEF R
  <2>4. Base(c.eos, c.succ) = LOCKED_EMPTY
    BY <2>1, <2>2 DEF Base
  <2>5. Lined(W \ {h}, R, st, sc, h, c.eos, c.succ, last)
    BY <1>1, <1>3, <1>4, <1>5, <2>1, <2>2, <2>3, <2>4 DEF Lined
  <2>6. QED
    BY <1>1, <1>2, <1>3, <2>5 DEF R
<1>6. CASE R = {} /\ sc[h] = untag(eos)
  <2>1. c.succ = None /\ c.eos = LOCKED_EMPTY
    <3>1. CASE eos = LOCKED_EMPTY
      BY <1>6, <3>1, NotThreads DEF Passed
    <3>2. CASE eos # LOCKED_EMPTY
      BY <1>6, <3>2 DEF Passed, untag
    <3>3. QED
      BY <3>1, <3>2
  <2>2. Base(c.eos, c.succ) = LOCKED_EMPTY
    BY <2>1 DEF Base
  <2>3. Chained(R, st, sc, c.eos)
    BY <1>6 DEF Chained
  <2>4. Lined(W \ {h}, R, st, sc, h, c.eos, c.succ, last)
    BY <1>1, <1>4, <1>6, <2>1, <2>2, <2>3, NotThreads DEF Lined
  <2>5. QED
    BY <1>1, <1>2, <1>3, <2>4 DEF R
<1>7. QED
  BY <1>3, <1>5, <1>6

Detaching(W, S, st, sc, o, eos, last) ==
    /\ W \in SUBSET Threads /\ W # {} /\ o \in Threads /\ o \notin W
    /\ Lined(W, S, st, sc, o, eos, None, last)

LEMMA LinedDetach ==
  ASSUME NEW W, NEW S, NEW st, NEW sc, NEW o, NEW eos, NEW last,
         Detaching(W, S, st, sc, o, eos, last)
  PROVE  /\ S = {} /\ last \in W
         /\ Lined(W, W, st, sc, o, eos, last, LOCKED_EMPTY)
<1> USE DEF Detaching
<1>1. S = {} /\ eos \in {o, LOCKED_EMPTY} /\ eos # None /\ Chained(W \ S, st, sc, Base(eos, None))
      /\ IF W \ S = {} THEN last = Base(eos, None) ELSE Top(W \ S, st, last)
  BY DEF Lined
<1>2. W \ S = W /\ W \ W = {} /\ Base(eos, None) = eos
  BY <1>1 DEF Base
<1>3. Top(W, st, last) /\ last \in W /\ last # None
  BY <1>1, <1>2, NotThreads DEF Top
<1>4. eos \notin W
  BY <1>1, NotThreads
<1>5. Base(eos, last) = LOCKED_EMPTY
  BY <1>3 DEF Base
<1>6. Chained({}, st, sc, LOCKED_EMPTY)
  BY DEF Chained
<1>7. QED
  BY <1>1, <1>2, <1>3, <1>4, <1>5, <1>6 DEF Lined

\* Only the successors of the waiters matter.
LEMMA LinedLinks ==
  ASSUME NEW W, NEW S, NEW st, NEW sc, NEW o, NEW eos, NEW handle, NEW last,
         Lined(W, S, st, sc, o, eos, handle, last), S \subseteq W,
         NEW sd, \A u \in W : sd[u] = sc[u]
  PROVE  Lined(W, S, st, sd, o, eos, handle, last)
<1>1. Chained(S, st, sd, eos) /\ Chained(W \ S, st, sd, Base(eos, handle))
  BY DEF Lined, Chained
<1>2. QED
  BY <1>1 DEF Lined

LEMMA OvertakenLater ==
  ASSUME NEW W \in SUBSET Threads, NEW S \in SUBSET W, NEW st \in [Threads -> Nat],
         NEW t \in Threads, NEW by \in [Threads -> [Threads -> Nat]],
         NEW by2 \in [Threads -> [Threads -> Nat]], t \notin W,
         Overtaken(W, S, st, {t}, by), \A u \in W : by2[u] = [by[u] EXCEPT ![t] = @ + 1]
  PROVE  Overtaken(W, S, st, {}, by2)
<1> SUFFICES ASSUME NEW u \in Threads, NEW v \in Threads, u \in W
             PROVE  /\ u \in W \ S => by2[u][v] <= 1 /\ (v \in S => by2[u][v] = 0)
                    /\ u \in S => by2[u][v] <= 2 /\ (v \in S /\ st[u] < st[v] => by2[u][v] <= 1)
  BY DEF Overtaken
<1>1. by[u] \in [Threads -> Nat] /\ by[u][v] \in Nat /\ by[u][t] \in Nat
  OBVIOUS
<1>2. by2[u][t] = by[u][t] + 1 /\ (v # t => by2[u][v] = by[u][v])
  BY <1>1
<1>3. /\ u \in W \ S => by[u][v] <= 1 /\ (v \in S => by[u][v] = 0) /\ by[u][t] = 0
      /\ u \in S => by[u][v] <= 2 /\ (v \in S /\ st[u] < st[v] => by[u][v] <= 1) /\ by[u][t] <= 1
  BY DEF Overtaken
<1>4. t \notin S
  OBVIOUS
<1>5. QED
  BY <1>1, <1>2, <1>3, <1>4

LEMMA OvertakenSteps ==
  ASSUME NEW W \in SUBSET Threads, NEW S \in SUBSET W, NEW st \in [Threads -> Nat],
         NEW op \in SUBSET Threads, NEW by \in [Threads -> [Threads -> Nat]],
         Overtaken(W, S, st, op, by)
  PROVE  /\ \A t \in Threads : \A c \in Nat :
              t \notin W /\ (\A u \in Threads : by[t][u] = 0) =>
                Overtaken(W \cup {t}, S, [st EXCEPT ![t] = c], op, by)
         /\ \A h : op = {} /\ Distinct(S, st) /\ Top(S, st, h) =>
              Overtaken(W \ {h}, S \ {h}, st, {h}, by)
         /\ S = {} /\ op = {} => Overtaken(W, W, st, {}, by)
<1>1. ASSUME NEW t \in Threads, NEW c \in Nat, t \notin W, \A u \in Threads : by[t][u] = 0
      PROVE  Overtaken(W \cup {t}, S, [st EXCEPT ![t] = c], op, by)
  <2> DEFINE s == [st EXCEPT ![t] = c]
  <2>1. \A u \in W : s[u] = st[u]
    BY <1>1
  <2> HIDE DEF s
  <2>2. Overtaken(W \cup {t}, S, s, op, by)
    BY <1>1, <2>1 DEF Overtaken
  <2>3. QED
    BY <2>2 DEF s
<1>2. ASSUME NEW h, op = {}, Distinct(S, st), Top(S, st, h)
      PROVE  Overtaken(W \ {h}, S \ {h}, st, {h}, by)
  <2>1. h \in S /\ h \in Threads /\ \A w \in S : w # h => st[w] < st[h]
    <3>1. S \in SUBSET Threads
      OBVIOUS
    <3>2. QED
      BY <1>2, <3>1, TopIsAbove
  <2> SUFFICES ASSUME NEW t \in Threads, NEW u \in Threads
               PROVE  /\ t \in W \ S =>
                            by[t][u] <= 1 /\ (u \in (S \ {h}) \cup {h} => by[t][u] = 0)
                      /\ t \in S \ {h} =>
                            by[t][u] <= 2 /\ (u = h \/ (u \in S \ {h} /\ st[t] < st[u]) => by[t][u] <= 1)
                      /\ t = h => by[t][u] <= 2
    BY <2>1 DEF Overtaken
  <2>2. /\ t \in W \ S => by[t][u] <= 1 /\ (u \in S => by[t][u] = 0)
        /\ t \in S => by[t][u] <= 2 /\ (u \in S /\ st[t] < st[u] => by[t][u] <= 1)
    BY <1>2 DEF Overtaken
  <2>3. QED
    BY <2>1, <2>2
<1>3. ASSUME S = {}, op = {}
      PROVE  Overtaken(W, W, st, {}, by)
  BY <1>3 DEF Overtaken
<1>4. QED
  BY <1>1, <1>2, <1>3

----------------------------------------------------------------------------
(* The inductive invariant.                                                *)

Looking   == {"ensure", "try_ensure"}
Creating  == {"create", "try_create"}
Trying    == {"try", "trylock", "arrive"}
Waiting   == {"wait"}
Releasing == {"release", "detach", "grant"}
Labels    == {"idle"} \cup Looking \cup Creating \cup Trying \cup Waiting \cup Releasing

Contexts == [succ : Threads \cup {None}, eos : Elements]

HookTypes ==
    /\ pc \in [Threads -> Labels]
    /\ target \in [Threads -> Locks \cup {None}]
    /\ \A t \in Threads : pc[t] = "idle" <=> target[t] = None
    /\ held \in [Threads -> SUBSET Locks]
    /\ cell \in [Locks -> {"zero", "SENTINEL", "state"}]

RecipTypes ==
    /\ arv \in [Locks -> Elements]
    /\ gate \in [Threads -> Elements]
    /\ context \in [Threads -> [Locks -> Contexts]]
    /\ waiter \in [Threads -> Elements]
    /\ bypass \in [Threads -> [Threads -> Nat]]

\* Between the claim of a mutex and the store of its state there is one
\* creator, and whoever uses or holds the mutex finds a state behind it.
OneState ==
    /\ \A t \in Threads : pc[t] \in Creating => cell[target[t]] = "SENTINEL"
    /\ \A t, u \in Threads :
        pc[t] \in Creating /\ pc[u] \in Creating /\ target[t] = target[u] => t = u
    /\ \A t \in Threads : pc[t] \in Trying \cup Waiting \cup Releasing => cell[target[t]] = "state"
    /\ \A t \in Threads : \A l \in held[t] : cell[l] = "state"

\* A release is of a held lock, a request is not.
Nesting ==
    \A t \in Threads :
        /\ pc[t] \in Releasing => target[t] \in held[t]
        /\ pc[t] \in Looking \cup Creating \cup Trying \cup Waiting => target[t] \notin held[t]

\* Who does not wait has been overtaken by nobody.
Rested == \A t, u \in Threads : pc[t] # "wait" => bypass[t][u] = 0

Waits(t, l) == pc[t] = "wait" /\ target[t] = l
Shut(l)     == {t \in Threads : Waits(t, l) /\ gate[t] = None}
Opened(l)   == {t \in Threads : Waits(t, l) /\ gate[t] # None}

\* The lock is t's, or t will have it without another thread's doing.
Owns(t, l) == l \in held[t] \/ t \in Opened(l)

\* What the owner t knows of the waiters: its context, or the one it will have,
\* and the thread whose gate it is going to open.
ContextOf(t, l) ==
    IF l \in held[t] THEN context[t][l] ELSE Passed(context[t][l].succ, gate[t])

At(t, l, label) == pc[t] = label /\ target[t] = l

Handle(t, l) == IF At(t, l, "grant") THEN waiter[t] ELSE ContextOf(t, l).succ

Links(l) == [t \in Threads |-> context[t][l].succ]

Owned(l) ==
    /\ arv[l] = None => \A t \in Threads : ~Owns(t, l) /\ ~Waits(t, l)
    /\ arv[l] # None => \E o \in Threads : Owns(o, l)
    /\ \A o, p \in Threads : Owns(o, l) /\ Owns(p, l) => o = p
    /\ \A o \in Threads :
        /\ At(o, l, "detach") => l \in held[o] /\ context[o][l].succ = None /\ Shut(l) # {}
        /\ At(o, l, "grant") => waiter[o] # None
        /\ o \in Opened(l) => context[o][l].succ # o /\ gate[o] # o

\* S is the detached segment of l, st are the stamps of who waits for l.
Arranged(l, S, st, clock) ==
    /\ S \subseteq Shut(l) /\ Distinct(Shut(l), st)
    /\ \A t \in Shut(l) : st[t] < clock
    /\ \A o \in Threads : Owns(o, l) =>
        Lined(Shut(l), S, st, Links(l), o, ContextOf(o, l).eos, Handle(o, l), arv[l])
    /\ Overtaken(Shut(l), S, st, Opened(l), bypass)

Ordered(l) ==
    \E S \in SUBSET Threads, st \in [Threads -> Nat], clock \in Nat : Arranged(l, S, st, clock)

Served == \A l \in Locks : Owned(l) /\ Ordered(l)

IInv == HookTypes /\ RecipTypes /\ OneState /\ Nesting /\ Rested /\ Served

----------------------------------------------------------------------------
LEMMA LabelSets ==
  /\ "idle" \in Labels /\ Looking \subseteq Labels /\ Creating \subseteq Labels
  /\ Trying \subseteq Labels /\ Waiting \subseteq Labels /\ Releasing \subseteq Labels
  /\ "idle" \notin Looking \cup Creating \cup Trying \cup Waiting \cup Releasing
  /\ \A x \in Looking : x \notin Creating \cup Trying \cup Waiting \cup Releasing
  /\ \A x \in Creating : x \notin Looking \cup Trying \cup Waiting \cup Releasing
  /\ \A x \in Trying : x \notin Looking \cup Creating \cup Waiting \cup Releasing
  /\ \A x \in Waiting : x \notin Looking \cup Creating \cup Trying \cup Releasing
  /\ \A x \in Releasing : x \notin Looking \cup Creating \cup Trying \cup Waiting
  /\ \A x \in Labels : x # "idle" =>
        x \in Looking \cup Creating \cup Trying \cup Waiting \cup Releasing
  /\ {"try", "trylock", "arrive"} \subseteq Trying
  /\ "wait" \in Waiting /\ {"release", "detach", "grant"} \subseteq Releasing
BY DEF Labels, Looking, Creating, Trying, Waiting, Releasing

LEMMA CallLabels ==
  \A call \in DOMAIN LooksAt :
      LooksAt[call] \in Looking /\ CreatesAt[call] \in Creating /\ call \in Trying \ {"arrive"}
<1>1. DOMAIN LooksAt = {"try", "trylock"}
  BY DEF LooksAt
<1>2. LooksAt["try"] \in Looking /\ CreatesAt["try"] \in Creating /\ "try" \in Trying \ {"arrive"}
  BY DEF LooksAt, CreatesAt, Looking, Creating, Trying
<1>3. LooksAt["trylock"] \in Looking /\ CreatesAt["trylock"] \in Creating /\ "trylock" \in Trying \ {"arrive"}
  BY DEF LooksAt, CreatesAt, Looking, Creating, Trying
<1>4. QED
  BY <1>1, <1>2, <1>3

\* Only t moves, the cells stay, and t is where it may be.
Moves(t) ==
    /\ cell' = cell
    /\ pc' \in [Threads -> Labels] /\ target' \in [Threads -> Locks \cup {None}]
    /\ held' \in [Threads -> SUBSET Locks]
    /\ \A u \in Threads : u # t => pc'[u] = pc[u] /\ target'[u] = target[u] /\ held'[u] = held[u]
    /\ pc'[t] = "idle" <=> target'[t] = None
    /\ pc'[t] \notin Creating
    /\ pc'[t] \in Trying \cup Waiting \cup Releasing => cell[target'[t]] = "state"
    /\ \A l \in held'[t] : cell[l] = "state"
    /\ pc'[t] \in Releasing => target'[t] \in held'[t]
    /\ pc'[t] \in Looking \cup Trying \cup Waiting => target'[t] \notin held'[t]

LEMMA Moved ==
  ASSUME IInv, NEW t \in Threads, Moves(t)
  PROVE  HookTypes' /\ OneState' /\ Nesting'
<1>1. HookTypes'
  BY DEF IInv, HookTypes, Moves
<1>2. OneState'
  BY DEF IInv, OneState, Moves
<1>3. Nesting'
  BY DEF IInv, Nesting, Moves
<1>4. QED
  BY <1>1, <1>2, <1>3

----------------------------------------------------------------------------
(* Locks that a step does not concern.                                     *)

SameOrder(l) ==
    /\ arv'[l] = arv[l]
    /\ \A t \in Threads :
        /\ Waits(t, l)' <=> Waits(t, l)
        /\ Waits(t, l) => gate'[t] = gate[t] /\ bypass'[t] = bypass[t]
        /\ l \in held'[t] <=> l \in held[t]
        /\ context'[t][l] = context[t][l]
        /\ At(t, l, "grant")' <=> At(t, l, "grant")
        /\ At(t, l, "grant") => waiter'[t] = waiter[t]

Same(l) == SameOrder(l) /\ \A t \in Threads : At(t, l, "detach")' => At(t, l, "detach")

LEMMA SameView ==
  ASSUME NEW l \in Locks, SameOrder(l)
  PROVE  /\ Shut(l)' = Shut(l) /\ Opened(l)' = Opened(l) /\ Links(l)' = Links(l)
         /\ \A t \in Threads : Owns(t, l)' <=> Owns(t, l)
         /\ \A t \in Threads : Owns(t, l) => ContextOf(t, l)' = ContextOf(t, l)
                                              /\ Handle(t, l)' = Handle(t, l)
<1>1. Shut(l)' = Shut(l)
  BY DEF SameOrder, Shut
<1>2. Opened(l)' = Opened(l)
  BY DEF SameOrder, Opened
<1>3. Links(l)' = Links(l)
  BY DEF SameOrder, Links
<1>4. \A t \in Threads : Owns(t, l)' <=> Owns(t, l)
  BY <1>2 DEF SameOrder, Owns
<1>5. ASSUME NEW t \in Threads, Owns(t, l)
      PROVE  ContextOf(t, l)' = ContextOf(t, l) /\ Handle(t, l)' = Handle(t, l)
  <2>1. ContextOf(t, l)' = ContextOf(t, l)
    <3>1. CASE l \in held[t]
      BY <3>1 DEF SameOrder, ContextOf
    <3>2. CASE l \notin held[t]
      <4>1. gate'[t] = gate[t]
        BY <1>5, <3>2 DEF SameOrder, Owns, Opened
      <4>2. QED
        BY <3>2, <4>1 DEF SameOrder, ContextOf
    <3>3. QED
      BY <3>1, <3>2
  <2>2. Handle(t, l)' = Handle(t, l)
    BY <2>1 DEF SameOrder, Handle
  <2>3. QED
    BY <2>1, <2>2
<1>6. QED
  BY <1>1, <1>2, <1>3, <1>4, <1>5

LEMMA OwnedSame ==
  ASSUME NEW l \in Locks, Same(l), Owned(l)
  PROVE  Owned(l)'
<1>1. /\ Shut(l)' = Shut(l) /\ Opened(l)' = Opened(l)
      /\ \A t \in Threads : Owns(t, l)' <=> Owns(t, l)
      BY SameView DEF Same
<1>2. arv'[l] = None => \A t \in Threads : ~Owns(t, l)' /\ ~Waits(t, l)'
  BY <1>1 DEF Owned, Same, SameOrder
<1>3. arv'[l] # None => \E o \in Threads : Owns(o, l)'
  BY <1>1 DEF Owned, Same, SameOrder
<1>4. \A o, p \in Threads : Owns(o, l)' /\ Owns(p, l)' => o = p
  BY <1>1 DEF Owned
<1>5. ASSUME NEW o \in Threads
      PROVE  /\ At(o, l, "detach")' => l \in held'[o] /\ context'[o][l].succ = None /\ Shut(l)' # {}
             /\ At(o, l, "grant")' => waiter'[o] # None
             /\ o \in Opened(l)' => context'[o][l].succ # o /\ gate'[o] # o
  <2>1. At(o, l, "detach")' => l \in held'[o] /\ context'[o][l].succ = None /\ Shut(l)' # {}
    BY <1>1 DEF Owned, Same, SameOrder
  <2>2. At(o, l, "grant")' => waiter'[o] # None
    BY DEF Owned, Same, SameOrder
  <2>3. o \in Opened(l)' => context'[o][l].succ # o /\ gate'[o] # o
    BY <1>1 DEF Owned, Same, SameOrder, Opened
  <2>4. QED
    BY <2>1, <2>2, <2>3
<1>6. QED
  BY <1>2, <1>3, <1>4, <1>5 DEF Owned

LEMMA OrderedSame ==
  ASSUME NEW l \in Locks, SameOrder(l), Ordered(l)
  PROVE  Ordered(l)'
<1>1. PICK S \in SUBSET Threads, st \in [Threads -> Nat], clock \in Nat : Arranged(l, S, st, clock)
  BY DEF Ordered
<1>2. /\ Shut(l)' = Shut(l) /\ Opened(l)' = Opened(l) /\ Links(l)' = Links(l)
      /\ \A t \in Threads : Owns(t, l)' <=> Owns(t, l)
      /\ \A t \in Threads : Owns(t, l) => ContextOf(t, l)' = ContextOf(t, l)
                                           /\ Handle(t, l)' = Handle(t, l)
  BY SameView
<1>3. \A o \in Threads : Owns(o, l)' =>
        Lined(Shut(l)', S, st, Links(l)', o, ContextOf(o, l)'.eos, Handle(o, l)', arv'[l])
  BY <1>1, <1>2 DEF Arranged, SameOrder
<1>4. Overtaken(Shut(l)', S, st, Opened(l)', bypass')
  <2>1. Overtaken(Shut(l), S, st, Opened(l), bypass)
    BY <1>1 DEF Arranged
  <2>2. \A t \in Shut(l) \cup Opened(l) : bypass'[t] = bypass[t]
    BY DEF SameOrder, Shut, Opened
  <2>3. S \subseteq Shut(l)
    BY <1>1 DEF Arranged
  <2>4. Overtaken(Shut(l), S, st, Opened(l), bypass')
    BY <2>1, <2>2, <2>3 DEF Overtaken
  <2>5. QED
    BY <1>2, <2>4
<1>5. Arranged(l, S, st, clock)'
  BY <1>1, <1>2, <1>3, <1>4 DEF Arranged
<1>6. QED
  BY <1>5 DEF Ordered

\* The step of t concerns no lock but l.
Away(t, l) ==
    /\ target[t] \in {l, None} /\ target'[t] \in {l, None}
    /\ \A u \in Threads : u # t =>
        pc'[u] = pc[u] /\ target'[u] = target[u] /\ held'[u] = held[u]
          /\ context'[u] = context[u] /\ waiter'[u] = waiter[u]
    /\ \A k \in Locks : k # l =>
        /\ arv'[k] = arv[k] /\ context'[t][k] = context[t][k]
        /\ k \in held'[t] <=> k \in held[t]
        /\ \A u \in Threads : Waits(u, k) => gate'[u] = gate[u] /\ bypass'[u] = bypass[u]

LEMMA SameElsewhere ==
  ASSUME NEW t \in Threads, NEW l \in Locks, Away(t, l), NEW k \in Locks, k # l
  PROVE  Same(k)
<1>1. target[t] # k /\ target'[t] # k
  BY HookAssumption DEF Away
<1>2. arv'[k] = arv[k]
  BY DEF Away
<1>3. ASSUME NEW u \in Threads
      PROVE  /\ Waits(u, k)' <=> Waits(u, k)
             /\ Waits(u, k) => gate'[u] = gate[u] /\ bypass'[u] = bypass[u]
             /\ k \in held'[u] <=> k \in held[u]
             /\ context'[u][k] = context[u][k]
             /\ At(u, k, "detach")' => At(u, k, "detach")
             /\ At(u, k, "grant")' <=> At(u, k, "grant")
             /\ At(u, k, "grant") => waiter'[u] = waiter[u]
  <2>1. CASE u = t
    BY <1>1, <2>1 DEF Away, Waits, At
  <2>2. CASE u # t
    BY <2>2 DEF Away, Waits, At
  <2>3. QED
    BY <2>1, <2>2
<1>4. QED
  BY <1>2, <1>3 DEF Same, SameOrder

LEMMA ServedBut ==
  ASSUME IInv, NEW t \in Threads, NEW l \in Locks, Away(t, l), Owned(l)', Ordered(l)'
  PROVE  Served'
<1>1. ASSUME NEW k \in Locks, k # l
      PROVE  Owned(k)' /\ Ordered(k)'
  BY <1>1, SameElsewhere, OwnedSame, OrderedSame DEF IInv, Served, Same
<1>2. QED
  BY <1>1 DEF Served

LEMMA ServedSame ==
  ASSUME IInv, \A l \in Locks : Same(l)
  PROVE  Served'
BY OwnedSame, OrderedSame DEF IInv, Served, Same

\* What a thread that obtains its lock changes.
Obtained(t, l, c) ==
    /\ Moves(t) /\ pc'[t] = "idle" /\ target'[t] = None /\ held'[t] = held[t] \cup {l}
    /\ context' \in [Threads -> [Locks -> Contexts]] /\ context'[t][l] = c
    /\ \A k \in Locks : k # l => context'[t][k] = context[t][k]
    /\ \A u \in Threads : u # t => context'[u] = context[u]
    /\ bypass' \in [Threads -> [Threads -> Nat]]
    /\ \A v \in Threads : bypass'[t][v] = 0
    /\ \A u \in Threads : u # t /\ ~Waits(u, l) => bypass'[u] = bypass[u]
    /\ \A u \in Threads : u # t /\ Waits(u, l) => bypass'[u] = [bypass[u] EXCEPT ![t] = @ + 1]

LEMMA Obtains ==
  ASSUME IInv, NEW t \in Threads, NEW l \in Locks, At(t, l, pc[t]),
         pc[t] \in Trying \cup Waiting, pc' = [pc EXCEPT ![t] = "idle"],
         NEW c \in Contexts, ObtainWith(t, c)
  PROVE  Obtained(t, l, c)
<1>1. target[t] = l /\ cell[l] = "state"
  BY DEF At, IInv, OneState
<1>2. /\ held' = [held EXCEPT ![t] = @ \cup {l}] /\ target' = [target EXCEPT ![t] = None]
      /\ cell' = cell
  BY <1>1 DEF ObtainWith, Obtain
<1>3. Moves(t) /\ pc'[t] = "idle" /\ target'[t] = None /\ held'[t] = held[t] \cup {l}
  <2>1. "idle" \in Labels /\ "idle" \notin Looking \cup Creating \cup Trying \cup Waiting \cup Releasing
    BY LabelSets
  <2>2. \A k \in held[t] : cell[k] = "state"
    BY DEF IInv, OneState
  <2>3. QED
    BY <1>1, <1>2, <2>1, <2>2 DEF Moves, IInv, HookTypes
<1>4. context' = [context EXCEPT ![t][l] = c] /\ context \in [Threads -> [Locks -> Contexts]]
  BY <1>1 DEF ObtainWith, IInv, RecipTypes
<1>5. /\ context' \in [Threads -> [Locks -> Contexts]] /\ context'[t][l] = c
      /\ \A k \in Locks : k # l => context'[t][k] = context[t][k]
      /\ \A u \in Threads : u # t => context'[u] = context[u]
  BY <1>4
<1>6. bypass \in [Threads -> [Threads -> Nat]]
  BY DEF IInv, RecipTypes
<1>7. bypass' = [u \in Threads |->
            IF u = t THEN [v \in Threads |-> 0]
            ELSE IF Waits(u, l)
                 THEN [bypass[u] EXCEPT ![t] = @ + 1] ELSE bypass[u]]
  BY <1>1 DEF ObtainWith, Waits
<1>8. \A v \in Threads : bypass'[t][v] = 0
  BY <1>7
<1>9. /\ \A u \in Threads : u # t /\ ~Waits(u, l) => bypass'[u] = bypass[u]
      /\ \A u \in Threads : u # t /\ Waits(u, l) => bypass'[u] = [bypass[u] EXCEPT ![t] = @ + 1]
  BY <1>7
<1>10. bypass' \in [Threads -> [Threads -> Nat]]
  <2>1. \A u \in Threads : bypass'[u] \in [Threads -> Nat]
    <3> SUFFICES ASSUME NEW u \in Threads
                 PROVE  bypass'[u] \in [Threads -> Nat]
      OBVIOUS
    <3>1. bypass[u] \in [Threads -> Nat] /\ bypass[u][t] + 1 \in Nat
      BY <1>6
    <3>2. [bypass[u] EXCEPT ![t] = @ + 1] \in [Threads -> Nat] /\ [v \in Threads |-> 0] \in [Threads -> Nat]
      BY <3>1
    <3>3. CASE u = t
      BY <1>7, <3>2, <3>3
    <3>4. CASE u # t
      BY <1>9, <3>1, <3>2, <3>4
    <3>5. QED
      BY <3>3, <3>4
  <2>2. QED
    BY <1>7, <2>1
<1>11. QED
  BY <1>3, <1>5, <1>8, <1>9, <1>10 DEF Obtained

----------------------------------------------------------------------------
(* The steps.                                                              *)

LEMMA Typed ==
  ASSUME IInv, NEW t \in Threads
  PROVE  /\ pc[t] \in Labels /\ gate \in [Threads -> Elements] /\ waiter \in [Threads -> Elements]
         /\ pc[t] # "idle" => target[t] \in Locks
         /\ arv \in [Locks -> Elements] /\ context \in [Threads -> [Locks -> Contexts]]
         /\ bypass \in [Threads -> [Threads -> Nat]]
         /\ None \in Elements /\ LOCKED_EMPTY \in Elements /\ t \in Elements
         /\ "idle" \notin Trying \cup Waiting \cup Releasing
         /\ None \notin Locks
BY LabelSets, HookAssumption DEF IInv, HookTypes, RecipTypes, Elements

\* A free lock is the thread's that finds it so, alone.
LEMMA TakeFree ==
  ASSUME IInv, NEW t \in Threads, NEW l \in Locks, At(t, l, pc[t]), pc[t] \in Trying,
         arv[l] = None, pc' = [pc EXCEPT ![t] = "idle"], arv' = [arv EXCEPT ![l] = t],
         ResetGate(t), ObtainWith(t, [succ |-> None, eos |-> t]), UNCHANGED waiter
  PROVE  IInv'
<1> DEFINE c == [succ |-> None, eos |-> t]
<1>1. c \in Contexts
  BY Typed DEF Contexts
<1>2. Obtained(t, l, c)
  BY <1>1, Obtains
<1> HIDE DEF c
<1>3. \A u \in Threads : ~Owns(u, l) /\ ~Waits(u, l)
  BY DEF IInv, Served, Owned
<1>4. /\ arv' \in [Locks -> Elements] /\ arv'[l] = t /\ \A k \in Locks : k # l => arv'[k] = arv[k]
      /\ gate' \in [Threads -> Elements] /\ \A u \in Threads : u # t => gate'[u] = gate[u]
      /\ target[t] = l /\ pc[t] # "wait"
  BY Typed, LabelSets DEF ResetGate, At
<1>5. HookTypes' /\ OneState' /\ Nesting'
  BY <1>2, Moved DEF Obtained
<1>6. RecipTypes'
  BY <1>2, <1>4, Typed DEF RecipTypes, Obtained
<1>7. Rested'
  BY <1>2, <1>3 DEF Rested, IInv, Moves, Waits, Obtained
<1>8. Away(t, l)
  <2>1. \A k \in Locks : \A u \in Threads : k # l /\ Waits(u, k) => u # t /\ ~Waits(u, l)
    BY <1>4 DEF Waits
  <2>2. QED
    BY <1>2, <1>3, <1>4, <2>1 DEF Away, Moves, Obtained
<1>9. /\ \A u \in Threads : ~Waits(u, l)' /\ (l \in held'[u] <=> u = t)
      /\ \A u \in Threads : ~At(u, l, "detach")' /\ (At(u, l, "grant")' => At(u, l, "grant") /\ u # t)
  <2>1. None # l
    BY Typed
  <2>2. \A u \in Threads : At(u, l, "detach") => l \in held[u]
    BY DEF IInv, Served, Owned
  <2>3. QED
    BY <1>2, <1>3, <2>1, <2>2 DEF Waits, At, Moves, Owns, Obtained
<1>10. Shut(l)' = {} /\ Opened(l)' = {} /\ \A u \in Threads : Owns(u, l)' <=> u = t
  BY <1>9 DEF Shut, Opened, Owns
<1>11. Owned(l)'
  <2>1. t # None
    BY HookAssumption
  <2>2. \A o \in Threads : At(o, l, "grant")' => waiter'[o] # None
    BY <1>9 DEF IInv, Served, Owned
  <2>3. QED
    BY <1>4, <1>9, <1>10, <2>1, <2>2 DEF Owned
<1>12. Ordered(l)'
  <2>1. ContextOf(t, l)' = c /\ Handle(t, l)' = None
    BY <1>2, <1>9 DEF ContextOf, Handle, Obtained, c
  <2>2. \A st, sc : Lined({}, {}, st, sc, t, t, None, t)
    BY HookAssumption DEF Lined, Chained, Base
  <2>3. \A st, by : Overtaken({}, {}, st, {}, by)
    BY DEF Overtaken
  <2>4. PICK st \in [Threads -> Nat] : st = [u \in Threads |-> 0]
    OBVIOUS
  <2>5. Arranged(l, {}, st, 0)'
    BY <1>4, <1>10, <2>1, <2>2, <2>3 DEF Arranged, Distinct, c
  <2>6. QED
    BY <2>5 DEF Ordered
<1>13. QED
  BY <1>5, <1>6, <1>7, <1>8, <1>11, <1>12, ServedBut DEF IInv

\* A thread that finds the lock taken lies down on the arrivals, on which it
\* has overtaken and been overtaken by nobody.
LEMMA ArriveBehind ==
  ASSUME IInv, NEW t \in Threads, NEW l \in Locks, At(t, l, "arrive"), arv[l] # None,
         pc' = [pc EXCEPT ![t] = "wait"], arv' = [arv EXCEPT ![l] = t], ResetGate(t),
         context' = [context EXCEPT ![t][l] = [succ |-> untag(arv[l]), eos |-> t]],
         UNCHANGED <<cell, word, target, held, bypass, waiter>>
  PROVE  IInv'
<1> DEFINE c == [succ |-> untag(arv[l]), eos |-> t]
           W == Shut(l)
<1>1. c \in Contexts
  BY Typed DEF Contexts, untag, Elements
<1>2. /\ pc[t] = "arrive" /\ target[t] = l /\ cell[l] = "state" /\ l \notin held[t]
      /\ pc[t] \notin Waiting /\ "wait" \in Waiting /\ "wait" \in Labels
      /\ "wait" \notin {"idle"} \cup Creating \cup Releasing /\ "wait" # "idle"
  BY LabelSets DEF At, IInv, OneState, Nesting
<1>3. /\ pc'[t] = "wait" /\ \A u \in Threads : u # t => pc'[u] = pc[u]
      /\ arv' \in [Locks -> Elements] /\ arv'[l] = t /\ \A k \in Locks : k # l => arv'[k] = arv[k]
      /\ gate' \in [Threads -> Elements] /\ gate'[t] = None
      /\ \A u \in Threads : u # t => gate'[u] = gate[u]
  BY Typed DEF ResetGate, IInv, HookTypes
<1>4. /\ context' \in [Threads -> [Locks -> Contexts]] /\ context'[t][l] = c
      /\ \A k \in Locks : k # l => context'[t][k] = context[t][k]
      /\ \A u \in Threads : u # t => context'[u] = context[u]
  BY <1>1, Typed
<1> HIDE DEF c, W
<1>5. Moves(t)
  <2>1. \A k \in held[t] : cell[k] = "state"
    BY DEF IInv, OneState
  <2>2. QED
    BY <1>2, <1>3, <2>1 DEF Moves, IInv, HookTypes
<1>6. HookTypes' /\ OneState' /\ Nesting'
  BY <1>5, Moved
<1>7. RecipTypes'
  BY <1>3, <1>4, Typed DEF RecipTypes
<1>8. Rested'
  BY <1>2, <1>3 DEF Rested, IInv
<1>9. Away(t, l)
  <2>1. \A k \in Locks : \A u \in Threads : Waits(u, k) => u # t
    BY <1>2 DEF Waits
  <2>2. QED
    BY <1>2, <1>3, <1>4, <2>1 DEF Away
<1>10. /\ \A u \in Threads : Waits(u, l)' <=> Waits(u, l) \/ u = t
       /\ ~Waits(t, l)
  BY <1>2, <1>3 DEF Waits
<1>11. Shut(l)' = W \cup {t} /\ Opened(l)' = Opened(l) /\ t \notin W /\ t \notin Opened(l)
  BY <1>3, <1>10 DEF Shut, Opened, W
<1>12. /\ \A u \in Threads : Owns(u, l)' <=> Owns(u, l)
       /\ ~Owns(t, l)
  BY <1>2, <1>11 DEF Owns
<1>13. \A u \in Threads : \A x \in {"detach", "grant"} : At(u, l, x)' <=> At(u, l, x)
  BY <1>2, <1>3 DEF At
<1>14. Owned(l)'
  <2>1. t # None
    BY HookAssumption
  <2>2. \A o \in Threads :
          /\ At(o, l, "detach") => l \in held[o] /\ context[o][l].succ = None
          /\ At(o, l, "grant") => waiter[o] # None
          /\ o \in Opened(l) => context[o][l].succ # o /\ gate[o] # o
    BY DEF IInv, Served, Owned
  <2>3. \A o \in Threads :
          /\ At(o, l, "detach")' => l \in held'[o] /\ context'[o][l].succ = None /\ Shut(l)' # {}
          /\ At(o, l, "grant")' => waiter'[o] # None
          /\ o \in Opened(l)' => context'[o][l].succ # o /\ gate'[o] # o
    BY <1>2, <1>3, <1>4, <1>11, <1>13, <2>2
  <2>4. (\E o \in Threads : Owns(o, l)') /\ \A o, p \in Threads : Owns(o, l)' /\ Owns(p, l)' => o = p
    BY <1>12 DEF IInv, Served, Owned
  <2>5. QED
    BY <1>3, <2>1, <2>3, <2>4 DEF Owned
<1>15. Ordered(l)'
  <2>1. PICK S \in SUBSET Threads, st \in [Threads -> Nat], clock \in Nat : Arranged(l, S, st, clock)
    BY DEF IInv, Served, Ordered
  <2> DEFINE s == [st EXCEPT ![t] = clock]
  <2>2. /\ s \in [Threads -> Nat] /\ s[t] = clock /\ \A u \in Threads : u # t => s[u] = st[u]
        /\ W \subseteq Threads /\ S \subseteq W
    BY <2>1 DEF Arranged, W, Shut
  <2>3. ASSUME NEW o \in Threads, Owns(o, l)'
        PROVE  Lined(Shut(l)', S, s, Links(l)', o, ContextOf(o, l)'.eos, Handle(o, l)', arv'[l])
    <3>1. Owns(o, l) /\ o # t
      BY <1>12, <2>3
    <3>2. ContextOf(o, l)' = ContextOf(o, l) /\ Handle(o, l)' = Handle(o, l)
      BY <1>3, <1>4, <1>13, <3>1 DEF ContextOf, Handle
    <3>3. PICK eos \in Elements : eos = ContextOf(o, l).eos
      BY Typed DEF ContextOf, Passed, Contexts
    <3>4. PICK h : h = Handle(o, l)
      OBVIOUS
    <3>5. Pushing(W, S, st, clock, Links(l), Links(l)', o, eos, h, arv[l], t)
      <4>1. Links(l) \in [Threads -> Elements] /\ Links(l)' \in [Threads -> Elements]
        BY <1>4, Typed DEF Links, Contexts, Elements
      <4>2. Links(l)'[t] = untag(arv[l]) /\ \A u \in W : Links(l)'[u] = Links(l)[u]
        BY <1>4, <1>11, <2>2 DEF Links, c
      <4>3. Lined(W, S, st, Links(l), o, eos, h, arv[l]) /\ \A u \in W : st[u] < clock
        BY <2>1, <3>1, <3>3, <3>4 DEF Arranged, W
      <4>4. QED
        BY <1>11, <2>2, <4>1, <4>2, <4>3 DEF Pushing
    <3>6. Lined(W \cup {t}, S, s, Links(l)', o, eos, h, t)
      BY <3>5, LinedPush
    <3>7. QED
      BY <1>3, <1>11, <3>2, <3>3, <3>4, <3>6
  <2>4. Overtaken(W \cup {t}, S, s, Opened(l), bypass)
    <3>1. Overtaken(W, S, st, Opened(l), bypass) /\ Opened(l) \in SUBSET Threads
      BY <2>1 DEF Arranged, W, Opened
    <3>2. \A u \in Threads : bypass[t][u] = 0
      BY <1>2 DEF IInv, Rested
    <3>3. QED
      BY <1>11, <2>2, <3>1, <3>2, OvertakenSteps, Typed
  <2>5. Distinct(W \cup {t}, s) /\ \A u \in W \cup {t} : s[u] < clock + 1
    <3>1. Distinct(W, st) /\ \A u \in W : st[u] < clock
      BY <2>1 DEF Arranged, W
    <3>2. QED
      BY <1>11, <2>2, <3>1 DEF Distinct
  <2> HIDE DEF s
  <2>6. Arranged(l, S, s, clock + 1)'
    BY <1>11, <2>2, <2>3, <2>4, <2>5 DEF Arranged
  <2>7. QED
    BY <2>2, <2>6 DEF Ordered
<1>16. QED
  BY <1>6, <1>7, <1>8, <1>9, <1>14, <1>15, ServedBut DEF IInv

\* The thread whose gate is open has the lock, as the only one.
LEMMA AwaitStep ==
  ASSUME IInv, NEW t \in Threads, AwaitGate(t)
  PROVE  IInv'
<1>1. PICK l \in Locks : l = target[t]
  BY Typed DEF AwaitGate, Goto
<1> DEFINE c == Passed(context[t][l].succ, gate[t])
           W == Shut(l)
<1>2. c \in Contexts
  BY Typed DEF Passed, Contexts
<1>3. /\ pc[t] = "wait" /\ pc' = [pc EXCEPT ![t] = "idle"] /\ gate[t] # None
      /\ UNCHANGED <<arv, gate, waiter>> /\ ObtainWith(t, c)
  BY <1>1 DEF AwaitGate, Admitted, Passed, Goto
<1>4. At(t, l, pc[t]) /\ pc[t] \in Waiting /\ l \notin held[t]
  BY <1>1, <1>3, LabelSets DEF At, IInv, Nesting
<1>5. Obtained(t, l, c)
  BY <1>2, <1>3, <1>4, Obtains
<1> HIDE DEF c, W
<1>6. HookTypes' /\ OneState' /\ Nesting'
  BY <1>5, Moved DEF Obtained
<1>7. RecipTypes'
  BY <1>3, <1>5, Typed DEF RecipTypes, Obtained
<1>8. Rested'
  <2>1. ASSUME NEW u \in Threads, NEW v \in Threads, u # t, pc'[u] # "wait"
        PROVE  bypass'[u][v] = 0
    <3>1. pc[u] # "wait" /\ ~Waits(u, l)
      BY <1>5, <2>1 DEF Moves, Waits, Obtained
    <3>2. bypass'[u] = bypass[u]
      BY <1>5, <2>1, <3>1 DEF Obtained
    <3>3. QED
      BY <3>1, <3>2 DEF Rested, IInv
  <2>2. QED
    BY <1>5, <2>1 DEF Rested, Obtained
<1>9. Away(t, l)
  <2>1. \A k \in Locks : \A u \in Threads : k # l /\ Waits(u, k) => u # t /\ ~Waits(u, l)
    BY <1>1 DEF Waits
  <2>2. QED
    BY <1>1, <1>3, <1>5, <2>1 DEF Away, Moves, Obtained
<1>10. Owns(t, l) /\ Opened(l) = {t} /\ \A u \in Threads : Owns(u, l) => u = t
  <2>1. t \in Opened(l) /\ Opened(l) \subseteq Threads
    BY <1>1, <1>3 DEF Opened, Waits
  <2>2. \A u \in Threads : Owns(u, l) => u = t
    BY <2>1 DEF IInv, Served, Owned, Owns
  <2>3. QED
    BY <2>1, <2>2 DEF Owns
<1>11. \A u \in Threads : Waits(u, l)' <=> Waits(u, l) /\ u # t
  BY <1>1, <1>5, Typed DEF Waits, Moves, Obtained
<1>12. Shut(l)' = W /\ Opened(l)' = {} /\ t \notin W /\ W \in SUBSET Threads
  BY <1>3, <1>10, <1>11 DEF Shut, Opened, W
<1>13. \A u \in Threads : Owns(u, l)' <=> u = t
  <2>1. \A u \in Threads : l \in held'[u] <=> u = t
    BY <1>5, <1>10 DEF Owns, Moves, Obtained
  <2>2. QED
    BY <1>12, <2>1 DEF Owns
<1>14. \A u \in Threads : \A x \in {"detach", "grant"} : At(u, l, x)' => At(u, l, x) /\ u # t
  BY <1>1, <1>3, <1>5, Typed DEF At, Moves, Obtained
<1>15. ContextOf(t, l)' = ContextOf(t, l) /\ Handle(t, l)' = Handle(t, l)
  BY <1>3, <1>4, <1>5, <1>14 DEF ContextOf, Handle, Obtained, At, c
<1>16. Owned(l)'
  <2>1. \A o \in Threads : At(o, l, "detach")' => FALSE
    BY <1>10, <1>14 DEF IInv, Served, Owned, Owns
  <2>2. \A o \in Threads : At(o, l, "grant")' => waiter'[o] # None
    BY <1>3, <1>14 DEF IInv, Served, Owned
  <2>3. arv'[l] # None
    BY <1>3, <1>10 DEF IInv, Served, Owned
  <2>4. QED
    BY <1>12, <1>13, <2>1, <2>2, <2>3 DEF Owned
<1>17. Ordered(l)'
  <2>1. PICK S \in SUBSET Threads, st \in [Threads -> Nat], clock \in Nat : Arranged(l, S, st, clock)
    BY DEF IInv, Served, Ordered
  <2>2. S \subseteq W /\ Distinct(W, st) /\ \A u \in W : st[u] < clock
    BY <2>1 DEF Arranged, W
  <2>3. Lined(W, S, st, Links(l)', t, ContextOf(t, l).eos, Handle(t, l), arv[l])
    <3>1. Lined(W, S, st, Links(l), t, ContextOf(t, l).eos, Handle(t, l), arv[l])
      BY <1>10, <2>1 DEF Arranged, W
    <3>2. \A u \in W : Links(l)'[u] = Links(l)[u]
      BY <1>5, <1>12 DEF Links, Obtained
    <3>3. QED
      BY <2>2, <3>1, <3>2, LinedLinks
  <2>4. Overtaken(W, S, st, {}, bypass')
    <3>1. Overtaken(W, S, st, {t}, bypass)
      BY <1>10, <2>1 DEF Arranged, W
    <3>2. \A u \in W : u # t /\ Waits(u, l)
      BY <1>12 DEF W, Shut
    <3>3. \A u \in W : bypass'[u] = [bypass[u] EXCEPT ![t] = @ + 1]
      BY <1>5, <1>12, <3>2 DEF Obtained
    <3>4. bypass' \in [Threads -> [Threads -> Nat]]
      BY <1>5 DEF Obtained
    <3>5. S \in SUBSET W
      BY <2>2
    <3>6. QED
      BY <1>12, <3>1, <3>3, <3>4, <3>5, OvertakenLater, Typed
  <2>5. Arranged(l, S, st, clock)'
    BY <1>3, <1>12, <1>13, <1>15, <2>2, <2>3, <2>4 DEF Arranged
  <2>6. QED
    BY <2>5 DEF Ordered
<1>18. QED
  BY <1>6, <1>7, <1>8, <1>9, <1>16, <1>17, ServedBut DEF IInv

\* What a thread that lets its lock go changes.
Gone(t, l) ==
    /\ Moves(t) /\ pc'[t] = "idle" /\ target'[t] = None /\ held'[t] = held[t] \ {l}
    /\ context' \in [Threads -> [Locks -> Contexts]]
    /\ \A k \in Locks : k # l => context'[t][k] = context[t][k]
    /\ \A u \in Threads : u # t => context'[u] = context[u]

LEMMA Releases ==
  ASSUME IInv, NEW t \in Threads, NEW l \in Locks, At(t, l, pc[t]), pc[t] \in Releasing,
         pc' = [pc EXCEPT ![t] = "idle"], Released(t)
  PROVE  Gone(t, l)
<1>1. /\ target[t] = l
      /\ held' = [held EXCEPT ![t] = @ \ {l}] /\ target' = [target EXCEPT ![t] = None]
      /\ cell' = cell
  BY DEF At, Released, Relinquish
<1>2. Moves(t) /\ pc'[t] = "idle" /\ target'[t] = None /\ held'[t] = held[t] \ {l}
  <2>1. "idle" \in Labels /\ "idle" \notin Looking \cup Creating \cup Trying \cup Waiting \cup Releasing
    BY LabelSets
  <2>2. \A k \in held[t] : cell[k] = "state"
    BY DEF IInv, OneState
  <2>3. QED
    BY <1>1, <2>1, <2>2 DEF Moves, IInv, HookTypes
<1>3. Empty \in Contexts
  BY Typed DEF Empty, Contexts
<1>4. context' = [context EXCEPT ![t][l] = Empty]
  BY <1>1 DEF Released
<1>5. /\ context' \in [Threads -> [Locks -> Contexts]]
      /\ \A k \in Locks : k # l => context'[t][k] = context[t][k]
      /\ \A u \in Threads : u # t => context'[u] = context[u]
  BY <1>3, <1>4, Typed
<1>6. QED
  BY <1>2, <1>5 DEF Gone

\* The thread that lets a lock go is its only owner.
LEMMA Releaser ==
  ASSUME IInv, NEW t \in Threads, NEW l \in Locks, At(t, l, pc[t]), pc[t] \in Releasing
  PROVE  /\ l \in held[t] /\ arv[l] # None /\ Opened(l) = {} /\ t \notin Shut(l)
         /\ Owns(t, l) /\ \A u \in Threads : Owns(u, l) => u = t
         /\ ContextOf(t, l) = context[t][l]
<1>1. l \in held[t] /\ ~Waits(t, l)
  BY LabelSets DEF IInv, Nesting, At, Waits
<1>2. Owns(t, l) /\ arv[l] # None /\ \A u \in Threads : Owns(u, l) => u = t
  BY <1>1 DEF Owns, IInv, Served, Owned
<1>3. t \notin Opened(l) /\ t \notin Shut(l)
  BY <1>1 DEF Opened, Shut
<1>4. Opened(l) = {}
  BY <1>2, <1>3 DEF Owns, Opened
<1>5. QED
  BY <1>1, <1>2, <1>3, <1>4 DEF ContextOf

LEMMA OpenGate ==
  ASSUME IInv, NEW t \in Threads, NEW l \in Locks, At(t, l, pc[t]), pc[t] \in Releasing,
         NEW h, h = Handle(t, l), h # None, pc' = [pc EXCEPT ![t] = "idle"],
         gate' = [gate EXCEPT ![h] = context[t][l].eos], Released(t), UNCHANGED <<arv, bypass>>,
         waiter' \in [Threads -> Elements], \A u \in Threads : u # t => waiter'[u] = waiter[u]
  PROVE  IInv'
<1> DEFINE W == Shut(l)
<1>1. Gone(t, l)
  BY Releases
<1>2. /\ l \in held[t] /\ arv[l] # None /\ Opened(l) = {} /\ t \notin W
      /\ Owns(t, l) /\ \A u \in Threads : Owns(u, l) => u = t
      /\ ContextOf(t, l) = context[t][l]
  BY Releaser
<1>3. PICK eos \in Elements : eos = context[t][l].eos
  BY Typed DEF Contexts
<1>4. PICK S \in SUBSET Threads, st \in [Threads -> Nat], clock \in Nat : Arranged(l, S, st, clock)
  BY DEF IInv, Served, Ordered
<1>5. S \subseteq W /\ W \in SUBSET Threads /\ Distinct(W, st) /\ \A u \in W : st[u] < clock
  BY <1>4 DEF Arranged, Shut
<1>6. PICK c : c = Passed(Links(l)[h], eos)
  OBVIOUS
<1> HIDE DEF W
<1>7. /\ Top(S, st, h) /\ Links(l)[h] # h /\ eos # h /\ eos # None
      /\ Lined(W \ {h}, S \ {h}, st, Links(l), h, c.eos, c.succ, arv[l])
  <2>1. Lined(W, S, st, Links(l), t, eos, h, arv[l])
    BY <1>2, <1>3, <1>4 DEF Arranged, W
  <2>2. Links(l) \in [Threads -> Elements]
    BY Typed DEF Links, Contexts, Elements
  <2>3. Popping(W, S, st, Links(l), t, eos, h, arv[l])
    BY <1>5, <2>1, <2>2 DEF Popping
  <2>4. QED
    <3>1. AfterPop(W, S, st, Links(l), eos, h, arv[l])
      BY <2>3, LinedPop
    <3>2. QED
      BY <1>6, <3>1 DEF AfterPop
<1>8. h \in S /\ h \in W /\ h \in Threads /\ h # t /\ Waits(h, l) /\ gate[h] = None
  BY <1>2, <1>5, <1>7 DEF Top, W, Shut
<1>9. /\ gate' \in [Threads -> Elements] /\ gate'[h] = eos
      /\ \A u \in Threads : u # h => gate'[u] = gate[u]
  BY <1>3, <1>8, Typed
<1>10. HookTypes' /\ OneState' /\ Nesting'
  BY <1>1, Moved DEF Gone
<1>11. RecipTypes'
  BY <1>1, <1>9, Typed DEF RecipTypes, Gone
<1>12. pc[t] # "wait" /\ target[t] = l /\ pc'[t] = "idle" /\ target'[t] = None /\ l # None
  BY <1>1, LabelSets, Typed DEF At, Gone
<1>13. Rested'
  BY <1>1, <1>12 DEF Rested, IInv, Gone, Moves
<1>14. Away(t, l)
  <2>1. \A k \in Locks : k # l => ~Waits(h, k)
    BY <1>8 DEF Waits
  <2>2. QED
    BY <1>1, <1>9, <1>12, <2>1 DEF Away, Moves, Gone
<1>15. \A u \in Threads : Waits(u, l)' <=> Waits(u, l)
  BY <1>1, <1>12 DEF Waits, Moves, Gone
<1>16. Shut(l)' = W \ {h} /\ Opened(l)' = {h}
  BY <1>2, <1>7, <1>8, <1>9, <1>15 DEF Shut, Opened, W
<1>17. (\A u \in Threads : l \notin held'[u]) /\ \A u \in Threads : Owns(u, l)' <=> u = h
  <2>1. \A u \in Threads : l \notin held'[u]
    BY <1>1, <1>2 DEF Owns, Moves, Gone
  <2>2. QED
    BY <1>8, <1>16, <2>1 DEF Owns
<1>18. \A u \in Threads : \A x \in {"detach", "grant"} : At(u, l, x)' => At(u, l, x) /\ u # t
  BY <1>1, <1>12 DEF At, Moves, Gone
<1>19. ContextOf(h, l)' = c /\ Handle(h, l)' = c.succ
  <2>1. ContextOf(h, l)' = c
    BY <1>1, <1>6, <1>8, <1>9, <1>17 DEF ContextOf, Links, Gone
  <2>2. ~At(h, l, "grant")'
    BY <1>8, <1>15 DEF At, Waits
  <2>3. QED
    BY <2>1, <2>2 DEF Handle
<1>20. Owned(l)'
  <2>1. \A o \in Threads : At(o, l, "detach")' => FALSE
    BY <1>2, <1>18 DEF IInv, Served, Owned, Owns
  <2>2. \A o \in Threads : At(o, l, "grant")' => waiter'[o] # None
    BY <1>18 DEF IInv, Served, Owned
  <2>3. context'[h][l].succ # h /\ gate'[h] # h
    BY <1>1, <1>7, <1>8, <1>9 DEF Links, Gone
  <2>4. QED
    BY <1>2, <1>8, <1>16, <1>17, <2>1, <2>2, <2>3 DEF Owned
<1>21. Ordered(l)'
  <2>1. Lined(W \ {h}, S \ {h}, st, Links(l)', h, c.eos, c.succ, arv[l])
    <3>1. \A u \in W \ {h} : Links(l)'[u] = Links(l)[u]
      BY <1>1, <1>2, <1>5 DEF Links, Gone
    <3>2. S \ {h} \subseteq W \ {h}
      BY <1>5
    <3>3. QED
      BY <1>7, <3>1, <3>2, LinedLinks
  <2>2. Overtaken(W \ {h}, S \ {h}, st, {h}, bypass)
    <3>1. Overtaken(W, S, st, {}, bypass)
      BY <1>2, <1>4 DEF Arranged, W
    <3>2. Distinct(S, st)
      BY <1>5 DEF Distinct
    <3>3. QED
      BY <1>5, <1>7, <3>1, <3>2, OvertakenSteps, Typed
  <2>3. S \ {h} \subseteq W \ {h} /\ Distinct(W \ {h}, st) /\ \A u \in W \ {h} : st[u] < clock
    BY <1>5 DEF Distinct
  <2>4. Arranged(l, S \ {h}, st, clock)'
    BY <1>16, <1>17, <1>19, <2>1, <2>2, <2>3 DEF Arranged
  <2>5. S \ {h} \in SUBSET Threads
    OBVIOUS
  <2>6. QED
    BY <2>4, <2>5 DEF Ordered
<1>22. QED
  BY <1>10, <1>11, <1>13, <1>14, <1>20, <1>21, ServedBut DEF IInv

LEMMA GateSteps ==
  ASSUME IInv, NEW t \in Threads, PassToSuccessor(t) \/ Grant(t)
  PROVE  IInv'
<1>1. pc[t] \in {"release", "grant"} /\ pc[t] \in Releasing /\ pc[t] # "idle"
  BY LabelSets DEF PassToSuccessor, Grant, Goto
<1>2. PICK l \in Locks : l = target[t]
  BY <1>1, Typed
<1>3. At(t, l, pc[t]) /\ ContextOf(t, l) = context[t][l]
  BY <1>1, <1>2, Releaser DEF At
<1>4. CASE PassToSuccessor(t)
  <2>1. /\ pc[t] = "release" /\ pc' = [pc EXCEPT ![t] = "idle"] /\ context[t][l].succ # None
        /\ gate' = [gate EXCEPT ![context[t][l].succ] = context[t][l].eos]
        /\ Released(t) /\ UNCHANGED <<arv, waiter, bypass>>
    BY <1>2, <1>4 DEF PassToSuccessor, Goto
  <2>2. PICK h : h = Handle(t, l)
    OBVIOUS
  <2>3. h = context[t][l].succ
    BY <1>3, <2>1, <2>2 DEF Handle, At
  <2>4. gate' = [gate EXCEPT ![h] = context[t][l].eos] /\ h # None
    BY <2>1, <2>3
  <2>5. QED
    BY <1>1, <1>3, <2>1, <2>2, <2>4, OpenGate, Typed
<1>5. CASE Grant(t)
  <2>1. /\ pc[t] = "grant" /\ pc' = [pc EXCEPT ![t] = "idle"]
        /\ gate' = [gate EXCEPT ![waiter[t]] = context[t][l].eos]
        /\ waiter' = [waiter EXCEPT ![t] = None]
        /\ Released(t) /\ UNCHANGED <<arv, bypass>>
    BY <1>2, <1>5 DEF Grant, Goto
  <2>2. PICK h : h = Handle(t, l)
    OBVIOUS
  <2>3. h = waiter[t]
    BY <1>3, <2>1, <2>2 DEF Handle, At
  <2>4. gate' = [gate EXCEPT ![h] = context[t][l].eos] /\ h # None
    BY <1>3, <2>1, <2>3 DEF IInv, Served, Owned
  <2>5. waiter' \in [Threads -> Elements] /\ \A u \in Threads : u # t => waiter'[u] = waiter[u]
    BY <2>1, Typed
  <2>6. QED
    BY <1>1, <1>3, <2>1, <2>2, <2>4, <2>5, OpenGate
<1>6. QED
  BY <1>4, <1>5

\* The end marker on arv says that nobody waits.
LEMMA Nobody ==
  ASSUME IInv, NEW t \in Threads, NEW l \in Locks, At(t, l, "release"), context[t][l].succ = None
  PROVE  arv[l] = context[t][l].eos <=> Shut(l) = {}
<1>1. pc[t] = "release" /\ pc[t] \in Releasing /\ At(t, l, pc[t])
  BY LabelSets DEF At
<1>2. Owns(t, l) /\ t \notin Shut(l) /\ ContextOf(t, l) = context[t][l]
  BY <1>1, Releaser
<1>3. Handle(t, l) = None
  BY <1>1, <1>2 DEF Handle, At
<1>4. PICK S \in SUBSET Threads, st \in [Threads -> Nat], clock \in Nat : Arranged(l, S, st, clock)
  BY DEF IInv, Served, Ordered
<1>5. PICK eos : eos = context[t][l].eos
  OBVIOUS
<1>6. Lined(Shut(l), S, st, Links(l), t, eos, None, arv[l])
  BY <1>2, <1>3, <1>4, <1>5 DEF Arranged
<1>7. S = {} /\ eos \in {t, LOCKED_EMPTY}
      /\ IF Shut(l) = {} THEN arv[l] = eos ELSE arv[l] \in Shut(l)
  BY <1>6 DEF Lined, Base, Top
<1>8. Shut(l) \subseteq Threads
  BY DEF Shut
<1>9. QED
  BY <1>2, <1>5, <1>7, <1>8, NotThreads

LEMMA FreeStep ==
  ASSUME IInv, NEW t \in Threads, Free(t)
  PROVE  IInv'
<1>1. pc[t] = "release" /\ pc[t] \in Releasing /\ pc[t] # "idle"
  BY LabelSets DEF Free, Goto
<1>2. PICK l \in Locks : l = target[t]
  BY <1>1, Typed
<1>3. /\ context[t][l].succ = None /\ arv[l] = context[t][l].eos /\ arv' = [arv EXCEPT ![l] = None]
      /\ pc' = [pc EXCEPT ![t] = "idle"] /\ Released(t) /\ UNCHANGED <<gate, waiter, bypass>>
  BY <1>2 DEF Free, Goto
<1>4. At(t, l, "release") /\ At(t, l, pc[t])
  BY <1>1, <1>2 DEF At
<1>5. Gone(t, l)
  BY <1>1, <1>3, <1>4, Releases
<1>6. Shut(l) = {}
  BY <1>3, <1>4, Nobody
<1>7. Opened(l) = {} /\ \A u \in Threads : Owns(u, l) => u = t
  BY <1>1, <1>4, Releaser
<1>8. HookTypes' /\ OneState' /\ Nesting'
  BY <1>5, Moved DEF Gone
<1>9. RecipTypes'
  BY <1>3, <1>5, Typed DEF RecipTypes, Gone
<1>10. Rested'
  BY <1>1, <1>3, <1>5 DEF Rested, IInv, Gone, Moves
<1>11. Away(t, l)
  BY <1>2, <1>3, <1>5, Typed DEF Away, Moves, Gone
<1>12. /\ \A u \in Threads : ~Waits(u, l)' /\ l \notin held'[u]
       /\ \A u \in Threads : ~At(u, l, "detach")' /\ (At(u, l, "grant")' => At(u, l, "grant") /\ u # t)
  <2>1. None # l
    BY Typed
  <2>2. \A u \in Threads : ~Waits(u, l)
    BY <1>6, <1>7 DEF Shut, Opened
  <2>3. \A u \in Threads : At(u, l, "detach") => l \in held[u]
    BY DEF IInv, Served, Owned
  <2>4. \A u \in Threads : u # t => l \notin held[u]
    BY <1>7 DEF Owns
  <2>5. \A u \in Threads : u # t => pc'[u] = pc[u] /\ target'[u] = target[u] /\ held'[u] = held[u]
    BY <1>5 DEF Gone, Moves
  <2>6. target'[t] = None /\ held'[t] = held[t] \ {l}
    BY <1>5 DEF Gone
  <2>7. QED
    BY <2>1, <2>2, <2>3, <2>4, <2>5, <2>6 DEF Waits, At
<1>13. Shut(l)' = {} /\ Opened(l)' = {} /\ \A u \in Threads : ~Owns(u, l)'
  BY <1>12 DEF Shut, Opened, Owns
<1>14. arv'[l] = None
  BY <1>3, Typed
<1>15. Owned(l)'
  <2>1. \A o \in Threads : At(o, l, "grant")' => waiter'[o] # None
    BY <1>3, <1>12 DEF IInv, Served, Owned
  <2>2. QED
    BY <1>12, <1>13, <1>14, <2>1 DEF Owned
<1>16. Ordered(l)'
  <2>1. \A st, by : Overtaken({}, {}, st, {}, by)
    BY DEF Overtaken
  <2>2. PICK st \in [Threads -> Nat] : st = [u \in Threads |-> 0]
    OBVIOUS
  <2>3. Arranged(l, {}, st, 0)'
    BY <1>13, <2>1 DEF Arranged, Distinct
  <2>4. QED
    BY <2>3 DEF Ordered
<1>17. QED
  BY <1>8, <1>9, <1>10, <1>11, <1>15, <1>16, ServedBut DEF IInv

\* A step of t within its release.
LEMMA StaysReleasing ==
  ASSUME IInv, NEW t \in Threads, pc[t] \in Releasing, NEW a \in Releasing,
         pc' = [pc EXCEPT ![t] = a], UNCHANGED <<cell, target, held, gate, context, bypass>>
  PROVE  /\ Moves(t) /\ HookTypes' /\ OneState' /\ Nesting' /\ Rested' /\ pc'[t] = a
         /\ \A u \in Threads : \A l : Waits(u, l)' <=> Waits(u, l)
         /\ \A l : Shut(l)' = Shut(l) /\ Opened(l)' = Opened(l) /\ Links(l)' = Links(l)
         /\ \A u, l : Owns(u, l)' <=> Owns(u, l)
         /\ \A u, l : ContextOf(u, l)' = ContextOf(u, l)
<1>1. /\ a \in Labels /\ a \notin {"idle", "wait"} \cup Looking \cup Creating \cup Trying \cup Waiting
      /\ pc[t] # "wait" /\ pc[t] # "idle"
  BY LabelSets
<1>2. cell[target[t]] = "state" /\ target[t] \in held[t] /\ \A k \in held[t] : cell[k] = "state"
  BY DEF IInv, OneState, Nesting
<1>3. pc'[t] = a /\ \A u \in Threads : u # t => pc'[u] = pc[u]
  BY DEF IInv, HookTypes
<1>4. Moves(t)
  BY <1>1, <1>2, <1>3 DEF Moves, IInv, HookTypes
<1>5. HookTypes' /\ OneState' /\ Nesting'
  BY <1>4, Moved
<1>6. Rested'
  BY <1>1, <1>3 DEF Rested, IInv
<1>7. \A u \in Threads : \A l : Waits(u, l)' <=> Waits(u, l)
  BY <1>1, <1>3 DEF Waits
<1>8. \A l : Shut(l)' = Shut(l) /\ Opened(l)' = Opened(l) /\ Links(l)' = Links(l)
  BY <1>7 DEF Shut, Opened, Links
<1>9. \A u, l : Owns(u, l)' <=> Owns(u, l)
  BY <1>8 DEF Owns
<1>10. \A u, l : ContextOf(u, l)' = ContextOf(u, l)
  BY DEF ContextOf
<1>11. QED
  BY <1>3, <1>4, <1>5, <1>6, <1>7, <1>8, <1>9, <1>10

LEMMA FreeFailsStep ==
  ASSUME IInv, NEW t \in Threads, FreeFails(t)
  PROVE  IInv'
<1>1. pc[t] = "release" /\ pc[t] \in Releasing /\ pc[t] # "idle" /\ "detach" \in Releasing
  BY LabelSets DEF FreeFails, Goto
<1>2. PICK l \in Locks : l = target[t]
  BY <1>1, Typed
<1>3. /\ context[t][l].succ = None /\ arv[l] # context[t][l].eos /\ pc' = [pc EXCEPT ![t] = "detach"]
      /\ UNCHANGED <<arv, gate, context, waiter, bypass, cell, target, held>>
  BY <1>2 DEF FreeFails, Goto, recipVars
<1>4. At(t, l, "release") /\ At(t, l, pc[t])
  BY <1>1, <1>2 DEF At
<1>5. /\ Moves(t) /\ HookTypes' /\ OneState' /\ Nesting' /\ Rested' /\ pc'[t] = "detach"
      /\ \A u \in Threads : \A k : Waits(u, k)' <=> Waits(u, k)
      /\ \A k : Shut(k)' = Shut(k) /\ Opened(k)' = Opened(k)
      /\ \A u, k : Owns(u, k)' <=> Owns(u, k)
  BY <1>1, <1>3, StaysReleasing
<1>6. l \in held[t] /\ Shut(l) # {}
  BY <1>1, <1>3, <1>4, Releaser, Nobody
<1>7. RecipTypes'
  BY <1>3 DEF IInv, RecipTypes
<1>8. \A u \in Threads : \A k : /\ At(u, k, "grant")' <=> At(u, k, "grant")
                                /\ At(u, k, "detach")' => At(u, k, "detach") \/ (u = t /\ k = l)
  BY <1>1, <1>2, <1>3, <1>5 DEF At, Moves
<1>9. \A k \in Locks : SameOrder(k)
  BY <1>3, <1>5, <1>8 DEF SameOrder
<1>10. \A k \in Locks : Ordered(k)'
  BY <1>9, OrderedSame DEF IInv, Served
<1>11. \A k \in Locks : k # l => Owned(k)'
  BY <1>8, <1>9, OwnedSame DEF IInv, Served, Same
<1>12. Owned(l)'
  <2>1. Owned(l)
    BY DEF IInv, Served
  <2>2. /\ arv'[l] = None => \A u \in Threads : ~Owns(u, l)' /\ ~Waits(u, l)'
        /\ arv'[l] # None => \E o \in Threads : Owns(o, l)'
        /\ \A o, p \in Threads : Owns(o, l)' /\ Owns(p, l)' => o = p
    BY <1>3, <1>5, <2>1 DEF Owned
  <2>3. \A o \in Threads :
          /\ At(o, l, "detach")' => l \in held'[o] /\ context'[o][l].succ = None /\ Shut(l)' # {}
          /\ At(o, l, "grant")' => waiter'[o] # None
          /\ o \in Opened(l)' => context'[o][l].succ # o /\ gate'[o] # o
    BY <1>3, <1>5, <1>6, <1>8, <2>1 DEF Owned
  <2>4. QED
    BY <2>2, <2>3 DEF Owned
<1>13. QED
  BY <1>5, <1>7, <1>10, <1>11, <1>12 DEF IInv, Served

\* Whoever has arrived becomes the segment.
LEMMA DetachStep ==
  ASSUME IInv, NEW t \in Threads, Detach(t)
  PROVE  IInv'
<1>1. pc[t] = "detach" /\ pc[t] \in Releasing /\ pc[t] # "idle" /\ "grant" \in Releasing
  BY LabelSets DEF Detach, Goto
<1>2. PICK l \in Locks : l = target[t]
  BY <1>1, Typed
<1>3. /\ pc' = [pc EXCEPT ![t] = "grant"] /\ waiter' = [waiter EXCEPT ![t] = arv[l]]
      /\ arv' = [arv EXCEPT ![l] = LOCKED_EMPTY]
      /\ UNCHANGED <<gate, context, bypass, cell, target, held>>
  BY <1>2 DEF Detach, Goto
<1>4. At(t, l, "detach") /\ At(t, l, pc[t])
  BY <1>1, <1>2 DEF At
<1>5. /\ Moves(t) /\ HookTypes' /\ OneState' /\ Nesting' /\ Rested' /\ pc'[t] = "grant"
      /\ \A u \in Threads : \A k : Waits(u, k)' <=> Waits(u, k)
      /\ \A k : Shut(k)' = Shut(k) /\ Opened(k)' = Opened(k) /\ Links(k)' = Links(k)
      /\ \A u, k : Owns(u, k)' <=> Owns(u, k)
      /\ \A u, k : ContextOf(u, k)' = ContextOf(u, k)
  BY <1>1, <1>3, StaysReleasing
<1>6. /\ l \in held[t] /\ t \notin Shut(l) /\ Owns(t, l) /\ Opened(l) = {}
      /\ \A u \in Threads : Owns(u, l) => u = t
      /\ ContextOf(t, l) = context[t][l]
  BY <1>1, <1>4, Releaser
<1>7. context[t][l].succ = None /\ Shut(l) # {}
  BY <1>4 DEF IInv, Served, Owned
<1>8. /\ arv' \in [Locks -> Elements] /\ arv'[l] = LOCKED_EMPTY
      /\ \A k \in Locks : k # l => arv'[k] = arv[k]
      /\ waiter' \in [Threads -> Elements] /\ waiter'[t] = arv[l]
      /\ \A u \in Threads : u # t => waiter'[u] = waiter[u]
  BY <1>3, Typed
<1>9. RecipTypes'
  BY <1>3, <1>8 DEF IInv, RecipTypes
<1>10. Away(t, l)
  BY <1>2, <1>3, <1>5, <1>8 DEF Away, Moves
<1>11. PICK S \in SUBSET Threads, st \in [Threads -> Nat], clock \in Nat : Arranged(l, S, st, clock)
  BY DEF IInv, Served, Ordered
<1>12. PICK eos : eos = ContextOf(t, l).eos
  OBVIOUS
<1>13. PICK last : last = arv[l]
  OBVIOUS
<1>14. S = {} /\ last \in Shut(l) /\ Lined(Shut(l), Shut(l), st, Links(l), t, eos, last, LOCKED_EMPTY)
  <2>1. Handle(t, l) = None
    BY <1>1, <1>6, <1>7 DEF Handle, At
  <2>2. Lined(Shut(l), S, st, Links(l), t, eos, None, last)
    BY <1>6, <1>11, <1>12, <1>13, <2>1 DEF Arranged
  <2>3. Shut(l) \in SUBSET Threads
    BY DEF Shut
  <2>4. Detaching(Shut(l), S, st, Links(l), t, eos, last)
    BY <1>6, <1>7, <2>2, <2>3 DEF Detaching
  <2>5. QED
    BY <2>4, LinedDetach
<1>15. last # None /\ LOCKED_EMPTY # None
  BY <1>14, NotThreads DEF Shut
<1>16. \A u \in Threads : /\ At(u, l, "grant")' => u = t \/ At(u, l, "grant")
                          /\ At(u, l, "detach")' => u # t /\ At(u, l, "detach")
  BY <1>3, <1>5 DEF At, Moves
<1>17. Owned(l)'
  <2>1. Owned(l)
    BY DEF IInv, Served
  <2>2. /\ arv'[l] # None /\ \E o \in Threads : Owns(o, l)'
        /\ \A o, p \in Threads : Owns(o, l)' /\ Owns(p, l)' => o = p
    BY <1>5, <1>6, <1>8, <1>15 DEF Owned
  <2>3. \A o \in Threads :
          /\ At(o, l, "detach")' => l \in held'[o] /\ context'[o][l].succ = None /\ Shut(l)' # {}
          /\ At(o, l, "grant")' => waiter'[o] # None
          /\ o \in Opened(l)' => context'[o][l].succ # o /\ gate'[o] # o
    BY <1>3, <1>5, <1>8, <1>13, <1>15, <1>16, <2>1 DEF Owned
  <2>4. QED
    BY <2>2, <2>3 DEF Owned
<1>18. Ordered(l)'
  <2>1. Handle(t, l)' = last
    BY <1>2, <1>3, <1>5, <1>8, <1>13 DEF Handle, At
  <2>2. Overtaken(Shut(l), Shut(l), st, {}, bypass)
    <3>1. Overtaken(Shut(l), {}, st, {}, bypass)
      BY <1>6, <1>11, <1>14 DEF Arranged
    <3>2. Shut(l) \in SUBSET Threads /\ {} \in SUBSET Shut(l) /\ {} \in SUBSET Threads
      BY DEF Shut
    <3>3. QED
      BY <3>1, <3>2, OvertakenSteps, Typed
  <2>3. Distinct(Shut(l), st) /\ \A u \in Shut(l) : st[u] < clock
    BY <1>11 DEF Arranged
  <2>4. ContextOf(t, l)'.eos = eos
    BY <1>5, <1>12
  <2>5. \A o \in Threads : Owns(o, l)' =>
          Lined(Shut(l)', Shut(l), st, Links(l)', o, ContextOf(o, l)'.eos, Handle(o, l)', arv'[l])
    BY <1>5, <1>6, <1>8, <1>14, <2>1, <2>4
  <2>6. Overtaken(Shut(l)', Shut(l), st, Opened(l)', bypass')
    BY <1>3, <1>5, <1>6, <2>2
  <2>7. PICK W \in SUBSET Threads : W = Shut(l)
    BY DEF Shut
  <2>8. Arranged(l, W, st, clock)'
    BY <1>5, <2>3, <2>5, <2>6, <2>7 DEF Arranged
  <2>9. QED
    BY <2>8 DEF Ordered
<1>19. QED
  BY <1>5, <1>9, <1>10, <1>17, <1>18, ServedBut DEF IInv

\* The steps of the life cycle and those of a call that leave the waiters alone.
LEMMA QuietStep ==
  ASSUME IInv, HookTypes', OneState', Nesting', NEW t \in Threads,
         {pc[t], pc'[t]} \cap {"wait", "detach", "grant"} = {},
         \A u \in Threads : u # t => pc'[u] = pc[u] /\ target'[u] = target[u] /\ gate'[u] = gate[u],
         gate' \in [Threads -> Elements], UNCHANGED <<held, arv, context, waiter, bypass>>
  PROVE  IInv'
<1>1. RecipTypes'
  BY DEF IInv, RecipTypes
<1>2. Rested'
  BY DEF IInv, Rested
<1>3. ASSUME NEW l \in Locks
      PROVE  Same(l)
  <2>1. \A x \in {"wait", "detach", "grant"} : pc[t] # x /\ pc'[t] # x
    OBVIOUS
  <2>2. \A u \in Threads : \A x \in {"wait", "detach", "grant"} : At(u, l, x)' <=> At(u, l, x)
    BY <2>1 DEF At
  <2>3. \A u \in Threads : Waits(u, l)' <=> Waits(u, l)
    BY <2>1 DEF Waits
  <2>4. \A u \in Threads : Waits(u, l) => gate'[u] = gate[u]
    BY <2>1 DEF Waits
  <2>5. QED
    BY <2>2, <2>3, <2>4 DEF Same, SameOrder
<1>4. Served'
  BY <1>3, ServedSame
<1>5. QED
  BY <1>1, <1>2, <1>4 DEF IInv

\* Steps of a call that do not touch the cells.
LEMMA CallSteps ==
  ASSUME IInv, NEW t \in Threads,
         \/ FastPathFails(t) \/ TrylockFails(t)
         \/ Found(t) /\ UNCHANGED recipVars
         \/ \E l \in Locks : \/ (EnterLock(t, l) \/ EnterTrylock(t, l)) /\ UNCHANGED recipVars
                             \/ CallUnlock(t, l)
  PROVE  IInv'
<1>1. /\ pc \in [Threads -> Labels] /\ target \in [Threads -> Locks \cup {None}]
      /\ held \in [Threads -> SUBSET Locks] /\ (\A k \in held[t] : cell[k] = "state")
      /\ None \notin Locks
  BY HookAssumption DEF IInv, HookTypes, OneState
<1>2. PICK a \in Labels, m \in Locks \cup {None} :
        /\ pc' = [pc EXCEPT ![t] = a] /\ target' = [target EXCEPT ![t] = m]
        /\ {pc[t], a} \cap {"wait", "detach", "grant"} = {}
        /\ a = "idle" <=> m = None
        /\ a \notin Creating \cup Waiting
        /\ a \in Trying \cup Releasing => cell[m] = "state"
        /\ a \in Releasing => m \in held[t]
        /\ a \in Looking \cup Trying => m \notin held[t]
  <2> DEFINE Goes(a, m) ==
        /\ pc' = [pc EXCEPT ![t] = a] /\ target' = [target EXCEPT ![t] = m]
        /\ {pc[t], a} \cap {"wait", "detach", "grant"} = {}
        /\ a = "idle" <=> m = None
        /\ a \notin Creating \cup Waiting
        /\ a \in Trying \cup Releasing => cell[m] = "state"
        /\ a \in Releasing => m \in held[t]
        /\ a \in Looking \cup Trying => m \notin held[t]
  <2>1. CASE FastPathFails(t)
    <3>1. pc[t] = "try" /\ "arrive" \in Trying /\ pc[t] \in Trying /\ pc[t] # "idle" /\ "arrive" \in Labels
      BY <2>1, LabelSets DEF FastPathFails, GoSlow, Goto
    <3>2. /\ pc' = [pc EXCEPT ![t] = "arrive"] /\ target' = [target EXCEPT ![t] = target[t]]
          /\ target[t] \in Locks /\ cell[target[t]] = "state" /\ target[t] \notin held[t]
      BY <1>1, <2>1, <3>1 DEF FastPathFails, GoSlow, Goto, IInv, HookTypes, OneState, Nesting
    <3>3. "arrive" \notin Creating \cup Waiting \cup Releasing
      BY LabelSets
    <3>4. Goes("arrive", target[t])
      BY <1>1, <3>1, <3>2, <3>3
    <3>5. QED
      BY <3>1, <3>2, <3>4
  <2>2. CASE TrylockFails(t)
    <3>1. /\ pc[t] = "trylock" /\ pc' = [pc EXCEPT ![t] = "idle"]
          /\ target' = [target EXCEPT ![t] = None] /\ "idle" \in Labels
          /\ "idle" \notin Looking \cup Creating \cup Trying \cup Waiting \cup Releasing
      BY <2>2, LabelSets DEF TrylockFails, GiveUp, Goto
    <3>2. Goes("idle", None)
      BY <3>1
    <3>3. QED
      BY <3>1, <3>2
  <2>3. CASE Found(t)
    <3>1. PICK a \in Trying \ {"arrive"} : pc[t] \in Looking /\ pc' = [pc EXCEPT ![t] = a]
      <4>1. PICK call \in DOMAIN LooksAt : Goto(t, LooksAt[call], call)
        BY <2>3 DEF Found
      <4>2. QED
        BY <4>1, CallLabels DEF Goto
    <3>2. /\ a \in Labels /\ a \notin {"idle"} \cup Looking \cup Creating \cup Waiting \cup Releasing
          /\ pc[t] # "idle" /\ {pc[t], a} \cap {"wait", "detach", "grant"} = {}
      BY <3>1, LabelSets
    <3>3. /\ target' = [target EXCEPT ![t] = target[t]]
          /\ target[t] \in Locks /\ cell[target[t]] = "state" /\ target[t] \notin held[t]
      BY <1>1, <2>3, <3>1, <3>2 DEF Found, IInv, HookTypes, Nesting
    <3>4. Goes(a, target[t])
      BY <1>1, <3>1, <3>2, <3>3
    <3>5. QED
      BY <3>2, <3>3, <3>4
  <2>4. ASSUME NEW l \in Locks, EnterLock(t, l) \/ EnterTrylock(t, l)
        PROVE  \E a \in Labels : Goes(a, l)
    <3>1. PICK call \in {"try", "trylock"} : Enter(t, l, call)
      BY <2>4 DEF EnterLock, EnterTrylock
    <3>2. pc[t] = "idle" /\ l \notin held[t] /\ target' = [target EXCEPT ![t] = l]
      BY <2>4, <3>1, HookAssumption DEF EnterLock, EnterTrylock, Enter, Goto
    <3>3. PICK a \in Looking \cup (Trying \ {"arrive"}) :
            pc' = [pc EXCEPT ![t] = a] /\ (a \in Trying => cell[l] = "state")
      <4>1. call \in DOMAIN LooksAt
        BY DEF LooksAt
      <4>2. CASE cell[l] = "state"
        BY <3>1, <4>1, <4>2, CallLabels DEF Enter, Goto
      <4>3. CASE cell[l] # "state"
        <5>1. pc' = [pc EXCEPT ![t] = LooksAt[call]] /\ LooksAt[call] \in Looking
          BY <3>1, <4>1, <4>3, CallLabels DEF Enter, Goto
        <5>2. LooksAt[call] \notin Trying
          BY <5>1, LabelSets
        <5>3. QED
          BY <5>1, <5>2
      <4>4. QED
        BY <4>2, <4>3
    <3>4. /\ a \in Labels /\ a \notin {"idle"} \cup Creating \cup Waiting \cup Releasing
          /\ {pc[t], a} \cap {"wait", "detach", "grant"} = {}
      BY <3>2, <3>3, LabelSets
    <3>5. Goes(a, l)
      BY <1>1, <3>2, <3>3, <3>4
    <3>6. QED
      BY <3>4, <3>5
  <2>5. ASSUME NEW l \in Locks, CallUnlock(t, l)
        PROVE  Goes("release", l) /\ "release" \in Labels
    <3>1. /\ pc[t] = "idle" /\ l \in held[t] /\ pc' = [pc EXCEPT ![t] = "release"]
          /\ target' = [target EXCEPT ![t] = l]
      BY <2>5 DEF CallUnlock, Goto
    <3>2. /\ "release" \in Labels
          /\ "release" \notin {"idle"} \cup Looking \cup Creating \cup Trying \cup Waiting
      BY LabelSets
    <3>3. QED
      BY <1>1, <3>1, <3>2
  <2>6. QED
    BY <2>1, <2>2, <2>3, <2>4, <2>5
<1>3. UNCHANGED <<cell, held, arv, context, waiter, bypass>>
  BY DEF FastPathFails, GoSlow, TrylockFails, GiveUp, Found, EnterLock, EnterTrylock, Enter,
         CallUnlock, recipVars
<1>4. gate' = gate \/ gate' = [gate EXCEPT ![t] = None]
  BY DEF FastPathFails, TrylockFails, ResetGate, CallUnlock, recipVars
<1>5. gate' \in [Threads -> Elements] /\ \A u \in Threads : u # t => gate'[u] = gate[u]
  BY <1>4, Typed
<1>6. /\ pc'[t] = a /\ target'[t] = m
      /\ \A u \in Threads : u # t => pc'[u] = pc[u] /\ target'[u] = target[u]
  BY <1>1, <1>2
<1>7. Moves(t)
  BY <1>1, <1>2, <1>3, <1>6 DEF Moves
<1>8. QED
  BY <1>2, <1>3, <1>5, <1>6, <1>7, Moved, QuietStep

LEMMA Unowned ==
  ASSUME IInv, NEW l \in Locks, \A t \in Threads : ~Owns(t, l)
  PROVE  arv[l] = None
BY DEF IInv, Served, Owned

LEMMA ClaimStep ==
  ASSUME IInv, NEW t \in Threads, Claim(t), UNCHANGED recipVars
  PROVE  IInv'
<1>1. PICK a \in Creating : pc[t] \in Looking /\ pc' = [pc EXCEPT ![t] = a]
  <2>1. PICK call \in DOMAIN LooksAt : Goto(t, LooksAt[call], CreatesAt[call])
    BY DEF Claim
  <2>2. QED
    BY <2>1, CallLabels DEF Goto
<1>2. /\ pc[t] # "idle" /\ a \in Labels /\ {pc[t], a} \cap {"wait", "detach", "grant"} = {}
      /\ a \notin {"idle"} \cup Looking \cup Trying \cup Waiting \cup Releasing
  BY <1>1, LabelSets
<1>3. PICK m \in Locks : m = target[t]
  BY <1>2, Typed
<1>4. /\ cell[m] = "zero" /\ cell' = [cell EXCEPT ![m] = "SENTINEL"]
      /\ UNCHANGED <<target, held>>
  BY <1>3 DEF Claim
<1>5. pc'[t] = a /\ \A u \in Threads : u # t => pc'[u] = pc[u]
  BY <1>1 DEF IInv, HookTypes
<1>6. HookTypes'
  BY <1>1, <1>2, <1>4, <1>5 DEF IInv, HookTypes
<1>7. OneState'
  <2>1. cell'[m] = "SENTINEL" /\ \A k \in Locks : k # m => cell'[k] = cell[k]
    BY <1>4 DEF IInv, HookTypes
  <2>2. \A u \in Threads : pc[u] \in Creating \cup Trying \cup Waiting \cup Releasing =>
           target[u] \in Locks /\ target[u] # m
    <3>1. \A u \in Threads : pc[u] \in Creating \cup Trying \cup Waiting \cup Releasing => pc[u] # "idle"
      BY LabelSets
    <3>2. QED
      BY <1>4, <3>1 DEF IInv, OneState, HookTypes
  <2>3. \A u \in Threads : \A k \in held[u] : k \in Locks /\ k # m
    BY <1>4 DEF IInv, OneState, HookTypes
  <2>4. QED
    BY <1>2, <1>3, <1>4, <1>5, <2>1, <2>2, <2>3 DEF IInv, OneState
<1>8. Nesting'
  BY <1>1, <1>2, <1>4, <1>5 DEF IInv, Nesting
<1>9. QED
  BY <1>2, <1>4, <1>5, <1>6, <1>7, <1>8, QuietStep, Typed DEF recipVars

\* The creator of a state finds no last arrival: nobody can use the mutex yet.
LEMMA PublishStep ==
  ASSUME IInv, NEW t \in Threads, Publish(t), create_state(target[t])
  PROVE  IInv'
<1>1. PICK a \in Trying \ {"arrive"} : pc[t] \in Creating /\ pc' = [pc EXCEPT ![t] = a]
  <2>1. PICK call \in DOMAIN LooksAt : Goto(t, CreatesAt[call], call)
    BY DEF Publish
  <2>2. QED
    BY <2>1, CallLabels DEF Goto
<1>2. /\ pc[t] # "idle" /\ a \in Labels /\ {pc[t], a} \cap {"wait", "detach", "grant"} = {}
      /\ a \notin {"idle"} \cup Looking \cup Creating \cup Waiting \cup Releasing
  BY <1>1, LabelSets
<1>3. PICK m \in Locks : m = target[t]
  BY <1>2, Typed
<1>4. cell' = [cell EXCEPT ![m] = "state"] /\ UNCHANGED <<target, held>>
  BY <1>3 DEF Publish
<1>5. cell[m] = "SENTINEL"
  BY <1>1, <1>3 DEF IInv, OneState
<1>6. \A u \in Threads : ~Owns(u, m)
  <2>1. \A u \in Threads : m \notin held[u] /\ ~Waits(u, m)
    BY <1>5, LabelSets DEF IInv, OneState, Waits
  <2>2. QED
    BY <2>1 DEF Owns, Opened
<1>7. UNCHANGED recipVars
  BY <1>3, <1>6, Unowned, Typed DEF create_state, recipVars
<1>8. pc'[t] = a /\ \A u \in Threads : u # t => pc'[u] = pc[u]
  BY <1>1 DEF IInv, HookTypes
<1>9. HookTypes'
  BY <1>1, <1>2, <1>4, <1>8 DEF IInv, HookTypes
<1>10. OneState'
  <2>1. cell'[m] = "state" /\ \A k \in Locks : k # m => cell'[k] = cell[k]
    BY <1>4 DEF IInv, HookTypes
  <2>2. \A u \in Threads : pc[u] \in Creating /\ u # t => target[u] # m
    BY <1>1, <1>3 DEF IInv, OneState
  <2>3. \A u \in Threads : pc[u] \in Creating \cup Trying \cup Waiting \cup Releasing => target[u] \in Locks
    <3>1. \A u \in Threads : pc[u] \in Creating \cup Trying \cup Waiting \cup Releasing => pc[u] # "idle"
      BY LabelSets
    <3>2. QED
      BY <3>1, Typed
  <2>4. \A u \in Threads : \A k \in held[u] : k \in Locks
    BY DEF IInv, HookTypes
  <2>5. QED
    BY <1>2, <1>3, <1>4, <1>8, <2>1, <2>2, <2>3, <2>4 DEF IInv, OneState
<1>11. Nesting'
  BY <1>1, <1>2, <1>4, <1>8 DEF IInv, Nesting
<1>12. QED
  BY <1>2, <1>4, <1>7, <1>8, <1>9, <1>10, <1>11, QuietStep, Typed DEF recipVars

LEMMA StateSteps ==
  ASSUME IInv, NEW l \in Locks,
         \/ pthread_mutex_init(l) /\ create_state(l)
         \/ pthread_mutex_destroy(l) /\ UNCHANGED recipVars
  PROVE  IInv'
<1>1. /\ \A t \in Threads : l \notin held[t] /\ target[t] # l
      /\ UNCHANGED <<pc, target, held>>
      /\ cell' = [cell EXCEPT ![l] = "state"] \/ cell' = [cell EXCEPT ![l] = "zero"]
  BY DEF pthread_mutex_init, pthread_mutex_destroy, SetCell, Unused
<1>2. PICK t \in Threads : pc[t] = "idle"
  BY DEF pthread_mutex_init, pthread_mutex_destroy, SetCell
<1>3. arv[l] = None
  BY <1>1, Unowned DEF Owns, Opened, Waits
<1>4. UNCHANGED recipVars
  BY <1>3, Typed DEF create_state, recipVars
<1>5. HookTypes'
  BY <1>1 DEF IInv, HookTypes
<1>6. OneState'
  <2>1. \A k \in Locks : k # l => cell'[k] = cell[k]
    BY <1>1 DEF IInv, HookTypes
  <2>2. \A u \in Threads : pc[u] \in Creating \cup Trying \cup Waiting \cup Releasing => target[u] \in Locks
    <3>1. \A u \in Threads : pc[u] \in Creating \cup Trying \cup Waiting \cup Releasing => pc[u] # "idle"
      BY LabelSets
    <3>2. QED
      BY <3>1, Typed
  <2>3. \A u \in Threads : \A k \in held[u] : k \in Locks
    BY DEF IInv, HookTypes
  <2>4. QED
    BY <1>1, <2>1, <2>2, <2>3 DEF IInv, OneState
<1>7. Nesting'
  BY <1>1 DEF IInv, Nesting
<1>8. QED
  BY <1>1, <1>2, <1>4, <1>5, <1>6, <1>7, QuietStep, Typed DEF recipVars

LEMMA TakeSteps ==
  ASSUME IInv, NEW t \in Threads,
         try_lock_fast(t, "try") \/ try_lock_fast(t, "trylock") \/ Arrive(t)
  PROVE  IInv'
<1>1. pc[t] \in Trying /\ pc[t] # "idle"
  BY LabelSets DEF try_lock_fast, Goto, Arrive
<1>2. PICK l \in Locks : l = target[t]
  BY <1>1, Typed
<1>3. At(t, l, pc[t])
  BY <1>2 DEF At
<1>4. CASE try_lock_fast(t, "try") \/ try_lock_fast(t, "trylock")
  BY <1>1, <1>2, <1>3, <1>4, TakeFree DEF try_lock_fast, Goto
<1>5. CASE Arrive(t) /\ arv[l] = None
  BY <1>1, <1>2, <1>3, <1>5, TakeFree DEF Arrive
<1>6. CASE Arrive(t) /\ arv[l] # None
  <2>1. At(t, l, "arrive")
    BY <1>2, <1>6 DEF At, Arrive
  <2>2. /\ pc' = [pc EXCEPT ![t] = "wait"] /\ arv' = [arv EXCEPT ![l] = t] /\ ResetGate(t)
        /\ context' = [context EXCEPT ![t][l] = [succ |-> untag(arv[l]), eos |-> t]]
        /\ UNCHANGED <<cell, word, target, held, bypass, waiter>>
    BY <1>2, <1>6 DEF Arrive
  <2>3. QED
    BY <1>6, <2>1, <2>2, ArriveBehind
<1>7. QED
  BY <1>4, <1>5, <1>6

LEMMA Initial == Init => IInv
<1> SUFFICES ASSUME Init PROVE IInv
  OBVIOUS
<1> USE DEF Init, HookInit, RecipInit
<1>1. /\ \A t \in Threads : pc[t] = "idle" /\ target[t] = None /\ held[t] = {}
      /\ \A l \in Locks : arv[l] = None
  OBVIOUS
<1>2. "idle" \in Labels
      /\ "idle" \notin Looking \cup Creating \cup Trying \cup Waiting \cup Releasing
  BY LabelSets
<1>3. HookTypes
  BY <1>2 DEF HookTypes
<1>4. RecipTypes
  <2>1. Empty \in Contexts /\ None \in Elements
    BY DEF Empty, Contexts, Elements
  <2>2. QED
    BY <2>1 DEF RecipTypes
<1>5. OneState /\ Nesting
  BY <1>1, <1>2 DEF OneState, Nesting
<1>6. Rested
  BY DEF Rested
<1>7. ASSUME NEW l \in Locks
      PROVE  Owned(l) /\ Ordered(l)
  <2>1. \A t \in Threads : \A x : x # "idle" => ~At(t, l, x)
    BY <1>1 DEF At
  <2>2. \A t \in Threads : ~Waits(t, l)
    BY <1>1 DEF Waits
  <2>3. Shut(l) = {} /\ Opened(l) = {} /\ \A t \in Threads : ~Owns(t, l)
    BY <1>1, <2>2 DEF Shut, Opened, Owns
  <2>4. Owned(l)
    BY <1>1, <2>1, <2>2, <2>3 DEF Owned
  <2>5. \A st, by : Overtaken({}, {}, st, {}, by)
    BY DEF Overtaken
  <2>6. PICK st \in [Threads -> Nat] : st = [u \in Threads |-> 0]
    OBVIOUS
  <2>7. Arranged(l, {}, st, 0)
    BY <2>3, <2>5 DEF Arranged, Distinct
  <2>8. QED
    BY <2>4, <2>7 DEF Ordered
<1>8. QED
  BY <1>3, <1>4, <1>5, <1>6, <1>7 DEF IInv, Served

----------------------------------------------------------------------------
(* The theorems.                                                           *)

\* The library that the process has preloaded stays.
LEMMA Loaded == Spec => [](backend = "reciprocating")
<1>1. Init => backend = "reciprocating"
  BY DEF Init
<1>2. backend = "reciprocating" /\ [Next]_vars => (backend = "reciprocating")'
  BY DEF Next, vars, hookVars
<1>3. QED
  BY <1>1, <1>2, PTL DEF Spec

\* In every reachable state the pointers of the reciprocating backend picture
\* its waiters.
THEOREM Invariance == Spec => []IInv
<1>1. IInv /\ [Next]_vars => IInv'
  <2> SUFFICES ASSUME IInv, [Next]_vars
               PROVE  IInv'
    OBVIOUS
  <2>1. CASE LifeCycle
    BY <2>1, ClaimStep, CallSteps, PublishStep, StateSteps DEF LifeCycle
  <2>2. ASSUME NEW t \in Threads, Call(t)
        PROVE  IInv'
    BY <2>2, CallSteps DEF Call
  <2>3. ASSUME NEW t \in Threads, Step(t)
        PROVE  IInv'
    BY <2>3, TakeSteps, CallSteps, AwaitStep, GateSteps, FreeStep, FreeFailsStep, DetachStep DEF Step
  <2>4. CASE UNCHANGED vars
    <3>1. HookTypes' /\ RecipTypes' /\ OneState' /\ Nesting' /\ Rested'
      BY <2>4 DEF IInv, HookTypes, RecipTypes, OneState, Nesting, Rested, vars, hookVars, recipVars
    <3>2. \A l \in Locks : Same(l)
      BY <2>4 DEF Same, SameOrder, Waits, At, vars, hookVars, recipVars
    <3>3. QED
      BY <3>1, <3>2, ServedSame DEF IInv
  <2>5. QED
    BY <2>1, <2>2, <2>3, <2>4 DEF Next
<1>2. QED
  BY <1>1, Initial, PTL DEF Spec

\* A taken lock has an owner, which does not wait behind a shut gate.
LEMMA OwnerOf ==
  ASSUME IInv, NEW l \in Locks, arv[l] # None
  PROVE  \E o \in Threads : Owns(o, l) /\ o \notin Shut(l)
<1>1. PICK o \in Threads : Owns(o, l)
  BY DEF IInv, Served, Owned
<1>2. o \notin Shut(l)
  BY <1>1, LabelSets DEF Owns, Opened, Shut, Waits, IInv, Nesting
<1>3. QED
  BY <1>1, <1>2

\* What an owner sees of itself and of the waiters.
LEMMA OwnerView ==
  ASSUME IInv, NEW l \in Locks, NEW o \in Threads, Owns(o, l), o \notin Shut(l)
  PROVE  /\ ContextOf(o, l).eos # None
         /\ Handle(o, l) # None =>
              Handle(o, l) \in Shut(l) /\ Handle(o, l) # ContextOf(o, l).eos
         /\ \A t \in Shut(l) : context[t][l].succ # t
         /\ arv[l] \in Shut(l) \cup {o, LOCKED_EMPTY}
<1>1. PICK S \in SUBSET Threads, st \in [Threads -> Nat], clock \in Nat : Arranged(l, S, st, clock)
  BY DEF IInv, Served, Ordered
<1>2. PICK W \in SUBSET Threads : W = Shut(l)
  BY DEF Shut
<1>3. PICK eos : eos = ContextOf(o, l).eos
  OBVIOUS
<1>4. PICK h : h = Handle(o, l)
  OBVIOUS
<1>5. PICK sc : sc = Links(l)
  OBVIOUS
<1>6. Lined(W, S, st, sc, o, eos, h, arv[l]) /\ S \subseteq W
  BY <1>1, <1>2, <1>3, <1>4, <1>5 DEF Arranged
<1>7. /\ eos # None /\ eos \notin S
      /\ h # None => h \in S
      /\ Base(eos, h) \in {o, LOCKED_EMPTY}
  BY <1>6 DEF Lined, Top, Base
<1>8. arv[l] \in W \cup {o, LOCKED_EMPTY}
  BY <1>6, <1>7 DEF Lined, Top
<1>9. ASSUME NEW t \in W
      PROVE  sc[t] # t
  <2>1. st[t] \in Nat /\ t \in Threads /\ t # o
    BY <1>2
  <2>2. CASE t \in S
    <3>1. Under(S, st, t, sc[t]) \/ sc[t] = untag(eos)
      BY <1>6, <2>2 DEF Lined, Chained
    <3>2. untag(eos) # t
      BY <1>7, <2>1, <2>2, NotThreads DEF untag
    <3>3. QED
      BY <2>1, <3>1, <3>2 DEF Under
  <2>3. CASE t \notin S
    <3>1. Under(W \ S, st, t, sc[t]) \/ sc[t] = untag(Base(eos, h))
      BY <1>6, <2>3 DEF Lined, Chained
    <3>2. untag(Base(eos, h)) # t
      BY <1>7, <2>1, NotThreads
    <3>3. QED
      BY <2>1, <3>1, <3>2 DEF Under
  <2>4. QED
    BY <2>2, <2>3
<1>10. \A t \in W : sc[t] = context[t][l].succ
  BY <1>5 DEF Links
<1>11. QED
  BY <1>2, <1>3, <1>4, <1>6, <1>7, <1>8, <1>9, <1>10

\* The debug assertions of the backend never fail (AssertionsHold).
THEOREM Assertions == Spec => [](backend = "reciprocating" /\ AssertionsHold)
<1>1. IInv => AssertionsHold
  <2> SUFFICES ASSUME IInv, NEW t \in Threads
               PROVE  /\ pc[t] = "arrive" => arv[target[t]] # t
                      /\ pc[t] = "wait" => context[t][target[t]].succ # t /\ gate[t] # t
                      /\ pc[t] \in {"release", "detach", "grant"} =>
                          context[t][target[t]].eos # None /\ context[t][target[t]].succ # LOCKED_EMPTY
                      /\ pc[t] = "grant" => waiter[t] \in Threads \ {context[t][target[t]].eos}
    BY DEF AssertionsHold
  <2>1. CASE pc[t] = "arrive"
    <3>1. PICK l \in Locks : l = target[t]
      BY <2>1, Typed
    <3>2. l \notin held[t] /\ ~Waits(t, l) /\ t # None
      BY <2>1, <3>1, LabelSets, HookAssumption DEF IInv, Nesting, Waits
    <3>3. CASE arv[l] # None
      <4>1. PICK o \in Threads : Owns(o, l) /\ o \notin Shut(l)
        BY <3>3, OwnerOf
      <4>2. arv[l] \in Shut(l) \cup {o, LOCKED_EMPTY}
        BY <4>1, OwnerView
      <4>3. o # t /\ t \notin Shut(l)
        BY <3>2, <4>1 DEF Owns, Opened, Shut
      <4>4. QED
        BY <2>1, <3>1, <4>2, <4>3, NotThreads
    <3>4. QED
      BY <2>1, <3>1, <3>2, <3>3
  <2>2. CASE pc[t] = "wait"
    <3>1. PICK l \in Locks : l = target[t]
      BY <2>2, Typed
    <3>2. CASE gate[t] # None
      <4>1. t \in Opened(l)
        BY <2>2, <3>1, <3>2 DEF Opened, Waits
      <4>2. QED
        BY <2>2, <3>1, <4>1 DEF IInv, Served, Owned
    <3>3. CASE gate[t] = None
      <4>1. t \in Shut(l) /\ Waits(t, l) /\ t # None
        BY <2>2, <3>1, <3>3, HookAssumption DEF Shut, Waits
      <4>2. arv[l] # None
        BY <4>1 DEF IInv, Served, Owned
      <4>3. PICK o \in Threads : Owns(o, l) /\ o \notin Shut(l)
        BY <4>2, OwnerOf
      <4>4. context[t][l].succ # t
        BY <4>1, <4>3, OwnerView
      <4>5. QED
        BY <2>2, <3>1, <3>3, <4>1, <4>4
    <3>4. QED
      BY <3>2, <3>3
  <2>3. CASE pc[t] \in {"release", "detach", "grant"}
    <3>1. PICK l \in Locks : l = target[t]
      BY <2>3, Typed
    <3>2. At(t, l, pc[t]) /\ pc[t] \in Releasing
      BY <2>3, <3>1 DEF At, Releasing
    <3>3. Owns(t, l) /\ t \notin Shut(l) /\ ContextOf(t, l) = context[t][l]
      BY <3>2, Releaser
    <3>4. /\ context[t][l].eos # None
          /\ Handle(t, l) # None => Handle(t, l) \in Shut(l) /\ Handle(t, l) # context[t][l].eos
      BY <3>3, OwnerView
    <3>5. context[t][l].succ # LOCKED_EMPTY
      BY Typed, NotThreads DEF Contexts
    <3>6. pc[t] = "grant" => waiter[t] \in Threads \ {context[t][l].eos}
      BY <3>2, <3>4 DEF Handle, At, Shut, IInv, Served, Owned
    <3>7. QED
      BY <2>3, <3>1, <3>4, <3>5, <3>6
  <2>4. QED
    BY <2>1, <2>2, <2>3
<1>2. QED
  BY <1>1, Invariance, Loaded, PTL

\* A lock that is not free is one thread's, and no free lock is waited for:
\* (OneAdmitted).
THEOREM OneIsAdmitted == Spec => [](backend = "reciprocating" /\ OneAdmitted)
<1>1. IInv => OneAdmitted
  <2> SUFFICES ASSUME IInv, NEW l \in Locks
               PROVE  LET Waiters == {t \in Threads : pc[t] = "wait" /\ target[t] = l}
                          Holding == {t \in Threads : l \in held[t]}
                      IN  IF arv[l] = None THEN Waiters \cup Holding = {}
                          ELSE Cardinality(Holding \cup {t \in Waiters : gate[t] # None}) = 1
    BY DEF OneAdmitted
  <2> DEFINE Waiters == {t \in Threads : pc[t] = "wait" /\ target[t] = l}
             Holding == {t \in Threads : l \in held[t]}
             Admits  == Holding \cup {t \in Waiters : gate[t] # None}
  <2>1. \A t \in Threads : (t \in Admits <=> Owns(t, l)) /\ (t \in Waiters <=> Waits(t, l))
                           /\ (t \in Holding => Owns(t, l))
    BY DEF Owns, Opened, Waits
  <2>2. Admits \subseteq Threads /\ Waiters \cup Holding \subseteq Threads
    OBVIOUS
  <2> HIDE DEF Admits, Waiters, Holding
  <2>3. CASE arv[l] = None
    <3>1. Waiters \cup Holding = {}
      BY <2>1, <2>2, <2>3 DEF IInv, Served, Owned
    <3>2. QED
      BY <2>3, <3>1 DEF Waiters, Holding
  <2>4. CASE arv[l] # None
    <3>1. PICK o \in Threads : Owns(o, l)
      BY <2>4, OwnerOf
    <3>2. Admits = {o}
      BY <2>1, <2>2, <3>1 DEF IInv, Served, Owned
    <3>3. Cardinality(Admits) = 1
      BY <3>2, FS_Singleton
    <3>4. QED
      BY <2>4, <3>3 DEF Admits, Waiters, Holding
  <2>5. QED
    BY <2>3, <2>4
<1>2. QED
  BY <1>1, Invariance, Loaded, PTL

\* No thread overtakes a waiter more than twice: Spec => []BoundedBypass.
THEOREM BypassIsBounded == Spec => []BoundedBypass
<1>1. IInv => BoundedBypass
  <2> SUFFICES ASSUME IInv, NEW t \in Threads, NEW u \in Threads
               PROVE  bypass[t][u] <= 2
    BY DEF BoundedBypass
  <2>1. CASE pc[t] # "wait"
    BY <2>1 DEF IInv, Rested
  <2>2. CASE pc[t] = "wait"
    <3>1. PICK l \in Locks : l = target[t]
      BY <2>2, Typed
    <3>2. t \in Shut(l) \cup Opened(l)
      BY <2>2, <3>1 DEF Shut, Opened, Waits
    <3>3. PICK S \in SUBSET Threads, st \in [Threads -> Nat], clock \in Nat : Arranged(l, S, st, clock)
      BY DEF IInv, Served, Ordered
    <3>4. bypass[t][u] \in Nat
      BY Typed
    <3>5. QED
      BY <3>2, <3>3, <3>4 DEF Arranged, Overtaken
  <2>3. QED
    BY <2>1, <2>2
<1>2. QED
  BY <1>1, Invariance, PTL

\* A lock whose arv is null is free, and so is one whose next owner's gate is
\* open.
LEMMA GrantsOfFree ==
  ASSUME IInv, NEW l \in Locks, arv[l] = None \/ Opened(l) # {}
  PROVE  Mutex!Free(l)
<1> SUFFICES ASSUME NEW u \in Threads, l \in held[u]
             PROVE  FALSE
  BY DEF Mutex!Free
<1>1. Owns(u, l)
  BY DEF Owns
<1>2. Opened(l) # {}
  BY <1>1 DEF IInv, Served, Owned
<1>3. PICK t \in Threads : t \in Opened(l)
  BY <1>2 DEF Opened
<1>4. t # u
  BY <1>3, LabelSets DEF Opened, Waits, IInv, Nesting
<1>5. QED
  BY <1>1, <1>3, <1>4 DEF Owns, IInv, Served, Owned

\* Every step of the hooks over the reciprocating lock is a step of the
\* abstract mutex or leaves its variables unchanged: a blocking call requests, a
\* null arv or an open gate grants.
THEOREM ReciprocatingRefinement == Spec => ImplementsMutex
<1>1. Init => Mutex!Init
  BY DEF Init, HookInit, Mutex!Init, Requests, RequestLabels
<1>2. IInv /\ [Next]_vars => [Mutex!Next]_(Mutex!vars)
  <2> SUFFICES ASSUME IInv, [Next]_vars
               PROVE  [Mutex!Next]_(Mutex!vars)
    OBVIOUS
  <2>1. /\ pc \in [Threads -> Labels] /\ target \in [Threads -> Locks \cup {None}]
        /\ \A t \in Threads : pc[t] = "idle" <=> target[t] = None
        /\ None \notin Locks
    BY HookAssumption DEF IInv, HookTypes
  <2> USE <2>1 DEF Goto, Requests, RequestLabels
  <2>2. ASSUME NEW t \in Threads, NEW l \in Locks, EnterLock(t, l)
        PROVE  Mutex!Request(t, l)
    <3>1. l \notin held[t]
      BY <2>2, HookAssumption DEF EnterLock
    <3>2. Requests[t] = None /\ Requests' = [Requests EXCEPT ![t] = l]
      BY <2>2 DEF EnterLock, Enter, LooksAt
    <3>3. QED
      BY <2>2, <3>1, <3>2 DEF EnterLock, Enter, Mutex!Request
  <2>3. ASSUME NEW t \in Threads, NEW l \in Locks, EnterTrylock(t, l)
        PROVE  UNCHANGED Mutex!vars
    BY <2>3 DEF EnterTrylock, Enter, LooksAt, Mutex!vars
  <2>4. ASSUME NEW t \in Threads, Claim(t) \/ Found(t) \/ Publish(t)
        PROVE  UNCHANGED Mutex!vars
    BY <2>4 DEF Claim, Found, Publish, LooksAt, CreatesAt, Mutex!vars
  <2>5. ASSUME NEW l \in Locks, pthread_mutex_init(l) \/ pthread_mutex_destroy(l)
        PROVE  UNCHANGED Mutex!vars
    BY <2>5 DEF pthread_mutex_init, pthread_mutex_destroy, SetCell, Mutex!vars
  <2>6. ASSUME NEW t \in Threads, NEW l \in Locks, l = target[t], pc[t] \in {"try", "arrive", "wait"},
               Mutex!Free(l), pc' = [pc EXCEPT ![t] = "idle"], Obtain(t)
        PROVE  Mutex!Acquire(t, l)
    <3>1. Requests[t] = l /\ Requests' = [Requests EXCEPT ![t] = None]
      BY <2>6 DEF Obtain
    <3>2. QED
      BY <2>6, <3>1 DEF Obtain, Mutex!Acquire
  <2>7. ASSUME NEW t \in Threads, NEW l \in Locks, l = target[t], try_lock_fast(t, "trylock")
        PROVE  Mutex!TryAcquire(t, l)
    <3>1. Mutex!Free(l) /\ Obtain(t)
      BY <2>7, GrantsOfFree DEF try_lock_fast, ObtainWith
    <3>2. Requests[t] = None /\ Requests' = Requests
      BY <2>7, <3>1 DEF try_lock_fast, Obtain
    <3>3. QED
      BY <2>7, <3>1, <3>2 DEF Obtain, Mutex!TryAcquire
  <2>8. ASSUME NEW t \in Threads, FastPathFails(t) \/ TrylockFails(t)
        PROVE  UNCHANGED Mutex!vars
    <3>1. CASE FastPathFails(t)
      BY <3>1 DEF FastPathFails, GoSlow, Mutex!vars
    <3>2. CASE TrylockFails(t)
      BY <3>2 DEF TrylockFails, GiveUp, Mutex!vars
    <3>3. QED
      BY <2>8, <3>1, <3>2
  <2>9. ASSUME NEW t \in Threads, FreeFails(t) \/ Detach(t)
        PROVE  UNCHANGED Mutex!vars
    BY <2>9 DEF FreeFails, Detach, Mutex!vars
  <2>10. ASSUME NEW t \in Threads, NEW l \in Locks, CallUnlock(t, l)
         PROVE  UNCHANGED Mutex!vars
    BY <2>10 DEF CallUnlock, Mutex!vars
  <2>11. ASSUME NEW t \in Threads, NEW l \in Locks, l = target[t],
                PassToSuccessor(t) \/ Free(t) \/ Grant(t)
         PROVE  Mutex!Release(t, l)
    <3>1. /\ pc[t] \in {"release", "grant"} /\ pc' = [pc EXCEPT ![t] = "idle"]
          /\ Relinquish(t, l)
      BY <2>11 DEF PassToSuccessor, Free, Grant, Released
    <3>2. l \in held[t]
      BY <2>11, <3>1 DEF IInv, Nesting, Releasing
    <3>3. Requests[t] = None /\ Requests' = Requests
      BY <3>1 DEF Relinquish
    <3>4. QED
      BY <3>1, <3>2, <3>3 DEF Relinquish, Mutex!Release
  <2>12. ASSUME NEW t \in Threads, NEW l \in Locks, l = target[t], Arrive(t)
         PROVE  [Mutex!Next]_(Mutex!vars)
    <3>1. CASE arv[l] = None
      <4>1. Mutex!Free(l)
        BY <3>1, GrantsOfFree
      <4>2. pc[t] = "arrive" /\ pc' = [pc EXCEPT ![t] = "idle"] /\ Obtain(t)
        BY <2>12, <3>1 DEF Arrive, ObtainWith
      <4>3. QED
        BY <2>6, <2>12, <4>1, <4>2 DEF Mutex!Next
    <3>2. CASE arv[l] # None
      BY <2>12, <3>2 DEF Arrive, Mutex!vars
    <3>3. QED
      BY <3>1, <3>2
  <2>13. ASSUME NEW t \in Threads, Step(t)
         PROVE  [Mutex!Next]_(Mutex!vars)
    <3>1. pc[t] # "idle"
      BY <2>13 DEF Step, try_lock_fast, FastPathFails, GoSlow, TrylockFails, GiveUp, Arrive,
                   AwaitGate, PassToSuccessor, Free, FreeFails, Detach, Grant
    <3>2. PICK l \in Locks : l = target[t]
      BY <3>1
    <3>3. CASE try_lock_fast(t, "try") \/ AwaitGate(t)
      <4>1. AwaitGate(t) => t \in Opened(l)
        BY <3>2 DEF AwaitGate, Opened, Waits
      <4>2. Mutex!Free(l)
        BY <3>2, <3>3, <4>1, GrantsOfFree DEF try_lock_fast
      <4>3. pc[t] \in {"try", "wait"} /\ pc' = [pc EXCEPT ![t] = "idle"] /\ Obtain(t)
        BY <3>3 DEF try_lock_fast, AwaitGate, ObtainWith
      <4>4. QED
        BY <2>6, <3>2, <4>2, <4>3 DEF Mutex!Next
    <3>4. CASE try_lock_fast(t, "trylock")
      BY <2>7, <3>2, <3>4 DEF Mutex!Next
    <3>5. CASE PassToSuccessor(t) \/ Free(t) \/ Grant(t)
      BY <2>11, <3>2, <3>5 DEF Mutex!Next
    <3>6. QED
      BY <2>8, <2>9, <2>12, <2>13, <3>2, <3>3, <3>4, <3>5 DEF Step
  <2>14. ASSUME NEW t \in Threads, Call(t)
         PROVE  [Mutex!Next]_(Mutex!vars)
    BY <2>2, <2>3, <2>10, <2>14 DEF Call, Mutex!Next
  <2>15. CASE LifeCycle
    BY <2>4, <2>5, <2>15 DEF LifeCycle
  <2>16. CASE UNCHANGED vars
    BY <2>16 DEF vars, hookVars, Mutex!vars
  <2>17. QED
    BY <2>13, <2>14, <2>15, <2>16 DEF Next
<1>3. QED
  BY <1>1, <1>2, Invariance, PTL DEF Spec, ImplementsMutex, Mutex!Spec

============================================================================
