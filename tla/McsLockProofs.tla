---------------------------- MODULE McsLockProofs ----------------------------
(***************************************************************************)
(* The MCS backend accounts for its nodes, hands its lock over in the      *)
(* order of the swaps and implements the abstract mutex, for any number of *)
(* threads and locks, any nesting, and any pool that is as large as the    *)
(* nesting is deep.  The hooks over the TTAS backend implement the same    *)
(* abstract mutex, which the end of the module proves.                     *)
(*                                                                         *)
(* The queue of a lock is a history: the code has the nodes and their      *)
(* pointers only.  The invariant therefore says how the pointers picture   *)
(* the queue, in terms of who is in it, first, last, and before whom.      *)
(***************************************************************************)
EXTENDS McsLock, FiniteSetTheorems, NaturalsInduction, WellFoundedInduction,
        SequenceTheorems, TLAPS

----------------------------------------------------------------------------
(* Queues.                                                                 *)

In(q, t)        == \E i \in 1..Len(q) : q[i] = t
First(q, t)     == Len(q) # 0 /\ q[1] = t
Final(q, t)     == Len(q) # 0 /\ q[Len(q)] = t
Before(q, t, u) == \E i \in 1..Len(q) : i + 1 \in 1..Len(q) /\ q[i] = t /\ q[i + 1] = u
Once(q)         == \A i, j \in 1..Len(q) : q[i] = q[j] => i = j

----------------------------------------------------------------------------
(* The inductive invariant.                                                *)

Looking   == {"ensure", "try_ensure"}
Creating  == {"create", "try_create"}
Trying    == {"try", "trylock", "swap"}
Waiting   == {"link", "spin"}
Releasing == {"detach", "await_next", "pass"}
Labels    == {"idle"} \cup Looking \cup Creating \cup Trying \cup Waiting \cup Releasing

TypeOK ==
    /\ pc \in [Threads -> Labels]
    /\ target \in [Threads -> Locks \cup {None}]
    /\ \A t \in Threads : pc[t] = "idle" <=> target[t] = None
    /\ held \in [Threads -> SUBSET Locks]
    /\ cell \in [Locks -> {"zero", "SENTINEL", "state"}]
    /\ tail \in [Locks -> Nodes \cup {None}]
    /\ next \in [Nodes -> Nodes \cup {None}]
    /\ locked \in [Nodes -> BOOLEAN]
    /\ lockOwner \in [Nodes -> Locks \cup {None}]
    /\ node \in [Threads -> Nodes \cup {None}]
    /\ pred \in [Threads -> Nodes \cup {None}]
    /\ succ \in [Threads -> Nodes \cup {None}]
    /\ queue \in [Locks -> Seq(Threads)]

\* Between the claim of a mutex and the store of its state there is one
\* creator, and whoever uses or holds the mutex finds a state behind it.
OneState ==
    /\ \A t \in Threads : pc[t] \in Creating => cell[target[t]] = "SENTINEL"
    /\ \A t, u \in Threads :
        pc[t] \in Creating /\ pc[u] \in Creating /\ target[t] = target[u] => t = u
    /\ \A t \in Threads : pc[t] \in Trying \cup Waiting \cup Releasing => cell[target[t]] = "state"
    /\ \A t \in Threads : \A l \in held[t] : cell[l] = "state"

\* A release is of a held lock; a request is not, and leaves room in the pool.
Nesting ==
    \A t \in Threads :
        /\ IsFiniteSet(held[t]) /\ Cardinality(held[t]) <= MaxHeld
        /\ pc[t] \in Releasing => target[t] \in held[t]
        /\ pc[t] \in Looking \cup Creating \cup Trying \cup Waiting =>
              target[t] \notin held[t] /\ Cardinality(held[t]) < MaxHeld

Engaged(t, l) == l \in held[t] \/ (target[t] = l /\ pc[t] \in Waiting)

\* A thread has a node in use exactly for the locks it is engaged with, one
\* for each, and its local names the one of the call.
NodesUsed ==
    /\ \A n \in Nodes : lockOwner[n] # None => Engaged(n[1], lockOwner[n])
    /\ \A t \in Threads : \A l \in Locks : Engaged(t, l) =>
        \E n \in Nodes : n[1] = t /\ lockOwner[n] = l
    /\ \A n, m \in Nodes : n[1] = m[1] /\ lockOwner[n] = lockOwner[m] /\ lockOwner[n] # None => n = m
    /\ \A n \in Nodes : lockOwner[n] = None => next[n] = None /\ ~locked[n]
    /\ \A t \in Threads : pc[t] \in Waiting \cup Releasing =>
        node[t] \in Nodes /\ node[t][1] = t /\ lockOwner[node[t]] = target[t]

\* The queue of a lock holds the threads that are engaged with it.
Queued ==
    \A l \in Locks :
        /\ Once(queue[l])
        /\ \A t \in Threads : In(queue[l], t) <=> Engaged(t, l)

\* tail points to the end of the queue, next and pred along it: next only where
\* the successor has linked, pred only while it has not.
Tails ==
    \A l \in Locks :
        /\ tail[l] = None <=> Len(queue[l]) = 0
        /\ tail[l] # None => lockOwner[tail[l]] = l /\ Final(queue[l], tail[l][1])

Nexts ==
    \A n \in Nodes : \A l \in Locks : lockOwner[n] = l =>
        /\ next[n] # None => /\ lockOwner[next[n]] = l
                             /\ Before(queue[l], n[1], next[n][1]) /\ pc[next[n][1]] # "link"
        /\ \A u \in Threads : Before(queue[l], n[1], u) /\ pc[u] # "link" => next[n] # None

Preds ==
    \A t \in Threads : pc[t] = "link" =>
        /\ pred[t] # None /\ lockOwner[pred[t]] = target[t]
        /\ Before(queue[target[t]], pred[t][1], t)

Succs ==
    \A t \in Threads : pc[t] = "pass" => succ[t] # None /\ succ[t] = next[node[t]]

\* The first holds the lock or has been told that it may, the others wait.
Granted ==
    \A l \in Locks : \A t \in Threads :
        /\ First(queue[l], t) =>
              l \in held[t] \/ (pc[t] = "spin" /\ target[t] = l /\ ~locked[node[t]])
        /\ \A u \in Threads : Before(queue[l], u, t) =>
              pc[t] \in Waiting /\ target[t] = l /\ locked[node[t]]

Pointed == Tails /\ Nexts /\ Preds /\ Succs

IInv == TypeOK /\ OneState /\ Nesting /\ NodesUsed /\ Queued /\ Pointed /\ Granted

----------------------------------------------------------------------------
(* What a queue without repetitions looks like, and how it changes.        *)

LEMMA QueueFacts ==
  ASSUME NEW q \in Seq(Threads), Once(q)
  PROVE  /\ \A t : First(q, t) \/ Final(q, t) => In(q, t)
         /\ \A t : In(q, t) => Len(q) # 0 /\ t \in Threads
         /\ \A t, u : First(q, t) /\ First(q, u) => t = u
         /\ \A t, u : Final(q, t) /\ Final(q, u) => t = u
         /\ \A t, u : Before(q, t, u) => In(q, t) /\ In(q, u) /\ ~First(q, u) /\ ~Final(q, t)
         /\ \A t, u, v : Before(q, t, u) /\ Before(q, t, v) => u = v
         /\ \A t, u, v : Before(q, u, t) /\ Before(q, v, t) => u = v
         /\ \A t : In(q, t) => First(q, t) \/ \E u \in Threads : Before(q, u, t)
<1> DEFINE n == Len(q)
<1>1. n \in Nat /\ \A i \in 1..n : q[i] \in Threads
  OBVIOUS
<1>2. n # 0 => 1 \in 1..n /\ n \in 1..n
  BY <1>1
<1>3. \A t : First(q, t) \/ Final(q, t) => In(q, t)
  BY <1>2 DEF First, Final, In
<1>4. \A t : In(q, t) => n # 0 /\ t \in Threads
  BY <1>1 DEF In
<1>5. ASSUME NEW t, NEW u, Before(q, t, u)
      PROVE  In(q, t) /\ In(q, u) /\ ~First(q, u) /\ ~Final(q, t)
  <2>1. PICK i \in 1..n : i + 1 \in 1..n /\ q[i] = t /\ q[i + 1] = u
    BY <1>5 DEF Before
  <2>2. i + 1 # 1 /\ i # n
    BY <1>1, <2>1
  <2>3. In(q, t) /\ In(q, u)
    BY <2>1 DEF In
  <2>4. ~First(q, u)
    BY <1>2, <2>1, <2>2 DEF First, Once
  <2>5. ~Final(q, t)
    BY <1>2, <2>1, <2>2 DEF Final, Once
  <2>6. QED
    BY <2>3, <2>4, <2>5
<1>6. ASSUME NEW t, NEW u, NEW v, Before(q, t, u), Before(q, t, v)
      PROVE  u = v
  BY <1>6 DEF Before, Once
<1>7. ASSUME NEW t, NEW u, NEW v, Before(q, u, t), Before(q, v, t)
      PROVE  u = v
  <2>1. PICK i \in 1..n : i + 1 \in 1..n /\ q[i] = u /\ q[i + 1] = t
    BY <1>7 DEF Before
  <2>2. PICK j \in 1..n : j + 1 \in 1..n /\ q[j] = v /\ q[j + 1] = t
    BY <1>7 DEF Before
  <2>3. i + 1 = j + 1
    BY <2>1, <2>2 DEF Once
  <2>4. i = j
    BY <1>1, <2>3
  <2>5. QED
    BY <2>1, <2>2, <2>4
<1>8. ASSUME NEW t, In(q, t), ~First(q, t)
      PROVE  \E u \in Threads : Before(q, u, t)
  <2>1. PICK i \in 1..n : q[i] = t
    BY <1>8 DEF In
  <2>2. i # 1
    BY <1>1, <1>8, <2>1 DEF First
  <2>3. i - 1 \in 1..n /\ (i - 1) + 1 = i
    BY <1>1, <2>1, <2>2
  <2>4. q[i - 1] \in Threads
    BY <1>1, <2>3
  <2>5. Before(q, q[i - 1], t)
    BY <2>1, <2>3 DEF Before
  <2>6. QED
    BY <2>4, <2>5
<1>9. (\A t, u : First(q, t) /\ First(q, u) => t = u) /\ (\A t, u : Final(q, t) /\ Final(q, u) => t = u)
  BY DEF First, Final
<1>10. QED
  BY <1>3, <1>4, <1>5, <1>6, <1>7, <1>8, <1>9

Longer(q, t) == Append(q, t)
Shorter(q)   == Tail(q)

LEMMA QueueAppend ==
  ASSUME NEW q \in Seq(Threads), Once(q), NEW t \in Threads, ~In(q, t),
         NEW r, r = Longer(q, t)
  PROVE  /\ r \in Seq(Threads) /\ Once(r) /\ Len(r) # 0
         /\ \A u : In(r, u) <=> In(q, u) \/ u = t
         /\ \A u, v : Before(r, u, v) <=> Before(q, u, v) \/ (Final(q, u) /\ v = t)
         /\ \A u : First(r, u) <=> First(q, u) \/ (Len(q) = 0 /\ u = t)
         /\ \A u : Final(r, u) <=> u = t
<1> DEFINE n == Len(q)
<1>1. /\ n \in Nat /\ r \in Seq(Threads) /\ Len(r) = n + 1
      /\ r[n + 1] = t /\ \A i \in 1..n : r[i] = q[i]
  BY AppendProperties DEF Longer
<1>2. /\ \A i \in 1..(n + 1) : i \in 1..n \/ i = n + 1
      /\ \A i \in 1..n : i \in 1..(n + 1) /\ i # n + 1
      /\ n + 1 \in 1..(n + 1) /\ n + 1 # 0
  BY <1>1
<1>3. \A i \in 1..n : q[i] # t
  BY DEF In
<1> HIDE DEF n
<1>4. Once(r)
  <2> SUFFICES ASSUME NEW i \in 1..(n + 1), NEW j \in 1..(n + 1), r[i] = r[j]
               PROVE  i = j
    BY <1>1 DEF Once
  <2>1. CASE i \in 1..n /\ j \in 1..n
    BY <1>1, <2>1 DEF Once, n
  <2>2. CASE i = n + 1 \/ j = n + 1
    BY <1>1, <1>2, <1>3, <2>2
  <2>3. QED
    BY <1>2, <2>1, <2>2
<1>5. \A u : In(r, u) <=> In(q, u) \/ u = t
  BY <1>1, <1>2 DEF In, n
<1>6. ASSUME NEW u, NEW v, Before(q, u, v)
      PROVE  Before(r, u, v)
  BY <1>1, <1>2, <1>6 DEF Before, n
<1>7. ASSUME NEW u, Final(q, u)
      PROVE  Before(r, u, t)
  <2>1. n \in 1..n /\ q[n] = u
    BY <1>1, <1>7 DEF Final, n
  <2>2. QED
    BY <1>1, <1>2, <2>1 DEF Before, n
<1>8. ASSUME NEW u, NEW v, Before(r, u, v)
      PROVE  Before(q, u, v) \/ (Final(q, u) /\ v = t)
  <2>1. PICK i \in 1..(n + 1) : i + 1 \in 1..(n + 1) /\ r[i] = u /\ r[i + 1] = v
    BY <1>1, <1>8 DEF Before
  <2>2. i \in 1..n
    BY <1>1, <2>1
  <2>3. CASE i = n
    <3>1. n # 0 /\ q[n] = u
      BY <1>1, <2>1, <2>2, <2>3
    <3>2. v = t
      BY <1>1, <2>1, <2>3
    <3>3. QED
      BY <3>1, <3>2 DEF Final, n
  <2>4. CASE i # n
    <3>1. i + 1 \in 1..n
      BY <1>1, <2>2, <2>4
    <3>2. QED
      BY <1>1, <2>1, <2>2, <3>1 DEF Before, n
  <2>5. QED
    BY <2>3, <2>4
<1>9. \A u : First(r, u) <=> First(q, u) \/ (Len(q) = 0 /\ u = t)
  <2>1. CASE n = 0
    BY <1>1, <2>1 DEF First, n
  <2>2. CASE n # 0
    <3>1. 1 \in 1..n
      BY <1>1, <2>2
    <3>2. QED
      BY <1>1, <1>2, <2>2, <3>1 DEF First, n
  <2>3. QED
    BY <2>1, <2>2
<1>10. \A u : Final(r, u) <=> u = t
  BY <1>1, <1>2 DEF Final
<1>11. QED
  BY <1>1, <1>2, <1>4, <1>5, <1>6, <1>7, <1>8, <1>9, <1>10

LEMMA QueueTail ==
  ASSUME NEW q \in Seq(Threads), Once(q), NEW t, First(q, t), NEW r, r = Shorter(q)
  PROVE  /\ r \in Seq(Threads) /\ Once(r)
         /\ Len(r) = 0 <=> Final(q, t)
         /\ \A u : In(r, u) <=> In(q, u) /\ u # t
         /\ \A u, v : Before(r, u, v) <=> Before(q, u, v) /\ u # t
         /\ \A u : First(r, u) <=> Before(q, t, u)
         /\ \A u : Final(r, u) <=> Final(q, u) /\ u # t
<1>1. q # <<>> /\ Len(q) \in Nat /\ Len(q) # 0 /\ q[1] = t
  BY DEF First
<1>2. PICK n \in Nat : Len(q) = n + 1
  BY <1>1
<1>3. /\ r \in Seq(Threads) /\ Len(r) = n
      /\ \A i \in 1..n : r[i] = q[i + 1]
  BY <1>1, <1>2, HeadTailProperties DEF Shorter
<1>4. /\ \A i \in 1..n : i + 1 \in 1..(n + 1) /\ i + 1 # 1
      /\ \A i \in 1..(n + 1) : i = 1 \/ (i - 1 \in 1..n /\ (i - 1) + 1 = i)
      /\ 1 \in 1..(n + 1) /\ n + 1 \in 1..(n + 1)
  BY <1>2
<1>5. \A i \in 1..(n + 1) : q[i] = t <=> i = 1
  BY <1>1, <1>2, <1>4 DEF Once
<1>6. Once(r)
  <2> SUFFICES ASSUME NEW i \in 1..n, NEW j \in 1..n, r[i] = r[j]
               PROVE  i = j
    BY <1>3 DEF Once
  <2>1. i + 1 = j + 1
    BY <1>2, <1>3, <1>4 DEF Once
  <2>2. QED
    BY <2>1
<1>7. \A u : In(r, u) <=> In(q, u) /\ u # t
  <2>1. ASSUME NEW u, In(r, u)
        PROVE  In(q, u) /\ u # t
    BY <1>2, <1>3, <1>4, <1>5, <2>1 DEF In
  <2>2. ASSUME NEW u, In(q, u), u # t
        PROVE  In(r, u)
    <3>1. PICK i \in 1..(n + 1) : q[i] = u
      BY <1>2, <2>2 DEF In
    <3>2. i - 1 \in 1..n /\ r[i - 1] = u
      BY <1>3, <1>4, <1>5, <2>2, <3>1
    <3>3. QED
      BY <1>3, <3>2 DEF In
  <2>3. QED
    BY <2>1, <2>2
<1>8. \A u, v : Before(r, u, v) <=> Before(q, u, v) /\ u # t
  <2>1. ASSUME NEW u, NEW v, Before(r, u, v)
        PROVE  Before(q, u, v) /\ u # t
    <3>1. PICK i \in 1..n : i + 1 \in 1..n /\ r[i] = u /\ r[i + 1] = v
      BY <1>3, <2>1 DEF Before
    <3>2. /\ i + 1 \in 1..(n + 1) /\ (i + 1) + 1 \in 1..(n + 1)
          /\ q[i + 1] = u /\ q[(i + 1) + 1] = v /\ u # t
      BY <1>3, <1>4, <1>5, <3>1
    <3>3. QED
      BY <1>2, <3>2 DEF Before
  <2>2. ASSUME NEW u, NEW v, Before(q, u, v), u # t
        PROVE  Before(r, u, v)
    <3>1. PICK i \in 1..(n + 1) : i + 1 \in 1..(n + 1) /\ q[i] = u /\ q[i + 1] = v
      BY <1>2, <2>2 DEF Before
    <3>2. i - 1 \in 1..n /\ i \in 1..n /\ (i - 1) + 1 = i
      BY <1>4, <1>5, <2>2, <3>1
    <3>3. r[i - 1] = u /\ r[i] = v
      BY <1>3, <3>1, <3>2
    <3>4. QED
      BY <1>3, <3>2, <3>3 DEF Before
  <2>3. QED
    BY <2>1, <2>2
<1>9. \A u : First(r, u) <=> Before(q, t, u)
  <2>1. ASSUME NEW u, First(r, u)
        PROVE  Before(q, t, u)
    <3>1. 1 \in 1..n /\ 1 + 1 \in 1..(n + 1) /\ q[1 + 1] = u
      BY <1>3, <2>1 DEF First
    <3>2. QED
      BY <1>1, <1>2, <1>4, <3>1 DEF Before
  <2>2. ASSUME NEW u, Before(q, t, u)
        PROVE  First(r, u)
    <3>1. PICK i \in 1..(n + 1) : i + 1 \in 1..(n + 1) /\ q[i] = t /\ q[i + 1] = u
      BY <1>2, <2>2 DEF Before
    <3>2. i = 1
      BY <1>5, <3>1
    <3>3. n # 0 /\ 1 \in 1..n
      BY <3>1, <3>2
    <3>4. QED
      BY <1>3, <3>1, <3>2, <3>3 DEF First
  <2>3. QED
    BY <2>1, <2>2
<1>10. \A u : Final(r, u) <=> Final(q, u) /\ u # t
  <2>1. CASE n = 0
    BY <1>1, <1>2, <1>3, <2>1 DEF Final
  <2>2. CASE n # 0
    <3>1. n \in 1..n /\ r[n] = q[n + 1] /\ n + 1 # 1
      BY <1>3, <2>2
    <3>2. q[n + 1] # t
      BY <1>4, <1>5, <3>1
    <3>3. QED
      BY <1>2, <1>3, <2>2, <3>1, <3>2 DEF Final
  <2>3. QED
    BY <2>1, <2>2
<1>11. Len(r) = 0 <=> Final(q, t)
  <2>1. Final(q, t) <=> n + 1 = 1
    BY <1>1, <1>2, <1>4, <1>5 DEF Final
  <2>2. QED
    BY <1>3, <2>1
<1>12. QED
  BY <1>3, <1>6, <1>7, <1>8, <1>9, <1>10, <1>11

----------------------------------------------------------------------------
(* Nodes.                                                                  *)

LEMMA NodeParts ==
  /\ \A n \in Nodes : n[1] \in Threads /\ n # None
  /\ \A t \in Threads, i \in 1..MaxNodes : <<t, i>> \in Nodes
  /\ \A n \in Nodes : \E i \in 1..MaxNodes : n = <<n[1], i>>
  /\ None \notin Nodes
BY NodesAssumption DEF Nodes

\* A nonempty set of naturals has a minimum.
LEMMA MinOfNaturals ==
  ASSUME NEW S \in SUBSET Nat, S # {}
  PROVE  Min(S) \in S
<1> DEFINE R == OpToRel(<, Nat)
<1>1. IsWellFoundedOn(R, Nat)
  BY NatLessThanWellFounded
<1>2. \A x, y \in Nat : x < y => <<x, y>> \in R
  BY DEF OpToRel
<1> HIDE DEF R
<1>3. PICK x \in S : \A y \in S : ~ (<<y, x>> \in R)
  BY <1>1, WFMin
<1>4. \A y \in S : x <= y
  <2> SUFFICES ASSUME NEW y \in S
               PROVE  x <= y
    OBVIOUS
  <2>1. x \in Nat /\ y \in Nat
    OBVIOUS
  <2>2. ~ (y < x)
    BY <1>2, <1>3, <2>1
  <2>3. QED
    BY <2>1, <2>2
<1>5. QED
  BY <1>4 DEF Min

LEMMA Pigeons ==
  ASSUME NEW S, IsFiniteSet(S), NEW T, IsFiniteSet(T), Cardinality(T) < Cardinality(S),
         NEW g, g \in [S -> T]
  PROVE  \E x, y \in S : x # y /\ g[x] = g[y]
BY FS_PigeonHole

\* A thread that nests less deep than it may finds a free node: its nodes in
\* use are those of the locks it holds, one each.
LEMMA FreeNode ==
  ASSUME IInv, NEW t \in Threads, pc[t] \in Trying
  PROVE  FirstFree(t) \in Nodes /\ FirstFree(t)[1] = t /\ lockOwner[FirstFree(t)] = None
<1> DEFINE free == {i \in 1..MaxNodes : lockOwner[<<t, i>>] = None}
           f == [i \in 1..MaxNodes |-> lockOwner[<<t, i>>]]
<1>1. IsFiniteSet(held[t]) /\ Cardinality(held[t]) < MaxHeld
  BY DEF IInv, Nesting
<1>2. MaxNodes \in Nat /\ MaxHeld \in Nat /\ MaxHeld <= MaxNodes
  BY HookAssumption, NodesAssumption
<1>3. Cardinality(held[t]) \in Nat
  BY <1>1, FS_CardinalityType
<1>4. IsFiniteSet(1..MaxNodes) /\ Cardinality(1..MaxNodes) = MaxNodes
  <2>1. 1 \in Int /\ MaxNodes \in Int
    BY <1>2
  <2>2. IsFiniteSet(1..MaxNodes) /\ Cardinality(1..MaxNodes) = IF 1 > MaxNodes THEN 0 ELSE MaxNodes - 1 + 1
    BY <2>1, FS_Interval
  <2>3. QED
    BY <1>2, <2>2
<1>5. free # {}
  <2> SUFFICES ASSUME free = {}
               PROVE  FALSE
    OBVIOUS
  <2>1. ASSUME NEW i \in 1..MaxNodes
        PROVE  <<t, i>> \in Nodes /\ lockOwner[<<t, i>>] # None /\ lockOwner[<<t, i>>] \in held[t]
    <3>1. <<t, i>> \in Nodes /\ <<t, i>>[1] = t
      BY NodeParts
    <3>2. lockOwner[<<t, i>>] # None
      OBVIOUS
    <3>3. Engaged(t, lockOwner[<<t, i>>])
      BY <3>1, <3>2 DEF IInv, NodesUsed
    <3>4. pc[t] \notin Waiting
      BY DEF Trying, Waiting
    <3>5. QED
      BY <3>1, <3>2, <3>3, <3>4 DEF Engaged
  <2>2. f \in [1..MaxNodes -> held[t]]
    BY <2>1
  <2>3. Cardinality(held[t]) < Cardinality(1..MaxNodes)
    BY <1>1, <1>2, <1>3, <1>4
  <2> HIDE DEF f
  <2>4. PICK i, j \in 1..MaxNodes : i # j /\ f[i] = f[j]
    BY <1>1, <1>2, <1>4, <2>2, <2>3, Pigeons
  <2>5. lockOwner[<<t, i>>] = lockOwner[<<t, j>>]
    BY <2>4 DEF f
  <2>6. <<t, i>> = <<t, j>>
    <3>1. <<t, i>>[1] = <<t, j>>[1]
      OBVIOUS
    <3>2. QED
      BY <2>1, <2>5, <3>1 DEF IInv, NodesUsed
  <2>7. QED
    BY <2>4, <2>6
<1>6. Min(free) \in free
  <2>1. free \in SUBSET Nat
    BY <1>2
  <2> HIDE DEF free
  <2>2. QED
    BY <1>5, <2>1, MinOfNaturals
<1>7. QED
  BY <1>6, NodeParts DEF FirstFree

\* The node that a release looks up is the one the lock was taken with.
LEMMA OwnNode ==
  ASSUME IInv, NEW t \in Threads, NEW l \in held[t], l \in Locks
  PROVE  LET n == locked_thread_node(t, l) IN n \in Nodes /\ n[1] = t /\ lockOwner[n] = l
<1> DEFINE own == {i \in 1..MaxNodes : lockOwner[<<t, i>>] = l}
<1>1. PICK n \in Nodes : n[1] = t /\ lockOwner[n] = l
  BY DEF IInv, NodesUsed, Engaged
<1>2. PICK i \in 1..MaxNodes : n = <<t, i>>
  BY <1>1, NodeParts
<1>3. own # {} /\ own \in SUBSET Nat
  BY <1>1, <1>2, NodesAssumption
<1>4. Min(own) \in own
  <2> HIDE DEF own
  <2>1. QED
    BY <1>3, MinOfNaturals
<1>5. QED
  BY <1>4, NodeParts DEF locked_thread_node

----------------------------------------------------------------------------
(* Steps.                                                                  *)

\* A step leaves the queues and their pictures as they are when it moves only
\* threads that do not wait, and a thread that starts to release names its node.
LEMMA QuietStep ==
  ASSUME IInv, TypeOK',
         UNCHANGED <<tail, next, locked, lockOwner, pred, queue, held>>,
         \A u \in Threads : pc[u] \in Waiting \/ pc'[u] \in Waiting =>
            pc'[u] = pc[u] /\ target'[u] = target[u] /\ node'[u] = node[u],
         \A u \in Threads : pc'[u] \in Releasing =>
            node'[u] \in Nodes /\ node'[u][1] = u /\ lockOwner[node'[u]] = target'[u],
         \A u \in Threads : pc'[u] = "pass" => succ'[u] # None /\ succ'[u] = next[node'[u]]
  PROVE  NodesUsed' /\ Queued' /\ Pointed' /\ Granted'
<1>1. \A u \in Threads : \A l : Engaged(u, l)' <=> Engaged(u, l)
  BY DEF Engaged
<1>2. NodesUsed'
  BY <1>1, NodeParts DEF IInv, NodesUsed, TypeOK
<1>3. Queued'
  BY <1>1 DEF IInv, Queued
<1>4. Pointed'
  <2>1. \A u \in Threads : pc'[u] = "link" <=> pc[u] = "link"
    BY DEF Waiting
  <2>2. Tails' /\ Succs'
    BY DEF IInv, Pointed, Tails, Succs
  <2>3. Nexts'
    <3>1. \A n \in Nodes : next[n] # None => next[n][1] \in Threads
      BY NodeParts DEF IInv, TypeOK
    <3>2. QED
      BY <2>1, <3>1 DEF IInv, Pointed, Nexts
  <2>4. Preds'
    BY <2>1 DEF IInv, Pointed, Preds, Waiting
  <2>5. QED
    BY <2>2, <2>3, <2>4 DEF Pointed
<1>5. ASSUME NEW l \in Locks, NEW u \in Threads
      PROVE  /\ First(queue[l], u) => l \in held[u] \/ (pc'[u] = "spin" /\ target'[u] = l /\ ~locked[node'[u]])
             /\ \A v \in Threads : Before(queue[l], v, u) =>
                  pc'[u] \in Waiting /\ target'[u] = l /\ locked[node'[u]]
  <2>1. pc[u] \in Waiting => pc'[u] = pc[u] /\ target'[u] = target[u] /\ node'[u] = node[u]
    OBVIOUS
  <2>2. "spin" \in Waiting
    BY DEF Waiting
  <2>3. QED
    BY <2>1, <2>2 DEF IInv, Granted
<1>6. Granted'
  BY <1>5 DEF Granted
<1>7. QED
  BY <1>2, <1>3, <1>4, <1>6

\* Taking a free node and swapping it into tail appends the thread to the
\* queue: the thread gets the lock if the queue is empty, and is to link itself
\* to the last node otherwise.
Enqueued(t, l, n, wait) ==
    /\ pc[t] \in Trying /\ target[t] = l /\ n[1] = t /\ lockOwner[n] = None
    /\ lockOwner' = [lockOwner EXCEPT ![n] = l]
    /\ next' = [next EXCEPT ![n] = None]
    /\ locked' = [locked EXCEPT ![n] = wait]
    /\ tail' = [tail EXCEPT ![l] = n]
    /\ queue' = [queue EXCEPT ![l] = Append(@, t)]
    /\ succ' = succ
    /\ \A u \in Threads : u # t =>
        /\ pc'[u] = pc[u] /\ target'[u] = target[u] /\ held'[u] = held[u]
        /\ node'[u] = node[u] /\ pred'[u] = pred[u]
    /\ \/ tail[l] = None /\ pc'[t] = "idle" /\ held'[t] = held[t] \cup {l}
       \/ /\ tail[l] # None /\ wait /\ pc'[t] = "link" /\ target'[t] = l
          /\ node'[t] = n /\ pred'[t] = tail[l] /\ held'[t] = held[t]

LEMMA Enqueue ==
  ASSUME IInv, TypeOK',
         NEW t \in Threads, NEW l \in Locks, NEW n \in Nodes, NEW wait \in BOOLEAN,
         Enqueued(t, l, n, wait)
  PROVE  NodesUsed' /\ Queued' /\ Pointed' /\ Granted'
<1> USE DEF Enqueued
<1>1. /\ pc[t] \notin Waiting \cup Releasing /\ pc'[t] \notin Releasing \cup {"spin"}
      /\ pc'[t] \in Waiting <=> tail[l] # None
  BY DEF Trying, Waiting, Releasing
<1>2. l \notin held[t] /\ l # None /\ n # None /\ None \notin Locks
  BY HookAssumption, NodeParts DEF IInv, Nesting
<1>3. \A u \in Threads : \A k \in Locks : Engaged(u, k)' <=> Engaged(u, k) \/ (u = t /\ k = l)
  BY <1>1, <1>2 DEF Engaged
<1>4. ~Engaged(t, l)
  BY <1>1, <1>2 DEF Engaged
<1>5. \A m \in Nodes : m # n => /\ lockOwner'[m] = lockOwner[m] /\ next'[m] = next[m]
                                /\ locked'[m] = locked[m]
  BY DEF IInv, TypeOK
<1>6. lockOwner'[n] = l /\ next'[n] = None /\ locked'[n] = wait
  BY DEF IInv, TypeOK
<1>7. ASSUME NEW u \in Threads, pc[u] \in Waiting \cup Releasing
      PROVE  u # t /\ node[u] \in Nodes /\ node[u] # n /\ target[u] \in Locks
  <2>1. pc[u] # "idle"
    BY <1>7 DEF Waiting, Releasing
  <2>2. target[u] \in Locks
    BY <2>1 DEF IInv, TypeOK
  <2>3. QED
    BY <1>1, <1>2, <1>7, <2>2 DEF IInv, NodesUsed
<1>8. NodesUsed'
  <2>1. ASSUME NEW m \in Nodes, lockOwner'[m] # None
        PROVE  Engaged(m[1], lockOwner[m])' /\ m[1] \in Threads
    <3>1. m[1] \in Threads
      BY NodeParts
    <3>2. CASE m = n
      BY <1>3, <1>6, <3>1, <3>2 DEF Engaged
    <3>3. CASE m # n
      <4>1. lockOwner[m] \in Locks /\ Engaged(m[1], lockOwner[m]) /\ lockOwner'[m] = lockOwner[m]
        BY <1>5, <2>1, <3>3 DEF IInv, TypeOK, NodesUsed
      <4>2. QED
        BY <1>3, <3>1, <4>1 DEF Engaged
    <3>4. QED
      BY <3>2, <3>3
  <2>2. ASSUME NEW u \in Threads, NEW k \in Locks, Engaged(u, k)'
        PROVE  \E m \in Nodes : m[1] = u /\ lockOwner'[m] = k
    <3>1. CASE u = t /\ k = l
      BY <1>6, <3>1
    <3>2. CASE Engaged(u, k)
      <4>1. PICK m \in Nodes : m[1] = u /\ lockOwner[m] = k
        BY <3>2 DEF IInv, NodesUsed
      <4>2. QED
        BY <1>2, <1>5, <4>1
    <3>3. QED
      BY <1>3, <2>2, <3>1, <3>2
  <2>3. ASSUME NEW m \in Nodes, NEW o \in Nodes,
               m[1] = o[1], lockOwner'[m] = lockOwner'[o], lockOwner'[m] # None
        PROVE  m = o
    <3>1. \A p \in Nodes : p # n /\ p[1] = t => lockOwner[p] # l
      BY <1>2, <1>4 DEF IInv, NodesUsed
    <3>2. CASE m = n \/ o = n
      BY <1>5, <1>6, <2>3, <3>1, <3>2
    <3>3. CASE m # n /\ o # n
      BY <1>5, <2>3, <3>3 DEF IInv, NodesUsed
    <3>4. QED
      BY <3>2, <3>3
  <2>4. \A m \in Nodes : lockOwner'[m] = None => next'[m] = None /\ ~locked'[m]
    BY <1>2, <1>5, <1>6 DEF IInv, NodesUsed
  <2>5. ASSUME NEW u \in Threads, pc'[u] \in Waiting \cup Releasing
        PROVE  node'[u] \in Nodes /\ node'[u][1] = u /\ lockOwner'[node'[u]] = target'[u]
    <3>1. CASE u = t
      BY <1>1, <1>6, <2>5, <3>1
    <3>2. CASE u # t
      BY <1>5, <1>7, <2>5, <3>2 DEF IInv, NodesUsed
    <3>3. QED
      BY <3>1, <3>2
  <2>6. QED
    BY <2>1, <2>2, <2>3, <2>4, <2>5 DEF NodesUsed
<1>9. PICK q \in Seq(Threads) : q = queue[l]
  BY DEF IInv, TypeOK
<1>10. PICK r : r = Longer(q, t)
  OBVIOUS
<1>11. Once(q) /\ ~In(q, t) /\ queue'[l] = r /\ \A k \in Locks : k # l => queue'[k] = queue[k]
  BY <1>4, <1>9, <1>10 DEF IInv, TypeOK, Queued, Longer
<1>12. tail[l] = None <=> Len(q) = 0
  BY <1>9 DEF IInv, Pointed, Tails
<1>13. \A k \in Locks : \A v \in Threads : ~Before(queue[k], v, t)
  BY <1>1 DEF IInv, Granted
<1>14. /\ r \in Seq(Threads) /\ Once(r) /\ Len(r) # 0
       /\ \A u : In(r, u) <=> In(q, u) \/ u = t
       /\ \A u, v : Before(r, u, v) <=> Before(q, u, v) \/ (Final(q, u) /\ v = t)
       /\ \A u : First(r, u) <=> First(q, u) \/ (Len(q) = 0 /\ u = t)
       /\ \A u : Final(r, u) <=> u = t
  BY <1>10, <1>11, QueueAppend
<1>15. /\ \A u : First(q, u) \/ Final(q, u) => In(q, u)
       /\ \A u, v : Before(q, u, v) => In(q, u) /\ In(q, v)
       /\ Len(q) = 0 => \A u : ~Final(q, u)
  BY <1>9, <1>11, QueueFacts DEF Final
<1>16. Queued'
  <2>1. ASSUME NEW k \in Locks
        PROVE  Once(queue'[k]) /\ \A u \in Threads : In(queue'[k], u) <=> Engaged(u, k)'
    <3>1. CASE k = l
      BY <1>3, <1>9, <1>11, <1>14, <3>1 DEF IInv, Queued
    <3>2. CASE k # l
      BY <1>3, <1>9, <1>11, <3>2 DEF IInv, Queued
    <3>3. QED
      BY <3>1, <3>2
  <2>2. QED
    BY <2>1 DEF Queued
<1>17. Tails'
  <2>1. ASSUME NEW k \in Locks
        PROVE  /\ tail'[k] = None <=> Len(queue'[k]) = 0
               /\ tail'[k] # None => lockOwner'[tail'[k]] = k /\ Final(queue'[k], tail'[k][1])
    <3>1. CASE k = l
      BY <1>2, <1>6, <1>9, <1>11, <1>14, <3>1 DEF IInv, TypeOK
    <3>2. CASE k # l
      <4>1. tail'[k] = tail[k]
        BY <3>2 DEF IInv, TypeOK
      <4>2. tail[k] # None => tail[k] \in Nodes /\ tail[k] # n
        BY <1>2 DEF IInv, TypeOK, Pointed, Tails
      <4>3. QED
        BY <1>5, <1>9, <1>11, <3>2, <4>1, <4>2 DEF IInv, Pointed, Tails
    <3>3. QED
      BY <3>1, <3>2
  <2>2. QED
    BY <2>1 DEF Tails
<1>18. Nexts'
  <2>1. ASSUME NEW m \in Nodes, NEW k \in Locks, lockOwner'[m] = k, next'[m] # None
        PROVE  /\ lockOwner'[next'[m]] = k
               /\ Before(queue'[k], m[1], next'[m][1]) /\ pc'[next'[m][1]] # "link"
    <3>1. m # n /\ lockOwner[m] = k /\ next'[m] = next[m] /\ next[m] \in Nodes
      BY <1>5, <1>6, <2>1 DEF IInv, TypeOK
    <3>2. /\ lockOwner[next[m]] = k /\ Before(queue[k], m[1], next[m][1]) /\ pc[next[m][1]] # "link"
      BY <2>1, <3>1 DEF IInv, Pointed, Nexts
    <3>3. next[m] # n /\ next[m][1] \in Threads /\ m[1] \in Threads
      BY <1>2, <3>1, <3>2, NodeParts
    <3>4. next[m][1] # t
      BY <1>13, <3>2, <3>3
    <3>5. Before(queue'[k], m[1], next[m][1])
      BY <1>9, <1>11, <1>14, <3>2
    <3>6. QED
      BY <1>5, <3>1, <3>2, <3>3, <3>4, <3>5
  <2>2. ASSUME NEW m \in Nodes, NEW k \in Locks, lockOwner'[m] = k,
               NEW u \in Threads, Before(queue'[k], m[1], u), pc'[u] # "link"
        PROVE  next'[m] # None
    <3>1. CASE m = n
      <4>1. Before(r, t, u)
        <5>1. k = l /\ n[1] = t
          BY <1>6, <2>2, <3>1
        <5>2. Before(queue'[l], t, u)
          BY <2>2, <3>1, <5>1
        <5>3. QED
          BY <1>11, <5>2
      <4>2. QED
        BY <1>11, <1>14, <1>15, <4>1
    <3>2. CASE m # n
      <4>1. Before(queue[k], m[1], u)
        <5>1. CASE k # l
          BY <1>11, <2>2, <5>1
        <5>2. CASE k = l
          <6>1. Before(r, m[1], u)
            BY <1>11, <2>2, <5>2
          <6>2. Before(q, m[1], u) \/ (Final(q, m[1]) /\ u = t)
            BY <1>14, <6>1
          <6>3. ~(Final(q, m[1]) /\ u = t)
            BY <1>1, <1>12, <1>15, <2>2
          <6>4. QED
            BY <1>9, <5>2, <6>2, <6>3
        <5>3. QED
          BY <5>1, <5>2
      <4>2. u # t /\ m[1] \in Threads
        BY <1>13, <4>1, NodeParts
      <4>3. QED
        BY <1>5, <2>2, <3>2, <4>1, <4>2 DEF IInv, Pointed, Nexts
    <3>3. QED
      BY <3>1, <3>2
  <2>3. QED
    BY <2>1, <2>2 DEF Nexts
<1>19. Preds'
  <2>1. ASSUME NEW u \in Threads, pc'[u] = "link"
        PROVE  /\ pred'[u] # None /\ lockOwner'[pred'[u]] = target'[u]
               /\ Before(queue'[target'[u]], pred'[u][1], u)
    <3>1. CASE u = t
      <4>1. tail[l] # None /\ pred'[t] = tail[l] /\ target'[t] = l
        BY <2>1, <3>1
      <4>2. tail[l] \in Nodes /\ lockOwner[tail[l]] = l /\ Final(q, tail[l][1])
        BY <1>9, <4>1 DEF IInv, TypeOK, Pointed, Tails
      <4>3. tail[l] # n
        BY <1>2, <4>2
      <4>4. Before(r, tail[l][1], t)
        BY <1>14, <4>2
      <4>5. lockOwner'[tail[l]] = l /\ tail[l] # None
        BY <1>5, <4>1, <4>2, <4>3
      <4>6. queue'[target'[t]] = r
        BY <1>11, <4>1
      <4>7. QED
        BY <3>1, <4>1, <4>4, <4>5, <4>6
    <3>2. CASE u # t
      <4>1. pc[u] = "link" /\ target'[u] = target[u] /\ pred'[u] = pred[u]
        BY <2>1, <3>2
      <4>2. target[u] \in Locks
        BY <1>7, <4>1 DEF Waiting
      <4>3. /\ pred[u] \in Nodes /\ pred[u] # None /\ lockOwner[pred[u]] = target[u]
            /\ Before(queue[target[u]], pred[u][1], u)
        BY <4>1 DEF IInv, TypeOK, Pointed, Preds
      <4>4. pred[u] # n
        BY <1>2, <4>2, <4>3
      <4>5. Before(queue'[target[u]], pred[u][1], u)
        BY <1>9, <1>11, <1>14, <4>2, <4>3
      <4>6. QED
        BY <1>5, <4>1, <4>3, <4>4, <4>5
    <3>3. QED
      BY <3>1, <3>2
  <2>2. QED
    BY <2>1 DEF Preds
<1>20. Succs'
  <2>1. ASSUME NEW u \in Threads, pc'[u] = "pass"
        PROVE  succ'[u] # None /\ succ'[u] = next'[node'[u]]
    <3>1. u # t
      BY <1>1, <2>1 DEF Releasing
    <3>2. pc[u] = "pass" /\ node'[u] = node[u]
      BY <2>1, <3>1
    <3>3. node[u] \in Nodes /\ node[u] # n
      BY <1>7, <3>2 DEF Releasing
    <3>4. QED
      BY <1>5, <3>2, <3>3 DEF IInv, Pointed, Succs
  <2>2. QED
    BY <2>1 DEF Succs
<1>21. Granted'
  <2>1. ASSUME NEW k \in Locks, NEW u \in Threads, First(queue'[k], u)
        PROVE  k \in held'[u] \/ (pc'[u] = "spin" /\ target'[u] = k /\ ~locked'[node'[u]])
    <3>1. CASE First(queue[k], u)
      <4>1. k \in held[u] \/ (pc[u] = "spin" /\ target[u] = k /\ ~locked[node[u]])
        BY <3>1 DEF IInv, Granted
      <4>2. CASE k \in held[u]
        BY <4>2
      <4>3. CASE pc[u] = "spin" /\ target[u] = k /\ ~locked[node[u]]
        <5>1. u # t /\ node[u] \in Nodes /\ node[u] # n
          BY <1>7, <4>3 DEF Waiting
        <5>2. QED
          BY <1>5, <4>3, <5>1
      <4>4. QED
        BY <4>1, <4>2, <4>3
    <3>2. CASE ~First(queue[k], u)
      <4>1. k = l /\ Len(q) = 0 /\ u = t
        BY <1>9, <1>11, <1>14, <2>1, <3>2
      <4>2. QED
        BY <1>12, <4>1
    <3>3. QED
      BY <3>1, <3>2
  <2>2. ASSUME NEW k \in Locks, NEW u \in Threads, NEW v \in Threads, Before(queue'[k], v, u)
        PROVE  pc'[u] \in Waiting /\ target'[u] = k /\ locked'[node'[u]]
    <3>1. CASE Before(queue[k], v, u)
      <4>1. pc[u] \in Waiting /\ target[u] = k /\ locked[node[u]]
        BY <3>1 DEF IInv, Granted
      <4>2. u # t /\ node[u] \in Nodes /\ node[u] # n
        BY <1>7, <4>1
      <4>3. QED
        BY <1>5, <4>1, <4>2
    <3>2. CASE ~Before(queue[k], v, u)
      <4>1. k = l /\ Final(q, v) /\ u = t
        BY <1>9, <1>11, <1>14, <2>2, <3>2
      <4>2. tail[l] # None
        BY <1>12, <1>15, <4>1
      <4>3. QED
        BY <1>1, <1>6, <4>1, <4>2
    <3>3. QED
      BY <3>1, <3>2
  <2>3. QED
    BY <2>1, <2>2 DEF Granted
<1>22. QED
  BY <1>8, <1>16, <1>17, <1>18, <1>19, <1>20, <1>21 DEF Pointed

\* A waiter links itself to the node before it, which no one has linked to.
LEMMA Link ==
  ASSUME IInv, TypeOK', NEW t \in Threads, LinkPred(t)
  PROVE  NodesUsed' /\ Queued' /\ Pointed' /\ Granted'
<1>1. pc[t] = "link" /\ t \in Threads
  BY DEF LinkPred, Goto
<1>2. PICK l \in Locks : l = target[t]
  BY <1>1 DEF IInv, TypeOK
<1>3. PICK p \in Nodes : p = pred[t] /\ lockOwner[p] = l /\ Before(queue[l], p[1], t)
  BY <1>1, <1>2 DEF IInv, TypeOK, Pointed, Preds
<1>4. PICK m \in Nodes : m = node[t] /\ m[1] = t /\ lockOwner[m] = l
  BY <1>1, <1>2 DEF IInv, NodesUsed, Waiting
<1>5. l # None /\ \A n \in Nodes : n # None /\ n[1] \in Threads
  BY HookAssumption, NodeParts
<1>6. /\ UNCHANGED <<tail, locked, lockOwner, node, succ, queue, target, held>>
      /\ next'[p] = m /\ \A n \in Nodes : n # p => next'[n] = next[n]
      /\ pc'[t] = "spin" /\ \A u \in Threads : u # t => pc'[u] = pc[u] /\ pred'[u] = pred[u]
  BY <1>3, <1>4 DEF LinkPred, Goto, IInv, TypeOK
<1>7. \A u \in Threads : \A k : Engaged(u, k)' <=> Engaged(u, k)
  BY <1>1, <1>6 DEF Engaged, Waiting
<1>8. \A u, v : Before(queue[l], p[1], u) /\ Before(queue[l], p[1], v) => u = v
  BY QueueFacts DEF IInv, TypeOK, Queued
<1>9. \A u, v : Before(queue[l], u, t) /\ Before(queue[l], v, t) => u = v
  BY QueueFacts DEF IInv, TypeOK, Queued
<1>10. next[p] = None
  <2> SUFFICES ASSUME next[p] # None
               PROVE  FALSE
    OBVIOUS
  <2>1. Before(queue[l], p[1], next[p][1]) /\ pc[next[p][1]] # "link"
    BY <1>3 DEF IInv, Pointed, Nexts
  <2>2. QED
    BY <1>1, <1>3, <1>8, <2>1
<1>11. NodesUsed'
  <2>1. \A n \in Nodes : lockOwner[n] = None => next'[n] = None /\ ~locked[n]
    BY <1>3, <1>5, <1>6 DEF IInv, NodesUsed
  <2>2. \A n \in Nodes : lockOwner[n] # None => Engaged(n[1], lockOwner[n])'
    BY <1>5, <1>6, <1>7 DEF IInv, NodesUsed
  <2>3. \A u \in Threads : pc'[u] \in Waiting \cup Releasing => pc[u] \in Waiting \cup Releasing
    BY <1>1, <1>6 DEF Waiting
  <2>4. QED
    BY <1>6, <1>7, <2>1, <2>2, <2>3 DEF IInv, NodesUsed
<1>12. Queued'
  BY <1>6, <1>7 DEF IInv, Queued
<1>13. Tails'
  BY <1>6 DEF IInv, Pointed, Tails
<1>14. Nexts'
  <2>1. ASSUME NEW n \in Nodes, NEW k \in Locks, lockOwner[n] = k, next'[n] # None
        PROVE  /\ lockOwner[next'[n]] = k
               /\ Before(queue[k], n[1], next'[n][1]) /\ pc'[next'[n][1]] # "link"
    <3>1. CASE n = p
      BY <1>3, <1>4, <1>6, <2>1, <3>1
    <3>2. CASE n # p
      <4>1. next'[n] = next[n] /\ next[n] \in Nodes
        BY <1>6, <2>1, <3>2 DEF IInv, TypeOK
      <4>2. /\ lockOwner[next[n]] = k /\ Before(queue[k], n[1], next[n][1])
            /\ pc[next[n][1]] # "link"
        BY <2>1, <4>1 DEF IInv, Pointed, Nexts
      <4>3. pc'[next[n][1]] # "link"
        BY <1>1, <1>5, <1>6, <4>1, <4>2
      <4>4. QED
        BY <4>1, <4>2, <4>3
    <3>3. QED
      BY <3>1, <3>2
  <2>2. ASSUME NEW n \in Nodes, NEW k \in Locks, lockOwner[n] = k,
               NEW u \in Threads, Before(queue[k], n[1], u), pc'[u] # "link"
        PROVE  next'[n] # None
    <3>1. CASE n = p
      BY <1>5, <1>6, <3>1
    <3>2. CASE n # p /\ u = t
      <4>1. k = l
        BY <1>2, <1>5, <2>2, <3>2 DEF IInv, Granted
      <4>2. n[1] = p[1]
        BY <1>3, <1>9, <2>2, <3>2, <4>1
      <4>3. QED
        BY <1>3, <1>5, <2>2, <3>2, <4>1, <4>2 DEF IInv, NodesUsed
    <3>3. CASE n # p /\ u # t
      BY <1>6, <2>2, <3>3 DEF IInv, Pointed, Nexts
    <3>4. QED
      BY <3>1, <3>2, <3>3
  <2>3. QED
    BY <1>6, <2>1, <2>2 DEF Nexts
<1>15. Preds'
  BY <1>6 DEF IInv, Pointed, Preds
<1>16. Succs'
  <2>1. ASSUME NEW u \in Threads, pc'[u] = "pass"
        PROVE  succ[u] # None /\ succ[u] = next'[node[u]]
    <3>1. pc[u] = "pass"
      BY <1>6, <2>1
    <3>2. succ[u] # None /\ succ[u] = next[node[u]] /\ node[u] \in Nodes
      BY <3>1 DEF IInv, Pointed, Succs, NodesUsed, Releasing
    <3>3. QED
      BY <1>6, <1>10, <3>2
  <2>2. QED
    BY <1>6, <2>1 DEF Succs
<1>17. Granted'
  <2>1. \A u \in Threads : pc[u] = "spin" => pc'[u] = "spin"
    BY <1>6
  <2>2. \A u \in Threads : pc[u] \in Waiting => pc'[u] \in Waiting
    BY <1>6 DEF Waiting
  <2>3. QED
    BY <1>6, <2>1, <2>2 DEF IInv, Granted
<1>18. QED
  BY <1>11, <1>12, <1>13, <1>14, <1>15, <1>16, <1>17 DEF Pointed

\* A waiter that has been told obtains the lock.
LEMMA Told ==
  ASSUME IInv, TypeOK', NEW t \in Threads, SpinLocked(t)
  PROVE  NodesUsed' /\ Queued' /\ Pointed' /\ Granted'
<1>1. pc[t] = "spin" /\ ~locked[node[t]]
  BY DEF SpinLocked, Goto
<1>2. PICK l \in Locks : l = target[t]
  BY <1>1 DEF IInv, TypeOK
<1>3. /\ UNCHANGED <<tail, next, locked, lockOwner, pred, succ, queue>>
      /\ pc'[t] = "idle" /\ held'[t] = held[t] \cup {l}
      /\ \A u \in Threads : u # t =>
            /\ pc'[u] = pc[u] /\ target'[u] = target[u]
            /\ held'[u] = held[u] /\ node'[u] = node[u]
  BY <1>2 DEF SpinLocked, Goto, Obtain, IInv, TypeOK
<1>4. \A u \in Threads : \A k \in Locks : Engaged(u, k)' <=> Engaged(u, k)
  BY <1>1, <1>2, <1>3 DEF Engaged, Waiting
<1>5. \A k \in Locks : \A v \in Threads : ~Before(queue[k], v, t)
  BY <1>1 DEF IInv, Granted
<1>6. NodesUsed'
  <2>1. \A n \in Nodes : n[1] \in Threads /\ (lockOwner[n] # None => lockOwner[n] \in Locks)
    BY NodeParts DEF IInv, TypeOK
  <2>2. \A u \in Threads : pc'[u] \in Waiting \cup Releasing => u # t
    BY <1>3 DEF Waiting, Releasing
  <2>3. \A n \in Nodes : lockOwner[n] # None => Engaged(n[1], lockOwner[n])'
    BY <1>3, <1>4, <2>1 DEF IInv, NodesUsed
  <2>4. QED
    BY <1>3, <1>4, <2>2, <2>3 DEF IInv, NodesUsed
<1>7. Queued'
  BY <1>3, <1>4 DEF IInv, Queued
<1>8. \A u \in Threads : pc'[u] = "link" <=> pc[u] = "link"
  BY <1>1, <1>3
<1>9. Tails' /\ Preds' /\ Succs'
  BY <1>1, <1>3, <1>8 DEF IInv, Pointed, Tails, Preds, Succs
<1>10. Nexts'
  <2>1. \A n \in Nodes : next[n] # None => next[n][1] \in Threads
    BY NodeParts DEF IInv, TypeOK
  <2>2. QED
    BY <1>3, <1>8, <2>1 DEF IInv, Pointed, Nexts
<1>11. Granted'
  <2>1. ASSUME NEW k \in Locks, NEW u \in Threads, First(queue[k], u)
        PROVE  k \in held'[u] \/ (pc'[u] = "spin" /\ target'[u] = k /\ ~locked[node'[u]])
    <3>1. CASE u = t
      BY <1>2, <1>3, <2>1, <3>1 DEF IInv, Granted
    <3>2. CASE u # t
      BY <1>3, <2>1, <3>2 DEF IInv, Granted
    <3>3. QED
      BY <3>1, <3>2
  <2>2. ASSUME NEW k \in Locks, NEW u \in Threads, NEW v \in Threads, Before(queue[k], v, u)
        PROVE  pc'[u] \in Waiting /\ target'[u] = k /\ locked[node'[u]]
    BY <1>3, <1>5, <2>2 DEF IInv, Granted
  <2>3. QED
    BY <1>3, <2>1, <2>2 DEF Granted
<1>12. QED
  BY <1>6, <1>7, <1>9, <1>10, <1>11 DEF Pointed

\* A release: the first of the queue leaves it and frees its node, and either
\* nobody is behind it, or its successor is told.
Dequeued(t, l, n) ==
    /\ l = target[t] /\ n = node[t] /\ pc'[t] = "idle"
    /\ held'[t] = held[t] \ {l}
    /\ lockOwner' = [lockOwner EXCEPT ![n] = None]
    /\ next' = [next EXCEPT ![n] = None]
    /\ queue' = [queue EXCEPT ![l] = Tail(@)]
    /\ pred' = pred
    /\ \A u \in Threads : u # t =>
        /\ pc'[u] = pc[u] /\ target'[u] = target[u] /\ held'[u] = held[u]
        /\ node'[u] = node[u] /\ succ'[u] = succ[u]
    /\ \/ /\ pc[t] = "detach" /\ tail[l] = n
          /\ tail' = [tail EXCEPT ![l] = None] /\ locked' = [locked EXCEPT ![n] = FALSE]
       \/ /\ pc[t] = "pass" /\ tail' = tail
          /\ locked' = [locked EXCEPT ![succ[t]] = FALSE, ![n] = FALSE]

LEMMA Dequeue ==
  ASSUME IInv, TypeOK', NEW t \in Threads, NEW l \in Locks, NEW n \in Nodes, Dequeued(t, l, n)
  PROVE  NodesUsed' /\ Queued' /\ Pointed' /\ Granted'
<1> USE DEF Dequeued
<1>1. pc[t] \in Releasing /\ pc[t] \notin Waiting
  BY DEF Releasing, Waiting
<1>2. l \in held[t] /\ lockOwner[n] = l /\ n[1] = t
  BY <1>1 DEF IInv, Nesting, NodesUsed
<1>3. l # None /\ None \notin Locks /\ \A m \in Nodes : m # None /\ m[1] \in Threads
  BY HookAssumption, NodeParts
<1>4. PICK q \in Seq(Threads) : q = queue[l]
  BY DEF IInv, TypeOK
<1>5. PICK r : r = Shorter(q)
  OBVIOUS
<1>6. /\ Once(q) /\ queue'[l] = r
      /\ \A k \in Locks : k # l => queue'[k] = queue[k]
  BY <1>4, <1>5 DEF IInv, TypeOK, Queued, Shorter
<1>7. \A k \in Locks : \A v \in Threads : ~Before(queue[k], v, t)
  BY <1>1 DEF IInv, Granted
<1>8. First(q, t)
  <2>1. In(q, t)
    BY <1>2, <1>4 DEF IInv, Queued, Engaged
  <2>2. First(q, t) \/ \E u \in Threads : Before(q, u, t)
    BY <1>6, <2>1, QueueFacts
  <2>3. QED
    BY <1>4, <1>7, <2>2
<1>9. /\ r \in Seq(Threads) /\ Once(r)
      /\ Len(r) = 0 <=> Final(q, t)
      /\ \A u : In(r, u) <=> In(q, u) /\ u # t
      /\ \A u, v : Before(r, u, v) <=> Before(q, u, v) /\ u # t
      /\ \A u : First(r, u) <=> Before(q, t, u)
      /\ \A u : Final(r, u) <=> Final(q, u) /\ u # t
  BY <1>5, <1>6, <1>8, QueueTail
<1>10. /\ \A u, v : Before(q, u, v) => ~Final(q, u)
       /\ \A u, v : Before(q, t, u) /\ Before(q, t, v) => u = v
       /\ \A u, v : Before(r, u, v) => ~First(r, v)
       /\ Len(q) # 0
  BY <1>6, <1>8, <1>9, QueueFacts DEF First
<1>11. \A m \in Nodes : m # n => lockOwner'[m] = lockOwner[m] /\ next'[m] = next[m]
  BY DEF IInv, TypeOK
<1>12. lockOwner'[n] = None /\ next'[n] = None
  BY DEF IInv, TypeOK
<1>13. \A m \in Nodes : m[1] = t /\ lockOwner[m] = l => m = n
  BY <1>2, <1>3 DEF IInv, NodesUsed
<1>14. \A u \in Threads : \A k \in Locks : Engaged(u, k)' <=> Engaged(u, k) /\ ~(u = t /\ k = l)
  <2>1. pc'[t] \notin Waiting
    BY DEF Waiting
  <2>2. QED
    BY <1>1, <2>1 DEF Engaged
<1>15. \A u \in Threads : u # t /\ pc[u] \in Waiting \cup Releasing =>
          node[u] \in Nodes /\ node[u] # n /\ node[u][1] = u /\ lockOwner[node[u]] = target[u]
  BY <1>2 DEF IInv, NodesUsed
<1>16. pc[t] = "pass" =>
          \E s \in Nodes : /\ s = succ[t] /\ lockOwner[s] = l /\ s # n
                           /\ Before(q, t, s[1]) /\ pc[s[1]] = "spin" /\ node[s[1]] = s
  <2> SUFFICES ASSUME pc[t] = "pass"
               PROVE  \E s \in Nodes : /\ s = succ[t] /\ lockOwner[s] = l /\ s # n
                                       /\ Before(q, t, s[1]) /\ pc[s[1]] = "spin" /\ node[s[1]] = s
    OBVIOUS
  <2>1. PICK s \in Nodes : s = succ[t] /\ s = next[n]
    BY <1>3 DEF IInv, TypeOK, Pointed, Succs
  <2>2. lockOwner[s] = l /\ Before(q, t, s[1]) /\ pc[s[1]] # "link" /\ s[1] \in Threads
    BY <1>2, <1>3, <1>4, <2>1 DEF IInv, Pointed, Nexts
  <2>3. pc[s[1]] \in Waiting /\ target[s[1]] = l
    BY <1>4, <2>2 DEF IInv, Granted
  <2>4. s[1] # t /\ s # n /\ pc[s[1]] = "spin"
    BY <1>1, <1>2, <2>2, <2>3 DEF Waiting
  <2>5. node[s[1]] = s
    BY <1>3, <1>15, <2>2, <2>3, <2>4 DEF IInv, NodesUsed
  <2>6. QED
    BY <2>1, <2>2, <2>4, <2>5
<1>17. (\A m \in Nodes : locked'[m] => locked[m]) /\ ~locked'[n]
  BY <1>16 DEF IInv, TypeOK
<1>18. ASSUME NEW u \in Threads, Before(q, t, u)
       PROVE  pc[t] = "pass" /\ pc[u] = "spin" /\ target[u] = l /\ ~locked'[node[u]] /\ u # t
  <2>1. pc[t] = "pass"
    BY <1>4, <1>10, <1>18, <1>2 DEF IInv, Pointed, Tails
  <2>2. PICK s \in Nodes : /\ s = succ[t] /\ lockOwner[s] = l /\ s # n
                           /\ Before(q, t, s[1]) /\ pc[s[1]] = "spin" /\ node[s[1]] = s
    BY <1>16, <2>1
  <2>3. s[1] = u
    BY <1>10, <1>18, <2>2
  <2>4. target[u] = l /\ u # t
    BY <1>4, <1>7, <1>18 DEF IInv, Granted
  <2>5. ~locked'[s]
    BY <2>1, <2>2 DEF IInv, TypeOK
  <2>6. QED
    BY <2>1, <2>2, <2>3, <2>4, <2>5
<1>19. ASSUME NEW k \in Locks, NEW u \in Threads, NEW v \in Threads, Before(queue'[k], v, u)
       PROVE  /\ pc[u] \in Waiting /\ target[u] = k /\ u # t
              /\ node[u] \in Nodes /\ locked'[node[u]]
  <2>1. Before(queue[k], v, u)
    BY <1>4, <1>6, <1>9, <1>19
  <2>2. pc[u] \in Waiting /\ target[u] = k /\ locked[node[u]] /\ u # t
    BY <1>7, <2>1 DEF IInv, Granted
  <2>3. node[u] \in Nodes /\ node[u] # n
    BY <1>15, <2>2
  <2>4. CASE pc[t] = "detach"
    BY <2>2, <2>3, <2>4 DEF IInv, TypeOK
  <2>5. CASE pc[t] = "pass"
    <3>1. PICK s \in Nodes : /\ s = succ[t] /\ lockOwner[s] = l /\ s # n
                             /\ Before(q, t, s[1]) /\ pc[s[1]] = "spin" /\ node[s[1]] = s
      BY <1>16, <2>5
    <3>2. node[u] # s
      <4> SUFFICES ASSUME node[u] = s
                   PROVE  FALSE
        OBVIOUS
      <4>1. k = l /\ s[1] = u
        BY <1>15, <2>2, <3>1
      <4>2. Before(r, v, u) /\ First(r, u)
        BY <1>6, <1>9, <1>19, <3>1, <4>1
      <4>3. QED
        BY <1>10, <4>2
    <3>3. QED
      BY <2>2, <2>3, <2>5, <3>1, <3>2 DEF IInv, TypeOK
  <2>6. QED
    BY <2>2, <2>3, <2>4, <2>5
<1>20. NodesUsed'
  <2>1. ASSUME NEW m \in Nodes, lockOwner'[m] # None
        PROVE  Engaged(m[1], lockOwner[m])' /\ lockOwner'[m] = lockOwner[m]
    <3>1. m # n /\ lockOwner'[m] = lockOwner[m] /\ lockOwner[m] \in Locks /\ m[1] \in Threads
      BY <1>3, <1>11, <1>12, <2>1 DEF IInv, TypeOK
    <3>2. Engaged(m[1], lockOwner[m]) /\ ~(m[1] = t /\ lockOwner[m] = l)
      BY <1>3, <1>13, <2>1, <3>1 DEF IInv, NodesUsed
    <3>3. QED
      BY <1>14, <3>1, <3>2 DEF Engaged
  <2>2. ASSUME NEW u \in Threads, NEW k \in Locks, Engaged(u, k)'
        PROVE  \E m \in Nodes : m[1] = u /\ lockOwner'[m] = k
    <3>1. Engaged(u, k) /\ ~(u = t /\ k = l)
      BY <1>14, <2>2
    <3>2. PICK m \in Nodes : m[1] = u /\ lockOwner[m] = k
      BY <3>1 DEF IInv, NodesUsed
    <3>3. QED
      BY <1>2, <1>11, <3>1, <3>2
  <2>3. ASSUME NEW m \in Nodes, NEW o \in Nodes,
               m[1] = o[1], lockOwner'[m] = lockOwner'[o], lockOwner'[m] # None
        PROVE  m = o
    BY <1>11, <1>12, <2>3 DEF IInv, NodesUsed
  <2>4. \A m \in Nodes : lockOwner'[m] = None => next'[m] = None /\ ~locked'[m]
    BY <1>11, <1>12, <1>17 DEF IInv, NodesUsed
  <2>5. ASSUME NEW u \in Threads, pc'[u] \in Waiting \cup Releasing
        PROVE  node'[u] \in Nodes /\ node'[u][1] = u /\ lockOwner'[node'[u]] = target'[u]
    <3>1. u # t
      BY <2>5 DEF Waiting, Releasing
    <3>2. QED
      BY <1>11, <1>15, <2>5, <3>1
  <2>6. QED
    BY <2>1, <2>2, <2>3, <2>4, <2>5 DEF NodesUsed
<1>21. Queued'
  <2>1. ASSUME NEW k \in Locks
        PROVE  Once(queue'[k]) /\ \A u \in Threads : In(queue'[k], u) <=> Engaged(u, k)'
    <3>1. CASE k = l
      BY <1>4, <1>6, <1>9, <1>14, <3>1 DEF IInv, Queued
    <3>2. CASE k # l
      BY <1>6, <1>14, <3>2 DEF IInv, Queued
    <3>3. QED
      BY <3>1, <3>2
  <2>2. QED
    BY <2>1 DEF Queued
<1>22. Tails'
  <2>1. tail[l] # None /\ tail[l] \in Nodes /\ lockOwner[tail[l]] = l /\ Final(q, tail[l][1])
    BY <1>4, <1>10 DEF IInv, TypeOK, Pointed, Tails
  <2>2. ASSUME NEW k \in Locks
        PROVE  /\ tail'[k] = None <=> Len(queue'[k]) = 0
               /\ tail'[k] # None => lockOwner'[tail'[k]] = k /\ Final(queue'[k], tail'[k][1])
    <3>1. CASE k = l /\ pc[t] = "detach"
      <4>1. tail'[l] = None /\ tail[l] = n
        BY <3>1 DEF IInv, TypeOK
      <4>2. Len(r) = 0
        BY <1>2, <1>9, <2>1, <4>1
      <4>3. QED
        BY <1>6, <3>1, <4>1, <4>2
    <3>2. CASE k = l /\ pc[t] = "pass"
      <4>1. tail'[l] = tail[l] /\ ~Final(q, t)
        BY <1>10, <1>16, <3>2
      <4>2. tail[l][1] # t /\ tail[l] # n
        BY <1>2, <2>1, <4>1
      <4>3. Len(r) # 0 /\ Final(r, tail[l][1])
        BY <1>9, <2>1, <4>1, <4>2
      <4>4. QED
        BY <1>6, <1>11, <2>1, <3>2, <4>1, <4>2, <4>3
    <3>3. CASE k # l
      <4>1. tail'[k] = tail[k]
        BY <3>3 DEF IInv, TypeOK
      <4>2. tail[k] # None => tail[k] \in Nodes /\ tail[k] # n
        BY <1>2, <3>3 DEF IInv, TypeOK, Pointed, Tails
      <4>3. QED
        BY <1>6, <1>11, <3>3, <4>1, <4>2 DEF IInv, Pointed, Tails
    <3>4. QED
      BY <3>1, <3>2, <3>3
  <2>3. QED
    BY <2>2 DEF Tails
<1>23. \A u \in Threads : pc'[u] = "link" <=> pc[u] = "link"
  BY <1>1 DEF Waiting
<1>24. \A k \in Locks : \A u \in Threads, v \in Threads :
          Before(queue'[k], u, v) <=> Before(queue[k], u, v) /\ ~(k = l /\ u = t)
  BY <1>4, <1>6, <1>9
<1>25. Nexts'
  <2>1. ASSUME NEW m \in Nodes, NEW k \in Locks, lockOwner'[m] = k, next'[m] # None
        PROVE  /\ lockOwner'[next'[m]] = k
               /\ Before(queue'[k], m[1], next'[m][1]) /\ pc'[next'[m][1]] # "link"
    <3>1. m # n /\ lockOwner[m] = k /\ next'[m] = next[m] /\ next[m] \in Nodes
      BY <1>11, <1>12, <2>1 DEF IInv, TypeOK
    <3>2. /\ lockOwner[next[m]] = k /\ Before(queue[k], m[1], next[m][1]) /\ pc[next[m][1]] # "link"
      BY <2>1, <3>1 DEF IInv, Pointed, Nexts
    <3>3. next[m][1] \in Threads /\ m[1] \in Threads
      BY <1>3, <3>1
    <3>4. next[m] # n
      BY <1>2, <1>7, <3>2, <3>3
    <3>5. ~(k = l /\ m[1] = t)
      BY <1>13, <3>1
    <3>6. QED
      BY <1>11, <1>23, <1>24, <3>1, <3>2, <3>3, <3>4, <3>5
  <2>2. ASSUME NEW m \in Nodes, NEW k \in Locks, lockOwner'[m] = k,
               NEW u \in Threads, Before(queue'[k], m[1], u), pc'[u] # "link"
        PROVE  next'[m] # None
    <3>1. m # n /\ m[1] \in Threads /\ lockOwner[m] = k
      BY <1>3, <1>11, <1>12, <2>2
    <3>2. Before(queue[k], m[1], u) /\ pc[u] # "link"
      BY <1>23, <1>24, <2>2, <3>1
    <3>3. QED
      BY <1>11, <3>1, <3>2 DEF IInv, Pointed, Nexts
  <2>3. QED
    BY <2>1, <2>2 DEF Nexts
<1>26. Preds'
  <2>1. ASSUME NEW u \in Threads, pc'[u] = "link"
        PROVE  /\ pred[u] # None /\ lockOwner'[pred[u]] = target'[u]
               /\ Before(queue'[target'[u]], pred[u][1], u)
    <3>1. pc[u] = "link" /\ u # t /\ target'[u] = target[u]
      BY <1>23, <2>1
    <3>2. /\ pred[u] \in Nodes /\ lockOwner[pred[u]] = target[u]
          /\ Before(queue[target[u]], pred[u][1], u)
      BY <3>1 DEF IInv, TypeOK, Pointed, Preds
    <3>3. target[u] \in Locks
      BY <1>15, <3>1 DEF IInv, TypeOK
    <3>4. ~(target[u] = l /\ pred[u][1] = t)
      BY <1>4, <1>18, <3>1, <3>2
    <3>5. pred[u] # n
      BY <1>2, <3>2, <3>4
    <3>6. QED
      BY <1>3, <1>11, <1>24, <3>1, <3>2, <3>3, <3>4, <3>5
  <2>2. QED
    BY <2>1 DEF Preds
<1>27. Succs'
  <2>1. ASSUME NEW u \in Threads, pc'[u] = "pass"
        PROVE  succ'[u] # None /\ succ'[u] = next'[node'[u]]
    <3>1. u # t /\ pc[u] = "pass" /\ node'[u] = node[u] /\ succ'[u] = succ[u]
      BY <2>1
    <3>2. node[u] \in Nodes /\ node[u] # n
      BY <1>15, <3>1 DEF Releasing
    <3>3. QED
      BY <1>11, <3>1, <3>2 DEF IInv, Pointed, Succs
  <2>2. QED
    BY <2>1 DEF Succs
<1>28. Granted'
  <2>1. ASSUME NEW k \in Locks, NEW u \in Threads, First(queue'[k], u)
        PROVE  k \in held'[u] \/ (pc'[u] = "spin" /\ target'[u] = k /\ ~locked'[node'[u]])
    <3>1. CASE k = l
      <4>1. Before(q, t, u)
        BY <1>6, <1>9, <2>1, <3>1
      <4>2. QED
        BY <1>18, <3>1, <4>1
    <3>2. CASE k # l
      <4>1. k \in held[u] \/ (pc[u] = "spin" /\ target[u] = k /\ ~locked[node[u]])
        BY <1>6, <2>1, <3>2 DEF IInv, Granted
      <4>2. CASE k \in held[u]
        BY <3>2, <4>2
      <4>3. CASE pc[u] = "spin" /\ target[u] = k /\ ~locked[node[u]]
        <5>1. u # t /\ node[u] \in Nodes
          BY <1>1, <1>15, <4>3 DEF Waiting
        <5>2. QED
          BY <1>17, <4>3, <5>1
      <4>4. QED
        BY <4>1, <4>2, <4>3
    <3>3. QED
      BY <3>1, <3>2
  <2>2. ASSUME NEW k \in Locks, NEW u \in Threads, NEW v \in Threads, Before(queue'[k], v, u)
        PROVE  pc'[u] \in Waiting /\ target'[u] = k /\ locked'[node'[u]]
    BY <1>19, <2>2
  <2>3. QED
    BY <2>1, <2>2 DEF Granted
<1>29. QED
  BY <1>20, <1>21, <1>22, <1>25, <1>26, <1>27, <1>28 DEF Pointed

----------------------------------------------------------------------------
(* The invariant is inductive.                                             *)

LEMMA Initial == Init => IInv
<1> SUFFICES ASSUME Init PROVE IInv
  OBVIOUS
<1> USE HookAssumption, NodeParts DEF Init, HookInit, McsInit
<1>1. /\ \A t \in Threads : pc[t] = "idle" /\ target[t] = None /\ held[t] = {}
      /\ \A n \in Nodes : lockOwner[n] = None /\ next[n] = None /\ ~locked[n]
      /\ \A l \in Locks : tail[l] = None /\ queue[l] = <<>>
  OBVIOUS
<1>2. "idle" \notin Looking \cup Creating \cup Trying \cup Waiting \cup Releasing
  BY DEF Looking, Creating, Trying, Waiting, Releasing
<1>3. TypeOK
  BY DEF TypeOK, Labels
<1>4. OneState
  BY <1>1, <1>2 DEF OneState
<1>5. Nesting
  <2>1. IsFiniteSet({}) /\ Cardinality({}) = 0
    BY FS_EmptySet
  <2>2. 0 <= MaxHeld
    OBVIOUS
  <2>3. QED
    BY <1>1, <1>2, <2>1, <2>2 DEF Nesting
<1>6. NodesUsed
  BY <1>1, <1>2 DEF NodesUsed, Engaged
<1>7. \A t : ~In(<<>>, t) /\ ~First(<<>>, t) /\ \A u : ~Before(<<>>, u, t)
  BY DEF In, First, Before
<1>8. Queued
  <2>1. Once(<<>>)
    BY DEF Once
  <2>2. QED
    BY <1>1, <1>2, <1>7, <2>1 DEF Queued, Engaged
<1>9. Pointed
  <2>1. Len(<<>>) = 0
    OBVIOUS
  <2>2. Tails /\ Nexts
    BY <1>1, <2>1 DEF Tails, Nexts
  <2>3. Preds /\ Succs
    BY <1>1 DEF Preds, Succs
  <2>4. QED
    BY <2>2, <2>3 DEF Pointed
<1>10. Granted
  BY <1>1, <1>7 DEF Granted
<1>11. QED
  BY <1>3, <1>4, <1>5, <1>6, <1>8, <1>9, <1>10 DEF IInv

\* A mutex that nobody holds or waits for has an empty queue.
LEMMA Unengaged ==
  ASSUME IInv, NEW l \in Locks, \A t \in Threads : ~Engaged(t, l)
  PROVE  Len(queue[l]) = 0 /\ tail[l] = None
<1>1. PICK q \in Seq(Threads) : q = queue[l]
  BY DEF IInv, TypeOK
<1>2. \A t : ~First(q, t)
  BY <1>1, QueueFacts DEF IInv, Queued
<1>3. Len(q) = 0
  BY <1>2 DEF First
<1>4. QED
  BY <1>1, <1>3 DEF IInv, Pointed, Tails

\* What moves a thread from label to label, with the lock of its call.
LEMMA CallTypes ==
  ASSUME IInv, NEW t \in Threads, NEW a \in Labels, pc' = [pc EXCEPT ![t] = a],
         \/ target' = target /\ pc[t] # "idle" /\ a # "idle"
         \/ a # "idle" /\ \E l \in Locks : target' = [target EXCEPT ![t] = l]
         \/ a = "idle" /\ target' = [target EXCEPT ![t] = None]
  PROVE  /\ pc' \in [Threads -> Labels] /\ target' \in [Threads -> Locks \cup {None}]
         /\ \A u \in Threads : pc'[u] = "idle" <=> target'[u] = None
         /\ pc'[t] = a /\ \A u \in Threads : u # t => pc'[u] = pc[u] /\ target'[u] = target[u]
BY HookAssumption DEF IInv, TypeOK

LEMMA LabelSets ==
  /\ "idle" \in Labels /\ Looking \subseteq Labels /\ Creating \subseteq Labels
  /\ Trying \subseteq Labels /\ Waiting \subseteq Labels /\ Releasing \subseteq Labels
  /\ "idle" \notin Looking \cup Creating \cup Trying \cup Waiting \cup Releasing
  /\ \A x \in Looking : x \notin Creating \cup Trying \cup Waiting \cup Releasing
  /\ \A x \in Creating : x \notin Looking \cup Trying \cup Waiting \cup Releasing
  /\ \A x \in Trying : x \notin Looking \cup Creating \cup Waiting \cup Releasing
  /\ \A x \in Waiting : x \notin Looking \cup Creating \cup Trying \cup Releasing
  /\ \A x \in Releasing : x \notin Looking \cup Creating \cup Trying \cup Waiting
  /\ \A x \in Labels : x # "idle" =>
        x \in Looking \cup Creating \cup Trying \cup Waiting \cup Releasing
  /\ {"try", "trylock", "swap"} \subseteq Trying
  /\ {"link", "spin"} \subseteq Waiting
  /\ {"detach", "await_next", "pass"} \subseteq Releasing
BY DEF Labels, Looking, Creating, Trying, Waiting, Releasing

LEMMA CallLabels ==
  \A call \in DOMAIN LooksAt :
      LooksAt[call] \in Looking /\ CreatesAt[call] \in Creating /\ call \in Trying
<1>1. DOMAIN LooksAt = {"try", "trylock"}
  BY DEF LooksAt
<1>2. LooksAt["try"] \in Looking /\ CreatesAt["try"] \in Creating /\ "try" \in Trying
  BY DEF LooksAt, CreatesAt, Looking, Creating, Trying
<1>3. LooksAt["trylock"] \in Looking /\ CreatesAt["trylock"] \in Creating /\ "trylock" \in Trying
  BY DEF LooksAt, CreatesAt, Looking, Creating, Trying
<1>4. QED
  BY <1>1, <1>2, <1>3

\* A thread that moves to where it finds a state leaves the states as they are.
LEMMA SameState ==
  ASSUME IInv, NEW t \in Threads, cell' = cell,
         \A u \in Threads : u # t => pc'[u] = pc[u] /\ target'[u] = target[u] /\ held'[u] = held[u],
         pc'[t] \notin Creating,
         pc'[t] \in Trying \cup Waiting \cup Releasing => cell[target'[t]] = "state",
         \A l \in held'[t] : cell[l] = "state"
  PROVE  OneState'
BY DEF IInv, OneState

\* The steps of the life cycle and those of a call that leave the queues alone.
LEMMA EnterSteps ==
  ASSUME IInv, NEW t \in Threads, NEW l \in Locks,
         EnterLock(t, l) \/ EnterTrylock(t, l), UNCHANGED mcsVars
  PROVE  IInv'
<1>1. PICK call \in {"try", "trylock"} : Enter(t, l, call)
  BY DEF EnterLock, EnterTrylock
<1>2. LooksAt[call] \in Looking
  BY DEF LooksAt, Looking
<1>3. /\ pc[t] = "idle" /\ Cardinality(held[t]) < MaxHeld /\ UNCHANGED <<cell, held>>
      /\ target' = [target EXCEPT ![t] = l]
  BY <1>1 DEF Enter, Goto
<1>4. l \notin held[t]
  BY HookAssumption DEF EnterLock, EnterTrylock
<1>5. PICK a \in Looking \cup Trying : pc' = [pc EXCEPT ![t] = a] /\ (a \in Trying => cell[l] = "state")
  <2>1. CASE cell[l] = "state"
    BY <1>1, <2>1, LabelSets DEF Enter, Goto
  <2>2. CASE cell[l] # "state"
    BY <1>1, <1>2, <2>2, LabelSets DEF Enter, Goto
  <2>3. QED
    BY <2>1, <2>2
<1>6. a \in Labels /\ a # "idle" /\ a \notin Creating \cup Waiting \cup Releasing
  BY <1>5, LabelSets
<1>7. /\ pc' \in [Threads -> Labels] /\ target' \in [Threads -> Locks \cup {None}]
      /\ \A u \in Threads : pc'[u] = "idle" <=> target'[u] = None
      /\ pc'[t] = a /\ \A u \in Threads : u # t => pc'[u] = pc[u] /\ target'[u] = target[u]
  BY <1>3, <1>5, <1>6, CallTypes
<1>8. target'[t] = l
  BY <1>3 DEF IInv, TypeOK
<1>9. TypeOK'
  BY <1>3, <1>7 DEF IInv, TypeOK, mcsVars
<1>10. OneState'
  <2>1. \A k \in held'[t] : cell[k] = "state"
    BY <1>3 DEF IInv, OneState
  <2>2. QED
    BY <1>3, <1>5, <1>6, <1>7, <1>8, <2>1, SameState
<1>11. Nesting'
  BY <1>3, <1>4, <1>6, <1>7, <1>8 DEF IInv, Nesting
<1>12. NodesUsed' /\ Queued' /\ Pointed' /\ Granted'
  <2>1. pc[t] \notin Waiting /\ "pass" \in Releasing
    BY <1>3, LabelSets
  <2>2. QED
    BY <1>3, <1>6, <1>7, <1>9, <2>1, QuietStep DEF IInv, NodesUsed, Pointed, Succs, mcsVars
<1>13. QED
  BY <1>9, <1>10, <1>11, <1>12 DEF IInv

LEMMA ClaimStep ==
  ASSUME IInv, NEW t \in Threads, Claim(t), UNCHANGED mcsVars
  PROVE  IInv'
<1>1. PICK a \in Creating : pc[t] \in Looking /\ pc' = [pc EXCEPT ![t] = a]
  <2>1. PICK call \in DOMAIN LooksAt : Goto(t, LooksAt[call], CreatesAt[call])
    BY DEF Claim
  <2>2. QED
    BY <2>1, CallLabels DEF Goto
<1>2. pc[t] # "idle" /\ a \in Labels /\ a # "idle" /\ pc[t] \notin Waiting
      /\ a \notin Looking \cup Trying \cup Waiting \cup Releasing /\ "pass" \in Releasing
  BY <1>1, LabelSets
<1>3. PICK m \in Locks : m = target[t]
  BY <1>2 DEF IInv, TypeOK
<1>4. /\ cell[m] = "zero" /\ cell' = [cell EXCEPT ![m] = "SENTINEL"]
      /\ UNCHANGED <<target, held>>
  BY <1>3 DEF Claim
<1>5. /\ pc' \in [Threads -> Labels] /\ \A u \in Threads : pc'[u] = "idle" <=> target'[u] = None
      /\ pc'[t] = a /\ \A u \in Threads : u # t => pc'[u] = pc[u] /\ target'[u] = target[u]
  BY <1>1, <1>2, <1>4, CallTypes
<1>6. TypeOK'
  BY <1>4, <1>5 DEF IInv, TypeOK, mcsVars
<1>7. OneState'
  <2>1. cell'[m] = "SENTINEL" /\ \A k \in Locks : k # m => cell'[k] = cell[k]
    BY <1>4 DEF IInv, TypeOK
  <2>2. \A u \in Threads : pc[u] \in Creating \cup Trying \cup Waiting \cup Releasing =>
           target[u] \in Locks /\ target[u] # m
    <3>1. \A u \in Threads : pc[u] \in Creating \cup Trying \cup Waiting \cup Releasing => pc[u] # "idle"
      BY LabelSets
    <3>2. QED
      BY <1>4, <3>1 DEF IInv, OneState, TypeOK
  <2>3. \A u \in Threads : \A k \in held[u] : k \in Locks /\ k # m
    BY <1>4 DEF IInv, OneState, TypeOK
  <2>4. QED
    BY <1>2, <1>3, <1>4, <1>5, <2>1, <2>2, <2>3 DEF IInv, OneState
<1>8. Nesting'
  BY <1>1, <1>2, <1>4, <1>5 DEF IInv, Nesting
<1>9. NodesUsed' /\ Queued' /\ Pointed' /\ Granted'
  BY <1>2, <1>4, <1>5, <1>6, QuietStep DEF IInv, NodesUsed, Pointed, Succs, mcsVars
<1>10. QED
  BY <1>6, <1>7, <1>8, <1>9 DEF IInv

LEMMA FoundStep ==
  ASSUME IInv, NEW t \in Threads, Found(t), UNCHANGED mcsVars
  PROVE  IInv'
<1>1. PICK a \in Trying : pc[t] \in Looking /\ pc' = [pc EXCEPT ![t] = a]
  <2>1. PICK call \in DOMAIN LooksAt : Goto(t, LooksAt[call], call)
    BY DEF Found
  <2>2. QED
    BY <2>1, CallLabels DEF Goto
<1>2. pc[t] # "idle" /\ a \in Labels /\ a # "idle" /\ pc[t] \notin Waiting
      /\ a \notin Looking \cup Creating \cup Waiting \cup Releasing /\ "pass" \in Releasing
  BY <1>1, LabelSets
<1>3. cell[target[t]] = "state" /\ UNCHANGED <<cell, target, held>>
  BY DEF Found
<1>4. /\ pc' \in [Threads -> Labels] /\ \A u \in Threads : pc'[u] = "idle" <=> target'[u] = None
      /\ pc'[t] = a /\ \A u \in Threads : u # t => pc'[u] = pc[u] /\ target'[u] = target[u]
  BY <1>1, <1>2, <1>3, CallTypes
<1>5. TypeOK'
  BY <1>3, <1>4 DEF IInv, TypeOK, mcsVars
<1>6. OneState'
  <2>1. \A k \in held'[t] : cell[k] = "state"
    BY <1>3 DEF IInv, OneState
  <2>2. QED
    BY <1>2, <1>3, <1>4, <2>1, SameState
<1>7. Nesting'
  BY <1>1, <1>2, <1>3, <1>4 DEF IInv, Nesting
<1>8. NodesUsed' /\ Queued' /\ Pointed' /\ Granted'
  BY <1>2, <1>3, <1>4, <1>5, QuietStep DEF IInv, NodesUsed, Pointed, Succs, mcsVars
<1>9. QED
  BY <1>5, <1>6, <1>7, <1>8 DEF IInv

\* The creator of a state finds the queue empty: nobody can use the mutex yet.
LEMMA PublishStep ==
  ASSUME IInv, NEW t \in Threads, Publish(t), create_state(target[t])
  PROVE  IInv'
<1>1. PICK a \in Trying : pc[t] \in Creating /\ pc' = [pc EXCEPT ![t] = a]
  <2>1. PICK call \in DOMAIN LooksAt : Goto(t, CreatesAt[call], call)
    BY DEF Publish
  <2>2. QED
    BY <2>1, CallLabels DEF Goto
<1>2. pc[t] # "idle" /\ a \in Labels /\ a # "idle" /\ pc[t] \notin Waiting
      /\ a \notin Looking \cup Creating \cup Waiting \cup Releasing /\ "pass" \in Releasing
  BY <1>1, LabelSets
<1>3. PICK m \in Locks : m = target[t]
  BY <1>2 DEF IInv, TypeOK
<1>4. cell' = [cell EXCEPT ![m] = "state"] /\ UNCHANGED <<target, held>>
  BY <1>3 DEF Publish
<1>5. \A u \in Threads : ~Engaged(u, m)
  BY <1>1, <1>3 DEF IInv, OneState, Engaged
<1>6. tail[m] = None
  BY <1>5, Unengaged
<1>7. UNCHANGED mcsVars
  BY <1>3, <1>6 DEF IInv, TypeOK, create_state, mcsVars
<1>8. /\ pc' \in [Threads -> Labels] /\ \A u \in Threads : pc'[u] = "idle" <=> target'[u] = None
      /\ pc'[t] = a /\ \A u \in Threads : u # t => pc'[u] = pc[u] /\ target'[u] = target[u]
  BY <1>1, <1>2, <1>4, CallTypes
<1>9. TypeOK'
  BY <1>4, <1>7, <1>8 DEF IInv, TypeOK, mcsVars
<1>10. OneState'
  <2>1. cell'[m] = "state" /\ \A k \in Locks : k # m => cell'[k] = cell[k]
    BY <1>4 DEF IInv, TypeOK
  <2>2. \A u \in Threads : pc[u] \in Creating /\ u # t => target[u] # m
    BY <1>1, <1>3 DEF IInv, OneState
  <2>3. \A u \in Threads : pc[u] \in Creating \cup Trying \cup Waiting \cup Releasing => target[u] \in Locks
    <3>1. \A u \in Threads : pc[u] \in Creating \cup Trying \cup Waiting \cup Releasing => pc[u] # "idle"
      BY LabelSets
    <3>2. QED
      BY <3>1 DEF IInv, TypeOK
  <2>4. \A u \in Threads : \A k \in held[u] : k \in Locks
    BY DEF IInv, TypeOK
  <2>5. QED
    BY <1>2, <1>3, <1>4, <1>8, <2>1, <2>2, <2>3, <2>4 DEF IInv, OneState
<1>11. Nesting'
  BY <1>1, <1>2, <1>4, <1>8 DEF IInv, Nesting
<1>12. NodesUsed' /\ Queued' /\ Pointed' /\ Granted'
  BY <1>2, <1>4, <1>7, <1>8, <1>9, QuietStep DEF IInv, NodesUsed, Pointed, Succs, mcsVars
<1>13. QED
  BY <1>9, <1>10, <1>11, <1>12 DEF IInv

LEMMA FailSteps ==
  ASSUME IInv, NEW t \in Threads, FastPathFails(t) \/ TrylockFails(t)
  PROVE  IInv'
<1>1. PICK a \in {"swap", "idle"} :
        /\ pc' = [pc EXCEPT ![t] = a] /\ pc[t] \in {"try", "trylock"}
        /\ a = "swap" => target' = target
        /\ a = "idle" => target' = [target EXCEPT ![t] = None]
        /\ UNCHANGED <<cell, held, mcsVars>>
  BY DEF FastPathFails, GoSlow, TrylockFails, GiveUp, Goto
<1>2. /\ pc[t] # "idle" /\ pc[t] \in Trying /\ a \in Labels /\ (a # "idle" => a \in Trying)
      /\ a \notin Looking \cup Creating \cup Waiting \cup Releasing
      /\ pc[t] \notin Waiting /\ "pass" \in Releasing
  BY <1>1, LabelSets
<1>3. /\ pc' \in [Threads -> Labels] /\ target' \in [Threads -> Locks \cup {None}]
      /\ \A u \in Threads : pc'[u] = "idle" <=> target'[u] = None
      /\ pc'[t] = a /\ \A u \in Threads : u # t => pc'[u] = pc[u] /\ target'[u] = target[u]
  BY <1>1, <1>2, CallTypes
<1>4. TypeOK'
  BY <1>1, <1>3 DEF IInv, TypeOK, mcsVars
<1>5. a # "idle" => target'[t] = target[t]
  BY <1>1
<1>6. OneState'
  <2>1. cell[target[t]] = "state" /\ \A k \in held'[t] : cell[k] = "state"
    BY <1>1, <1>2 DEF IInv, OneState
  <2>2. "idle" \notin Trying \cup Waiting \cup Releasing
    BY LabelSets
  <2>3. QED
    BY <1>1, <1>2, <1>3, <1>5, <2>1, <2>2, SameState
<1>7. Nesting'
  <2>1. "idle" \notin Trying
    BY LabelSets
  <2>2. QED
    BY <1>1, <1>2, <1>3, <1>5, <2>1 DEF IInv, Nesting
<1>8. NodesUsed' /\ Queued' /\ Pointed' /\ Granted'
  BY <1>1, <1>2, <1>3, <1>4, QuietStep DEF IInv, NodesUsed, Pointed, Succs, mcsVars
<1>9. QED
  BY <1>4, <1>6, <1>7, <1>8 DEF IInv

LEMMA ReadStep ==
  ASSUME IInv, NEW t \in Threads, NEW l \in Locks, ReadNext(t, l)
  PROVE  IInv'
<1>1. PICK n \in Nodes : n = locked_thread_node(t, l) /\ n[1] = t /\ lockOwner[n] = l
  BY OwnNode DEF ReadNext
<1>2. l \in held[t] /\ pc[t] = "idle" /\ UNCHANGED <<cell, held>>
      /\ target' = [target EXCEPT ![t] = l]
  BY DEF ReadNext, Goto
<1>3. PICK a \in {"detach", "pass"} :
        pc' = [pc EXCEPT ![t] = a] /\ (a = "pass" => next[n] # None)
  BY <1>1 DEF ReadNext, Goto
<1>4. a \in Releasing /\ a \in Labels /\ a # "idle" /\ pc[t] \notin Waiting
      /\ a \notin Looking \cup Creating \cup Trying \cup Waiting /\ "pass" \in Releasing
  BY <1>2, <1>3, LabelSets
<1>5. /\ pc' \in [Threads -> Labels] /\ target' \in [Threads -> Locks \cup {None}]
      /\ \A u \in Threads : pc'[u] = "idle" <=> target'[u] = None
      /\ pc'[t] = a /\ \A u \in Threads : u # t => pc'[u] = pc[u] /\ target'[u] = target[u]
  BY <1>2, <1>3, <1>4, CallTypes
<1>6. /\ UNCHANGED <<tail, next, locked, lockOwner, pred, queue>>
      /\ node' = [node EXCEPT ![t] = n] /\ succ' = [succ EXCEPT ![t] = next[n]]
  BY <1>1 DEF ReadNext
<1>7. /\ node'[t] = n /\ succ'[t] = next[n] /\ target'[t] = l
      /\ \A u \in Threads : u # t => node'[u] = node[u] /\ succ'[u] = succ[u]
  BY <1>2, <1>6 DEF IInv, TypeOK
<1>8. TypeOK'
  BY <1>2, <1>5, <1>6 DEF IInv, TypeOK
<1>9. OneState'
  <2>1. \A k \in held[t] : cell[k] = "state"
    BY DEF IInv, OneState
  <2>2. QED
    BY <1>2, <1>4, <1>5, <1>7, <2>1, SameState
<1>10. Nesting'
  BY <1>2, <1>4, <1>5, <1>7 DEF IInv, Nesting
<1>11. NodesUsed' /\ Queued' /\ Pointed' /\ Granted'
  <2>1. \A u \in Threads : pc[u] \in Waiting \/ pc'[u] \in Waiting => u # t
    BY <1>4, <1>5
  <2>2. \A u \in Threads : pc'[u] \in Releasing =>
           node'[u] \in Nodes /\ node'[u][1] = u /\ lockOwner[node'[u]] = target'[u]
    BY <1>1, <1>5, <1>7 DEF IInv, NodesUsed
  <2>3. \A u \in Threads : pc'[u] = "pass" => succ'[u] # None /\ succ'[u] = next[node'[u]]
    BY <1>3, <1>5, <1>7 DEF IInv, Pointed, Succs
  <2>4. QED
    BY <1>2, <1>5, <1>6, <1>7, <1>8, <2>1, <2>2, <2>3, QuietStep
<1>12. QED
  BY <1>8, <1>9, <1>10, <1>11 DEF IInv

LEMMA AwaitSteps ==
  ASSUME IInv, NEW t \in Threads, DetachFails(t) \/ AwaitNext(t)
  PROVE  IInv'
<1>1. pc[t] \in Releasing /\ pc[t] # "idle"
  BY DEF DetachFails, AwaitNext, Goto, Releasing
<1>2. PICK n \in Nodes : n = node[t]
  BY <1>1 DEF IInv, NodesUsed
<1>3. PICK a \in {"await_next", "pass"} :
        /\ pc' = [pc EXCEPT ![t] = a]
        /\ a = "await_next" => succ' = succ
        /\ a = "pass" => next[n] # None /\ succ' = [succ EXCEPT ![t] = next[n]]
  BY <1>2 DEF DetachFails, AwaitNext, Goto, mcsVars
<1>4. a \in Releasing /\ a \in Labels /\ a # "idle" /\ pc[t] \notin Waiting
      /\ a \notin Looking \cup Creating \cup Trying \cup Waiting /\ "pass" \in Releasing
  BY <1>1, <1>3, LabelSets
<1>5. UNCHANGED <<tail, next, locked, lockOwner, node, pred, queue, cell, target, held>>
  BY DEF DetachFails, AwaitNext, mcsVars
<1>6. /\ pc' \in [Threads -> Labels] /\ \A u \in Threads : pc'[u] = "idle" <=> target'[u] = None
      /\ pc'[t] = a /\ \A u \in Threads : u # t => pc'[u] = pc[u] /\ target'[u] = target[u]
  BY <1>1, <1>3, <1>4, <1>5, CallTypes
<1>7. succ' \in [Threads -> Nodes \cup {None}] /\ (a = "pass" => succ'[t] = next[n])
      /\ \A u \in Threads : u # t => succ'[u] = succ[u]
  BY <1>3 DEF IInv, TypeOK
<1>8. TypeOK'
  BY <1>5, <1>6, <1>7 DEF IInv, TypeOK
<1>9. OneState'
  <2>1. cell[target[t]] = "state" /\ \A k \in held[t] : cell[k] = "state"
    BY <1>1 DEF IInv, OneState
  <2>2. QED
    BY <1>4, <1>5, <1>6, <2>1, SameState
<1>10. Nesting'
  BY <1>1, <1>4, <1>5, <1>6 DEF IInv, Nesting
<1>11. NodesUsed' /\ Queued' /\ Pointed' /\ Granted'
  <2>1. \A u \in Threads : pc[u] \in Waiting \/ pc'[u] \in Waiting => u # t
    BY <1>4, <1>6
  <2>2. \A u \in Threads : pc'[u] \in Releasing => pc[u] \in Releasing
    BY <1>1, <1>6
  <2>3. \A u \in Threads : pc'[u] = "pass" => succ'[u] # None /\ succ'[u] = next[node'[u]]
    BY <1>2, <1>3, <1>5, <1>6, <1>7 DEF IInv, Pointed, Succs
  <2>4. QED
    BY <1>5, <1>6, <1>8, <2>1, <2>2, <2>3, QuietStep DEF IInv, NodesUsed
<1>12. QED
  BY <1>8, <1>9, <1>10, <1>11 DEF IInv

\* The two ways to destroy and create a state outside of the lock calls.
LEMMA StateSteps ==
  ASSUME IInv, NEW l \in Locks,
         \/ pthread_mutex_init(l) /\ create_state(l)
         \/ pthread_mutex_destroy(l) /\ UNCHANGED mcsVars
  PROVE  IInv'
<1>1. /\ \A t \in Threads : l \notin held[t] /\ target[t] # l
      /\ UNCHANGED <<word, pc, target, held>>
      /\ cell' = [cell EXCEPT ![l] = "state"] \/ cell' = [cell EXCEPT ![l] = "zero"]
  BY DEF pthread_mutex_init, pthread_mutex_destroy, SetCell, Unused
<1>2. tail[l] = None
  BY <1>1, Unengaged DEF Engaged
<1>3. UNCHANGED mcsVars
  BY <1>2 DEF IInv, TypeOK, create_state, mcsVars
<1>4. TypeOK'
  BY <1>1, <1>3 DEF IInv, TypeOK, mcsVars
<1>5. OneState'
  <2>1. \A k \in Locks : k # l => cell'[k] = cell[k]
    BY <1>1 DEF IInv, TypeOK
  <2>2. \A t \in Threads : pc[t] \in Creating \cup Trying \cup Waiting \cup Releasing => target[t] \in Locks
    BY DEF IInv, TypeOK, Creating, Trying, Waiting, Releasing
  <2>3. \A t \in Threads : \A k \in held[t] : k \in Locks
    BY DEF IInv, TypeOK
  <2>4. QED
    BY <1>1, <2>1, <2>2, <2>3 DEF IInv, OneState
<1>6. Nesting'
  BY <1>1 DEF IInv, Nesting
<1>7. NodesUsed' /\ Queued' /\ Pointed' /\ Granted'
  BY <1>1, <1>3, <1>4, QuietStep DEF IInv, NodesUsed, Pointed, Succs, mcsVars, Releasing
<1>8. QED
  BY <1>4, <1>5, <1>6, <1>7 DEF IInv

\* try_lock, and the swap of lock_queue.
LEMMA EnqueueSteps ==
  ASSUME IInv, NEW t \in Threads,
         try_lock_fast(t, "try") \/ try_lock_fast(t, "trylock") \/ SwapTail(t)
  PROVE  IInv'
<1>1. pc[t] \in {"try", "trylock", "swap"}
  BY DEF try_lock_fast, SwapTail, Goto
<1>2. pc[t] \in Trying /\ pc[t] # "idle" /\ "link" \in Labels /\ "idle" \in Labels
      /\ "link" \in Waiting /\ "link" \notin Looking \cup Creating \cup Trying \cup Releasing
      /\ "idle" \notin Looking \cup Creating \cup Trying \cup Waiting \cup Releasing
  BY <1>1, LabelSets
<1>3. PICK l \in Locks : l = target[t]
  BY <1>2 DEF IInv, TypeOK
<1>4. PICK n \in Nodes : n = FirstFree(t) /\ n[1] = t /\ lockOwner[n] = None
  BY <1>2, FreeNode
<1>5. PICK wait \in BOOLEAN :
        /\ wait = (pc[t] = "swap")
        /\ lockOwner' = [lockOwner EXCEPT ![n] = l]
        /\ next' = [next EXCEPT ![n] = None]
        /\ locked' = [locked EXCEPT ![n] = wait]
        /\ tail' = [tail EXCEPT ![l] = n]
        /\ queue' = [queue EXCEPT ![l] = Append(@, t)]
        /\ UNCHANGED <<cell, succ>>
  <2>1. CASE pc[t] = "swap"
    BY <1>3, <1>4, <2>1 DEF SwapTail, TakeNode, Obtain, try_lock_fast, Goto
  <2>2. CASE pc[t] # "swap"
    BY <1>3, <1>4, <2>2 DEF SwapTail, TakeNode, Obtain, try_lock_fast, Goto
  <2>3. QED
    BY <2>1, <2>2
<1>6. \/ /\ tail[l] = None /\ pc' = [pc EXCEPT ![t] = "idle"]
         /\ held' = [held EXCEPT ![t] = @ \cup {l}] /\ target' = [target EXCEPT ![t] = None]
         /\ node' = node /\ (pred' = pred \/ pred' = [pred EXCEPT ![t] = None])
      \/ /\ tail[l] # None /\ pc' = [pc EXCEPT ![t] = "link"] /\ wait
         /\ UNCHANGED <<target, held>>
         /\ node' = [node EXCEPT ![t] = n] /\ pred' = [pred EXCEPT ![t] = tail[l]]
  <2>1. CASE SwapTail(t)
    BY <1>3, <1>4, <1>5, <2>1 DEF SwapTail, Obtain
  <2>2. CASE try_lock_fast(t, "try") \/ try_lock_fast(t, "trylock")
    BY <1>3, <2>2 DEF try_lock_fast, Obtain, Goto
  <2>3. QED
    BY <2>1, <2>2
<1>7. /\ pc' \in [Threads -> Labels] /\ target' \in [Threads -> Locks \cup {None}]
      /\ \A u \in Threads : pc'[u] = "idle" <=> target'[u] = None
      /\ pc'[t] = IF tail[l] = None THEN "idle" ELSE "link"
      /\ \A u \in Threads : u # t => pc'[u] = pc[u] /\ target'[u] = target[u]
  <2>1. CASE tail[l] = None
    BY <1>2, <1>6, <2>1, CallTypes
  <2>2. CASE tail[l] # None
    BY <1>2, <1>6, <2>2, CallTypes
  <2>3. QED
    BY <2>1, <2>2
<1>8. TypeOK'
  <2>1. tail[l] \in Nodes \cup {None} /\ queue[l] \in Seq(Threads)
    BY DEF IInv, TypeOK
  <2>2. Append(queue[l], t) \in Seq(Threads)
    BY <2>1
  <2>3. queue' \in [Locks -> Seq(Threads)]
    BY <1>5, <2>2 DEF IInv, TypeOK
  <2>4. held' \in [Threads -> SUBSET Locks] /\ node' \in [Threads -> Nodes \cup {None}]
        /\ pred' \in [Threads -> Nodes \cup {None}]
    <3>1. CASE tail[l] = None
      <4>1. held' = [held EXCEPT ![t] = held[t] \cup {l}] /\ held[t] \cup {l} \in SUBSET Locks
        BY <1>6, <3>1 DEF IInv, TypeOK
      <4>2. held' \in [Threads -> SUBSET Locks]
        BY <4>1 DEF IInv, TypeOK
      <4>3. node' \in [Threads -> Nodes \cup {None}] /\ pred' \in [Threads -> Nodes \cup {None}]
        BY <1>6, <3>1 DEF IInv, TypeOK
      <4>4. QED
        BY <4>2, <4>3
    <3>2. CASE tail[l] # None
      BY <1>6, <2>1, <3>2 DEF IInv, TypeOK
    <3>3. QED
      BY <3>1, <3>2
  <2>5. QED
    BY <1>5, <1>7, <2>3, <2>4 DEF IInv, TypeOK
<1>9. \A u \in Threads : u # t => held'[u] = held[u] /\ node'[u] = node[u] /\ pred'[u] = pred[u]
  BY <1>6 DEF IInv, TypeOK
<1>10. \/ tail[l] = None /\ pc'[t] = "idle" /\ held'[t] = held[t] \cup {l}
       \/ /\ tail[l] # None /\ wait /\ pc'[t] = "link" /\ target'[t] = l
          /\ node'[t] = n /\ pred'[t] = tail[l] /\ held'[t] = held[t]
  BY <1>3, <1>6, <1>7 DEF IInv, TypeOK
<1>11. OneState'
  <2>1. cell[l] = "state" /\ \A k \in held[t] : cell[k] = "state"
    BY <1>2, <1>3 DEF IInv, OneState
  <2>2. \A k \in held'[t] : cell[k] = "state"
    BY <1>10, <2>1
  <2>3. pc'[t] \notin Creating /\ (pc'[t] \in Trying \cup Waiting \cup Releasing => target'[t] = l)
    BY <1>2, <1>10
  <2>4. QED
    BY <1>5, <1>7, <1>9, <2>1, <2>2, <2>3, SameState
<1>12. Nesting'
  <2>1. IsFiniteSet(held[t]) /\ l \notin held[t] /\ Cardinality(held[t]) < MaxHeld
    BY <1>2, <1>3 DEF IInv, Nesting
  <2>2. IsFiniteSet(held[t] \cup {l}) /\ Cardinality(held[t] \cup {l}) = Cardinality(held[t]) + 1
    BY <2>1, FS_AddElement
  <2>3. Cardinality(held[t] \cup {l}) <= MaxHeld
    BY <2>1, <2>2, HookAssumption, FS_CardinalityType
  <2>4. IsFiniteSet(held'[t]) /\ Cardinality(held'[t]) <= MaxHeld
    <3>1. Cardinality(held[t]) <= MaxHeld
      BY <2>1 DEF IInv, Nesting
    <3>2. CASE held'[t] = held[t]
      BY <2>1, <3>1, <3>2
    <3>3. CASE held'[t] = held[t] \cup {l}
      BY <2>2, <2>3, <3>3
    <3>4. QED
      BY <1>10, <3>2, <3>3
  <2>5. pc'[t] \notin Releasing
        /\ (pc'[t] \in Looking \cup Creating \cup Trying \cup Waiting =>
              target'[t] \notin held'[t] /\ Cardinality(held'[t]) < MaxHeld)
    BY <1>2, <1>10, <2>1
  <2>6. QED
    BY <1>7, <1>9, <2>4, <2>5 DEF IInv, Nesting
<1>13. NodesUsed' /\ Queued' /\ Pointed' /\ Granted'
  <2>1. Enqueued(t, l, n, wait)
    BY <1>2, <1>3, <1>4, <1>5, <1>7, <1>9, <1>10 DEF Enqueued
  <2>2. QED
    BY <1>8, <2>1, Enqueue
<1>14. QED
  BY <1>8, <1>11, <1>12, <1>13 DEF IInv

LEMMA LinkStep ==
  ASSUME IInv, NEW t \in Threads, LinkPred(t)
  PROVE  IInv'
<1>1. pc[t] = "link" /\ pc' = [pc EXCEPT ![t] = "spin"]
      /\ UNCHANGED <<tail, locked, lockOwner, node, succ, queue, cell, word, target, held>>
  BY DEF LinkPred, Goto
<1>2. pc[t] \in Waiting /\ "spin" \in Waiting /\ "spin" \in Labels /\ pc[t] # "idle" /\ "spin" # "idle"
      /\ "spin" \notin Creating \cup Releasing
  BY <1>1, LabelSets
<1>3. pred[t] \in Nodes /\ node[t] \in Nodes
  BY <1>1, <1>2 DEF IInv, TypeOK, NodesUsed, Pointed, Preds
<1>4. /\ pc' \in [Threads -> Labels] /\ \A u \in Threads : pc'[u] = "idle" <=> target'[u] = None
      /\ pc'[t] = "spin" /\ \A u \in Threads : u # t => pc'[u] = pc[u] /\ target'[u] = target[u]
  BY <1>1, <1>2, CallTypes
<1>5. TypeOK'
  <2>1. next' \in [Nodes -> Nodes \cup {None}] /\ pred' \in [Threads -> Nodes \cup {None}]
    BY <1>3 DEF LinkPred, IInv, TypeOK
  <2>2. QED
    BY <1>1, <1>4, <2>1 DEF IInv, TypeOK
<1>6. OneState'
  <2>1. cell[target[t]] = "state" /\ \A k \in held[t] : cell[k] = "state"
    BY <1>2 DEF IInv, OneState
  <2>2. QED
    BY <1>1, <1>2, <1>4, <2>1, SameState
<1>7. Nesting'
  BY <1>1, <1>2, <1>4 DEF IInv, Nesting
<1>8. QED
  BY <1>5, <1>6, <1>7, Link DEF IInv

LEMMA SpinStep ==
  ASSUME IInv, NEW t \in Threads, SpinLocked(t)
  PROVE  IInv'
<1>1. pc[t] = "spin" /\ pc' = [pc EXCEPT ![t] = "idle"] /\ target' = [target EXCEPT ![t] = None]
      /\ UNCHANGED <<tail, next, locked, lockOwner, pred, succ, queue, cell>>
      /\ held' = [held EXCEPT ![t] = @ \cup {target[t]}] /\ node' = [node EXCEPT ![t] = None]
  BY DEF SpinLocked, Goto, Obtain
<1>2. pc[t] \in Waiting /\ pc[t] # "idle" /\ "idle" \in Labels
      /\ "idle" \notin Looking \cup Creating \cup Trying \cup Waiting \cup Releasing
  BY <1>1, LabelSets
<1>3. PICK l \in Locks : l = target[t]
  BY <1>2 DEF IInv, TypeOK
<1>4. /\ pc' \in [Threads -> Labels] /\ target' \in [Threads -> Locks \cup {None}]
      /\ \A u \in Threads : pc'[u] = "idle" <=> target'[u] = None
      /\ pc'[t] = "idle" /\ \A u \in Threads : u # t => pc'[u] = pc[u] /\ target'[u] = target[u]
  BY <1>1, <1>2, CallTypes
<1>5. held'[t] = held[t] \cup {l} /\ \A u \in Threads : u # t => held'[u] = held[u]
  BY <1>1, <1>3 DEF IInv, TypeOK
<1>6. TypeOK'
  <2>1. held' \in [Threads -> SUBSET Locks] /\ node' \in [Threads -> Nodes \cup {None}]
    BY <1>1, <1>3 DEF IInv, TypeOK
  <2>2. QED
    BY <1>1, <1>4, <2>1 DEF IInv, TypeOK
<1>7. OneState'
  <2>1. cell[l] = "state" /\ \A k \in held[t] : cell[k] = "state"
    BY <1>2, <1>3 DEF IInv, OneState
  <2>2. QED
    BY <1>1, <1>2, <1>4, <1>5, <2>1, SameState
<1>8. Nesting'
  <2>1. IsFiniteSet(held[t]) /\ l \notin held[t] /\ Cardinality(held[t]) < MaxHeld
    BY <1>2, <1>3 DEF IInv, Nesting
  <2>2. IsFiniteSet(held[t] \cup {l}) /\ Cardinality(held[t] \cup {l}) = Cardinality(held[t]) + 1
    BY <2>1, FS_AddElement
  <2>3. Cardinality(held[t] \cup {l}) <= MaxHeld
    BY <2>1, <2>2, HookAssumption, FS_CardinalityType
  <2>4. QED
    BY <1>2, <1>4, <1>5, <2>2, <2>3 DEF IInv, Nesting
<1>9. QED
  BY <1>6, <1>7, <1>8, Told DEF IInv

LEMMA ReleaseSteps ==
  ASSUME IInv, NEW t \in Threads, Detach(t) \/ Pass(t)
  PROVE  IInv'
<1>1. pc[t] \in {"detach", "pass"} /\ pc' = [pc EXCEPT ![t] = "idle"] /\ Released(t)
      /\ pred' = pred
  BY DEF Detach, Pass, Goto
<1>2. pc[t] \in Releasing /\ pc[t] # "idle" /\ "idle" \in Labels
      /\ "idle" \notin Looking \cup Creating \cup Trying \cup Waiting \cup Releasing
  BY <1>1, LabelSets
<1>3. PICK l \in Locks : l = target[t]
  BY <1>2 DEF IInv, TypeOK
<1>4. PICK n \in Nodes : n = node[t]
  BY <1>2 DEF IInv, NodesUsed
<1>5. /\ held' = [held EXCEPT ![t] = @ \ {l}] /\ target' = [target EXCEPT ![t] = None]
      /\ node' = [node EXCEPT ![t] = None] /\ succ' = [succ EXCEPT ![t] = None]
      /\ lockOwner' = [lockOwner EXCEPT ![n] = None]
      /\ next' = [next EXCEPT ![n] = None]
      /\ queue' = [queue EXCEPT ![l] = Tail(@)] /\ cell' = cell
  BY <1>1, <1>3, <1>4 DEF Released, Relinquish
<1>6. \/ /\ pc[t] = "detach" /\ tail[l] = n
         /\ tail' = [tail EXCEPT ![l] = None] /\ locked' = [locked EXCEPT ![n] = FALSE]
      \/ /\ pc[t] = "pass" /\ tail' = tail
         /\ locked' = [locked EXCEPT ![succ[t]] = FALSE, ![n] = FALSE]
  BY <1>3, <1>4 DEF Detach, Pass, Goto
<1>7. /\ pc' \in [Threads -> Labels] /\ target' \in [Threads -> Locks \cup {None}]
      /\ \A u \in Threads : pc'[u] = "idle" <=> target'[u] = None
      /\ pc'[t] = "idle" /\ \A u \in Threads : u # t => pc'[u] = pc[u] /\ target'[u] = target[u]
  BY <1>1, <1>2, <1>5, CallTypes
<1>8. held'[t] = held[t] \ {l}
      /\ \A u \in Threads : u # t => held'[u] = held[u] /\ node'[u] = node[u] /\ succ'[u] = succ[u]
  BY <1>5 DEF IInv, TypeOK
<1>9. TypeOK'
  <2>1. PICK q \in Seq(Threads) : q = queue[l]
    BY DEF IInv, TypeOK
  <2>2. q # <<>>
    <3>1. In(q, t)
      BY <1>2, <1>3, <2>1 DEF IInv, Nesting, Queued, Engaged
    <3>2. QED
      BY <2>1, <3>1, QueueFacts DEF IInv, Queued
  <2>3. Tail(q) \in Seq(Threads)
    BY <2>2, HeadTailProperties
  <2>4. queue' \in [Locks -> Seq(Threads)]
    BY <1>5, <2>1, <2>3 DEF IInv, TypeOK
  <2>5. /\ held' \in [Threads -> SUBSET Locks] /\ node' \in [Threads -> Nodes \cup {None}]
        /\ succ' \in [Threads -> Nodes \cup {None}] /\ lockOwner' \in [Nodes -> Locks \cup {None}]
        /\ next' \in [Nodes -> Nodes \cup {None}]
    BY <1>5 DEF IInv, TypeOK
  <2>6. tail' \in [Locks -> Nodes \cup {None}] /\ locked' \in [Nodes -> BOOLEAN]
    BY <1>6 DEF IInv, TypeOK
  <2>7. QED
    BY <1>1, <1>5, <1>7, <2>4, <2>5, <2>6 DEF IInv, TypeOK
<1>10. OneState'
  <2>1. \A k \in held'[t] : cell[k] = "state"
    BY <1>8 DEF IInv, OneState
  <2>2. QED
    BY <1>2, <1>5, <1>7, <1>8, <2>1, SameState
<1>11. Nesting'
  <2>1. IsFiniteSet(held[t]) /\ Cardinality(held[t]) <= MaxHeld
    BY DEF IInv, Nesting
  <2>2. IsFiniteSet(held[t] \ {l}) /\ Cardinality(held[t] \ {l}) <= Cardinality(held[t])
    <3>1. held[t] \ {l} \in SUBSET held[t]
      OBVIOUS
    <3>2. QED
      BY <2>1, <3>1, FS_Subset
  <2>3. Cardinality(held[t] \ {l}) <= MaxHeld
    BY <2>1, <2>2, HookAssumption, FS_CardinalityType
  <2>4. QED
    BY <1>2, <1>7, <1>8, <2>2, <2>3 DEF IInv, Nesting
<1>12. NodesUsed' /\ Queued' /\ Pointed' /\ Granted'
  <2>1. Dequeued(t, l, n)
    BY <1>1, <1>3, <1>4, <1>5, <1>6, <1>7, <1>8 DEF Dequeued
  <2>2. QED
    BY <1>9, <2>1, Dequeue
<1>13. QED
  BY <1>9, <1>10, <1>11, <1>12 DEF IInv

\* The library that the process has preloaded stays.
LEMMA Loaded == Spec => [](backend = "mcs")
<1>1. Init => backend = "mcs"
  BY DEF Init
<1>2. backend = "mcs" /\ [Next]_vars => (backend = "mcs")'
  BY DEF Next, vars, hookVars
<1>3. QED
  BY <1>1, <1>2, PTL DEF Spec

\* Nodes, queues and pointers agree in every reachable state.
THEOREM Invariance == Spec => []IInv
<1>1. IInv /\ [Next]_vars => IInv'
  <2> SUFFICES ASSUME IInv, [Next]_vars
               PROVE  IInv'
    OBVIOUS
  <2>1. CASE LifeCycle
    BY <2>1, ClaimStep, FoundStep, PublishStep, StateSteps DEF LifeCycle
  <2>2. ASSUME NEW t \in Threads, Call(t)
        PROVE  IInv'
    BY <2>2, EnterSteps, ReadStep DEF Call
  <2>3. ASSUME NEW t \in Threads, Step(t)
        PROVE  IInv'
    BY <2>3, EnqueueSteps, FailSteps, LinkStep, SpinStep, ReleaseSteps, AwaitSteps DEF Step
  <2>4. CASE UNCHANGED vars
    <3>1. TypeOK' /\ OneState' /\ Nesting'
      BY <2>4 DEF IInv, TypeOK, OneState, Nesting, vars, hookVars, mcsVars
    <3>2. NodesUsed' /\ Queued' /\ Pointed' /\ Granted'
      BY <2>4 DEF IInv, NodesUsed, Queued, Engaged, Pointed, Tails, Nexts, Preds, Succs, Granted,
                  vars, hookVars, mcsVars
    <3>3. QED
      BY <3>1, <3>2 DEF IInv
  <2>5. QED
    BY <2>1, <2>2, <2>3, <2>4 DEF Next
<1>2. QED
  BY <1>1, Initial, PTL DEF Spec

----------------------------------------------------------------------------
(* What the invariant promises.                                            *)

LEMMA HolderFirst ==
  ASSUME IInv, NEW l \in Locks, NEW t \in Threads, l \in held[t]
  PROVE  First(queue[l], t)
<1>1. PICK q \in Seq(Threads) : q = queue[l] /\ Once(q)
  BY DEF IInv, TypeOK, Queued
<1>2. In(q, t)
  BY <1>1 DEF IInv, Queued, Engaged
<1>3. \A u \in Threads : ~Before(q, u, t)
  BY <1>1 DEF IInv, Granted, Nesting
<1>4. QED
  BY <1>1, <1>2, <1>3, QueueFacts

\* No release frees the node of another lock, and a thread has one node for
\* each lock that it holds or waits for and none beyond (NodesAccounted).
THEOREM NodesAreAccounted == Spec => [](backend = "mcs" /\ NodesAccounted)
<1>1. IInv => NodesAccounted
  <2> SUFFICES ASSUME IInv PROVE NodesAccounted
    OBVIOUS
  <2>1. ASSUME NEW t \in Threads, NEW l \in Locks
        PROVE  Cardinality({i \in 1..MaxNodes : lockOwner[<<t, i>>] = l})
                  = IF l \in held[t] \/ (target[t] = l /\ pc[t] \in {"link", "spin"}) THEN 1 ELSE 0
    <3> DEFINE own == {i \in 1..MaxNodes : lockOwner[<<t, i>>] = l}
    <3>1. Engaged(t, l) <=> l \in held[t] \/ (target[t] = l /\ pc[t] \in {"link", "spin"})
      BY DEF Engaged, Waiting
    <3>2. \A i \in 1..MaxNodes : <<t, i>> \in Nodes /\ <<t, i>>[1] = t
      BY NodeParts
    <3>3. CASE Engaged(t, l)
      <4>1. PICK n \in Nodes : n[1] = t /\ lockOwner[n] = l
        BY <3>3 DEF IInv, NodesUsed
      <4>2. PICK i \in 1..MaxNodes : n = <<t, i>>
        BY <4>1, NodeParts
      <4>3. \A j \in own : j = i
        <5> SUFFICES ASSUME NEW j \in own
                     PROVE  j = i
          OBVIOUS
        <5>1. <<t, j>> \in Nodes /\ <<t, j>>[1] = n[1] /\ lockOwner[<<t, j>>] = lockOwner[n]
          BY <3>2, <4>1
        <5>2. lockOwner[n] # None
          BY <4>1, HookAssumption
        <5>3. <<t, j>> = n
          BY <5>1, <5>2 DEF IInv, NodesUsed
        <5>4. QED
          BY <4>2, <5>3
      <4>4. own = {i}
        BY <4>1, <4>2, <4>3
      <4>5. Cardinality(own) = 1
        BY <4>4, FS_Singleton
      <4>6. QED
        BY <3>1, <3>3, <4>5
    <3>4. CASE ~Engaged(t, l)
      <4>1. own = {}
        <5> SUFFICES ASSUME NEW i \in own
                     PROVE  FALSE
          OBVIOUS
        <5>1. <<t, i>> \in Nodes /\ <<t, i>>[1] = t /\ lockOwner[<<t, i>>] = l
          BY <3>2
        <5>2. l # None
          BY HookAssumption
        <5>3. QED
          BY <3>4, <5>1, <5>2 DEF IInv, NodesUsed
      <4>2. Cardinality(own) = 0
        BY <4>1, FS_EmptySet
      <4>3. QED
        BY <3>1, <3>4, <4>2
    <3>5. QED
      BY <3>3, <3>4
  <2>2. \A n \in Nodes : lockOwner[n] = None => next[n] = None /\ ~locked[n]
    BY DEF IInv, NodesUsed
  <2>3. QED
    BY <2>1, <2>2 DEF NodesAccounted
<1>2. QED
  BY <1>1, Invariance, Loaded, PTL

\* Locks are obtained in the order of the swaps and no handoff is lost
\* (GrantedInOrder).
THEOREM GrantsAreInOrder == Spec => [](backend = "mcs" /\ GrantedInOrder)
<1>1. IInv => GrantedInOrder
  <2> SUFFICES ASSUME IInv, backend = "mcs"
               PROVE  GrantedInOrder
    BY Z3 DEF GrantedInOrder
  <2> SUFFICES ASSUME NEW l \in Locks, NEW q \in Seq(Threads), q = queue[l]
               PROVE  /\ q # <<>> => cell[l] = "state"
                      /\ \A t \in Threads : l \in held[t] => q # <<>> /\ q[1] = t
                      /\ \A i \in 1..Len(q) :
                          IF i = 1 THEN l \in held[q[1]] \/ (pc[q[1]] = "spin" /\ ~locked[node[q[1]]])
                          ELSE pc[q[i]] \in {"link", "spin"} /\ target[q[i]] = l /\ locked[node[q[i]]]
                      /\ IF q = <<>> THEN tail[l] = None ELSE tail[l] # None /\ tail[l][1] = Last(q)
                      /\ \A n \in Nodes : lockOwner[n] = l /\ next[n] # None =>
                          \E i \in 1..(Len(q) - 1) : q[i] = n[1] /\ q[i + 1] = next[n][1]
    <3>1. \A l \in Locks : queue[l] \in Seq(Threads)
      BY DEF IInv, TypeOK
    <3>2. QED
      BY <3>1 DEF GrantedInOrder
  <2>1. Len(q) \in Nat /\ (q = <<>> <=> Len(q) = 0) /\ \A i \in 1..Len(q) : q[i] \in Threads
    BY EmptySeq
  <2>2. Len(q) # 0 => 1 \in 1..Len(q) /\ First(q, q[1])
    BY <2>1 DEF First
  <2>3. q # <<>> => cell[l] = "state"
    <3> SUFFICES ASSUME q # <<>>
                 PROVE  cell[l] = "state"
      OBVIOUS
    <3>1. PICK t \in Threads : First(q, t)
      BY <2>1, <2>2
    <3>2. l \in held[t] \/ (pc[t] = "spin" /\ target[t] = l)
      BY <3>1 DEF IInv, Granted
    <3>3. QED
      BY <3>2, LabelSets DEF IInv, OneState
  <2>4. \A t \in Threads : l \in held[t] => q # <<>> /\ q[1] = t
    BY <2>1, HolderFirst DEF First
  <2>5. ASSUME NEW i \in 1..Len(q)
        PROVE  IF i = 1 THEN l \in held[q[1]] \/ (pc[q[1]] = "spin" /\ ~locked[node[q[1]]])
               ELSE pc[q[i]] \in {"link", "spin"} /\ target[q[i]] = l /\ locked[node[q[i]]]
    <3>1. CASE i = 1
      <4>1. PICK t \in Threads : t = q[1] /\ First(q, t)
        BY <2>1, <2>2, <3>1
      <4>2. l \in held[t] \/ (pc[t] = "spin" /\ ~locked[node[t]])
        BY <4>1 DEF IInv, Granted
      <4>3. QED
        BY <3>1, <4>1, <4>2
    <3>2. CASE i # 1
      <4>1. i - 1 \in 1..Len(q) /\ (i - 1) + 1 = i
        BY <2>1, <3>2
      <4>2. PICK u \in Threads, t \in Threads : u = q[i - 1] /\ t = q[i]
        BY <2>1, <4>1
      <4>3. Before(q, u, t)
        BY <4>1, <4>2 DEF Before
      <4>4. pc[t] \in Waiting /\ target[t] = l /\ locked[node[t]]
        BY <4>3 DEF IInv, Granted
      <4>5. QED
        BY <3>2, <4>2, <4>4 DEF Waiting
    <3>3. QED
      BY <3>1, <3>2
  <2>6. IF q = <<>> THEN tail[l] = None ELSE tail[l] # None /\ tail[l][1] = Last(q)
    BY <2>1 DEF IInv, Pointed, Tails, Final, Last
  <2>7. ASSUME NEW n \in Nodes, lockOwner[n] = l, next[n] # None
        PROVE  \E i \in 1..(Len(q) - 1) : q[i] = n[1] /\ q[i + 1] = next[n][1]
    <3>1. Before(q, n[1], next[n][1])
      BY <2>7 DEF IInv, Pointed, Nexts
    <3>2. PICK i \in 1..Len(q) : i + 1 \in 1..Len(q) /\ q[i] = n[1] /\ q[i + 1] = next[n][1]
      BY <3>1 DEF Before
    <3>3. i \in 1..(Len(q) - 1)
      BY <2>1, <3>2
    <3>4. QED
      BY <3>2, <3>3
  <2>8. QED
    BY <2>3, <2>4, <2>5, <2>6, <2>7
<1>2. QED
  BY <1>1, Invariance, Loaded, PTL

\* A mutex with an empty queue is free, and so is one whose first waiter has
\* been told.
LEMMA GrantsOfFree ==
  ASSUME IInv, NEW l \in Locks,
         \/ tail[l] = None
         \/ \E t \in Threads : pc[t] = "spin" /\ target[t] = l /\ ~locked[node[t]]
  PROVE  Mutex!Free(l)
<1>1. PICK q \in Seq(Threads) : q = queue[l] /\ Once(q)
  BY DEF IInv, TypeOK, Queued
<1> SUFFICES ASSUME NEW u \in Threads, l \in held[u]
             PROVE  FALSE
  BY DEF Mutex!Free
<1>2. First(q, u)
  BY <1>1, HolderFirst
<1>3. tail[l] # None
  BY <1>1, <1>2 DEF First, IInv, Pointed, Tails
<1>4. PICK t \in Threads : pc[t] = "spin" /\ target[t] = l /\ ~locked[node[t]]
  BY <1>3
<1>5. In(q, t) /\ t # u
  BY <1>1, <1>4, LabelSets DEF IInv, Queued, Engaged, Nesting
<1>6. \E v \in Threads : Before(q, v, t)
  BY <1>1, <1>2, <1>5, QueueFacts
<1>7. QED
  BY <1>1, <1>4, <1>6 DEF IInv, Granted

\* Every step of the hooks over MCS is a step of the abstract mutex or leaves
\* its variables unchanged: a blocking call requests, an empty queue or the
\* handoff grants.
THEOREM McsRefinement == Spec => ImplementsMutex
<1>1. Init => Mutex!Init
  BY DEF Init, HookInit, Mutex!Init, Requests, RequestLabels
<1>2. IInv /\ [Next]_vars => [Mutex!Next]_(Mutex!vars)
  <2> SUFFICES ASSUME IInv, [Next]_vars
               PROVE  [Mutex!Next]_(Mutex!vars)
    OBVIOUS
  <2>1. /\ pc \in [Threads -> Labels] /\ target \in [Threads -> Locks \cup {None}]
        /\ \A t \in Threads : pc[t] = "idle" <=> target[t] = None
        /\ None \notin Locks
    BY HookAssumption DEF IInv, TypeOK
  <2>2. \A t \in Threads : pc[t] \in Looking \cup Creating \cup Trying \cup Waiting =>
            target[t] \notin held[t]
    BY DEF IInv, Nesting
  <2> USE <2>1 DEF Goto, Requests, RequestLabels
  <2>3. ASSUME NEW t \in Threads, NEW l \in Locks, EnterLock(t, l)
        PROVE  Mutex!Request(t, l)
    <3>1. l \notin held[t]
      BY <2>3, HookAssumption DEF EnterLock
    <3>2. Requests[t] = None /\ Requests' = [Requests EXCEPT ![t] = l]
      BY <2>3 DEF EnterLock, Enter, LooksAt
    <3>3. QED
      BY <2>3, <3>1, <3>2 DEF EnterLock, Enter, Mutex!Request
  <2>4. ASSUME NEW t \in Threads, NEW l \in Locks, EnterTrylock(t, l)
        PROVE  UNCHANGED Mutex!vars
    BY <2>4 DEF EnterTrylock, Enter, LooksAt, Mutex!vars
  <2>5. ASSUME NEW t \in Threads, Claim(t) \/ Found(t) \/ Publish(t)
        PROVE  UNCHANGED Mutex!vars
    BY <2>5 DEF Claim, Found, Publish, LooksAt, CreatesAt, Mutex!vars
  <2>6. ASSUME NEW l \in Locks, pthread_mutex_init(l) \/ pthread_mutex_destroy(l)
        PROVE  UNCHANGED Mutex!vars
    BY <2>6 DEF pthread_mutex_init, pthread_mutex_destroy, SetCell, Mutex!vars
  <2>7. ASSUME NEW t \in Threads, NEW l \in Locks, l = target[t], pc[t] \in {"try", "swap", "spin"},
               Mutex!Free(l), pc' = [pc EXCEPT ![t] = "idle"], Obtain(t)
        PROVE  Mutex!Acquire(t, l)
    <3>1. Requests[t] = l /\ Requests' = [Requests EXCEPT ![t] = None]
      BY <2>7 DEF Obtain
    <3>2. QED
      BY <2>7, <3>1 DEF Obtain, Mutex!Acquire
  <2>8. ASSUME NEW t \in Threads, NEW l \in Locks, l = target[t], try_lock_fast(t, "trylock")
        PROVE  Mutex!TryAcquire(t, l)
    <3>1. Mutex!Free(l)
      BY <2>8, GrantsOfFree DEF try_lock_fast
    <3>2. Requests[t] = None /\ Requests' = Requests
      BY <2>8 DEF try_lock_fast, Obtain
    <3>3. QED
      BY <2>8, <3>1, <3>2 DEF try_lock_fast, Obtain, Mutex!TryAcquire
  <2>9. ASSUME NEW t \in Threads, FastPathFails(t) \/ TrylockFails(t)
        PROVE  UNCHANGED Mutex!vars
    <3>1. CASE FastPathFails(t)
      BY <3>1 DEF FastPathFails, GoSlow, Mutex!vars
    <3>2. CASE TrylockFails(t)
      BY <3>2 DEF TrylockFails, GiveUp, Mutex!vars
    <3>3. QED
      BY <2>9, <3>1, <3>2
  <2>10. ASSUME NEW t \in Threads, LinkPred(t) \/ DetachFails(t) \/ AwaitNext(t)
         PROVE  UNCHANGED Mutex!vars
    BY <2>10 DEF LinkPred, DetachFails, AwaitNext, Mutex!vars
  <2>11. ASSUME NEW t \in Threads, NEW l \in Locks, ReadNext(t, l)
         PROVE  UNCHANGED Mutex!vars
    BY <2>11 DEF ReadNext, Mutex!vars
  <2>12. ASSUME NEW t \in Threads, NEW l \in Locks, l = target[t], Detach(t) \/ Pass(t)
         PROVE  Mutex!Release(t, l)
    <3>1. l \in held[t]
      BY <2>12 DEF Detach, Pass, IInv, Nesting, Releasing
    <3>2. Requests[t] = None /\ Requests' = Requests
      BY <2>12 DEF Detach, Pass, Released, Relinquish
    <3>3. QED
      BY <2>12, <3>1, <3>2 DEF Detach, Pass, Released, Relinquish, Mutex!Release
  <2>13. ASSUME NEW t \in Threads, NEW l \in Locks, l = target[t], SwapTail(t)
         PROVE  [Mutex!Next]_(Mutex!vars)
    <3>1. CASE tail[l] = None
      <4>1. Mutex!Free(l)
        BY <3>1, GrantsOfFree
      <4>2. pc' = [pc EXCEPT ![t] = "idle"] /\ Obtain(t)
        BY <2>13, <3>1 DEF SwapTail
      <4>3. QED
        BY <2>7, <2>13, <4>1, <4>2 DEF SwapTail, Mutex!Next
    <3>2. CASE tail[l] # None
      BY <2>13, <3>2 DEF SwapTail, Mutex!vars
    <3>3. QED
      BY <3>1, <3>2
  <2>14. ASSUME NEW t \in Threads, Step(t)
         PROVE  [Mutex!Next]_(Mutex!vars)
    <3>1. pc[t] # "idle"
      BY <2>14 DEF Step, try_lock_fast, FastPathFails, GoSlow, TrylockFails, GiveUp, SwapTail,
                   LinkPred, SpinLocked, Detach, DetachFails, AwaitNext, Pass
    <3>2. PICK l \in Locks : l = target[t]
      BY <3>1
    <3>3. CASE try_lock_fast(t, "try") \/ SpinLocked(t)
      <4>1. Mutex!Free(l)
        BY <3>2, <3>3, GrantsOfFree DEF try_lock_fast, SpinLocked
      <4>2. QED
        BY <2>7, <3>2, <3>3, <4>1 DEF try_lock_fast, SpinLocked, Mutex!Next
    <3>4. CASE try_lock_fast(t, "trylock")
      BY <2>8, <3>2, <3>4 DEF Mutex!Next
    <3>5. CASE Detach(t) \/ Pass(t)
      BY <2>12, <3>2, <3>5 DEF Mutex!Next
    <3>6. QED
      BY <2>9, <2>10, <2>13, <2>14, <3>2, <3>3, <3>4, <3>5 DEF Step
  <2>15. ASSUME NEW t \in Threads, Call(t)
         PROVE  [Mutex!Next]_(Mutex!vars)
    BY <2>3, <2>4, <2>11, <2>15 DEF Call, Mutex!Next
  <2>16. CASE LifeCycle
    BY <2>5, <2>6, <2>16 DEF LifeCycle
  <2>17. CASE UNCHANGED vars
    BY <2>17 DEF vars, hookVars, Mutex!vars
  <2>18. QED
    BY <2>14, <2>15, <2>16, <2>17 DEF Next
<1>3. QED
  BY <1>1, <1>2, Invariance, PTL DEF Spec, ImplementsMutex, Mutex!Spec

----------------------------------------------------------------------------
(***************************************************************************)
(* The hooks over the TTAS backend.  A store of a second state would clear *)
(* a flag that is set, so exclusion rests on the life cycle: only the      *)
(* thread that put SENTINEL into the mutex stores a pointer to it, and     *)
(* nobody is past that point before it has.                                *)
(***************************************************************************)

\* The one variable of the TTAS backend that the MCS backend has not.
VARIABLE flag
Ttas == INSTANCE TtasLock

TtasLooking  == {"ensure", "try_ensure"}
TtasCreating == {"create", "try_create"}
TtasUsing    == {"try", "trylock", "spin", "cas"}

TtasTypeOK ==
    /\ pc \in [Threads -> {"idle"} \cup TtasLooking \cup TtasCreating \cup TtasUsing]
    /\ target \in [Threads -> Locks \cup {None}]
    /\ \A t \in Threads : pc[t] = "idle" <=> target[t] = None
    /\ held \in [Threads -> SUBSET Locks]
    /\ cell \in [Locks -> {"zero", "SENTINEL", "state"}]
    /\ flag \in [Locks -> BOOLEAN]

\* Between the claim of a mutex and the store of its state there is one
\* creator, and whoever uses or holds the mutex finds a state behind it.
TtasOneState ==
    /\ \A t \in Threads : pc[t] \in TtasCreating => cell[target[t]] = "SENTINEL"
    /\ \A t, u \in Threads :
        pc[t] \in TtasCreating /\ pc[u] \in TtasCreating /\ target[t] = target[u] => t = u
    /\ \A t \in Threads : pc[t] \in TtasUsing => cell[target[t]] = "state"
    /\ \A t \in Threads : \A l \in held[t] : cell[l] = "state"

\* Every held lock has its flag set, and one holder.
TtasExclusion ==
    /\ \A t \in Threads : \A l \in held[t] : flag[l]
    /\ \A t, u \in Threads : \A l \in held[t] : l \in held[u] => t = u

TtasIInv == TtasTypeOK /\ TtasOneState /\ TtasExclusion

----------------------------------------------------------------------------
\* Every variable keeps its type, a mutex has one state while it is used, and
\* one holder: the inductive invariant.
THEOREM StateAndExclusion == Ttas!Spec => []TtasIInv
<1> USE HookAssumption DEF TtasLooking, TtasCreating, TtasUsing
<1>1. Ttas!Init => TtasIInv
  BY DEF Ttas!Init, Ttas!HookInit, Ttas!TtasInit, TtasIInv, TtasTypeOK, TtasOneState, TtasExclusion
<1>2. TtasIInv /\ [Ttas!Next]_(Ttas!vars) => TtasIInv'
  <2> SUFFICES ASSUME TtasIInv, [Ttas!Next]_(Ttas!vars)
               PROVE  TtasIInv'
    OBVIOUS
  <2> USE DEF TtasIInv, TtasTypeOK, Ttas!Goto, Ttas!LooksAt, Ttas!CreatesAt
  <2>1. ASSUME NEW t \in Threads, NEW l \in Locks, Ttas!EnterLock(t, l) \/ Ttas!EnterTrylock(t, l),
               UNCHANGED flag
        PROVE  TtasIInv'
    <3>1. TtasTypeOK'
      BY <2>1 DEF Ttas!EnterLock, Ttas!EnterTrylock, Ttas!Enter
    <3>2. TtasOneState'
      <4>1. pc'[t] \notin TtasCreating /\ (pc'[t] \in TtasUsing => cell[l] = "state")
        BY <2>1 DEF Ttas!EnterLock, Ttas!EnterTrylock, Ttas!Enter
      <4>2. target'[t] = l /\ UNCHANGED <<cell, held>>
        BY <2>1 DEF Ttas!EnterLock, Ttas!EnterTrylock, Ttas!Enter
      <4>3. \A u \in Threads : u # t => pc'[u] = pc[u] /\ target'[u] = target[u]
        BY <2>1 DEF Ttas!EnterLock, Ttas!EnterTrylock, Ttas!Enter
      <4>4. QED
        BY <4>1, <4>2, <4>3 DEF TtasOneState
    <3>3. TtasExclusion'
      BY <2>1 DEF Ttas!EnterLock, Ttas!EnterTrylock, Ttas!Enter, TtasExclusion
    <3>4. QED
      BY <3>1, <3>2, <3>3
  <2>2. ASSUME NEW t \in Threads, Ttas!Claim(t), UNCHANGED flag
        PROVE  TtasIInv'
    <3>1. TtasTypeOK'
      BY <2>2 DEF Ttas!Claim
    <3>2. TtasOneState'
      BY <2>2 DEF Ttas!Claim, TtasOneState
    <3>3. TtasExclusion'
      BY <2>2 DEF Ttas!Claim, TtasExclusion
    <3>4. QED
      BY <3>1, <3>2, <3>3
  <2>3. ASSUME NEW t \in Threads, Ttas!Found(t), UNCHANGED flag
        PROVE  TtasIInv'
    <3>1. TtasTypeOK'
      BY <2>3 DEF Ttas!Found
    <3>2. TtasOneState'
      BY <2>3 DEF Ttas!Found, TtasOneState
    <3>3. TtasExclusion'
      BY <2>3 DEF Ttas!Found, TtasExclusion
    <3>4. QED
      BY <3>1, <3>2, <3>3
  <2>4. ASSUME NEW t \in Threads, Ttas!Publish(t), Ttas!create_state(target[t])
        PROVE  TtasIInv'
    <3>1. TtasTypeOK'
      BY <2>4 DEF Ttas!Publish, Ttas!create_state
    <3>2. target[t] \in Locks /\ \A u \in Threads : target[t] \notin held[u]
      <4>1. pc[t] \in TtasCreating /\ target[t] \in Locks
        BY <2>4 DEF Ttas!Publish
      <4>2. cell[target[t]] = "SENTINEL"
        BY <4>1 DEF TtasOneState
      <4>3. QED
        BY <4>1, <4>2 DEF TtasOneState
    <3>3. TtasOneState'
      BY <2>4, <3>2 DEF Ttas!Publish, TtasOneState
    <3>4. TtasExclusion'
      BY <2>4, <3>2 DEF Ttas!Publish, Ttas!create_state, TtasExclusion
    <3>5. QED
      BY <3>1, <3>3, <3>4
  <2>5. ASSUME NEW l \in Locks, Ttas!pthread_mutex_init(l), Ttas!create_state(l)
        PROVE  TtasIInv'
    <3>1. TtasTypeOK'
      BY <2>5 DEF Ttas!pthread_mutex_init, Ttas!SetCell, Ttas!create_state
    <3>2. TtasOneState'
      BY <2>5 DEF Ttas!pthread_mutex_init, Ttas!SetCell, Ttas!Unused, TtasOneState
    <3>3. TtasExclusion'
      BY <2>5 DEF Ttas!pthread_mutex_init, Ttas!SetCell, Ttas!Unused, Ttas!create_state, TtasExclusion
    <3>4. QED
      BY <3>1, <3>2, <3>3
  <2>6. ASSUME NEW l \in Locks, Ttas!pthread_mutex_destroy(l), UNCHANGED flag
        PROVE  TtasIInv'
    <3>1. TtasTypeOK'
      BY <2>6 DEF Ttas!pthread_mutex_destroy, Ttas!SetCell
    <3>2. TtasOneState'
      BY <2>6 DEF Ttas!pthread_mutex_destroy, Ttas!SetCell, Ttas!Unused, TtasOneState
    <3>3. TtasExclusion'
      BY <2>6 DEF Ttas!pthread_mutex_destroy, Ttas!SetCell, TtasExclusion
    <3>4. QED
      BY <3>1, <3>2, <3>3
  <2>7. ASSUME NEW t \in Threads, pc[t] \in TtasUsing, ~flag[target[t]],
               pc' = [pc EXCEPT ![t] = "idle"], Ttas!Take(t)
        PROVE  TtasIInv'
    <3>1. target[t] \in Locks /\ \A u \in Threads : target[t] \notin held[u]
      BY <2>7 DEF TtasExclusion
    <3>2. TtasTypeOK'
      BY <2>7, <3>1 DEF Ttas!Take, Ttas!Obtain
    <3>3. TtasOneState'
      BY <2>7, <3>1 DEF Ttas!Take, Ttas!Obtain, TtasOneState
    <3>4. TtasExclusion'
      BY <2>7, <3>1 DEF Ttas!Take, Ttas!Obtain, TtasExclusion
    <3>5. QED
      BY <3>2, <3>3, <3>4
  <2>8. ASSUME NEW t \in Threads, Ttas!FastPathFails(t) \/ Ttas!SpinFlag(t) \/ Ttas!CompeteFails(t)
        PROVE  TtasIInv'
    <3>1. TtasTypeOK'
      BY <2>8 DEF Ttas!FastPathFails, Ttas!GoSlow, Ttas!SpinFlag, Ttas!CompeteFails
    <3>2. TtasOneState'
      <4>1. pc[t] \in TtasUsing /\ pc'[t] \in TtasUsing /\ pc'[t] \notin TtasCreating
        BY <2>8 DEF Ttas!FastPathFails, Ttas!GoSlow, Ttas!SpinFlag, Ttas!CompeteFails
      <4>2. UNCHANGED <<cell, target, held>> /\ \A u \in Threads : u # t => pc'[u] = pc[u]
        BY <2>8 DEF Ttas!FastPathFails, Ttas!GoSlow, Ttas!SpinFlag, Ttas!CompeteFails
      <4>3. QED
        BY <4>1, <4>2 DEF TtasOneState
    <3>3. TtasExclusion'
      BY <2>8 DEF Ttas!FastPathFails, Ttas!GoSlow, Ttas!SpinFlag, Ttas!CompeteFails, TtasExclusion
    <3>4. QED
      BY <3>1, <3>2, <3>3
  <2>9. ASSUME NEW t \in Threads, Ttas!TrylockFails(t)
        PROVE  TtasIInv'
    <3>1. TtasTypeOK'
      BY <2>9 DEF Ttas!TrylockFails, Ttas!GiveUp
    <3>2. TtasOneState'
      BY <2>9 DEF Ttas!TrylockFails, Ttas!GiveUp, TtasOneState
    <3>3. TtasExclusion'
      BY <2>9 DEF Ttas!TrylockFails, Ttas!GiveUp, TtasExclusion
    <3>4. QED
      BY <3>1, <3>2, <3>3
  <2>10. ASSUME NEW t \in Threads, NEW l \in Locks, Ttas!unlock_fast(t, l)
         PROVE  TtasIInv'
    <3>1. TtasTypeOK'
      BY <2>10 DEF Ttas!unlock_fast, Ttas!Relinquish
    <3>2. TtasOneState'
      BY <2>10 DEF Ttas!unlock_fast, Ttas!Relinquish, TtasOneState
    <3>3. TtasExclusion'
      BY <2>10 DEF Ttas!unlock_fast, Ttas!Relinquish, TtasExclusion
    <3>4. QED
      BY <3>1, <3>2, <3>3
  <2>11. CASE UNCHANGED Ttas!vars
    BY <2>11 DEF Ttas!vars, Ttas!hookVars, TtasOneState, TtasExclusion
  <2>12. QED
    BY <2>1, <2>2, <2>3, <2>4, <2>5, <2>6, <2>7, <2>8, <2>9, <2>10, <2>11
    DEF Ttas!Next, Ttas!LifeCycle, Ttas!Call, Ttas!Step, Ttas!try_lock_fast, Ttas!Compete
<1>3. QED
  BY <1>1, <1>2, PTL DEF Ttas!Spec

\* Every step of the hooks over TTAS is a step of the abstract mutex or leaves
\* its variables unchanged: a blocking call requests, whether or not it has to
\* create the state first, and the flag grants.  The mapping, of LockHooks, is the
\* one of the MCS backend.
THEOREM TtasRefinement == Ttas!Spec => ImplementsMutex
<1>1. Ttas!Init => Mutex!Init
  BY DEF Ttas!Init, Ttas!HookInit, Mutex!Init, Requests, RequestLabels
<1>2. TtasIInv /\ [Ttas!Next]_(Ttas!vars) => [Mutex!Next]_(Mutex!vars)
  <2> SUFFICES ASSUME TtasIInv, [Ttas!Next]_(Ttas!vars)
               PROVE  [Mutex!Next]_(Mutex!vars)
    OBVIOUS
  <2> USE HookAssumption
      DEF TtasIInv, TtasTypeOK, TtasLooking, TtasCreating, TtasUsing, Ttas!Goto, Ttas!LooksAt,
          Ttas!CreatesAt, Requests, RequestLabels, Mutex!vars
  <2>1. ASSUME NEW t \in Threads, NEW l \in Locks, Ttas!EnterLock(t, l)
        PROVE  Mutex!Request(t, l)
    <3>1. l \notin held[t]
      BY <2>1 DEF Ttas!EnterLock
    <3>2. Requests[t] = None /\ Requests' = [Requests EXCEPT ![t] = l]
      BY <2>1 DEF Ttas!EnterLock, Ttas!Enter
    <3>3. QED
      BY <2>1, <3>1, <3>2 DEF Ttas!EnterLock, Ttas!Enter, Mutex!Request
  <2>2. ASSUME NEW t \in Threads, NEW l \in Locks, Ttas!EnterTrylock(t, l)
        PROVE  UNCHANGED Mutex!vars
    BY <2>2 DEF Ttas!EnterTrylock, Ttas!Enter
  <2>3. ASSUME NEW t \in Threads, Ttas!Claim(t) \/ Ttas!Found(t) \/ Ttas!Publish(t)
        PROVE  UNCHANGED Mutex!vars
    BY <2>3 DEF Ttas!Claim, Ttas!Found, Ttas!Publish
  <2>4. ASSUME NEW l \in Locks, Ttas!pthread_mutex_init(l) \/ Ttas!pthread_mutex_destroy(l)
        PROVE  UNCHANGED Mutex!vars
    BY <2>4 DEF Ttas!pthread_mutex_init, Ttas!pthread_mutex_destroy, Ttas!SetCell
  <2>5. ASSUME NEW t \in Threads, NEW l \in Locks, l = target[t], pc[t] \in {"try", "cas"}, ~flag[l],
               pc' = [pc EXCEPT ![t] = "idle"], Ttas!Take(t)
        PROVE  Mutex!Acquire(t, l)
    <3>1. Mutex!Free(l)
      BY <2>5 DEF TtasExclusion, Mutex!Free
    <3>2. Requests[t] = l /\ Requests' = [Requests EXCEPT ![t] = None]
      BY <2>5 DEF Ttas!Take, Ttas!Obtain
    <3>3. QED
      BY <2>5, <3>1, <3>2 DEF Ttas!Take, Ttas!Obtain, Mutex!Acquire
  <2>6. ASSUME NEW t \in Threads, NEW l \in Locks, l = target[t], pc[t] = "trylock", ~flag[l],
               pc' = [pc EXCEPT ![t] = "idle"], Ttas!Take(t)
        PROVE  Mutex!TryAcquire(t, l)
    <3>1. Mutex!Free(l)
      BY <2>6 DEF TtasExclusion, Mutex!Free
    <3>2. Requests[t] = None /\ Requests' = Requests
      BY <2>6 DEF Ttas!Take, Ttas!Obtain
    <3>3. QED
      BY <2>6, <3>1, <3>2 DEF Ttas!Take, Ttas!Obtain, Mutex!TryAcquire
  <2>7. ASSUME NEW t \in Threads,
               Ttas!FastPathFails(t) \/ Ttas!TrylockFails(t) \/ Ttas!SpinFlag(t) \/ Ttas!CompeteFails(t)
        PROVE  UNCHANGED Mutex!vars
    <3>1. CASE Ttas!FastPathFails(t)
      BY <3>1 DEF Ttas!FastPathFails, Ttas!GoSlow
    <3>2. CASE Ttas!TrylockFails(t)
      BY <3>2 DEF Ttas!TrylockFails, Ttas!GiveUp
    <3>3. CASE Ttas!SpinFlag(t)
      BY <3>3 DEF Ttas!SpinFlag
    <3>4. CASE Ttas!CompeteFails(t)
      BY <3>4 DEF Ttas!CompeteFails
    <3>5. QED
      BY <2>7, <3>1, <3>2, <3>3, <3>4
  <2>8. ASSUME NEW t \in Threads, NEW l \in Locks, Ttas!unlock_fast(t, l)
        PROVE  Mutex!Release(t, l)
    <3>1. Requests[t] = None /\ Requests' = Requests
      BY <2>8 DEF Ttas!unlock_fast, Ttas!Relinquish
    <3>2. QED
      BY <2>8, <3>1 DEF Ttas!unlock_fast, Ttas!Relinquish, Mutex!Release
  <2>9. CASE UNCHANGED Ttas!vars
    BY <2>9 DEF Ttas!vars, Ttas!hookVars
  <2>10. ASSUME NEW t \in Threads, Ttas!Step(t)
         PROVE  [Mutex!Next]_(Mutex!vars)
    <3>1. (\E l \in Locks : l = target[t]) \/ pc[t] = "idle"
      OBVIOUS
    <3>2. CASE Ttas!try_lock_fast(t, "try") \/ Ttas!Compete(t)
      BY <2>5, <3>1, <3>2 DEF Ttas!try_lock_fast, Ttas!Compete, Mutex!Next
    <3>3. CASE Ttas!try_lock_fast(t, "trylock")
      BY <2>6, <3>1, <3>3 DEF Ttas!try_lock_fast, Mutex!Next
    <3>4. QED
      BY <2>7, <2>10, <3>2, <3>3 DEF Ttas!Step
  <2>11. ASSUME NEW t \in Threads, Ttas!Call(t)
         PROVE  [Mutex!Next]_(Mutex!vars)
    BY <2>1, <2>2, <2>8, <2>11 DEF Ttas!Call, Mutex!Next
  <2>12. CASE Ttas!LifeCycle
    BY <2>3, <2>4, <2>12 DEF Ttas!LifeCycle
  <2>13. QED
    BY <2>9, <2>10, <2>11, <2>12 DEF Ttas!Next
<1>3. QED
  BY <1>1, <1>2, StateAndExclusion, PTL DEF Ttas!Spec, ImplementsMutex, Mutex!Spec
============================================================================
