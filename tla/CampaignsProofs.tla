-------------------------- MODULE CampaignsProofs --------------------------
(***************************************************************************)
(* The campaign runners keep what their properties promise, for any        *)
(* command lines, thread counts, sessions and kills.  Every step of the    *)
(* four programs has one of the shapes of Steps (a session starts or ends, *)
(* a tool is found or built, rows are loaded, a log or a file is opened or *)
(* closed, a row or a failure is added, the report is written); that is    *)
(* proved once per program.  Each part of the invariant is then shown to   *)
(* be kept by each shape.  The properties are not inductive: a row is      *)
(* trusted for the record it came from, and a record for the log it names, *)
(* so the invariant also says how memory, commands.json, raw.csv and the   *)
(* logs agree between any two steps, in every phase of a process.          *)
(***************************************************************************)
EXTENDS Campaigns, SequenceTheorems, FiniteSetTheorems, NaturalsInduction,
        WellFoundedInduction, TLAPS

----------------------------------------------------------------------------
(* Sequences.                                                              *)

\* A nonempty set of naturals has a least element.
LEMMA LeastNatural ==
  ASSUME NEW S \in SUBSET Nat, S # {}
  PROVE  \E x \in S : \A y \in S : x <= y
<1> DEFINE R == OpToRel(<, Nat)
<1>1. IsWellFoundedOn(R, Nat)
  BY NatLessThanWellFounded
<1>2. \A x, y \in Nat : x < y => <<x, y>> \in R
  BY DEF OpToRel
<1> HIDE DEF R
<1>3. PICK x \in S : \A y \in S : ~ (<<y, x>> \in R)
  BY <1>1, WFMin
<1>4. \A y \in S : ~ (y < x) /\ x \in Nat /\ y \in Nat
  BY <1>2, <1>3
<1>5. QED
  BY <1>3, <1>4

\* What a sequence over S has at its positions.
LEMMA SeqFacts ==
  ASSUME NEW S, NEW s \in Seq(S)
  PROVE  /\ Len(s) \in Nat /\ DOMAIN s = 1..Len(s) /\ \A i \in 1..Len(s) : s[i] \in S
         /\ ToSet(s) \subseteq S /\ \A i \in 1..Len(s) : s[i] \in ToSet(s)
         /\ s # <<>> => Len(s) \in Nat \ {0} /\ Last(s) \in S
<1>1. Len(s) \in Nat /\ DOMAIN s = 1..Len(s) /\ \A i \in 1..Len(s) : s[i] \in S
  BY LenProperties
<1>2. s # <<>> => Len(s) \in Nat \ {0}
  BY EmptySeq
<1>3. QED
  BY <1>1, <1>2 DEF ToSet, Last

\* A function on the first n numbers is a sequence.
LEMMA FunctionIsSeq ==
  ASSUME NEW S, NEW n \in Nat, NEW f \in [1..n -> S]
  PROVE  f \in Seq(S) /\ DOMAIN f = 1..n
BY SeqDef

\* A concatenation holds what its parts hold; once, if they are apart.
LEMMA ConcatFacts ==
  ASSUME NEW S, NEW s \in Seq(S), NEW t \in Seq(S)
  PROVE  /\ s \o t \in Seq(S)
         /\ ToSet(s \o t) = ToSet(s) \cup ToSet(t)
         /\ s # <<>> => s \o t # <<>>
         /\ IsInjective(s) /\ IsInjective(t) /\ ToSet(s) \cap ToSet(t) = {} => IsInjective(s \o t)
<1> DEFINE c == s \o t
           m == Len(s)
           n == Len(t)
<1>1. /\ c \in Seq(S) /\ Len(c) = m + n
      /\ \A i \in 1..m + n : c[i] = IF i <= m THEN s[i] ELSE t[i - m]
  BY ConcatProperties
<1>2. /\ m \in Nat /\ DOMAIN s = 1..m /\ n \in Nat /\ DOMAIN t = 1..n
      /\ DOMAIN c = 1..m + n
  BY <1>1, LenProperties
<1>3. s # <<>> => c # <<>>
  BY ConcatEqualIffEmpty
<1> HIDE DEF c, m, n
<1>4. \A i \in 1..m : i \in 1..m + n /\ c[i] = s[i]
  BY <1>1, <1>2
<1>5. \A i \in 1..n : i + m \in 1..m + n /\ c[i + m] = t[i]
  <2> SUFFICES ASSUME NEW i \in 1..n
               PROVE  i + m \in 1..m + n /\ c[i + m] = t[i]
    OBVIOUS
  <2>1. i + m \in 1..m + n /\ ~(i + m <= m) /\ (i + m) - m = i
    BY <1>2
  <2>2. QED
    BY <1>1, <2>1
<1>6. \A i \in 1..m + n : \/ i \in 1..m /\ c[i] = s[i]
                          \/ i - m \in 1..n /\ c[i] = t[i - m]
  BY <1>1, <1>2
<1>7. ToSet(c) = ToSet(s) \cup ToSet(t)
  <2>1. ToSet(c) \subseteq ToSet(s) \cup ToSet(t)
    BY <1>2, <1>6 DEF ToSet
  <2>2. ToSet(s) \subseteq ToSet(c)
    BY <1>2, <1>4 DEF ToSet
  <2>3. ToSet(t) \subseteq ToSet(c)
    BY <1>2, <1>5 DEF ToSet
  <2>4. QED
    BY <2>1, <2>2, <2>3
<1>8. ASSUME IsInjective(s), IsInjective(t), ToSet(s) \cap ToSet(t) = {}
      PROVE  IsInjective(c)
  <2> SUFFICES ASSUME NEW i \in 1..m + n, NEW j \in 1..m + n, c[i] = c[j]
               PROVE  i = j
    BY <1>2 DEF IsInjective
  <2>1. \A k \in 1..m : s[k] \in ToSet(s)
    BY <1>2 DEF ToSet
  <2>2. \A k \in 1..n : t[k] \in ToSet(t)
    BY <1>2 DEF ToSet
  <2>3. CASE i \in 1..m /\ j \in 1..m
    BY <1>2, <1>4, <1>8, <2>3 DEF IsInjective
  <2>4. CASE i \notin 1..m /\ j \notin 1..m
    <3>1. i - m \in 1..n /\ j - m \in 1..n /\ t[i - m] = t[j - m]
      BY <1>6, <2>4
    <3>2. i - m = j - m
      BY <1>2, <1>8, <3>1 DEF IsInjective
    <3>3. QED
      BY <1>2, <3>2
  <2>5. CASE i \in 1..m /\ j \notin 1..m
    BY <1>4, <1>6, <1>8, <2>1, <2>2, <2>5
  <2>6. CASE i \notin 1..m /\ j \in 1..m
    BY <1>4, <1>6, <1>8, <2>1, <2>2, <2>6
  <2>7. QED
    BY <2>3, <2>4, <2>5, <2>6
<1>9. QED
  BY <1>1, <1>3, <1>7, <1>8 DEF c

\* What one more element leaves in place.
LEMMA AppendFacts ==
  ASSUME NEW S, NEW s \in Seq(S), NEW e \in S
  PROVE  /\ Append(s, e) \in Seq(S) /\ Append(s, e) # <<>>
         /\ Len(Append(s, e)) = Len(s) + 1
         /\ \A i \in 1..Len(s) : Append(s, e)[i] = s[i]
         /\ Append(s, e)[Len(s) + 1] = e /\ Last(Append(s, e)) = e
         /\ ToSet(Append(s, e)) = ToSet(s) \cup {e}
<1> DEFINE a == Append(s, e)
           n == Len(s)
<1>1. /\ a \in Seq(S) /\ a # <<>> /\ Len(a) = n + 1
      /\ \A i \in 1..n : a[i] = s[i]
      /\ a[n + 1] = e
  BY AppendProperties
<1>2. n \in Nat /\ DOMAIN s = 1..n /\ DOMAIN a = 1..n + 1
  BY <1>1, LenProperties
<1> HIDE DEF a, n
<1>3. \A i \in 1..n + 1 : i \in 1..n \/ i = n + 1
  BY <1>2
<1>4. n + 1 \in 1..n + 1 /\ \A i \in 1..n : i \in 1..n + 1
  BY <1>2
<1>5. ToSet(a) = ToSet(s) \cup {e}
  BY <1>1, <1>2, <1>3, <1>4 DEF ToSet
<1>6. QED
  BY <1>1, <1>5 DEF Last, a, n

\* The function by which FlattenSeq is defined exists.
LEMMA FlattenExists ==
  ASSUME NEW s, NEW n \in Nat
  PROVE  \E f : f = [i \in 1..n |-> IF i = 1 THEN s[i] ELSE f[i - 1] \o s[i]]
<1> DEFINE Has(m) == \E f : f = [i \in 1..m |-> IF i = 1 THEN s[i] ELSE f[i - 1] \o s[i]]
           Bad == {m \in Nat : ~Has(m)}
<1>1. SUFFICES ASSUME ~Has(n)
               PROVE  FALSE
  OBVIOUS
<1>2. Bad \in SUBSET Nat /\ Bad # {}
  BY <1>1
<1>3. PICK m \in Bad : \A y \in Bad : m <= y
  BY <1>2, LeastNatural
<1>4. CASE m = 0
  <2> DEFINE f == [i \in 1..0 |-> s[i]]
  <2>1. f = [i \in 1..0 |-> IF i = 1 THEN s[i] ELSE f[i - 1] \o s[i]]
    OBVIOUS
  <2>2. QED
    BY <1>3, <1>4, <2>1
<1>5. CASE m # 0
  <2>1. m - 1 \in Nat /\ ~(m <= m - 1) /\ (m - 1) + 1 = m
    BY <1>3, <1>5
  <2>2. Has(m - 1)
    BY <1>3, <2>1
  <2>3. PICK f : f = [i \in 1..m - 1 |-> IF i = 1 THEN s[i] ELSE f[i - 1] \o s[i]]
    BY <2>2
  <2> DEFINE g == [i \in 1..m |-> IF i \in 1..m - 1 THEN f[i] ELSE IF i = 1 THEN s[i] ELSE f[i - 1] \o s[i]]
  <2>4. ASSUME NEW i \in 1..m
        PROVE  g[i] = IF i = 1 THEN s[i] ELSE g[i - 1] \o s[i]
    <3>1. i # 1 => i - 1 \in 1..m - 1 /\ i - 1 \in 1..m
      BY <1>3
    <3>2. i # 1 => g[i - 1] = f[i - 1]
      BY <3>1
    <3> HIDE DEF g
    <3>3. g[i] = IF i \in 1..m - 1 THEN f[i] ELSE IF i = 1 THEN s[i] ELSE f[i - 1] \o s[i]
      BY DEF g
    <3>4. i \in 1..m - 1 => f[i] = IF i = 1 THEN s[i] ELSE f[i - 1] \o s[i]
      BY <2>3
    <3>5. QED
      BY <3>2, <3>3, <3>4
  <2>5. g = [i \in 1..m |-> IF i = 1 THEN s[i] ELSE g[i - 1] \o s[i]]
    <3>1. g = [i \in 1..m |-> g[i]]
      OBVIOUS
    <3> HIDE DEF g
    <3>2. QED
      BY <2>4, <3>1
  <2>6. Has(m)
    <3> HIDE DEF g
    <3>1. QED
      BY <2>5
  <2>7. QED
    BY <1>3, <2>6
<1>6. QED
  BY <1>4, <1>5

\* What a concatenation of sequences holds, and when it holds nothing twice.
LEMMA FlattenFacts ==
  ASSUME NEW S, NEW s \in Seq(Seq(S))
  PROVE  /\ FlattenSeq(s) \in Seq(S)
         /\ ToSet(FlattenSeq(s)) = UNION {ToSet(s[i]) : i \in DOMAIN s}
         /\ /\ \A i \in DOMAIN s : IsInjective(s[i])
            /\ \A i, j \in DOMAIN s : i # j => ToSet(s[i]) \cap ToSet(s[j]) = {}
            => IsInjective(FlattenSeq(s))
<1> DEFINE n == Len(s)
<1>1. n \in Nat /\ DOMAIN s = 1..n /\ \A i \in 1..n : s[i] \in Seq(S)
  BY LenProperties
<1>2. CASE n = 0
  <2>1. FlattenSeq(s) = s
    BY <1>2 DEF FlattenSeq
  <2>2. s = <<>> /\ DOMAIN s = {}
    BY <1>1, <1>2, EmptySeq
  <2>3. QED
    BY <2>1, <2>2, EmptySeq DEF ToSet, IsInjective
<1>3. CASE n # 0
  <2> DEFINE f == CHOOSE g : g = [i \in 1..n |-> IF i = 1 THEN s[i] ELSE g[i - 1] \o s[i]]
             Apart == /\ \A i \in 1..n : IsInjective(s[i])
                      /\ \A i, j \in 1..n : i # j => ToSet(s[i]) \cap ToSet(s[j]) = {}
             Fine(k) == /\ f[k] \in Seq(S)
                        /\ ToSet(f[k]) = UNION {ToSet(s[i]) : i \in 1..k}
                        /\ Apart => IsInjective(f[k])
             Bad == {k \in 1..n : ~Fine(k)}
  <2>1. FlattenSeq(s) = f[n]
    BY <1>3, Zenon DEF FlattenSeq
  <2>2. f = [i \in 1..n |-> IF i = 1 THEN s[i] ELSE f[i - 1] \o s[i]]
    BY <1>1, FlattenExists, Zenon
  <2> HIDE DEF f
  <2>3. \A i \in 1..n : f[i] = IF i = 1 THEN s[i] ELSE f[i - 1] \o s[i]
    BY <2>2
  <2>4. ASSUME NEW k \in 1..n, k = 1 \/ Fine(k - 1)
        PROVE  Fine(k)
    <3>1. CASE k = 1
      <4>1. f[k] = s[1] /\ 1..k = {1} /\ 1 \in 1..n
        BY <2>3, <3>1
      <4>2. UNION {ToSet(s[i]) : i \in 1..k} = ToSet(s[1])
        BY <4>1
      <4>3. f[k] \in Seq(S) /\ (Apart => IsInjective(f[k]))
        BY <1>1, <4>1
      <4>4. QED
        BY <4>1, <4>2, <4>3
    <3>2. CASE k # 1
      <4>1. /\ k - 1 \in 1..n /\ k \in 1..n /\ 1..k = (1..k - 1) \cup {k} /\ Fine(k - 1)
            /\ \A i \in 1..k - 1 : i \in 1..n /\ i # k
        BY <1>1, <2>4, <3>2
      <4>2. f[k] = f[k - 1] \o s[k]
        BY <2>3, <3>2
      <4>3. Apart => ToSet(f[k - 1]) \cap ToSet(s[k]) = {}
        <5> SUFFICES ASSUME Apart, NEW x \in ToSet(f[k - 1]), x \in ToSet(s[k])
                     PROVE  FALSE
          OBVIOUS
        <5>1. PICK i \in 1..k - 1 : x \in ToSet(s[i])
          BY <4>1
        <5>2. i \in 1..n /\ i # k
          BY <4>1
        <5>3. ToSet(s[i]) \cap ToSet(s[k]) = {}
          BY <5>2
        <5>4. QED
          BY <5>1, <5>3
      <4>4. s[k] \in Seq(S) /\ f[k - 1] \in Seq(S)
        BY <1>1, <4>1
      <4>5. /\ f[k] \in Seq(S)
            /\ ToSet(f[k]) = ToSet(f[k - 1]) \cup ToSet(s[k])
            /\ Apart => IsInjective(f[k])
        <5>1. /\ f[k] \in Seq(S)
              /\ ToSet(f[k]) = ToSet(f[k - 1]) \cup ToSet(s[k])
              /\ (IsInjective(f[k - 1]) /\ IsInjective(s[k]) /\ ToSet(f[k - 1]) \cap ToSet(s[k]) = {}
                    => IsInjective(f[k]))
          BY <4>2, <4>4, ConcatFacts
        <5>2. QED
          BY <4>1, <4>3, <5>1
      <4>6. QED
        BY <4>1, <4>5
    <3>3. QED
      BY <3>1, <3>2
  <2>5. Bad = {}
    <3>1. SUFFICES ASSUME Bad # {}
                   PROVE  FALSE
      OBVIOUS
    <3>2. Bad \in SUBSET Nat
      OBVIOUS
    <3>3. PICK k \in Bad : \A y \in Bad : k <= y
      BY <3>1, <3>2, LeastNatural
    <3>4. k \in 1..n /\ ~Fine(k)
      BY <3>3
    <3> HIDE DEF Fine
    <3>5. k # 1 => k - 1 \in 1..n /\ ~(k <= k - 1)
      BY <1>1, <3>4
    <3>6. k = 1 \/ Fine(k - 1)
      BY <3>3, <3>5
    <3>7. QED
      BY <2>4, <3>4, <3>6
  <2>6. Fine(n)
    <3> HIDE DEF Fine
    <3>1. QED
      BY <1>1, <1>3, <2>5
  <2>7. QED
    BY <1>1, <2>1, <2>6
<1>4. QED
  BY <1>2, <1>3

\* A concatenation of nonempty sequences, of which there is one, is not empty.
LEMMA FlattenNonempty ==
  ASSUME NEW S, NEW s \in Seq(Seq(S)), s # <<>>, \A i \in DOMAIN s : s[i] # <<>>
  PROVE  FlattenSeq(s) # <<>>
<1>1. 1 \in DOMAIN s /\ s[1] \in Seq(S) /\ s[1] # <<>>
  BY LenProperties, EmptySeq
<1>2. s[1][1] \in ToSet(s[1])
  <2>1. Len(s[1]) \in Nat \ {0} /\ DOMAIN s[1] = 1..Len(s[1])
    BY <1>1, LenProperties, EmptySeq
  <2>2. 1 \in DOMAIN s[1]
    BY <2>1
  <2>3. QED
    BY <2>2 DEF ToSet
<1>3. ToSet(s[1]) \subseteq ToSet(FlattenSeq(s))
  BY <1>1, FlattenFacts
<1>4. FlattenSeq(s) = <<>> => ToSet(FlattenSeq(s)) = {}
  BY EmptySeq, LenProperties DEF ToSet
<1>5. QED
  BY <1>2, <1>3, <1>4

\* The elements of s that are in S, none twice unless it is so in s.
LEMMA AmongFacts ==
  ASSUME NEW T, NEW s \in Seq(T), NEW S
  PROVE  /\ Among(s, S) \in Seq(T)
         /\ ToSet(Among(s, S)) = ToSet(s) \cap S
         /\ IsInjective(s) => IsInjective(Among(s, S))
<1> DEFINE m == [i \in DOMAIN s |-> IF s[i] \in S THEN <<s[i]>> ELSE <<>>]
<1>1. Among(s, S) = FlattenSeq(m)
  BY DEF Among, ForEach
<1>2. Len(s) \in Nat /\ DOMAIN s = 1..Len(s) /\ \A i \in 1..Len(s) : s[i] \in T
  BY LenProperties
<1>3. \A i \in 1..Len(s) : /\ m[i] \in Seq(T) /\ IsInjective(m[i])
                           /\ ToSet(m[i]) = {s[i]} \cap S
  <2> SUFFICES ASSUME NEW i \in 1..Len(s)
               PROVE  m[i] \in Seq(T) /\ IsInjective(m[i]) /\ ToSet(m[i]) = {s[i]} \cap S
    OBVIOUS
  <2>1. CASE s[i] \in S
    <3>1. m[i] = <<s[i]>> /\ DOMAIN <<s[i]>> = {1} /\ <<s[i]>>[1] = s[i]
      BY <1>2, <2>1
    <3>2. <<s[i]>> \in Seq(T)
      BY <1>2
    <3> HIDE DEF m
    <3>3. QED
      BY <2>1, <3>1, <3>2 DEF IsInjective, ToSet
  <2>2. CASE s[i] \notin S
    <3>1. m[i] = <<>> /\ DOMAIN <<>> = {} /\ <<>> \in Seq(T)
      BY <1>2, <2>2, EmptySeq
    <3> HIDE DEF m
    <3>2. QED
      BY <2>2, <3>1 DEF IsInjective, ToSet
  <2>3. QED
    BY <2>1, <2>2
<1>4. m \in Seq(Seq(T)) /\ DOMAIN m = 1..Len(s)
  <2>1. \A i \in 1..Len(s) : m[i] \in Seq(T)
    BY <1>3
  <2>2. m = [i \in 1..Len(s) |-> m[i]]
    BY <1>2
  <2> HIDE DEF m
  <2>3. m \in [1..Len(s) -> Seq(T)]
    BY <2>1, <2>2
  <2>4. QED
    BY <1>2, <2>3, SeqDef
<1> HIDE DEF m
<1>5. ToSet(Among(s, S)) = ToSet(s) \cap S
  <2>1. ToSet(Among(s, S)) = UNION {ToSet(m[i]) : i \in 1..Len(s)}
    BY <1>1, <1>4, FlattenFacts
  <2>2. UNION {ToSet(m[i]) : i \in 1..Len(s)} = UNION {{s[i]} \cap S : i \in 1..Len(s)}
    BY <1>3
  <2>3. QED
    <3>1. UNION {{s[i]} \cap S : i \in 1..Len(s)} = {s[i] : i \in 1..Len(s)} \cap S
      OBVIOUS
    <3>2. ToSet(s) = {s[i] : i \in 1..Len(s)}
      BY <1>2 DEF ToSet
    <3>3. QED
      BY <2>1, <2>2, <3>1, <3>2
<1>6. ASSUME IsInjective(s)
      PROVE  IsInjective(Among(s, S))
  <2>1. \A i, j \in 1..Len(s) : i # j => ToSet(m[i]) \cap ToSet(m[j]) = {}
    <3>1. \A i, j \in 1..Len(s) : i # j => s[i] # s[j]
      BY <1>2, <1>6 DEF IsInjective
    <3>2. \A i \in 1..Len(s) : ToSet(m[i]) \subseteq {s[i]}
      BY <1>3
    <3>3. QED
      BY <3>1, <3>2
  <2>2. QED
    BY <1>1, <1>3, <1>4, <2>1, FlattenFacts, Zenon
<1>7. Among(s, S) \in Seq(T)
  BY <1>1, <1>4, FlattenFacts
<1>8. QED
  BY <1>5, <1>6, <1>7

----------------------------------------------------------------------------
(* Command lines.                                                          *)

Points == STRING \X STRING \X Nat \X Nat

\* A lock that runs one oversubscribed point only still has a thread count.
LEMMA RunnableThreads ==
  ASSUME NEW lock, NEW threads \in Seq(Nat \ {0}), threads # <<>>, IsInjective(threads)
  PROVE  /\ runnable_threads_for_lock(lock, threads) \in Seq(Nat \ {0})
         /\ runnable_threads_for_lock(lock, threads) # <<>>
         /\ IsInjective(runnable_threads_for_lock(lock, threads))
<1> DEFINE over == {t \in ToSet(threads) : t > Cores}
           first == first_oversubscribed_thread_count(threads)
           kept == {t \in ToSet(threads) : t <= Cores \/ t = first}
<1>1. CASE \A t \in ToSet(threads) : t <= Cores
  BY <1>1 DEF runnable_threads_for_lock, limit_to_single_oversubscribed_thread_count
<1>2. CASE ~(\A t \in ToSet(threads) : t <= Cores)
  <2>1. ToSet(threads) \subseteq Nat
    BY SeqFacts
  <2>2. over \in SUBSET Nat /\ over # {}
    BY <1>2, <2>1, RootAssumption
  <2>3. PICK x \in over : \A y \in over : x <= y
    BY <2>2, LeastNatural
  <2>4. first \in over
    BY <2>3 DEF first_oversubscribed_thread_count, Min
  <2>5. first \in kept /\ kept \subseteq ToSet(threads)
    BY <2>4
  <2> DEFINE r == Among(threads, kept)
  <2>6. limit_to_single_oversubscribed_thread_count(threads) = r
    BY <1>2 DEF limit_to_single_oversubscribed_thread_count
  <2> HIDE DEF first, kept
  <2>7. r \in Seq(Nat \ {0}) /\ ToSet(r) = ToSet(threads) \cap kept /\ IsInjective(r)
    BY AmongFacts
  <2>8. r # <<>>
    <3>1. ToSet(r) # {}
      BY <2>5, <2>7
    <3>2. ToSet(<<>>) = {}
      BY DEF ToSet
    <3>3. QED
      BY <3>1, <3>2
  <2>9. QED
    BY <2>6, <2>7, <2>8 DEF runnable_threads_for_lock
<1>3. QED
  BY <1>1, <1>2

\* The points of one benchmark and lock, of one benchmark, of a command line.
PointsOfLock(benchmark, lock, threads, repeats) ==
    ForEach(threads, LAMBDA t : [r \in 1..repeats |-> <<benchmark, lock, t, r>>])

Full(keys) == keys \in Seq(Points) /\ keys # <<>> /\ IsInjective(keys)

\* Lists of points that have none in common make one list of points.
LEMMA FlattenFull ==
  ASSUME NEW n \in Nat \ {0}, NEW m, m = [i \in 1..n |-> m[i]],
         \A i \in 1..n : Full(m[i]),
         \A i, j \in 1..n : i # j => ToSet(m[i]) \cap ToSet(m[j]) = {}
  PROVE  Full(FlattenSeq(m)) /\ ToSet(FlattenSeq(m)) = UNION {ToSet(m[i]) : i \in 1..n}
<1>1. \A i \in 1..n : m[i] \in Seq(Points) /\ m[i] # <<>> /\ IsInjective(m[i])
  BY DEF Full
<1>2. m \in [1..n -> Seq(Points)]
  BY <1>1
<1>3. m \in Seq(Seq(Points)) /\ DOMAIN m = 1..n
  BY <1>2, SeqDef
<1>4. m # <<>>
  <2>1. 1 \in DOMAIN m
    BY <1>3
  <2>2. DOMAIN <<>> = {}
    OBVIOUS
  <2>3. QED
    BY <2>1, <2>2
<1>5. FlattenSeq(m) \in Seq(Points) /\ ToSet(FlattenSeq(m)) = UNION {ToSet(m[i]) : i \in 1..n}
  BY <1>3, FlattenFacts
<1>6. IsInjective(FlattenSeq(m))
  BY <1>1, <1>3, FlattenFacts
<1>7. FlattenSeq(m) # <<>>
  BY <1>1, <1>3, <1>4, FlattenNonempty
<1>8. QED
  BY <1>5, <1>6, <1>7 DEF Full

\* The points of one benchmark and lock differ in their threads or repeats.
LEMMA PointsOfLockFacts ==
  ASSUME NEW b \in STRING, NEW l \in STRING, NEW repeats \in Nat \ {0},
         NEW threads \in Seq(Nat \ {0}), threads # <<>>, IsInjective(threads)
  PROVE  /\ Full(PointsOfLock(b, l, threads, repeats))
         /\ \A k \in ToSet(PointsOfLock(b, l, threads, repeats)) : k[1] = b /\ k[2] = l
<1> DEFINE n == Len(threads)
           m == [i \in 1..n |-> [r \in 1..repeats |-> <<b, l, threads[i], r>>]]
<1>1. /\ n \in Nat \ {0} /\ DOMAIN threads = 1..n
      /\ \A i \in 1..n : threads[i] \in Nat \ {0}
  BY LenProperties, EmptySeq
<1>2. PointsOfLock(b, l, threads, repeats) = FlattenSeq(m)
  BY <1>1 DEF PointsOfLock, ForEach
<1>3. ASSUME NEW i \in 1..n
      PROVE  Full(m[i]) /\ \A k \in ToSet(m[i]) : k[1] = b /\ k[2] = l /\ k[3] = threads[i]
  <2> DEFINE q == m[i]
  <2>1. q = [r \in 1..repeats |-> <<b, l, threads[i], r>>]
    OBVIOUS
  <2>2. threads[i] \in Nat
    BY <1>1
  <2> HIDE DEF m
  <2>3. q \in [1..repeats -> Points]
    <3>1. \A r \in 1..repeats : r \in Nat
      OBVIOUS
    <3>2. \A r \in 1..repeats : <<b, l, threads[i], r>> \in Points
      BY <2>2, <3>1 DEF Points
    <3> HIDE DEF q
    <3>3. QED
      BY <2>1, <3>2
  <2>4. q \in Seq(Points) /\ DOMAIN q = 1..repeats
    <3> HIDE DEF q
    <3>1. q \in [1..repeats -> Points] /\ repeats \in Nat
      BY <2>3
    <3>2. QED
      BY <3>1, FunctionIsSeq
  <2>5. q # <<>>
    <3>1. 1 \in DOMAIN q
      BY <2>4
    <3>2. DOMAIN <<>> = {}
      OBVIOUS
    <3>3. QED
      BY <3>1, <3>2
  <2>6. \A r \in 1..repeats : q[r] = <<b, l, threads[i], r>>
    BY <2>1
  <2> HIDE DEF q
  <2>7. IsInjective(q)
    <3>1. \A r \in 1..repeats : q[r][4] = r
      <4> SUFFICES ASSUME NEW r \in 1..repeats
                   PROVE  q[r][4] = r
        OBVIOUS
      <4>1. q[r] = <<b, l, threads[i], r>>
        BY <2>6
      <4>2. QED
        BY <4>1
    <3>2. \A r, p \in 1..repeats : q[r] = q[p] => r = p
      BY <3>1
    <3>3. QED
      BY <2>4, <3>2 DEF IsInjective
  <2>8. \A k \in ToSet(q) : k[1] = b /\ k[2] = l /\ k[3] = threads[i]
    <3>1. \A r \in 1..repeats : q[r][1] = b /\ q[r][2] = l /\ q[r][3] = threads[i]
      <4> SUFFICES ASSUME NEW r \in 1..repeats
                   PROVE  q[r][1] = b /\ q[r][2] = l /\ q[r][3] = threads[i]
        OBVIOUS
      <4>1. q[r] = <<b, l, threads[i], r>>
        BY <2>6
      <4>2. QED
        BY <4>1
    <3>2. ToSet(q) = {q[r] : r \in 1..repeats}
      BY <2>4 DEF ToSet
    <3>3. QED
      BY <3>1, <3>2
  <2>9. QED
    BY <2>4, <2>5, <2>7, <2>8 DEF Full, q
<1>4. m = [i \in 1..n |-> m[i]]
  OBVIOUS
<1> HIDE DEF m
<1>5. \A i, j \in 1..n : i # j => ToSet(m[i]) \cap ToSet(m[j]) = {}
  <2> SUFFICES ASSUME NEW i \in 1..n, NEW j \in 1..n, i # j, NEW k \in ToSet(m[i]), k \in ToSet(m[j])
               PROVE  FALSE
    OBVIOUS
  <2>1. threads[i] # threads[j]
    BY <1>1 DEF IsInjective
  <2>2. k[3] = threads[i] /\ k[3] = threads[j]
    BY <1>3
  <2>3. QED
    BY <2>1, <2>2
<1>6. Full(FlattenSeq(m)) /\ ToSet(FlattenSeq(m)) = UNION {ToSet(m[i]) : i \in 1..n}
  BY <1>1, <1>3, <1>4, <1>5, FlattenFull
<1>7. QED
  BY <1>2, <1>3, <1>6

\* The points of one benchmark differ in their locks too.
LEMMA KeysOfFacts ==
  ASSUME NEW b \in STRING, NEW repeats \in Nat \ {0},
         NEW locks \in Seq(STRING), locks # <<>>, IsInjective(locks),
         NEW threads \in Seq(Nat \ {0}), threads # <<>>, IsInjective(threads)
  PROVE  /\ Full(KeysOf(b, locks, threads, repeats))
         /\ \A k \in ToSet(KeysOf(b, locks, threads, repeats)) : k[1] = b
<1> DEFINE n == Len(locks)
           own(l) == runnable_threads_for_lock(l, threads)
           m == [i \in 1..n |-> PointsOfLock(b, locks[i], own(locks[i]), repeats)]
<1>1. /\ n \in Nat \ {0} /\ DOMAIN locks = 1..n
      /\ \A i \in 1..n : locks[i] \in STRING
  BY LenProperties, EmptySeq
<1>2. KeysOf(b, locks, threads, repeats) = FlattenSeq(m)
  BY <1>1 DEF KeysOf, PointsOfLock, ForEach
<1>3. ASSUME NEW i \in 1..n
      PROVE  Full(m[i]) /\ \A k \in ToSet(m[i]) : k[1] = b /\ k[2] = locks[i]
  <2>1. locks[i] \in STRING
    BY <1>1
  <2>2. own(locks[i]) \in Seq(Nat \ {0}) /\ own(locks[i]) # <<>> /\ IsInjective(own(locks[i]))
    BY RunnableThreads
  <2> HIDE DEF own
  <2>3. m[i] = PointsOfLock(b, locks[i], own(locks[i]), repeats)
    OBVIOUS
  <2>4. QED
    BY <2>1, <2>2, <2>3, PointsOfLockFacts, Zenon
<1>4. m = [i \in 1..n |-> m[i]]
  OBVIOUS
<1> HIDE DEF m
<1>5. \A i, j \in 1..n : i # j => ToSet(m[i]) \cap ToSet(m[j]) = {}
  <2> SUFFICES ASSUME NEW i \in 1..n, NEW j \in 1..n, i # j, NEW k \in ToSet(m[i]), k \in ToSet(m[j])
               PROVE  FALSE
    OBVIOUS
  <2>1. locks[i] # locks[j]
    BY <1>1 DEF IsInjective
  <2>2. k[2] = locks[i] /\ k[2] = locks[j]
    BY <1>3
  <2>3. QED
    BY <2>1, <2>2
<1>6. Full(FlattenSeq(m)) /\ ToSet(FlattenSeq(m)) = UNION {ToSet(m[i]) : i \in 1..n}
  BY <1>1, <1>3, <1>4, <1>5, FlattenFull
<1>7. QED
  BY <1>2, <1>3, <1>6

\* The points of a command line; there are some, and none is there twice.
AllTargets(a) == ForEach(a.benchmarks, LAMBDA b : KeysOf(b, a.locks, a.threads, a.repeats))

\* Whatever the command line, there are targets, none twice.
LEMMA TargetsFacts ==
  ASSUME NEW a \in CommandLines
  PROVE  Full(AllTargets(a))
<1> DEFINE n == Len(a.benchmarks)
           m == [i \in 1..n |-> KeysOf(a.benchmarks[i], a.locks, a.threads, a.repeats)]
<1>1. /\ a.benchmarks \in Seq(STRING) /\ a.benchmarks # <<>> /\ IsInjective(a.benchmarks)
      /\ a.locks \in Seq(STRING) /\ a.locks # <<>> /\ IsInjective(a.locks)
      /\ a.threads \in Seq(Nat \ {0}) /\ a.threads # <<>> /\ IsInjective(a.threads)
      /\ a.repeats \in Nat \ {0}
  BY LinesAssumption, NamedOnceAssumption
<1>2. /\ n \in Nat \ {0} /\ DOMAIN a.benchmarks = 1..n
      /\ \A i \in 1..n : a.benchmarks[i] \in STRING
  BY <1>1, LenProperties, EmptySeq
<1>3. AllTargets(a) = FlattenSeq(m)
  BY <1>2 DEF AllTargets, ForEach
<1>4. ASSUME NEW i \in 1..n
      PROVE  Full(m[i]) /\ \A k \in ToSet(m[i]) : k[1] = a.benchmarks[i]
  <2>1. a.benchmarks[i] \in STRING
    BY <1>2
  <2>2. m[i] = KeysOf(a.benchmarks[i], a.locks, a.threads, a.repeats)
    OBVIOUS
  <2>3. QED
    BY <1>1, <2>1, <2>2, KeysOfFacts
<1>5. m = [i \in 1..n |-> m[i]]
  OBVIOUS
<1> HIDE DEF m
<1>6. \A i, j \in 1..n : i # j => ToSet(m[i]) \cap ToSet(m[j]) = {}
  <2> SUFFICES ASSUME NEW i \in 1..n, NEW j \in 1..n, i # j, NEW k \in ToSet(m[i]), k \in ToSet(m[j])
               PROVE  FALSE
    OBVIOUS
  <2>1. a.benchmarks[i] # a.benchmarks[j]
    BY <1>1, <1>2 DEF IsInjective
  <2>2. k[1] = a.benchmarks[i] /\ k[1] = a.benchmarks[j]
    BY <1>4
  <2>3. QED
    BY <2>1, <2>2
<1>7. Full(FlattenSeq(m))
  BY <1>2, <1>4, <1>5, <1>6, FlattenFull
<1>8. QED
  BY <1>3, <1>7

----------------------------------------------------------------------------
(* The state.                                                              *)

Names == {"init", "run"} \X Points
LogFile == [run : Nat, printed : BOOLEAN, rc : {"none", "ok", "bad", "timeout"}]
RunRow == [key : Points, run : Nat]

\* Every log, there or not.
L == [name \in Names |-> Log(name)]

Commanding == pc \in {"manifest", "dump", "handle"}
InCommand == pc = "running" \/ (Commanding /\ stage \in {"init", "run"})
Loaded == pc \notin {"off", "ensure", "load"} /\ ~(Commanding /\ stage = "build")

\* The process lives, and its rows are its own or of files not overwritten.
Clean == pc # "off" /\ (mixed => ~args.resume)

\* The points whose records --resume uses.
Usable(recs) == {rec \in ToSet(recs) : rec.ok /\ rec.log[1] = "run"}

Passed == {targets[i] : i \in 1..pos - 1}

TypeInv ==
    /\ experiment \in {"three", "four", "five", "six"}
    /\ pc \in {"off", "ensure", "load", "next", "running", "manifest", "dump", "handle",
               "progress", "progress_open", "raw", "raw_open", "report"}
    /\ stage \in {"none", "build", "init", "run"}
    /\ DOMAIN logs \subseteq Names /\ logs \in [DOMAIN logs -> LogFile]
    /\ rows \in Seq(RunRow)
    /\ rawCsv \in [state : {"absent", "torn", "whole"}, rows : Seq(RunRow)]
    /\ records \in Seq(ToSet(records))
    /\ commands = [torn |-> commands.torn, recs |-> commands.recs] /\ commands.torn \in BOOLEAN
    /\ commands.recs \in Seq(ToSet(commands.recs))
    /\ targets \in Seq(Points) /\ IsInjective(targets)
    /\ pos \in 1..Len(targets) + 1
    /\ failures \subseteq Points /\ failedCsv \subseteq Points
    /\ sessions \in Nat /\ temps \subseteq Points \X (0..sessions)
    /\ mixed \in BOOLEAN

\* What goes with what.
PhaseInv ==
    /\ pc = "off" <=> status # "running"
    /\ pc = "running" => stage \in {"init", "run"}
    /\ pc \in {"ensure", "load"} => stage = "none"
    /\ Commanding => stage # "none"
    /\ pc # "off" /\ experiment = "four" => ~args.resume
    /\ pc # "off" /\ experiment # "four" => targets # <<>>
    /\ pc \in {"progress", "progress_open"} => experiment = "five"
    /\ stage = "init" => experiment \in {"four", "five"}
    /\ ~Loaded => rows = <<>> /\ failures = {} /\ pos = 1
    /\ sessions = 0 => pc = "off" /\ rawCsv.rows = <<>> /\ commands.recs = <<>>

TempsInv ==
    /\ pc # "off" => \A t \in temps :
          t[2] = sessions => \/ args.keep
                             \/ t = Temp /\ InRun /\ (experiment = "five" => Cache!workload(Key) = "rocksdb")
    /\ TempsRemoved

RunInv ==
    /\ InCommand => pos <= Len(targets) /\ Key \notin Keys(rows)
    /\ pc = "running" => <<stage, Key>> \in DOMAIN logs /\ L[<<stage, Key>>].rc = "none"
    /\ InCommand /\ pc # "running" =>
        /\ records # <<>>
        /\ Last(records) = [log |-> <<stage, Key>>, run |-> L[<<stage, Key>>].run,
                            ok |-> L[<<stage, Key>>].rc = "ok"]
    /\ experiment = "four" => Keys(rows) \subseteq Passed

Covered ==
    /\ Keys(rows) \cup failures \subseteq ToSet(targets)
    /\ Passed \subseteq Keys(rows) \cup failures
    /\ failures \subseteq Passed \cup Keys(rows)
    /\ \A k \in Keys(rows) \cap failures : L[<<"run", k>>].rc = "timeout"

CoverInv ==
    /\ pc # "off" => Covered
    /\ pc \in {"raw", "raw_open", "report"} => pos = Len(targets) + 1
    /\ pc = "report" => rawCsv = [state |-> "whole", rows |-> rows]
    /\ ExitTellsOutcome

OneRowEach(rs) == \A i, j \in DOMAIN rs : rs[i].key = rs[j].key => i = j

DistinctInv == OneRowEach(rows) /\ OneRowEach(rawCsv.rows)

\* commands.json and the records in memory.
ManifestInv ==
    /\ commands.torn => commands.recs = <<>>
    /\ pc # "off" /\ (args.resume \/ ~mixed) => ToSet(commands.recs) \subseteq ToSet(records)
    /\ pc \notin {"off", "manifest", "dump"} /\ records # <<>> => commands = [torn |-> FALSE, recs |-> records]
    /\ pc # "off" /\ ~args.resume /\ (pos > 1 \/ rows # <<>>) => records # <<>>

\* A successful record of a target has a row, or is just about to have one.
RecordsInv ==
    /\ \A rec \in Usable(records) \cup Usable(commands.recs) : rec.log \in {"run"} \X Points
    /\ pc # "off" /\ ~Loaded /\ ~args.resume => Usable(records) = {}
    /\ \A rec \in Usable(records) :
          Loaded /\ rec.log[2] \in ToSet(targets) /\ experiment # "four"
            /\ (experiment = "five" => L[rec.log].rc = "ok")
          => \/ rec.log[2] \in Keys(rows)
             \/ rec.log[2] = Key /\ Commanding /\ stage = "run" /\ Last(records).ok

GoodRecords(recs) == \A rec \in Usable(recs) : L[rec.log].rc = "ok"

Recorded(rs, recs) == \A i \in DOMAIN rs : \E rec \in Usable(recs) : rec.log = <<"run", rs[i].key>>

\* Experiments three and six trust their records: those that a row may be
\* taken from tell of finished runs, and each row has one.
OwnRecords ==
    experiment \in {"three", "six"} =>
        /\ Clean => GoodRecords(records)
        /\ ~mixed => GoodRecords(commands.recs)
        /\ pc # "off" => Recorded(rows, records)
        /\ pc # "off" /\ ~mixed => Recorded(rawCsv.rows, records)
        /\ ~mixed /\ ~commands.torn => Recorded(rawCsv.rows, commands.recs)

BackedRows(rs) ==
    \A i \in DOMAIN rs : LET log == L[<<"run", rs[i].key>>] IN log.run = rs[i].run /\ Acceptable(log)

RowsInv ==
    /\ Clean => BackedRows(rows)
    /\ ~mixed => BackedRows(rawCsv.rows)
    /\ ~mixed /\ Loaded => Keys(rawCsv.rows) \cap ToSet(targets) \subseteq Keys(rows)
    /\ ~mixed /\ pc # "off" /\ ~Loaded /\ ~args.resume => rawCsv.rows = <<>>

\* The inductive invariant.
Inv ==
    /\ TypeInv /\ PhaseInv /\ TempsInv /\ RunInv /\ CoverInv /\ DistinctInv
    /\ ManifestInv /\ RecordsInv /\ OwnRecords /\ RowsInv

----------------------------------------------------------------------------
(* What the steps of the four programs have in common.                     *)

\* The temporary files of the run under way are gone, or are to be kept.
Cleaned == temps' = temps \ {Temp} \/ (args.keep /\ temps' = temps)

Starts ==
    \E a \in CommandLines, keys \in Seq(Points) :
        /\ IsInjective(keys) /\ (experiment # "four" => keys # <<>>)
        /\ experiment = "four" => ~a.resume
        /\ StartSession(a, keys)

\* The process ends with no more than what it had written.
Ends ==
    /\ pc # "off"
    /\ \E how \in {"error", "killed", "interrupted"} :
        /\ Exit(how)
        /\ temps' \subseteq temps
        /\ (InRun /\ how # "killed" /\ ~args.keep) => temps' = temps \ {Temp}
    /\ \/ rawCsv' = rawCsv
       \/ \E n \in 0..Len(rows) : /\ pc \in {"raw_open", "progress_open"}
                                  /\ rawCsv' = [rawCsv EXCEPT !.rows = SubSeq(rows, 1, n)]
    /\ UNCHANGED <<args, targets, logs, commands, failedCsv, sessions, mixed>>

ToolsFound ==
    /\ pc = "ensure" /\ pc' = "load"
    /\ UNCHANGED <<args, targets, pos, stage, records, rows, failures, status, files, bounds>>

Builds ==
    /\ pc = "ensure" /\ pc' = "manifest" /\ stage' = "build"
    /\ \E tool, ok : records' = Append(records, [log |-> <<"build", tool>>, run |-> 1, ok |-> ok])
    /\ UNCHANGED <<args, targets, pos, rows, failures, status,
                   logs, commands, rawCsv, failedCsv, temps, bounds>>

Built ==
    /\ pc = "handle" /\ stage = "build" /\ pc' = "ensure" /\ stage' = "none"
    /\ UNCHANGED <<args, targets, pos, records, rows, failures, status, files, bounds>>

\* What the rows of --resume are taken from.
FromRecords ==
    /\ Keys(rows') = ToSet(targets) \cap {rec.log[2] : rec \in Usable(records)}
    /\ \A i \in DOMAIN rows' : rows'[i].run = L[<<"run", rows'[i].key>>].run
    /\ experiment = "three" => \A rec \in Usable(records) : L[rec.log].printed

FromRawCsv ==
    LET good == {rec \in Usable(records) : L[rec.log].rc = "ok"} IN
    /\ Keys(rows') = ToSet(targets) \cap (Keys(rawCsv.rows) \cup {rec.log[2] : rec \in good})
    /\ \A i \in DOMAIN rows' :
        \/ rows'[i] \in ToSet(rawCsv.rows)
        \/ LET log == L[<<"run", rows'[i].key>>] IN rows'[i].run = log.run /\ log.rc = "ok"

Loads ==
    /\ pc = "load" /\ pc' \in {"next", "progress"}
    /\ pc' = "progress" => experiment = "five"
    /\ rows' \in Seq(RunRow) /\ OneRowEach(rows')
    /\ IF args.resume
       THEN /\ experiment \in {"three", "six"} => FromRecords
            /\ experiment = "five" => FromRawCsv
       ELSE rows' = <<>>
    /\ UNCHANGED <<args, targets, pos, stage, records, failures, status, files, bounds>>

Skips ==
    /\ pc = "next" /\ pos <= Len(targets) /\ Key \in Keys(rows)
    /\ pos' = pos + 1
    /\ UNCHANGED <<pc, args, targets, stage, records, rows, failures, status, files, bounds>>

Opens ==
    \E st \in {"init", "run"} :
        /\ st = "init" => experiment \in {"four", "five"}
        /\ \/ /\ pc = "next" /\ pos <= Len(targets)
              /\ experiment # "four" => Key \notin Keys(rows)
              /\ \/ temps' = temps
                 \/ /\ temps' = temps \cup {Temp}
                    /\ experiment = "five" => Cache!workload(Key) = "rocksdb"
           \/ pc = "handle" /\ stage = "init" /\ temps' = temps
        /\ OpenLog(st)
        /\ UNCHANGED <<args, targets, pos, records, rows, failures, status,
                       commands, rawCsv, failedCsv, tools, bounds>>

Closes ==
    \E rc \in {"ok", "bad", "timeout"} : CloseLog(rc)

Rows ==
    /\ pc = "handle" /\ stage = "run"
    /\ Acceptable(L[<<"run", Key>>])
    /\ rows' = Append(rows, [key |-> Key, run |-> L[<<"run", Key>>].run])
    /\ IF L[<<"run", Key>>].rc = "ok" THEN failures' = failures ELSE failures' = failures \cup {Key}
    /\ failedCsv' = failedCsv \/ failedCsv' = failures'
    /\ IF experiment = "five"
       THEN pc' = "progress" /\ pos' = pos /\ temps' = temps
       ELSE pc' = "next" /\ pos' = pos + 1 /\ Cleaned
    /\ UNCHANGED <<args, targets, stage, records, status, logs, commands, rawCsv, tools, bounds>>

Fails ==
    /\ pc = "handle" /\ stage \in {"init", "run"} /\ ~Last(records).ok
    /\ failures' = failures \cup {Key} /\ failedCsv' = failures'
    /\ pos' = pos + 1 /\ pc' = "next"
    /\ Cleaned \/ (experiment = "five" /\ Cache!workload(Key) # "rocksdb" /\ temps' = temps)
    /\ UNCHANGED <<args, targets, stage, records, rows, status, logs, commands, rawCsv, tools, bounds>>

Finishes ==
    /\ pc = "next" /\ pos > Len(targets) /\ pc' = "raw"
    /\ UNCHANGED <<args, targets, pos, stage, records, rows, failures, status, files, bounds>>

OpensRaw ==
    /\ \/ OpenRaw("raw", "raw_open")
       \/ experiment = "five" /\ OpenRaw("progress", "progress_open")
    /\ temps' = temps

ClosesRaw ==
    \/ CloseRaw("raw_open", "report") /\ temps' = temps
    \/ experiment = "five" /\ CloseRaw("progress_open", "next") /\ temps' = temps \ {Temp}

Steps ==
    \/ Starts \/ Ends \/ ToolsFound \/ Builds \/ Built \/ Loads \/ Skips \/ Opens \/ PrintResults
    \/ Closes \/ OpenManifest \/ CloseManifest \/ Rows \/ Fails \/ Finishes \/ OpensRaw \/ ClosesRaw
    \/ Report

----------------------------------------------------------------------------
(* The helpers of the steps.                                               *)

\* The records are of any kind: the sequence is typed by its own elements.
LEMMA AppendAny ==
  ASSUME NEW s, s \in Seq(ToSet(s)), NEW e
  PROVE  /\ Append(s, e) \in Seq(ToSet(Append(s, e))) /\ Append(s, e) # <<>>
         /\ ToSet(Append(s, e)) = ToSet(s) \cup {e}
         /\ Last(Append(s, e)) = e
<1> DEFINE S == ToSet(s) \cup {e}
<1>1. s \in Seq(S) /\ e \in S
  BY SeqMonotonic
<1> HIDE DEF S
<1>2. Append(s, e) \in Seq(S) /\ Append(s, e) # <<>> /\ Last(Append(s, e)) = e
  BY <1>1, AppendFacts
<1>3. ToSet(Append(s, e)) = ToSet(s) \cup {e}
  BY <1>1, AppendFacts
<1>4. QED
  BY <1>2, <1>3 DEF S

\* The target at pos is not among those before it.
LEMMA KeyFacts ==
  ASSUME TypeInv, pos <= Len(targets)
  PROVE  /\ Key \in Points /\ Key \in ToSet(targets) /\ pos \in 1..Len(targets) /\ pos + 1 \in 1..Len(targets) + 1
         /\ Key \notin Passed
         /\ {targets[i] : i \in 1..pos} = Passed \cup {Key}
<1>1. targets \in Seq(Points) /\ pos \in 1..Len(targets) + 1 /\ IsInjective(targets)
  BY DEF TypeInv
<1>2. Len(targets) \in Nat /\ DOMAIN targets = 1..Len(targets) /\ \A i \in 1..Len(targets) : targets[i] \in Points
  BY <1>1, LenProperties
<1>3. pos \in 1..Len(targets) /\ pos + 1 \in 1..Len(targets) + 1
  BY <1>1, <1>2
<1>4. \A i \in 1..pos - 1 : i \in 1..Len(targets) /\ i # pos
  BY <1>2, <1>3
<1>5. \A i \in 1..pos - 1 : targets[i] # targets[pos]
  BY <1>1, <1>2, <1>3, <1>4 DEF IsInjective
<1>6. 1..pos = (1..pos - 1) \cup {pos}
  BY <1>2, <1>3
<1>7. {targets[i] : i \in 1..pos} = {targets[i] : i \in 1..pos - 1} \cup {targets[pos]}
  BY <1>6
<1>8. QED
  BY <1>2, <1>3, <1>5, <1>7 DEF Key, Passed, ToSet

\* The points of the rows, with one row more.
LEMMA KeysFacts ==
  ASSUME NEW S, NEW rs \in Seq(S), NEW r \in S
  PROVE  /\ Keys(Append(rs, r)) = Keys(rs) \cup {r.key}
         /\ \A i \in DOMAIN Append(rs, r) : \/ i \in DOMAIN rs /\ Append(rs, r)[i] = rs[i]
                                            \/ Append(rs, r)[i] = r /\ i = Len(rs) + 1
<1> DEFINE a == Append(rs, r)
           n == Len(rs)
<1>1. /\ a \in Seq(S) /\ Len(a) = n + 1 /\ a[n + 1] = r
      /\ \A i \in 1..n : a[i] = rs[i]
  BY AppendFacts
<1>2. n \in Nat /\ DOMAIN rs = 1..n /\ DOMAIN a = 1..n + 1
  BY <1>1, LenProperties
<1> HIDE DEF a, n
<1>3. \A i \in 1..n + 1 : i \in 1..n \/ i = n + 1
  BY <1>2
<1>4. n + 1 \in 1..n + 1 /\ \A i \in 1..n : i \in 1..n + 1
  BY <1>2
<1>5. Keys(a) = Keys(rs) \cup {r.key}
  BY <1>1, <1>2, <1>3, <1>4 DEF Keys
<1>6. \A i \in DOMAIN a : (i \in DOMAIN rs /\ a[i] = rs[i]) \/ (a[i] = r /\ i = n + 1)
  BY <1>1, <1>2, <1>3
<1>7. QED
  BY <1>5, <1>6 DEF a, n

\* A prefix of the rows.
LEMMA PrefixFacts ==
  ASSUME NEW S, NEW rs \in Seq(S), NEW n \in 0..Len(rs)
  PROVE  /\ SubSeq(rs, 1, n) \in Seq(S)
         /\ DOMAIN SubSeq(rs, 1, n) = 1..n /\ DOMAIN SubSeq(rs, 1, n) \subseteq DOMAIN rs
         /\ \A i \in DOMAIN SubSeq(rs, 1, n) : SubSeq(rs, 1, n)[i] = rs[i]
<1>1. Len(rs) \in Nat /\ DOMAIN rs = 1..Len(rs)
  BY LenProperties
<1>2. 1 \in 1..Len(rs) + 1 /\ n \in 1 - 1..Len(rs) /\ n \in Nat
  BY <1>1
<1> DEFINE q == SubSeq(rs, 1, n)
<1>3. q \in Seq(S) /\ Len(q) = IF 1 <= n THEN n - 1 + 1 ELSE 0
  BY <1>1, <1>2, SubSeqProperties
<1>4. \A i \in 1..n - 1 + 1 : q[i] = rs[1 + i - 1]
  BY <1>1, <1>2, SubSeqProperties
<1> HIDE DEF q
<1>5. Len(q) = n /\ DOMAIN q = 1..n
  BY <1>2, <1>3, LenProperties
<1>6. \A i \in 1..n : q[i] = rs[i] /\ i \in 1..Len(rs)
  BY <1>1, <1>2, <1>4
<1>7. QED
  BY <1>1, <1>3, <1>5, <1>6 DEF q

\* Every log, there or not, is a log file.
LEMMA LogFacts ==
  ASSUME TypeInv
  PROVE  /\ L \in [Names -> LogFile]
         /\ \A n \in Names : L[n] = Log(n)
<1>1. \A n \in Names : Log(n) \in LogFile
  BY DEF TypeInv, Log, NoLog, LogFile
<1>2. QED
  BY <1>1 DEF L

\* Log files that are not written stay as they are.
LEMMA LogKept ==
  ASSUME logs' = logs
  PROVE  L' = L
BY DEF L, Log

\* Opening a log truncates that one only, and numbers its run anew.
LEMMA LogOpened ==
  ASSUME TypeInv, pos <= Len(targets), NEW st \in {"init", "run"}, OpenLog(st)
  PROVE  /\ <<st, Key>> \in Names
         /\ L' = [L EXCEPT ![<<st, Key>>] = [run |-> L[<<st, Key>>].run + 1, printed |-> FALSE, rc |-> "none"]]
         /\ DOMAIN logs' = DOMAIN logs \cup {<<st, Key>>}
         /\ DOMAIN logs' \subseteq Names /\ logs' \in [DOMAIN logs' -> LogFile]
<1> DEFINE n == <<st, Key>>
<1>1. n \in Names /\ L \in [Names -> LogFile] /\ \A m \in Names : L[m] = Log(m)
  BY KeyFacts, LogFacts DEF Names
<1>2. logs' = [m \in DOMAIN logs \cup {n} |-> IF m = n THEN [run |-> Log(m).run + 1, printed |-> FALSE, rc |-> "none"] ELSE logs[m]]
  BY DEF OpenLog
<1> DEFINE e == [run |-> L[n].run + 1, printed |-> FALSE, rc |-> "none"]
<1>3. [run |-> Log(n).run + 1, printed |-> FALSE, rc |-> "none"] = e /\ e \in LogFile
  <2>1. L[n] \in LogFile /\ Log(n) = L[n]
    BY <1>1
  <2>2. L[n].run + 1 \in Nat
    BY <2>1 DEF LogFile
  <2>3. e \in LogFile
    BY <2>2 DEF LogFile
  <2>4. [run |-> Log(n).run + 1, printed |-> FALSE, rc |-> "none"] = e
    BY <2>1 DEF e
  <2>5. QED
    BY <2>3, <2>4
<1>4. DOMAIN logs \subseteq
        Names /\ \A m \in DOMAIN logs : logs[m] \in LogFile
  BY DEF TypeInv
<1> HIDE DEF n, e
<1>5. /\ DOMAIN logs' = DOMAIN logs \cup {n}
      /\ \A m \in DOMAIN logs \cup {n} : logs'[m] = IF m = n THEN e ELSE logs[m]
  BY <1>2, <1>3
<1>6. DOMAIN logs' \subseteq Names /\ logs' \in [DOMAIN logs' -> LogFile]
  <2>1. \A m \in DOMAIN logs' : logs'[m] \in LogFile
    BY <1>3, <1>4, <1>5
  <2>2. logs' = [m \in DOMAIN logs' |-> logs'[m]]
    BY <1>2
  <2>3. QED
    BY <1>1, <1>4, <1>5, <2>1, <2>2
<1>7. L' = [m \in Names |-> IF m \in DOMAIN logs' THEN logs'[m] ELSE NoLog]
  BY DEF L, Log
<1>8. \A m \in Names : L[m] = IF m \in DOMAIN logs THEN logs[m] ELSE NoLog
  BY <1>1 DEF Log
<1>9. L' = [L EXCEPT ![n] = e]
  BY <1>1, <1>5, <1>7, <1>8
<1>10. QED
  BY <1>1, <1>5, <1>6, <1>9 DEF n, e

\* Writing to a log changes that one only.
LEMMA LogEdited ==
  ASSUME TypeInv, NEW n \in DOMAIN logs, NEW e \in LogFile, logs' = [logs EXCEPT ![n] = e]
  PROVE  /\ L' = [L EXCEPT ![n] = e] /\ L[n] = logs[n]
         /\ DOMAIN logs' = DOMAIN logs
         /\ DOMAIN logs' \subseteq Names /\ logs' \in [DOMAIN logs' -> LogFile]
<1>1. /\ L \in [Names -> LogFile] /\ \A m \in Names : L[m] = Log(m)
      /\ DOMAIN logs \subseteq Names /\ logs \in [DOMAIN logs -> LogFile]
  BY LogFacts DEF TypeInv
<1>2. /\ DOMAIN logs' = DOMAIN logs /\ logs' \in [DOMAIN logs -> LogFile]
      /\ \A m \in DOMAIN logs : logs'[m] = IF m = n THEN e ELSE logs[m]
  BY <1>1
<1>3. L' = [m \in Names |-> IF m \in DOMAIN logs' THEN logs'[m] ELSE NoLog]
  BY DEF L, Log
<1>4. \A m \in Names : L[m] = IF m \in DOMAIN logs THEN logs[m] ELSE NoLog
  BY <1>1 DEF Log
<1>5. n \in Names
  BY <1>1
<1>6. L' = [L EXCEPT ![n] = e]
  BY <1>1, <1>2, <1>3, <1>4, <1>5
<1>7. QED
  BY <1>1, <1>2, <1>4, <1>5, <1>6

\* Printed results change the log of the run under way only.
LEMMA LogPrinted ==
  ASSUME TypeInv, RunInv, PrintResults
  PROVE  /\ pc = "running" /\ stage = "run" /\ pos <= Len(targets) /\ <<"run", Key>> \in Names
         /\ L' = [L EXCEPT ![<<"run", Key>>] = [L[<<"run", Key>>] EXCEPT !.printed = TRUE]]
         /\ L'[<<"run", Key>>].rc = "none" /\ L'[<<"run", Key>>].run = L[<<"run", Key>>].run
         /\ L' \in [Names -> LogFile]
         /\ DOMAIN logs' = DOMAIN logs
         /\ DOMAIN logs' \subseteq Names /\ logs' \in [DOMAIN logs' -> LogFile]
<1> DEFINE n == <<"run", Key>>
           e == [logs[n] EXCEPT !.printed = TRUE]
<1>1. /\ pc = "running" /\ stage = "run" /\ pos <= Len(targets)
      /\ n \in DOMAIN logs /\ L[n].rc = "none"
      /\ logs' = [logs EXCEPT ![n].printed = TRUE]
  BY DEF PrintResults, RunInv, InCommand
<1>2. DOMAIN logs \subseteq Names /\ logs \in [DOMAIN logs -> LogFile] /\ L \in [Names -> LogFile]
  BY LogFacts DEF TypeInv
<1> HIDE DEF n
<1>3. logs[n] \in LogFile
  BY <1>1, <1>2
<1>4. e \in LogFile /\ e.run = logs[n].run /\ e.rc = logs[n].rc
  BY <1>3 DEF LogFile
<1>5. logs' = [logs EXCEPT ![n] = e]
  BY <1>1
<1> HIDE DEF e
<1>6. /\ L' = [L EXCEPT ![n] = e] /\ L[n] = logs[n]
      /\ DOMAIN logs' = DOMAIN logs
      /\ DOMAIN logs' \subseteq Names /\ logs' \in [DOMAIN logs' -> LogFile]
  BY <1>1, <1>4, <1>5, LogEdited
<1>7. L'[n].rc = "none" /\ L'[n].run = L[n].run /\ L' \in [Names -> LogFile]
  BY <1>1, <1>2, <1>4, <1>6
<1>8. e = [L[n] EXCEPT !.printed = TRUE]
  BY <1>6 DEF e
<1>9. QED
  BY <1>1, <1>2, <1>6, <1>7, <1>8 DEF n

\* The return code goes to the log of the command under way, and its record
\* agrees with it.
LEMMA LogClosed ==
  ASSUME TypeInv, PhaseInv, RunInv, NEW rc \in {"ok", "bad", "timeout"}, CloseLog(rc)
  PROVE  /\ pc = "running" /\ pos <= Len(targets) /\ <<stage, Key>> \in Names /\ stage \in {"init", "run"}
         /\ \A n \in Names : n # <<stage, Key>> => L'[n] = L[n]
         /\ L'[<<stage, Key>>].run = L[<<stage, Key>>].run
         /\ L'[<<stage, Key>>].printed = L[<<stage, Key>>].printed
         /\ L'[<<stage, Key>>].rc = rc /\ L[<<stage, Key>>].rc = "none"
         /\ L' \in [Names -> LogFile]
         /\ DOMAIN logs' = DOMAIN logs
         /\ DOMAIN logs' \subseteq Names /\ logs' \in [DOMAIN logs' -> LogFile]
         /\ records' = Append(records, [log |-> <<stage, Key>>, run |-> L[<<stage, Key>>].run, ok |-> rc = "ok"])
<1> DEFINE n == <<stage, Key>>
           e == [logs[n] EXCEPT !.rc = rc]
<1>1. /\ pc = "running" /\ pos <= Len(targets) /\ stage \in {"init", "run"}
      /\ n \in DOMAIN logs /\ L[n].rc = "none"
      /\ logs' = [logs EXCEPT ![n].rc = rc]
      /\ records' = Append(records, [log |-> n, run |-> Log(n).run, ok |-> rc = "ok"])
  BY DEF CloseLog, RunInv, PhaseInv, InCommand
<1>2. /\ DOMAIN logs \subseteq Names /\ logs \in [DOMAIN logs -> LogFile] /\ L \in [Names -> LogFile]
      /\ \A m \in Names : L[m] = Log(m)
  BY LogFacts DEF TypeInv
<1> HIDE DEF n
<1>3. logs[n] \in LogFile
  BY <1>1, <1>2
<1>4. e \in LogFile /\ e.run = logs[n].run /\ e.printed = logs[n].printed /\ e.rc = rc
  BY <1>3 DEF LogFile
<1>5. logs' = [logs EXCEPT ![n] = e]
  BY <1>1
<1> HIDE DEF e
<1>6. /\ L' = [L EXCEPT ![n] = e] /\ L[n] = logs[n]
      /\ DOMAIN logs' = DOMAIN logs
      /\ DOMAIN logs' \subseteq Names /\ logs' \in [DOMAIN logs' -> LogFile]
  BY <1>1, <1>4, <1>5, LogEdited
<1>7. n \in Names /\ Log(n) = L[n]
  BY <1>1, <1>2
<1>8. /\ L'[n].run = L[n].run /\ L'[n].printed = L[n].printed /\ L'[n].rc = rc
      /\ L' \in [Names -> LogFile] /\ \A m \in Names : m # n => L'[m] = L[m]
  BY <1>2, <1>4, <1>6, <1>7
<1>9. QED
  BY <1>1, <1>6, <1>7, <1>8 DEF n

----------------------------------------------------------------------------
(* Types, phases and temporary files.                                      *)

\* The types are kept by every step.
LEMMA TypeStep ==
  ASSUME TypeInv, PhaseInv, RunInv, Steps, UNCHANGED experiment
  PROVE  TypeInv'
<1> USE DEF TypeInv, files, bounds
<1>1. CASE Starts
  <2>1. PICK a \in CommandLines, keys \in Seq(Points) : IsInjective(keys) /\ StartSession(a, keys)
    BY <1>1 DEF Starts
  <2>2. sessions + 1 \in Nat /\ temps \subseteq Points \X (0..sessions + 1)
    <3>1. \A n \in 0..sessions : n \in 0..sessions + 1
      OBVIOUS
    <3>2. QED
      BY <3>1
  <2>3. 1 \in 1..Len(keys) + 1
    BY LenProperties
  <2>4. <<>> \in Seq(RunRow) /\ <<>> \in Seq(ToSet(<<>>))
    BY EmptySeq
  <2>5. CASE pc' = "off"
    BY <2>1, <2>2, <2>3, <2>4, <2>5 DEF StartSession, Exit
  <2>6. CASE pc' # "off"
    <3>1. /\ pc' = "ensure" /\ status' = "running" /\ pos' = 1 /\ stage' = "none"
          /\ records' = (IF a.resume THEN commands.recs ELSE <<>>) /\ rows' = <<>> /\ failures' = {}
          /\ mixed' = (mixed \/ (sessions > 0 /\ ~a.resume))
          /\ sessions' = sessions + 1 /\ targets' = keys /\ UNCHANGED files
      BY <2>1, <2>6 DEF StartSession, Exit, load_records
    <3>2. mixed' \in BOOLEAN
      BY <3>1
    <3>3. records' \in Seq(ToSet(records'))
      BY <2>4, <3>1
    <3>4. QED
      BY <2>1, <2>2, <2>3, <2>4, <3>1, <3>2, <3>3
  <2>7. QED
    BY <2>5, <2>6
<1>2. CASE Ends
  <2>1. /\ pc' = "off" /\ pos' = 1 /\ stage' = "none" /\ records' = <<>> /\ rows' = <<>> /\ failures' = {}
        /\ temps' \subseteq temps
        /\ UNCHANGED <<args, targets, logs, commands, failedCsv, sessions, mixed>>
    BY <1>2 DEF Ends, Exit
  <2>2. rawCsv' \in [state : {"absent", "torn", "whole"}, rows : Seq(RunRow)]
    <3>1. CASE rawCsv' = rawCsv
      BY <3>1
    <3>2. CASE \E n \in 0..Len(rows) : rawCsv' = [rawCsv EXCEPT !.rows = SubSeq(rows, 1, n)]
      <4>1. PICK n \in 0..Len(rows) : rawCsv' = [rawCsv EXCEPT !.rows = SubSeq(rows, 1, n)]
        BY <3>2
      <4>2. SubSeq(rows, 1, n) \in Seq(RunRow)
        BY PrefixFacts
      <4>3. QED
        BY <4>1, <4>2
    <3>3. QED
      BY <1>2, <3>1, <3>2 DEF Ends
  <2>3. 1 \in 1..Len(targets) + 1
    BY LenProperties
  <2>4. <<>> \in Seq(RunRow) /\ <<>> \in Seq(ToSet(<<>>))
    BY EmptySeq
  <2>5. QED
    BY <2>1, <2>2, <2>3, <2>4
<1>3. CASE ToolsFound \/ Built
  BY <1>3 DEF ToolsFound, Built
<1>4. CASE Builds
  <2>1. records' \in Seq(ToSet(records'))
    BY <1>4, AppendAny DEF Builds
  <2>2. QED
    BY <1>4, <2>1 DEF Builds
<1>5. CASE Loads
  BY <1>5 DEF Loads
<1>6. CASE Skips
  BY <1>6, KeyFacts DEF Skips
<1>7. CASE Opens
  <2>1. PICK st \in {"init", "run"} :
          /\ OpenLog(st)
          /\ UNCHANGED <<args, targets, pos, records, rows, failures, status,
                         commands, rawCsv, failedCsv, tools, bounds>>
    BY <1>7 DEF Opens
  <2>2. pos <= Len(targets)
    BY <1>7 DEF Opens, RunInv, InCommand, Commanding
  <2>3. temps' \subseteq Points \X (0..sessions)
    <3>1. Temp \in Points \X (0..sessions)
      BY <2>2, KeyFacts DEF Temp
    <3>2. temps' \subseteq temps \cup {Temp}
      BY <1>7 DEF Opens
    <3>3. QED
      BY <3>1, <3>2
  <2>4. DOMAIN logs' \subseteq Names /\ logs' \in [DOMAIN logs' -> LogFile]
    BY <2>1, <2>2, LogOpened
  <2>5. pc' = "running" /\ stage' = st
    BY <2>1 DEF OpenLog
  <2>6. QED
    BY <2>1, <2>3, <2>4, <2>5
<1>8. CASE PrintResults
  <2>1. DOMAIN logs' \subseteq Names /\ logs' \in [DOMAIN logs' -> LogFile]
    BY <1>8, LogPrinted
  <2>2. QED
    BY <1>8, <2>1 DEF PrintResults, memory
<1>9. CASE Closes
  <2>1. PICK rc \in {"ok", "bad", "timeout"} : CloseLog(rc)
    BY <1>9 DEF Closes
  <2>2. DOMAIN logs' \subseteq Names /\ logs' \in [DOMAIN logs' -> LogFile]
    BY <2>1, LogClosed
  <2>3. records' \in Seq(ToSet(records'))
    <3>1. records' = Append(records, [log |-> <<stage, Key>>, run |-> L[<<stage, Key>>].run, ok |-> rc = "ok"])
      BY <2>1, LogClosed
    <3>2. QED
      BY <3>1, AppendAny
  <2>4. QED
    BY <2>1, <2>2, <2>3 DEF CloseLog
<1>10. CASE OpenManifest
  <2>1. <<>> \in Seq(ToSet(<<>>))
    BY EmptySeq
  <2>2. QED
    BY <1>10, <2>1 DEF OpenManifest
<1>11. CASE CloseManifest
  BY <1>11 DEF CloseManifest
<1>12. CASE Rows
  <2>1. pos <= Len(targets)
    BY <1>12 DEF Rows, RunInv, InCommand, Commanding
  <2> DEFINE r == [key |-> Key, run |-> L[<<"run", Key>>].run]
  <2>2. Key \in Points /\ pos + 1 \in 1..Len(targets) + 1 /\ r \in RunRow
    <3>1. Key \in Points /\ pos + 1 \in 1..Len(targets) + 1
      BY <2>1, KeyFacts
    <3>2. <<"run", Key>> \in Names
      BY <3>1 DEF Names
    <3>3. L[<<"run", Key>>] \in LogFile
      BY <3>2, LogFacts
    <3>4. QED
      BY <3>1, <3>3 DEF RunRow, LogFile
  <2>3. rows' \in Seq(RunRow)
    BY <1>12, <2>2, AppendFacts DEF Rows
  <2>4. temps' \subseteq temps
    BY <1>12 DEF Rows, Cleaned
  <2>5. failures' \subseteq Points /\ failedCsv' \subseteq Points
    BY <1>12, <2>2 DEF Rows
  <2>6. pos' \in 1..Len(targets) + 1 /\ pc' \in {"progress", "next"}
    BY <1>12, <2>2 DEF Rows
  <2>7. UNCHANGED <<args, targets, stage, records, status, logs, commands, rawCsv, tools, bounds>>
    BY <1>12 DEF Rows
  <2>8. QED
    BY <2>3, <2>4, <2>5, <2>6, <2>7
<1>13. CASE Fails
  <2>1. pos <= Len(targets)
    BY <1>13 DEF Fails, RunInv, InCommand, Commanding
  <2>2. Key \in Points /\ pos + 1 \in 1..Len(targets) + 1
    BY <2>1, KeyFacts
  <2>3. temps' \subseteq temps
    BY <1>13 DEF Fails, Cleaned
  <2>4. QED
    BY <1>13, <2>2, <2>3 DEF Fails
<1>14. CASE Finishes
  BY <1>14 DEF Finishes
<1>15. CASE OpensRaw
  <2>1. <<>> \in Seq(RunRow)
    BY EmptySeq
  <2>2. /\ pc' \in {"raw_open", "progress_open"} /\ rawCsv' = [state |-> "torn", rows |-> <<>>]
        /\ UNCHANGED <<args, targets, pos, stage, records, rows, failures, status,
                       logs, commands, failedCsv, temps, tools, bounds>>
    BY <1>15 DEF OpensRaw, OpenRaw
  <2>3. QED
    BY <2>1, <2>2
<1>16. CASE ClosesRaw
  <2>1. temps' \subseteq temps
    BY <1>16 DEF ClosesRaw
  <2>2. QED
    BY <1>16, <2>1 DEF ClosesRaw, CloseRaw
<1>17. CASE Report
  <2>1. 1 \in 1..Len(targets) + 1
    BY LenProperties
  <2>2. <<>> \in Seq(RunRow) /\ <<>> \in Seq(ToSet(<<>>))
    BY EmptySeq
  <2>3. /\ pc' = "off" /\ pos' = 1 /\ stage' = "none" /\ records' = <<>> /\ rows' = <<>> /\ failures' = {}
        /\ failedCsv' = failures /\ mixed' = (mixed /\ args.resume)
        /\ UNCHANGED <<args, targets, logs, commands, rawCsv, temps, tools, sessions, kills>>
    BY <1>17 DEF Report, Exit
  <2>4. mixed' \in BOOLEAN
    BY <2>3
  <2>5. QED
    BY <2>1, <2>2, <2>3, <2>4
<1>18. QED
  BY <1>1, <1>2, <1>3, <1>4, <1>5, <1>6, <1>7, <1>8, <1>9, <1>10, <1>11, <1>12, <1>13, <1>14, <1>15,
     <1>16, <1>17 DEF Steps

\* What goes with what is kept by every step.
LEMMA PhaseStep ==
  ASSUME TypeInv, PhaseInv, Steps, UNCHANGED experiment
  PROVE  PhaseInv'
<1> USE DEF PhaseInv, Loaded, Commanding, files, bounds
<1>1. CASE Starts
  <2>1. PICK a \in CommandLines, keys \in Seq(Points) :
          /\ experiment # "four" => keys # <<>>
          /\ experiment = "four" => ~a.resume
          /\ StartSession(a, keys)
    BY <1>1 DEF Starts
  <2>2. sessions' # 0 /\ args' = a /\ targets' = keys /\ UNCHANGED files
    BY <2>1 DEF StartSession, TypeInv
  <2>3. CASE pc' = "off"
    <3>1. Exit("refused")
      BY <2>1, <2>3 DEF StartSession
    <3>2. QED
      BY <2>2, <3>1 DEF Exit
  <2>4. CASE pc' # "off"
    <3>1. /\ pc' = "ensure" /\ status' = "running" /\ pos' = 1 /\ stage' = "none"
          /\ rows' = <<>> /\ failures' = {}
      BY <2>1, <2>4 DEF StartSession, Exit
    <3>2. QED
      BY <2>1, <2>2, <3>1
  <2>5. QED
    BY <2>3, <2>4
<1>2. CASE Ends
  BY <1>2 DEF Ends, Exit
<1>3. CASE ToolsFound \/ Built
  BY <1>3 DEF ToolsFound, Built
<1>4. CASE Builds
  BY <1>4 DEF Builds
<1>5. CASE Loads
  BY <1>5 DEF Loads
<1>6. CASE Skips
  BY <1>6 DEF Skips
<1>7. CASE Opens
  BY <1>7 DEF Opens, OpenLog
<1>8. CASE PrintResults
  BY <1>8 DEF PrintResults, memory
<1>9. CASE Closes
  BY <1>9 DEF Closes, CloseLog
<1>10. CASE OpenManifest
  BY <1>10 DEF OpenManifest
<1>11. CASE CloseManifest
  BY <1>11 DEF CloseManifest
<1>12. CASE Rows
  BY <1>12 DEF Rows
<1>13. CASE Fails
  BY <1>13 DEF Fails
<1>14. CASE Finishes
  BY <1>14 DEF Finishes
<1>15. CASE OpensRaw
  BY <1>15 DEF OpensRaw, OpenRaw
<1>16. CASE ClosesRaw
  BY <1>16 DEF ClosesRaw, CloseRaw
<1>17. CASE Report
  BY <1>17 DEF Report, Exit
<1>18. QED
  BY <1>1, <1>2, <1>3, <1>4, <1>5, <1>6, <1>7, <1>8, <1>9, <1>10, <1>11, <1>12, <1>13, <1>14, <1>15,
     <1>16, <1>17 DEF Steps

\* The temporary files are kept track of by every step.
LEMMA TempsStep ==
  ASSUME TypeInv, PhaseInv, TempsInv, Steps, UNCHANGED experiment
  PROVE  TempsInv'
<1> USE DEF files, bounds, TempsRemoved
<1>1. CASE Starts
  <2>1. PICK a \in CommandLines, keys \in Seq(Points) : StartSession(a, keys)
    BY <1>1 DEF Starts
  <2>2. sessions' = sessions + 1 /\ temps' = temps
    BY <2>1 DEF StartSession
  <2>3. \A t \in temps : t[2] \in 0..sessions
    BY DEF TypeInv
  <2>4. \A t \in temps' : t[2] # sessions'
    BY <2>2, <2>3 DEF TypeInv
  <2>5. QED
    BY <2>4 DEF TempsInv
<1>2. CASE Ends
  <2>1. PICK how \in {"error", "killed", "interrupted"} :
          /\ Exit(how)
          /\ temps' \subseteq temps
          /\ (InRun /\ how # "killed" /\ ~args.keep) => temps' = temps \ {Temp}
    BY <1>2 DEF Ends
  <2>2. pc # "off" /\ pc' = "off" /\ status' = how /\ sessions' = sessions /\ args' = args
    BY <1>2, <2>1 DEF Ends, Exit
  <2>3. ASSUME how # "killed", NEW t \in temps', t[2] = sessions
        PROVE  args.keep
    <3>1. t \in temps /\ (args.keep \/ (t = Temp /\ InRun))
      BY <2>1, <2>2, <2>3 DEF TempsInv
    <3>2. QED
      BY <2>1, <2>3, <3>1
  <2>4. QED
    BY <2>2, <2>3 DEF TempsInv
<1>0. CASE Report
  <2>1. pc # "off" /\ ~InRun /\ pc' = "off" /\ temps' = temps /\ sessions' = sessions /\ args' = args
    BY <1>0 DEF Report, Exit, InRun
  <2>2. QED
    BY <2>1 DEF TempsInv
<1>3. CASE ToolsFound \/ Builds \/ Built \/ Loads \/ Finishes \/ Skips
  <2>1. /\ pc # "off" /\ pc' # "off" /\ ~InRun /\ temps' = temps /\ sessions' = sessions /\ args' = args
    BY <1>3 DEF ToolsFound, Builds, Built, Loads, Finishes, Skips, InRun, PhaseInv
  <2>2. QED
    BY <2>1 DEF TempsInv
<1>4. CASE Opens
  <2>1. /\ pc \in {"next", "handle"} /\ pc' = "running" /\ stage' \in {"init", "run"}
        /\ UNCHANGED <<args, targets, pos, sessions>>
    BY <1>4 DEF Opens, OpenLog
  <2>2. InRun' /\ Key' = Key /\ Temp' = Temp
    BY <2>1 DEF InRun, Key, Temp
  <2>3. temps' = temps \/ (temps' = temps \cup {Temp} /\ (experiment = "five" => Cache!workload(Key) = "rocksdb"))
    BY <1>4 DEF Opens
  <2>4. QED
    BY <2>1, <2>2, <2>3 DEF TempsInv
<1>5. CASE PrintResults \/ Closes \/ OpenManifest \/ CloseManifest
  <2>1. /\ pc # "off" /\ pc' # "off" /\ (InRun => InRun') /\ Key' = Key /\ Temp' = Temp /\ temps' = temps
        /\ sessions' = sessions /\ args' = args
    BY <1>5 DEF PrintResults, Closes, CloseLog, OpenManifest, CloseManifest, InRun, Key, Temp, memory
  <2>2. QED
    BY <2>1 DEF TempsInv
<1>6. CASE Rows \/ Fails
  <2>1. pc # "off" /\ pc' # "off" /\ sessions' = sessions /\ args' = args
    BY <1>6 DEF Rows, Fails
  <2>2. CASE temps' = temps \ {Temp}
    BY <2>1, <2>2 DEF TempsInv
  <2>3. CASE args.keep
    BY <2>1, <2>3 DEF TempsInv
  <2>4. CASE experiment = "five" /\ temps' = temps /\ pc' = "progress" /\ UNCHANGED <<stage, pos, targets>>
    <3>1. InRun => InRun' /\ Key' = Key /\ Temp' = Temp
      BY <2>1, <2>4 DEF InRun, Key, Temp
    <3>2. QED
      BY <2>1, <2>4, <3>1 DEF TempsInv
  <2>5. CASE experiment = "five" /\ temps' = temps /\ Cache!workload(Key) # "rocksdb"
    BY <2>1, <2>5 DEF TempsInv
  <2>6. QED
    BY <1>6, <2>2, <2>3, <2>4, <2>5 DEF Rows, Fails, Cleaned
<1>7. CASE OpensRaw
  <2>1. /\ pc # "off" /\ pc' # "off" /\ (InRun => InRun') /\ Key' = Key /\ Temp' = Temp /\ temps' = temps
        /\ sessions' = sessions /\ args' = args
    BY <1>7 DEF OpensRaw, OpenRaw, InRun, Key, Temp
  <2>2. QED
    BY <2>1 DEF TempsInv
<1>8. CASE ClosesRaw
  <2>1. pc # "off" /\ pc' # "off" /\ sessions' = sessions /\ args' = args
    BY <1>8 DEF ClosesRaw, CloseRaw
  <2>2. CASE temps' = temps \ {Temp}
    BY <2>1, <2>2 DEF TempsInv
  <2>3. CASE temps' = temps /\ pc = "raw_open"
    BY <2>1, <2>3 DEF TempsInv, InRun
  <2>4. QED
    BY <1>8, <2>2, <2>3 DEF ClosesRaw, CloseRaw
<1>9. QED
  BY <1>0, <1>1, <1>2, <1>3, <1>4, <1>5, <1>6, <1>7, <1>8 DEF Steps

----------------------------------------------------------------------------
(* The run under way.                                                      *)

\* No rows, no points.
LEMMA NoKeys == Keys(<<>>) = {}
BY DEF Keys

\* The targets that are done with after one more.
LEMMA PassedGrows ==
  ASSUME TypeInv, pos <= Len(targets), pos' = pos + 1, targets' = targets
  PROVE  Passed' = Passed \cup {Key}
<1>1. Passed' = {targets[i] : i \in 1..pos}
  BY DEF Passed, TypeInv
<1>2. QED
  BY <1>1, KeyFacts

\* One more row for the target.
LEMMA RowAdded ==
  ASSUME TypeInv, RunInv, Rows
  PROVE  /\ pos <= Len(targets) /\ Key \in Points /\ <<"run", Key>> \in Names
         /\ Key \notin Keys(rows)
         /\ Keys(rows)' = Keys(rows) \cup {Key}
         /\ rows # <<>> \/ rows' # <<>>
         /\ \A i \in DOMAIN rows' : \/ i \in DOMAIN rows /\ rows'[i] = rows[i]
                                    \/ rows'[i] = [key |-> Key, run |-> L[<<"run", Key>>].run] /\ i = Len(rows) + 1
<1>1. pos <= Len(targets) /\ Key \notin Keys(rows)
  BY DEF Rows, RunInv, InCommand, Commanding
<1>2. Key \in Points /\ <<"run", Key>> \in Names
  BY <1>1, KeyFacts DEF Names
<1> DEFINE r == [key |-> Key, run |-> L[<<"run", Key>>].run]
<1>3. L[<<"run", Key>>] \in LogFile
  BY <1>2, LogFacts
<1>4. r \in RunRow
  BY <1>2, <1>3 DEF RunRow, LogFile
<1>5. rows' = Append(rows, r) /\ rows \in Seq(RunRow)
  BY DEF Rows, TypeInv
<1>6. /\ Keys(rows') = Keys(rows) \cup {r.key} /\ rows' # <<>>
      /\ \A i \in DOMAIN rows' : (i \in DOMAIN rows /\ rows'[i] = rows[i]) \/ (rows'[i] = r /\ i = Len(rows) + 1)
  <2> HIDE DEF r
  <2>1. QED
    BY <1>4, <1>5, KeysFacts, AppendFacts
<1>7. Keys(rows)' = Keys(rows')
  BY DEF Keys
<1>8. QED
  BY <1>1, <1>2, <1>6, <1>7

\* The run under way is kept track of by every step.
LEMMA RunStep ==
  ASSUME TypeInv, PhaseInv, RunInv, Steps, UNCHANGED experiment
  PROVE  RunInv'
<1> USE DEF files, bounds, Commanding, InCommand
<1>1. CASE Starts
  <2>1. rows' = <<>> /\ pc' \in {"ensure", "off"}
    BY <1>1 DEF Starts, StartSession, Exit
  <2>2. QED
    BY <2>1, NoKeys DEF RunInv, Keys
<1>2. CASE Ends \/ Report
  <2>1. rows' = <<>> /\ pc' = "off"
    BY <1>2 DEF Ends, Report, Exit
  <2>2. QED
    BY <2>1 DEF RunInv, Keys
<1>3. CASE ToolsFound \/ Builds \/ Built
  <2>1. /\ rows' = <<>> /\ pc' \in {"load", "manifest", "ensure"} /\ stage' \in {"none", "build"}
    BY <1>3 DEF ToolsFound, Builds, Built, PhaseInv, Loaded
  <2>2. QED
    BY <2>1 DEF RunInv, Keys
<1>4. CASE Loads
  <2>1. pc' \in {"next", "progress"} /\ (experiment = "four" => rows' = <<>>)
    BY <1>4 DEF Loads, PhaseInv
  <2>2. QED
    BY <2>1 DEF RunInv, Keys
<1>5. CASE Skips \/ Fails
  <2>1. pos <= Len(targets) /\ pos' = pos + 1 /\ targets' = targets /\ rows' = rows /\ pc' = "next"
    BY <1>5 DEF Skips, Fails, RunInv
  <2>2. Passed' = Passed \cup {Key} /\ Keys(rows)' = Keys(rows)
    BY <2>1, PassedGrows DEF Keys
  <2>3. QED
    BY <2>1, <2>2 DEF RunInv
<1>6. CASE Opens
  <2>1. PICK st \in {"init", "run"} :
          /\ OpenLog(st)
          /\ UNCHANGED <<args, targets, pos, records, rows, failures, status,
                         commands, rawCsv, failedCsv, tools, bounds>>
    BY <1>6 DEF Opens
  <2>2. pos <= Len(targets) /\ Key \notin Keys(rows)
    BY <1>6, KeyFacts DEF Opens, RunInv
  <2>3. pc' = "running" /\ stage' = st /\ Key' = Key /\ Keys(rows)' = Keys(rows) /\ Passed' = Passed
    BY <2>1 DEF OpenLog, Key, Keys, Passed
  <2>4. /\ <<st, Key>> \in Names
        /\ L' = [L EXCEPT ![<<st, Key>>] = [run |-> L[<<st, Key>>].run + 1, printed |-> FALSE, rc |-> "none"]]
        /\ DOMAIN logs' = DOMAIN logs \cup {<<st, Key>>}
    BY <2>1, <2>2, LogOpened
  <2>5. L'[<<st, Key>>].rc = "none"
    BY <2>4, LogFacts
  <2>6. <<stage, Key>>' = <<st, Key>>
    BY <2>3
  <2>7. <<stage, Key>>' \in (DOMAIN logs)' /\ L'[<<stage, Key>>'].rc = "none"
    BY <2>4, <2>5, <2>6
  <2>8. pos' <= Len(targets)' /\ Key' \notin Keys(rows)'
    BY <2>1, <2>2, <2>3
  <2>9. experiment' = "four" => Keys(rows)' \subseteq Passed'
    BY <2>3 DEF RunInv
  <2>10. QED
    BY <2>3, <2>7, <2>8, <2>9 DEF RunInv
<1>7. CASE PrintResults
  <2>1. /\ UNCHANGED <<pc, stage, Key, pos, targets, rows, records, experiment>>
        /\ Keys(rows)' = Keys(rows) /\ Passed' = Passed
    BY <1>7 DEF PrintResults, memory, Key, Keys, Passed
  <2>2. pc = "running" /\ stage = "run" /\ L'[<<"run", Key>>].rc = "none" /\ DOMAIN logs' = DOMAIN logs
    BY <1>7, LogPrinted
  <2>3. QED
    BY <2>1, <2>2 DEF RunInv
<1>8. CASE Closes
  <2>1. PICK rc \in {"ok", "bad", "timeout"} : CloseLog(rc)
    BY <1>8 DEF Closes
  <2>2. /\ pc = "running" /\ pc' = "manifest" /\ stage \in {"init", "run"}
        /\ UNCHANGED <<stage, Key, pos, targets, rows, experiment>>
        /\ Keys(rows)' = Keys(rows) /\ Passed' = Passed
    BY <2>1 DEF CloseLog, Key, Keys, Passed, PhaseInv
  <2>3. /\ L'[<<stage, Key>>].run = L[<<stage, Key>>].run /\ L'[<<stage, Key>>].rc = rc
        /\ records' = Append(records, [log |-> <<stage, Key>>, run |-> L[<<stage, Key>>].run, ok |-> rc = "ok"])
    BY <2>1, LogClosed
  <2> DEFINE e == [log |-> <<stage, Key>>, run |-> L[<<stage, Key>>].run, ok |-> rc = "ok"]
  <2>4. records' # <<>> /\ Last(records') = e
    <3> HIDE DEF e
    <3>1. records \in Seq(ToSet(records)) /\ records' = Append(records, e)
      BY <2>3 DEF TypeInv, e
    <3>2. Append(records, e) # <<>> /\ Last(Append(records, e)) = e
      BY <3>1, AppendAny
    <3>3. QED
      BY <3>1, <3>2
  <2>5. Last(records)' = Last(records')
    BY DEF Last
  <2>6. QED
    BY <2>2, <2>3, <2>4, <2>5 DEF RunInv
<1>9. CASE OpenManifest \/ CloseManifest
  <2>1. /\ UNCHANGED <<stage, Key, pos, targets, rows, records, experiment, L>>
        /\ Keys(rows)' = Keys(rows) /\ Passed' = Passed /\ Last(records)' = Last(records)
        /\ pc \in {"manifest", "dump"} /\ pc' \in {"dump", "handle"}
    BY <1>9, LogKept DEF OpenManifest, CloseManifest, Key, Keys, Passed, Last
  <2>2. QED
    BY <2>1 DEF RunInv
<1>10. CASE Rows
  <2>1. /\ Keys(rows)' = Keys(rows) \cup {Key} /\ pc' \in {"next", "progress"} /\ pos <= Len(targets)
        /\ targets' = targets /\ (experiment = "four" => pos' = pos + 1)
    BY <1>10, RowAdded DEF Rows
  <2>2. experiment = "four" => Passed' = Passed \cup {Key}
    BY <2>1, PassedGrows
  <2>3. QED
    BY <2>1, <2>2 DEF RunInv
<1>11. CASE Finishes \/ OpensRaw \/ ClosesRaw
  <2>1. /\ pc' \in {"raw", "raw_open", "progress_open", "report", "next"} /\ Keys(rows)' = Keys(rows) /\ Passed' = Passed
    BY <1>11 DEF Finishes, OpensRaw, ClosesRaw, OpenRaw, CloseRaw, Keys, Passed
  <2>2. QED
    BY <2>1 DEF RunInv
<1>12. QED
  BY <1>1, <1>2, <1>3, <1>4, <1>5, <1>6, <1>7, <1>8, <1>9, <1>10, <1>11 DEF Steps

\* Where the log of a run is written, its target has no row.
LEMMA LogsOfRows ==
  ASSUME TypeInv, PhaseInv, RunInv, Opens \/ PrintResults \/ Closes
  PROVE  /\ pos <= Len(targets) /\ Key \in ToSet(targets) /\ Key \in Points /\ Key \notin Keys(rows)
         /\ \A k \in Points : k # Key => L'[<<"run", k>>] = L[<<"run", k>>]
         /\ UNCHANGED <<targets, pos, rows, failures, rawCsv, args, mixed, commands, status>>
         /\ Keys(rows)' = Keys(rows) /\ Passed' = Passed /\ Key' = Key
         /\ pc # "off" /\ pc' \in {"running", "manifest"} /\ Loaded /\ Loaded'
<1> USE DEF files, bounds
<1>1. CASE Opens
  <2>1. PICK st \in {"init", "run"} :
          /\ OpenLog(st)
          /\ UNCHANGED <<args, targets, pos, records, rows, failures, status,
                         commands, rawCsv, failedCsv, tools, bounds>>
    BY <1>1 DEF Opens
  <2>2. pos <= Len(targets) /\ Key \notin Keys(rows)
    BY <1>1, KeyFacts DEF Opens, RunInv, InCommand, Commanding
  <2>3. Key \in Points /\ Key \in ToSet(targets)
    BY <2>2, KeyFacts
  <2>4. L' = [L EXCEPT ![<<st, Key>>] = [run |-> L[<<st, Key>>].run + 1, printed |-> FALSE, rc |-> "none"]]
    BY <2>1, <2>2, LogOpened
  <2>5. \A k \in Points : k # Key => L'[<<"run", k>>] = L[<<"run", k>>]
    <3> SUFFICES ASSUME NEW k \in Points, k # Key
                 PROVE  L'[<<"run", k>>] = L[<<"run", k>>]
      OBVIOUS
    <3>1. <<"run", k>> \in Names /\ <<"run", k>> # <<st, Key>>
      BY DEF Names
    <3>2. QED
      BY <2>4, <3>1, LogFacts
  <2>6. Keys(rows)' = Keys(rows) /\ Passed' = Passed /\ Key' = Key
    BY <2>1 DEF Keys, Passed, Key
  <2>7. pc \in {"next", "handle"} /\ pc' = "running" /\ Loaded /\ Loaded'
    BY <1>1, <2>1 DEF Opens, OpenLog, Loaded, Commanding
  <2>8. QED
    BY <2>1, <2>2, <2>3, <2>5, <2>6, <2>7
<1>2. CASE PrintResults
  <2>1. /\ pos <= Len(targets) /\ <<"run", Key>> \in Names /\ pc = "running"
        /\ L' = [L EXCEPT ![<<"run", Key>>] = [L[<<"run", Key>>] EXCEPT !.printed = TRUE]]
    BY <1>2, LogPrinted
  <2>2. Key \notin Keys(rows) /\ Key \in Points /\ Key \in ToSet(targets)
    BY <2>1, KeyFacts DEF RunInv, InCommand
  <2>3. \A k \in Points : k # Key => L'[<<"run", k>>] = L[<<"run", k>>]
    <3> SUFFICES ASSUME NEW k \in Points, k # Key
                 PROVE  L'[<<"run", k>>] = L[<<"run", k>>]
      OBVIOUS
    <3>1. <<"run", k>> \in Names /\ <<"run", k>> # <<"run", Key>>
      BY DEF Names
    <3>2. QED
      BY <2>1, <3>1, LogFacts
  <2>4. /\ UNCHANGED <<memory, commands, rawCsv, bounds>>
        /\ Keys(rows)' = Keys(rows) /\ Passed' = Passed /\ Key' = Key
    BY <1>2 DEF PrintResults, memory, Keys, Passed, Key
  <2>5. QED
    BY <2>1, <2>2, <2>3, <2>4 DEF memory, Loaded, Commanding
<1>3. CASE Closes
  <2>1. PICK rc \in {"ok", "bad", "timeout"} : CloseLog(rc)
    BY <1>3 DEF Closes
  <2>2. /\ pc = "running" /\ pos <= Len(targets) /\ stage \in {"init", "run"}
        /\ \A n \in Names : n # <<stage, Key>> => L'[n] = L[n]
    BY <2>1, LogClosed
  <2>3. Key \notin Keys(rows) /\ Key \in Points /\ Key \in ToSet(targets)
    BY <2>2, KeyFacts DEF RunInv, InCommand
  <2>4. \A k \in Points : k # Key => L'[<<"run", k>>] = L[<<"run", k>>]
    <3> SUFFICES ASSUME NEW k \in Points, k # Key
                 PROVE  L'[<<"run", k>>] = L[<<"run", k>>]
      OBVIOUS
    <3>1. <<"run", k>> \in Names /\ <<"run", k>> # <<stage, Key>>
      BY DEF Names
    <3>2. QED
      BY <2>2, <3>1
  <2>5. /\ UNCHANGED <<args, targets, pos, stage, rows, failures, commands, rawCsv, bounds, status>>
        /\ Keys(rows)' = Keys(rows) /\ Passed' = Passed /\ Key' = Key /\ pc' = "manifest"
    BY <2>1 DEF CloseLog, Keys, Passed, Key
  <2>6. QED
    BY <2>2, <2>3, <2>4, <2>5 DEF Loaded, Commanding
<1>4. QED
  BY <1>1, <1>2, <1>3

\* The rows and their points.
LEMMA RowKeys ==
  ASSUME NEW rs \in Seq(RunRow)
  PROVE  /\ Keys(rs) \subseteq Points /\ \A i \in DOMAIN rs : rs[i].key \in Keys(rs) /\ rs[i].key \in Points
         /\ \A k \in Keys(rs) : \E i \in DOMAIN rs : rs[i].key = k
<1>1. DOMAIN rs = 1..Len(rs) /\ \A i \in 1..Len(rs) : rs[i] \in RunRow
  BY LenProperties
<1>2. QED
  BY <1>1 DEF Keys, RunRow

\* The process has a row or a failure for each target it has passed.
LEMMA CoveredStep ==
  ASSUME TypeInv, PhaseInv, RunInv, Steps, UNCHANGED experiment,
         pc # "off" => Covered, pc' # "off"
  PROVE  Covered'
<1> USE DEF files, bounds
<1>0. pc # "off" \/ Starts
  BY DEF Steps, Ends, ToolsFound, Builds, Built, Loads, Skips, Opens, PrintResults, Closes, CloseLog,
         OpenManifest, CloseManifest, Rows, Fails, Finishes, OpensRaw, OpenRaw, ClosesRaw, CloseRaw, Report
<1>1. CASE Starts
  <2>1. rows' = <<>> /\ failures' = {} /\ pos' = 1
    BY <1>1 DEF Starts, StartSession, Exit
  <2>2. Keys(rows)' = {} /\ Passed' = {}
    <3>1. Passed' = {targets'[i] : i \in 1..0}
      BY <2>1 DEF Passed
    <3>2. QED
      BY <2>1, <3>1, NoKeys DEF Keys
  <2>3. QED
    BY <2>1, <2>2 DEF Covered
<1>2. CASE Ends \/ Report
  BY <1>2 DEF Ends, Report, Exit
<1>3. CASE \/ ToolsFound \/ Builds \/ Built \/ OpenManifest \/ CloseManifest
           \/ Finishes \/ OpensRaw \/ ClosesRaw
  <2>1. /\ UNCHANGED <<rows, failures, targets, pos, logs>> /\ pc # "off"
    BY <1>3 DEF ToolsFound, Builds, Built, Finishes, OpensRaw, OpenRaw, ClosesRaw, CloseRaw,
                OpenManifest, CloseManifest
  <2>2. L' = L
    BY <2>1, LogKept
  <2>3. QED
    BY <2>1, <2>2 DEF Covered, Passed, Keys
<1>4. CASE Loads
  <2>1. failures = {} /\ failures' = {} /\ pos = 1 /\ UNCHANGED <<pos, targets>>
    BY <1>4 DEF Loads, PhaseInv, Loaded
  <2>2. Passed' = {}
    <3>1. Passed' = {targets'[i] : i \in 1..0}
      BY <2>1 DEF Passed
    <3>2. QED
      BY <3>1
  <2>3. Keys(rows') \subseteq ToSet(targets)
    <3>1. CASE ~args.resume
      BY <1>4, <3>1, NoKeys DEF Loads
    <3>2. CASE args.resume
      BY <1>4, <3>2 DEF Loads, FromRecords, FromRawCsv, TypeInv, PhaseInv
    <3>3. QED
      BY <3>1, <3>2
  <2>4. Keys(rows)' = Keys(rows')
    BY DEF Keys
  <2>5. QED
    BY <2>1, <2>2, <2>3, <2>4 DEF Covered
<1>5. CASE Skips
  <2>1. pos <= Len(targets) /\ Key \in Keys(rows) /\ pos' = pos + 1 /\ UNCHANGED <<targets, rows, failures, logs>>
    BY <1>5 DEF Skips
  <2>2. Passed' = Passed \cup {Key} /\ L' = L /\ Keys(rows)' = Keys(rows) /\ pc # "off"
    BY <1>5, <2>1, PassedGrows, LogKept DEF Keys, Skips
  <2>3. QED
    BY <2>1, <2>2 DEF Covered
<1>6. CASE Opens \/ PrintResults \/ Closes
  <2>1. /\ Key \notin Keys(rows)
        /\ \A k \in Points : k # Key => L'[<<"run", k>>] = L[<<"run", k>>]
        /\ UNCHANGED <<targets, failures>> /\ Keys(rows)' = Keys(rows) /\ Passed' = Passed
        /\ pc # "off"
    BY <1>6, LogsOfRows
  <2>2. \A k \in Keys(rows) : k \in Points /\ k # Key
    BY <2>1, RowKeys DEF TypeInv
  <2>3. QED
    BY <2>1, <2>2 DEF Covered
<1>7. CASE Rows
  <2>1. /\ Keys(rows)' = Keys(rows) \cup {Key} /\ Key \notin Keys(rows) /\ pos <= Len(targets)
    BY <1>7, RowAdded
  <2>2. Key \in ToSet(targets) /\ Key \notin Passed
    BY <2>1, KeyFacts
  <2>3. targets' = targets /\ L' = L /\ pc # "off" /\ (pos' = pos \/ pos' = pos + 1)
    BY <1>7, LogKept DEF Rows
  <2>4. Passed' = Passed \/ Passed' = Passed \cup {Key}
    BY <2>1, <2>3, PassedGrows DEF Passed
  <2>5. \/ failures' = failures
        \/ failures' = failures \cup {Key} /\ L[<<"run", Key>>].rc = "timeout"
    BY <1>7 DEF Rows, Acceptable
  <2>6. Key \notin failures
    BY <2>1, <2>2, <2>3 DEF Covered
  <2>7. QED
    BY <2>1, <2>2, <2>3, <2>4, <2>5, <2>6 DEF Covered
<1>8. CASE Fails
  <2>1. pos <= Len(targets) /\ Key \notin Keys(rows) /\ pc # "off"
    BY <1>8 DEF Fails, RunInv, InCommand, Commanding
  <2>2. Key \in ToSet(targets)
    BY <2>1, KeyFacts
  <2>3. failures' = failures \cup {Key} /\ pos' = pos + 1 /\ UNCHANGED <<targets, rows, logs>>
    BY <1>8 DEF Fails
  <2>4. Passed' = Passed \cup {Key} /\ L' = L /\ Keys(rows)' = Keys(rows)
    BY <2>1, <2>3, PassedGrows, LogKept DEF Keys
  <2>5. QED
    BY <2>1, <2>2, <2>3, <2>4 DEF Covered
<1>9. QED
  BY <1>1, <1>2, <1>3, <1>4, <1>5, <1>6, <1>7, <1>8 DEF Steps

\* The report says what the process knows of each target.
LEMMA CoverStep ==
  ASSUME TypeInv, PhaseInv, RunInv, CoverInv, Steps, UNCHANGED experiment
  PROVE  CoverInv'
<1> USE DEF files, bounds
<1>1. pc' # "off" => Covered'
  BY CoveredStep DEF CoverInv
<1>2. (pc' \in {"raw", "raw_open", "report"} => pos' = Len(targets') + 1)
  <2>1. CASE Finishes
    BY <2>1 DEF Finishes, TypeInv
  <2>2. CASE Steps /\ ~Finishes /\ pc' \in {"raw", "raw_open", "report"}
    <3>1. pc \in {"raw", "raw_open", "report"} /\ UNCHANGED <<pos, targets>>
      BY <2>2 DEF Steps, Starts, StartSession, Ends, Exit, ToolsFound, Builds, Built, Loads, Skips, Opens, OpenLog,
            PrintResults, memory, Closes, CloseLog, OpenManifest, CloseManifest, Rows, Fails, OpensRaw, OpenRaw,
            ClosesRaw, CloseRaw, Report
    <3>2. QED
      BY <2>2, <3>1 DEF CoverInv
  <2>3. QED
    BY <2>1, <2>2
<1>3. pc' = "report" => rawCsv' = [state |-> "whole", rows |-> rows']
  <2>1. SUFFICES ASSUME pc' = "report"
                 PROVE  CloseRaw("raw_open", "report")
    BY DEF CloseRaw
  <2>2. QED
    BY <2>1 DEF Steps, Starts, StartSession, Ends, Exit, ToolsFound, Builds, Built, Loads, Skips, Opens, OpenLog,
          PrintResults, memory, Closes, CloseLog, OpenManifest, CloseManifest, Rows, Fails, Finishes, OpensRaw,
          OpenRaw, ClosesRaw, CloseRaw, Report
<1>4. ExitTellsOutcome'
  <2>1. CASE pc' # "off"
    <3>1. status' = "running"
      BY <2>1, PhaseStep DEF PhaseInv
    <3>2. QED
      BY <3>1 DEF ExitTellsOutcome
  <2>2. CASE Ends
    <3>1. status' \in {"error", "killed", "interrupted"}
      BY <2>2 DEF Ends, Exit
    <3>2. QED
      BY <3>1 DEF ExitTellsOutcome
  <2>3. CASE Starts /\ pc' = "off"
    <3>1. status' = "refused"
      BY <2>3 DEF Starts, StartSession, Exit
    <3>2. QED
      BY <3>1 DEF ExitTellsOutcome
  <2>4. CASE Report
    <3>1. pc = "report" /\ pos = Len(targets) + 1 /\ rawCsv = [state |-> "whole", rows |-> rows] /\ Covered
      BY <2>4 DEF Report, CoverInv
    <3>2. Passed = ToSet(targets)
      <4>1. Len(targets) \in Nat /\ DOMAIN targets = 1..Len(targets) /\ pos - 1 = Len(targets)
        BY <3>1, LenProperties DEF TypeInv
      <4>2. QED
        BY <4>1 DEF Passed, ToSet
    <3>3. /\ Keys(rows) \cup failures = ToSet(targets)
          /\ \A k \in Keys(rows) \cap failures : L[<<"run", k>>].rc = "timeout"
      BY <3>1, <3>2 DEF Covered
    <3>4. /\ failedCsv' = failures /\ rawCsv' = rawCsv /\ targets' = targets /\ logs' = logs
          /\ status' = IF failures = {} THEN "ok" ELSE "failures"
      BY <2>4 DEF Report, Exit
    <3>5. \A k \in Keys(rows) : L[<<"run", k>>] = Log(<<"run", k>>)'
      <4> SUFFICES ASSUME NEW k \in Keys(rows)
                   PROVE  L[<<"run", k>>] = Log(<<"run", k>>)'
        OBVIOUS
      <4>1. <<"run", k>> \in Names
        BY RowKeys DEF TypeInv, Names
      <4>2. L[<<"run", k>>] = Log(<<"run", k>>)
        BY <4>1, LogFacts
      <4>3. QED
        BY <3>4, <4>2 DEF Log
    <3>6. rawCsv'.state = "whole" /\ Keys(rawCsv'.rows) = Keys(rows)
      BY <3>1, <3>4
    <3>7. QED
      BY <3>3, <3>4, <3>5, <3>6 DEF ExitTellsOutcome
  <2>5. QED
    BY <2>1, <2>2, <2>3, <2>4
      DEF Steps, ToolsFound, Builds, Built, Loads, Skips, Opens, OpenLog, PrintResults, memory, Closes, CloseLog,
          OpenManifest, CloseManifest, Rows, Fails, Finishes, OpensRaw, OpenRaw, ClosesRaw, CloseRaw
<1>5. QED
  BY <1>1, <1>2, <1>3, <1>4 DEF CoverInv

\* No rows, no point twice.
LEMMA OneRowEachInitially == OneRowEach(<<>>)
BY DEF OneRowEach

\* A row is added only for a point that has none; a prefix has no more.
LEMMA DistinctStep ==
  ASSUME TypeInv, PhaseInv, RunInv, DistinctInv, Steps, UNCHANGED experiment
  PROVE  DistinctInv'
<1> USE DEF files, bounds
<1>1. OneRowEach(rows')
  <2>1. CASE rows' = rows
    BY <2>1 DEF DistinctInv
  <2>2. CASE rows' = <<>>
    BY <2>2, OneRowEachInitially
  <2>3. CASE Loads
    BY <2>3 DEF Loads
  <2>4. CASE Rows
    <3>1. /\ Key \notin Keys(rows)
          /\ \A i \in DOMAIN rows' : \/ i \in DOMAIN rows /\ rows'[i] = rows[i]
                                     \/ rows'[i] = [key |-> Key, run |-> L[<<"run", Key>>].run] /\ i = Len(rows) + 1
      BY <2>4, RowAdded
    <3>2. \A i \in DOMAIN rows : rows[i].key \in Keys(rows)
      BY DEF Keys
    <3>3. \A i \in DOMAIN rows' : \/ i \in DOMAIN rows /\ rows'[i].key = rows[i].key /\ rows'[i].key # Key
                                  \/ i = Len(rows) + 1 /\ rows'[i].key = Key
      BY <3>1, <3>2
    <3>4. QED
      BY <3>3 DEF OneRowEach, DistinctInv
  <2>5. QED
    BY <2>1, <2>2, <2>3, <2>4
      DEF Steps, Starts, StartSession, Ends, Exit, ToolsFound, Builds, Built, Skips, Opens, OpenLog,
          PrintResults, memory, Closes, CloseLog, OpenManifest, CloseManifest, Fails, Finishes, OpensRaw,
          OpenRaw, ClosesRaw, CloseRaw, Report
<1>2. OneRowEach(rawCsv'.rows)
  <2>1. CASE rawCsv' = rawCsv
    BY <2>1 DEF DistinctInv
  <2>2. CASE Ends /\ rawCsv' # rawCsv
    <3>1. PICK n \in 0..Len(rows) : rawCsv' = [rawCsv EXCEPT !.rows = SubSeq(rows, 1, n)]
      BY <2>2 DEF Ends
    <3> DEFINE q == SubSeq(rows, 1, n)
    <3>2. DOMAIN q \subseteq DOMAIN rows /\ \A i \in DOMAIN q : q[i] = rows[i]
      BY PrefixFacts DEF TypeInv
    <3>3. rawCsv'.rows = q
      BY <3>1 DEF TypeInv
    <3> HIDE DEF q
    <3>4. QED
      BY <3>2, <3>3 DEF OneRowEach, DistinctInv
  <2>3. CASE OpensRaw
    <3>1. rawCsv' = [state |-> "torn", rows |-> <<>>]
      BY <2>3 DEF OpensRaw, OpenRaw
    <3>2. QED
      BY <3>1, OneRowEachInitially
  <2>4. CASE ClosesRaw
    <3>1. rawCsv' = [state |-> "whole", rows |-> rows]
      BY <2>4 DEF ClosesRaw, CloseRaw
    <3>2. QED
      BY <3>1 DEF DistinctInv
  <2>5. QED
    BY <2>1, <2>2, <2>3, <2>4
      DEF Steps, Starts, StartSession, ToolsFound, Builds, Built, Loads, Skips, Opens, OpenLog,
          PrintResults, memory, Closes, CloseLog, OpenManifest, CloseManifest, Rows, Fails, Finishes, Report
<1>3. QED
  BY <1>1, <1>2 DEF DistinctInv, OneRowEach

----------------------------------------------------------------------------
(* commands.json and the records.                                          *)

\* commands.json and the records in memory agree after every step.
LEMMA ManifestStep ==
  ASSUME TypeInv, PhaseInv, RunInv, ManifestInv, Steps, UNCHANGED experiment
  PROVE  ManifestInv'
<1> USE DEF files, bounds
<1>1. CASE Starts
  <2>1. PICK a \in CommandLines, keys \in Seq(Points) : StartSession(a, keys)
    BY <1>1 DEF Starts
  <2>2. UNCHANGED commands
    BY <2>1 DEF StartSession
  <2>3. CASE pc' = "off"
    BY <2>2, <2>3 DEF ManifestInv
  <2>4. CASE pc' # "off"
    <3>1. /\ pos' = 1 /\ rows' = <<>> /\ ~(a.resume /\ commands.torn) /\ args' = a
          /\ records' = (IF a.resume THEN commands.recs ELSE <<>>)
          /\ mixed' = (mixed \/ (sessions > 0 /\ ~a.resume))
      BY <2>1, <2>4 DEF StartSession, Exit, load_records
    <3>2. a.resume => /\ commands = [torn |-> FALSE, recs |-> records']
                      /\ ToSet(commands.recs) \subseteq ToSet(records')
      BY <3>1 DEF TypeInv
    <3>3. ~a.resume /\ ~mixed' => commands.recs = <<>>
      <4>1. ~a.resume /\ ~mixed' => ~(sessions > 0)
        BY <3>1
      <4>2. sessions \in Nat /\ (sessions = 0 => commands.recs = <<>>)
        BY DEF TypeInv, PhaseInv
      <4>3. QED
        BY <4>1, <4>2
    <3>4. ToSet(<<>>) = {}
      BY DEF ToSet
    <3>5. commands.torn => commands.recs = <<>>
      BY DEF ManifestInv
    <3>6. QED
      BY <2>2, <3>1, <3>2, <3>3, <3>4, <3>5 DEF ManifestInv
  <2>5. QED
    BY <2>3, <2>4
<1>2. CASE Ends \/ Report
  BY <1>2 DEF Ends, Report, Exit, ManifestInv
<1>3. CASE ToolsFound \/ Built \/ Finishes \/ OpensRaw \/ ClosesRaw \/ Opens \/ PrintResults
  <2>1. /\ UNCHANGED <<commands, records, args, mixed, pos, rows>>
        /\ pc \notin {"off", "manifest", "dump"}
    BY <1>3 DEF ToolsFound, Built, Finishes, OpensRaw, OpenRaw, ClosesRaw, CloseRaw, Opens, OpenLog,
         PrintResults, memory
  <2>2. QED
    BY <2>1 DEF ManifestInv
<1>4. CASE Loads
  <2>1. /\ UNCHANGED <<commands, records, args, mixed, pos>>
        /\ pc = "load" /\ pos = 1 /\ (~args.resume => rows' = <<>>)
    BY <1>4 DEF Loads, PhaseInv, Loaded
  <2>2. QED
    BY <2>1 DEF ManifestInv
<1>5. CASE Skips
  <2>1. /\ UNCHANGED <<commands, records, args, mixed, rows>>
        /\ pc = "next" /\ rows # <<>>
    BY <1>5, NoKeys DEF Skips
  <2>2. QED
    BY <2>1 DEF ManifestInv
<1>6. CASE Rows \/ Fails
  <2>1. /\ UNCHANGED <<commands, records, args, mixed>>
        /\ pc = "handle" /\ records # <<>>
    BY <1>6 DEF Rows, Fails, RunInv, InCommand, Commanding
  <2>2. QED
    BY <2>1 DEF ManifestInv
<1>7. CASE Builds \/ Closes
  <2>1. PICK e : records' = Append(records, e)
    BY <1>7 DEF Builds, Closes, CloseLog
  <2>2. records' # <<>> /\ ToSet(records') = ToSet(records) \cup {e}
    BY <2>1, AppendAny DEF TypeInv
  <2>3. UNCHANGED <<commands, args, mixed>> /\ pc' = "manifest" /\ pc # "off"
    BY <1>7 DEF Builds, Closes, CloseLog
  <2>4. QED
    BY <2>2, <2>3 DEF ManifestInv
<1>8. CASE OpenManifest
  <2>1. /\ commands' = [torn |-> TRUE, recs |-> <<>>] /\ pc' = "dump" /\ pc # "off"
        /\ UNCHANGED <<records, args, mixed, pos, rows>>
    BY <1>8 DEF OpenManifest
  <2>2. ToSet(<<>>) = {}
    BY DEF ToSet
  <2>3. QED
    BY <2>1, <2>2 DEF ManifestInv
<1>9. CASE CloseManifest
  <2>1. /\ commands' = [torn |-> FALSE, recs |-> records] /\ pc' = "handle" /\ pc # "off"
        /\ UNCHANGED <<records, args, mixed, pos, rows>>
    BY <1>9 DEF CloseManifest
  <2>2. QED
    BY <2>1 DEF ManifestInv
<1>10. QED
  BY <1>1, <1>2, <1>3, <1>4, <1>5, <1>6, <1>7, <1>8, <1>9 DEF Steps

\* What one more record adds to those that --resume uses.
LEMMA UsableAppended ==
  ASSUME NEW recs, recs \in Seq(ToSet(recs)), NEW e
  PROVE  /\ Usable(Append(recs, e)) \subseteq Usable(recs) \cup {e}
         /\ Usable(recs) \subseteq Usable(Append(recs, e))
         /\ e \in Usable(Append(recs, e)) <=> e.ok /\ e.log[1] = "run"
         /\ e \notin Usable(Append(recs, e)) => Usable(Append(recs, e)) = Usable(recs)
<1>1. ToSet(Append(recs, e)) = ToSet(recs) \cup {e}
  BY AppendAny
<1>2. QED
  BY <1>1 DEF Usable

\* Which records --resume would use now.
LEMMA UsableStep ==
  ASSUME TypeInv, PhaseInv, RunInv, RecordsInv, Steps, UNCHANGED experiment
  PROVE  /\ \A rec \in Usable(records') \cup Usable(commands'.recs) : rec.log \in {"run"} \X Points
         /\ pc' # "off" /\ ~Loaded' /\ ~args'.resume => Usable(records') = {}
<1> USE DEF files, bounds
<1>0. Usable(<<>>) = {}
  BY DEF Usable, ToSet
<1>1. CASE Starts
  <2>1. PICK a \in CommandLines, keys \in Seq(Points) : StartSession(a, keys)
    BY <1>1 DEF Starts
  <2>2. /\ commands' = commands /\ args' = a
        /\ records' = <<>> \/ (a.resume /\ records' = commands.recs)
    BY <2>1 DEF StartSession, Exit, load_records
  <2>3. QED
    BY <1>0, <2>2 DEF RecordsInv
<1>2. CASE Ends \/ Report
  <2>1. pc' = "off" /\ records' = <<>> /\ commands' = commands
    BY <1>2 DEF Ends, Report, Exit
  <2>2. QED
    BY <1>0, <2>1 DEF RecordsInv
<1>3. CASE ToolsFound \/ Built
  <2>1. records' = records /\ commands' = commands /\ pc # "off" /\ ~Loaded /\ args' = args
    BY <1>3 DEF ToolsFound, Built, Loaded, Commanding
  <2>2. QED
    BY <2>1 DEF RecordsInv
<1>4. CASE Builds
  <2>1. PICK tool, ok : records' = Append(records, [log |-> <<"build", tool>>, run |-> 1, ok |-> ok])
    BY <1>4 DEF Builds
  <2>2. Usable(records') = Usable(records)
    BY <2>1, UsableAppended DEF TypeInv
  <2>3. commands' = commands /\ pc # "off" /\ ~Loaded /\ args' = args
    BY <1>4 DEF Builds, Loaded, Commanding
  <2>4. QED
    BY <2>2, <2>3 DEF RecordsInv
<1>5. CASE \/ Loads \/ Skips \/ Opens \/ PrintResults \/ Rows \/ Fails \/ Finishes \/ OpensRaw \/ ClosesRaw
  <2>1. records' = records /\ commands' = commands
    BY <1>5 DEF Loads, Skips, Opens, PrintResults, memory, Rows, Fails, Finishes, OpensRaw, OpenRaw,
         ClosesRaw, CloseRaw
  <2>2. Loaded'
    BY <1>5 DEF Loads, Skips, Opens, OpenLog, PrintResults, memory, Rows, Fails, Finishes, OpensRaw, OpenRaw,
         ClosesRaw, CloseRaw, Loaded, Commanding
  <2>3. QED
    BY <2>1, <2>2 DEF RecordsInv
<1>6. CASE Closes
  <2>1. PICK rc \in {"ok", "bad", "timeout"} : CloseLog(rc)
    BY <1>6 DEF Closes
  <2>2. /\ pc = "running" /\ pos <= Len(targets) /\ stage \in {"init", "run"}
        /\ records' = Append(records, [log |-> <<stage, Key>>, run |-> L[<<stage, Key>>].run, ok |-> rc = "ok"])
    BY <2>1, LogClosed
  <2>3. pc' = "manifest" /\ stage' = stage /\ commands' = commands
    BY <2>1 DEF CloseLog
  <2>4. Loaded'
    BY <2>2, <2>3 DEF Loaded, Commanding
  <2> DEFINE e == [log |-> <<stage, Key>>, run |-> L[<<stage, Key>>].run, ok |-> rc = "ok"]
  <2>5. \A rec \in Usable(records') : rec \in Usable(records) \/ (rec = e /\ stage = "run")
    BY <2>2, UsableAppended DEF TypeInv
  <2>6. Key \in Points
    BY <2>2, KeyFacts
  <2>7. QED
    BY <2>3, <2>4, <2>5, <2>6 DEF RecordsInv
<1>7. CASE OpenManifest
  <2>1. /\ records' = records /\ commands'.recs = <<>> /\ args' = args /\ pc # "off"
        /\ ~Loaded' => ~Loaded
    BY <1>7 DEF OpenManifest, Loaded, Commanding
  <2>2. QED
    BY <1>0, <2>1 DEF RecordsInv
<1>8. CASE CloseManifest
  <2>1. /\ records' = records /\ commands'.recs = records /\ args' = args /\ pc # "off"
        /\ ~Loaded' => ~Loaded
    BY <1>8 DEF CloseManifest, Loaded, Commanding
  <2>2. QED
    BY <2>1 DEF RecordsInv
<1>9. QED
  BY <1>1, <1>2, <1>3, <1>4, <1>5, <1>6, <1>7, <1>8 DEF Steps

\* While the log of a run is written, no record of its target is of use.
LEMMA NoRecordOfKey ==
  ASSUME TypeInv, PhaseInv, RunInv, RecordsInv, Opens \/ PrintResults \/ Closes,
         NEW rec \in Usable(records), rec.log[2] = Key, experiment # "four",
         experiment = "five" => L[rec.log].rc = "ok"
  PROVE  FALSE
<1>1. Loaded /\ Key \in ToSet(targets) /\ Key \notin Keys(rows)
  BY LogsOfRows
<1>2. ~(Commanding /\ stage = "run")
  BY DEF Opens, PrintResults, Closes, CloseLog, Commanding
<1>3. QED
  BY <1>1, <1>2 DEF RecordsInv

\* A successful record of a target has a row after every step.
LEMMA RecordsStep ==
  ASSUME TypeInv, PhaseInv, RunInv, RecordsInv, Steps, UNCHANGED experiment
  PROVE  RecordsInv'
<1> USE DEF files, bounds
<1>1. /\ \A rec \in Usable(records') \cup Usable(commands'.recs) : rec.log \in {"run"} \X Points
      /\ pc' # "off" /\ ~Loaded' /\ ~args'.resume => Usable(records') = {}
  BY UsableStep
<1>2. ASSUME NEW rec \in Usable(records'), Loaded', rec.log[2] \in ToSet(targets'), experiment # "four",
             experiment = "five" => L'[rec.log].rc = "ok"
      PROVE  \/ rec.log[2] \in Keys(rows')
             \/ rec.log[2] = Key' /\ Commanding' /\ stage' = "run" /\ Last(records').ok
  <2>0. rec.log = <<"run", rec.log[2]>> /\ rec.log[2] \in Points /\ rec.log \in Names
    BY <1>1, <1>2 DEF Names
  <2>1. CASE Starts \/ Ends \/ Report \/ ToolsFound \/ Builds \/ Built
    BY <1>2, <2>1 DEF Starts, StartSession, Ends, Report, Exit, ToolsFound, Builds, Built, Loaded, Commanding
  <2>2. CASE Loads
    <3>1. records' = records /\ targets' = targets /\ logs' = logs /\ ~Loaded /\ pc # "off"
      BY <2>2 DEF Loads, Loaded
    <3>2. L' = L
      BY <3>1, LogKept
    <3>3. CASE ~args.resume
      BY <1>2, <3>1, <3>3 DEF RecordsInv
    <3>4. CASE args.resume
      <4>1. experiment \in {"three", "six"} \/ experiment = "five"
        BY <1>2 DEF TypeInv
      <4>2. CASE experiment \in {"three", "six"}
        BY <1>2, <2>2, <3>1, <3>4, <4>2 DEF Loads, FromRecords
      <4>3. CASE experiment = "five"
        <5>1. Keys(rows') = ToSet(targets) \cap (Keys(rawCsv.rows) \cup
                              {r.log[2] : r \in {q \in Usable(records) : L[q.log].rc = "ok"}})
          BY <2>2, <3>4, <4>3 DEF Loads, FromRawCsv
        <5>2. rec \in {q \in Usable(records) : L[q.log].rc = "ok"}
          BY <1>2, <3>1, <3>2, <4>3
        <5>3. QED
          BY <1>2, <3>1, <5>1, <5>2
      <4>4. QED
        BY <4>1, <4>2, <4>3
    <3>5. QED
      BY <3>3, <3>4
  <2>3. CASE Skips \/ Finishes \/ OpensRaw \/ ClosesRaw
    <3>1. /\ records' = records /\ targets' = targets /\ logs' = logs /\ rows' = rows
          /\ Loaded /\ ~Commanding
      BY <2>3 DEF Skips, Finishes, OpensRaw, OpenRaw, ClosesRaw, CloseRaw, Loaded, Commanding
    <3>2. L' = L
      BY <3>1, LogKept
    <3>3. QED
      BY <1>2, <3>1, <3>2 DEF RecordsInv
  <2>4. CASE OpenManifest \/ CloseManifest
    <3>1. /\ UNCHANGED <<records, targets, logs, rows, pos, stage>>
          /\ Commanding /\ Commanding'
      BY <2>4 DEF OpenManifest, CloseManifest, Commanding
    <3>2. Loaded
      BY <1>2, <2>4, <3>1 DEF Loaded, Commanding, OpenManifest, CloseManifest
    <3>3. L' = L /\ Key' = Key
      BY <3>1, LogKept DEF Key
    <3>4. QED
      BY <1>2, <3>1, <3>2, <3>3 DEF RecordsInv
  <2>5. CASE Opens \/ PrintResults
    <3>1. /\ Loaded /\ targets' = targets /\ rows' = rows /\ Key' = Key
          /\ \A k \in Points : k # Key => L'[<<"run", k>>] = L[<<"run", k>>]
      BY <2>5, LogsOfRows
    <3>2. records' = records
      BY <2>5 DEF Opens, PrintResults, memory
    <3>3. L'[<<"run", Key>>].rc = "ok" => L[<<"run", Key>>].rc = "ok"
      <4>1. CASE PrintResults
        BY <4>1, LogPrinted
      <4>2. CASE Opens
        <5>1. PICK st \in {"init", "run"} : OpenLog(st)
          BY <4>2 DEF Opens
        <5>2. pos <= Len(targets)
          BY <4>2 DEF Opens, RunInv, InCommand, Commanding
        <5>3. /\ <<st, Key>> \in Names
              /\ L' = [L EXCEPT ![<<st, Key>>] = [run |-> L[<<st, Key>>].run + 1, printed |-> FALSE, rc |-> "none"]]
          BY <5>1, <5>2, LogOpened
        <5>4. L \in [Names -> LogFile] /\ <<"run", Key>> \in Names
          BY <5>2, LogFacts, KeyFacts DEF Names
        <5>5. CASE st = "run"
          BY <5>3, <5>4, <5>5
        <5>6. CASE st = "init"
          <6>1. <<st, Key>> # <<"run", Key>>
            BY <5>6
          <6>2. QED
            BY <5>3, <5>4, <6>1
        <5>7. QED
          BY <5>5, <5>6
      <4>3. QED
        BY <2>5, <4>1, <4>2
    <3>4. experiment = "five" => L[rec.log].rc = "ok"
      BY <1>2, <2>0, <3>1, <3>3
    <3>5. rec.log[2] # Key
      BY <1>2, <2>5, <3>2, <3>4, NoRecordOfKey
    <3>6. QED
      BY <1>2, <3>1, <3>2, <3>4, <3>5 DEF RecordsInv
  <2>6. CASE Closes
    <3>1. /\ Loaded /\ targets' = targets /\ rows' = rows /\ Key' = Key
          /\ \A k \in Points : k # Key => L'[<<"run", k>>] = L[<<"run", k>>]
      BY <2>6, LogsOfRows
    <3>2. PICK rc \in {"ok", "bad", "timeout"} : CloseLog(rc)
      BY <2>6 DEF Closes
    <3> DEFINE e == [log |-> <<stage, Key>>, run |-> L[<<stage, Key>>].run, ok |-> rc = "ok"]
    <3>3. /\ records' = Append(records, e)
          /\ L'[<<stage, Key>>].rc = rc /\ L[<<stage, Key>>].rc = "none" /\ stage \in {"init", "run"}
          /\ \A n \in Names : n # <<stage, Key>> => L'[n] = L[n]
      BY <3>2, LogClosed
    <3>4. Commanding' /\ stage' = stage
      BY <3>2 DEF CloseLog, Commanding
    <3>5. Last(records').ok = (rc = "ok") /\ (rec \in Usable(records) \/ (rec = e /\ e.ok /\ e.log[1] = "run"))
      <4>1. Last(records') = e
        BY <3>3, AppendAny DEF TypeInv
      <4>2. rec \in Usable(records) \cup {e} /\ (e \in Usable(records') <=> e.ok /\ e.log[1] = "run")
        BY <1>2, <3>3, UsableAppended DEF TypeInv
      <4>3. QED
        BY <1>2, <4>1, <4>2
    <3>6. CASE rec \notin Usable(records)
      <4>1. rec = e /\ rc = "ok" /\ stage = "run"
        BY <3>5, <3>6
      <4>2. rec.log[2] = Key
        BY <4>1
      <4>3. QED
        BY <3>1, <3>4, <3>5, <4>1, <4>2
    <3>7. CASE rec \in Usable(records) /\ rec.log[2] # Key
      <4>1. L'[rec.log] = L[rec.log]
        BY <2>0, <3>1, <3>7
      <4>2. pc = "running"
        BY <3>2 DEF CloseLog
      <4>3. QED
        BY <1>2, <3>1, <3>7, <4>1, <4>2 DEF RecordsInv
    <3>8. CASE rec \in Usable(records) /\ rec.log[2] = Key
      <4>1. experiment = "five" /\ L[rec.log].rc # "ok"
        BY <1>2, <2>6, <3>8, NoRecordOfKey
      <4>2. stage = "run"
        BY <1>2, <2>0, <3>3, <4>1
      <4>3. rc = "ok"
        BY <1>2, <2>0, <3>3, <3>8, <4>1, <4>2
      <4>4. QED
        BY <3>1, <3>4, <3>5, <3>8, <4>2, <4>3
    <3>9. QED
      BY <3>6, <3>7, <3>8
  <2>7. CASE Rows
    <3>1. Keys(rows)' = Keys(rows) \cup {Key}
      BY <2>7, RowAdded
    <3>2. records' = records /\ targets' = targets /\ logs' = logs /\ Loaded
      BY <2>7 DEF Rows, Loaded, Commanding
    <3>3. L' = L /\ Keys(rows') = Keys(rows)'
      BY <3>2, LogKept DEF Keys
    <3>4. QED
      BY <1>2, <3>1, <3>2, <3>3 DEF RecordsInv
  <2>8. CASE Fails
    <3>1. /\ records' = records /\ targets' = targets /\ logs' = logs /\ rows' = rows /\ Loaded
          /\ ~Last(records).ok
      BY <2>8 DEF Fails, Loaded, Commanding
    <3>2. L' = L
      BY <3>1, LogKept
    <3>3. QED
      BY <1>2, <3>1, <3>2 DEF RecordsInv
  <2>9. QED
    BY <2>1, <2>2, <2>3, <2>4, <2>5, <2>6, <2>7, <2>8 DEF Steps
<1>3. Usable(records)' = Usable(records') /\ Keys(rows)' = Keys(rows') /\ Last(records)' = Last(records')
      /\ Usable(commands.recs)' = Usable(commands'.recs)
  BY DEF Usable, Keys, Last, ToSet
<1>4. QED
  BY <1>1, <1>2, <1>3 DEF RecordsInv

\* No rows need no records.
LEMMA NoRowsRecorded ==
  ASSUME NEW recs
  PROVE  Recorded(<<>>, recs) /\ GoodRecords(<<>>)
BY DEF Recorded, GoodRecords, Usable, ToSet

\* Rows that the records in memory tell of are told of by commands.json.
LEMMA RowsInManifest ==
  ASSUME TypeInv, ManifestInv, pc \notin {"off", "manifest", "dump"}, NEW rs, Recorded(rs, records)
  PROVE  Recorded(rs, commands.recs)
<1>1. CASE records # <<>>
  <2>1. commands.recs = records
    BY <1>1 DEF ManifestInv
  <2>2. QED
    BY <2>1
<1>2. CASE records = <<>>
  <2>1. Usable(records) = {}
    BY <1>2 DEF Usable, ToSet
  <2>2. QED
    BY <2>1 DEF Recorded
<1>3. QED
  BY <1>1, <1>2

\* The records of experiments three and six are trustworthy after every step.
LEMMA OwnStep ==
  ASSUME TypeInv, PhaseInv, RunInv, CoverInv, ManifestInv, RecordsInv, OwnRecords,
         Steps, UNCHANGED experiment
  PROVE  OwnRecords'
<1> USE DEF files, bounds
<1> SUFFICES ASSUME experiment \in {"three", "six"}
             PROVE  /\ Clean' => GoodRecords(records)'
                    /\ ~mixed' => GoodRecords(commands.recs)'
                    /\ pc' # "off" => Recorded(rows, records)'
                    /\ pc' # "off" /\ ~mixed' => Recorded(rawCsv.rows, records)'
                    /\ ~mixed' /\ ~commands'.torn => Recorded(rawCsv.rows, commands.recs)'
  BY DEF OwnRecords
<1>0. /\ Clean => GoodRecords(records)
      /\ ~mixed => GoodRecords(commands.recs)
      /\ pc # "off" => Recorded(rows, records)
      /\ pc # "off" /\ ~mixed => Recorded(rawCsv.rows, records)
      /\ ~mixed /\ ~commands.torn => Recorded(rawCsv.rows, commands.recs)
  BY DEF OwnRecords
<1>a. /\ Recorded(rows, records)' = Recorded(rows', records')
      /\ Recorded(rawCsv.rows, records)' = Recorded(rawCsv'.rows, records')
      /\ Recorded(rawCsv.rows, commands.recs)' = Recorded(rawCsv'.rows, commands'.recs)
  BY DEF Recorded, Usable, ToSet
<1>b. logs' = logs => /\ GoodRecords(records)' = GoodRecords(records')
                      /\ GoodRecords(commands.recs)' = GoodRecords(commands'.recs)
  BY LogKept DEF GoodRecords, Usable, ToSet
<1>1. CASE Starts
  <2>1. PICK a \in CommandLines, keys \in Seq(Points) : StartSession(a, keys)
    BY <1>1 DEF Starts
  <2>2. UNCHANGED <<commands, rawCsv, logs>> /\ args' = a /\ rows' = <<>> /\ (~mixed' => ~mixed)
    BY <2>1 DEF StartSession, Exit
  <2>3. CASE pc' = "off"
    BY <1>0, <1>a, <1>b, <2>2, <2>3 DEF Clean
  <2>4. CASE pc' # "off"
    <3>1. /\ ~(a.resume /\ commands.torn)
          /\ records' = (IF a.resume THEN commands.recs ELSE <<>>)
          /\ mixed' = (mixed \/ (sessions > 0 /\ ~a.resume))
      BY <2>1, <2>4 DEF StartSession, Exit, load_records
    <3>2. CASE a.resume
      <4>1. records' = commands.recs /\ ~commands.torn /\ (mixed' = mixed)
        BY <3>1, <3>2 DEF TypeInv
      <4>2. QED
        BY <1>0, <1>a, <1>b, <2>2, <2>4, <3>2, <4>1, NoRowsRecorded DEF Clean
    <3>3. CASE ~a.resume
      <4>1. records' = <<>>
        BY <3>1, <3>3
      <4>2. ~mixed' => rawCsv.rows = <<>>
        <5>1. sessions \in Nat /\ (~mixed' => ~(sessions > 0))
          BY <3>1, <3>3 DEF TypeInv
        <5>2. QED
          BY <5>1 DEF PhaseInv
      <4>3. GoodRecords(records') /\ Recorded(rows', records') /\ (~mixed' => Recorded(rawCsv'.rows, records'))
        BY <2>2, <4>1, <4>2, NoRowsRecorded
      <4>4. QED
        BY <1>0, <1>a, <1>b, <2>2, <4>3
    <3>4. QED
      BY <3>2, <3>3
  <2>5. QED
    BY <2>3, <2>4
<1>2. CASE Ends
  <2>1. pc # "off" /\ pc' = "off" /\ UNCHANGED <<commands, logs, mixed>>
    BY <1>2 DEF Ends, Exit
  <2>2. CASE rawCsv' = rawCsv
    BY <1>0, <1>a, <1>b, <2>1, <2>2 DEF Clean
  <2>3. CASE rawCsv' # rawCsv
    <3>1. PICK n \in 0..Len(rows) : /\ pc \in {"raw_open", "progress_open"}
                                    /\ rawCsv' = [rawCsv EXCEPT !.rows = SubSeq(rows, 1, n)]
      BY <1>2, <2>3 DEF Ends
    <3> DEFINE q == SubSeq(rows, 1, n)
    <3>2. DOMAIN q \subseteq DOMAIN rows /\ \A i \in DOMAIN q : q[i] = rows[i]
      BY PrefixFacts DEF TypeInv
    <3>3. rawCsv'.rows = q
      BY <3>1 DEF TypeInv
    <3> HIDE DEF q
    <3>4. Recorded(rows, commands.recs)
      BY <1>0, <2>1, <3>1, RowsInManifest
    <3>5. Recorded(rawCsv'.rows, commands'.recs)
      <4>1. commands'.recs = commands.recs
        BY <2>1
      <4>2. Recorded(q, commands.recs)
        BY <3>2, <3>4 DEF Recorded
      <4>3. QED
        BY <3>3, <4>1, <4>2
    <3>6. QED
      BY <1>0, <1>a, <1>b, <2>1, <3>5 DEF Clean
  <2>4. QED
    BY <2>2, <2>3
<1>3. CASE ToolsFound \/ Built \/ Skips \/ Finishes \/ Fails
  <2>1. pc # "off" /\ pc' # "off" /\ UNCHANGED <<records, rows, rawCsv, commands, logs, mixed, args>>
    BY <1>3 DEF ToolsFound, Built, Skips, Finishes, Fails
  <2>2. QED
    BY <1>0, <1>a, <1>b, <2>1 DEF Clean
<1>4. CASE Builds
  <2>1. PICK tool, ok : records' = Append(records, [log |-> <<"build", tool>>, run |-> 1, ok |-> ok])
    BY <1>4 DEF Builds
  <2>2. Usable(records') = Usable(records)
    BY <2>1, UsableAppended DEF TypeInv
  <2>3. pc # "off" /\ pc' # "off" /\ UNCHANGED <<rows, rawCsv, commands, logs, mixed, args>>
    BY <1>4 DEF Builds
  <2>4. GoodRecords(records) => GoodRecords(records')
    BY <2>2 DEF GoodRecords
  <2>5. /\ Recorded(rows, records) => Recorded(rows', records')
        /\ Recorded(rawCsv.rows, records) => Recorded(rawCsv'.rows, records')
    BY <2>2, <2>3 DEF Recorded
  <2>6. QED
    BY <1>0, <1>a, <1>b, <2>3, <2>4, <2>5 DEF Clean
<1>5. CASE Loads
  <2>1. pc # "off" /\ pc' # "off" /\ UNCHANGED <<records, rawCsv, commands, logs, mixed, args>> /\ rows' \in Seq(RunRow)
    BY <1>5 DEF Loads
  <2>2. Recorded(rows', records')
    <3>1. CASE ~args.resume
      BY <1>5, <3>1, NoRowsRecorded DEF Loads
    <3>2. CASE args.resume
      <4>1. Keys(rows') = ToSet(targets) \cap {rec.log[2] : rec \in Usable(records)}
        BY <1>5, <3>2 DEF Loads, FromRecords
      <4> SUFFICES ASSUME NEW i \in DOMAIN rows'
                   PROVE  \E rec \in Usable(records) : rec.log = <<"run", rows'[i].key>>
        BY <2>1 DEF Recorded
      <4>2. rows'[i].key \in Keys(rows')
        BY DEF Keys
      <4>3. PICK rec \in Usable(records) : rec.log[2] = rows'[i].key
        BY <4>1, <4>2
      <4>4. rec.log = <<"run", rows'[i].key>>
        BY <4>3 DEF RecordsInv
      <4>5. QED
        BY <4>4
    <3>3. QED
      BY <3>1, <3>2
  <2>3. QED
    BY <1>0, <1>a, <1>b, <2>1, <2>2 DEF Clean
<1>6. CASE Opens \/ PrintResults \/ Closes
  <2>1. /\ UNCHANGED <<targets, rows, rawCsv, args, mixed, commands>>
        /\ \A k \in Points : k # Key => L'[<<"run", k>>] = L[<<"run", k>>]
        /\ pc # "off" /\ pc' # "off"
    BY <1>6, LogsOfRows
  <2>2. Usable(records) \subseteq Usable(records') /\ \A rec \in Usable(records') \ Usable(records) : L'[rec.log].rc = "ok"
    <3>1. CASE Opens \/ PrintResults
      BY <3>1 DEF Opens, PrintResults, memory
    <3>2. CASE Closes
      <4>1. PICK rc \in {"ok", "bad", "timeout"} : CloseLog(rc)
        BY <3>2 DEF Closes
      <4> DEFINE e == [log |-> <<stage, Key>>, run |-> L[<<stage, Key>>].run, ok |-> rc = "ok"]
      <4>2. records' = Append(records, e) /\ L'[<<stage, Key>>].rc = rc
        BY <4>1, LogClosed
      <4>a. records \in Seq(ToSet(records))
        BY DEF TypeInv
      <4>3. /\ Usable(records') \subseteq Usable(records) \cup {e} /\ Usable(records) \subseteq Usable(records')
            /\ (e \in Usable(records') <=> e.ok /\ e.log[1] = "run")
        BY <4>2, <4>a, UsableAppended
      <4>4. e.log = <<stage, Key>> /\ (e.ok => rc = "ok")
        OBVIOUS
      <4> HIDE DEF e
      <4>5. ASSUME NEW rec \in Usable(records') \ Usable(records)
            PROVE  L'[rec.log].rc = "ok"
        <5>1. rec = e /\ e.ok
          BY <4>3, <4>5
        <5>2. QED
          BY <4>2, <4>4, <5>1
      <4>6. QED
        BY <4>3, <4>5
    <3>3. QED
      BY <1>6, <3>1, <3>2
  <2>3. \A rec \in Usable(records) : L'[rec.log] = L[rec.log]
    <3> SUFFICES ASSUME NEW rec \in Usable(records)
                 PROVE  L'[rec.log] = L[rec.log]
      OBVIOUS
    <3>1. rec.log[2] # Key
      BY <1>6, NoRecordOfKey
    <3>2. rec.log = <<"run", rec.log[2]>> /\ rec.log[2] \in Points
      BY DEF RecordsInv
    <3>3. QED
      BY <2>1, <3>1, <3>2
  <2>4. GoodRecords(records) => \A rec \in Usable(records') : L'[rec.log].rc = "ok"
    BY <2>2, <2>3 DEF GoodRecords
  <2>5. ~mixed => Usable(commands.recs) \subseteq Usable(records)
    BY <2>1 DEF ManifestInv, Usable
  <2>6. ~mixed => \A rec \in Usable(commands'.recs) : L'[rec.log].rc = "ok"
    <3>1. commands'.recs = commands.recs
      BY <2>1
    <3>2. ASSUME ~mixed, NEW rec \in Usable(commands.recs)
          PROVE  L'[rec.log].rc = "ok"
      <4>1. L'[rec.log] = L[rec.log]
        BY <2>3, <2>5, <3>2
      <4>2. L[rec.log].rc = "ok"
        BY <1>0, <3>2 DEF GoodRecords
      <4>3. QED
        BY <4>1, <4>2
    <3>3. QED
      BY <3>1, <3>2
  <2>7. /\ GoodRecords(records)' <=> \A rec \in Usable(records') : L'[rec.log].rc = "ok"
        /\ GoodRecords(commands.recs)' <=> \A rec \in Usable(commands'.recs) : L'[rec.log].rc = "ok"
    BY DEF GoodRecords, Usable, ToSet
  <2>8. /\ Recorded(rows, records) => Recorded(rows', records')
        /\ Recorded(rawCsv.rows, records) => Recorded(rawCsv'.rows, records')
    BY <2>1, <2>2 DEF Recorded
  <2>9. Clean' => Clean
    BY <2>1 DEF Clean
  <2>10. QED
    BY <1>0, <1>a, <2>1, <2>4, <2>6, <2>7, <2>8, <2>9
<1>7. CASE OpenManifest
  <2>1. /\ commands' = [torn |-> TRUE, recs |-> <<>>] /\ pc # "off" /\ UNCHANGED <<records, rows, rawCsv, logs, mixed, args>>
    BY <1>7 DEF OpenManifest
  <2>2. QED
    BY <1>0, <1>a, <1>b, <2>1, NoRowsRecorded DEF Clean
<1>8. CASE CloseManifest
  <2>1. /\ commands' = [torn |-> FALSE, recs |-> records] /\ pc # "off" /\ UNCHANGED <<records, rows, rawCsv, logs, mixed, args>>
    BY <1>8 DEF CloseManifest
  <2>2. QED
    BY <1>0, <1>a, <1>b, <2>1 DEF Clean
<1>9. CASE Rows
  <2>1. /\ pc # "off" /\ UNCHANGED <<records, rawCsv, commands, logs, mixed, args>>
        /\ Acceptable(L[<<"run", Key>>]) /\ pc = "handle" /\ stage = "run"
    BY <1>9 DEF Rows
  <2>2. \A i \in DOMAIN rows' : \/ i \in DOMAIN rows /\ rows'[i] = rows[i]
                                \/ rows'[i] = [key |-> Key, run |-> L[<<"run", Key>>].run] /\ i = Len(rows) + 1
    BY <1>9, RowAdded
  <2>3. L[<<"run", Key>>].rc = "ok"
    BY <2>1 DEF Acceptable
  <2>4. /\ records # <<>>
        /\ Last(records) = [log |-> <<"run", Key>>, run |-> L[<<"run", Key>>].run, ok |-> TRUE]
    BY <2>1, <2>3 DEF RunInv, InCommand, Commanding
  <2>5. Last(records) \in ToSet(records)
    <3>1. Len(records) \in Nat \ {0} /\ DOMAIN records = 1..Len(records)
      BY <2>4, SeqFacts DEF TypeInv
    <3>2. Len(records) \in DOMAIN records
      BY <3>1
    <3>3. QED
      BY <3>2 DEF Last, ToSet
  <2>6. Last(records) \in Usable(records) /\ Last(records).log = <<"run", Key>>
    BY <2>4, <2>5 DEF Usable
  <2>7. Recorded(rows', records')
    <3> SUFFICES ASSUME NEW i \in DOMAIN rows'
                 PROVE  \E rec \in Usable(records) : rec.log = <<"run", rows'[i].key>>
      BY <2>1 DEF Recorded
    <3>1. CASE rows'[i] = [key |-> Key, run |-> L[<<"run", Key>>].run]
      BY <2>6, <3>1
    <3>2. CASE i \in DOMAIN rows /\ rows'[i] = rows[i]
      BY <1>0, <2>1, <3>2 DEF Recorded
    <3>3. QED
      BY <2>2, <3>1, <3>2
  <2>8. QED
    BY <1>0, <1>a, <1>b, <2>1, <2>7 DEF Clean
<1>10. CASE OpensRaw
  <2>1. /\ pc # "off" /\ rawCsv' = [state |-> "torn", rows |-> <<>>]
        /\ UNCHANGED <<records, rows, commands, logs, mixed, args>>
    BY <1>10 DEF OpensRaw, OpenRaw
  <2>2. QED
    BY <1>0, <1>a, <1>b, <2>1, NoRowsRecorded DEF Clean
<1>11. CASE ClosesRaw
  <2>1. /\ pc \notin {"off", "manifest", "dump"} /\ rawCsv' = [state |-> "whole", rows |-> rows]
        /\ UNCHANGED <<records, rows, commands, logs, mixed, args>>
    BY <1>11 DEF ClosesRaw, CloseRaw
  <2>2. Recorded(rows, commands.recs) /\ Recorded(rows, records)
    BY <1>0, <2>1, RowsInManifest
  <2>3. rawCsv'.rows = rows /\ rows' = rows /\ records' = records /\ commands' = commands
    BY <2>1
  <2>4. QED
    BY <1>0, <1>a, <1>b, <2>1, <2>2, <2>3 DEF Clean
<1>12. CASE Report
  <2>1. /\ pc = "report" /\ pc' = "off" /\ mixed' = (mixed /\ args.resume)
        /\ UNCHANGED <<logs, commands, rawCsv>>
    BY <1>12 DEF Report, Exit
  <2>2. CASE ~mixed
    BY <1>0, <1>a, <1>b, <2>1, <2>2 DEF Clean
  <2>3. CASE mixed /\ args.resume
    <3>1. mixed'
      BY <2>1, <2>3
    <3>2. QED
      BY <2>1, <3>1 DEF Clean
  <2>4. CASE mixed /\ ~args.resume
    <3>1. Clean
      BY <2>1, <2>4 DEF Clean
    <3>2. records # <<>>
      <4>1. targets # <<>> /\ pos = Len(targets) + 1
        BY <2>1 DEF PhaseInv, CoverInv
      <4>2. Len(targets) \in Nat \ {0}
        BY <4>1, EmptySeq, LenProperties DEF TypeInv
      <4>3. pos > 1
        BY <4>1, <4>2
      <4>4. QED
        BY <2>1, <2>4, <4>3 DEF ManifestInv
    <3>3. commands.recs = records /\ rawCsv.rows = rows
      BY <2>1, <3>2 DEF ManifestInv, CoverInv
    <3>4. GoodRecords(commands.recs) /\ Recorded(rawCsv.rows, commands.recs)
      BY <1>0, <2>1, <3>1, <3>3
    <3>5. QED
      BY <1>a, <1>b, <2>1, <3>4 DEF Clean
  <2>5. QED
    BY <2>2, <2>3, <2>4
<1>13. QED
  BY <1>1, <1>2, <1>3, <1>4, <1>5, <1>6, <1>7, <1>8, <1>9, <1>10, <1>11, <1>12 DEF Steps

\* No rows need no logs.
LEMMA NoRowsBacked == BackedRows(<<>>)
BY DEF BackedRows

\* The rows that --resume starts from are backed, if its files were clean.
LEMMA LoadedBacked ==
  ASSUME TypeInv, PhaseInv, RecordsInv, OwnRecords, RowsInv, Loads, Clean
  PROVE  BackedRows(rows')
<1>1. rows' \in Seq(RunRow) /\ pc # "off"
  BY DEF Loads
<1>2. CASE ~args.resume
  BY <1>2, NoRowsBacked DEF Loads
<1>3. CASE args.resume
  <2>1. ~mixed /\ BackedRows(rawCsv.rows)
    BY <1>3 DEF Clean, RowsInv
  <2>2. experiment \in {"three", "six"} \/ experiment = "five"
    BY <1>1, <1>3 DEF TypeInv, PhaseInv
  <2> SUFFICES ASSUME NEW i \in DOMAIN rows'
               PROVE  LET log == L[<<"run", rows'[i].key>>] IN log.run = rows'[i].run /\ Acceptable(log)
    BY DEF BackedRows
  <2>3. rows'[i].key \in Keys(rows')
    BY DEF Keys
  <2>4. CASE experiment \in {"three", "six"}
    <3>1. FromRecords /\ GoodRecords(records)
      BY <1>3, <2>4 DEF Loads, OwnRecords
    <3>2. PICK rec \in Usable(records) : rec.log[2] = rows'[i].key
      BY <2>3, <3>1 DEF FromRecords
    <3>3. rec.log = <<"run", rows'[i].key>>
      BY <3>2 DEF RecordsInv
    <3>4. L[<<"run", rows'[i].key>>].rc = "ok" /\ (experiment = "three" => L[<<"run", rows'[i].key>>].printed)
      BY <3>1, <3>3 DEF GoodRecords, FromRecords
    <3>5. rows'[i].run = L[<<"run", rows'[i].key>>].run
      BY <3>1 DEF FromRecords
    <3>6. QED
      BY <2>4, <3>4, <3>5 DEF Acceptable
  <2>5. CASE experiment = "five"
    <3>1. \/ rows'[i] \in ToSet(rawCsv.rows)
          \/ LET log == L[<<"run", rows'[i].key>>] IN rows'[i].run = log.run /\ log.rc = "ok"
      BY <1>3, <2>5 DEF Loads, FromRawCsv
    <3>2. CASE rows'[i] \in ToSet(rawCsv.rows)
      <4>1. PICK j \in DOMAIN rawCsv.rows : rows'[i] = rawCsv.rows[j]
        BY <3>2 DEF ToSet
      <4>2. QED
        BY <2>1, <4>1 DEF BackedRows
    <3>3. CASE LET log == L[<<"run", rows'[i].key>>] IN rows'[i].run = log.run /\ log.rc = "ok"
      BY <2>5, <3>3 DEF Acceptable
    <3>4. QED
      BY <3>1, <3>2, <3>3
  <2>6. QED
    BY <2>2, <2>4, <2>5
<1>4. QED
  BY <1>2, <1>3

\* No target of a row of raw.csv is left out by --resume.
LEMMA LoadedAll ==
  ASSUME TypeInv, PhaseInv, RecordsInv, OwnRecords, RowsInv, Loads, ~mixed
  PROVE  Keys(rawCsv.rows) \cap ToSet(targets) \subseteq Keys(rows')
<1>1. pc = "load" /\ ~Loaded
  BY DEF Loads, Loaded
<1>2. CASE ~args.resume
  BY <1>1, <1>2, NoKeys DEF RowsInv
<1>3. CASE args.resume
  <2>1. experiment \in {"three", "six"} \/ experiment = "five"
    BY <1>1, <1>3 DEF TypeInv, PhaseInv
  <2>2. CASE experiment \in {"three", "six"}
    <3>1. Keys(rows') = ToSet(targets) \cap {rec.log[2] : rec \in Usable(records)}
      BY <1>3, <2>2 DEF Loads, FromRecords
    <3>2. Recorded(rawCsv.rows, records)
      BY <1>1, <2>2 DEF OwnRecords
    <3>3. ASSUME NEW i \in DOMAIN rawCsv.rows
          PROVE  rawCsv.rows[i].key \in {rec.log[2] : rec \in Usable(records)}
      <4>1. PICK rec \in Usable(records) : rec.log = <<"run", rawCsv.rows[i].key>>
        BY <3>2 DEF Recorded
      <4>2. rec.log[2] = rawCsv.rows[i].key
        BY <4>1
      <4>3. QED
        BY <4>2
    <3>4. QED
      BY <3>1, <3>3 DEF Keys
  <2>3. CASE experiment = "five"
    BY <1>3, <2>3 DEF Loads, FromRawCsv
  <2>4. QED
    BY <2>1, <2>2, <2>3
<1>4. QED
  BY <1>2, <1>3

\* The rows in memory and in raw.csv have their logs after every step.
LEMMA BackedStep ==
  ASSUME TypeInv, PhaseInv, RunInv, CoverInv, RecordsInv, OwnRecords, RowsInv,
         Steps, UNCHANGED experiment
  PROVE  /\ Clean' => BackedRows(rows)'
         /\ ~mixed' => BackedRows(rawCsv.rows)'
<1> USE DEF files, bounds
<1>0. /\ Clean => BackedRows(rows)
      /\ ~mixed => BackedRows(rawCsv.rows)
  BY DEF RowsInv
<1>a. \A log : Acceptable(log)' <=> Acceptable(log)
  BY DEF Acceptable
<1>b. logs' = logs => /\ BackedRows(rows)' <=> BackedRows(rows')
                      /\ BackedRows(rawCsv.rows)' <=> BackedRows(rawCsv'.rows)
  BY LogKept DEF BackedRows, Acceptable
<1>1. CASE Starts
  <2>1. PICK a \in CommandLines, keys \in Seq(Points) : StartSession(a, keys)
    BY <1>1 DEF Starts
  <2>2. UNCHANGED <<rawCsv, logs>> /\ rows' = <<>> /\ (~mixed' => ~mixed)
    BY <2>1 DEF StartSession, Exit
  <2>3. QED
    BY <1>0, <1>b, <2>2, NoRowsBacked
<1>2. CASE Ends
  <2>1. pc # "off" /\ pc' = "off" /\ UNCHANGED <<logs, mixed>>
    BY <1>2 DEF Ends, Exit
  <2>2. CASE rawCsv' = rawCsv
    BY <1>0, <1>b, <2>1, <2>2 DEF Clean
  <2>3. CASE rawCsv' # rawCsv
    <3>1. PICK n \in 0..Len(rows) : rawCsv' = [rawCsv EXCEPT !.rows = SubSeq(rows, 1, n)]
      BY <1>2, <2>3 DEF Ends
    <3> DEFINE q == SubSeq(rows, 1, n)
    <3>2. DOMAIN q \subseteq DOMAIN rows /\ \A i \in DOMAIN q : q[i] = rows[i]
      BY PrefixFacts DEF TypeInv
    <3>3. rawCsv'.rows = q
      BY <3>1 DEF TypeInv
    <3> HIDE DEF q
    <3>4. BackedRows(rows) => BackedRows(q)
      BY <3>2 DEF BackedRows
    <3>5. QED
      BY <1>0, <1>b, <2>1, <3>3, <3>4 DEF Clean
  <2>4. QED
    BY <2>2, <2>3
<1>3. CASE \/ ToolsFound \/ Builds \/ Built \/ Skips \/ OpenManifest \/ CloseManifest \/ Fails \/ Finishes
  <2>1. pc # "off" /\ UNCHANGED <<rows, rawCsv, logs, mixed, args>>
    BY <1>3 DEF ToolsFound, Builds, Built, Skips, OpenManifest, CloseManifest, Fails, Finishes
  <2>2. QED
    BY <1>0, <1>b, <2>1 DEF Clean
<1>4. CASE Loads
  <2>1. pc # "off" /\ UNCHANGED <<rawCsv, logs, mixed, args>>
    BY <1>4 DEF Loads
  <2>2. Clean => BackedRows(rows')
    BY <1>4, LoadedBacked
  <2>3. QED
    BY <1>0, <1>b, <2>1, <2>2 DEF Clean
<1>5. CASE Opens \/ PrintResults \/ Closes
  <2>1. /\ Key \notin Keys(rows) /\ Key \in ToSet(targets)
        /\ \A k \in Points : k # Key => L'[<<"run", k>>] = L[<<"run", k>>]
        /\ UNCHANGED <<targets, rows, rawCsv, args, mixed>>
        /\ pc # "off" /\ Loaded
    BY <1>5, LogsOfRows
  <2>2. ASSUME NEW rs \in Seq(RunRow), Key \notin Keys(rs), BackedRows(rs)
        PROVE  \A i \in DOMAIN rs : LET log == L'[<<"run", rs[i].key>>] IN log.run = rs[i].run /\ Acceptable(log)
    <3> SUFFICES ASSUME NEW i \in DOMAIN rs
                 PROVE  L'[<<"run", rs[i].key>>] = L[<<"run", rs[i].key>>]
      BY <2>2 DEF BackedRows
    <3>1. rs[i].key \in Keys(rs) /\ rs[i].key \in Points
      BY RowKeys
    <3>2. QED
      BY <2>1, <2>2, <3>1
  <2>3. ~mixed => Key \notin Keys(rawCsv.rows)
    BY <2>1 DEF RowsInv
  <2>4. rows \in Seq(RunRow) /\ rawCsv.rows \in Seq(RunRow)
    BY DEF TypeInv
  <2>5. Clean' => BackedRows(rows)'
    <3>1. SUFFICES ASSUME Clean
                   PROVE  BackedRows(rows)'
      BY <2>1 DEF Clean
    <3>2. \A i \in DOMAIN rows : LET log == L'[<<"run", rows[i].key>>] IN log.run = rows[i].run /\ Acceptable(log)
      BY <1>0, <2>1, <2>2, <2>4, <3>1
    <3>3. QED
      BY <1>a, <2>1, <3>2 DEF BackedRows
  <2>6. ~mixed' => BackedRows(rawCsv.rows)'
    <3>1. SUFFICES ASSUME ~mixed
                   PROVE  BackedRows(rawCsv.rows)'
      BY <2>1
    <3>2. \A i \in DOMAIN rawCsv.rows :
            LET log == L'[<<"run", rawCsv.rows[i].key>>] IN log.run = rawCsv.rows[i].run /\ Acceptable(log)
      BY <1>0, <2>2, <2>3, <2>4, <3>1
    <3>3. QED
      BY <1>a, <2>1, <3>2 DEF BackedRows
  <2>7. QED
    BY <2>5, <2>6
<1>6. CASE Rows
  <2>1. /\ pc # "off" /\ UNCHANGED <<rawCsv, logs, mixed, args>>
        /\ Acceptable(L[<<"run", Key>>])
    BY <1>6 DEF Rows
  <2>2. \A i \in DOMAIN rows' : \/ i \in DOMAIN rows /\ rows'[i] = rows[i]
                                \/ rows'[i] = [key |-> Key, run |-> L[<<"run", Key>>].run] /\ i = Len(rows) + 1
    BY <1>6, RowAdded
  <2>3. BackedRows(rows) => BackedRows(rows')
    <3> SUFFICES ASSUME BackedRows(rows), NEW i \in DOMAIN rows'
                 PROVE  LET log == L[<<"run", rows'[i].key>>] IN log.run = rows'[i].run /\ Acceptable(log)
      BY DEF BackedRows
    <3>1. CASE i \in DOMAIN rows /\ rows'[i] = rows[i]
      BY <3>1 DEF BackedRows
    <3>2. CASE rows'[i] = [key |-> Key, run |-> L[<<"run", Key>>].run]
      BY <2>1, <3>2
    <3>3. QED
      BY <2>2, <3>1, <3>2
  <2>4. QED
    BY <1>0, <1>b, <2>1, <2>3 DEF Clean
<1>7. CASE OpensRaw
  <2>1. pc # "off" /\ rawCsv'.rows = <<>> /\ UNCHANGED <<rows, logs, mixed, args>>
    BY <1>7 DEF OpensRaw, OpenRaw
  <2>2. QED
    BY <1>0, <1>b, <2>1, NoRowsBacked DEF Clean
<1>8. CASE ClosesRaw
  <2>1. pc # "off" /\ rawCsv'.rows = rows /\ UNCHANGED <<rows, logs, mixed, args>>
    BY <1>8 DEF ClosesRaw, CloseRaw
  <2>2. QED
    BY <1>0, <1>b, <2>1 DEF Clean
<1>9. CASE Report
  <2>1. /\ pc = "report" /\ pc' = "off" /\ mixed' = (mixed /\ args.resume)
        /\ UNCHANGED <<logs, rawCsv>> /\ rawCsv.rows = rows
    BY <1>9 DEF Report, Exit, CoverInv
  <2>2. ~mixed' => Clean
    BY <2>1 DEF Clean
  <2>3. QED
    BY <1>0, <1>b, <2>1, <2>2 DEF Clean
<1>10. QED
  BY <1>1, <1>2, <1>3, <1>4, <1>5, <1>6, <1>7, <1>8, <1>9 DEF Steps

\* The rows are complete as well.
LEMMA RowsStep ==
  ASSUME TypeInv, PhaseInv, RunInv, CoverInv, RecordsInv, OwnRecords, RowsInv,
         Steps, UNCHANGED experiment
  PROVE  RowsInv'
<1> USE DEF files, bounds
<1>0. /\ Clean' => BackedRows(rows)'
      /\ ~mixed' => BackedRows(rawCsv.rows)'
  BY BackedStep
<1>k. Keys(rawCsv.rows)' = Keys(rawCsv'.rows) /\ Keys(rows)' = Keys(rows') /\ ToSet(targets)' = ToSet(targets')
  BY DEF Keys, ToSet
<1>1. ~mixed' /\ Loaded' => Keys(rawCsv'.rows) \cap ToSet(targets') \subseteq Keys(rows')
  <2>1. CASE Starts \/ Ends \/ Report \/ ToolsFound \/ Builds \/ Built
    BY <2>1 DEF Starts, StartSession, Ends, Report, Exit, ToolsFound, Builds, Built, Loaded, Commanding
  <2>2. CASE Loads
    BY <2>2, LoadedAll DEF Loads
  <2>3. CASE \/ Skips \/ Opens \/ PrintResults \/ Closes \/ OpenManifest \/ CloseManifest \/ Fails \/ Finishes
    <3>1. UNCHANGED <<rawCsv, targets, rows, mixed>>
      BY <2>3 DEF Skips, Opens, PrintResults, memory, Closes, CloseLog, OpenManifest, CloseManifest, Fails, Finishes
    <3>2. Loaded' => Loaded
      <4>1. CASE Opens \/ PrintResults \/ Closes
        BY <4>1, LogsOfRows
      <4>2. QED
        BY <2>3, <4>1 DEF Skips, OpenManifest, CloseManifest, Fails, Finishes, Loaded, Commanding
    <3>3. QED
      BY <3>1, <3>2 DEF RowsInv
  <2>4. CASE Rows
    <3>1. UNCHANGED <<rawCsv, targets, mixed>> /\ Loaded
      BY <2>4 DEF Rows, Loaded, Commanding
    <3>2. Keys(rows') = Keys(rows) \cup {Key}
      BY <1>k, <2>4, RowAdded
    <3>3. QED
      BY <3>1, <3>2 DEF RowsInv
  <2>5. CASE OpensRaw
    BY <2>5, NoKeys DEF OpensRaw, OpenRaw
  <2>6. CASE ClosesRaw
    BY <2>6 DEF ClosesRaw, CloseRaw
  <2>7. QED
    BY <2>1, <2>2, <2>3, <2>4, <2>5, <2>6 DEF Steps
<1>2. ~mixed' /\ pc' # "off" /\ ~Loaded' /\ ~args'.resume => rawCsv'.rows = <<>>
  <2>1. CASE Starts
    <3>1. PICK a \in CommandLines, keys \in Seq(Points) : StartSession(a, keys)
      BY <2>1 DEF Starts
    <3>2. UNCHANGED rawCsv /\ args' = a
      BY <3>1 DEF StartSession
    <3>3. pc' # "off" => mixed' = (mixed \/ (sessions > 0 /\ ~a.resume))
      BY <3>1 DEF StartSession, Exit
    <3>4. ~mixed' /\ pc' # "off" /\ ~args'.resume => sessions = 0
      <4>1. sessions \in Nat /\ args'.resume = a.resume
        BY <3>2 DEF TypeInv
      <4>2. ~mixed' /\ pc' # "off" /\ ~a.resume => ~(sessions > 0)
        BY <3>3
      <4>3. QED
        BY <4>1, <4>2
    <3>5. QED
      BY <3>2, <3>4 DEF PhaseInv
  <2>2. CASE Ends \/ Report
    BY <2>2 DEF Ends, Report, Exit
  <2>3. CASE ToolsFound \/ Builds \/ Built \/ OpenManifest \/ CloseManifest
    <3>1. UNCHANGED <<rawCsv, mixed, args>> /\ pc # "off" /\ (~Loaded' => ~Loaded)
      BY <2>3 DEF ToolsFound, Builds, Built, OpenManifest, CloseManifest, Loaded, Commanding
    <3>2. QED
      BY <3>1 DEF RowsInv
  <2>4. CASE Opens \/ PrintResults \/ Closes
    BY <2>4, LogsOfRows
  <2>5. CASE Loads \/ Skips \/ Rows \/ Fails \/ Finishes \/ OpensRaw \/ ClosesRaw
    BY <2>5 DEF Loads, Skips, Rows, Fails, Finishes, OpensRaw, OpenRaw, ClosesRaw, CloseRaw, Loaded, Commanding
  <2>6. QED
    BY <2>1, <2>2, <2>3, <2>4, <2>5 DEF Steps
<1>3. QED
  BY <1>0, <1>1, <1>2, <1>k DEF RowsInv

----------------------------------------------------------------------------
(* What the programs start with.                                           *)

\* The greatest of the indices that are asked for.
LEMMA GreatestIndex ==
  ASSUME NEW n \in Nat, NEW S \in SUBSET (1..n), S # {}
  PROVE  Max(S) \in S
<1> DEFINE T == {n - i : i \in S}
<1>1. T \in SUBSET Nat /\ T # {}
  <2>1. \A i \in S : n - i \in Nat
    OBVIOUS
  <2>2. T \subseteq Nat
    BY <2>1
  <2>3. T # {}
    <3>1. PICK i \in S : TRUE
      OBVIOUS
    <3>2. n - i \in T
      OBVIOUS
    <3>3. QED
      BY <3>2
  <2>4. QED
    BY <2>2, <2>3
<1> HIDE DEF T
<1>2. PICK x \in T : \A y \in T : x <= y
  BY <1>1, LeastNatural
<1> USE DEF T
<1>3. PICK i \in S : x = n - i
  OBVIOUS
<1>4. \A j \in S : i >= j
  <2> SUFFICES ASSUME NEW j \in S
               PROVE  i >= j
    OBVIOUS
  <2>1. n - j \in T
    OBVIOUS
  <2>2. n - i <= n - j
    BY <1>2, <1>3, <2>1
  <2>3. i \in 1..n /\ j \in 1..n
    OBVIOUS
  <2>4. QED
    BY <2>2, <2>3
<1>5. QED
  BY <1>3, <1>4 DEF Max

\* The rows of the targets in S, in the order of the targets.
RowsOf(S) ==
    LET done == Among(targets, S)
    IN [i \in DOMAIN done |-> [key |-> done[i], run |-> Log(<<"run", done[i]>>).run]]

\* One row for each target that is in S, of the last run that its log holds.
LEMMA RowsOfFacts ==
  ASSUME TypeInv, NEW S
  PROVE  /\ RowsOf(S) \in Seq(RunRow) /\ OneRowEach(RowsOf(S))
         /\ Keys(RowsOf(S)) = ToSet(targets) \cap S
         /\ \A i \in DOMAIN RowsOf(S) : RowsOf(S)[i].run = L[<<"run", RowsOf(S)[i].key>>].run
<1> DEFINE done == Among(targets, S)
           n == Len(done)
           rs == RowsOf(S)
<1>1. done \in Seq(Points) /\ ToSet(done) = ToSet(targets) \cap S /\ IsInjective(done)
  BY AmongFacts DEF TypeInv
<1>2. n \in Nat /\ DOMAIN done = 1..n /\ \A i \in 1..n : done[i] \in Points
  BY <1>1, LenProperties
<1>3. rs = [i \in 1..n |-> [key |-> done[i], run |-> Log(<<"run", done[i]>>).run]]
  BY <1>2 DEF RowsOf
<1>4. ASSUME NEW i \in 1..n
      PROVE  rs[i] \in RunRow /\ rs[i].key = done[i] /\ rs[i].run = L[<<"run", done[i]>>].run
  <2>1. done[i] \in Points /\ <<"run", done[i]>> \in Names
    BY <1>2 DEF Names
  <2>2. Log(<<"run", done[i]>>) = L[<<"run", done[i]>>] /\ L[<<"run", done[i]>>] \in LogFile
    BY <2>1, LogFacts
  <2>3. rs[i] = [key |-> done[i], run |-> L[<<"run", done[i]>>].run]
    BY <1>3, <2>2
  <2>4. L[<<"run", done[i]>>].run \in Nat
    BY <2>2 DEF LogFile
  <2>5. QED
    BY <2>1, <2>3, <2>4 DEF RunRow
<1> HIDE DEF rs, done, n
<1>5. rs \in [1..n -> RunRow]
  BY <1>3, <1>4
<1>6. rs \in Seq(RunRow) /\ DOMAIN rs = 1..n
  BY <1>2, <1>5, FunctionIsSeq
<1>7. OneRowEach(rs)
  BY <1>1, <1>2, <1>4, <1>6 DEF OneRowEach, IsInjective
<1>8. Keys(rs) = ToSet(done)
  BY <1>2, <1>4, <1>6 DEF Keys, ToSet
<1>9. QED
  BY <1>1, <1>4, <1>6, <1>7, <1>8 DEF rs

\* Of the rows of a sequence, the last one of each target.
LastRows(rs) ==
    LET done == Among(targets, Keys(rs))
    IN [i \in DOMAIN done |-> rs[Max({j \in DOMAIN rs : rs[j].key = done[i]})]]

\* One row for each target that has rows, the last of them.
LEMMA LastRowsFacts ==
  ASSUME TypeInv, NEW rs \in Seq(RunRow)
  PROVE  /\ LastRows(rs) \in Seq(RunRow) /\ OneRowEach(LastRows(rs))
         /\ Keys(LastRows(rs)) = ToSet(targets) \cap Keys(rs)
         /\ \A i \in DOMAIN LastRows(rs) : LastRows(rs)[i] \in ToSet(rs)
<1> DEFINE done == Among(targets, Keys(rs))
           n == Len(done)
           ls == LastRows(rs)
           at(i) == {j \in DOMAIN rs : rs[j].key = done[i]}
<1>1. done \in Seq(Points) /\ ToSet(done) = ToSet(targets) \cap Keys(rs) /\ IsInjective(done)
  BY AmongFacts DEF TypeInv
<1>2. n \in Nat /\ DOMAIN done = 1..n
  BY <1>1, LenProperties
<1>3. ls = [i \in 1..n |-> rs[Max(at(i))]]
  BY <1>2 DEF LastRows
<1>4. ASSUME NEW i \in 1..n
      PROVE  ls[i] \in RunRow /\ ls[i].key = done[i] /\ ls[i] \in ToSet(rs)
  <2>1. done[i] \in Keys(rs)
    BY <1>1, <1>2 DEF ToSet
  <2>2. Len(rs) \in Nat /\ DOMAIN rs = 1..Len(rs) /\ \A j \in 1..Len(rs) : rs[j] \in RunRow
    BY LenProperties
  <2>3. at(i) # {} /\ at(i) \in SUBSET (1..Len(rs))
    BY <2>1, <2>2 DEF Keys
  <2>4. Max(at(i)) \in at(i)
    <3> HIDE DEF at
    <3>1. QED
      BY <2>2, <2>3, GreatestIndex
  <2>5. ls[i] = rs[Max(at(i))]
    BY <1>3
  <2> DEFINE g == Max(at(i))
  <2>6. g \in DOMAIN rs /\ rs[g].key = done[i] /\ ls[i] = rs[g]
    BY <2>4, <2>5
  <2> HIDE DEF g, ls, done
  <2>7. QED
    BY <2>2, <2>6 DEF ToSet
<1> HIDE DEF ls, done, n, at
<1>5. ls \in [1..n -> RunRow]
  BY <1>3, <1>4
<1>6. ls \in Seq(RunRow) /\ DOMAIN ls = 1..n
  BY <1>2, <1>5, SeqDef
<1>7. OneRowEach(ls)
  BY <1>1, <1>2, <1>4, <1>6 DEF OneRowEach, IsInjective
<1>8. Keys(ls) = ToSet(done)
  BY <1>2, <1>4, <1>6 DEF Keys, ToSet
<1>9. QED
  BY <1>1, <1>4, <1>6, <1>7, <1>8 DEF ls

\* The points of two lists of rows.
LEMMA KeysOfBoth ==
  ASSUME NEW rs \in Seq(RunRow), NEW more \in Seq(RunRow)
  PROVE  /\ rs \o more \in Seq(RunRow) /\ Keys(rs \o more) = Keys(rs) \cup Keys(more)
         /\ ToSet(rs \o more) = ToSet(rs) \cup ToSet(more)
<1>1. \A q \in Seq(RunRow) : Keys(q) = {r.key : r \in ToSet(q)}
  BY DEF Keys, ToSet
<1>2. rs \o more \in Seq(RunRow) /\ ToSet(rs \o more) = ToSet(rs) \cup ToSet(more)
  BY ConcatFacts
<1>3. {r.key : r \in ToSet(rs \o more)} = {r.key : r \in ToSet(rs)} \cup {r.key : r \in ToSet(more)}
  BY <1>2
<1>4. QED
  BY <1>1, <1>2, <1>3

\* A log that a record names.
LEMMA LogOfRecord ==
  ASSUME TypeInv, RecordsInv, NEW rec \in Usable(records)
  PROVE  /\ rec.log = <<"run", rec.log[2]>> /\ rec.log \in Names /\ rec.log[2] \in Points
         /\ L[rec.log] = Log(rec.log)
<1>1. rec.log \in {"run"} \X Points
  BY DEF RecordsInv
<1>2. QED
  BY <1>1, LogFacts DEF Names

----------------------------------------------------------------------------
(* Each step of each program has one of the shapes.                        *)

\* A session stopped from outside ends.
LEMMA Stops ==
  ASSUME NEW i \in BOOLEAN, Stop(i)
  PROVE  Ends
<1> DEFINE how == IF i THEN "interrupted" ELSE "killed"
<1>1. /\ pc # "off" /\ Exit(how) /\ how \in {"error", "killed", "interrupted"}
      /\ temps' = IF i /\ InRun /\ ~args.keep THEN temps \ {Temp} ELSE temps
      /\ UNCHANGED <<logs, commands, failedCsv, tools, args, targets, sessions, mixed>>
  BY DEF Stop
<1>2. temps' \subseteq temps /\ (InRun /\ how # "killed" /\ ~args.keep => temps' = temps \ {Temp})
  BY <1>1
<1>3. \/ rawCsv' = rawCsv
      \/ \E n \in 0..Len(rows) : /\ pc \in {"raw_open", "progress_open"}
                                 /\ rawCsv' = [rawCsv EXCEPT !.rows = SubSeq(rows, 1, n)]
  BY DEF Stop
<1>4. QED
  BY <1>1, <1>2, <1>3 DEF Ends

\* The record of the run that has just ended tells how its log ends.
LEMMA HandledRun ==
  ASSUME TypeInv, RunInv, pc = "handle", stage = "run"
  PROVE  /\ <<"run", Key>> \in Names /\ L[<<"run", Key>>] = Log(<<"run", Key>>)
         /\ Last(records).ok <=> L[<<"run", Key>>].rc = "ok"
<1> DEFINE r == [log |-> <<stage, Key>>, run |-> L[<<stage, Key>>].run, ok |-> L[<<stage, Key>>].rc = "ok"]
<1>1. pos <= Len(targets) /\ Last(records) = r
  BY DEF RunInv, InCommand, Commanding
<1>2. r.ok <=> L[<<"run", Key>>].rc = "ok"
  OBVIOUS
<1> HIDE DEF r
<1>3. <<"run", Key>> \in Names /\ L[<<"run", Key>>] = Log(<<"run", Key>>)
  BY <1>1, KeyFacts, LogFacts DEF Names
<1>4. QED
  BY <1>1, <1>2, <1>3

\* The targets of experiment three.
LEMMA ParsecTargets ==
  ASSUME NEW a
  PROVE  Parsec!target_keys(a) = AllTargets(a)
<1>1. \A s : Parsec!FlattenSeq(s) = FlattenSeq(s)
  BY DEF Parsec!FlattenSeq, FlattenSeq
<1>2. \A s, S : Parsec!Among(s, S) = Among(s, S)
  BY <1>1 DEF Parsec!Among, Among, Parsec!ForEach, ForEach
<1>3. \A lock, threads : Parsec!runnable_threads_for_lock(lock, threads) = runnable_threads_for_lock(lock, threads)
  BY <1>2 DEF Parsec!runnable_threads_for_lock, runnable_threads_for_lock,
    Parsec!limit_to_single_oversubscribed_thread_count, limit_to_single_oversubscribed_thread_count,
    Parsec!first_oversubscribed_thread_count, first_oversubscribed_thread_count, Parsec!Min, Min,
    Parsec!SINGLE_OVERSUBSCRIBED_LOCKS, SINGLE_OVERSUBSCRIBED_LOCKS, Parsec!ToSet, ToSet
<1>4. ASSUME NEW b, NEW locks, NEW threads, NEW repeats
      PROVE  Parsec!KeysOf(b, locks, threads, repeats) = KeysOf(b, locks, threads, repeats)
  BY <1>1, <1>3 DEF Parsec!KeysOf, KeysOf, Parsec!ForEach, ForEach
<1>5. QED
  BY <1>1, <1>4 DEF Parsec!target_keys, AllTargets, Parsec!ForEach, ForEach

\* Sessions of experiment three start as sessions do.
LEMMA ParsecStarts ==
  ASSUME experiment = "three", Parsec!Start
  PROVE  Starts
<1>1. PICK a \in ParsecSessions : Parsec!StartSession(a, Parsec!target_keys(a))
  BY DEF Parsec!Start
<1>2. Parsec!target_keys(a) = AllTargets(a)
  BY ParsecTargets
<1>3. StartSession(a, AllTargets(a))
  BY <1>1, <1>2 DEF Parsec!StartSession, StartSession, Parsec!ensure_output_root, ensure_output_root,
    Parsec!Exit, Exit, Parsec!load_records, load_records, Parsec!files, files
<1>4. a \in CommandLines
  BY DEF CommandLines
<1>5. Full(AllTargets(a))
  BY <1>4, TargetsFacts
<1>6. QED
  BY <1>3, <1>4, <1>5 DEF Starts, Full

\* Each step of experiment three has one of the shapes.
LEMMA ParsecSteps ==
  ASSUME TypeInv, PhaseInv, RunInv, RecordsInv, experiment = "three", Parsec!Step, UNCHANGED experiment
  PROVE  Steps
<1> USE DEF files, bounds, Parsec!files, Parsec!bounds, Parsec!Key, Key
<1>0. pc = "ensure" \/ pc = "load" => stage = "none"
  BY DEF PhaseInv
<1>1. CASE Parsec!EnsureTools
  <2>1. \/ Parsec!Exit("error") /\ UNCHANGED <<args, targets, files, bounds>>
        \/ Parsec!Ensure(Parsec!FirstMissing(Parsec!Required))
    BY <1>1 DEF Parsec!EnsureTools
  <2>2. pc = "ensure" /\ ~InRun
    BY <1>0, <1>1 DEF Parsec!EnsureTools, InRun
  <2>3. CASE Parsec!Exit("error") /\ UNCHANGED <<args, targets, files, bounds>>
    BY <2>2, <2>3 DEF Parsec!Exit, Exit, Ends, Steps
  <2>4. CASE Parsec!Ensure(Parsec!FirstMissing(Parsec!Required))
    <3>1. \/ pc' = "load" /\ UNCHANGED <<args, targets, pos, stage, records, rows, failures, status, files, bounds>>
          \/ Parsec!Exit("error") /\ UNCHANGED <<args, targets, files, bounds>>
          \/ Parsec!Build(Parsec!FirstMissing(Parsec!Required))
      BY <2>4 DEF Parsec!Ensure
    <3>2. CASE pc' = "load" /\ UNCHANGED <<args, targets, pos, stage, records, rows, failures, status, files, bounds>>
      BY <2>2, <3>2 DEF ToolsFound, Steps
    <3>3. CASE Parsec!Build(Parsec!FirstMissing(Parsec!Required))
      BY <2>2, <3>3 DEF Parsec!Build, Builds, Steps
    <3>4. QED
      BY <2>3, <3>1, <3>2, <3>3
  <2>5. QED
    BY <2>1, <2>3, <2>4
<1>2. CASE Parsec!LoadExisting
  <2>1. pc = "load" /\ ~InRun
    BY <1>0, <1>2 DEF Parsec!LoadExisting, InRun
  <2>2. CASE Parsec!Exit("error") /\ UNCHANGED <<args, targets, files, bounds>>
    BY <2>1, <2>2 DEF Parsec!Exit, Exit, Ends, Steps
  <2>3. CASE /\ ~(args.resume /\ \E i \in DOMAIN records :
                    Parsec!row_from_completed_record(records[i]) /\ ~Parsec!Log(records[i].log).printed)
             /\ pc' = "next"
             /\ rows' = IF args.resume THEN Parsec!completed_rows_from_records ELSE <<>>
             /\ UNCHANGED <<args, targets, pos, stage, records, failures, status, files, bounds>>
    <3>1. CASE ~args.resume
      <4>1. rows' = <<>> /\ rows' \in Seq(RunRow)
        BY <2>3, <3>1, EmptySeq
      <4>2. QED
        BY <2>1, <2>3, <3>1, <4>1, OneRowEachInitially DEF Loads, Steps
    <3>2. CASE args.resume
      <4> DEFINE S == {rec.log[2] : rec \in Usable(records)}
                 T == {records[i].log[2] : i \in {j \in DOMAIN records : Parsec!row_from_completed_record(records[j])}}
      <4>1. S = T
        BY DEF Usable, ToSet, Parsec!row_from_completed_record
      <4>2. Parsec!completed_rows_from_records = RowsOf(T)
        BY DEF Parsec!completed_rows_from_records, RowsOf, Parsec!Among, Among, Parsec!ForEach, ForEach,
               Parsec!FlattenSeq, FlattenSeq, Parsec!Log, Log, Parsec!NoLog, NoLog
      <4>3. rows' = RowsOf(S)
        BY <2>3, <3>2, <4>1, <4>2
      <4>4. \A rec \in Usable(records) : L[rec.log].printed
        <5> SUFFICES ASSUME NEW rec \in Usable(records)
                     PROVE  L[rec.log].printed
          OBVIOUS
        <5>1. PICK i \in DOMAIN records : rec = records[i] /\ rec.ok /\ rec.log[1] = "run"
          BY DEF Usable, ToSet
        <5>2. Parsec!Log(rec.log).printed
          BY <2>3, <3>2, <5>1 DEF Parsec!row_from_completed_record
        <5>3. QED
          BY <5>2, LogOfRecord DEF Parsec!Log, Log, Parsec!NoLog, NoLog
      <4> HIDE DEF S
      <4>5. /\ RowsOf(S) \in Seq(RunRow) /\ OneRowEach(RowsOf(S))
            /\ Keys(RowsOf(S)) = ToSet(targets) \cap S
            /\ \A i \in DOMAIN RowsOf(S) : RowsOf(S)[i].run = L[<<"run", RowsOf(S)[i].key>>].run
        BY RowsOfFacts
      <4>6. FromRecords
        BY <4>3, <4>4, <4>5 DEF FromRecords, S
      <4>7. QED
        BY <2>1, <2>3, <3>2, <4>3, <4>5, <4>6 DEF Loads, Steps
    <3>3. QED
      BY <3>1, <3>2
  <2>4. QED
    BY <1>2, <2>2, <2>3 DEF Parsec!LoadExisting
<1>3. CASE Parsec!SkipCompleted
  BY <1>3 DEF Parsec!SkipCompleted, Skips, Steps, Parsec!Keys, Keys
<1>4. CASE Parsec!StartRun
  <2>1. /\ pc = "next" /\ pos <= Len(targets) /\ Key \notin Keys(rows)
        /\ temps' = temps \cup {Temp} /\ OpenLog("run")
        /\ UNCHANGED <<args, targets, pos, records, rows, failures, status, commands, rawCsv, failedCsv, tools, bounds>>
    BY <1>4 DEF Parsec!StartRun, Parsec!Keys, Keys, Parsec!Temp, Temp, Parsec!OpenLog, OpenLog, Parsec!Log, Log,
        Parsec!NoLog, NoLog
  <2>2. QED
    BY <2>1 DEF Opens, Steps
<1>5. CASE Parsec!EndRun
  <2>1. \E rc \in {"ok", "bad", "timeout"} : CloseLog(rc)
    BY <1>5 DEF Parsec!EndRun, Parsec!CloseLog, CloseLog, Parsec!Log, Log, Parsec!NoLog, NoLog
  <2>2. QED
    BY <2>1 DEF Closes, Steps
<1>6. CASE Parsec!AppendRow
  <2>1. /\ pc = "handle" /\ stage = "run" /\ Last(records).ok /\ temps' = temps \ {Temp}
        /\ UNCHANGED <<logs, commands, rawCsv, failedCsv, tools, bounds>>
    BY <1>6 DEF Parsec!AppendRow, Parsec!Temp, Temp, Parsec!Last, Last
  <2>2. <<"run", Key>> \in Names /\ L[<<"run", Key>>] = Log(<<"run", Key>>) /\ L[<<"run", Key>>].rc = "ok"
    BY <2>1, HandledRun
  <2>3. CASE /\ Parsec!Log(<<"run", Key>>).printed
             /\ rows' = Append(rows, [key |-> Key, run |-> Parsec!Log(<<"run", Key>>).run])
             /\ pos' = pos + 1 /\ pc' = "next"
             /\ UNCHANGED <<args, targets, stage, records, failures, status>>
    <3>1. Parsec!Log(<<"run", Key>>) = L[<<"run", Key>>]
      BY <2>2 DEF Parsec!Log, Log, Parsec!NoLog, NoLog
    <3>2. Acceptable(L[<<"run", Key>>])
      BY <2>2, <2>3, <3>1 DEF Acceptable
    <3>3. QED
      BY <2>1, <2>2, <2>3, <3>1, <3>2 DEF Rows, Cleaned, Steps
  <2>4. CASE Parsec!Exit("error") /\ UNCHANGED <<args, targets>>
    BY <2>1, <2>4 DEF Parsec!Exit, Exit, Ends, Steps
  <2>5. QED
    BY <1>6, <2>3, <2>4 DEF Parsec!AppendRow
<1>7. CASE Parsec!RecordFailure
  BY <1>7 DEF Parsec!RecordFailure, Parsec!append_command_failure, Fails, Cleaned, Parsec!Temp, Temp,
      Parsec!Last, Last, Steps
<1>8. CASE Parsec!RunsOver
  BY <1>8 DEF Parsec!RunsOver, Finishes, Steps
<1>9. CASE Parsec!write_raw_csv
  BY <1>9 DEF Parsec!write_raw_csv, Parsec!OpenRaw, Parsec!CloseRaw, OpensRaw, ClosesRaw, OpenRaw, CloseRaw, Steps
<1>10. CASE Parsec!Report
  BY <1>10 DEF Parsec!Report, Report, Parsec!Exit, Exit, Steps
<1>11. CASE Parsec!LoggerStep
  <2>1. CASE Parsec!PrintResults \/ Parsec!OpenManifest \/ Parsec!CloseManifest
    BY <2>1 DEF Parsec!PrintResults, PrintResults, Parsec!OpenManifest, OpenManifest, Parsec!CloseManifest,
        CloseManifest, Parsec!Log, Log, Parsec!NoLog, NoLog, Parsec!memory, memory, Steps
  <2>2. CASE Parsec!AfterBuild
    <3>1. pc = "handle" /\ stage = "build" /\ ~InRun
      BY <2>2 DEF Parsec!AfterBuild, InRun
    <3>2. CASE /\ pc' = "ensure" /\ stage' = "none"
               /\ UNCHANGED <<args, targets, pos, records, rows, failures, status, files, bounds>>
      BY <3>1, <3>2 DEF Built, Steps
    <3>3. CASE Parsec!Exit("error") /\ UNCHANGED <<args, targets, files, bounds>>
      BY <3>1, <3>3 DEF Parsec!Exit, Exit, Ends, Steps
    <3>4. QED
      BY <2>2, <3>2, <3>3 DEF Parsec!AfterBuild
  <2>3. QED
    BY <1>11, <2>1, <2>2 DEF Parsec!LoggerStep
<1>12. QED
  BY <1>1, <1>2, <1>3, <1>4, <1>5, <1>6, <1>7, <1>8, <1>9, <1>10, <1>11 DEF Parsec!Step

\* The targets of experiment six.
LEMMA HookTargets ==
  ASSUME NEW a
  PROVE  Hook!target_keys(a) = AllTargets(a)
<1>1. \A s : Hook!FlattenSeq(s) = FlattenSeq(s)
  BY DEF Hook!FlattenSeq, FlattenSeq
<1>2. \A s, S : Hook!Among(s, S) = Among(s, S)
  BY <1>1 DEF Hook!Among, Among, Hook!ForEach, ForEach
<1>3. \A lock, threads : Hook!runnable_threads_for_lock(lock, threads) = runnable_threads_for_lock(lock, threads)
  BY <1>2 DEF Hook!runnable_threads_for_lock, runnable_threads_for_lock,
    Hook!limit_to_single_oversubscribed_thread_count, limit_to_single_oversubscribed_thread_count,
    Hook!first_oversubscribed_thread_count, first_oversubscribed_thread_count, Hook!Min, Min,
    Hook!SINGLE_OVERSUBSCRIBED_LOCKS, SINGLE_OVERSUBSCRIBED_LOCKS, Hook!ToSet, ToSet
<1>4. ASSUME NEW b, NEW locks, NEW threads, NEW repeats
      PROVE  Hook!KeysOf(b, locks, threads, repeats) = KeysOf(b, locks, threads, repeats)
  BY <1>1, <1>3 DEF Hook!KeysOf, KeysOf, Hook!ForEach, ForEach
<1>5. QED
  BY <1>1, <1>4 DEF Hook!target_keys, AllTargets, Hook!ForEach, ForEach

\* Sessions of experiment six start as sessions do.
LEMMA HookStarts ==
  ASSUME experiment = "six", Hook!Start
  PROVE  Starts
<1>1. PICK a \in HookSessions : Hook!StartSession(a, Hook!target_keys(a))
  BY DEF Hook!Start
<1>2. Hook!target_keys(a) = AllTargets(a)
  BY HookTargets
<1>3. StartSession(a, AllTargets(a))
  BY <1>1, <1>2 DEF Hook!StartSession, StartSession, Hook!ensure_output_root, ensure_output_root,
    Hook!Exit, Exit, Hook!load_records, load_records, Hook!files, files
<1>4. a \in CommandLines
  BY DEF CommandLines
<1>5. Full(AllTargets(a))
  BY <1>4, TargetsFacts
<1>6. QED
  BY <1>3, <1>4, <1>5 DEF Starts, Full

\* Each step of experiment six has one of the shapes.
LEMMA HookSteps ==
  ASSUME TypeInv, PhaseInv, RunInv, RecordsInv, experiment = "six", Hook!Step, UNCHANGED experiment
  PROVE  Steps
<1> USE DEF files, bounds, Hook!files, Hook!bounds, Hook!Key, Key
<1>0. pc = "ensure" \/ pc = "load" => stage = "none"
  BY DEF PhaseInv
<1>1. CASE Hook!EnsureTools
  <2>1. \/ Hook!Exit("error") /\ UNCHANGED <<args, targets, files, bounds>>
        \/ \E next : Hook!Ensure(next)
    BY <1>1 DEF Hook!EnsureTools
  <2>2. pc = "ensure" /\ ~InRun
    BY <1>0, <1>1 DEF Hook!EnsureTools, InRun
  <2>3. CASE Hook!Exit("error") /\ UNCHANGED <<args, targets, files, bounds>>
    BY <2>2, <2>3 DEF Hook!Exit, Exit, Ends, Steps
  <2>4. ASSUME NEW next, Hook!Ensure(next)
        PROVE  Steps
    <3>1. \/ pc' = "load" /\ UNCHANGED <<args, targets, pos, stage, records, rows, failures, status, files, bounds>>
          \/ Hook!Exit("error") /\ UNCHANGED <<args, targets, files, bounds>>
          \/ Hook!Build(next)
      BY <2>4 DEF Hook!Ensure
    <3>2. CASE pc' = "load" /\ UNCHANGED <<args, targets, pos, stage, records, rows, failures, status, files, bounds>>
      BY <2>2, <3>2 DEF ToolsFound, Steps
    <3>3. CASE Hook!Build(next)
      BY <2>2, <3>3 DEF Hook!Build, Builds, Steps
    <3>4. QED
      BY <2>3, <3>1, <3>2, <3>3
  <2>5. QED
    BY <2>1, <2>3, <2>4
<1>2. CASE Hook!LoadExisting
  <2>1. pc = "load" /\ ~InRun
    BY <1>0, <1>2 DEF Hook!LoadExisting, InRun
  <2>2. /\ pc' = "next"
        /\ rows' = IF args.resume THEN Hook!completed_rows_from_records ELSE <<>>
        /\ UNCHANGED <<args, targets, pos, stage, records, failures, status, files, bounds>>
    BY <1>2 DEF Hook!LoadExisting
  <2>3. CASE ~args.resume
    <3>1. rows' = <<>> /\ rows' \in Seq(RunRow)
      BY <2>2, <2>3, EmptySeq
    <3>2. QED
      BY <2>1, <2>2, <2>3, <3>1, OneRowEachInitially DEF Loads, Steps
  <2>4. CASE args.resume
    <3> DEFINE S == {rec.log[2] : rec \in Usable(records)}
               T == {records[i].log[2] : i \in {j \in DOMAIN records : Hook!row_from_completed_record(records[j])}}
    <3>1. S = T
      BY DEF Usable, ToSet, Hook!row_from_completed_record
    <3>2. Hook!completed_rows_from_records = RowsOf(T)
      BY DEF Hook!completed_rows_from_records, RowsOf, Hook!Among, Among, Hook!ForEach, ForEach,
             Hook!FlattenSeq, FlattenSeq, Hook!Log, Log, Hook!NoLog, NoLog
    <3>3. rows' = RowsOf(S)
      BY <2>2, <2>4, <3>1, <3>2
    <3> HIDE DEF S
    <3>4. /\ RowsOf(S) \in Seq(RunRow) /\ OneRowEach(RowsOf(S))
          /\ Keys(RowsOf(S)) = ToSet(targets) \cap S
          /\ \A i \in DOMAIN RowsOf(S) : RowsOf(S)[i].run = L[<<"run", RowsOf(S)[i].key>>].run
      BY RowsOfFacts
    <3>5. FromRecords
      BY <3>3, <3>4 DEF FromRecords, S
    <3>6. QED
      BY <2>1, <2>2, <2>4, <3>3, <3>4, <3>5 DEF Loads, Steps
  <2>5. QED
    BY <2>3, <2>4
<1>3. CASE Hook!SkipCompleted
  BY <1>3 DEF Hook!SkipCompleted, Skips, Steps, Hook!Keys, Keys
<1>4. CASE Hook!StartRun
  <2>1. /\ pc = "next" /\ pos <= Len(targets) /\ Key \notin Keys(rows)
        /\ temps' = temps \cup {Temp} /\ OpenLog("run")
        /\ UNCHANGED <<args, targets, pos, records, rows, failures, status, commands, rawCsv, failedCsv, tools, bounds>>
    BY <1>4 DEF Hook!StartRun, Hook!Keys, Keys, Hook!Temp, Temp, Hook!OpenLog, OpenLog, Hook!Log, Log,
        Hook!NoLog, NoLog
  <2>2. QED
    BY <2>1 DEF Opens, Steps
<1>5. CASE Hook!EndRun
  <2>1. \E rc \in {"ok", "bad", "timeout"} : CloseLog(rc)
    BY <1>5 DEF Hook!EndRun, Hook!CloseLog, CloseLog, Hook!Log, Log, Hook!NoLog, NoLog
  <2>2. QED
    BY <2>1 DEF Closes, Steps
<1>6. CASE Hook!row_from_output
  <2>1. /\ pc = "handle" /\ stage = "run" /\ Last(records).ok /\ temps' = temps \ {Temp}
        /\ rows' = Append(rows, [key |-> Key, run |-> Hook!Log(<<"run", Key>>).run])
        /\ pos' = pos + 1 /\ pc' = "next"
        /\ UNCHANGED <<args, targets, stage, records, failures, status,
                       logs, commands, rawCsv, failedCsv, tools, bounds>>
    BY <1>6 DEF Hook!row_from_output, Hook!Temp, Temp, Hook!Last, Last
  <2>2. L[<<"run", Key>>] = Log(<<"run", Key>>) /\ L[<<"run", Key>>].rc = "ok"
    BY <2>1, HandledRun
  <2>3. Hook!Log(<<"run", Key>>) = L[<<"run", Key>>] /\ Acceptable(L[<<"run", Key>>])
    BY <2>2 DEF Hook!Log, Log, Hook!NoLog, NoLog, Acceptable
  <2>4. QED
    BY <2>1, <2>2, <2>3 DEF Rows, Cleaned, Steps
<1>7. CASE Hook!RecordFailure
  BY <1>7 DEF Hook!RecordFailure, Hook!append_command_failure, Fails, Cleaned, Hook!Temp, Temp,
      Hook!Last, Last, Steps
<1>8. CASE Hook!RunsOver
  BY <1>8 DEF Hook!RunsOver, Finishes, Steps
<1>9. CASE Hook!write_raw_csv
  BY <1>9 DEF Hook!write_raw_csv, Hook!OpenRaw, Hook!CloseRaw, OpensRaw, ClosesRaw, OpenRaw, CloseRaw, Steps
<1>10. CASE Hook!Report
  BY <1>10 DEF Hook!Report, Report, Hook!Exit, Exit, Steps
<1>11. CASE Hook!LoggerStep
  <2>1. CASE Hook!PrintResults \/ Hook!OpenManifest \/ Hook!CloseManifest
    BY <2>1 DEF Hook!PrintResults, PrintResults, Hook!OpenManifest, OpenManifest, Hook!CloseManifest,
        CloseManifest, Hook!Log, Log, Hook!NoLog, NoLog, Hook!memory, memory, Steps
  <2>2. CASE Hook!AfterBuild
    <3>1. pc = "handle" /\ stage = "build" /\ ~InRun
      BY <2>2 DEF Hook!AfterBuild, InRun
    <3>2. CASE /\ pc' = "ensure" /\ stage' = "none"
               /\ UNCHANGED <<args, targets, pos, records, rows, failures, status, files, bounds>>
      BY <3>1, <3>2 DEF Built, Steps
    <3>3. CASE Hook!Exit("error") /\ UNCHANGED <<args, targets, files, bounds>>
      BY <3>1, <3>3 DEF Hook!Exit, Exit, Ends, Steps
    <3>4. QED
      BY <2>2, <3>2, <3>3 DEF Hook!AfterBuild
  <2>3. QED
    BY <1>11, <2>1, <2>2 DEF Hook!LoggerStep
<1>12. QED
  BY <1>1, <1>2, <1>3, <1>4, <1>5, <1>6, <1>7, <1>8, <1>9, <1>10, <1>11 DEF Hook!Step

\* The targets of experiment four.
LEMMA LevelDbTargets ==
  ASSUME NEW a
  PROVE  LevelDb!target_keys(a) = AllTargets(a)
<1>1. \A s : LevelDb!FlattenSeq(s) = FlattenSeq(s)
  BY DEF LevelDb!FlattenSeq, FlattenSeq
<1>2. \A s, S : LevelDb!Among(s, S) = Among(s, S)
  BY <1>1 DEF LevelDb!Among, Among, LevelDb!ForEach, ForEach
<1>3. \A lock, threads : LevelDb!runnable_threads_for_lock(lock, threads) = runnable_threads_for_lock(lock, threads)
  BY <1>2 DEF LevelDb!runnable_threads_for_lock, runnable_threads_for_lock,
    LevelDb!limit_to_single_oversubscribed_thread_count, limit_to_single_oversubscribed_thread_count,
    LevelDb!first_oversubscribed_thread_count, first_oversubscribed_thread_count, LevelDb!Min, Min,
    LevelDb!SINGLE_OVERSUBSCRIBED_LOCKS, SINGLE_OVERSUBSCRIBED_LOCKS, LevelDb!ToSet, ToSet
<1>4. ASSUME NEW b, NEW locks, NEW threads, NEW repeats
      PROVE  LevelDb!KeysOf(b, locks, threads, repeats) = KeysOf(b, locks, threads, repeats)
  BY <1>1, <1>3 DEF LevelDb!KeysOf, KeysOf, LevelDb!ForEach, ForEach
<1>5. QED
  BY <1>1, <1>4 DEF LevelDb!target_keys, AllTargets, LevelDb!ForEach, ForEach

\* Sessions of experiment four start as sessions do.
LEMMA LevelDbStarts ==
  ASSUME experiment = "four", LevelDb!Start
  PROVE  Starts
<1>1. PICK a \in LevelDbSessions : LevelDb!StartSession(a, LevelDb!Selected(a))
  BY DEF LevelDb!Start
<1>2. LevelDb!target_keys(a) = AllTargets(a)
  BY LevelDbTargets
<1> DEFINE keys == IF a.rerun THEN Among(AllTargets(a), failedCsv) ELSE AllTargets(a)
<1>3. LevelDb!Selected(a) = keys
  <2>1. LevelDb!Among(AllTargets(a), failedCsv) = Among(AllTargets(a), failedCsv)
    BY DEF LevelDb!Among, Among, LevelDb!ForEach, ForEach, LevelDb!FlattenSeq, FlattenSeq
  <2>2. QED
    BY <1>2, <2>1 DEF LevelDb!Selected
<1>4. a \in CommandLines /\ ~a.resume
  BY LinesAssumption DEF CommandLines
<1>5. Full(AllTargets(a))
  BY <1>4, TargetsFacts
<1>6. keys \in Seq(Points) /\ IsInjective(keys)
  BY <1>5, AmongFacts DEF Full
<1> HIDE DEF keys
<1>7. StartSession(a, keys)
  BY <1>1, <1>3 DEF LevelDb!StartSession, StartSession, LevelDb!ensure_output_root, ensure_output_root,
    LevelDb!Exit, Exit, LevelDb!load_records, load_records, LevelDb!files, files
<1>8. QED
  BY <1>4, <1>6, <1>7 DEF Starts

\* Each step of experiment four has one of the shapes.
LEMMA LevelDbSteps ==
  ASSUME TypeInv, PhaseInv, RunInv, RecordsInv, experiment = "four", LevelDb!Step, UNCHANGED experiment
  PROVE  Steps
<1> USE DEF files, bounds, LevelDb!files, LevelDb!bounds, LevelDb!Key, Key
<1>0. pc = "ensure" \/ pc = "load" => stage = "none"
  BY DEF PhaseInv
<1>1. CASE LevelDb!EnsureTools
  <2>1. \/ LevelDb!Exit("error") /\ UNCHANGED <<args, targets, files, bounds>>
        \/ \E next : LevelDb!Ensure(next)
    BY <1>1 DEF LevelDb!EnsureTools
  <2>2. pc = "ensure" /\ ~InRun
    BY <1>0, <1>1 DEF LevelDb!EnsureTools, InRun
  <2>3. CASE LevelDb!Exit("error") /\ UNCHANGED <<args, targets, files, bounds>>
    BY <2>2, <2>3 DEF LevelDb!Exit, Exit, Ends, Steps
  <2>4. ASSUME NEW next, LevelDb!Ensure(next)
        PROVE  Steps
    <3>1. \/ pc' = "load" /\ UNCHANGED <<args, targets, pos, stage, records, rows, failures, status, files, bounds>>
          \/ LevelDb!Exit("error") /\ UNCHANGED <<args, targets, files, bounds>>
          \/ LevelDb!Build(next)
      BY <2>4 DEF LevelDb!Ensure
    <3>2. CASE pc' = "load" /\ UNCHANGED <<args, targets, pos, stage, records, rows, failures, status, files, bounds>>
      BY <2>2, <3>2 DEF ToolsFound, Steps
    <3>3. CASE LevelDb!Build(next)
      BY <2>2, <3>3 DEF LevelDb!Build, Builds, Steps
    <3>4. QED
      BY <2>3, <3>1, <3>2, <3>3
  <2>5. QED
    BY <2>1, <2>3, <2>4
<1>2. CASE LevelDb!NothingToLoad
  <2>1. /\ pc = "load" /\ pc' = "next" /\ rows = <<>> /\ ~args.resume
        /\ UNCHANGED <<args, targets, pos, stage, records, rows, failures, status, files, bounds>>
    BY <1>2 DEF LevelDb!NothingToLoad, PhaseInv, Loaded
  <2>2. rows' = <<>> /\ rows' \in Seq(RunRow)
    BY <2>1, EmptySeq
  <2>3. QED
    BY <2>1, <2>2, OneRowEachInitially DEF Loads, Steps
<1>3. CASE LevelDb!StartPoint
  <2> DEFINE st == IF Key[1] \in FilledBenchmarks THEN "init" ELSE "run"
  <2>1. /\ pc = "next" /\ pos <= Len(targets) /\ temps' = temps \cup {Temp} /\ OpenLog(st)
        /\ UNCHANGED <<args, targets, pos, records, rows, failures, status, commands, rawCsv, failedCsv, tools, bounds>>
    BY <1>3 DEF LevelDb!StartPoint, LevelDb!Temp, Temp, LevelDb!OpenLog, OpenLog, LevelDb!Log, Log,
        LevelDb!NoLog, NoLog
  <2>2. st \in {"init", "run"}
    OBVIOUS
  <2> HIDE DEF st
  <2>3. QED
    BY <2>1, <2>2 DEF Opens, Steps
<1>4. CASE LevelDb!StartMeasured
  <2>1. /\ pc = "handle" /\ stage = "init" /\ temps' = temps /\ OpenLog("run")
        /\ UNCHANGED <<args, targets, pos, records, rows, failures, status, commands, rawCsv, failedCsv, tools, bounds>>
    BY <1>4 DEF LevelDb!StartMeasured, LevelDb!OpenLog, OpenLog, LevelDb!Log, Log, LevelDb!NoLog, NoLog
  <2>2. QED
    BY <2>1 DEF Opens, Steps
<1>5. CASE LevelDb!EndCommand
  <2>1. \E rc \in {"ok", "bad", "timeout"} : CloseLog(rc)
    BY <1>5 DEF LevelDb!EndCommand, LevelDb!CloseLog, CloseLog, LevelDb!Log, Log, LevelDb!NoLog, NoLog
  <2>2. QED
    BY <2>1 DEF Closes, Steps
<1>6. CASE LevelDb!AppendRow
  <2>1. /\ pc = "handle" /\ stage = "run" /\ Last(records).ok
        /\ temps' = IF args.keep THEN temps ELSE temps \ {Temp}
        /\ UNCHANGED <<logs, commands, rawCsv, failedCsv, tools, bounds>>
    BY <1>6 DEF LevelDb!AppendRow, LevelDb!Temp, Temp, LevelDb!Last, Last
  <2>2. L[<<"run", Key>>] = Log(<<"run", Key>>) /\ L[<<"run", Key>>].rc = "ok"
    BY <2>1, HandledRun
  <2>3. CASE /\ LevelDb!Log(<<"run", Key>>).printed
             /\ rows' = Append(rows, [key |-> Key, run |-> LevelDb!Log(<<"run", Key>>).run])
             /\ pos' = pos + 1 /\ pc' = "next"
             /\ UNCHANGED <<args, targets, stage, records, failures, status>>
    <3>1. LevelDb!Log(<<"run", Key>>) = L[<<"run", Key>>]
      BY <2>2 DEF LevelDb!Log, Log, LevelDb!NoLog, NoLog
    <3>2. Acceptable(L[<<"run", Key>>])
      BY <2>2, <2>3, <3>1 DEF Acceptable
    <3>3. Cleaned
      BY <2>1 DEF Cleaned
    <3>4. QED
      BY <2>1, <2>2, <2>3, <3>1, <3>2, <3>3 DEF Rows, Steps
  <2>4. CASE LevelDb!Exit("error") /\ UNCHANGED <<args, targets>>
    <3>1. temps' \subseteq temps /\ (~args.keep => temps' = temps \ {Temp})
      BY <2>1
    <3>2. QED
      BY <2>1, <2>4, <3>1 DEF LevelDb!Exit, Exit, Ends, Steps
  <2>5. QED
    BY <1>6, <2>3, <2>4 DEF LevelDb!AppendRow
<1>7. CASE LevelDb!RecordFailure
  <2>1. /\ pc = "handle" /\ stage \in {"init", "run"} /\ ~Last(records).ok
        /\ failures' = failures \cup {Key} /\ failedCsv' = failures'
        /\ temps' = IF args.keep THEN temps ELSE temps \ {Temp}
        /\ pos' = pos + 1 /\ pc' = "next"
        /\ UNCHANGED <<args, targets, stage, records, rows, status, logs, commands, rawCsv, tools, bounds>>
    BY <1>7 DEF LevelDb!RecordFailure, LevelDb!Temp, Temp, LevelDb!Last, Last
  <2>2. Cleaned
    BY <2>1 DEF Cleaned
  <2>3. QED
    BY <2>1, <2>2 DEF Fails, Steps
<1>8. CASE LevelDb!RunsOver
  BY <1>8 DEF LevelDb!RunsOver, Finishes, Steps
<1>9. CASE LevelDb!write_raw_csv
  BY <1>9 DEF LevelDb!write_raw_csv, LevelDb!OpenRaw, LevelDb!CloseRaw, OpensRaw, ClosesRaw, OpenRaw, CloseRaw, Steps
<1>10. CASE LevelDb!Report
  BY <1>10 DEF LevelDb!Report, Report, LevelDb!Exit, Exit, Steps
<1>11. CASE LevelDb!LoggerStep
  <2>1. CASE LevelDb!PrintResults \/ LevelDb!OpenManifest \/ LevelDb!CloseManifest
    BY <2>1 DEF LevelDb!PrintResults, PrintResults, LevelDb!OpenManifest, OpenManifest, LevelDb!CloseManifest,
        CloseManifest, LevelDb!Log, Log, LevelDb!NoLog, NoLog, LevelDb!memory, memory, Steps
  <2>2. CASE LevelDb!AfterBuild
    <3>1. pc = "handle" /\ stage = "build" /\ ~InRun
      BY <2>2 DEF LevelDb!AfterBuild, InRun
    <3>2. CASE /\ pc' = "ensure" /\ stage' = "none"
               /\ UNCHANGED <<args, targets, pos, records, rows, failures, status, files, bounds>>
      BY <3>1, <3>2 DEF Built, Steps
    <3>3. CASE LevelDb!Exit("error") /\ UNCHANGED <<args, targets, files, bounds>>
      BY <3>1, <3>3 DEF LevelDb!Exit, Exit, Ends, Steps
    <3>4. QED
      BY <2>2, <3>2, <3>3 DEF LevelDb!AfterBuild
  <2>3. QED
    BY <1>11, <2>1, <2>2 DEF LevelDb!LoggerStep
<1>12. QED
  BY <1>1, <1>2, <1>3, <1>4, <1>5, <1>6, <1>7, <1>8, <1>9, <1>10, <1>11 DEF LevelDb!Step

\* The targets of experiment five.
LEMMA CacheTargets ==
  ASSUME NEW a
  PROVE  Cache!target_keys(a) = AllTargets(a)
<1>1. \A s : Cache!FlattenSeq(s) = FlattenSeq(s)
  BY DEF Cache!FlattenSeq, FlattenSeq
<1>2. \A s, S : Cache!Among(s, S) = Among(s, S)
  BY <1>1 DEF Cache!Among, Among, Cache!ForEach, ForEach
<1>3. \A lock, threads : Cache!runnable_threads_for_lock(lock, threads) = runnable_threads_for_lock(lock, threads)
  BY <1>2 DEF Cache!runnable_threads_for_lock, runnable_threads_for_lock,
    Cache!limit_to_single_oversubscribed_thread_count, limit_to_single_oversubscribed_thread_count,
    Cache!first_oversubscribed_thread_count, first_oversubscribed_thread_count, Cache!Min, Min,
    Cache!SINGLE_OVERSUBSCRIBED_LOCKS, SINGLE_OVERSUBSCRIBED_LOCKS, Cache!ToSet, ToSet
<1>4. ASSUME NEW b, NEW locks, NEW threads, NEW repeats
      PROVE  Cache!KeysOf(b, locks, threads, repeats) = KeysOf(b, locks, threads, repeats)
  BY <1>1, <1>3 DEF Cache!KeysOf, KeysOf, Cache!ForEach, ForEach
<1>5. QED
  BY <1>1, <1>4 DEF Cache!target_keys, AllTargets, Cache!ForEach, ForEach

\* Sessions of experiment five start as sessions do.
LEMMA CacheStarts ==
  ASSUME experiment = "five", Cache!Start
  PROVE  Starts
<1>1. PICK a \in CacheSessions : Cache!StartSession(a, Cache!target_keys(a))
  BY DEF Cache!Start
<1>2. Cache!target_keys(a) = AllTargets(a)
  BY CacheTargets
<1>3. StartSession(a, AllTargets(a))
  BY <1>1, <1>2 DEF Cache!StartSession, StartSession, Cache!ensure_output_root, ensure_output_root,
    Cache!Exit, Exit, Cache!load_records, load_records, Cache!files, files
<1>4. a \in CommandLines
  BY DEF CommandLines
<1>5. Full(AllTargets(a))
  BY <1>4, TargetsFacts
<1>6. QED
  BY <1>3, <1>4, <1>5 DEF Starts, Full

\* Each step of experiment five has one of the shapes.
LEMMA CacheSteps ==
  ASSUME TypeInv, PhaseInv, RunInv, RecordsInv, experiment = "five", Cache!Step, UNCHANGED experiment
  PROVE  Steps
<1> USE DEF files, bounds, Cache!files, Cache!bounds, Cache!Key, Key
<1>0. pc = "ensure" \/ pc = "load" => stage = "none"
  BY DEF PhaseInv
<1>1. CASE Cache!EnsureTools
  <2>1. \E next : Cache!Ensure(next)
    BY <1>1 DEF Cache!EnsureTools
  <2>2. pc = "ensure" /\ ~InRun
    BY <1>0, <1>1 DEF Cache!EnsureTools, InRun
  <2>3. CASE Cache!Exit("error") /\ UNCHANGED <<args, targets, files, bounds>>
    BY <2>2, <2>3 DEF Cache!Exit, Exit, Ends, Steps
  <2>4. ASSUME NEW next, Cache!Ensure(next)
        PROVE  Steps
    <3>1. \/ pc' = "load" /\ UNCHANGED <<args, targets, pos, stage, records, rows, failures, status, files, bounds>>
          \/ Cache!Exit("error") /\ UNCHANGED <<args, targets, files, bounds>>
          \/ Cache!Build(next)
      BY <2>4 DEF Cache!Ensure
    <3>2. CASE pc' = "load" /\ UNCHANGED <<args, targets, pos, stage, records, rows, failures, status, files, bounds>>
      BY <2>2, <3>2 DEF ToolsFound, Steps
    <3>3. CASE Cache!Build(next)
      BY <2>2, <3>3 DEF Cache!Build, Builds, Steps
    <3>4. QED
      BY <2>3, <3>1, <3>2, <3>3
  <2>5. QED
    BY <2>1, <2>3, <2>4
<1>2. CASE Cache!LoadExisting
  <2>1. pc = "load" /\ ~InRun
    BY <1>0, <1>2 DEF Cache!LoadExisting, InRun
  <2>2. CASE Cache!Exit("error") /\ UNCHANGED <<args, targets, files, bounds>>
    BY <2>1, <2>2 DEF Cache!Exit, Exit, Ends, Steps
  <2>3. CASE /\ rows' = IF args.resume
                        THEN Cache!ordered_completed_rows(rawCsv.rows \o Cache!completed_rows_from_records)
                        ELSE <<>>
             /\ pc' = IF rows' = <<>> THEN "next" ELSE "progress"
             /\ UNCHANGED <<args, targets, pos, stage, records, failures, status, files, bounds>>
    <3>0. pc' \in {"next", "progress"}
      BY <2>3
    <3>1. CASE ~args.resume
      <4>1. rows' = <<>> /\ rows' \in Seq(RunRow)
        BY <2>3, <3>1, EmptySeq
      <4>2. QED
        BY <2>1, <2>3, <3>0, <3>1, <4>1, OneRowEachInitially DEF Loads, Steps
    <3>2. CASE args.resume
      <4> DEFINE good == {rec \in Usable(records) : L[rec.log].rc = "ok"}
                 S == {k \in ToSet(targets) : <<"run", k>> \in Cache!successful_records_by_log_name}
                 both == rawCsv.rows \o RowsOf(S)
      <4>1. Cache!completed_rows_from_records = RowsOf(S)
        BY DEF Cache!completed_rows_from_records, RowsOf, Cache!Among, Among, Cache!ForEach, ForEach,
               Cache!FlattenSeq, FlattenSeq, Cache!Log, Log, Cache!NoLog, NoLog, Cache!ToSet, ToSet
      <4>2. \A rs : Cache!ordered_completed_rows(rs) = LastRows(rs)
        BY DEF Cache!ordered_completed_rows, LastRows, Cache!Among, Among, Cache!ForEach, ForEach,
               Cache!FlattenSeq, FlattenSeq, Cache!Keys, Keys, Cache!Max, Max
      <4>3. \A k : <<"run", k>> \in Cache!successful_records_by_log_name <=> \E rec \in good : rec.log[2] = k
        <5>1. Cache!successful_records_by_log_name = {records[i].log : i \in {j \in DOMAIN records :
                   records[j].ok /\ Log(records[j].log).rc = "ok"}}
          BY DEF Cache!successful_records_by_log_name, Cache!Log, Log, Cache!NoLog, NoLog
        <5>2. ASSUME NEW k, <<"run", k>> \in Cache!successful_records_by_log_name
              PROVE  \E rec \in good : rec.log[2] = k
          <6>1. PICK i \in DOMAIN records : records[i].ok /\ Log(records[i].log).rc = "ok" /\ records[i].log = <<"run", k>>
            BY <5>1, <5>2
          <6>2. records[i] \in Usable(records) /\ records[i].log[2] = k
            BY <6>1 DEF Usable, ToSet
          <6>3. L[records[i].log].rc = "ok"
            BY <6>1, <6>2, LogOfRecord
          <6>4. QED
            BY <6>2, <6>3
        <5>3. ASSUME NEW rec \in good
              PROVE  <<"run", rec.log[2]>> \in Cache!successful_records_by_log_name
          <6>1. rec \in Usable(records) /\ L[rec.log].rc = "ok"
            OBVIOUS
          <6>2. rec.log = <<"run", rec.log[2]>> /\ Log(rec.log).rc = "ok"
            BY <6>1, LogOfRecord
          <6>3. PICK i \in DOMAIN records : rec = records[i] /\ rec.ok
            BY <6>1 DEF Usable, ToSet
          <6>4. rec.log \in Cache!successful_records_by_log_name
            BY <5>1, <6>2, <6>3
          <6>5. QED
            BY <6>2, <6>4
        <5>4. QED
          BY <5>2, <5>3
      <4> HIDE DEF good
      <4>4. S = ToSet(targets) \cap {rec.log[2] : rec \in good}
        BY <4>3
      <4> HIDE DEF S
      <4>5. /\ RowsOf(S) \in Seq(RunRow)
            /\ Keys(RowsOf(S)) = ToSet(targets) \cap S
            /\ \A i \in DOMAIN RowsOf(S) : RowsOf(S)[i].run = L[<<"run", RowsOf(S)[i].key>>].run
        BY RowsOfFacts
      <4>6. rawCsv.rows \in Seq(RunRow)
        BY DEF TypeInv
      <4>7. /\ both \in Seq(RunRow) /\ Keys(both) = Keys(rawCsv.rows) \cup Keys(RowsOf(S))
            /\ ToSet(both) = ToSet(rawCsv.rows) \cup ToSet(RowsOf(S))
        BY <4>5, <4>6, KeysOfBoth
      <4>8. rows' = LastRows(both)
        BY <2>3, <3>2, <4>1, <4>2
      <4> HIDE DEF both
      <4>9. /\ rows' \in Seq(RunRow) /\ OneRowEach(rows')
            /\ Keys(rows') = ToSet(targets) \cap Keys(both)
            /\ \A i \in DOMAIN rows' : rows'[i] \in ToSet(both)
        BY <4>7, <4>8, LastRowsFacts
      <4>10. Keys(rows') = ToSet(targets) \cap (Keys(rawCsv.rows) \cup {rec.log[2] : rec \in good})
        BY <4>4, <4>5, <4>7, <4>9
      <4>11. ASSUME NEW r \in ToSet(RowsOf(S))
             PROVE  LET log == L[<<"run", r.key>>] IN r.run = log.run /\ log.rc = "ok"
        <5>1. PICK i \in DOMAIN RowsOf(S) : r = RowsOf(S)[i]
          BY DEF ToSet
        <5>2. r.run = L[<<"run", r.key>>].run /\ r.key \in S
          BY <4>5, <5>1 DEF Keys
        <5>3. PICK rec \in good : rec.log[2] = r.key
          BY <4>4, <5>2
        <5>4. rec \in Usable(records) /\ L[rec.log].rc = "ok"
          BY DEF good
        <5>5. rec.log = <<"run", r.key>>
          BY <5>3, <5>4, LogOfRecord
        <5>6. QED
          BY <5>2, <5>4, <5>5
      <4>12. FromRawCsv
        <5>1. \A i \in DOMAIN rows' : rows'[i] \in ToSet(rawCsv.rows) \/ rows'[i] \in ToSet(RowsOf(S))
          BY <4>7, <4>9
        <5>2. QED
          BY <4>10, <4>11, <5>1 DEF FromRawCsv, good
      <4>13. QED
        BY <2>1, <2>3, <3>0, <3>2, <4>9, <4>12 DEF Loads, Steps
    <3>3. QED
      BY <3>1, <3>2
  <2>4. QED
    BY <1>2, <2>2, <2>3 DEF Cache!LoadExisting
<1>3. CASE Cache!SkipCompleted
  BY <1>3 DEF Cache!SkipCompleted, Skips, Steps, Cache!Keys, Keys
<1>4. CASE Cache!StartCachebench \/ Cache!StartRocksdb
  <2> DEFINE st == IF Cache!workload(Key) = "rocksdb" /\ Key[1] \in InitBenchmarks THEN "init" ELSE "run"
  <2>1. /\ pc = "next" /\ pos <= Len(targets) /\ Key \notin Keys(rows) /\ OpenLog(st)
        /\ \/ temps' = temps
           \/ temps' = temps \cup {Temp} /\ Cache!workload(Key) = "rocksdb"
        /\ UNCHANGED <<args, targets, pos, records, rows, failures, status, commands, rawCsv, failedCsv, tools, bounds>>
    <3>1. CASE Cache!StartCachebench
      BY <3>1 DEF Cache!StartCachebench, Cache!Due, Cache!Keys, Keys, Cache!OpenLog, OpenLog, Cache!Log, Log,
        Cache!NoLog, NoLog
    <3>2. CASE Cache!StartRocksdb
      BY <3>2 DEF Cache!StartRocksdb, Cache!Due, Cache!Keys, Keys, Cache!Temp, Temp, Cache!OpenLog, OpenLog, Cache!Log, Log,
        Cache!NoLog, NoLog
    <3>3. QED
      BY <1>4, <3>1, <3>2
  <2>2. st \in {"init", "run"}
    OBVIOUS
  <2> HIDE DEF st
  <2>3. QED
    BY <2>1, <2>2 DEF Opens, Steps
<1>12. CASE Cache!FilledDatabase
  <2>1. /\ pc = "handle" /\ stage = "init" /\ temps' = temps /\ OpenLog("run")
        /\ UNCHANGED <<args, targets, pos, records, rows, failures, status, commands, rawCsv, failedCsv, tools, bounds>>
    BY <1>12 DEF Cache!FilledDatabase, Cache!OpenLog, OpenLog, Cache!Log, Log,
        Cache!NoLog, NoLog
  <2>2. QED
    BY <2>1 DEF Opens, Steps
<1>5. CASE Cache!EndCachebench \/ Cache!EndRocksdb
  <2>1. \E rc \in {"ok", "bad", "timeout"} : CloseLog(rc)
    BY <1>5 DEF Cache!EndCachebench, Cache!EndRocksdb, Cache!CloseLog, CloseLog, Cache!Log, Log, Cache!NoLog, NoLog
  <2>2. QED
    BY <2>1 DEF Closes, Steps
<1>6. CASE Cache!CachebenchEnded \/ Cache!RocksdbSucceeded
  <2>0. pc = "handle" /\ stage = "run"
    BY <1>6 DEF Cache!CachebenchEnded, Cache!RocksdbSucceeded
  <2>1. L[<<"run", Key>>] = Log(<<"run", Key>>) /\ (Last(records).ok <=> L[<<"run", Key>>].rc = "ok")
    BY <2>0, HandledRun
  <2>2. Cache!Log(<<"run", Key>>) = L[<<"run", Key>>]
    BY <2>1 DEF Cache!Log, Log, Cache!NoLog, NoLog
  <2>3. UNCHANGED <<args, targets, stage, records, status, logs, commands, rawCsv, temps, tools, bounds>>
    BY <1>6 DEF Cache!CachebenchEnded, Cache!RocksdbSucceeded, Cache!AddRow
  <2>4. CASE Last(records).ok /\ Cache!AddRow /\ UNCHANGED <<pos, failures, failedCsv>>
    <3>1. /\ L[<<"run", Key>>].rc = "ok" /\ Acceptable(L[<<"run", Key>>])
          /\ rows' = Append(rows, [key |-> Key, run |-> L[<<"run", Key>>].run]) /\ pc' = "progress"
      BY <2>1, <2>2, <2>4 DEF Acceptable, Cache!AddRow
    <3>2. QED
      BY <2>0, <2>3, <2>4, <3>1 DEF Rows, Steps
  <2>5. CASE /\ ~Last(records).ok /\ Cache!workload(Key) = "cachebench"
             /\ failures' = failures \cup {Key} /\ failedCsv' = failures'
             /\ IF Cache!accepted_timed_out_cachebench_result
                THEN Cache!AddRow /\ UNCHANGED pos
                ELSE pc' = "next" /\ pos' = pos + 1 /\ UNCHANGED rows
    <3>1. CASE Cache!accepted_timed_out_cachebench_result
      <4>1. L[<<"run", Key>>].rc = "timeout" /\ L[<<"run", Key>>].printed
        BY <2>2, <3>1 DEF Cache!accepted_timed_out_cachebench_result
      <4>2. Acceptable(L[<<"run", Key>>])
        BY <4>1 DEF Acceptable
      <4>3. /\ rows' = Append(rows, [key |-> Key, run |-> L[<<"run", Key>>].run])
            /\ pc' = "progress" /\ pos' = pos /\ failures' = failures \cup {Key} /\ failedCsv' = failures'
        BY <2>2, <2>5, <3>1 DEF Cache!AddRow
      <4>4. QED
        BY <2>0, <2>3, <4>1, <4>2, <4>3 DEF Rows, Steps
    <3>2. CASE ~Cache!accepted_timed_out_cachebench_result
      BY <2>0, <2>3, <2>5, <3>2 DEF Fails, Steps
    <3>3. QED
      BY <3>1, <3>2
  <2>6. QED
    BY <1>6, <2>4, <2>5 DEF Cache!CachebenchEnded, Cache!RocksdbSucceeded, Cache!Last, Last
<1>7. CASE Cache!RocksdbFailed
  BY <1>7 DEF Cache!RocksdbFailed, Cache!append_command_failure, Fails, Cleaned, Cache!Temp, Temp,
      Cache!Last, Last, Steps
<1>13. CASE Cache!write_progress_csvs
  BY <1>13 DEF Cache!write_progress_csvs, Cache!OpenRaw, Cache!CloseRaw, OpensRaw, ClosesRaw, OpenRaw, CloseRaw,
      Cache!Temp, Temp, Steps
<1>8. CASE Cache!RunsOver
  BY <1>8 DEF Cache!RunsOver, Finishes, Steps
<1>9. CASE Cache!write_raw_csv
  BY <1>9 DEF Cache!write_raw_csv, Cache!OpenRaw, Cache!CloseRaw, OpensRaw, ClosesRaw, OpenRaw, CloseRaw, Steps
<1>10. CASE Cache!Report
  BY <1>10 DEF Cache!Report, Report, Cache!Exit, Exit, Steps
<1>11. CASE Cache!LoggerStep
  <2>1. CASE Cache!PrintResults \/ Cache!OpenManifest \/ Cache!CloseManifest
    BY <2>1 DEF Cache!PrintResults, PrintResults, Cache!OpenManifest, OpenManifest, Cache!CloseManifest,
        CloseManifest, Cache!Log, Log, Cache!NoLog, NoLog, Cache!memory, memory, Steps
  <2>2. CASE Cache!AfterBuild
    <3>1. pc = "handle" /\ stage = "build" /\ ~InRun
      BY <2>2 DEF Cache!AfterBuild, InRun
    <3>2. CASE /\ pc' = "ensure" /\ stage' = "none"
               /\ UNCHANGED <<args, targets, pos, records, rows, failures, status, files, bounds>>
      BY <3>1, <3>2 DEF Built, Steps
    <3>3. CASE Cache!Exit("error") /\ UNCHANGED <<args, targets, files, bounds>>
      BY <3>1, <3>3 DEF Cache!Exit, Exit, Ends, Steps
    <3>4. QED
      BY <2>2, <3>2, <3>3 DEF Cache!AfterBuild
  <2>3. QED
    BY <1>11, <2>1, <2>2 DEF Cache!LoggerStep
<1>14. QED
  BY <1>1, <1>2, <1>3, <1>4, <1>5, <1>6, <1>7, <1>8, <1>9, <1>10, <1>11, <1>12, <1>13 DEF Cache!Step

----------------------------------------------------------------------------
(* The specification.                                                      *)

\* Every step of the specification has one of the shapes.
LEMMA EveryStep ==
  ASSUME Inv, Next
  PROVE  Steps /\ UNCHANGED experiment
<1>1. TypeInv /\ PhaseInv /\ RunInv /\ RecordsInv /\ UNCHANGED experiment
  BY DEF Inv, Next
<1>2. CASE Start
  <2>1. CASE experiment = "three" /\ Parsec!Start
    BY <1>1, <2>1, ParsecStarts DEF Steps
  <2>2. CASE experiment = "six" /\ Hook!Start
    BY <1>1, <2>2, HookStarts DEF Steps
  <2>3. CASE experiment = "five" /\ Cache!Start
    BY <1>1, <2>3, CacheStarts DEF Steps
  <2>4. CASE experiment = "four" /\ LevelDb!Start
    BY <1>1, <2>4, LevelDbStarts DEF Steps
  <2>5. QED
    BY <1>1, <1>2, <2>1, <2>2, <2>3, <2>4 DEF Start
<1>3. CASE Step
  <2>1. CASE experiment = "three" /\ Parsec!Step
    BY <1>1, <2>1, ParsecSteps
  <2>2. CASE experiment = "six" /\ Hook!Step
    BY <1>1, <2>2, HookSteps
  <2>3. CASE experiment = "five" /\ Cache!Step
    BY <1>1, <2>3, CacheSteps
  <2>4. CASE experiment = "four" /\ LevelDb!Step
    BY <1>1, <2>4, LevelDbSteps
  <2>5. QED
    BY <1>1, <1>3, <2>1, <2>2, <2>3, <2>4 DEF Step
<1>4. CASE \E i \in BOOLEAN : Stop(i)
  BY <1>1, <1>4, Stops DEF Steps
<1>5. QED
  BY <1>1, <1>2, <1>3, <1>4 DEF Next

\* The invariant holds in an unused result root.
LEMMA InitInv ==
  ASSUME Init
  PROVE  Inv
<1> DEFINE none == <<>>
<1>1. /\ logs = <<>> /\ commands = [torn |-> FALSE, recs |-> <<>>]
      /\ rawCsv = [state |-> "absent", rows |-> <<>>]
      /\ failedCsv = {} /\ temps = {}
      /\ pc = "off" /\ targets = <<>> /\ pos = 1 /\ stage = "none"
      /\ records = <<>> /\ rows = <<>> /\ failures = {} /\ status = "none"
      /\ sessions = 0 /\ mixed = FALSE
  BY DEF Init, RootInit
<1>2. experiment \in {"three", "four", "five", "six"}
  BY LinesAssumption DEF Init
<1>3. /\ none \in Seq(RunRow) /\ none \in Seq(Points) /\ none \in Seq(ToSet(none))
      /\ Len(none) = 0 /\ DOMAIN none = {} /\ ToSet(none) = {} /\ IsInjective(none)
      /\ Keys(none) = {} /\ none \in [DOMAIN none -> LogFile] /\ OneRowEach(none)
  BY EmptySeq DEF ToSet, IsInjective, Keys, OneRowEach
<1> HIDE DEF none
<1>4. /\ logs = none /\ commands = [torn |-> FALSE, recs |-> none]
      /\ rawCsv = [state |-> "absent", rows |-> none]
      /\ targets = none /\ records = none /\ rows = none
  BY <1>1 DEF none
<1>5. commands.torn = FALSE /\ commands.recs = none /\ rawCsv.state = "absent" /\ rawCsv.rows = none
  BY <1>4
<1>6. TypeInv
  <2>1. rawCsv \in [state : {"absent", "torn", "whole"}, rows : Seq(RunRow)]
    BY <1>3, <1>4
  <2>2. logs \in [DOMAIN logs -> LogFile] /\ DOMAIN logs \subseteq Names /\ records \in Seq(ToSet(records))
    BY <1>3, <1>4
  <2>3. commands.recs \in Seq(ToSet(commands.recs)) /\ commands = [torn |-> commands.torn, recs |-> commands.recs]
    BY <1>3, <1>4, <1>5
  <2>4. targets \in Seq(Points) /\ IsInjective(targets) /\ pos \in 1..Len(targets) + 1
    BY <1>1, <1>3, <1>4
  <2>5. QED
    BY <1>1, <1>2, <1>3, <1>4, <1>5, <2>1, <2>2, <2>3, <2>4 DEF TypeInv
<1>7. PhaseInv
  BY <1>1, <1>5 DEF PhaseInv, Loaded, Commanding, none
<1>8. TempsInv
  BY <1>1 DEF TempsInv, TempsRemoved
<1>9. RunInv
  BY <1>1, <1>3, <1>4 DEF RunInv, InCommand, Commanding
<1>10. CoverInv
  BY <1>1 DEF CoverInv, ExitTellsOutcome
<1>11. DistinctInv
  BY <1>3, <1>4, <1>5 DEF DistinctInv
<1>12. ManifestInv
  BY <1>1, <1>5 DEF ManifestInv
<1>13. Usable(none) = {}
  BY <1>3 DEF Usable
<1>14. RecordsInv
  BY <1>1, <1>4, <1>5, <1>13 DEF RecordsInv
<1>15. OwnRecords
  BY <1>1, <1>3, <1>4, <1>5, <1>13 DEF OwnRecords, Clean, GoodRecords, Recorded
<1>16. RowsInv
  BY <1>1, <1>3, <1>4, <1>5 DEF RowsInv, Clean, BackedRows, Loaded
<1>17. QED
  BY <1>6, <1>7, <1>8, <1>9, <1>10, <1>11, <1>12, <1>14, <1>15, <1>16 DEF Inv

\* The invariant is about the variables only.
LEMMA Stuttering ==
  ASSUME Inv, UNCHANGED vars
  PROVE  Inv'
<1>1. UNCHANGED <<experiment, logs, commands, rawCsv, failedCsv, temps, pc, args, targets, pos, stage,
                  records, rows, failures, status, sessions, mixed>>
  BY DEF vars, rootVars, memory, files, bounds
<1>2. /\ L' = L /\ Key' = Key /\ Temp' = Temp /\ Passed' = Passed
      /\ Keys(rows)' = Keys(rows) /\ Keys(rawCsv.rows)' = Keys(rawCsv.rows)
      /\ InRun' = InRun /\ Commanding' = Commanding /\ InCommand' = InCommand /\ Loaded' = Loaded /\ Clean' = Clean
  BY <1>1, LogKept DEF Key, Temp, Passed, Keys, InRun, Commanding, InCommand, Loaded, Clean
<1>3. /\ Usable(records)' = Usable(records) /\ Usable(commands.recs)' = Usable(commands.recs)
      /\ GoodRecords(records)' = GoodRecords(records) /\ GoodRecords(commands.recs)' = GoodRecords(commands.recs)
      /\ BackedRows(rows)' = BackedRows(rows) /\ BackedRows(rawCsv.rows)' = BackedRows(rawCsv.rows)
  BY <1>1, <1>2 DEF Usable, GoodRecords, BackedRows, Acceptable
<1>4. TypeInv'
  BY <1>1 DEF Inv, TypeInv
<1>5. PhaseInv'
  BY <1>1, <1>2 DEF Inv, PhaseInv
<1>6. TempsInv'
  BY <1>1, <1>2 DEF Inv, TempsInv, TempsRemoved, Cache!workload
<1>7. RunInv'
  BY <1>1, <1>2 DEF Inv, RunInv
<1>8. CoverInv'
  <2>1. \A k \in Points : Log(<<"run", k>>)' = Log(<<"run", k>>)
    BY <1>1 DEF Log
  <2>2. QED
    BY <1>1, <1>2 DEF Inv, CoverInv, Covered, ExitTellsOutcome, Log
<1>9. DistinctInv'
  BY <1>1 DEF Inv, DistinctInv, OneRowEach
<1>10. ManifestInv'
  BY <1>1 DEF Inv, ManifestInv
<1>11. RecordsInv'
  BY <1>1, <1>2, <1>3 DEF Inv, RecordsInv
<1>12. OwnRecords'
  BY <1>1, <1>2, <1>3 DEF Inv, OwnRecords, Recorded
<1>13. RowsInv'
  BY <1>1, <1>2, <1>3 DEF Inv, RowsInv
<1>14. QED
  BY <1>4, <1>5, <1>6, <1>7, <1>8, <1>9, <1>10, <1>11, <1>12, <1>13 DEF Inv

\* The invariant is inductive.
LEMMA NextInv ==
  ASSUME Inv, [Next]_vars
  PROVE  Inv'
<1>1. CASE UNCHANGED vars
  BY <1>1, Stuttering
<1>2. CASE Next
  <2>1. /\ TypeInv /\ PhaseInv /\ TempsInv /\ RunInv /\ CoverInv /\ DistinctInv
        /\ ManifestInv /\ RecordsInv /\ OwnRecords /\ RowsInv
    BY DEF Inv
  <2>2. Steps /\ UNCHANGED experiment
    BY <1>2, EveryStep
  <2>3. TypeInv' /\ PhaseInv' /\ TempsInv' /\ RunInv'
    BY <2>1, <2>2, TypeStep, PhaseStep, TempsStep, RunStep
  <2>4. CoverInv' /\ DistinctInv' /\ ManifestInv'
    BY <2>1, <2>2, CoverStep, DistinctStep, ManifestStep
  <2>5. RecordsInv' /\ OwnRecords' /\ RowsInv'
    BY <2>1, <2>2, RecordsStep, OwnStep, RowsStep
  <2>6. QED
    BY <2>3, <2>4, <2>5 DEF Inv
<1>3. QED
  BY <1>1, <1>2

\* The inductive invariant holds in every state of every campaign: of each of
\* the four programs, any command lines that its parser accepts, any number of
\* sessions, kills and interruptions, and any tools in place.
THEOREM CampaignInvariant == Spec => []Inv
<1>1. Init => Inv
  BY InitInv
<1>2. Inv /\ [Next]_vars => Inv'
  BY NextInv
<1>3. QED
  BY <1>1, <1>2, PTL DEF Spec

\* Every variable keeps its type.
THEOREM CampaignTypes == Spec => []TypeInv
<1>1. Inv => TypeInv
  BY DEF Inv
<1>2. QED
  BY <1>1, CampaignInvariant, PTL

\* The exit code of main: 0 means a row of raw.csv for every target and no
\* failure listed; 1 means each target has a row or is in failed_runs.csv, and
\* both only for an accepted timeout of CacheBench.
THEOREM ExitIsTruthful == Spec => []ExitTellsOutcome
<1>1. Inv => ExitTellsOutcome
  BY DEF Inv, CoverInv
<1>2. QED
  BY <1>1, CampaignInvariant, PTL

\* The temporary files and databases of a session are gone when it has ended,
\* unless it was killed or told to keep them: the finally blocks of the runs.
THEOREM TempsAreRemoved == Spec => []TempsRemoved
<1>1. Inv => TempsRemoved
  BY DEF Inv, TempsInv
<1>2. QED
  BY <1>1, CampaignInvariant, PTL

\* Rows of different points are as many as their points.
LEMMA OneRowEachCounts ==
  ASSUME NEW rs \in Seq(RunRow), OneRowEach(rs)
  PROVE  Cardinality(Keys(rs)) = Len(rs)
<1> DEFINE n == Len(rs)
           f == [i \in 1..n |-> rs[i].key]
<1>1. n \in Nat /\ DOMAIN rs = 1..n
  BY LenProperties
<1>2. Keys(rs) = {f[i] : i \in 1..n}
  BY <1>1 DEF Keys
<1>3. \A i, j \in 1..n : f[i] = f[j] => i = j
  BY <1>1 DEF OneRowEach
<1>4. DOMAIN f = 1..n /\ f = [i \in 1..n |-> f[i]]
  OBVIOUS
<1> HIDE DEF f, n
<1>5. f \in Bijection(1..n, Keys(rs))
  <2>1. f \in [1..n -> Keys(rs)]
    BY <1>2, <1>4
  <2>2. f \in Injection(1..n, Keys(rs))
    BY <1>3, <1>4, <2>1 DEF Injection, IsInjective
  <2>3. f \in Surjection(1..n, Keys(rs))
    BY <1>2, <2>1 DEF Surjection
  <2>4. QED
    BY <2>2, <2>3 DEF Bijection
<1>6. Cardinality(Keys(rs)) = n
  BY <1>1, <1>5, FS_CountingElements DEF ExistsBijection
<1>7. QED
  BY <1>6 DEF n

\* Every row, in memory or in raw.csv, is of the last run of its point, which
\* has ended well (or has printed its results before CacheBench was stopped),
\* except under a forced session's leftovers; and no point has two rows:
\* main's resume, append and write_raw_csv, across kills.
THEOREM RowsAreBacked == Spec => []RowsAreOfFinishedRuns
<1>1. ASSUME Inv
      PROVE  RowsAreOfFinishedRuns
  <2>1. TypeInv /\ PhaseInv /\ DistinctInv /\ RowsInv
    BY <1>1 DEF Inv
  <2>2. rows \in Seq(RunRow) /\ rawCsv.rows \in Seq(RunRow)
    BY <2>1 DEF TypeInv
  <2>3. ASSUME NEW rs \in Seq(RunRow), BackedRows(rs), NEW i \in DOMAIN rs
        PROVE  Backed(rs[i])
    <3>1. rs[i].key \in Points
      BY <2>3, RowKeys
    <3>2. <<"run", rs[i].key>> \in Names
      BY <3>1 DEF Names
    <3>3. L[<<"run", rs[i].key>>] = Log(<<"run", rs[i].key>>)
      BY <2>1, <3>2, LogFacts
    <3>4. QED
      BY <2>3, <3>3 DEF Backed, BackedRows
  <2>4. ~mixed => BackedRows(rows)
    <3>1. CASE pc = "off"
      <4>1. rows = <<>>
        BY <2>1, <3>1 DEF PhaseInv, Loaded
      <4>2. QED
        BY <4>1, NoRowsBacked
    <3>2. CASE pc # "off"
      BY <2>1, <3>2 DEF RowsInv, Clean
    <3>3. QED
      BY <3>1, <3>2
  <2>5. ~mixed => BackedRows(rawCsv.rows)
    BY <2>1 DEF RowsInv
  <2>6. Cardinality(Keys(rawCsv.rows)) = Len(rawCsv.rows)
    BY <2>1, <2>2, OneRowEachCounts DEF DistinctInv
  <2>7. ~mixed => \A i \in DOMAIN rows : Backed(rows[i])
    BY <2>2, <2>3, <2>4
  <2>8. ~mixed => \A i \in DOMAIN rawCsv.rows : Backed(rawCsv.rows[i])
    BY <2>2, <2>3, <2>5
  <2>9. QED
    BY <2>6, <2>7, <2>8 DEF RowsAreOfFinishedRuns
<1>2. QED
  BY <1>1, CampaignInvariant, PTL

\* No step of a resumed session writes to the log of a completed run.
LEMMA CompletedLogKept ==
  ASSUME Inv, Steps, UNCHANGED experiment, NEW name \in DOMAIN logs,
         args # <<>>, args.resume, name[1] = "run", Completed(name[2])
  PROVE  logs'[name] = logs[name]
<1>0. TypeInv /\ PhaseInv /\ RunInv /\ ManifestInv /\ RecordsInv
  BY DEF Inv
<1>1. CASE logs' = logs
  BY <1>1
<1>2. CASE Opens \/ PrintResults \/ Closes
  <2> DEFINE k == name[2]
  <2>1. name \in Names /\ name = <<"run", k>> /\ k \in Points
    BY <1>0 DEF TypeInv, Names
  <2>2. /\ pos <= Len(targets) /\ pc # "off"
        /\ \A p \in Points : p # Key => L'[<<"run", p>>] = L[<<"run", p>>]
    BY <1>0, <1>2, LogsOfRows
  <2>3. L[name] = Log(name) /\ Log(name) = logs[name]
    BY <1>0, <2>1, LogFacts DEF Log
  <2>4. CASE k = Key
    <3> DEFINE rec == [log |-> name, run |-> Log(name).run, ok |-> TRUE]
    <3>1. Log(name).rc = "ok" /\ \E i \in DOMAIN commands.recs : commands.recs[i] = rec
      BY <2>1 DEF Completed
    <3>2. rec \in ToSet(commands.recs) /\ rec.ok /\ rec.log = name
      BY <3>1 DEF ToSet
    <3> HIDE DEF rec
    <3>3. ToSet(commands.recs) \subseteq ToSet(records)
      BY <1>0, <2>2 DEF ManifestInv
    <3>4. rec \in Usable(records)
      BY <3>2, <3>3 DEF Usable
    <3>5. experiment # "four" /\ rec.log[2] = Key /\ L[rec.log].rc = "ok"
      BY <1>0, <2>2, <2>3, <2>4, <3>1, <3>2 DEF PhaseInv
    <3>6. QED
      BY <1>0, <1>2, <3>4, <3>5, NoRecordOfKey
  <2>5. CASE k # Key
    <3>1. L'[name] = L[name]
      BY <2>1, <2>2, <2>5
    <3>2. name \in DOMAIN logs'
      <4>1. CASE Opens
        <5>1. PICK st \in {"init", "run"} : OpenLog(st)
          BY <4>1 DEF Opens
        <5>2. DOMAIN logs' = DOMAIN logs \cup {<<st, Key>>}
          BY <1>0, <2>2, <5>1, LogOpened
        <5>3. QED
          BY <5>2
      <4>2. CASE PrintResults
        <5>1. DOMAIN logs' = DOMAIN logs
          BY <1>0, <4>2, LogPrinted
        <5>2. QED
          BY <5>1
      <4>3. CASE Closes
        <5>1. PICK rc \in {"ok", "bad", "timeout"} : CloseLog(rc)
          BY <4>3 DEF Closes
        <5>2. DOMAIN logs' = DOMAIN logs
          BY <1>0, <5>1, LogClosed
        <5>3. QED
          BY <5>2
      <4>4. QED
        BY <1>2, <4>1, <4>2, <4>3
    <3>3. L'[name] = logs'[name]
      <4>1. L' = [m \in Names |-> IF m \in DOMAIN logs' THEN logs'[m] ELSE NoLog]
        BY DEF L, Log
      <4>2. QED
        BY <2>1, <3>2, <4>1
    <3>4. QED
      BY <2>3, <3>1, <3>3
  <2>6. QED
    BY <2>4, <2>5
<1>3. logs' = logs \/ Opens \/ PrintResults \/ Closes
  BY DEF Steps, Starts, StartSession, Ends, ToolsFound, Builds, Built, Loads, Skips, OpenManifest,
         CloseManifest, Rows, Fails, Finishes, OpensRaw, OpenRaw, ClosesRaw, CloseRaw, Report, files
<1>4. QED
  BY <1>1, <1>2, <1>3

\* A resumed session never truncates the log of a run that its records tell
\* was completed: the completed_keys test before CommandLogger.run.
THEOREM CompletedKept == Spec => CompletedRunsKept
<1>1. ASSUME Inv, [Next]_vars
      PROVE  [\A name \in DOMAIN logs :
                (args # <<>> /\ args.resume /\ name[1] = "run" /\ Completed(name[2]))
                  => logs'[name] = logs[name]]_vars
  <2>1. CASE UNCHANGED vars
    BY <2>1
  <2>2. CASE Next
    <3>1. Steps /\ UNCHANGED experiment
      BY <1>1, <2>2, EveryStep
    <3>2. QED
      BY <1>1, <3>1, CompletedLogKept
  <2>3. QED
    BY <1>1, <2>1, <2>2
<1>2. QED
  BY <1>1, CampaignInvariant, PTL DEF Spec, CompletedRunsKept

=============================================================================
