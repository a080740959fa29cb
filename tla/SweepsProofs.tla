---------------------------- MODULE SweepsProofs ---------------------------
(***************************************************************************)
(* The sweep programs keep what their properties promise, for any command  *)
(* lines, repeats, nodes, ratios, sessions and kills.  Each program has an *)
(* invariant of its own over the shared files: which commands a session    *)
(* has before it (every lock asked for is in the output of one of them,    *)
(* parts come before their merge), what those behind it have left in the   *)
(* raw.csv files, whose the logs are, and what a kill at any point of them *)
(* may have left for the next session.  None of the properties is          *)
(* inductive: exit code 0 rests on files that were written many steps, or  *)
(* sessions, before.                                                       *)
(***************************************************************************)
EXTENDS Sweeps, SequenceTheorems, FiniteSetTheorems, NaturalsInduction,
        WellFoundedInduction, TLAPS

----------------------------------------------------------------------------
(* Sequences.                                                              *)

\* A nonempty set of naturals has a least element.
LEMMA LeastNatural ==
  ASSUME NEW S \in SUBSET Nat, S # {}
  PROVE  \E x \in S : \A y \in S : x <= y
<1> DEFINE R == OpToRel(<, Nat)
<1>1. IsWellFoundedOn(R, Nat)
  BY NatLessThanWellFounded
<1>2. \A x, y \in Nat : x < y => <<x, y>> \in R
  BY DEF OpToRel
<1> HIDE DEF R
<1>3. PICK x \in S : \A y \in S : ~ (<<y, x>> \in R)
  BY <1>1, WFMin
<1>4. \A y \in S : ~ (y < x) /\ x \in Nat /\ y \in Nat
  BY <1>2, <1>3
<1>5. QED
  BY <1>3, <1>4

\* What a sequence over S has at its positions.
LEMMA SeqFacts ==
  ASSUME NEW S, NEW s \in Seq(S)
  PROVE  /\ Len(s) \in Nat /\ DOMAIN s = 1..Len(s) /\ \A i \in 1..Len(s) : s[i] \in S
         /\ ToSet(s) \subseteq S /\ \A i \in 1..Len(s) : s[i] \in ToSet(s)
         /\ s # <<>> => Len(s) \in Nat \ {0} /\ Last(s) \in S
<1>1. Len(s) \in Nat /\ DOMAIN s = 1..Len(s) /\ \A i \in 1..Len(s) : s[i] \in S
  BY LenProperties
<1>2. s # <<>> => Len(s) \in Nat \ {0}
  BY EmptySeq
<1>3. QED
  BY <1>1, <1>2 DEF ToSet, Last

\* A function on the first n numbers is a sequence.
LEMMA FunctionIsSeq ==
  ASSUME NEW S, NEW n \in Nat, NEW f \in [1..n -> S]
  PROVE  f \in Seq(S) /\ DOMAIN f = 1..n
BY SeqDef

\* A concatenation holds what its parts hold; once, if they are apart.
LEMMA ConcatFacts ==
  ASSUME NEW S, NEW s \in Seq(S), NEW t \in Seq(S)
  PROVE  /\ s \o t \in Seq(S)
         /\ ToSet(s \o t) = ToSet(s) \cup ToSet(t)
         /\ s # <<>> => s \o t # <<>>
         /\ IsInjective(s) /\ IsInjective(t) /\ ToSet(s) \cap ToSet(t) = {} => IsInjective(s \o t)
<1> DEFINE c == s \o t
           m == Len(s)
           n == Len(t)
<1>1. /\ c \in Seq(S) /\ Len(c) = m + n
      /\ \A i \in 1..m + n : c[i] = IF i <= m THEN s[i] ELSE t[i - m]
  BY ConcatProperties
<1>2. /\ m \in Nat /\ DOMAIN s = 1..m /\ n \in Nat /\ DOMAIN t = 1..n
      /\ DOMAIN c = 1..m + n
  BY <1>1, LenProperties
<1>3. s # <<>> => c # <<>>
  BY ConcatEqualIffEmpty
<1> HIDE DEF c, m, n
<1>4. \A i \in 1..m : i \in 1..m + n /\ c[i] = s[i]
  BY <1>1, <1>2
<1>5. \A i \in 1..n : i + m \in 1..m + n /\ c[i + m] = t[i]
  <2> SUFFICES ASSUME NEW i \in 1..n
               PROVE  i + m \in 1..m + n /\ c[i + m] = t[i]
    OBVIOUS
  <2>1. i + m \in 1..m + n /\ ~(i + m <= m) /\ (i + m) - m = i
    BY <1>2
  <2>2. QED
    BY <1>1, <2>1
<1>6. \A i \in 1..m + n : \/ i \in 1..m /\ c[i] = s[i]
                          \/ i - m \in 1..n /\ c[i] = t[i - m]
  BY <1>1, <1>2
<1>7. ToSet(c) = ToSet(s) \cup ToSet(t)
  <2>1. ToSet(c) \subseteq ToSet(s) \cup ToSet(t)
    BY <1>2, <1>6 DEF ToSet
  <2>2. ToSet(s) \subseteq ToSet(c)
    BY <1>2, <1>4 DEF ToSet
  <2>3. ToSet(t) \subseteq ToSet(c)
    BY <1>2, <1>5 DEF ToSet
  <2>4. QED
    BY <2>1, <2>2, <2>3
<1>8. ASSUME IsInjective(s), IsInjective(t), ToSet(s) \cap ToSet(t) = {}
      PROVE  IsInjective(c)
  <2> SUFFICES ASSUME NEW i \in 1..m + n, NEW j \in 1..m + n, c[i] = c[j]
               PROVE  i = j
    BY <1>2 DEF IsInjective
  <2>1. \A k \in 1..m : s[k] \in ToSet(s)
    BY <1>2 DEF ToSet
  <2>2. \A k \in 1..n : t[k] \in ToSet(t)
    BY <1>2 DEF ToSet
  <2>3. CASE i \in 1..m /\ j \in 1..m
    BY <1>2, <1>4, <1>8, <2>3 DEF IsInjective
  <2>4. CASE i \notin 1..m /\ j \notin 1..m
    <3>1. i - m \in 1..n /\ j - m \in 1..n /\ t[i - m] = t[j - m]
      BY <1>6, <2>4
    <3>2. i - m = j - m
      BY <1>2, <1>8, <3>1 DEF IsInjective
    <3>3. QED
      BY <1>2, <3>2
  <2>5. CASE i \in 1..m /\ j \notin 1..m
    BY <1>4, <1>6, <1>8, <2>1, <2>2, <2>5
  <2>6. CASE i \notin 1..m /\ j \in 1..m
    BY <1>4, <1>6, <1>8, <2>1, <2>2, <2>6
  <2>7. QED
    BY <2>3, <2>4, <2>5, <2>6
<1>9. QED
  BY <1>1, <1>3, <1>7, <1>8 DEF c

\* The function by which FlattenSeq is defined exists.
LEMMA FlattenExists ==
  ASSUME NEW s, NEW n \in Nat
  PROVE  \E f : f = [i \in 1..n |-> IF i = 1 THEN s[i] ELSE f[i - 1] \o s[i]]
<1> DEFINE Has(m) == \E f : f = [i \in 1..m |-> IF i = 1 THEN s[i] ELSE f[i - 1] \o s[i]]
           Bad == {m \in Nat : ~Has(m)}
<1>1. SUFFICES ASSUME ~Has(n)
               PROVE  FALSE
  OBVIOUS
<1>2. Bad \in SUBSET Nat /\ Bad # {}
  BY <1>1
<1>3. PICK m \in Bad : \A y \in Bad : m <= y
  BY <1>2, LeastNatural
<1>4. CASE m = 0
  <2> DEFINE f == [i \in 1..0 |-> s[i]]
  <2>1. f = [i \in 1..0 |-> IF i = 1 THEN s[i] ELSE f[i - 1] \o s[i]]
    OBVIOUS
  <2>2. QED
    BY <1>3, <1>4, <2>1
<1>5. CASE m # 0
  <2>1. m - 1 \in Nat /\ ~(m <= m - 1) /\ (m - 1) + 1 = m
    BY <1>3, <1>5
  <2>2. Has(m - 1)
    BY <1>3, <2>1
  <2>3. PICK f : f = [i \in 1..m - 1 |-> IF i = 1 THEN s[i] ELSE f[i - 1] \o s[i]]
    BY <2>2
  <2> DEFINE g == [i \in 1..m |-> IF i \in 1..m - 1 THEN f[i] ELSE IF i = 1 THEN s[i] ELSE f[i - 1] \o s[i]]
  <2>4. ASSUME NEW i \in 1..m
        PROVE  g[i] = IF i = 1 THEN s[i] ELSE g[i - 1] \o s[i]
    <3>1. i # 1 => i - 1 \in 1..m - 1 /\ i - 1 \in 1..m
      BY <1>3
    <3>2. i # 1 => g[i - 1] = f[i - 1]
      BY <3>1
    <3> HIDE DEF g
    <3>3. g[i] = IF i \in 1..m - 1 THEN f[i] ELSE IF i = 1 THEN s[i] ELSE f[i - 1] \o s[i]
      BY DEF g
    <3>4. i \in 1..m - 1 => f[i] = IF i = 1 THEN s[i] ELSE f[i - 1] \o s[i]
      BY <2>3
    <3>5. QED
      BY <3>2, <3>3, <3>4
  <2>5. g = [i \in 1..m |-> IF i = 1 THEN s[i] ELSE g[i - 1] \o s[i]]
    <3>1. g = [i \in 1..m |-> g[i]]
      OBVIOUS
    <3> HIDE DEF g
    <3>2. QED
      BY <2>4, <3>1
  <2>6. Has(m)
    <3> HIDE DEF g
    <3>1. QED
      BY <2>5
  <2>7. QED
    BY <1>3, <2>6
<1>6. QED
  BY <1>4, <1>5

\* What a concatenation of sequences holds, and when it holds nothing twice.
LEMMA FlattenFacts ==
  ASSUME NEW S, NEW s \in Seq(Seq(S))
  PROVE  /\ FlattenSeq(s) \in Seq(S)
         /\ ToSet(FlattenSeq(s)) = UNION {ToSet(s[i]) : i \in DOMAIN s}
         /\ /\ \A i \in DOMAIN s : IsInjective(s[i])
            /\ \A i, j \in DOMAIN s : i # j => ToSet(s[i]) \cap ToSet(s[j]) = {}
            => IsInjective(FlattenSeq(s))
<1> DEFINE n == Len(s)
<1>1. n \in Nat /\ DOMAIN s = 1..n /\ \A i \in 1..n : s[i] \in Seq(S)
  BY LenProperties
<1>2. CASE n = 0
  <2>1. FlattenSeq(s) = s
    BY <1>2 DEF FlattenSeq
  <2>2. s = <<>> /\ DOMAIN s = {}
    BY <1>1, <1>2, EmptySeq
  <2>3. QED
    BY <2>1, <2>2, EmptySeq DEF ToSet, IsInjective
<1>3. CASE n # 0
  <2> DEFINE f == CHOOSE g : g = [i \in 1..n |-> IF i = 1 THEN s[i] ELSE g[i - 1] \o s[i]]
             Apart == /\ \A i \in 1..n : IsInjective(s[i])
                      /\ \A i, j \in 1..n : i # j => ToSet(s[i]) \cap ToSet(s[j]) = {}
             Fine(k) == /\ f[k] \in Seq(S)
                        /\ ToSet(f[k]) = UNION {ToSet(s[i]) : i \in 1..k}
                        /\ Apart => IsInjective(f[k])
             Bad == {k \in 1..n : ~Fine(k)}
  <2>1. FlattenSeq(s) = f[n]
    BY <1>3, Zenon DEF FlattenSeq
  <2>2. f = [i \in 1..n |-> IF i = 1 THEN s[i] ELSE f[i - 1] \o s[i]]
    BY <1>1, FlattenExists, Zenon
  <2> HIDE DEF f
  <2>3. \A i \in 1..n : f[i] = IF i = 1 THEN s[i] ELSE f[i - 1] \o s[i]
    BY <2>2
  <2>4. ASSUME NEW k \in 1..n, k = 1 \/ Fine(k - 1)
        PROVE  Fine(k)
    <3>1. CASE k = 1
      <4>1. f[k] = s[1] /\ 1..k = {1} /\ 1 \in 1..n
        BY <2>3, <3>1
      <4>2. UNION {ToSet(s[i]) : i \in 1..k} = ToSet(s[1])
        BY <4>1
      <4>3. f[k] \in Seq(S) /\ (Apart => IsInjective(f[k]))
        BY <1>1, <4>1
      <4>4. QED
        BY <4>1, <4>2, <4>3
    <3>2. CASE k # 1
      <4>1. /\ k - 1 \in 1..n /\ k \in 1..n /\ 1..k = (1..k - 1) \cup {k} /\ Fine(k - 1)
            /\ \A i \in 1..k - 1 : i \in 1..n /\ i # k
        BY <1>1, <2>4, <3>2
      <4>2. f[k] = f[k - 1] \o s[k]
        BY <2>3, <3>2
      <4>3. Apart => ToSet(f[k - 1]) \cap ToSet(s[k]) = {}
        <5> SUFFICES ASSUME Apart, NEW x \in ToSet(f[k - 1]), x \in ToSet(s[k])
                     PROVE  FALSE
          OBVIOUS
        <5>1. PICK i \in 1..k - 1 : x \in ToSet(s[i])
          BY <4>1
        <5>2. i \in 1..n /\ i # k
          BY <4>1
        <5>3. ToSet(s[i]) \cap ToSet(s[k]) = {}
          BY <5>2
        <5>4. QED
          BY <5>1, <5>3
      <4>4. s[k] \in Seq(S) /\ f[k - 1] \in Seq(S)
        BY <1>1, <4>1
      <4>5. /\ f[k] \in Seq(S)
            /\ ToSet(f[k]) = ToSet(f[k - 1]) \cup ToSet(s[k])
            /\ Apart => IsInjective(f[k])
        <5>1. /\ f[k] \in Seq(S)
              /\ ToSet(f[k]) = ToSet(f[k - 1]) \cup ToSet(s[k])
              /\ (IsInjective(f[k - 1]) /\ IsInjective(s[k]) /\ ToSet(f[k - 1]) \cap ToSet(s[k]) = {}
                    => IsInjective(f[k]))
          BY <4>2, <4>4, ConcatFacts
        <5>2. QED
          BY <4>1, <4>3, <5>1
      <4>6. QED
        BY <4>1, <4>5
    <3>3. QED
      BY <3>1, <3>2
  <2>5. Bad = {}
    <3>1. SUFFICES ASSUME Bad # {}
                   PROVE  FALSE
      OBVIOUS
    <3>2. Bad \in SUBSET Nat
      OBVIOUS
    <3>3. PICK k \in Bad : \A y \in Bad : k <= y
      BY <3>1, <3>2, LeastNatural
    <3>4. k \in 1..n /\ ~Fine(k)
      BY <3>3
    <3> HIDE DEF Fine
    <3>5. k # 1 => k - 1 \in 1..n /\ ~(k <= k - 1)
      BY <1>1, <3>4
    <3>6. k = 1 \/ Fine(k - 1)
      BY <3>3, <3>5
    <3>7. QED
      BY <2>4, <3>4, <3>6
  <2>6. Fine(n)
    <3> HIDE DEF Fine
    <3>1. QED
      BY <1>1, <1>3, <2>5
  <2>7. QED
    BY <1>1, <2>1, <2>6
<1>4. QED
  BY <1>2, <1>3

\* The elements of s that are in S, none twice unless it is so in s.
LEMMA AmongFacts ==
  ASSUME NEW T, NEW s \in Seq(T), NEW S
  PROVE  /\ Among(s, S) \in Seq(T)
         /\ ToSet(Among(s, S)) = ToSet(s) \cap S
         /\ IsInjective(s) => IsInjective(Among(s, S))
<1> DEFINE m == [i \in DOMAIN s |-> IF s[i] \in S THEN <<s[i]>> ELSE <<>>]
<1>1. Among(s, S) = FlattenSeq(m)
  BY DEF Among, ForEach
<1>2. Len(s) \in Nat /\ DOMAIN s = 1..Len(s) /\ \A i \in 1..Len(s) : s[i] \in T
  BY LenProperties
<1>3. \A i \in 1..Len(s) : /\ m[i] \in Seq(T) /\ IsInjective(m[i])
                           /\ ToSet(m[i]) = {s[i]} \cap S
  <2> SUFFICES ASSUME NEW i \in 1..Len(s)
               PROVE  m[i] \in Seq(T) /\ IsInjective(m[i]) /\ ToSet(m[i]) = {s[i]} \cap S
    OBVIOUS
  <2>1. CASE s[i] \in S
    <3>1. m[i] = <<s[i]>> /\ DOMAIN <<s[i]>> = {1} /\ <<s[i]>>[1] = s[i]
      BY <1>2, <2>1
    <3>2. <<s[i]>> \in Seq(T)
      BY <1>2
    <3> HIDE DEF m
    <3>3. QED
      BY <2>1, <3>1, <3>2 DEF IsInjective, ToSet
  <2>2. CASE s[i] \notin S
    <3>1. m[i] = <<>> /\ DOMAIN <<>> = {} /\ <<>> \in Seq(T)
      BY <1>2, <2>2, EmptySeq
    <3> HIDE DEF m
    <3>2. QED
      BY <2>2, <3>1 DEF IsInjective, ToSet
  <2>3. QED
    BY <2>1, <2>2
<1>4. m \in Seq(Seq(T)) /\ DOMAIN m = 1..Len(s)
  <2>1. \A i \in 1..Len(s) : m[i] \in Seq(T)
    BY <1>3
  <2>2. m = [i \in 1..Len(s) |-> m[i]]
    BY <1>2
  <2> HIDE DEF m
  <2>3. m \in [1..Len(s) -> Seq(T)]
    BY <2>1, <2>2
  <2>4. QED
    BY <1>2, <2>3, SeqDef
<1> HIDE DEF m
<1>5. ToSet(Among(s, S)) = ToSet(s) \cap S
  <2>1. ToSet(Among(s, S)) = UNION {ToSet(m[i]) : i \in 1..Len(s)}
    BY <1>1, <1>4, FlattenFacts
  <2>2. UNION {ToSet(m[i]) : i \in 1..Len(s)} = UNION {{s[i]} \cap S : i \in 1..Len(s)}
    BY <1>3
  <2>3. QED
    <3>1. UNION {{s[i]} \cap S : i \in 1..Len(s)} = {s[i] : i \in 1..Len(s)} \cap S
      OBVIOUS
    <3>2. ToSet(s) = {s[i] : i \in 1..Len(s)}
      BY <1>2 DEF ToSet
    <3>3. QED
      BY <2>1, <2>2, <3>1, <3>2
<1>6. ASSUME IsInjective(s)
      PROVE  IsInjective(Among(s, S))
  <2>1. \A i, j \in 1..Len(s) : i # j => ToSet(m[i]) \cap ToSet(m[j]) = {}
    <3>1. \A i, j \in 1..Len(s) : i # j => s[i] # s[j]
      BY <1>2, <1>6 DEF IsInjective
    <3>2. \A i \in 1..Len(s) : ToSet(m[i]) \subseteq {s[i]}
      BY <1>3
    <3>3. QED
      BY <3>1, <3>2
  <2>2. QED
    BY <1>1, <1>3, <1>4, <2>1, FlattenFacts, Zenon
<1>7. Among(s, S) \in Seq(T)
  BY <1>1, <1>4, FlattenFacts
<1>8. QED
  BY <1>5, <1>6, <1>7

\* Len and the elements of a sequence, whatever these are.
IsSeq(s) == s \in Seq(ToSet(s))

\* A sequence over S is one over its own elements, of which there are finitely many.
LEMMA SeqOfItsElements ==
  ASSUME NEW S, NEW s \in Seq(S)
  PROVE  IsSeq(s) /\ IsFiniteSet(ToSet(s))
<1>1. Len(s) \in Nat /\ DOMAIN s = 1..Len(s) /\ \A i \in 1..Len(s) : s[i] \in ToSet(s)
  BY SeqFacts
<1>2. s \in [1..Len(s) -> ToSet(s)]
  <2>1. s \in [1..Len(s) -> S]
    BY <1>1, LenProperties
  <2>2. s = [i \in 1..Len(s) |-> s[i]]
    BY <2>1
  <2>3. QED
    BY <1>1, <2>2
<1>3. s \in Surjection(1..Len(s), ToSet(s))
  BY <1>1, <1>2 DEF Surjection, ToSet
<1>4. IsFiniteSet(ToSet(s))
  BY <1>1, <1>3, FS_NatSurjection DEF ExistsSurjection
<1>5. QED
  BY <1>1, <1>2, <1>4, FunctionIsSeq DEF IsSeq

\* A finite set made a sequence.
LEMMA SetToSeqFacts ==
  ASSUME NEW S, IsFiniteSet(S)
  PROVE  SetToSeq(S) \in Seq(S) /\ ToSet(SetToSeq(S)) = S /\ IsInjective(SetToSeq(S))
<1> DEFINE n == Cardinality(S)
           f == SetToSeq(S)
<1>1. n \in Nat /\ ExistsBijection(1..n, S)
  BY FS_CardinalityType
<1>2. PICK g \in Bijection(1..n, S) : TRUE
  BY <1>1 DEF ExistsBijection
<1>3. g \in [1..n -> S] /\ IsInjective(g)
  BY <1>2 DEF Bijection, Injection, IsInjective
<1>4. f \in [1..n -> S] /\ IsInjective(f)
  BY <1>3 DEF SetToSeq
<1> HIDE DEF f
<1>5. f \in Injection(1..n, S)
  BY <1>4 DEF Injection, IsInjective
<1>6. Cardinality(1..n) = n
  BY <1>1, FS_Interval
<1>7. f \in Surjection(1..n, S)
  BY <1>5, <1>6, FS_Injection
<1>8. f \in Seq(S) /\ DOMAIN f = 1..n
  BY <1>1, <1>4, FunctionIsSeq
<1>9. ToSet(f) = S
  BY <1>4, <1>7, <1>8 DEF Surjection, ToSet
<1>10. QED
  BY <1>4, <1>8, <1>9 DEF f

----------------------------------------------------------------------------
(* The merge of results.                                                   *)

Order(a) == OfKind(a.roots, "commands") \o OfKind(a.roots, "raw")

\* The i-th root that is read has a row of the key, and it may be read for it.
HasKey(a, i, k) ==
    /\ k[2] \notin a.exclude
    /\ IF Order(a)[i].kind = "raw" THEN k \in ToSet(Order(a)[i].keys)
       ELSE \E j \in DOMAIN Order(a)[i].recs :
                Order(a)[i].recs[j].key = k /\ Measured(Order(a)[i].recs[j])

\* The keys of the first n roots, each once and from the last root that has it.
LastSeen(a, rs, n) ==
    /\ IsSeq(rs)
    /\ \A i, j \in DOMAIN rs : rs[i].name = rs[j].name => i = j
    /\ \A r \in ToSet(rs) :
        /\ r.by \in 1..n /\ HasKey(a, r.by, r.name)
        /\ \A i \in 1..n : HasKey(a, i, r.name) => i <= r.by
    /\ \A i \in 1..n : \A k : HasKey(a, i, k) => \E r \in ToSet(rs) : r.name = k

MergeInv ==
    /\ pc \in {"off", "next", "report_open"} /\ failed = {}
    /\ pc # "off" =>
        /\ args \in MergeSessions /\ work = Order(args) /\ pos \in 1..Len(work) + 1
        /\ LastSeen(args, rows, pos - 1)
        /\ status = "running" /\ report.state # "whole"
    /\ pc = "report_open" => pos = Len(work) + 1 /\ work # <<>>
    /\ status \in {"ok", "missing"} =>
        /\ pc = "off" /\ args \in MergeSessions /\ report.state = "whole"
        /\ LastSeen(args, report.rows, Len(Order(args))) /\ Order(args) # <<>>
        /\ status = "ok" <=> \A k \in Head(Order(args)).expected :
            k[2] \in args.exclude \/ \E r \in ToSet(report.rows) : r.name = k

\* The roots in the order in which they are read.
LEMMA OrderFacts ==
  ASSUME NEW a \in MergeSessions
  PROVE  IsSeq(Order(a)) /\ ToSet(Order(a)) \subseteq ToSet(a.roots)
<1> DEFINE S == ToSet(a.roots)
<1>1. a.roots \in Seq(S)
  BY MergeLinesAssumption
<1>2. \A kind : OfKind(a.roots, kind) \in Seq(S)
  BY <1>1, AmongFacts DEF OfKind
<1> HIDE DEF S
<1>3. Order(a) \in Seq(S)
  BY <1>2, ConcatFacts DEF Order
<1>4. QED
  BY <1>3, SeqFacts, SeqOfItsElements DEF S

\* The keys that a root adds are those for which it may be read.
LEMMA KeysRead ==
  ASSUME NEW a \in MergeSessions, NEW i \in 1..Len(Order(a)), NEW k
  PROVE  LET root == Order(a)[i]
             keys == IF root.kind = "raw" THEN root.keys ELSE recover_command_rows(root)
         IN  IsFiniteSet(ToSet(keys)) /\ (HasKey(a, i, k) <=> k[2] \notin a.exclude /\ k \in ToSet(keys))
<1> DEFINE root == Order(a)[i]
           keys == IF root.kind = "raw" THEN root.keys ELSE recover_command_rows(root)
<1>1. root \in ToSet(a.roots)
  BY OrderFacts, LenProperties DEF IsSeq, ToSet
<1>2. IsSeq(root.keys) /\ IsSeq(root.recs)
  BY <1>1, MergeLinesAssumption DEF IsSeq
<1>3. CASE root.kind = "raw"
  BY <1>2, <1>3, SeqOfItsElements DEF IsSeq, HasKey
<1>4. CASE root.kind # "raw"
  <2> DEFINE measured == Among(root.recs, {rec \in ToSet(root.recs) : Measured(rec)})
  <2>1. measured \in Seq(ToSet(root.recs)) /\ ToSet(measured) = {rec \in ToSet(root.recs) : Measured(rec)}
    BY <1>2, AmongFacts DEF IsSeq
  <2>2. recover_command_rows(root) = [j \in DOMAIN measured |-> measured[j].key]
    BY DEF recover_command_rows
  <2> HIDE DEF measured
  <2>3. ToSet(recover_command_rows(root)) = {rec.key : rec \in ToSet(measured)}
    BY <2>2 DEF ToSet
  <2>4. IsFiniteSet(ToSet(measured))
    BY <2>1, SeqOfItsElements
  <2>5. IsFiniteSet({rec.key : rec \in ToSet(measured)})
    <3> DEFINE f == [rec \in ToSet(measured) |-> rec.key]
    <3>1. f \in Surjection(ToSet(measured), {rec.key : rec \in ToSet(measured)})
      BY DEF Surjection
    <3>2. QED
      BY <2>4, <3>1, FS_Surjection
  <2>6. k \in ToSet(recover_command_rows(root)) <=>
            \E j \in DOMAIN root.recs : root.recs[j].key = k /\ Measured(root.recs[j])
    BY <2>1, <2>3 DEF ToSet
  <2>7. QED
    BY <1>4, <2>3, <2>5, <2>6 DEF HasKey
<1>5. QED
  BY <1>3, <1>4

\* Reading one more root.
LEMMA UpdateFacts ==
  ASSUME NEW a \in MergeSessions, a = args, NEW n \in 0..Len(Order(a)) - 1, pos = n + 1,
         LastSeen(a, rows, n),
         NEW keys, IsFiniteSet(ToSet(keys)),
         \A k : HasKey(a, pos, k) <=> k[2] \notin a.exclude /\ k \in ToSet(keys)
  PROVE  LastSeen(a, Update(rows, keys), n + 1)
<1> DEFINE new == {k \in ToSet(keys) : k[2] \notin args.exclude}
           kept == {r \in ToSet(rows) : r.name \notin new}
           added == {[name |-> k, by |-> pos] : k \in new}
           rs == Update(rows, keys)
<1>1. IsFiniteSet(kept \cup added)
  <2>1. IsFiniteSet(new)
    BY FS_Subset
  <2> DEFINE f == [k \in new |-> [name |-> k, by |-> pos]]
  <2>2. f \in Surjection(new, added)
    BY DEF Surjection
  <2>3. IsFiniteSet(added)
    BY <2>1, <2>2, FS_Surjection
  <2>4. IsFiniteSet(kept)
    <3>1. IsFiniteSet(ToSet(rows))
      BY SeqOfItsElements DEF LastSeen, IsSeq
    <3>2. QED
      BY <3>1, FS_Subset
  <2>5. QED
    BY <2>3, <2>4, FS_Union
<1>2. rs = SetToSeq(kept \cup added)
  BY DEF Update
<1>3. rs \in Seq(kept \cup added) /\ ToSet(rs) = kept \cup added /\ IsInjective(rs)
  BY <1>1, <1>2, SetToSeqFacts
<1> HIDE DEF rs
<1>4. \A k : HasKey(a, pos, k) <=> k \in new
  OBVIOUS
<1>5. \A r, q \in kept \cup added : r.name = q.name => r = q
  <2>1. \A r, q \in kept : r.name = q.name => r = q
    BY SeqFacts DEF LastSeen, ToSet
  <2>2. \A r \in kept : r.name \notin new
    OBVIOUS
  <2>3. \A r \in added : r.name \in new /\ r = [name |-> r.name, by |-> pos]
    OBVIOUS
  <2> HIDE DEF kept, added, new
  <2>4. QED
    BY <2>1, <2>2, <2>3
<1>6. IsSeq(rs)
  BY <1>3, SeqOfItsElements
<1>7. \A i, j \in DOMAIN rs : rs[i].name = rs[j].name => i = j
  <2>1. \A i \in DOMAIN rs : rs[i] \in kept \cup added
    BY <1>3 DEF ToSet
  <2>2. QED
    BY <1>3, <1>5, <2>1 DEF IsInjective
<1>8. \A r \in ToSet(rs) :
        /\ r.by \in 1..n + 1 /\ HasKey(a, r.by, r.name)
        /\ \A i \in 1..n + 1 : HasKey(a, i, r.name) => i <= r.by
  <2> SUFFICES ASSUME NEW r \in kept \cup added
               PROVE  /\ r.by \in 1..n + 1 /\ HasKey(a, r.by, r.name)
                      /\ \A i \in 1..n + 1 : HasKey(a, i, r.name) => i <= r.by
    BY <1>3
  <2>1. CASE r \in added
    <3>1. r.name \in new /\ r.by = n + 1
      BY <2>1
    <3>2. QED
      BY <1>4, <3>1
  <2>2. CASE r \in kept
    <3>1. r \in ToSet(rows) /\ r.name \notin new
      BY <2>2
    <3>2. /\ r.by \in 1..n /\ HasKey(a, r.by, r.name)
          /\ \A i \in 1..n : HasKey(a, i, r.name) => i <= r.by
      BY <3>1 DEF LastSeen
    <3>3. ~HasKey(a, n + 1, r.name)
      BY <1>4, <3>1
    <3>4. \A i \in 1..n + 1 : i \in 1..n \/ i = n + 1
      OBVIOUS
    <3>5. r.by \in 1..n + 1
      BY <3>2
    <3>6. QED
      BY <3>2, <3>3, <3>4, <3>5
  <2>3. QED
    BY <2>1, <2>2
<1>9. \A i \in 1..n + 1 : \A k : HasKey(a, i, k) => \E r \in ToSet(rs) : r.name = k
  <2> SUFFICES ASSUME NEW i \in 1..n + 1, NEW k, HasKey(a, i, k)
               PROVE  \E r \in kept \cup added : r.name = k
    BY <1>3
  <2>1. CASE k \in new
    <3> DEFINE r == [name |-> k, by |-> pos]
    <3>1. r \in added /\ r.name = k
      BY <2>1
    <3> HIDE DEF r, added, kept
    <3>2. QED
      BY <3>1
  <2>2. CASE k \notin new
    <3>1. i \in 1..n
      BY <1>4, <2>2
    <3>2. PICK r \in ToSet(rows) : r.name = k
      BY <3>1 DEF LastSeen
    <3>3. QED
      BY <2>2, <3>2
  <2>3. QED
    BY <2>1, <2>2
<1>10. QED
  BY <1>6, <1>7, <1>8, <1>9 DEF LastSeen, rs

\* Every step of the merge keeps its invariant.
LEMMA MergeKeeps ==
  ASSUME MergeInv, MergeStart \/ MergeStep \/ Kill
  PROVE  MergeInv'
<1> USE SweepRootAssumption
<1>1. CASE MergeStart
  <2>1. PICK a \in MergeSessions :
            IF report.state # "absent" /\ ~a.force
            THEN Exit("refused") /\ args' = a /\ UNCHANGED report
            ELSE /\ Begin(a, "roots", Order(a))
                 /\ report' = [state |-> "empty", rows |-> <<>>]
    BY <1>1 DEF MergeStart, Order
  <2>2. failed' = failed
    BY <1>1 DEF MergeStart
  <2>3. CASE Exit("refused")
    BY <2>2, <2>3 DEF Exit, MergeInv
  <2>4. CASE Begin(a, "roots", Order(a)) /\ report' = [state |-> "empty", rows |-> <<>>]
    <3>1. LastSeen(a, <<>>, 0)
      BY EmptySeq DEF LastSeen, IsSeq, ToSet
    <3>2. pc' = "next" /\ args' = a /\ work' = Order(a) /\ pos' = 1 /\ rows' = <<>> /\ status' = "running"
      BY <2>4 DEF Begin
    <3>3. 1 \in 1..Len(Order(a)) + 1
      BY OrderFacts, LenProperties DEF IsSeq
    <3>4. QED
      BY <2>2, <2>4, <3>1, <3>2, <3>3 DEF MergeInv
  <2>5. QED
    BY <2>1, <2>3, <2>4
<1>2. CASE ReadRoot
  <2>1. /\ pc = "next" /\ pos <= Len(work) /\ args \in MergeSessions /\ work = Order(args)
        /\ pos \in 1..Len(work) + 1 /\ Len(work) \in Nat
    BY <1>2, OrderFacts, LenProperties DEF ReadRoot, MergeInv, IsSeq
  <2>2. UNCHANGED <<args, files, bounds>>
    BY <1>2 DEF ReadRoot
  <2>3. CASE Exit("error")
    BY <2>2, <2>3 DEF Exit, MergeInv, files
  <2>4. CASE ~Unreadable(Item)
    <3> DEFINE keys == IF Item.kind = "raw" THEN Item.keys ELSE recover_command_rows(Item)
    <3>1. rows' = Update(rows, keys) /\ pos' = pos + 1 /\ UNCHANGED <<pc, stage, work, log, failures, status>>
      BY <1>2, <2>4 DEF ReadRoot
    <3>2. pos - 1 \in 0..Len(work) - 1 /\ pos = (pos - 1) + 1 /\ pos \in 1..Len(work)
      BY <2>1
    <3>3. IsFiniteSet(ToSet(keys)) /\ \A k : HasKey(args, pos, k) <=> k[2] \notin args.exclude /\ k \in ToSet(keys)
      BY <2>1, <3>2, KeysRead DEF Item
    <3>4. LastSeen(args, rows, pos - 1)
      BY <2>1 DEF MergeInv
    <3> HIDE DEF keys
    <3>5. LastSeen(args, Update(rows, keys), pos)
      BY <2>1, <3>2, <3>3, <3>4, UpdateFacts
    <3>6. pos' \in 1..Len(work) + 1 /\ pos' - 1 = pos
      BY <2>1, <3>1
    <3>7. QED
      BY <2>1, <2>2, <3>1, <3>5, <3>6 DEF MergeInv, files
  <2>5. QED
    BY <1>2, <2>3, <2>4 DEF ReadRoot
<1>3. CASE RootsRead
  <2>1. /\ pc = "next" /\ pos > Len(work) /\ args \in MergeSessions /\ work = Order(args)
        /\ pos \in 1..Len(work) + 1 /\ Len(work) \in Nat
    BY <1>3, OrderFacts, LenProperties DEF RootsRead, Over, MergeInv, IsSeq
  <2>2. UNCHANGED <<args, raw, failed, settings, logs, torn, bounds>>
    BY <1>3 DEF RootsRead
  <2>3. CASE NoSettings
    BY <1>3, <2>2, <2>3 DEF RootsRead, Exit, MergeInv
  <2>4. CASE ~NoSettings
    <3>1. /\ pc' = "report_open" /\ report' = [state |-> "torn", rows |-> <<>>]
          /\ UNCHANGED <<stage, work, pos, log, rows, failures, status>> /\ work # <<>>
      BY <1>3, <2>4 DEF RootsRead, NoSettings
    <3>2. QED
      BY <2>1, <2>2, <3>1 DEF MergeInv
  <2>5. QED
    BY <2>3, <2>4
<1>4. CASE WriteMerged
  <2>1. /\ args \in MergeSessions /\ work = Order(args) /\ Len(work) \in Nat
        /\ pos = Len(work) + 1 /\ work # <<>> /\ LastSeen(args, rows, Len(work))
    BY <1>4, OrderFacts, LenProperties DEF WriteMerged, MergeInv, IsSeq
  <2>2. /\ pc' = "off" /\ report' = [state |-> "whole", rows |-> rows]
        /\ status' = IF expected_keys \subseteq {rows[i].name : i \in DOMAIN rows} THEN "ok" ELSE "missing"
        /\ UNCHANGED <<args, failed>>
    BY <1>4 DEF WriteMerged, Exit
  <2>3. expected_keys \subseteq {rows[i].name : i \in DOMAIN rows}
            <=> \A k \in Head(work).expected : k[2] \in args.exclude \/ \E r \in ToSet(rows) : r.name = k
    <3>1. \A k : k \in {rows[i].name : i \in DOMAIN rows} <=> \E r \in ToSet(rows) : r.name = k
      BY DEF ToSet
    <3>2. \A k : k \in expected_keys <=> k \in Head(work).expected /\ k[2] \notin args.exclude
      BY DEF expected_keys
    <3> HIDE DEF expected_keys
    <3>3. QED
      BY <3>1, <3>2
  <2>4. report'.rows = rows /\ report'.state = "whole"
    BY <2>2
  <2>5. LastSeen(args, rows, Len(Order(args))) /\ Order(args) # <<>> /\ work = Order(args)
    BY <2>1
  <2>6. status' \in {"ok", "missing"} =>
            (status' = "ok" <=> \A k \in Head(Order(args)).expected :
                k[2] \in args.exclude \/ \E r \in ToSet(rows) : r.name = k)
    BY <2>2, <2>3, <2>5
  <2>7. QED
    BY <2>1, <2>2, <2>4, <2>5, <2>6 DEF MergeInv
<1>5. CASE Kill
  <2>1. pc # "off" /\ UNCHANGED <<args, failed>> /\ pc' = "off" /\ status' = "killed"
    BY <1>5 DEF Kill, Exit
  <2>2. QED
    BY <2>1 DEF MergeInv
<1>6. QED
  BY <1>1, <1>2, <1>3, <1>4, <1>5 DEF MergeStep

\* Induction over the first n numbers.
LEMMA UpTo ==
  ASSUME NEW n \in Nat, NEW G, n # 0 => 1 \in G, \A k \in 2..n : k - 1 \in G => k \in G
  PROVE  1..n \subseteq G
<1>1. SUFFICES ASSUME (1..n) \ G # {}
               PROVE  FALSE
  OBVIOUS
<1>2. PICK k \in (1..n) \ G : \A y \in (1..n) \ G : k <= y
  <2> DEFINE B == (1..n) \ G
  <2>1. B \in SUBSET Nat /\ B # {}
    BY <1>1
  <2> HIDE DEF B
  <2>2. \E k \in B : \A y \in B : k <= y
    BY <2>1, LeastNatural
  <2>3. QED
    BY <2>2 DEF B
<1>3. k - 1 \in 1..n => k - 1 \in G
  BY <1>2
<1>4. k # 1
  BY <1>2
<1>5. k \in 2..n /\ k - 1 \in 1..n
  BY <1>2, <1>4
<1>6. QED
  BY <1>2, <1>3, <1>5

\* The partial concatenations of which FlattenSeq is the last.
LEMMA FlattenSteps ==
  ASSUME NEW S, NEW s \in Seq(S), s # <<>>
  PROVE  \E f : /\ FlattenSeq(s) = f[Len(s)] /\ f[1] = s[1]
                /\ \A k \in 2..Len(s) : f[k] = f[k - 1] \o s[k]
<1> DEFINE n == Len(s)
           f == CHOOSE g : g = [i \in 1..n |-> IF i = 1 THEN s[i] ELSE g[i - 1] \o s[i]]
<1>1. n \in Nat \ {0}
  BY SeqFacts
<1>2. FlattenSeq(s) = f[n]
  BY <1>1, Zenon DEF FlattenSeq
<1>3. f = [i \in 1..n |-> IF i = 1 THEN s[i] ELSE f[i - 1] \o s[i]]
  BY <1>1, FlattenExists, Zenon
<1> HIDE DEF f
<1>4. \A i \in 1..n : f[i] = IF i = 1 THEN s[i] ELSE f[i - 1] \o s[i]
  BY <1>3
<1>5. 1 \in 1..n /\ \A k \in 2..n : k \in 1..n /\ k # 1
  BY <1>1
<1>6. QED
  BY <1>2, <1>4, <1>5

\* A set of sequences that is closed under concatenation has all of them.
LEMMA FlattenClosed ==
  ASSUME NEW P, <<>> \in P, \A u, v \in P : u \o v \in P, NEW s \in Seq(P)
  PROVE  FlattenSeq(s) \in P
<1>1. CASE s = <<>>
  BY <1>1, EmptySeq DEF FlattenSeq
<1>2. CASE s # <<>>
  <2>1. PICK f : /\ FlattenSeq(s) = f[Len(s)] /\ f[1] = s[1]
                 /\ \A k \in 2..Len(s) : f[k] = f[k - 1] \o s[k]
    BY <1>2, FlattenSteps
  <2>2. Len(s) \in Nat \ {0} /\ \A i \in 1..Len(s) : s[i] \in P
    BY <1>2, SeqFacts
  <2> DEFINE G == {k \in Nat : f[k] \in P}
  <2>3. 1 \in G
    BY <2>1, <2>2
  <2>4. \A k \in 2..Len(s) : k - 1 \in G => k \in G
    <3>1. \A k \in 2..Len(s) : k \in 1..Len(s) /\ k \in Nat
      BY <2>2
    <3>2. QED
      BY <2>1, <2>2, <3>1
  <2>5. 1..Len(s) \subseteq G
    <3> HIDE DEF G
    <3>1. QED
      BY <2>2, <2>3, <2>4, UpTo
  <2>6. QED
    BY <2>1, <2>2, <2>5
<1>3. QED
  BY <1>1, <1>2

\* The concatenation of sequences of one length.
LEMMA FlattenLength ==
  ASSUME NEW S, NEW m \in Nat, NEW s \in Seq({u \in Seq(S) : Len(u) = m})
  PROVE  FlattenSeq(s) \in Seq(S) /\ Len(FlattenSeq(s)) = Len(s) * m
<1>1. CASE s = <<>>
  BY <1>1, EmptySeq DEF FlattenSeq
<1>2. CASE s # <<>>
  <2>1. PICK f : /\ FlattenSeq(s) = f[Len(s)] /\ f[1] = s[1]
                 /\ \A k \in 2..Len(s) : f[k] = f[k - 1] \o s[k]
    BY <1>2, FlattenSteps
  <2>2. Len(s) \in Nat \ {0} /\ \A i \in 1..Len(s) : s[i] \in Seq(S) /\ Len(s[i]) = m
    BY <1>2, SeqFacts
  <2> DEFINE G == {k \in Nat : f[k] \in Seq(S) /\ Len(f[k]) = k * m}
  <2>3. 1 \in G
    BY <2>1, <2>2
  <2>4. ASSUME NEW k \in 2..Len(s), k - 1 \in G
        PROVE  k \in G
    <3>1. k \in 1..Len(s) /\ k \in Nat
      BY <2>2
    <3>2. f[k] = f[k - 1] \o s[k] /\ s[k] \in Seq(S) /\ Len(s[k]) = m
      BY <2>1, <2>2, <3>1
    <3> DEFINE u == f[k - 1]
               l == (k - 1) * m
    <3>3. u \in Seq(S) /\ Len(u) = l
      BY <2>4
    <3>4. l + m = k * m
      BY <3>1
    <3> HIDE DEF u, l
    <3>5. u \o s[k] \in Seq(S) /\ Len(u \o s[k]) = Len(u) + Len(s[k])
      BY <3>2, <3>3, ConcatProperties
    <3>6. f[k] = u \o s[k]
      BY <3>2 DEF u
    <3>7. QED
      BY <3>1, <3>2, <3>3, <3>4, <3>5, <3>6
  <2>5. 1..Len(s) \subseteq G
    <3> HIDE DEF G
    <3>1. QED
      BY <2>2, <2>3, <2>4, UpTo
  <2>6. QED
    BY <2>1, <2>2, <2>5
<1>3. QED
  BY <1>1, <1>2

\* In a concatenation of disjoint sequences the elements of one come before
\* those of a later one.
LEMMA FlattenOrder ==
  ASSUME NEW S, NEW s \in Seq(Seq(S)),
         \A i, j \in DOMAIN s : i # j => ToSet(s[i]) \cap ToSet(s[j]) = {},
         NEW i \in DOMAIN s, NEW j \in DOMAIN s, i < j
  PROVE  \A p, q \in DOMAIN FlattenSeq(s) :
            FlattenSeq(s)[p] \in ToSet(s[i]) /\ FlattenSeq(s)[q] \in ToSet(s[j]) => p < q
<1>1. Len(s) \in Nat \ {0} /\ DOMAIN s = 1..Len(s) /\ s # <<>> /\ \A k \in 1..Len(s) : s[k] \in Seq(S)
  BY SeqFacts, EmptySeq
<1>2. PICK f : /\ FlattenSeq(s) = f[Len(s)] /\ f[1] = s[1]
               /\ \A k \in 2..Len(s) : f[k] = f[k - 1] \o s[k]
  BY <1>1, FlattenSteps
<1> DEFINE Fine(k) ==
        /\ f[k] \in Seq(S) /\ ToSet(f[k]) = UNION {ToSet(s[h]) : h \in 1..k}
        /\ j <= k => \A p, q \in DOMAIN f[k] : f[k][p] \in ToSet(s[i]) /\ f[k][q] \in ToSet(s[j]) => p < q
           G == {k \in 1..Len(s) : Fine(k)}
<1>3. 1 \in G
  <2>1. 1 \in 1..Len(s) /\ 1..1 = {1} /\ ~(j <= 1)
    BY <1>1
  <2>2. QED
    BY <1>1, <1>2, <2>1
<1>4. ASSUME NEW k \in 2..Len(s), k - 1 \in G
      PROVE  k \in G
  <2>1. /\ k - 1 \in 1..Len(s) /\ k \in 1..Len(s) /\ 1..k = (1..k - 1) \cup {k}
        /\ \A h \in 1..k - 1 : h \in 1..Len(s) /\ h # k
    BY <1>1, <1>4
  <2> DEFINE u == f[k - 1]
             v == s[k]
  <2>2. Fine(k - 1)
    BY <1>4
  <2>3. u \in Seq(S) /\ v \in Seq(S) /\ f[k] = u \o v
    BY <1>1, <1>2, <2>1, <2>2
  <2>4. f[k] \in Seq(S) /\ ToSet(f[k]) = ToSet(u) \cup ToSet(v)
    BY <2>3, ConcatFacts
  <2>5. ToSet(f[k]) = UNION {ToSet(s[h]) : h \in 1..k}
    BY <2>1, <2>2, <2>4
  <2>6. /\ Len(u) \in Nat /\ DOMAIN u = 1..Len(u) /\ Len(v) \in Nat /\ DOMAIN v = 1..Len(v)
        /\ DOMAIN f[k] = 1..Len(u) + Len(v)
        /\ \A p \in 1..Len(u) : u[p] \in ToSet(u)
        /\ \A p \in 1..Len(v) : v[p] \in ToSet(v)
        /\ \A p \in DOMAIN f[k] : \/ p \in 1..Len(u) /\ f[k][p] = u[p]
                                  \/ p > Len(u) /\ f[k][p] \in ToSet(v)
    <3>1. Len(u) \in Nat /\ DOMAIN u = 1..Len(u) /\ Len(v) \in Nat /\ DOMAIN v = 1..Len(v)
      BY <2>3, SeqFacts
    <3>2. \A p \in 1..Len(u) : u[p] \in ToSet(u)
      BY <2>3, SeqFacts
    <3>3. \A p \in 1..Len(v) : v[p] \in ToSet(v)
      BY <2>3, SeqFacts
    <3> HIDE DEF u, v
    <3>4. /\ DOMAIN f[k] = 1..Len(u) + Len(v)
          /\ \A p \in 1..Len(u) + Len(v) : f[k][p] = IF p <= Len(u) THEN u[p] ELSE v[p - Len(u)]
      <4>1. /\ Len(u \o v) = Len(u) + Len(v) /\ DOMAIN (u \o v) = 1..Len(u \o v)
            /\ \A p \in 1..Len(u) + Len(v) : (u \o v)[p] = IF p <= Len(u) THEN u[p] ELSE v[p - Len(u)]
        BY <2>3, ConcatProperties, LenProperties
      <4>2. QED
        BY <2>3, <4>1
    <3>5. \A p \in 1..Len(u) + Len(v) : p \in 1..Len(u) \/ (p > Len(u) /\ p - Len(u) \in 1..Len(v) /\ ~(p <= Len(u)))
      BY <3>1
    <3>6. \A p \in 1..Len(u) : p <= Len(u)
      BY <3>1
    <3>7. QED
      BY <3>1, <3>2, <3>3, <3>4, <3>5, <3>6
  <2>7. ASSUME j <= k, NEW p \in DOMAIN f[k], NEW q \in DOMAIN f[k],
               f[k][p] \in ToSet(s[i]), f[k][q] \in ToSet(s[j])
        PROVE  p < q
    <3>1. i # k /\ i \in 1..k - 1 /\ i # j
      BY <1>1, <2>7
    <3>2. ToSet(s[i]) \cap ToSet(v) = {}
      BY <1>1, <2>1, <3>1
    <3>3. p \in 1..Len(u) /\ f[k][p] = u[p]
      BY <2>6, <2>7, <3>2
    <3>4. CASE j = k
      <4>1. ToSet(u) \cap ToSet(v) = {}
        <5>1. \A h \in 1..k - 1 : ToSet(s[h]) \cap ToSet(s[k]) = {}
          BY <1>1, <2>1
        <5>2. QED
          BY <2>2, <5>1
      <4>2. q > Len(u)
        BY <2>6, <2>7, <3>4, <4>1
      <4>3. QED
        BY <2>6, <3>3, <4>2
    <3>5. CASE j # k
      <4>1. ToSet(s[j]) \cap ToSet(v) = {} /\ j <= k - 1
        <5>1. j \in 1..Len(s) /\ k \in 1..Len(s) /\ j <= k - 1
          BY <1>1, <2>1, <2>7, <3>5
        <5>2. QED
          BY <1>1, <3>5, <5>1
      <4>2. q \in 1..Len(u) /\ f[k][q] = u[q]
        BY <2>6, <2>7, <4>1
      <4>3. \A a, b \in DOMAIN u : u[a] \in ToSet(s[i]) /\ u[b] \in ToSet(s[j]) => a < b
        BY <2>2, <4>1
      <4>4. p \in DOMAIN u /\ q \in DOMAIN u /\ u[p] \in ToSet(s[i]) /\ u[q] \in ToSet(s[j])
        BY <2>6, <2>7, <3>3, <4>2
      <4>5. QED
        BY <4>3, <4>4
    <3>6. QED
      BY <3>4, <3>5
  <2>8. QED
    BY <2>1, <2>4, <2>5, <2>7
<1>5. 1..Len(s) \subseteq G
  <2> HIDE DEF G
  <2>1. QED
    BY <1>1, <1>3, <1>4, UpTo
<1>6. Fine(Len(s)) /\ j <= Len(s)
  <2> HIDE DEF Fine
  <2>1. Len(s) \in 1..Len(s) /\ j <= Len(s)
    BY <1>1
  <2>2. QED
    BY <1>5, <2>1
<1>7. FlattenSeq(s) = f[Len(s)]
  BY <1>2
<1>8. QED
  BY <1>6, <1>7

\* Of one sequence.
LEMMA FlattenOne ==
  ASSUME NEW x
  PROVE  FlattenSeq(<<x>>) = x
<1>1. <<x>> \in Seq({x}) /\ Len(<<x>>) = 1 /\ <<x>> # <<>> /\ <<x>>[1] = x
  OBVIOUS
<1>2. QED
  BY <1>1, FlattenSteps

\* What the quotient of naturals is.
LEMMA Division ==
  ASSUME NEW a \in Nat, NEW b \in Nat \ {0}
  PROVE  LET t == a \div b IN t \in Nat /\ b * t <= a /\ a < b * t + b
BY SMTT(30)

\* The greater of 1 and t, and the smaller of N and t.
LEMMA MinMax ==
  ASSUME NEW N \in Int, NEW t \in Int
  PROVE  /\ Max({1, t}) = IF t >= 1 THEN t ELSE 1
         /\ Min({N, t}) = IF N <= t THEN N ELSE t
<1>1. \E x \in {1, t} : \A y \in {1, t} : x >= y
  <2>1. CASE t >= 1
    BY <2>1
  <2>2. CASE ~(t >= 1)
    BY <2>2
  <2>3. QED
    BY <2>1, <2>2
<1>2. Max({1, t}) \in {1, t} /\ \A y \in {1, t} : Max({1, t}) >= y
  BY <1>1 DEF Max
<1>3. \E x \in {N, t} : \A y \in {N, t} : x <= y
  <2>1. CASE N <= t
    BY <2>1
  <2>2. CASE ~(N <= t)
    BY <2>2
  <2>3. QED
    BY <2>1, <2>2
<1>4. Min({N, t}) \in {N, t} /\ \A y \in {N, t} : Min({N, t}) <= y
  BY <1>3 DEF Min
<1>5. QED
  BY <1>2, <1>4

\* Numbers nearer to zero have smaller squares.
LEMMA Squares ==
  ASSUME NEW u \in Int, NEW v \in Int
  PROVE  /\ -v <= u /\ u <= v => u * u <= v * v
         /\ -v < u /\ u < v => u * u < v * v
<1>1. v * v - u * u = (v - u) * (v + u)
  OBVIOUS
<1>2. \A x, y \in Int : (x >= 0 /\ y >= 0 => x * y >= 0) /\ (x > 0 /\ y > 0 => x * y > 0)
  OBVIOUS
<1>3. v - u \in Int /\ v + u \in Int /\ v * v \in Int /\ u * u \in Int
  OBVIOUS
<1>4. /\ -v <= u /\ u <= v => v - u >= 0 /\ v + u >= 0
      /\ -v < u /\ u < v => v - u > 0 /\ v + u > 0
  OBVIOUS
<1>5. QED
  BY <1>1, <1>2, <1>3, <1>4

\* Rounding half up finds the number of CPUs whose ratio is nearest.
LEMMA Rounding ==
  ASSUME NEW c \in Nat \ {0}, NEW o \in Nat, NEW N \in Nat \ {0}
  PROVE  LET t == (2 * o + 3 * c) \div (2 * c)
             n == Min({N, Max({1, t})})
         IN /\ n \in 1..N
            /\ n = CHOOSE k \in 1..N : \A m \in 1..N :
                    LET Off(j) == LET d == j * c - c - o IN d * d
                    IN Off(k) < Off(m) \/ (Off(k) = Off(m) /\ k >= m)
<1> DEFINE t == (2 * o + 3 * c) \div (2 * c)
           n == Min({N, Max({1, t})})
           D(j) == j * c - c - o
           Better(k, m) == D(k) * D(k) < D(m) * D(m) \/ (D(k) * D(k) = D(m) * D(m) /\ k >= m)
<1>1. t \in Nat /\ 2 * (t * c) <= 2 * o + 3 * c /\ 2 * o + 3 * c < 2 * (t * c) + 2 * c
  <2>1. 2 * o + 3 * c \in Nat /\ 2 * c \in Nat \ {0}
    OBVIOUS
  <2>2. t \in Nat /\ (2 * c) * t <= 2 * o + 3 * c /\ 2 * o + 3 * c < (2 * c) * t + 2 * c
    BY <2>1, Division
  <2> HIDE DEF t
  <2>3. (2 * c) * t = 2 * (t * c)
    BY <2>2
  <2>4. QED
    BY <2>2, <2>3
<1> HIDE DEF t
<1>2. t >= 1
  <2>1. t = 0 => t * c = 0
    BY <1>1
  <2>2. QED
    BY <1>1, <2>1
<1>3. n = IF N <= t THEN N ELSE t
  <2>1. t \in Int /\ N \in Int
    BY <1>1
  <2>2. Max({1, t}) = t
    BY <1>2, <2>1, MinMax
  <2>3. Min({N, t}) = IF N <= t THEN N ELSE t
    BY <2>1, MinMax
  <2>4. QED
    BY <2>2, <2>3
<1> HIDE DEF n
<1>4. n \in 1..N /\ n <= t /\ (n # N => n = t)
  BY <1>1, <1>2, <1>3
<1>5. \A j \in Nat : j * c \in Nat
  OBVIOUS
<1>6. \A i, j \in Nat : i < j => i * c + c <= j * c
  <2> SUFFICES ASSUME NEW i \in Nat, NEW j \in Nat, i < j
               PROVE  i * c + c <= j * c
    OBVIOUS
  <2>1. (j - i - 1) * c >= 0
    OBVIOUS
  <2>2. (j - i - 1) * c = j * c - i * c - c
    OBVIOUS
  <2>3. QED
    BY <1>5, <2>1, <2>2
<1>7. ASSUME NEW m \in 1..N
      PROVE  Better(n, m)
  <2>1. n * c \in Nat /\ m * c \in Nat /\ t * c \in Nat /\ D(n) \in Int /\ D(m) \in Int
    BY <1>1, <1>4, <1>5
  <2>2. n * c <= t * c
    BY <1>1, <1>4, <1>6, <2>1
  <2>3. CASE m < n
    <3>1. m * c + c <= n * c
      BY <1>4, <1>6, <2>3
    <3>2. D(m) <= D(n) /\ D(n) <= -D(m)
      BY <1>1, <2>1, <2>2, <3>1
    <3> DEFINE v == -D(m)
               u == D(n)
    <3>3. v \in Int /\ u \in Int /\ -v <= u /\ u <= v /\ v * v = D(m) * D(m)
      BY <2>1, <3>2
    <3>4. u * u <= v * v
      <4> HIDE DEF u, v
      <4>1. QED
        BY <3>3, Squares
    <3>5. D(n) * D(n) <= D(m) * D(m) /\ D(n) * D(n) \in Int /\ D(m) * D(m) \in Int
      BY <2>1, <3>3, <3>4
    <3>6. n >= m
      BY <1>4, <2>3
    <3> HIDE DEF D
    <3>7. QED
      BY <3>5, <3>6
  <2>4. CASE m = n
    BY <1>4, <2>4
  <2>5. CASE m > n
    <3>1. n = t /\ n * c + c <= m * c
      BY <1>4, <1>6, <2>5
    <3>2. D(n) < D(m) /\ -D(m) < D(n)
      BY <1>1, <2>1, <3>1
    <3> HIDE DEF D
    <3>3. QED
      BY <2>1, <3>2, Squares
  <2>6. QED
    BY <1>4, <2>3, <2>4, <2>5
<1>8. ASSUME NEW k \in 1..N, \A m \in 1..N : Better(k, m)
      PROVE  k = n
  <2>1. Better(k, n) /\ Better(n, k) /\ D(k) * D(k) \in Int /\ D(n) * D(n) \in Int
    BY <1>4, <1>7, <1>8
  <2> HIDE DEF D
  <2>2. QED
    BY <1>4, <2>1
<1>9. n = CHOOSE k \in 1..N : \A m \in 1..N : Better(k, m)
  <2> HIDE DEF Better
  <2>1. QED
    BY <1>4, <1>7, <1>8
<1>10. QED
  BY <1>4, <1>9 DEF n, t

\* The CPUs in the order of their nodes: there is one, and none is there twice.
LEMMA OrderedCpus ==
  /\ ordered_cpus \in Seq(Nat) /\ IsInjective(ordered_cpus) /\ Len(ordered_cpus) \in Nat \ {0}
  /\ DOMAIN ordered_cpus = 1..Len(ordered_cpus) /\ \A i \in DOMAIN ordered_cpus : ordered_cpus[i] \in Nat
<1>1. ordered_cpus \in Seq(Nat) /\ IsInjective(ordered_cpus)
  BY SweepRootAssumption, FlattenFacts DEF ordered_cpus
<1>2. ordered_cpus # <<>>
  <2>1. PICK i \in DOMAIN Nodes : Nodes[i] # <<>>
    BY SweepRootAssumption
  <2>2. Nodes[i] \in Seq(Nat)
    BY SweepRootAssumption, LenProperties
  <2>3. 1 \in 1..Len(Nodes[i]) /\ Nodes[i][1] \in ToSet(Nodes[i])
    BY <2>1, <2>2, SeqFacts
  <2>4. Nodes[i][1] \in ToSet(ordered_cpus)
    BY <2>3, SweepRootAssumption, FlattenFacts DEF ordered_cpus
  <2>5. QED
    BY <2>4, EmptySeq DEF ToSet
<1>3. QED
  BY <1>1, <1>2, SeqFacts

\* The first n CPUs in the order of the nodes: n of them, and one of a node only
\* with all those of the nodes before.
LEMMA CpuList ==
  ASSUME NEW n \in 1..Len(ordered_cpus)
  PROVE  LET used == ToSet(cpu_list_for_threads(n)) IN
         /\ Cardinality(used) = n /\ cpu_list_for_threads(n) # <<>>
         /\ \A i, j \in DOMAIN Nodes :
                (i < j /\ used \cap ToSet(Nodes[j]) # {}) => ToSet(Nodes[i]) \subseteq used
<1> DEFINE s == ordered_cpus
           u == cpu_list_for_threads(n)
<1>1. /\ s \in Seq(Nat) /\ IsInjective(s) /\ Len(s) \in Nat /\ DOMAIN s = 1..Len(s)
      /\ \A i \in 1..Len(s) : s[i] \in Nat
  BY OrderedCpus
<1>2. u \in Seq(Nat) /\ Len(u) = n /\ DOMAIN u = 1..n /\ \A i \in 1..n : u[i] = s[i]
  <2>1. \A i \in 1..n : s[i] \in Nat
    BY <1>1
  <2>2. u \in Seq(Nat) /\ Len(u) = n /\ \A i \in 1..n : u[i] = s[i]
    BY <1>1, <2>1, SubSeqProperties DEF cpu_list_for_threads
  <2>3. QED
    BY <2>2, LenProperties
<1> HIDE DEF s, u
<1> n \in Nat /\ 1..n \subseteq 1..Len(s)
  BY <1>1 DEF s
<1>3. Cardinality(ToSet(u)) = n
  <2>1. u \in Injection(1..n, ToSet(u)) /\ u \in Surjection(1..n, ToSet(u))
    <3>1. u \in [1..n -> ToSet(u)]
      BY <1>2, SeqOfItsElements, LenProperties DEF IsSeq
    <3>2. \A i, j \in 1..n : u[i] = u[j] => i = j
      BY <1>1, <1>2 DEF IsInjective
    <3>3. u \in Injection(1..n, ToSet(u))
      BY <3>1, <3>2 DEF Injection, IsInjective
    <3>4. \A y \in ToSet(u) : \E i \in 1..n : u[i] = y
      BY <1>2 DEF ToSet
    <3>5. QED
      BY <3>1, <3>3, <3>4 DEF Surjection
  <2>2. n \in Nat /\ 1 <= n /\ IsFiniteSet(1..n) /\ Cardinality(1..n) = n
    BY <1>1, FS_Interval
  <2>3. QED
    BY <2>1, <2>2, FS_Surjection
<1>4. u # <<>>
  BY <1>1, <1>2, EmptySeq
<1>5. ASSUME NEW i \in DOMAIN Nodes, NEW j \in DOMAIN Nodes, i < j, NEW y \in ToSet(u), y \in ToSet(Nodes[j]),
             NEW x \in ToSet(Nodes[i])
      PROVE  x \in ToSet(u)
  <2>1. PICK q \in 1..n : u[q] = y
    BY <1>2 DEF ToSet
  <2>2. x \in ToSet(s)
    BY SweepRootAssumption, FlattenFacts DEF s, ordered_cpus
  <2>3. PICK p \in DOMAIN s : s[p] = x
    BY <2>2 DEF ToSet
  <2>4. q \in DOMAIN s /\ s[q] = y
    BY <1>1, <1>2, <2>1
  <2>5. p < q
    BY <1>5, <2>3, <2>4, SweepRootAssumption, FlattenOrder DEF s, ordered_cpus
  <2>6. p \in 1..n
    BY <1>1, <2>1, <2>3, <2>5
  <2>7. QED
    BY <1>2, <2>3, <2>6 DEF ToSet
<1>6. QED
  BY <1>3, <1>4, <1>5 DEF u

\* The number of CPUs of a ratio is that of the machine nearest to it, the greater of two that are as near.
LEMMA CpusOfRatio ==
  ASSUME NEW combo \in (Nat \ {0}) \X Nat
  PROVE  /\ taskset_target_cpu_count(combo) \in 1..Len(ordered_cpus)
         /\ taskset_target_cpu_count(combo) = CHOOSE n \in 1..Len(ordered_cpus) :
                    \A m \in 1..Len(ordered_cpus) :
                        LET Off(k) == LET d == k * combo[1] - combo[1] - combo[2] IN d * d
                        IN Off(n) < Off(m) \/ (Off(n) = Off(m) /\ n >= m)
<1> DEFINE c == combo[1]
           o == combo[2]
           N == Len(ordered_cpus)
<1>1. c \in Nat \ {0} /\ o \in Nat /\ N \in Nat \ {0}
  BY OrderedCpus
<1> HIDE DEF c, o, N
<1>2. LET t == (2 * o + 3 * c) \div (2 * c)
             n == Min({N, Max({1, t})})
         IN /\ n \in 1..N
            /\ n = CHOOSE k \in 1..N : \A m \in 1..N :
                    LET Off(j) == LET d == j * c - c - o IN d * d
                    IN Off(k) < Off(m) \/ (Off(k) = Off(m) /\ k >= m)
  BY <1>1, Rounding
<1>3. QED
  BY <1>2, Zenon DEF c, o, N, taskset_target_cpu_count

----------------------------------------------------------------------------
\* The points of threads, and of a ratio.
LEMMA PointsFacts ==
  ASSUME NEW threads \in Seq(Nat)
  PROVE  Points(threads) \in Seq(Nat \X (1..Repeats)) /\ Len(Points(threads)) = Len(threads) * Repeats
<1> DEFINE S == Nat \X (1..Repeats)
           m == [i \in DOMAIN threads |-> [r \in 1..Repeats |-> <<threads[i], r>>]]
           U == {u \in Seq(S) : Len(u) = Repeats}
<1>1. Len(threads) \in Nat /\ DOMAIN threads = 1..Len(threads) /\ \A i \in 1..Len(threads) : threads[i] \in Nat
  BY SeqFacts
<1>2. Repeats \in Nat
  BY SweepRootAssumption
<1>3. ASSUME NEW i \in 1..Len(threads)
      PROVE  [r \in 1..Repeats |-> <<threads[i], r>>] \in U
  <2> DEFINE u == [r \in 1..Repeats |-> <<threads[i], r>>]
  <2>1. u \in [1..Repeats -> S] /\ DOMAIN u = 1..Repeats
    BY <1>1
  <2> HIDE DEF u
  <2>2. u \in Seq(S)
    BY <1>2, <2>1, FunctionIsSeq
  <2>3. Len(u) = Repeats
    BY <1>2, <2>1, <2>2, LenProperties
  <2>4. u \in U
    BY <2>2, <2>3
  <2>5. QED
    BY <2>4 DEF u
<1>4. m \in [1..Len(threads) -> U]
  BY <1>1, <1>3
<1> HIDE DEF U
<1>5. m \in Seq(U) /\ Len(m) = Len(threads)
  <2> HIDE DEF m
  <2>1. m \in Seq(U) /\ DOMAIN m = 1..Len(threads)
    BY <1>1, <1>4, FunctionIsSeq
  <2>2. QED
    BY <1>1, <2>1, LenProperties
<1>6. Points(threads) = FlattenSeq(m)
  BY DEF Points, ForEach
<1> HIDE DEF m, S
<1>7. FlattenSeq(m) \in Seq(S) /\ Len(FlattenSeq(m)) = Len(threads) * Repeats
  BY <1>2, <1>5, FlattenLength DEF U
<1>8. QED
  BY <1>6, <1>7 DEF S

\* The points of one thread count are its repeats.
LEMMA PointsOfOne ==
  ASSUME NEW t
  PROVE  Points(<<t>>) = [r \in 1..Repeats |-> <<t, r>>]
<1> DEFINE m == [i \in DOMAIN <<t>> |-> [r \in 1..Repeats |-> <<(<<t>>)[i], r>>]]
<1>1. Points(<<t>>) = FlattenSeq(m)
  BY DEF Points, ForEach
<1> DEFINE e == [r \in 1..Repeats |-> <<t, r>>]
<1>2. m = <<e>>
  <2>1. DOMAIN <<t>> = {1} /\ (<<t>>)[1] = t
    OBVIOUS
  <2>2. m = [i \in {1} |-> e]
    BY <2>1
  <2> HIDE DEF e
  <2>3. <<e>> = [i \in {1} |-> e]
    OBVIOUS
  <2>4. QED
    BY <2>2, <2>3
<1>3. QED
  BY <1>1, <1>2, FlattenOne

\* The last lines of a part, and of the points of every ratio.
LEMMA MatrixFacts ==
  ASSUME NEW threads \in Seq(Nat)
  PROVE  /\ \A c : IsSeq(PartPoints(c, threads)) /\ Len(PartPoints(c, threads)) = Len(threads) * Repeats
         /\ IsSeq(PointsOf(threads)) /\ Len(PointsOf(threads)) = Len(threads) * Len(Combos) * Repeats
         /\ PointsOf(threads) = FlattenSeq([i \in DOMAIN Combos |-> PartPoints(Combos[i], threads)])
         /\ Len(Points(threads)) = Len(threads) * Repeats
<1> DEFINE n == Len(Points(threads))
           p == Points(threads)
<1>1. /\ p \in Seq(Nat \X (1..Repeats)) /\ n \in Nat /\ n = Len(threads) * Repeats
      /\ DOMAIN p = 1..n /\ \A i \in 1..n : p[i] \in Nat \X (1..Repeats)
      /\ Len(threads) \in Nat /\ Repeats \in Nat
  <2>1. p \in Seq(Nat \X (1..Repeats)) /\ n = Len(threads) * Repeats
    BY PointsFacts
  <2>2. QED
    BY <2>1, SeqFacts, SweepRootAssumption
<1> DEFINE S == ToSet(Combos) \X (Nat \X (1..Repeats))
           U == {u \in Seq(S) : Len(u) = n}
           m == [i \in DOMAIN Combos |-> PartPoints(Combos[i], threads)]
<1> HIDE DEF n, p
<1>2. ASSUME NEW c
      PROVE  /\ IsSeq(PartPoints(c, threads)) /\ Len(PartPoints(c, threads)) = n
             /\ c \in ToSet(Combos) => PartPoints(c, threads) \in Seq(S)
  <2> DEFINE u == PartPoints(c, threads)
             V == {c} \X (Nat \X (1..Repeats))
  <2>1. u = [i \in 1..n |-> <<c, p[i]>>]
    BY <1>1 DEF PartPoints, p
  <2>2. u \in [1..n -> V] /\ DOMAIN u = 1..n
    BY <1>1, <2>1
  <2> HIDE DEF u
  <2>3. u \in Seq(V)
    BY <1>1, <2>2, FunctionIsSeq
  <2>4. Len(u) = n
    BY <1>1, <2>2, <2>3, LenProperties
  <2>5. c \in ToSet(Combos) => u \in Seq(S)
    <3>1. c \in ToSet(Combos) => u \in [1..n -> S]
      BY <2>2
    <3>2. QED
      BY <1>1, <3>1, FunctionIsSeq
  <2>6. QED
    BY <2>3, <2>4, <2>5, SeqOfItsElements DEF u
<1>3. Len(Combos) \in Nat /\ DOMAIN Combos = 1..Len(Combos) /\ \A i \in 1..Len(Combos) : Combos[i] \in ToSet(Combos)
  BY ThreeLinesAssumption, SeqFacts
<1>4. m \in Seq(U) /\ Len(m) = Len(Combos)
  <2>1. m \in [1..Len(Combos) -> U]
    BY <1>2, <1>3
  <2> HIDE DEF m, U
  <2>2. m \in Seq(U) /\ DOMAIN m = 1..Len(Combos)
    BY <1>3, <2>1, FunctionIsSeq
  <2>3. QED
    BY <1>3, <2>2, LenProperties
<1>5. PointsOf(threads) = FlattenSeq(m)
  BY DEF PointsOf, ForEach, PartPoints
<1> HIDE DEF m, S
<1>6. FlattenSeq(m) \in Seq(S) /\ Len(FlattenSeq(m)) = Len(Combos) * n
  BY <1>1, <1>4, FlattenLength
<1>7. Len(Combos) * n = Len(threads) * Len(Combos) * Repeats
  <2>1. \A x, y, z \in Nat : x * (y * z) = y * x * z
    OBVIOUS
  <2>2. QED
    BY <1>1, <1>3, <2>1
<1>8. IsSeq(FlattenSeq(m))
  BY <1>6, SeqOfItsElements
<1>9. QED
  BY <1>1, <1>2, <1>5, <1>6, <1>7, <1>8 DEF m, n

----------------------------------------------------------------------------
\* What a command does to the files: all of its files if it ends well.
Wrote(whole) ==
    /\ DOMAIN raw \subseteq DOMAIN raw'
    /\ \A f \in DOMAIN raw' :
        \/ /\ f \in DOMAIN raw /\ raw'[f] = raw[f]
           /\ whole => \A i \in DOMAIN Item.outs : Item.outs[i].file # f
        \/ \E i \in DOMAIN Item.outs :
            /\ Item.outs[i].file = f
            /\ raw'[f].by = sessions /\ raw'[f].of = Item.outs[i].points
            /\ whole => raw'[f].n = Len(raw'[f].of) /\ raw'[f].summed
    /\ whole => \A i \in DOMAIN Item.outs : Item.outs[i].file \in DOMAIN raw'

\* A sweep that has come to its k-th file has written that one and those before.
LEMMA WrittenFacts ==
  ASSUME IsSeq(Item.outs), NEW k \in DOMAIN Item.outs, NEW n, NEW w \in BOOLEAN,
         raw' = Written(k, n, w)
  PROVE  Wrote(FALSE) /\ (k = Len(Item.outs) /\ n = Len(Last(Item.outs).points) /\ w => Wrote(TRUE))
<1> DEFINE o == Item.outs
           Of(f) == {i \in 1..k : o[i].file = f}
           At(i) == [by |-> sessions, of |-> o[i].points,
                     n |-> IF i < k THEN Len(o[i].points) ELSE n, summed |-> i < k \/ w]
<1>1. Len(o) \in Nat /\ DOMAIN o = 1..Len(o) /\ 1..k \subseteq DOMAIN o /\ k \in 1..k /\ k \in Nat
  BY LenProperties DEF IsSeq
<1>2. raw' = [f \in DOMAIN raw \cup {o[i].file : i \in 1..k} |->
                IF Of(f) = {} THEN raw[f] ELSE At(CHOOSE i \in Of(f) : TRUE)]
  BY DEF Written
<1>3. DOMAIN raw' = DOMAIN raw \cup {o[i].file : i \in 1..k}
  BY <1>2
<1>4. \A f \in DOMAIN raw' : raw'[f] = IF Of(f) = {} THEN raw[f] ELSE At(CHOOSE i \in Of(f) : TRUE)
  BY <1>2
<1> DEFINE W(f) == CHOOSE i \in Of(f) : TRUE
<1>5. \A f \in DOMAIN raw' : \/ Of(f) = {} /\ f \in DOMAIN raw /\ raw'[f] = raw[f]
                             \/ W(f) \in Of(f) /\ raw'[f] = At(W(f))
  <2> SUFFICES ASSUME NEW f \in DOMAIN raw'
               PROVE  \/ Of(f) = {} /\ f \in DOMAIN raw /\ raw'[f] = raw[f]
                      \/ W(f) \in Of(f) /\ raw'[f] = At(W(f))
    OBVIOUS
  <2>1. Of(f) = {} => f \in DOMAIN raw
    BY <1>3
  <2>2. Of(f) # {} => W(f) \in Of(f)
    OBVIOUS
  <2> HIDE DEF Of, At
  <2>3. QED
    BY <1>4, <2>1, <2>2
<1>6. \A i \in 1..k : At(i).by = sessions /\ At(i).of = o[i].points
                      /\ At(i).n = (IF i < k THEN Len(o[i].points) ELSE n) /\ (w => At(i).summed)
  OBVIOUS
<1>7. \A f \in DOMAIN raw' :
        \/ /\ Of(f) = {} /\ f \in DOMAIN raw /\ raw'[f] = raw[f]
        \/ \E i \in 1..k : i \in DOMAIN o /\ o[i].file = f
             /\ raw'[f].by = sessions /\ raw'[f].of = o[i].points
             /\ raw'[f].n = (IF i < k THEN Len(o[i].points) ELSE n) /\ (w => raw'[f].summed)
  <2> HIDE DEF At, W
  <2>1. QED
    BY <1>1, <1>5, <1>6
<1>8. Wrote(FALSE)
  <2> HIDE DEF Of
  <2>1. QED
    BY <1>3, <1>7 DEF Wrote
<1>9. ASSUME k = Len(o), n = Len(Last(o).points), w
      PROVE  Wrote(TRUE)
  <2>1. 1..k = DOMAIN o /\ Last(o) = o[k]
    BY <1>1, <1>9 DEF Last
  <2>2. \A i \in 1..k : (IF i < k THEN Len(o[i].points) ELSE n) = Len(o[i].points)
    BY <1>1, <1>9, <2>1
  <2>3. \A f \in DOMAIN raw' : Of(f) = {} => \A i \in DOMAIN o : o[i].file # f
    BY <2>1
  <2> HIDE DEF Of
  <2>4. ASSUME NEW f \in DOMAIN raw'
        PROVE  \/ f \in DOMAIN raw /\ raw'[f] = raw[f] /\ \A i \in DOMAIN o : o[i].file # f
               \/ \E i \in DOMAIN o :
                    /\ o[i].file = f /\ raw'[f].by = sessions /\ raw'[f].of = o[i].points
                    /\ raw'[f].n = Len(raw'[f].of) /\ raw'[f].summed
    <3>1. CASE Of(f) = {} /\ f \in DOMAIN raw /\ raw'[f] = raw[f]
      BY <2>3, <3>1
    <3>2. CASE \E i \in 1..k : i \in DOMAIN o /\ o[i].file = f
             /\ raw'[f].by = sessions /\ raw'[f].of = o[i].points
             /\ raw'[f].n = (IF i < k THEN Len(o[i].points) ELSE n) /\ (w => raw'[f].summed)
      <4>1. PICK i \in 1..k : i \in DOMAIN o /\ o[i].file = f
             /\ raw'[f].by = sessions /\ raw'[f].of = o[i].points
             /\ raw'[f].n = (IF i < k THEN Len(o[i].points) ELSE n) /\ (w => raw'[f].summed)
        BY <3>2
      <4>2. raw'[f].n = Len(raw'[f].of) /\ raw'[f].summed
        BY <1>9, <2>2, <4>1
      <4>3. QED
        BY <4>1, <4>2
    <3>3. QED
      BY <1>7, <3>1, <3>2
  <2>5. DOMAIN raw \subseteq DOMAIN raw' /\ \A i \in DOMAIN o : o[i].file \in DOMAIN raw'
    BY <1>3, <2>1
  <2>6. QED
    BY <2>4, <2>5 DEF Wrote
<1>10. QED
  BY <1>8, <1>9

\* A command that ends or is killed writes no file but its own; one that ends well, all of them.
LEMMA CommandWrites ==
  ASSUME IsSeq(Item.outs)
  PROVE  /\ WrittenInPart \/ UNCHANGED raw => Wrote(FALSE)
         /\ EndCommand(TRUE) => Wrote(TRUE)
<1>1. UNCHANGED raw => Wrote(FALSE)
  BY DEF Wrote
<1>2. WrittenInPart => Wrote(FALSE)
  BY <1>1, WrittenFacts DEF WrittenInPart
<1>3. ASSUME EndCommand(TRUE), Item.outs = <<>>
      PROVE  Wrote(TRUE)
  BY <1>3, EmptySeq DEF EndCommand, Wrote
<1>4. ASSUME EndCommand(TRUE), Item.outs # <<>>
      PROVE  Wrote(TRUE)
  <2>1. Len(Item.outs) \in DOMAIN Item.outs
    BY <1>4, SeqFacts DEF IsSeq
  <2>2. raw' = Written(Len(Item.outs), Len(Last(Item.outs).points), TRUE)
    BY <1>4 DEF EndCommand
  <2>3. QED
    BY <2>1, <2>2, WrittenFacts
<1>5. QED
  BY <1>1, <1>2, <1>3, <1>4

----------------------------------------------------------------------------
(* The rows that experiment two collects.                                  *)

AtPoint(rs, p) == {i \in DOMAIN rs : rs[i].name = p}

HasRow(rs, p, q) == \E i \in DOMAIN rs : rs[i].name = p /\ rs[i].point = <<p[2], q>>

\* Each row is of a point, and of a sweep in fin.
Backed(rs, fin) ==
    /\ IsSeq(rs)
    /\ \A i \in DOMAIN rs :
        /\ <<PointFile(rs[i].name[1], rs[i].name[2]), rs[i].by>> \in fin
        /\ \E q \in 1..Repeats : rs[i].point = <<rs[i].name[2], q>>

\* Points have all of their repeats, and no row is there twice.
Whole(rs) == \A p \in NamesOf(rs), q \in 1..Repeats : HasRow(rs, p, q)
Distinct(rs) ==
    \A i, j \in DOMAIN rs : rs[i].name = rs[j].name /\ rs[i].point = rs[j].point => i = j

\* Points that pass for complete are.
Complete(rs) == \A p \in completed_points(rs), q \in 1..Repeats : HasRow(rs, p, q)

FineRows(rs, fin, k) ==
    /\ Backed(rs, fin)
    /\ k = 0 => Whole(rs) /\ Distinct(rs)
    /\ k <= 1 => Complete(rs)

Prefix(r, s) == \A i \in DOMAIN r : i \in DOMAIN s /\ s[i] = r[i]

\* A point is complete when it has as many rows as there are repeats.
LEMMA AtPointFacts ==
  ASSUME NEW rs, IsSeq(rs), NEW p
  PROVE  /\ IsFiniteSet(AtPoint(rs, p)) /\ Cardinality(AtPoint(rs, p)) \in Nat
         /\ p \in completed_points(rs) <=> Cardinality(AtPoint(rs, p)) >= Repeats
<1>1. Len(rs) \in Nat /\ DOMAIN rs = 1..Len(rs) /\ Repeats \in Nat \ {0}
  BY LenProperties, SweepRootAssumption DEF IsSeq
<1>2. IsFiniteSet(1..Len(rs))
  BY <1>1, FS_Interval
<1>3. AtPoint(rs, p) \subseteq 1..Len(rs)
  BY <1>1 DEF AtPoint
<1>4. IsFiniteSet(AtPoint(rs, p)) /\ Cardinality(AtPoint(rs, p)) \in Nat
  BY <1>2, <1>3, FS_Subset, FS_CardinalityType
<1>5. AtPoint(rs, p) # {} <=> p \in {rs[i].name : i \in DOMAIN rs}
  BY DEF AtPoint
<1>6. Cardinality(AtPoint(rs, p)) >= Repeats => AtPoint(rs, p) # {}
  BY <1>1, <1>4, FS_EmptySet
<1>7. p \in completed_points(rs) <=>
        p \in {rs[i].name : i \in DOMAIN rs} /\ Cardinality(AtPoint(rs, p)) >= Repeats
  BY DEF completed_points, AtPoint
<1>8. QED
  BY <1>4, <1>5, <1>6, <1>7

\* A point with all of its repeats passes for complete.
LEMMA RepeatsComplete ==
  ASSUME NEW rs, IsSeq(rs), NEW p, \A q \in 1..Repeats : HasRow(rs, p, q)
  PROVE  p \in completed_points(rs)
<1> DEFINE I == AtPoint(rs, p)
           At(q) == CHOOSE i \in I : rs[i].point = <<p[2], q>>
           f == [q \in 1..Repeats |-> At(q)]
<1>1. \A q \in 1..Repeats : At(q) \in I /\ rs[At(q)].point = <<p[2], q>>
  <2> SUFFICES ASSUME NEW q \in 1..Repeats
               PROVE  \E i \in I : rs[i].point = <<p[2], q>>
    OBVIOUS
  <2>1. QED
    BY DEF HasRow, AtPoint
<1> HIDE DEF I, At
<1>2. f \in [1..Repeats -> I] /\ \A q, r \in 1..Repeats : f[q] = f[r] => q = r
  <2>1. \A q, r \in 1..Repeats : At(q) = At(r) => <<p[2], q>> = <<p[2], r>>
    BY <1>1
  <2>2. QED
    BY <1>1, <2>1
<1>3. f \in Injection(1..Repeats, I)
  BY <1>2 DEF Injection, IsInjective
<1>4. Repeats \in Nat \ {0} /\ Cardinality(1..Repeats) = Repeats
  BY SweepRootAssumption, FS_Interval
<1>5. IsFiniteSet(I) /\ Cardinality(I) \in Nat
  BY AtPointFacts DEF I
<1>6. Cardinality(I) >= Repeats
  BY <1>3, <1>4, <1>5, FS_Injection
<1>7. QED
  BY <1>6, AtPointFacts DEF I

\* Where no row is twice, a point with as many rows as repeats has all of them.
LEMMA DistinctComplete ==
  ASSUME NEW rs, NEW fin, Backed(rs, fin), Distinct(rs)
  PROVE  Complete(rs)
<1> SUFFICES ASSUME NEW p \in completed_points(rs), NEW q \in 1..Repeats
             PROVE  HasRow(rs, p, q)
  BY DEF Complete
<1> DEFINE I == AtPoint(rs, p)
           T == {<<p[2], r>> : r \in 1..Repeats}
           f == [i \in I |-> rs[i].point]
           g == [r \in 1..Repeats |-> <<p[2], r>>]
<1>1. IsSeq(rs) /\ IsFiniteSet(I) /\ Cardinality(I) \in Nat /\ Cardinality(I) >= Repeats
  BY AtPointFacts DEF Backed
<1>2. f \in Injection(I, T)
  <2>1. \A i \in I : i \in DOMAIN rs /\ rs[i].name = p
    BY DEF AtPoint
  <2>2. \A i \in I : rs[i].point \in T
    BY <2>1 DEF Backed
  <2>3. \A i, j \in I : rs[i].point = rs[j].point => i = j
    BY <2>1 DEF Distinct
  <2> HIDE DEF I, T
  <2>4. f \in [I -> T] /\ \A i, j \in I : f[i] = f[j] => i = j
    BY <2>2, <2>3
  <2>5. QED
    BY <2>4 DEF Injection, IsInjective
<1>3. Repeats \in Nat \ {0} /\ IsFiniteSet(1..Repeats) /\ Cardinality(1..Repeats) = Repeats
  BY SweepRootAssumption, FS_Interval
<1>4. g \in Surjection(1..Repeats, T)
  BY DEF Surjection
<1> HIDE DEF I, T, f, g
<1>5. IsFiniteSet(T) /\ Cardinality(T) <= Repeats /\ Cardinality(T) \in Nat
  BY <1>3, <1>4, FS_Surjection, FS_CardinalityType
<1>6. Cardinality(I) <= Cardinality(T) /\ (Cardinality(I) = Cardinality(T) <=> f \in Surjection(I, T))
  BY <1>2, <1>5, FS_Injection
<1>7. f \in Surjection(I, T)
  BY <1>1, <1>3, <1>5, <1>6
<1>8. <<p[2], q>> \in T
  BY DEF T
<1>9. PICK i \in I : f[i] = <<p[2], q>>
  BY <1>7, <1>8 DEF Surjection
<1>10. QED
  BY <1>9 DEF f, I, AtPoint, HasRow

\* Without rows there is nothing to be said.
LEMMA EmptyRows ==
  ASSUME NEW fin, NEW k
  PROVE  FineRows(<<>>, fin, k)
<1>1. DOMAIN <<>> = {} /\ IsSeq(<<>>)
  BY EmptySeq DEF IsSeq
<1>2. completed_points(<<>>) = {}
  BY <1>1 DEF completed_points
<1>3. QED
  BY <1>1, <1>2 DEF FineRows, Backed, Whole, Distinct, Complete, NamesOf

\* What is there at first may be cut off, unless there was a kill before.
LEMMA RowsCut ==
  ASSUME NEW rs, NEW fin, NEW k \in Nat, FineRows(rs, fin, k), NEW n \in 0..Len(rs)
  PROVE  FineRows(SubSeq(rs, 1, n), fin, k + 1)
<1> DEFINE c == SubSeq(rs, 1, n)
<1>1. Len(rs) \in Nat /\ DOMAIN rs = 1..Len(rs) /\ \A i \in 1..Len(rs) : rs[i] \in ToSet(rs)
  BY SeqFacts DEF FineRows, Backed, IsSeq
<1>2. /\ c \in Seq(ToSet(rs)) /\ DOMAIN c = 1..n /\ n \in Nat
      /\ \A i \in 1..n : c[i] = rs[i] /\ i \in DOMAIN rs
  <2>1. n \in Nat /\ \A i \in 1..n : rs[i] \in ToSet(rs) /\ i \in DOMAIN rs
    BY <1>1
  <2>2. c \in Seq(ToSet(rs)) /\ Len(c) = n /\ \A i \in 1..n : c[i] = rs[i]
    BY <2>1, SubSeqProperties
  <2>3. QED
    BY <2>1, <2>2, LenProperties
<1> HIDE DEF c
<1>3. Backed(c, fin)
  BY <1>2, SeqOfItsElements DEF FineRows, Backed
<1>4. k + 1 <= 1 => Complete(c)
  <2>1. k + 1 <= 1 => Distinct(rs)
    BY DEF FineRows
  <2>2. k + 1 <= 1 => Distinct(c)
    BY <1>2, <2>1 DEF Distinct
  <2>3. QED
    BY <1>3, <2>2, DistinctComplete
<1>5. k + 1 # 0
  OBVIOUS
<1>6. QED
  BY <1>3, <1>4, <1>5 DEF FineRows, c

\* The rows of one more sweep, of a point that did not pass for complete.
LEMMA RowsAdded ==
  ASSUME NEW rs, NEW fin, NEW k \in Nat, FineRows(rs, fin, k),
         NEW p, p \notin completed_points(rs), NEW s, <<PointFile(p[1], p[2]), s>> \in fin
  PROVE  LET new == [i \in 1..Repeats |-> [name |-> p, point |-> <<p[2], i>>, by |-> s]]
         IN /\ FineRows(rs \o new, fin, k) /\ p \in completed_points(rs \o new)
            /\ \A q : q # p => (q \in completed_points(rs \o new) <=> q \in completed_points(rs))
            /\ \A r : Prefix(r, rs) => Prefix(r, rs \o new)
<1> DEFINE new == [i \in 1..Repeats |-> [name |-> p, point |-> <<p[2], i>>, by |-> s]]
           c == rs \o new
           m == Len(rs)
<1>1. Repeats \in Nat \ {0} /\ IsSeq(rs)
  BY SweepRootAssumption DEF FineRows, Backed
<1>2. new \in Seq(ToSet(new)) /\ Len(new) = Repeats /\ DOMAIN new = 1..Repeats
  <2>1. new \in [1..Repeats -> {new[i] : i \in 1..Repeats}] /\ DOMAIN new = 1..Repeats
    OBVIOUS
  <2> HIDE DEF new
  <2>2. new \in Seq({new[i] : i \in 1..Repeats})
    BY <1>1, <2>1, FunctionIsSeq
  <2>3. QED
    BY <1>1, <2>1, <2>2, LenProperties, SeqOfItsElements DEF IsSeq
<1>3. \A i \in 1..Repeats : new[i].name = p /\ new[i].point = <<p[2], i>> /\ new[i].by = s
  OBVIOUS
<1> HIDE DEF new
<1>4. /\ m \in Nat /\ DOMAIN rs = 1..m /\ IsSeq(c) /\ DOMAIN c = 1..m + Repeats
      /\ \A i \in 1..m + Repeats : c[i] = IF i <= m THEN rs[i] ELSE new[i - m]
  <2> DEFINE S == ToSet(rs) \cup ToSet(new)
  <2>1. rs \in Seq(S) /\ new \in Seq(S)
    <3>1. m \in Nat /\ \A i \in 1..m : rs[i] \in ToSet(rs)
      BY <1>1, SeqFacts DEF IsSeq
    <3>2. rs \in Seq(ToSet(rs)) /\ new \in Seq(ToSet(new))
      BY <1>1, <1>2 DEF IsSeq
    <3>3. ToSet(rs) \subseteq S /\ ToSet(new) \subseteq S
      OBVIOUS
    <3> HIDE DEF S
    <3>4. QED
      BY <3>2, <3>3
  <2> HIDE DEF S
  <2>2. c \in Seq(S) /\ Len(c) = m + Repeats /\ \A i \in 1..m + Repeats : c[i] = IF i <= m THEN rs[i] ELSE new[i - m]
    BY <1>2, <2>1, ConcatProperties
  <2> HIDE DEF c, m
  <2>3. QED
    BY <2>1, <2>2, LenProperties, SeqOfItsElements DEF m
<1> HIDE DEF c, m
<1>5. \A i \in DOMAIN rs : i \in DOMAIN c /\ c[i] = rs[i]
  BY <1>1, <1>4
<1>6. \A q \in 1..Repeats : m + q \in DOMAIN c /\ c[m + q] = new[q] /\ m + q \notin DOMAIN rs
  <2> SUFFICES ASSUME NEW q \in 1..Repeats
               PROVE  m + q \in DOMAIN c /\ c[m + q] = new[q] /\ m + q \notin DOMAIN rs
    OBVIOUS
  <2>1. m + q \in 1..m + Repeats /\ ~(m + q <= m) /\ (m + q) - m = q
    BY <1>1, <1>4
  <2>2. QED
    BY <1>4, <2>1
<1>7. \A i \in DOMAIN c : i \in DOMAIN rs \/ \E q \in 1..Repeats : i = m + q
  <2> SUFFICES ASSUME NEW i \in 1..m + Repeats, i \notin 1..m
               PROVE  i - m \in 1..Repeats /\ i = m + (i - m)
    BY <1>4
  <2>1. QED
    BY <1>1, <1>4
<1>8. Backed(c, fin)
  <2> SUFFICES ASSUME NEW i \in DOMAIN c
               PROVE  /\ <<PointFile(c[i].name[1], c[i].name[2]), c[i].by>> \in fin
                      /\ \E q \in 1..Repeats : c[i].point = <<c[i].name[2], q>>
    BY <1>4 DEF Backed
  <2>1. CASE i \in DOMAIN rs
    BY <1>5, <2>1 DEF FineRows, Backed
  <2>2. CASE \E q \in 1..Repeats : i = m + q
    BY <1>3, <1>6, <2>2
  <2>3. QED
    BY <1>7, <2>1, <2>2
<1>9. \A q \in 1..Repeats : HasRow(c, p, q)
  BY <1>3, <1>6 DEF HasRow
<1>10. p \in completed_points(c)
  BY <1>4, <1>9, RepeatsComplete
<1>11. \A q : q # p => AtPoint(c, q) = AtPoint(rs, q)
  BY <1>3, <1>5, <1>6, <1>7 DEF AtPoint
<1>12. \A q : q # p => (q \in completed_points(c) <=> q \in completed_points(rs))
  BY <1>1, <1>4, <1>11, AtPointFacts
<1>13. \A q, r : HasRow(rs, q, r) => HasRow(c, q, r)
  BY <1>5 DEF HasRow
<1>14. ASSUME k <= 1
       PROVE  Complete(c)
  <2>1. Complete(rs)
    BY <1>14 DEF FineRows
  <2>2. QED
    BY <1>9, <1>12, <1>13, <2>1 DEF Complete
<1>15. ASSUME k = 0
       PROVE  Whole(c) /\ Distinct(c)
  <2>1. Whole(rs) /\ Distinct(rs)
    BY <1>15 DEF FineRows
  <2>2. p \notin NamesOf(rs)
    BY <1>1, <2>1, RepeatsComplete DEF Whole
  <2>3. NamesOf(c) \subseteq NamesOf(rs) \cup {p}
    BY <1>3, <1>5, <1>6, <1>7 DEF NamesOf
  <2>4. Whole(c)
    BY <1>9, <1>13, <2>1, <2>3 DEF Whole
  <2>5. ASSUME NEW i \in DOMAIN c, NEW j \in DOMAIN c, c[i].name = c[j].name, c[i].point = c[j].point
        PROVE  i = j
    <3>1. \A h \in DOMAIN rs : rs[h].name # p
      BY <2>2 DEF NamesOf
    <3>2. CASE i \in DOMAIN rs /\ j \in DOMAIN rs
      BY <1>5, <2>1, <2>5, <3>2 DEF Distinct
    <3>3. CASE i \in DOMAIN rs /\ j \notin DOMAIN rs
      BY <1>3, <1>5, <1>6, <1>7, <2>5, <3>1, <3>3
    <3>4. CASE i \notin DOMAIN rs /\ j \in DOMAIN rs
      BY <1>3, <1>5, <1>6, <1>7, <2>5, <3>1, <3>4
    <3>5. CASE i \notin DOMAIN rs /\ j \notin DOMAIN rs
      <4>1. PICK q \in 1..Repeats, r \in 1..Repeats : i = m + q /\ j = m + r
        BY <1>7, <3>5
      <4>2. <<p[2], q>> = <<p[2], r>>
        BY <1>3, <1>6, <2>5, <4>1
      <4>3. QED
        BY <4>1, <4>2
    <3>6. QED
      BY <3>2, <3>3, <3>4, <3>5
  <2>6. QED
    BY <2>4, <2>5 DEF Distinct
<1>16. \A r : Prefix(r, rs) => Prefix(r, c)
  BY <1>5 DEF Prefix
<1>17. FineRows(c, fin, k)
  BY <1>8, <1>14, <1>15 DEF FineRows
<1>18. QED
  BY <1>10, <1>12, <1>16, <1>17 DEF c, new

\* A prefix has no complete points that the whole has not.
LEMMA PrefixComplete ==
  ASSUME NEW r, NEW s, IsSeq(r), IsSeq(s), Prefix(r, s)
  PROVE  completed_points(r) \subseteq completed_points(s)
<1> SUFFICES ASSUME NEW p \in completed_points(r)
             PROVE  p \in completed_points(s)
  OBVIOUS
<1>1. AtPoint(r, p) \subseteq AtPoint(s, p)
  BY DEF Prefix, AtPoint
<1>2. Cardinality(AtPoint(r, p)) <= Cardinality(AtPoint(s, p))
  BY <1>1, AtPointFacts, FS_Subset
<1>3. QED
  BY <1>2, AtPointFacts, SweepRootAssumption

----------------------------------------------------------------------------
(* Experiment two.                                                         *)

TwoCommands(a) ==
    {build_sweep_command(a, l, t) : l \in ToSet(a.locks), t \in ToSet(a.threads)}

TwoBusy == {"running", "dump_ok", "dump_bad", "ended", "raised"}
TwoCollecting == {"progress", "progress_open"}
TwoReporting == {"report", "report_open", "finish"}

TwoControl ==
    /\ pc \in {"off", "next", "dump_dry"} \cup TwoBusy \cup TwoCollecting \cup TwoReporting
    /\ sessions \in Nat /\ kills \in Nat
    /\ report = [state |-> report.state, rows |-> report.rows]
    /\ pc # "off" =>
        /\ args \in TwoSessions /\ status = "running" /\ stage \in {"builds", "sweeps"}
        /\ IsSeq(work) /\ pos \in 1..Len(work) + 1
        /\ pc \in {"dump_dry"} \cup TwoBusy \cup TwoCollecting => pos <= Len(work)
        /\ pc \in TwoReporting => pos = Len(work) + 1
        /\ pc \in TwoReporting \cup TwoCollecting => stage = "sweeps"
        /\ pc \in TwoBusy \cup TwoCollecting => Item.kind # "dry"
        /\ pc = "dump_dry" => Item.kind = "dry"
        /\ stage = "builds" =>
            /\ failures = {}
            /\ \A i \in DOMAIN work : work[i].kind = "build" /\ work[i].outs = <<>> /\ work[i].cpus = <<>>
        /\ stage = "sweeps" =>
            /\ \A i \in DOMAIN work : work[i] \in TwoCommands(args)
            /\ \A i, j \in DOMAIN work : work[i].name = work[j].name => i = j

\* The log of a command is its own while the session runs.
TwoLogs ==
    /\ pc \in TwoBusy => log = <<Item.name, 0>> /\ log \in DOMAIN logs
    /\ pc = "running" => logs[log] = [by |-> sessions, rc |-> "none"]
    /\ pc \in {"dump_bad", "raised"} => logs[log] = [by |-> sessions, rc |-> "bad"]
    /\ pc # "off" => \A f \in failures :
        /\ f.by = sessions /\ f.log = <<f.name, 0>>
        /\ f.log \in DOMAIN logs /\ logs[f.log] = [by |-> sessions, rc |-> "bad"]
        /\ \E i \in 1..pos - 1 : work[i].name = f.name
    /\ status \in {"ok", "failures"} =>
        pc = "off" /\ \A f \in failed : logs[f.log] = [by |-> f.by, rc |-> "bad"]

\* The command at i has ended well, or failed and is listed.
OutsFinished(i) == \A j \in DOMAIN work[i].outs : <<work[i].outs[j].file, sessions>> \in finished
Accounted(i) == OutsFinished(i) \/ \E f \in failures : f.name = work[i].name

TwoSwept ==
    /\ pc \in {"dump_ok", "ended"} /\ stage = "sweeps" =>
        LET o == Item.outs[1] IN
        o.file \in DOMAIN raw /\ raw[o.file].by = sessions
            /\ raw[o.file].of = o.points /\ raw[o.file].n = Len(o.points)
    /\ pc \in {"dump_ok", "ended"} \cup TwoCollecting => OutsFinished(pos)
    /\ pc # "off" => \A i \in 1..pos - 1 : work[i].kind = "sweep" => Accounted(i)

TwoRows == FineRows(rows, finished, kills) /\ FineRows(report.rows, finished, kills)

\* Whose sweep is still to come, or has not been collected.
Left(i) == i >= pos /\ (pc \in TwoCollecting => i # pos)

TwoLeft ==
    pc # "off" /\ stage = "sweeps" =>
        /\ pc \in TwoCollecting => Item.name \in completed_points(rows)
        /\ \A i \in DOMAIN work : Left(i) => work[i].name \notin completed_points(rows)
        /\ ~args.dry /\ failures = {} => \A l \in ToSet(args.locks), t \in ToSet(args.threads) :
            <<l, t>> \in completed_points(rows) \/ \E i \in DOMAIN work : Left(i) /\ work[i].name = <<l, t>>
        /\ args.resume => Prefix(report.rows, rows)
        /\ ~args.dry /\ pc = "finish" => report.state = "whole" /\ report.rows = rows

TwoOutcome ==
    status = "ok" => pc = "off" /\
        (args.dry \/
            /\ report.state = "whole" /\ failed = {}
            /\ \A l \in ToSet(args.locks), t \in ToSet(args.threads) :
                <<l, t>> \in completed_points(report.rows))

TwoInv == TwoControl /\ TwoLogs /\ TwoSwept /\ TwoRows /\ TwoLeft /\ TwoOutcome

\* The commands for the points of a session, in the order of locks and threads.
LEMMA AllSweeps ==
  ASSUME NEW a \in TwoSessions
  PROVE  LET all == ForEach(a.locks, LAMBDA l :
                      [i \in DOMAIN a.threads |-> build_sweep_command(a, l, a.threads[i])])
         IN /\ all \in Seq(TwoCommands(a)) /\ ToSet(all) = TwoCommands(a) /\ IsInjective(all)
            /\ \A c, d \in TwoCommands(a) : c.name = d.name => c = d
<1> DEFINE C(l, t) == build_sweep_command(a, l, t)
           m == [j \in DOMAIN a.locks |-> [i \in DOMAIN a.threads |-> C(a.locks[j], a.threads[i])]]
           S == TwoCommands(a)
<1>1. /\ Len(a.locks) \in Nat /\ DOMAIN a.locks = 1..Len(a.locks) /\ IsInjective(a.locks)
      /\ Len(a.threads) \in Nat /\ DOMAIN a.threads = 1..Len(a.threads) /\ IsInjective(a.threads)
      /\ \A j \in 1..Len(a.locks) : a.locks[j] \in ToSet(a.locks)
      /\ \A j \in 1..Len(a.threads) : a.threads[j] \in ToSet(a.threads)
  BY TwoLinesAssumption, SeqFacts
<1>2. \A l, t, k, u : C(l, t).name = <<l, t>> /\ (C(l, t).name = C(k, u).name => l = k /\ t = u)
  BY DEF build_sweep_command, Command
<1>3. S = {C(l, t) : l \in ToSet(a.locks), t \in ToSet(a.threads)}
  BY DEF TwoCommands
<1> HIDE DEF C, S
<1>4. \A c, d \in S : c.name = d.name => c = d
  BY <1>2, <1>3
<1>5. ASSUME NEW j \in 1..Len(a.locks)
      PROVE  /\ m[j] \in Seq(S) /\ IsInjective(m[j])
             /\ ToSet(m[j]) = {C(a.locks[j], t) : t \in ToSet(a.threads)}
  <2> DEFINE u == [i \in 1..Len(a.threads) |-> C(a.locks[j], a.threads[i])]
  <2>1. m[j] = u
    BY <1>1
  <2>2. u \in [1..Len(a.threads) -> S] /\ DOMAIN u = 1..Len(a.threads)
    BY <1>1, <1>3
  <2>3. IsInjective(u)
    BY <1>1, <1>2 DEF IsInjective
  <2>4. ToSet(u) = {C(a.locks[j], t) : t \in ToSet(a.threads)}
    BY <1>1 DEF ToSet
  <2> HIDE DEF u, m
  <2>5. u \in Seq(S)
    BY <1>1, <2>2, FunctionIsSeq
  <2>6. QED
    BY <2>1, <2>3, <2>4, <2>5
<1>6. m \in Seq(Seq(S)) /\ DOMAIN m = 1..Len(a.locks)
  <2>1. m \in [1..Len(a.locks) -> Seq(S)]
    <3>1. m = [j \in 1..Len(a.locks) |-> m[j]]
      BY <1>1
    <3> HIDE DEF m
    <3>2. QED
      BY <1>5, <3>1
  <2> HIDE DEF m
  <2>2. QED
    BY <1>1, <2>1, FunctionIsSeq
<1>7. ForEach(a.locks, LAMBDA l : [i \in DOMAIN a.threads |-> build_sweep_command(a, l, a.threads[i])]) = FlattenSeq(m)
  BY DEF ForEach, C
<1> HIDE DEF m
<1>8. \A i, j \in 1..Len(a.locks) : i # j => ToSet(m[i]) \cap ToSet(m[j]) = {}
  <2> SUFFICES ASSUME NEW i \in 1..Len(a.locks), NEW j \in 1..Len(a.locks), i # j, NEW c \in ToSet(m[i]), c \in ToSet(m[j])
               PROVE  FALSE
    OBVIOUS
  <2>1. PICK t \in ToSet(a.threads) : c = C(a.locks[i], t)
    <3>1. ToSet(m[i]) = {C(a.locks[i], t) : t \in ToSet(a.threads)}
      BY <1>5
    <3>2. QED
      BY <3>1
  <2>2. PICK u \in ToSet(a.threads) : c = C(a.locks[j], u)
    <3>1. ToSet(m[j]) = {C(a.locks[j], x) : x \in ToSet(a.threads)}
      BY <1>5
    <3>2. QED
      BY <3>1
  <2>3. c.name = <<a.locks[i], t>> /\ c.name = <<a.locks[j], u>>
    BY <1>2, <2>1, <2>2
  <2>4. a.locks[i] = a.locks[j]
    BY <2>3
  <2>5. QED
    BY <1>1, <2>4 DEF IsInjective
<1>9. FlattenSeq(m) \in Seq(S) /\ IsInjective(FlattenSeq(m)) /\ ToSet(FlattenSeq(m)) = UNION {ToSet(m[i]) : i \in DOMAIN m}
  BY <1>5, <1>6, <1>8, FlattenFacts
<1>10. UNION {ToSet(m[i]) : i \in DOMAIN m} = S
  <2>1. UNION {ToSet(m[i]) : i \in DOMAIN m} \subseteq S
    <3>1. ASSUME NEW i \in 1..Len(a.locks)
          PROVE  ToSet(m[i]) \subseteq S
      <4>1. ToSet(m[i]) = {C(a.locks[i], t) : t \in ToSet(a.threads)} /\ a.locks[i] \in ToSet(a.locks)
        BY <1>1, <1>5
      <4>2. QED
        BY <1>3, <4>1
    <3>2. QED
      BY <1>6, <3>1
  <2>2. ASSUME NEW l \in ToSet(a.locks), NEW t \in ToSet(a.threads)
        PROVE  C(l, t) \in UNION {ToSet(m[i]) : i \in DOMAIN m}
    <3>1. PICK j \in 1..Len(a.locks) : a.locks[j] = l
      BY <1>1 DEF ToSet
    <3>2. C(l, t) \in ToSet(m[j])
      BY <1>5, <3>1
    <3>3. QED
      BY <1>6, <3>2
  <2>3. QED
    BY <1>3, <2>1, <2>2
<1>11. QED
  BY <1>4, <1>7, <1>9, <1>10 DEF S

\* What is in a command.
LEMMA TwoCommandFacts ==
  ASSUME NEW a \in TwoSessions, NEW c \in TwoCommands(a)
  PROVE  /\ c.kind = IF a.dry THEN "dry" ELSE "sweep"
         /\ \E l \in ToSet(a.locks), t \in ToSet(a.threads) :
                /\ t \in 1..Len(ordered_cpus) /\ c.name = <<l, t>> /\ c.cpus = cpu_list_for_threads(t)
                /\ IsSeq(c.outs) /\ DOMAIN c.outs = {1}
                /\ c.outs[1].file = PointFile(l, t) /\ c.outs[1].points = [r \in 1..Repeats |-> <<t, r>>]
                /\ Len(c.outs[1].points) = Repeats
<1>1. PICK l \in ToSet(a.locks), t \in ToSet(a.threads) : c = build_sweep_command(a, l, t)
  BY DEF TwoCommands
<1> DEFINE o == [file |-> PointFile(l, t), points |-> Points(<<t>>)]
<1>2. /\ c.kind = (IF a.dry THEN "dry" ELSE "sweep") /\ c.name = <<l, t>>
      /\ c.outs = <<o>> /\ c.cpus = cpu_list_for_threads(t)
  BY <1>1 DEF build_sweep_command, Command
<1>3. o.file = PointFile(l, t) /\ o.points = [r \in 1..Repeats |-> <<t, r>>]
  BY PointsOfOne
<1>4. t \in 1..Len(ordered_cpus)
  <2>1. ToSet(a.threads) \subseteq 1..Len(ordered_cpus)
    BY TwoLinesAssumption, SeqFacts
  <2>2. QED
    BY <2>1
<1>5. Len(o.points) = Repeats
  <2> DEFINE u == [r \in 1..Repeats |-> <<t, r>>]
  <2>1. Repeats \in Nat /\ u \in [1..Repeats -> {t} \X (1..Repeats)]
    BY SweepRootAssumption
  <2>2. u \in Seq({t} \X (1..Repeats)) /\ DOMAIN u = 1..Repeats
    <3> HIDE DEF u
    <3>1. QED
      BY <2>1, FunctionIsSeq
  <2>3. Len(u) = Repeats
    <3> HIDE DEF u
    <3>1. QED
      BY <2>1, <2>2, LenProperties
  <2>4. QED
    BY <1>3, <2>3
<1> HIDE DEF o
<1>6. IsSeq(<<o>>) /\ DOMAIN <<o>> = {1} /\ <<o>>[1] = o
  BY DEF IsSeq, ToSet
<1>7. QED
  BY <1>2, <1>3, <1>4, <1>5, <1>6

\* Rows stay as fine as they are when more sweeps have ended, and when one more session is killed.
LEMMA RowsKept ==
  ASSUME NEW rs, NEW fin, NEW k \in Nat, FineRows(rs, fin, k), NEW fin2, fin \subseteq fin2
  PROVE  FineRows(rs, fin2, k) /\ FineRows(rs, fin2, k + 1)
<1>1. Backed(rs, fin2)
  BY DEF FineRows, Backed
<1>2. k + 1 # 0 /\ (k + 1 <= 1 => k <= 1)
  OBVIOUS
<1>3. QED
  BY <1>1, <1>2 DEF FineRows

\* A session that ends without a report leaves what it has collected.
LEMMA TwoExit ==
  ASSUME TwoInv, pc' = "off", status' \notin {"ok", "failures"}, rows' = <<>>,
         sessions' \in Nat, kills' \in Nat, report' = [state |-> report'.state, rows |-> report'.rows],
         FineRows(report'.rows, finished', kills')
  PROVE  TwoInv'
<1>1. TwoRows'
  BY EmptyRows DEF TwoRows
<1>2. TwoControl' /\ TwoSwept' /\ TwoLeft'
  BY DEF TwoControl, TwoBusy, TwoCollecting, TwoReporting, TwoSwept, TwoLeft
<1>3. TwoLogs' /\ TwoOutcome'
  BY DEF TwoLogs, TwoBusy, TwoOutcome
<1>4. QED
  BY <1>1, <1>2, <1>3 DEF TwoInv

\* A session starts, or is refused.
LEMMA TwoStarts ==
  ASSUME TwoInv, TwoStart
  PROVE  TwoInv'
<1>1. /\ pc = "off" /\ sessions' = sessions + 1
      /\ UNCHANGED <<kills, finished, raw, report, failed, settings, logs, torn>>
  BY DEF TwoStart, NewSession, files
<1>2. /\ sessions \in Nat /\ kills \in Nat /\ FineRows(report.rows, finished, kills)
      /\ report = [state |-> report.state, rows |-> report.rows]
  BY DEF TwoInv, TwoControl, TwoRows
<1>3. PICK a \in TwoSessions :
        \/ Exit("refused")
        \/ \E builds \in ensure_mcs_tse_library(a) : Begin(a, "builds", builds)
  BY DEF TwoStart
<1>4. CASE Exit("refused")
  BY <1>1, <1>2, <1>4, TwoExit DEF Exit
<1>5. ASSUME NEW builds \in ensure_mcs_tse_library(a), Begin(a, "builds", builds)
      PROVE  TwoInv'
  <2>1. /\ IsSeq(builds) /\ Len(builds) \in Nat
        /\ \A i \in DOMAIN builds : builds[i].kind = "build" /\ builds[i].outs = <<>> /\ builds[i].cpus = <<>>
    <3> DEFINE b == Command("build", <<"mcs_tse">>, <<>>, <<>>)
    <3>1. builds = <<>> \/ builds = <<b>>
      BY <1>5 DEF ensure_mcs_tse_library
    <3>2. b.kind = "build" /\ b.outs = <<>> /\ b.cpus = <<>>
      BY DEF Command
    <3> HIDE DEF b
    <3>3. CASE builds = <<>>
      BY <3>3, EmptySeq DEF IsSeq
    <3>4. CASE builds = <<b>>
      BY <3>2, <3>4 DEF IsSeq, ToSet
    <3>5. QED
      BY <3>1, <3>3, <3>4
  <2>2. /\ pc' = "next" /\ status' = "running" /\ args' = a /\ stage' = "builds" /\ work' = builds
        /\ pos' = 1 /\ rows' = <<>> /\ failures' = {}
    BY <1>5 DEF Begin
  <2>3. TwoControl'
    BY <1>1, <1>2, <2>1, <2>2 DEF TwoControl, TwoBusy, TwoCollecting, TwoReporting
  <2>4. TwoRows'
    BY <1>1, <1>2, <2>2, EmptyRows DEF TwoRows
  <2>5. TwoLogs' /\ TwoOutcome'
    BY <2>2 DEF TwoLogs, TwoBusy, TwoOutcome
  <2>6. TwoSwept' /\ TwoLeft'
    BY <2>2 DEF TwoSwept, TwoCollecting, TwoLeft
  <2>7. QED
    BY <2>3, <2>4, <2>5, <2>6 DEF TwoInv
<1>6. QED
  BY <1>3, <1>4, <1>5

\* The points to be swept.
LEMMA TwoLoads ==
  ASSUME TwoInv, Load
  PROVE  TwoInv'
<1> DEFINE loaded == IF args.resume THEN report.rows ELSE <<>>
           done == IF args.resume THEN completed_points(loaded) ELSE {}
           all == ForEach(args.locks, LAMBDA l :
                      [i \in DOMAIN args.threads |-> build_sweep_command(args, l, args.threads[i])])
           S == TwoCommands(args)
           todo == {c \in ToSet(all) : c.name \notin done}
<1>1. /\ stage = "builds" /\ Over /\ rows' = loaded /\ Proceed("sweeps", Among(all, todo))
      /\ UNCHANGED <<raw, report, failed, logs, torn, bounds>>
  BY DEF Load
<1>2. /\ pc = "next" /\ pc' = "next" /\ stage' = "sweeps" /\ work' = Among(all, todo) /\ pos' = 1
      /\ UNCHANGED <<args, log, failures, status, raw, report, failed, logs, sessions, kills, finished>>
  BY <1>1 DEF Proceed, Over, bounds
<1>3. /\ args \in TwoSessions /\ status = "running" /\ failures = {} /\ sessions \in Nat /\ kills \in Nat
      /\ report = [state |-> report.state, rows |-> report.rows]
      /\ FineRows(report.rows, finished, kills)
  BY <1>1, <1>2 DEF TwoInv, TwoControl, TwoRows
<1>4. all \in Seq(S) /\ ToSet(all) = S /\ IsInjective(all) /\ \A c, d \in S : c.name = d.name => c = d
  BY <1>3, AllSweeps
<1> HIDE DEF all, S
<1>5. work' \in Seq(S) /\ ToSet(work') = ToSet(all) \cap todo /\ IsInjective(work')
  BY <1>2, <1>4, AmongFacts
<1>6. ToSet(work') = {c \in S : c.name \notin done}
  BY <1>4, <1>5
<1>7. /\ IsSeq(work') /\ Len(work') \in Nat /\ DOMAIN work' = 1..Len(work')
      /\ \A i \in DOMAIN work' : work'[i] \in S /\ work'[i].name \notin done
      /\ \A i, j \in DOMAIN work' : work'[i].name = work'[j].name => i = j
  <2>1. /\ IsSeq(work') /\ Len(work') \in Nat /\ DOMAIN work' = 1..Len(work')
        /\ \A i \in 1..Len(work') : work'[i] \in ToSet(work')
    BY <1>5, SeqFacts, SeqOfItsElements
  <2>2. \A i \in DOMAIN work' : work'[i] \in S /\ work'[i].name \notin done
    BY <1>6, <2>1
  <2>3. \A i, j \in DOMAIN work' : work'[i].name = work'[j].name => i = j
    BY <1>4, <1>5, <2>2 DEF IsInjective
  <2>4. QED
    BY <2>1, <2>2, <2>3
<1>8. TwoControl'
  <2>1. pos' \in 1..Len(work') + 1
    BY <1>2, <1>7
  <2>2. \A i \in DOMAIN work' : work'[i] \in TwoCommands(args')
    BY <1>2, <1>7 DEF S
  <2>3. QED
    BY <1>2, <1>3, <1>7, <2>1, <2>2 DEF TwoControl, TwoBusy, TwoCollecting, TwoReporting
<1>9. TwoLogs' /\ TwoOutcome'
  BY <1>2, <1>3 DEF TwoLogs, TwoBusy, TwoOutcome
<1>10. TwoSwept'
  BY <1>2 DEF TwoSwept, TwoCollecting
<1>11. TwoRows'
  BY <1>1, <1>2, <1>3, EmptyRows DEF TwoRows
<1>12. TwoLeft'
  <2>1. completed_points(rows') = done
    <3>1. completed_points(<<>>) = {}
      BY EmptySeq DEF completed_points
    <3>2. QED
      BY <1>1, <3>1
  <2>2. \A l \in ToSet(args.locks), t \in ToSet(args.threads) : <<l, t>> \in done \/ \E i \in DOMAIN work' : work'[i].name = <<l, t>>
    <3> SUFFICES ASSUME NEW l \in ToSet(args.locks), NEW t \in ToSet(args.threads), <<l, t>> \notin done
                 PROVE  \E i \in DOMAIN work' : work'[i].name = <<l, t>>
      OBVIOUS
    <3> DEFINE c == build_sweep_command(args, l, t)
    <3>1. c \in S /\ c.name = <<l, t>>
      BY DEF S, TwoCommands, build_sweep_command, Command
    <3> HIDE DEF c
    <3>2. c \in ToSet(work')
      BY <1>6, <3>1
    <3>3. QED
      BY <3>1, <3>2 DEF ToSet
  <2>3. args.resume => Prefix(report.rows, rows')
    BY <1>1 DEF Prefix
  <2>4. \A i \in DOMAIN work' : Left(i)'
    BY <1>2, <1>7 DEF Left, TwoCollecting
  <2> HIDE DEF done
  <2>5. QED
    BY <1>2, <1>7, <2>1, <2>2, <2>3, <2>4 DEF TwoLeft, TwoCollecting
<1>13. QED
  BY <1>8, <1>9, <1>10, <1>11, <1>12 DEF TwoInv

\* A command starts, or ends, its log being its own.
LEMMA TwoCommandRuns ==
  ASSUME TwoInv, \/ pc = "next" /\ pos <= Len(work) /\ StartCommand(<<Item.name, 0>>)
                 \/ \E ok \in BOOLEAN : EndCommand(ok)
  PROVE  TwoInv'
<1> USE DEF TwoBusy, TwoCollecting, TwoReporting
<1>1. \A f \in failures : pos <= Len(work) /\ pc # "off" => f.log # <<Item.name, 0>>
  <2> SUFFICES ASSUME NEW f \in failures, pos <= Len(work), pc # "off"
               PROVE  f.log # <<Item.name, 0>>
    OBVIOUS
  <2>1. stage = "sweeps" /\ IsSeq(work) /\ pos \in 1..Len(work) + 1
    BY DEF TwoInv, TwoControl
  <2>2. DOMAIN work = 1..Len(work) /\ Len(work) \in Nat
    BY <2>1, LenProperties DEF IsSeq
  <2>3. PICK i \in 1..pos - 1 : work[i].name = f.name
    BY DEF TwoInv, TwoLogs
  <2>4. i \in DOMAIN work /\ pos \in DOMAIN work /\ i # pos
    BY <2>1, <2>2
  <2>5. work[i].name # work[pos].name
    BY <2>1, <2>4 DEF TwoInv, TwoControl
  <2>6. f.log = <<f.name, 0>>
    BY DEF TwoInv, TwoLogs
  <2>7. QED
    BY <2>3, <2>5, <2>6 DEF Item
<1>2. CASE pc = "next" /\ pos <= Len(work) /\ StartCommand(<<Item.name, 0>>)
  <2>1. /\ pc' = "running" /\ log' = <<Item.name, 0>> /\ Item.kind # "dry"
        /\ logs' = With(logs, log', [by |-> sessions, rc |-> "none"])
        /\ UNCHANGED <<args, stage, work, pos, rows, failures, status, raw, report, failed, sessions, kills, finished>>
    BY <1>2 DEF StartCommand, bounds
  <2>2. TwoControl'
    BY <1>2, <2>1 DEF TwoInv, TwoControl, Item
  <2>3. /\ log' \in DOMAIN logs' /\ logs'[log'] = [by |-> sessions, rc |-> "none"]
        /\ \A x \in DOMAIN logs : x # log' => x \in DOMAIN logs' /\ logs'[x] = logs[x]
    BY <2>1 DEF With
  <2>4. status = "running"
    BY <1>2 DEF TwoInv, TwoControl
  <2>5. TwoLogs'
    <3>1. \A f \in failures : f.log # log'
      BY <1>1, <1>2, <2>1
    <3>2. \A f \in failures : /\ f.by = sessions /\ f.log = <<f.name, 0>>
                              /\ f.log \in DOMAIN logs /\ logs[f.log] = [by |-> sessions, rc |-> "bad"]
                              /\ \E i \in 1..pos - 1 : work[i].name = f.name
      BY <1>2 DEF TwoInv, TwoLogs
    <3>3. QED
      BY <2>1, <2>3, <2>4, <3>1, <3>2 DEF TwoLogs, Item
  <2>6. TwoSwept'
    BY <1>2, <2>1 DEF TwoInv, TwoSwept, Accounted, OutsFinished
  <2>7. TwoRows' /\ TwoOutcome'
    BY <2>1, <2>4 DEF TwoInv, TwoRows, TwoOutcome
  <2>8. TwoLeft'
    BY <1>2, <2>1 DEF TwoInv, TwoLeft, Left
  <2>9. QED
    BY <2>2, <2>5, <2>6, <2>7, <2>8 DEF TwoInv
<1>3. ASSUME NEW ok \in BOOLEAN, EndCommand(ok)
      PROVE  TwoInv'
  <2>1. /\ pc = "running" /\ pc' = IF ok THEN "dump_ok" ELSE "dump_bad"
        /\ logs' = [logs EXCEPT ![log].rc = IF ok THEN "ok" ELSE "bad"]
        /\ IF ok THEN finished' = finished \cup {<<Item.outs[i].file, sessions>> : i \in DOMAIN Item.outs}
           ELSE UNCHANGED finished
        /\ UNCHANGED <<args, stage, work, pos, log, rows, failures, status, report, failed, settings, sessions, kills>>
    BY <1>3 DEF EndCommand
  <2>2. /\ pos <= Len(work) /\ status = "running" /\ log = <<Item.name, 0>> /\ log \in DOMAIN logs
        /\ logs[log] = [by |-> sessions, rc |-> "none"] /\ finished \subseteq finished' /\ kills \in Nat
        /\ IsSeq(work) /\ pos \in 1..Len(work) + 1
    BY <2>1 DEF TwoInv, TwoControl, TwoLogs
  <2>3. TwoControl'
    BY <2>1 DEF TwoInv, TwoControl, Item
  <2>4. /\ DOMAIN logs' = DOMAIN logs /\ (~ok => logs'[log] = [by |-> sessions, rc |-> "bad"])
        /\ \A x \in DOMAIN logs : x # log => logs'[x] = logs[x]
    BY <2>1, <2>2
  <2>5. TwoLogs'
    <3>1. \A f \in failures : f.log # log
      BY <1>1, <2>1, <2>2
    <3>2. \A f \in failures : /\ f.by = sessions /\ f.log = <<f.name, 0>>
                              /\ f.log \in DOMAIN logs /\ logs[f.log] = [by |-> sessions, rc |-> "bad"]
                              /\ \E i \in 1..pos - 1 : work[i].name = f.name
      BY <2>1 DEF TwoInv, TwoLogs
    <3>3. \A f \in failures : f.log \in DOMAIN logs' /\ logs'[f.log] = [by |-> sessions, rc |-> "bad"]
      BY <2>4, <3>1, <3>2
    <3>4. pc' \in TwoBusy /\ log' = <<Item.name, 0>>' /\ log' \in DOMAIN logs'
      BY <2>1, <2>2, <2>4 DEF Item
    <3>5. pc' \in {"dump_bad", "raised"} => logs'[log'] = [by |-> sessions', rc |-> "bad"]
      BY <2>1, <2>4
    <3>6. pc' # "running" /\ status' = "running"
      BY <2>1, <2>2
    <3>7. QED
      BY <2>1, <3>2, <3>3, <3>4, <3>5, <3>6 DEF TwoLogs
  <2>6. TwoSwept'
    <3>1. ASSUME NEW i \in 1..pos - 1, work[i].kind = "sweep"
          PROVE  Accounted(i)'
      BY <2>1, <2>2, <3>1 DEF TwoInv, TwoSwept, Accounted, OutsFinished
    <3>2. ok => OutsFinished(pos)'
      BY <2>1 DEF OutsFinished, Item
    <3>3. ASSUME ok, stage = "sweeps"
          PROVE  LET o == Item.outs[1] IN
                 o.file \in DOMAIN raw' /\ raw'[o.file].by = sessions
                    /\ raw'[o.file].of = o.points /\ raw'[o.file].n = Len(o.points)
      <4>1. pos \in DOMAIN work
        BY <2>2, LenProperties DEF IsSeq
      <4>2. args \in TwoSessions /\ Item \in TwoCommands(args)
        BY <2>1, <3>3, <4>1 DEF TwoInv, TwoControl, Item
      <4>3. IsSeq(Item.outs) /\ DOMAIN Item.outs = {1}
        BY <4>2, TwoCommandFacts
      <4>4. Wrote(TRUE)
        BY <1>3, <3>3, <4>3, CommandWrites
      <4>5. QED
        BY <4>3, <4>4 DEF Wrote
    <3>4. QED
      BY <2>1, <3>1, <3>2, <3>3 DEF TwoSwept, Item
  <2>7. TwoRows'
    BY <2>1, <2>2, RowsKept DEF TwoInv, TwoRows
  <2>8. TwoOutcome'
    BY <2>1, <2>2 DEF TwoOutcome
  <2>9. TwoLeft'
    BY <2>1 DEF TwoInv, TwoLeft, Left
  <2>10. QED
    BY <2>3, <2>5, <2>6, <2>7, <2>8, <2>9 DEF TwoInv
<1>4. QED
  BY <1>2, <1>3

\* The steps between commands.
LEMMA TwoMoves ==
  ASSUME TwoInv, write_manifest \/ Builds \/ DryRun \/ SweepsOver
  PROVE  TwoInv'
<1> USE DEF TwoBusy, TwoCollecting, TwoReporting
<1>1. CASE write_manifest
  <2>1. /\ pc \in {"dump_ok", "dump_bad", "dump_dry"}
        /\ pc' = (CASE pc = "dump_ok" -> "ended" [] pc = "dump_bad" -> "raised" [] OTHER -> "next")
        /\ pos' = (IF pc = "dump_dry" THEN pos + 1 ELSE pos)
        /\ UNCHANGED <<args, stage, work, log, rows, failures, status, raw, report, failed, settings, logs, sessions, kills, finished>>
    BY <1>1 DEF write_manifest, bounds
  <2>2. /\ status = "running" /\ IsSeq(work) /\ pos \in 1..Len(work) + 1 /\ pos <= Len(work)
        /\ (pc = "dump_dry" => Item.kind = "dry") /\ Len(work) \in Nat /\ pos \in DOMAIN work
    BY <2>1, LenProperties DEF TwoInv, TwoControl, IsSeq
  <2>3. TwoRows' /\ TwoOutcome'
    BY <2>1, <2>2 DEF TwoInv, TwoRows, TwoOutcome
  <2>4. CASE pc # "dump_dry"
    <3>1. /\ pc' = (IF pc = "dump_ok" THEN "ended" ELSE "raised") /\ pos' = pos
      BY <2>1, <2>4
    <3>2. TwoControl'
      BY <2>1, <2>4, <3>1 DEF TwoInv, TwoControl, Item
    <3>3. TwoLogs'
      BY <2>1, <2>2, <2>4, <3>1 DEF TwoInv, TwoLogs, Item
    <3>4. TwoSwept'
      BY <2>1, <2>4, <3>1 DEF TwoInv, TwoSwept, Accounted, OutsFinished, Item
    <3>5. TwoLeft'
      BY <2>1, <2>4, <3>1 DEF TwoInv, TwoLeft, Left
    <3>6. QED
      BY <2>3, <3>2, <3>3, <3>4, <3>5 DEF TwoInv
  <2>5. CASE pc = "dump_dry"
    <3>1. pc' = "next" /\ pos' = pos + 1 /\ pos' \in 1..Len(work) + 1
      BY <2>1, <2>2, <2>5
    <3>2. TwoControl'
      BY <2>1, <2>5, <3>1 DEF TwoInv, TwoControl
    <3>3. TwoLogs'
      <4>1. \A i \in 1..pos - 1 : i \in 1..pos' - 1
        BY <2>2, <3>1
      <4>2. QED
        BY <2>1, <2>2, <2>5, <3>1, <4>1 DEF TwoInv, TwoLogs
    <3>4. TwoSwept'
      <4>1. \A i \in 1..pos' - 1 : i \in 1..pos - 1 \/ (i = pos /\ work[i].kind = "dry")
        BY <2>2, <2>5, <3>1 DEF Item
      <4>2. QED
        BY <2>1, <2>5, <3>1, <4>1 DEF TwoInv, TwoSwept, Accounted, OutsFinished
    <3>5. TwoLeft'
      <4>1. \A i \in DOMAIN work : Left(i)' => Left(i)
        BY <2>1, <2>2, <2>5, <3>1, LenProperties DEF Left, IsSeq
      <4>2. stage = "sweeps" => args.dry
        BY <2>1, <2>2, <2>5, TwoCommandFacts DEF TwoInv, TwoControl, Item
      <4>3. QED
        BY <2>1, <2>5, <3>1, <4>1, <4>2 DEF TwoInv, TwoLeft
    <3>6. QED
      BY <2>3, <3>2, <3>3, <3>4, <3>5 DEF TwoInv
  <2>6. QED
    BY <2>4, <2>5
<1>2. CASE Builds
  <2>1. CASE Raise
    <3>1. pc' = "off" /\ status' = "error" /\ rows' = <<>> /\ UNCHANGED <<report, sessions, kills, finished>>
      BY <2>1 DEF Raise, Exit, files, bounds
    <3>2. QED
      BY <3>1, TwoExit DEF TwoInv, TwoControl, TwoRows
  <2>2. CASE Continue
    <3>1. /\ pc = "ended" /\ pc' = "next" /\ pos' = pos + 1 /\ stage = "builds"
          /\ UNCHANGED <<args, stage, work, log, rows, failures, status, raw, report, failed, logs, sessions, kills, finished>>
      BY <1>2, <2>2 DEF Builds, Continue, files, bounds
    <3>2. /\ status = "running" /\ IsSeq(work) /\ pos \in 1..Len(work) + 1 /\ pos <= Len(work) /\ Len(work) \in Nat
          /\ pos' \in 1..Len(work) + 1 /\ pos \in DOMAIN work /\ failures = {}
          /\ \A i \in DOMAIN work : work[i].kind = "build"
      BY <3>1, LenProperties DEF TwoInv, TwoControl, IsSeq
    <3>3. TwoControl'
      BY <3>1, <3>2 DEF TwoInv, TwoControl
    <3>4. TwoLogs'
      BY <3>1, <3>2 DEF TwoInv, TwoLogs
    <3>5. TwoSwept'
      <4>1. \A i \in 1..pos' - 1 : i \in DOMAIN work
        BY <3>1, <3>2, LenProperties DEF IsSeq
      <4>2. QED
        BY <3>1, <3>2, <4>1 DEF TwoSwept
    <3>6. TwoRows' /\ TwoOutcome' /\ TwoLeft'
      BY <3>1, <3>2 DEF TwoInv, TwoRows, TwoOutcome, TwoLeft
    <3>7. QED
      BY <3>3, <3>4, <3>5, <3>6 DEF TwoInv
  <2>3. QED
    BY <1>2, <2>1, <2>2 DEF Builds
<1>3. CASE DryRun
  <2>1. /\ pc = "next" /\ pos <= Len(work) /\ Item.kind = "dry" /\ pc' = "dump_dry"
        /\ UNCHANGED <<args, stage, work, pos, log, rows, failures, status, raw, report, failed, logs, sessions, kills, finished>>
    BY <1>3 DEF DryRun, bounds
  <2>2. TwoControl'
    BY <2>1 DEF TwoInv, TwoControl, Item
  <2>3. TwoLogs'
    BY <2>1 DEF TwoInv, TwoLogs
  <2>4. TwoSwept'
    BY <2>1 DEF TwoInv, TwoSwept, Accounted, OutsFinished
  <2>5. TwoRows' /\ TwoOutcome'
    BY <2>1 DEF TwoInv, TwoRows, TwoOutcome, TwoControl
  <2>6. TwoLeft'
    BY <2>1 DEF TwoInv, TwoLeft, Left
  <2>7. QED
    BY <2>2, <2>3, <2>4, <2>5, <2>6 DEF TwoInv
<1>4. CASE SweepsOver
  <2>1. /\ stage = "sweeps" /\ pc = "next" /\ pos > Len(work) /\ pc' = IF args.dry THEN "finish" ELSE "report"
        /\ UNCHANGED <<args, stage, work, pos, log, rows, failures, status, raw, report, failed, logs, sessions, kills, finished>>
    BY <1>4 DEF SweepsOver, Over, files, bounds
  <2>2. pos = Len(work) + 1 /\ pc' \in TwoReporting
    BY <2>1, LenProperties DEF TwoInv, TwoControl, IsSeq
  <2>3. TwoControl'
    BY <2>1, <2>2, LenProperties DEF TwoInv, TwoControl, IsSeq
  <2>4. TwoLogs'
    BY <2>1, <2>2 DEF TwoInv, TwoLogs
  <2>5. TwoSwept'
    BY <2>1, <2>2 DEF TwoInv, TwoSwept, Accounted, OutsFinished
  <2>6. TwoRows' /\ TwoOutcome'
    BY <2>1 DEF TwoInv, TwoRows, TwoOutcome, TwoControl
  <2>7. TwoLeft'
    BY <2>1, <2>2 DEF TwoInv, TwoLeft, Left
  <2>8. QED
    BY <2>3, <2>4, <2>5, <2>6, <2>7 DEF TwoInv
<1>5. QED
  BY <1>1, <1>2, <1>3, <1>4

\* The rows of a sweep that has ended.
LEMMA TwoCollects ==
  ASSUME TwoInv, append_sweep_rows
  PROVE  TwoInv'
<1> USE DEF TwoBusy, TwoCollecting, TwoReporting
<1> DEFINE f == Item.outs[1].file
           p == Item.name
           new == [i \in 1..Repeats |-> [name |-> p, point |-> <<p[2], i>>, by |-> sessions]]
<1>1. /\ pc = "ended" /\ stage = "sweeps" /\ pc' = "progress"
      /\ rows' = rows \o [i \in 1..raw[f].n |-> [name |-> p, point |-> raw[f].of[i], by |-> raw[f].by]]
      /\ UNCHANGED <<args, stage, work, pos, log, failures, status, raw, report, failed, logs, sessions, kills, finished>>
  BY DEF append_sweep_rows, files, bounds
<1>2. /\ status = "running" /\ args \in TwoSessions /\ Item.kind # "dry"
      /\ IsSeq(work) /\ pos \in 1..Len(work) + 1 /\ pos <= Len(work) /\ Len(work) \in Nat /\ DOMAIN work = 1..Len(work)
      /\ pos \in DOMAIN work /\ Item \in TwoCommands(args) /\ kills \in Nat
      /\ \A i, j \in DOMAIN work : work[i].name = work[j].name => i = j
  <2>1. /\ status = "running" /\ args \in TwoSessions /\ Item.kind # "dry" /\ kills \in Nat
        /\ IsSeq(work) /\ pos \in 1..Len(work) + 1 /\ pos <= Len(work)
        /\ \A i \in DOMAIN work : work[i] \in TwoCommands(args)
        /\ \A i, j \in DOMAIN work : work[i].name = work[j].name => i = j
    BY <1>1 DEF TwoInv, TwoControl
  <2>2. Len(work) \in Nat /\ DOMAIN work = 1..Len(work)
    BY <2>1, LenProperties DEF IsSeq
  <2>3. pos \in DOMAIN work
    BY <2>1, <2>2
  <2>4. QED
    BY <2>1, <2>2, <2>3 DEF Item
<1>3. PICK l \in ToSet(args.locks), t \in ToSet(args.threads) :
            /\ p = <<l, t>> /\ DOMAIN Item.outs = {1} /\ f = PointFile(l, t)
            /\ Item.outs[1].points = [r \in 1..Repeats |-> <<t, r>>] /\ Len(Item.outs[1].points) = Repeats
  <2> DEFINE c == Item
  <2>1. c \in TwoCommands(args)
    BY <1>2
  <2> HIDE DEF c
  <2>2. \E l \in ToSet(args.locks), t \in ToSet(args.threads) :
            /\ t \in 1..Len(ordered_cpus) /\ c.name = <<l, t>> /\ c.cpus = cpu_list_for_threads(t)
            /\ IsSeq(c.outs) /\ DOMAIN c.outs = {1}
            /\ c.outs[1].file = PointFile(l, t) /\ c.outs[1].points = [r \in 1..Repeats |-> <<t, r>>]
            /\ Len(c.outs[1].points) = Repeats
    BY <1>2, <2>1, TwoCommandFacts, Zenon
  <2>3. QED
    BY <2>2, Zenon DEF c
<1>4. raw[f].by = sessions /\ raw[f].of = [r \in 1..Repeats |-> <<t, r>>] /\ raw[f].n = Repeats
  BY <1>1, <1>3 DEF TwoInv, TwoSwept
<1>5. rows' = rows \o new
  <2>1. p[2] = t
    BY <1>3
  <2>2. new = [i \in 1..raw[f].n |-> [name |-> p, point |-> raw[f].of[i], by |-> raw[f].by]]
    BY <1>4, <2>1
  <2>3. QED
    BY <1>1, <2>2
<1>6. <<PointFile(p[1], p[2]), sessions>> \in finished
  <2>1. OutsFinished(pos)
    BY <1>1 DEF TwoInv, TwoSwept
  <2>2. <<f, sessions>> \in finished
    BY <1>3, <2>1 DEF OutsFinished, Item
  <2>3. p[1] = l /\ p[2] = t
    BY <1>3
  <2>4. QED
    BY <1>3, <2>2, <2>3
<1>7. p \notin completed_points(rows)
  <2>1. Left(pos)
    <3>1. pos \in 1..Len(work) + 1 /\ Len(work) \in Nat
      BY <1>2
    <3> HIDE DEF f, p, new
    <3>2. pos >= pos
      BY <3>1
    <3>3. pc = "ended"
      BY <1>1
    <3>4. QED
      BY <3>2, <3>3 DEF Left
  <2>2. QED
    BY <1>1, <1>2, <2>1 DEF TwoInv, TwoLeft, Item
<1>8. FineRows(rows, finished, kills)
  BY DEF TwoInv, TwoRows
<1>9. /\ FineRows(rows', finished, kills) /\ p \in completed_points(rows')
      /\ \A q : q # p => (q \in completed_points(rows') <=> q \in completed_points(rows))
      /\ \A r : Prefix(r, rows) => Prefix(r, rows')
  <2> HIDE DEF p
  <2>1. QED
    BY <1>2, <1>5, <1>6, <1>7, <1>8, RowsAdded
<1> HIDE DEF f, p, new
<1>10. TwoControl'
  BY <1>1, <1>2 DEF TwoInv, TwoControl, Item
<1>11. TwoLogs'
  BY <1>1, <1>2 DEF TwoInv, TwoLogs
<1>12. TwoSwept'
  BY <1>1, <1>2 DEF TwoInv, TwoSwept, Accounted, OutsFinished
<1>13. TwoRows'
  BY <1>1, <1>9 DEF TwoInv, TwoRows
<1>14. TwoOutcome'
  BY <1>1, <1>2 DEF TwoOutcome
<1>15. TwoLeft'
  <2>1. \A i \in DOMAIN work : Left(i)' => Left(i) /\ work[i].name # p
    BY <1>1, <1>2 DEF Left, p, Item
  <2>2. \A i \in DOMAIN work : Left(i) /\ work[i].name # p => Left(i)'
    BY <1>1, <1>2 DEF Left, p, Item
  <2>3. pc' # "off" /\ stage' = "sweeps" /\ pc' # "finish"
    BY <1>1
  <2>4. (Item.name)' \in completed_points(rows')
    BY <1>1, <1>9 DEF p, Item
  <2>5. \A i \in DOMAIN work : Left(i)' => work[i].name \notin completed_points(rows')
    BY <1>1, <1>9, <2>1 DEF TwoInv, TwoLeft
  <2>6. ASSUME ~args.dry, failures = {}, NEW k \in ToSet(args.locks), NEW u \in ToSet(args.threads)
        PROVE  <<k, u>> \in completed_points(rows') \/ \E i \in DOMAIN work : Left(i)' /\ work[i].name = <<k, u>>
    <3>1. \/ <<k, u>> \in completed_points(rows)
          \/ \E i \in DOMAIN work : Left(i) /\ work[i].name = <<k, u>>
      BY <1>1, <2>6 DEF TwoInv, TwoLeft
    <3>2. CASE <<k, u>> = p
      BY <1>9, <3>2
    <3>3. CASE <<k, u>> # p
      BY <1>9, <2>2, <3>1, <3>3
    <3>4. QED
      BY <3>2, <3>3
  <2>7. args.resume => Prefix(report.rows, rows')
    BY <1>1, <1>9 DEF TwoInv, TwoLeft
  <2>8. QED
    BY <1>1, <2>3, <2>4, <2>5, <2>6, <2>7 DEF TwoLeft
<1>16. QED
  BY <1>10, <1>11, <1>12, <1>13, <1>14, <1>15 DEF TwoInv

\* The raw.csv of the root is truncated, and written.
LEMMA TwoReports ==
  ASSUME TwoInv, write_raw_csv
  PROVE  TwoInv'
<1> USE DEF TwoBusy, TwoCollecting, TwoReporting
<1>1. ASSUME NEW from, NEW to, OpenReport(from, to),
             <<from, to>> \in {<<"progress", "progress_open">>, <<"report", "report_open">>}
      PROVE  TwoInv'
  <2>1. /\ pc = from /\ pc' = to /\ report' = [state |-> "torn", rows |-> <<>>]
        /\ UNCHANGED <<args, stage, work, pos, log, rows, failures, status, raw, failed, logs, sessions, kills, finished>>
    BY <1>1 DEF OpenReport, bounds
  <2>2. \/ pc = "progress" /\ pc' = "progress_open"
        \/ pc = "report" /\ pc' = "report_open"
    BY <1>1, <2>1
  <2>3. report'.rows = <<>> /\ report' = [state |-> report'.state, rows |-> report'.rows] /\ status = "running"
    BY <2>1, <2>2 DEF TwoInv, TwoControl
  <2>4. TwoControl'
    BY <2>1, <2>2, <2>3 DEF TwoInv, TwoControl, Item
  <2>5. TwoLogs'
    BY <2>1, <2>2, <2>3 DEF TwoInv, TwoLogs
  <2>6. TwoSwept'
    BY <2>1, <2>2 DEF TwoInv, TwoSwept, Accounted, OutsFinished
  <2>7. TwoRows'
    BY <2>1, <2>3, EmptyRows DEF TwoInv, TwoRows
  <2>8. TwoOutcome'
    BY <2>1, <2>3 DEF TwoOutcome
  <2>9. TwoLeft'
    <3>1. Prefix(<<>>, rows)
      BY EmptySeq DEF Prefix
    <3>2. QED
      BY <2>1, <2>2, <2>3, <3>1 DEF TwoInv, TwoLeft, Left, Item
  <2>10. QED
    BY <2>4, <2>5, <2>6, <2>7, <2>8, <2>9 DEF TwoInv
<1>2. ASSUME CloseReport("progress_open", "next")
      PROVE  TwoInv'
  <2>1. /\ pc = "progress_open" /\ pc' = "next" /\ report' = [state |-> "whole", rows |-> rows] /\ pos' = pos + 1
        /\ UNCHANGED <<args, stage, work, log, rows, failures, status, raw, failed, logs, sessions, kills, finished>>
    BY <1>2 DEF CloseReport, bounds
  <2>2. report'.rows = rows /\ report' = [state |-> report'.state, rows |-> report'.rows]
    BY <2>1
  <2>3. /\ status = "running" /\ IsSeq(work) /\ pos \in 1..Len(work) + 1 /\ pos <= Len(work) /\ Len(work) \in Nat
        /\ pos' \in 1..Len(work) + 1 /\ DOMAIN work = 1..Len(work)
    BY <2>1, LenProperties DEF TwoInv, TwoControl, IsSeq
  <2>4. TwoControl'
    BY <2>1, <2>2, <2>3 DEF TwoInv, TwoControl
  <2>5. TwoLogs'
    <3>1. \A i \in 1..pos - 1 : i \in 1..pos' - 1
      BY <2>1, <2>3
    <3>2. QED
      BY <2>1, <2>3, <3>1 DEF TwoInv, TwoLogs
  <2>6. TwoSwept'
    <3>1. \A i \in 1..pos' - 1 : i \in 1..pos - 1 \/ i = pos
      BY <2>1, <2>3
    <3>2. OutsFinished(pos)
      BY <2>1 DEF TwoInv, TwoSwept
    <3>3. \A i \in 1..pos' - 1 : work[i].kind = "sweep" => Accounted(i)
      BY <2>1, <3>1, <3>2 DEF TwoInv, TwoSwept, Accounted
    <3>4. QED
      BY <2>1, <3>3 DEF TwoSwept, Accounted, OutsFinished
  <2>7. TwoRows'
    BY <2>1, <2>2 DEF TwoInv, TwoRows
  <2>8. TwoOutcome'
    BY <2>1, <2>3 DEF TwoOutcome
  <2>9. TwoLeft'
    <3>1. Prefix(rows, rows)
      BY DEF Prefix
    <3>2. \A i \in DOMAIN work : Left(i)' <=> Left(i)
      BY <2>1, <2>3 DEF Left
    <3>3. QED
      BY <2>1, <2>2, <3>1, <3>2 DEF TwoInv, TwoLeft
  <2>10. QED
    BY <2>4, <2>5, <2>6, <2>7, <2>8, <2>9 DEF TwoInv
<1>3. ASSUME CloseReport("report_open", "finish")
      PROVE  TwoInv'
  <2>1. /\ pc = "report_open" /\ pc' = "finish" /\ report' = [state |-> "whole", rows |-> rows] /\ pos' = pos
        /\ UNCHANGED <<args, stage, work, log, rows, failures, status, raw, failed, logs, sessions, kills, finished>>
    BY <1>3 DEF CloseReport, bounds
  <2>2. /\ report'.rows = rows /\ report' = [state |-> report'.state, rows |-> report'.rows] /\ report'.state = "whole"
        /\ status = "running"
    BY <2>1 DEF TwoInv, TwoControl
  <2>3. TwoControl'
    BY <2>1, <2>2 DEF TwoInv, TwoControl
  <2>4. TwoLogs'
    BY <2>1, <2>2 DEF TwoInv, TwoLogs
  <2>5. TwoSwept'
    BY <2>1 DEF TwoInv, TwoSwept, Accounted, OutsFinished
  <2>6. TwoRows'
    BY <2>1, <2>2 DEF TwoInv, TwoRows
  <2>7. TwoOutcome'
    BY <2>1, <2>2 DEF TwoOutcome
  <2>8. TwoLeft'
    <3>1. Prefix(rows, rows)
      BY DEF Prefix
    <3>2. QED
      BY <2>1, <2>2, <3>1 DEF TwoInv, TwoLeft, Left
  <2>9. QED
    BY <2>3, <2>4, <2>5, <2>6, <2>7, <2>8 DEF TwoInv
<1>4. QED
  BY <1>1, <1>2, <1>3 DEF write_raw_csv

\* A sweep that failed is listed, with its log.
LEMMA TwoFails ==
  ASSUME TwoInv, stage = "sweeps", append_command_failure
  PROVE  TwoInv'
<1> USE DEF TwoBusy, TwoCollecting, TwoReporting
<1> DEFINE f == [name |-> Item.name, log |-> log, by |-> sessions]
<1>1. /\ pc = "raised" /\ Item.kind = "sweep" /\ failures' = failures \cup {f}
      /\ pc' = "next" /\ pos' = pos + 1
      /\ UNCHANGED <<args, stage, work, log, rows, status, raw, report, logs, sessions, kills, finished>>
  BY DEF append_command_failure, bounds
<1>2. /\ status = "running" /\ IsSeq(work) /\ pos \in 1..Len(work) + 1 /\ pos <= Len(work) /\ Len(work) \in Nat
      /\ pos' \in 1..Len(work) + 1 /\ DOMAIN work = 1..Len(work) /\ stage = "sweeps"
  BY <1>1, LenProperties DEF TwoInv, TwoControl, IsSeq
<1>3. f.name = Item.name /\ f.log = log /\ f.by = sessions /\ f \in failures'
  BY <1>1
<1> HIDE DEF f
<1>4. TwoControl'
  BY <1>1, <1>2 DEF TwoInv, TwoControl
<1>5. TwoLogs'
  <2>1. \A i \in 1..pos - 1 : i \in 1..pos' - 1
    BY <1>1, <1>2
  <2>2. pos \in 1..pos' - 1 /\ work[pos].name = f.name
    BY <1>1, <1>2, <1>3 DEF Item
  <2>3. f.log = <<f.name, 0>> /\ f.log \in DOMAIN logs /\ logs[f.log] = [by |-> sessions, rc |-> "bad"]
    BY <1>1, <1>3 DEF TwoInv, TwoLogs
  <2>4. \A g \in failures : /\ g.by = sessions /\ g.log = <<g.name, 0>>
                            /\ g.log \in DOMAIN logs /\ logs[g.log] = [by |-> sessions, rc |-> "bad"]
                            /\ \E i \in 1..pos - 1 : work[i].name = g.name
    BY <1>1 DEF TwoInv, TwoLogs
  <2>5. \A g \in failures' : /\ g.by = sessions /\ g.log = <<g.name, 0>>
                             /\ g.log \in DOMAIN logs /\ logs[g.log] = [by |-> sessions, rc |-> "bad"]
                             /\ \E i \in 1..pos' - 1 : work[i].name = g.name
    BY <1>1, <1>3, <2>1, <2>2, <2>3, <2>4
  <2>6. QED
    BY <1>1, <1>2, <2>5 DEF TwoLogs
<1>6. TwoSwept'
  <2>1. \A i \in 1..pos' - 1 : i \in 1..pos - 1 \/ i = pos
    BY <1>1, <1>2
  <2>2. \A i \in 1..pos - 1 : work[i].kind = "sweep" => Accounted(i)
    BY <1>1 DEF TwoInv, TwoSwept
  <2>3. \A i : Accounted(i) => Accounted(i)'
    BY <1>1 DEF Accounted, OutsFinished
  <2>4. \A i : i = pos => Accounted(i)'
    BY <1>1, <1>3 DEF Accounted, Item
  <2>5. \A i \in 1..pos' - 1 : work'[i].kind = "sweep" => Accounted(i)'
    BY <1>1, <2>1, <2>2, <2>3, <2>4
  <2>6. QED
    BY <1>1, <2>5 DEF TwoSwept
<1>7. TwoRows' /\ TwoOutcome'
  BY <1>1, <1>2 DEF TwoInv, TwoRows, TwoOutcome
<1>8. TwoLeft'
  <2>1. \A i \in DOMAIN work : Left(i)' => Left(i)
    BY <1>1, <1>2 DEF Left
  <2>2. failures' # {}
    BY <1>3
  <2>3. QED
    BY <1>1, <1>2, <2>1, <2>2 DEF TwoInv, TwoLeft
<1>9. QED
  BY <1>4, <1>5, <1>6, <1>7, <1>8 DEF TwoInv

\* The session reports its failures and ends.
LEMMA TwoFinishes ==
  ASSUME TwoInv, pc = "finish", Finish
  PROVE  TwoInv'
<1> USE DEF TwoBusy, TwoCollecting, TwoReporting
<1>1. /\ failed' = failures /\ pc' = "off" /\ status' = (IF failures = {} THEN "ok" ELSE "failures") /\ rows' = <<>>
      /\ UNCHANGED <<args, raw, report, logs, sessions, kills, finished>>
  BY DEF Finish, Exit, bounds
<1>2. /\ pos = Len(work) + 1 /\ stage = "sweeps" /\ DOMAIN work = 1..Len(work) /\ Len(work) \in Nat
  BY LenProperties DEF TwoInv, TwoControl, IsSeq
<1>3. TwoControl' /\ TwoSwept' /\ TwoLeft'
  BY <1>1 DEF TwoInv, TwoControl, TwoSwept, TwoLeft
<1>4. TwoLogs'
  BY <1>1 DEF TwoInv, TwoLogs
<1>5. TwoRows'
  BY <1>1, EmptyRows DEF TwoInv, TwoRows
<1>6. TwoOutcome'
  <2> SUFFICES ASSUME failures = {}, ~args.dry
               PROVE  /\ report.state = "whole"
                      /\ \A l \in ToSet(args.locks), t \in ToSet(args.threads) : <<l, t>> \in completed_points(report.rows)
    BY <1>1 DEF TwoOutcome
  <2>1. \A i \in DOMAIN work : ~Left(i)
    BY <1>2 DEF Left
  <2>2. QED
    BY <1>2, <2>1 DEF TwoInv, TwoLeft
<1>7. QED
  BY <1>3, <1>4, <1>5, <1>6 DEF TwoInv

\* A session is killed, and may leave a part of the rows.
LEMMA TwoKilled ==
  ASSUME TwoInv, Kill
  PROVE  TwoInv'
<1>1. /\ pc' = "off" /\ status' = "killed" /\ rows' = <<>> /\ kills' = kills + 1
      /\ UNCHANGED <<sessions, finished>>
      /\ \/ \E n \in 0..Len(rows) : report' = [report EXCEPT !.rows = SubSeq(rows, 1, n)]
         \/ report' = report
  BY DEF Kill, Exit
<1>2. kills \in Nat /\ sessions \in Nat /\ report = [state |-> report.state, rows |-> report.rows]
  BY DEF TwoInv, TwoControl
<1>3. FineRows(rows, finished, kills) /\ FineRows(report.rows, finished, kills)
  BY DEF TwoInv, TwoRows
<1>4. FineRows(report'.rows, finished', kills') /\ report' = [state |-> report'.state, rows |-> report'.rows]
  <2>1. CASE report' = report
    BY <1>1, <1>2, <1>3, <2>1, RowsKept
  <2>2. ASSUME NEW n \in 0..Len(rows), report' = [report EXCEPT !.rows = SubSeq(rows, 1, n)]
        PROVE  FineRows(report'.rows, finished', kills') /\ report' = [state |-> report'.state, rows |-> report'.rows]
    <3> DEFINE c == SubSeq(rows, 1, n)
    <3>1. FineRows(c, finished, kills + 1)
      BY <1>2, <1>3, RowsCut
    <3> HIDE DEF c
    <3>2. report' = [state |-> report.state, rows |-> c]
      BY <1>2, <2>2 DEF c
    <3>3. report'.rows = c /\ report' = [state |-> report'.state, rows |-> report'.rows]
      BY <3>2
    <3>4. QED
      BY <1>1, <3>1, <3>3
  <2>3. QED
    BY <1>1, <2>1, <2>2
<1>5. QED
  BY <1>1, <1>2, <1>4, TwoExit

\* Every step of experiment two keeps its invariant.
LEMMA TwoKeeps ==
  ASSUME TwoInv, TwoStart \/ TwoStep \/ Kill
  PROVE  TwoInv'
BY TwoStarts, TwoLoads, TwoCommandRuns, TwoMoves, TwoCollects, TwoReports, TwoFails, TwoFinishes, TwoKilled
   DEF TwoStep, LoggerStep

\* A complete file of a whole raw.csv is not written again by a resumed session.
LEMMA TwoKeepsSettled ==
  ASSUME TwoInv, program = "two", TwoStart \/ TwoStep \/ Kill,
         NEW f \in DOMAIN raw, pc # "off", Settled(f)
  PROVE  f \in DOMAIN raw' /\ raw'[f] = raw[f]
<1>1. PICK l \in ToSet(args.locks), t \in ToSet(args.threads) :
        args.resume /\ f = PointFile(l, t) /\ <<l, t>> \in completed_points(report.rows)
  BY DEF Settled
<1>2. CASE UNCHANGED raw
  BY <1>2
<1>3. CASE pc = "running" /\ Wrote(FALSE)
  <2>1. /\ pos <= Len(work) /\ pos \in DOMAIN work /\ stage \in {"builds", "sweeps"} /\ args \in TwoSessions /\ pos >= pos
    BY <1>3, LenProperties DEF TwoInv, TwoControl, TwoBusy, IsSeq
  <2>2. CASE stage = "builds"
    <3>1. Item.outs = <<>>
      BY <1>3, <2>1, <2>2 DEF TwoInv, TwoControl, Item
    <3>2. DOMAIN Item.outs = {}
      BY <3>1
    <3>3. QED
      BY <1>3, <3>2 DEF Wrote
  <2>3. CASE stage = "sweeps"
    <3>1. PICK k \in ToSet(args.locks), u \in ToSet(args.threads) :
            Item.name = <<k, u>> /\ DOMAIN Item.outs = {1} /\ Item.outs[1].file = PointFile(k, u)
      <4> DEFINE c == Item
      <4>1. c \in TwoCommands(args)
        BY <1>3, <2>1, <2>3 DEF TwoInv, TwoControl, Item
      <4> HIDE DEF c
      <4>2. \E k \in ToSet(args.locks), u \in ToSet(args.threads) :
                c.name = <<k, u>> /\ DOMAIN c.outs = {1} /\ c.outs[1].file = PointFile(k, u)
        BY <2>1, <4>1, TwoCommandFacts
      <4>3. QED
        BY <4>2 DEF c
    <3>2. Left(pos)
      BY <1>3, <2>1 DEF Left, TwoCollecting
    <3>3. Item.name \notin completed_points(rows)
      BY <1>3, <2>1, <2>3, <3>2 DEF TwoInv, TwoLeft, Item
    <3>4. Prefix(report.rows, rows)
      BY <1>1, <1>3, <2>3 DEF TwoInv, TwoLeft
    <3>5. <<l, t>> \in completed_points(rows)
      BY <1>1, <3>4, PrefixComplete DEF TwoInv, TwoRows, FineRows, Backed
    <3>6. f # PointFile(k, u)
      BY <1>1, <3>1, <3>3, <3>5 DEF PointFile
    <3>7. QED
      BY <1>3, <3>1, <3>6 DEF Wrote
  <2>4. QED
    BY <2>1, <2>2, <2>3
<1>4. pc # "running" => UNCHANGED raw
  BY DEF TwoStart, TwoStep, Kill, Builds, Raise, Continue, Load, DryRun, append_sweep_rows, write_raw_csv, OpenReport,
         CloseReport, SweepsOver, StartCommand, append_command_failure, Finish, LoggerStep, EndCommand, write_manifest, files
<1>5. pc = "running" => UNCHANGED raw \/ Wrote(FALSE)
  <2> SUFFICES ASSUME pc = "running", ~UNCHANGED raw
               PROVE  Wrote(FALSE)
    OBVIOUS
  <2>1. IsSeq(Item.outs)
    <3>1. pos \in DOMAIN work /\ stage \in {"builds", "sweeps"} /\ args \in TwoSessions
      BY LenProperties DEF TwoInv, TwoControl, TwoBusy, IsSeq
    <3>2. CASE stage = "builds"
      <4>1. Item.outs = <<>>
        BY <3>1, <3>2 DEF TwoInv, TwoControl, Item
      <4>2. QED
        BY <4>1, EmptySeq DEF IsSeq
    <3>3. CASE stage = "sweeps"
      BY <3>1, <3>3, TwoCommandFacts DEF TwoInv, TwoControl, Item
    <3>4. QED
      BY <3>1, <3>2, <3>3
  <2>2. Kill \/ \E ok \in BOOLEAN : EndCommand(ok)
    BY DEF TwoStart, NewSession, TwoStep, Builds, Raise, Continue, Load, DryRun, append_sweep_rows, write_raw_csv, OpenReport,
           CloseReport, SweepsOver, StartCommand, append_command_failure, Finish, LoggerStep, write_manifest, files
  <2>3. Kill => WrittenInPart
    BY DEF Kill
  <2>4. EndCommand(FALSE) => WrittenInPart
    BY DEF EndCommand
  <2>5. Wrote(TRUE) => Wrote(FALSE)
    BY DEF Wrote
  <2>6. EndCommand(TRUE) => Wrote(FALSE)
    BY <2>1, <2>5, CommandWrites
  <2>7. QED
    BY <2>1, <2>2, <2>3, <2>4, <2>6, CommandWrites
<1>6. QED
  BY <1>2, <1>3, <1>4, <1>5

\* What the invariant of experiment two says of its runs.
LEMMA TwoShows ==
  ASSUME TwoInv, program = "two"
  PROVE  ExitTellsOutcome /\ FailuresKeepTheirLogs /\ RowsOfFinishedSweeps /\ PinnedNumaFirst
<1>1. ExitTellsOutcome
  <2> SUFFICES ASSUME status = "ok", ~args.dry
               PROVE  /\ report.state = "whole" /\ failed = {}
                      /\ \A l \in ToSet(args.locks), t \in ToSet(args.threads) :
                            /\ <<l, t>> \in completed_points(report.rows)
                            /\ kills <= 1 => \A r \in 1..Repeats : \E i \in DOMAIN report.rows :
                                report.rows[i].name = <<l, t>> /\ report.rows[i].point = <<t, r>>
    BY DEF ExitTellsOutcome
  <2>1. report.state = "whole" /\ failed = {}
    BY DEF TwoInv, TwoOutcome
  <2>2. ASSUME NEW l \in ToSet(args.locks), NEW t \in ToSet(args.threads)
        PROVE  <<l, t>> \in completed_points(report.rows)
    BY DEF TwoInv, TwoOutcome
  <2>3. ASSUME NEW l \in ToSet(args.locks), NEW t \in ToSet(args.threads), kills <= 1, NEW r \in 1..Repeats
        PROVE  \E i \in DOMAIN report.rows : report.rows[i].name = <<l, t>> /\ report.rows[i].point = <<t, r>>
    <3>1. HasRow(report.rows, <<l, t>>, r)
      BY <2>2, <2>3 DEF TwoInv, TwoRows, FineRows, Complete
    <3>2. <<l, t>>[2] = t
      OBVIOUS
    <3>3. QED
      BY <3>1, <3>2 DEF HasRow
  <2>4. QED
    BY <2>1, <2>2, <2>3
<1>2. FailuresKeepTheirLogs
  <2>1. Listed
    <3> SUFFICES ASSUME pc = "finish", ~args.dry, NEW i \in DOMAIN work
                 PROVE  \/ work[i].kind = "build" \/ \E f \in failures : f.name = work[i].name
                        \/ \A j \in DOMAIN work[i].outs : <<work[i].outs[j].file, sessions>> \in finished
      BY DEF Listed
    <3>1. /\ pos = Len(work) + 1 /\ stage = "sweeps" /\ IsSeq(work) /\ args \in TwoSessions
          /\ work[i] \in TwoCommands(args)
      BY DEF TwoInv, TwoControl, TwoReporting
    <3>2. i \in 1..pos - 1
      BY <3>1, LenProperties DEF IsSeq
    <3>3. work[i].kind = "sweep"
      BY <3>1, TwoCommandFacts
    <3>4. Accounted(i)
      BY <3>2, <3>3 DEF TwoInv, TwoSwept
    <3>5. QED
      BY <3>4 DEF Accounted, OutsFinished
  <2>2. QED
    BY <2>1 DEF FailuresKeepTheirLogs, TwoInv, TwoLogs
<1>3. RowsOfFinishedSweeps
  BY DEF RowsOfFinishedSweeps, TwoInv, TwoRows, FineRows, Backed, ToSet
<1>4. PinnedNumaFirst
  <2> SUFFICES ASSUME pc = "running", Item.cpus # <<>>
               PROVE  LET used == ToSet(Item.cpus) IN
                      /\ Cardinality(used) = Item.name[2]
                      /\ \A i, j \in DOMAIN Nodes :
                            (i < j /\ used \cap ToSet(Nodes[j]) # {}) => ToSet(Nodes[i]) \subseteq used
    BY DEF PinnedNumaFirst
  <2>1. /\ pos <= Len(work) /\ IsSeq(work) /\ pos \in 1..Len(work) + 1 /\ args \in TwoSessions /\ stage \in {"builds", "sweeps"}
        /\ stage = "builds" => \A i \in DOMAIN work : work[i].cpus = <<>>
        /\ stage = "sweeps" => \A i \in DOMAIN work : work[i] \in TwoCommands(args)
    BY DEF TwoInv, TwoControl, TwoBusy
  <2>2. pos \in DOMAIN work
    BY <2>1, LenProperties DEF IsSeq
  <2>3. Item \in TwoCommands(args)
    BY <2>1, <2>2 DEF Item
  <2> DEFINE c == Item
  <2> HIDE DEF c
  <2>4. c \in TwoCommands(args)
    BY <2>3 DEF c
  <2>5. PICK t \in ToSet(args.threads) : t \in 1..Len(ordered_cpus) /\ c.name[2] = t /\ c.cpus = cpu_list_for_threads(t)
    <3>1. PICK l \in ToSet(args.locks), t \in ToSet(args.threads) :
             t \in 1..Len(ordered_cpus) /\ c.name = <<l, t>> /\ c.cpus = cpu_list_for_threads(t)
      BY <2>1, <2>4, TwoCommandFacts
    <3>2. c.name[2] = t
      BY <3>1
    <3>3. QED
      BY <3>1, <3>2
  <2>6. QED
    BY <2>5, CpuList DEF c
<1>5. QED
  BY <1>1, <1>2, <1>3, <1>4

----------------------------------------------------------------------------
(* Experiment one.                                                         *)

OneBusy == {"running", "dump_ok", "dump_bad", "ended", "raised"}

OneItem(c) ==
    /\ c.cpus = <<>> /\ IsSeq(c.outs)
    /\ (c.kind = "build" /\ c.outs = <<>>) \/ c.kind = "sweep"
    /\ \A j \in DOMAIN c.outs : \E l \in ToSet(args.locks) : c.outs[j] = Out(l)

OneControl ==
    /\ pc \in {"off", "next", "finish"} \cup OneBusy
    /\ pc # "off" =>
        /\ args \in OneSessions /\ status = "running" /\ stage \in {"builds", "sweeps"}
        /\ IsSeq(work) /\ pos \in 1..Len(work) + 1
        /\ pc \in OneBusy => pos <= Len(work)
        /\ pc = "finish" => pos = Len(work) + 1 /\ stage = "sweeps"
        /\ \A c \in ToSet(work) : OneItem(c)
        /\ stage = "builds" => failures = {} /\ \A c \in ToSet(work) : c.kind = "build"
        /\ stage = "sweeps" =>
            \A l \in ToSet(args.locks) : \E c \in ToSet(work) : \E j \in DOMAIN c.outs : c.outs[j] = Out(l)

\* The log of a failure, which is of its own, whatever session it is from.
BadLog(f) == f.log \in DOMAIN logs /\ logs[f.log] = [by |-> f.by, rc |-> "bad"]

OneLogs ==
    /\ IsFiniteSet(DOMAIN logs)
    /\ pc \in OneBusy => log \in DOMAIN logs
    /\ pc = "running" => logs[log] = [by |-> sessions, rc |-> "none"]
    /\ pc \in {"dump_bad", "raised"} => logs[log] = [by |-> sessions, rc |-> "bad"]
    /\ \A f \in failures \cup failed : BadLog(f)

OneDone ==
    /\ pc \in {"dump_ok", "ended"} => OutsFinished(pos)
    /\ pc # "off" => \A i \in 1..pos - 1 : work[i].kind = "sweep" => Accounted(i)

\* The files of the commands before the n-th are of this session, and whole.
SweptUpTo(n) == \A i \in 1..n : \A j \in DOMAIN work[i].outs : OneSwept(work[i].outs[j].file)

OneFiles ==
    /\ pc \notin {"off", "dump_bad", "raised"} /\ failures = {} =>
        SweptUpTo(IF pc \in {"dump_ok", "ended"} THEN pos ELSE pos - 1)
    /\ pc # "off" /\ args.supplement /\ ~args.force =>
        \A l \in ToSet(args.locks) \cap DOMAIN raw : raw[l].by = sessions

OneReport ==
    /\ settings \in Seq(ONE_LOCK_KEYS)
    /\ pc # "off" /\ ~args.supplement => settings = args.locks
    /\ pc = "finish" => ToSet(CombinedLocks) \cap DOMAIN raw \subseteq NamesOf(report.rows)

OneOutcome ==
    status = "ok" =>
        /\ pc = "off" /\ failed = {}
        /\ \A l \in ToSet(args.locks) : OneSwept(l)
        /\ ToSet(args.locks) \cap ToSet(settings) \subseteq NamesOf(report.rows)

OneInv == OneControl /\ OneLogs /\ OneDone /\ OneFiles /\ OneReport /\ OneOutcome

\* A function on 1..n is a sequence of its values.
LEMMA ArraySeq ==
  ASSUME NEW n \in Nat, NEW f, f = [i \in 1..n |-> f[i]]
  PROVE  /\ IsSeq(f) /\ Len(f) = n /\ DOMAIN f = 1..n
         /\ ToSet(f) = {f[i] : i \in 1..n}
<1>1. DOMAIN f = 1..n /\ f \in [1..n -> {f[i] : i \in 1..n}]
  <2> DEFINE S == {f[i] : i \in 1..n}
  <2>1. \A i \in 1..n : f[i] \in S
    OBVIOUS
  <2> HIDE DEF S
  <2>2. [i \in 1..n |-> f[i]] \in [1..n -> S] /\ DOMAIN [i \in 1..n |-> f[i]] = 1..n
    BY <2>1
  <2>3. f \in [1..n -> S] /\ DOMAIN f = 1..n
    BY <2>2
  <2>4. QED
    BY <2>3 DEF S
<1>2. f \in Seq({f[i] : i \in 1..n})
  BY <1>1, FunctionIsSeq
<1>3. Len(f) = n
  BY <1>1, <1>2, LenProperties
<1>4. ToSet(f) = {f[i] : i \in 1..n}
  BY <1>1 DEF ToSet
<1>5. QED
  BY <1>1, <1>2, <1>3, <1>4 DEF IsSeq

\* The positions and the elements of a sequence.
LEMMA SeqShape ==
  ASSUME NEW s, IsSeq(s)
  PROVE  Len(s) \in Nat /\ DOMAIN s = 1..Len(s) /\ \A i \in 1..Len(s) : s[i] \in ToSet(s)
BY SeqFacts DEF IsSeq

\* The elements of two sequences, one after the other.
LEMMA ConcatElements ==
  ASSUME NEW s, NEW t, IsSeq(s), IsSeq(t)
  PROVE  IsSeq(s \o t) /\ ToSet(s \o t) = ToSet(s) \cup ToSet(t)
<1> DEFINE S == ToSet(s) \cup ToSet(t)
<1>1. s \in Seq(ToSet(s)) /\ t \in Seq(ToSet(t)) /\ ToSet(s) \subseteq S /\ ToSet(t) \subseteq S
  BY DEF IsSeq
<1> HIDE DEF S
<1>2. s \in Seq(S) /\ t \in Seq(S)
  BY <1>1
<1>3. s \o t \in Seq(S) /\ ToSet(s \o t) = ToSet(s) \cup ToSet(t)
  BY <1>2, ConcatFacts
<1>4. QED
  BY <1>3, SeqOfItsElements

\* Each lock is in a group, and a group has nothing else.
LEMMA GroupFacts ==
  ASSUME NEW locks, IsSeq(locks), NEW threadsOf
  PROVE  LET gs == lock_thread_groups(locks, threadsOf) IN
         /\ IsSeq(gs)
         /\ \A g \in DOMAIN gs : IsSeq(gs[g]) /\ ToSet(gs[g]) \subseteq ToSet(locks)
         /\ \A l \in ToSet(locks) : \E g \in DOMAIN gs : l \in ToSet(gs[g])
<1> DEFINE S == ToSet(locks)
           Alike(l) == {k \in S : threadsOf[k] = threadsOf[l]}
           At(l) == {i \in DOMAIN locks : locks[i] \in Alike(l)}
           IsFirst(l) == l = locks[Min(At(l))]
           first == Among(locks, {l \in S : IsFirst(l)})
           gs == [g \in DOMAIN first |-> Among(locks, Alike(first[g]))]
<1>1. lock_thread_groups(locks, threadsOf) = gs
  BY DEF lock_thread_groups
<1>2. locks \in Seq(S) /\ Len(locks) \in Nat /\ DOMAIN locks = 1..Len(locks)
  BY SeqShape DEF IsSeq
<1>3. IsSeq(first) /\ ToSet(first) = {l \in S : IsFirst(l)}
  <2>1. \A T : Among(locks, T) \in Seq(S) /\ ToSet(Among(locks, T)) = S \cap T
    BY <1>2, AmongFacts
  <2>2. QED
    BY <2>1, SeqOfItsElements
<1>4. ASSUME NEW l \in S
      PROVE  \E k \in ToSet(first) : l \in Alike(k)
  <2>1. At(l) \in SUBSET Nat /\ At(l) # {}
    <3>1. \E i \in DOMAIN locks : locks[i] = l
      BY DEF ToSet
    <3>2. QED
      BY <1>2, <3>1
  <2> DEFINE I == At(l)
             m == Min(I)
  <2>2. I \in SUBSET Nat /\ I # {}
    BY <2>1
  <2> HIDE DEF I
  <2>3. m \in I
    <3>1. \E x \in I : \A y \in I : x <= y
      BY <2>2, LeastNatural
    <3>2. QED
      BY <3>1 DEF Min
  <2> HIDE DEF m
  <2>4. m \in DOMAIN locks /\ locks[m] \in Alike(l)
    BY <2>3 DEF I
  <2>5. Alike(locks[m]) = Alike(l)
    BY <2>4
  <2>6. At(locks[m]) = I
    BY <2>5 DEF I
  <2>7. IsFirst(locks[m])
    BY <2>6 DEF m
  <2>8. locks[m] \in ToSet(first) /\ l \in Alike(locks[m])
    BY <1>3, <2>4, <2>5, <2>7
  <2>9. QED
    BY <2>8
<1> DEFINE n == Len(first)
<1>5. n \in Nat /\ DOMAIN first = 1..n
  BY <1>3, SeqShape
<1> HIDE DEF first, n
<1>6. IsSeq(gs) /\ DOMAIN gs = 1..n /\ \A g \in 1..n : gs[g] = Among(locks, Alike(first[g]))
  <2>1. gs = [g \in 1..n |-> Among(locks, Alike(first[g]))]
    BY <1>5
  <2> HIDE DEF gs, Alike
  <2>2. gs = [g \in 1..n |-> gs[g]]
    BY <2>1
  <2>3. QED
    BY <1>5, <2>1, <2>2, ArraySeq
<1>7. \A T : Among(locks, T) \in Seq(S) /\ ToSet(Among(locks, T)) = S \cap T
  BY <1>2, AmongFacts
<1> HIDE DEF gs, Alike
<1>8. \A g \in DOMAIN gs : IsSeq(gs[g]) /\ ToSet(gs[g]) \subseteq ToSet(locks)
  BY <1>6, <1>7, SeqOfItsElements
<1>9. ASSUME NEW l \in ToSet(locks)
      PROVE  \E g \in DOMAIN gs : l \in ToSet(gs[g])
  <2>1. PICK k \in ToSet(first) : l \in Alike(k)
    BY <1>4
  <2>2. PICK g \in DOMAIN first : first[g] = k
    BY <2>1 DEF ToSet
  <2>3. g \in DOMAIN gs /\ gs[g] = Among(locks, Alike(k))
    BY <1>5, <1>6, <2>2
  <2>4. l \in ToSet(gs[g])
    BY <1>7, <2>1, <2>3
  <2>5. QED
    BY <2>3, <2>4
<1>10. QED
  BY <1>1, <1>6, <1>8, <1>9

\* The log of a command is new.
LEMMA FreshLog ==
  ASSUME IsFiniteSet(DOMAIN logs), NEW name
  PROVE  resolve_log_path(name) \notin DOMAIN logs
<1> DEFINE D == DOMAIN logs
           n == Cardinality(D)
           I == {i \in 0..n : <<name, i>> \notin D}
<1>1. n \in Nat
  BY FS_CardinalityType
<1> HIDE DEF D, n
<1>2. I # {}
  <2> SUFFICES ASSUME I = {}
               PROVE  FALSE
    OBVIOUS
  <2> DEFINE f == [i \in 0..n |-> <<name, i>>]
  <2>1. f \in [0..n -> D] /\ \A i, j \in 0..n : f[i] = f[j] => i = j
    OBVIOUS
  <2> HIDE DEF f
  <2>2. f \in Injection(0..n, D)
    BY <2>1 DEF Injection, IsInjective
  <2>3. Cardinality(0..n) = n + 1
    BY <1>1, FS_Interval
  <2>4. n + 1 <= n
    BY <2>2, <2>3, FS_Injection DEF D, n
  <2>5. QED
    BY <1>1, <2>4
<1>3. I \in SUBSET Nat
  BY <1>1
<1> HIDE DEF I
<1>4. Min(I) \in I
  <2>1. \E x \in I : \A y \in I : x <= y
    BY <1>2, <1>3, LeastNatural
  <2>2. QED
    BY <2>1 DEF Min
<1>5. resolve_log_path(name) = <<name, Min(I)>>
  BY DEF resolve_log_path, I, D, n
<1>6. QED
  BY <1>4, <1>5 DEF I, D

\* A session that ends without success leaves logs and failures as they are.
LEMMA OneExit ==
  ASSUME OneInv, pc' = "off", status' # "ok", failures' = {}, UNCHANGED <<logs, failed>>,
         settings' \in Seq(ONE_LOCK_KEYS)
  PROVE  OneInv'
<1>1. OneControl' /\ OneDone' /\ OneFiles' /\ OneReport' /\ OneOutcome'
  BY DEF OneControl, OneBusy, OneDone, OneFiles, OneReport, OneOutcome
<1>2. OneLogs'
  BY DEF OneInv, OneLogs, OneBusy, BadLog
<1>3. QED
  BY <1>1, <1>2 DEF OneInv

\* The builds before the sweeps write no results.
LEMMA OneBuilds ==
  ASSUME NEW a \in OneSessions, NEW builds \in ensure_inputs(a)
  PROVE  /\ IsSeq(builds)
         /\ \A c \in ToSet(builds) : c.kind = "build" /\ c.outs = <<>> /\ c.cpus = <<>>
<1> DEFINE wrappers == Among(a.locks, FLEXGUARD_INTERPOSE_KEYS)
           B(ls) == [i \in DOMAIN ls |-> Command("build", <<ls[i]>>, <<>>, <<>>)]
<1>1. builds = B(<<"mutex_bench">>) \/ builds = B(<<"mutex_bench">> \o wrappers)
  BY DEF ensure_inputs
<1>2. IsSeq(<<"mutex_bench">>)
  BY DEF IsSeq, ToSet
<1>3. IsSeq(wrappers)
  BY OneLinesAssumption, AmongFacts, SeqOfItsElements
<1> HIDE DEF wrappers
<1>4. IsSeq(<<"mutex_bench">> \o wrappers)
  BY <1>2, <1>3, ConcatElements
<1>5. ASSUME NEW ls, IsSeq(ls)
      PROVE  /\ IsSeq(B(ls))
             /\ \A c \in ToSet(B(ls)) : c.kind = "build" /\ c.outs = <<>> /\ c.cpus = <<>>
  <2> DEFINE n == Len(ls)
             f == B(ls)
  <2>1. n \in Nat /\ DOMAIN ls = 1..n
    BY <1>5, SeqShape
  <2>2. f = [i \in 1..n |-> Command("build", <<ls[i]>>, <<>>, <<>>)]
    BY <2>1
  <2> HIDE DEF n, f
  <2>3. f = [i \in 1..n |-> f[i]] /\ \A i \in 1..n : f[i] = Command("build", <<ls[i]>>, <<>>, <<>>)
    BY <2>2
  <2>4. IsSeq(f) /\ ToSet(f) = {f[i] : i \in 1..n}
    BY <2>1, <2>3, ArraySeq
  <2>5. \A c \in ToSet(f) : \E x : c = Command("build", <<x>>, <<>>, <<>>)
    BY <2>3, <2>4
  <2>6. \A x : LET c == Command("build", <<x>>, <<>>, <<>>) IN c.kind = "build" /\ c.outs = <<>> /\ c.cpus = <<>>
    BY DEF Command
  <2>7. QED
    BY <2>4, <2>5, <2>6 DEF f
<1> HIDE DEF B
<1>6. QED
  BY <1>1, <1>2, <1>4, <1>5

\* A session starts, or is refused with the files as they are.
LEMMA OneStarts ==
  ASSUME OneInv, OneStart
  PROVE  OneInv'
<1>1. /\ pc = "off" /\ sessions' = sessions + 1 /\ UNCHANGED <<raw, report, failed, logs, finished>>
  BY DEF OneStart, NewSession
<1>2. PICK a \in OneSessions :
        \/ Exit("refused") /\ (UNCHANGED settings \/ write_settings(a))
        \/ /\ ~Refused(a) /\ write_settings(a)
           /\ \E builds \in ensure_inputs(a) : Begin(a, "builds", builds)
  <2>1. PICK a \in OneSessions :
            IF Refused(a) THEN Exit("refused") /\ args' = a /\ UNCHANGED settings
            ELSE /\ write_settings(a)
                 /\ IF torn THEN Exit("refused") /\ args' = a
                    ELSE \E builds \in ensure_inputs(a) : Begin(a, "builds", builds)
    BY DEF OneStart
  <2>2. QED
    BY <2>1
<1>3. settings \in Seq(ONE_LOCK_KEYS) /\ a.locks \in Seq(ONE_LOCK_KEYS) /\ a.profile \in Seq(ONE_LOCK_KEYS)
      /\ a.supplement \in BOOLEAN /\ a.force \in BOOLEAN
  BY OneLinesAssumption DEF OneInv, OneReport
<1>4. UNCHANGED settings \/ write_settings(a) => settings' \in Seq(ONE_LOCK_KEYS)
  BY <1>3 DEF write_settings
<1>5. CASE Exit("refused") /\ (UNCHANGED settings \/ write_settings(a))
  BY <1>1, <1>4, <1>5, OneExit DEF Exit
<1>6. ASSUME ~Refused(a), write_settings(a), NEW builds \in ensure_inputs(a), Begin(a, "builds", builds)
      PROVE  OneInv'
  <2>1. /\ pc' = "next" /\ status' = "running" /\ args' = a /\ stage' = "builds" /\ work' = builds
        /\ pos' = 1 /\ failures' = {}
    BY <1>6 DEF Begin
  <2>2. /\ IsSeq(builds) /\ Len(builds) \in Nat
        /\ \A c \in ToSet(builds) : c.kind = "build" /\ c.outs = <<>> /\ c.cpus = <<>>
    BY <1>6, OneBuilds, SeqShape
  <2>3. \A c \in ToSet(builds) : OneItem(c)'
    <3> SUFFICES ASSUME NEW c \in ToSet(builds)
                 PROVE  OneItem(c)'
      OBVIOUS
    <3>1. c.kind = "build" /\ c.outs = <<>> /\ c.cpus = <<>>
      BY <2>2
    <3>2. IsSeq(<<>>) /\ DOMAIN <<>> = {}
      BY EmptySeq DEF IsSeq
    <3>3. IsSeq(c.outs) /\ DOMAIN c.outs = {}
      BY <3>1, <3>2
    <3>4. QED
      BY <3>1, <3>3 DEF OneItem
  <2>4. OneControl'
    BY <2>1, <2>2, <2>3 DEF OneControl, OneBusy
  <2>5. OneLogs'
    BY <1>1, <2>1 DEF OneInv, OneLogs, OneBusy, BadLog
  <2>6. OneDone' /\ OneOutcome'
    BY <2>1 DEF OneDone, OneOutcome
  <2>7. OneFiles'
    <3>1. a.supplement /\ ~a.force => \A l \in ToSet(a.locks) : l \notin DOMAIN raw
      BY <1>3, <1>6 DEF Refused, lock_has_existing_results
    <3>2. SweptUpTo(0)'
      BY DEF SweptUpTo
    <3>3. pos' - 1 = 0
      BY <2>1
    <3>4. QED
      BY <1>1, <2>1, <3>1, <3>2, <3>3 DEF OneFiles
  <2>8. OneReport'
    BY <1>4, <1>6, <2>1 DEF OneReport, write_settings
  <2>9. QED
    BY <2>4, <2>5, <2>6, <2>7, <2>8 DEF OneInv
<1>7. QED
  BY <1>2, <1>5, <1>6

\* The sweeps of a session have its locks, every one of them.
LEMMA OneSweepFacts ==
  ASSUME NEW name, NEW locks, IsSeq(locks), ToSet(locks) \subseteq ToSet(args.locks)
  PROVE  LET c == OneSweep(name, locks) IN
         /\ OneItem(c) /\ \A l \in ToSet(locks) : \E j \in DOMAIN c.outs : c.outs[j] = Out(l)
<1> DEFINE c == OneSweep(name, locks)
           n == Len(locks)
           o == c.outs
<1>1. n \in Nat /\ DOMAIN locks = 1..n /\ \A i \in 1..n : locks[i] \in ToSet(locks)
  BY SeqShape
<1>2. c.kind = "sweep" /\ c.cpus = <<>> /\ o = [i \in DOMAIN locks |-> Out(locks[i])]
  BY DEF OneSweep, Command
<1> HIDE DEF c, n, o
<1>3. o = [i \in 1..n |-> o[i]] /\ \A i \in 1..n : o[i] = Out(locks[i])
  BY <1>1, <1>2
<1>4. IsSeq(o) /\ DOMAIN o = 1..n
  BY <1>1, <1>3, ArraySeq
<1>5. OneItem(c)
  BY <1>1, <1>2, <1>3, <1>4 DEF OneItem, o
<1>6. \A l \in ToSet(locks) : \E j \in DOMAIN o : o[j] = Out(l)
  BY <1>1, <1>3, <1>4 DEF ToSet
<1>7. QED
  BY <1>5, <1>6 DEF c, o

\* Items of a session, among which are those of the locks.
Swept(w, L) ==
    /\ IsSeq(w) /\ \A c \in ToSet(w) : OneItem(c)
    /\ \A l \in L : \E c \in ToSet(w) : \E j \in DOMAIN c.outs : c.outs[j] = Out(l)

\* The locks of two lists of commands are swept by both together.
LEMMA SweptConcat ==
  ASSUME NEW v, NEW w, NEW L, NEW M, Swept(v, L), Swept(w, M)
  PROVE  Swept(v \o w, L \cup M)
BY ConcatElements DEF Swept

\* The base locks are swept in groups, none left out.
LEMMA OneGroups ==
  ASSUME NEW locks, IsSeq(locks), ToSet(locks) \subseteq ToSet(args.locks)
  PROVE  Swept(run_multi_lock_sweeps(locks), ToSet(locks))
<1> DEFINE gs == lock_thread_groups(locks, [l \in ToSet(locks) |-> runnable_threads_for_lock(l, args.threads)])
           n == Len(gs)
           w == run_multi_lock_sweeps(locks)
<1>1. /\ IsSeq(gs) /\ \A g \in DOMAIN gs : IsSeq(gs[g]) /\ ToSet(gs[g]) \subseteq ToSet(locks)
      /\ \A l \in ToSet(locks) : \E g \in DOMAIN gs : l \in ToSet(gs[g])
  BY GroupFacts
<1>2. w = [g \in DOMAIN gs |-> OneSweep(<<"base", Len(gs) > 1>>, gs[g])]
  BY DEF run_multi_lock_sweeps
<1> HIDE DEF gs, w
<1>3. n \in Nat /\ DOMAIN gs = 1..n
  BY <1>1, SeqShape
<1>4. w = [g \in 1..n |-> w[g]] /\ \A g \in 1..n : w[g] = OneSweep(<<"base", n > 1>>, gs[g])
  BY <1>2, <1>3
<1> HIDE DEF n
<1>5. IsSeq(w) /\ ToSet(w) = {w[g] : g \in 1..n}
  BY <1>3, <1>4, ArraySeq
<1>6. \A g \in 1..n : OneItem(w[g]) /\ \A l \in ToSet(gs[g]) : \E j \in DOMAIN w[g].outs : w[g].outs[j] = Out(l)
  <2> SUFFICES ASSUME NEW g \in 1..n
               PROVE  OneItem(w[g]) /\ \A l \in ToSet(gs[g]) : \E j \in DOMAIN w[g].outs : w[g].outs[j] = Out(l)
    OBVIOUS
  <2>1. IsSeq(gs[g]) /\ ToSet(gs[g]) \subseteq ToSet(args.locks) /\ w[g] = OneSweep(<<"base", n > 1>>, gs[g])
    BY <1>1, <1>3, <1>4
  <2>2. QED
    BY <2>1, OneSweepFacts
<1>7. QED
  BY <1>1, <1>3, <1>5, <1>6 DEF Swept, w

\* The Accordin variants and the extension are swept, none left out.
LEMMA OneAccordin ==
  ASSUME NEW locks, IsSeq(locks), ToSet(locks) \subseteq ToSet(args.locks), NEW build \in BOOLEAN
  PROVE  Swept(run_accordin_sweeps(locks, build), ToSet(locks))
<1> DEFINE b == IF build THEN <<Command("build", <<"direct">>, <<>>, <<>>)>> ELSE <<>>
           n == Len(locks)
           w == [i \in DOMAIN locks |-> OneSweep(<<locks[i]>>, <<locks[i]>>)]
<1>1. run_accordin_sweeps(locks, build) = b \o w
  BY DEF run_accordin_sweeps
<1>2. Swept(b, {})
  <2> DEFINE c == Command("build", <<"direct">>, <<>>, <<>>)
  <2>1. c.kind = "build" /\ c.outs = <<>> /\ c.cpus = <<>>
    BY DEF Command
  <2> HIDE DEF c
  <2>2. OneItem(c)
    BY <2>1, EmptySeq DEF OneItem, IsSeq
  <2>3. IsSeq(<<>>) /\ ToSet(<<>>) = {} /\ IsSeq(<<c>>) /\ ToSet(<<c>>) = {c}
    BY EmptySeq DEF IsSeq, ToSet
  <2>4. QED
    BY <2>2, <2>3 DEF Swept, b, c
<1>3. n \in Nat /\ DOMAIN locks = 1..n /\ \A i \in 1..n : locks[i] \in ToSet(locks)
  BY SeqShape
<1>4. w = [i \in 1..n |-> w[i]] /\ \A i \in 1..n : w[i] = OneSweep(<<locks[i]>>, <<locks[i]>>)
  BY <1>3
<1> HIDE DEF b, n, w
<1>5. IsSeq(w) /\ ToSet(w) = {w[i] : i \in 1..n}
  BY <1>3, <1>4, ArraySeq
<1>6. ASSUME NEW i \in 1..n
      PROVE  OneItem(w[i]) /\ \E j \in DOMAIN w[i].outs : w[i].outs[j] = Out(locks[i])
  <2> DEFINE l == locks[i]
  <2>1. l \in ToSet(args.locks)
    BY <1>3
  <2> HIDE DEF l
  <2>2. IsSeq(<<l>>) /\ ToSet(<<l>>) = {l}
    BY DEF IsSeq, ToSet
  <2>3. LET c == OneSweep(<<l>>, <<l>>) IN
        OneItem(c) /\ \A k \in ToSet(<<l>>) : \E j \in DOMAIN c.outs : c.outs[j] = Out(k)
    BY <2>1, <2>2, OneSweepFacts
  <2>4. QED
    BY <1>4, <2>2, <2>3 DEF l
<1>7. Swept(w, ToSet(locks))
  <2>1. \A l \in ToSet(locks) : \E i \in 1..n : l = locks[i]
    BY <1>3 DEF ToSet
  <2>2. QED
    BY <1>5, <1>6, <2>1 DEF Swept
<1>8. Swept(b \o w, {} \cup ToSet(locks))
  BY <1>2, <1>7, SweptConcat
<1>9. QED
  BY <1>1, <1>8

\* Names that only depend on the arguments.
LEMMA OneSame ==
  ASSUME UNCHANGED args
  PROVE  /\ \A c : OneItem(c)' <=> OneItem(c)
         /\ \A l : Out(l)' = Out(l)
<1>1. \A l : Out(l)' = Out(l)
  BY DEF Out
<1>2. \A c : OneItem(c)' <=> OneItem(c)
  BY <1>1 DEF OneItem
<1>3. QED
  BY <1>1, <1>2

\* The list of sweeps.
LEMMA OneRuns ==
  ASSUME OneInv, run_benchmarks
  PROVE  OneInv'
<1> DEFINE In(S) == Among(args.locks, S)
           base == In(BASE_LOCK_KEYS)
           accordin == In(ACCORDIN_VARIANT_LOCKS)
           ext == In({"mcs_extension"})
<1>1. /\ stage = "builds" /\ Over /\ UNCHANGED <<rows, files, bounds>>
      /\ \E build \in BOOLEAN :
            Proceed("sweeps", run_multi_lock_sweeps(base) \o run_accordin_sweeps(accordin, build)
                                \o run_accordin_sweeps(ext, FALSE))
  BY DEF run_benchmarks
<1>2. PICK build \in BOOLEAN :
            Proceed("sweeps", run_multi_lock_sweeps(base) \o run_accordin_sweeps(accordin, build)
                                \o run_accordin_sweeps(ext, FALSE))
  BY <1>1
<1>3. /\ pc = "next" /\ pc' = "next" /\ stage' = "sweeps" /\ pos' = 1
      /\ work' = run_multi_lock_sweeps(base) \o run_accordin_sweeps(accordin, build)
                                \o run_accordin_sweeps(ext, FALSE)
      /\ UNCHANGED <<args, failures, status, raw, report, failed, settings, logs, sessions>>
  BY <1>1, <1>2 DEF Proceed, Over, files, bounds
<1>4. args \in OneSessions /\ status = "running" /\ failures = {}
  BY <1>1, <1>3 DEF OneInv, OneControl
<1>5. \A S : IsSeq(In(S)) /\ ToSet(In(S)) = ToSet(args.locks) \cap S
  <2>1. args.locks \in Seq(ONE_LOCK_KEYS)
    BY <1>4, OneLinesAssumption
  <2>2. \A S : In(S) \in Seq(ONE_LOCK_KEYS) /\ ToSet(In(S)) = ToSet(args.locks) \cap S
    BY <2>1, AmongFacts
  <2>3. QED
    BY <2>2, SeqOfItsElements
<1> HIDE DEF In
<1>6. Swept(work', ToSet(base) \cup ToSet(accordin) \cup ToSet(ext))
  <2>1. Swept(run_multi_lock_sweeps(base), ToSet(base))
    BY <1>5, OneGroups
  <2>2. Swept(run_accordin_sweeps(accordin, build), ToSet(accordin))
    BY <1>5, OneAccordin
  <2>3. Swept(run_accordin_sweeps(ext, FALSE), ToSet(ext))
    BY <1>5, OneAccordin
  <2>4. QED
    BY <1>3, <2>1, <2>2, <2>3, SweptConcat
<1>7. ToSet(args.locks) \subseteq ToSet(base) \cup ToSet(accordin) \cup ToSet(ext)
  <2>1. ToSet(args.locks) \subseteq ONE_LOCK_KEYS
    BY <1>4, OneLinesAssumption, SeqFacts
  <2>2. QED
    BY <1>5, <2>1 DEF ONE_LOCK_KEYS
<1>8. OneControl'
  <2>1. IsSeq(work') /\ Len(work') \in Nat
    BY <1>6, SeqShape DEF Swept
  <2>2. \A c \in ToSet(work') : OneItem(c)'
    BY <1>3, <1>6, OneSame DEF Swept
  <2>3. pos' \in 1..Len(work') + 1 /\ pc' = "next" /\ stage' = "sweeps" /\ args' = args
    <3>1. pos' = 1 /\ pc' = "next" /\ stage' = "sweeps" /\ args' = args
      BY <1>3
    <3>2. 1 \in 1..Len(work') + 1
      BY <2>1
    <3>3. QED
      BY <3>1, <3>2
  <2>4. \A l \in ToSet(args'.locks) : \E c \in ToSet(work') : \E j \in DOMAIN c.outs : c.outs[j] = Out(l)'
    BY <1>3, <1>6, <1>7, OneSame DEF Swept
  <2>5. status' = "running" /\ args' \in OneSessions
    BY <1>3, <1>4
  <2>6. QED
    BY <2>1, <2>2, <2>3, <2>4, <2>5 DEF OneControl, OneBusy
<1>9. OneLogs' /\ OneDone' /\ OneOutcome'
  BY <1>3, <1>4 DEF OneInv, OneLogs, OneBusy, BadLog, OneDone, OneOutcome
<1>10. OneFiles'
  <2>1. SweptUpTo(0)' /\ pos' - 1 = 0
    BY <1>3 DEF SweptUpTo
  <2>2. QED
    BY <1>3, <2>1 DEF OneInv, OneFiles
<1>11. OneReport'
  BY <1>3 DEF OneInv, OneReport
<1>12. QED
  BY <1>8, <1>9, <1>10, <1>11 DEF OneInv

\* A command starts, with a log of its own.
LEMMA OneCommandStarts ==
  ASSUME OneInv, pc = "next", pos <= Len(work), StartCommand(resolve_log_path(Item.name))
  PROVE  OneInv'
<1> USE DEF OneBusy
<1> DEFINE path == resolve_log_path(Item.name)
<1>1. /\ pc' = "running" /\ log' = path
      /\ logs' = With(logs, path, [by |-> sessions, rc |-> "none"])
      /\ UNCHANGED <<args, stage, work, pos, failures, status, raw, report, failed, settings, sessions, finished>>
  BY DEF StartCommand, bounds
<1>2. path \notin DOMAIN logs /\ IsFiniteSet(DOMAIN logs) /\ status = "running"
  BY FreshLog DEF OneInv, OneLogs, OneControl
<1> HIDE DEF path
<1>3. /\ DOMAIN logs' = DOMAIN logs \cup {path} /\ logs'[path] = [by |-> sessions, rc |-> "none"]
      /\ \A x \in DOMAIN logs : logs'[x] = logs[x]
  BY <1>1, <1>2 DEF With
<1>4. OneControl'
  BY <1>1, OneSame DEF OneInv, OneControl
<1>5. OneLogs'
  <2>1. IsFiniteSet(DOMAIN logs')
    BY <1>2, <1>3, FS_AddElement
  <2>2. \A f \in failures \cup failed : BadLog(f)'
    BY <1>3 DEF OneInv, OneLogs, BadLog
  <2>3. QED
    BY <1>1, <1>3, <2>1, <2>2 DEF OneLogs
<1>6. OneDone' /\ OneOutcome'
  BY <1>1, <1>2 DEF OneInv, OneDone, OneOutcome, Accounted, OutsFinished
<1>7. OneFiles' /\ OneReport'
  BY <1>1 DEF OneInv, OneFiles, SweptUpTo, OneSwept, OneReport
<1>8. QED
  BY <1>4, <1>5, <1>6, <1>7 DEF OneInv

\* A command ends: with its files whole, or in the middle of them.
LEMMA OneCommandEnds ==
  ASSUME OneInv, NEW ok \in BOOLEAN, EndCommand(ok)
  PROVE  OneInv'
<1> USE DEF OneBusy
<1>1. /\ pc = "running" /\ pc' = IF ok THEN "dump_ok" ELSE "dump_bad"
      /\ logs' = [logs EXCEPT ![log].rc = IF ok THEN "ok" ELSE "bad"]
      /\ IF ok THEN finished' = finished \cup {<<Item.outs[i].file, sessions>> : i \in DOMAIN Item.outs}
         ELSE WrittenInPart /\ UNCHANGED finished
      /\ UNCHANGED <<args, stage, work, pos, log, failures, status, report, failed, settings, sessions>>
  BY DEF EndCommand
<1>2. /\ status = "running" /\ log \in DOMAIN logs /\ logs[log] = [by |-> sessions, rc |-> "none"]
      /\ pos \in DOMAIN work /\ Item \in ToSet(work) /\ pos \in 1..Len(work)
      /\ IsSeq(work) /\ Len(work) \in Nat /\ DOMAIN work = 1..Len(work)
  <2>1. /\ status = "running" /\ log \in DOMAIN logs /\ logs[log] = [by |-> sessions, rc |-> "none"]
        /\ IsSeq(work) /\ pos \in 1..Len(work) + 1 /\ pos <= Len(work)
    BY <1>1 DEF OneInv, OneControl, OneLogs
  <2>2. Len(work) \in Nat /\ DOMAIN work = 1..Len(work) /\ \A i \in 1..Len(work) : work[i] \in ToSet(work)
    BY <2>1, SeqShape
  <2>3. QED
    BY <2>1, <2>2 DEF Item
<1>3. OneItem(Item)
  BY <1>1, <1>2 DEF OneInv, OneControl
<1>4. Wrote(FALSE) /\ (ok => Wrote(TRUE))
  <2>1. IsSeq(Item.outs)
    BY <1>3 DEF OneItem
  <2>2. ok => EndCommand(TRUE)
    OBVIOUS
  <2>3. ok => Wrote(TRUE)
    BY <2>1, <2>2, CommandWrites
  <2>4. ~ok => Wrote(FALSE)
    BY <1>1, <2>1, CommandWrites
  <2>5. Wrote(TRUE) => Wrote(FALSE)
    BY DEF Wrote
  <2>6. QED
    BY <2>3, <2>4, <2>5
<1>5. OneControl'
  BY <1>1, OneSame DEF OneInv, OneControl
<1>6. OneLogs'
  <2>1. DOMAIN logs' = DOMAIN logs /\ (~ok => logs'[log] = [by |-> sessions, rc |-> "bad"])
        /\ \A x \in DOMAIN logs : x # log => logs'[x] = logs[x]
    BY <1>1, <1>2
  <2>2. \A f \in failures \cup failed : f.log # log
    <3>1. logs[log].rc = "none"
      BY <1>2
    <3>2. ASSUME NEW f \in failures \cup failed
          PROVE  logs[f.log].rc = "bad"
      <4>1. logs[f.log] = [by |-> f.by, rc |-> "bad"]
        BY DEF OneInv, OneLogs, BadLog
      <4>2. QED
        BY <4>1
    <3>3. QED
      BY <3>1, <3>2
  <2>3. \A f \in failures \cup failed : BadLog(f)'
    BY <2>1, <2>2 DEF OneInv, OneLogs, BadLog
  <2>4. IsFiniteSet(DOMAIN logs)
    BY DEF OneInv, OneLogs
  <2>5. QED
    BY <1>1, <1>2, <2>1, <2>3, <2>4 DEF OneLogs
<1>7. OneDone'
  <2>1. ASSUME NEW i \in 1..pos - 1, work[i].kind = "sweep"
        PROVE  Accounted(i)'
    BY <1>1, <2>1 DEF OneInv, OneDone, Accounted, OutsFinished
  <2>2. ok => OutsFinished(pos)'
    BY <1>1 DEF OutsFinished, Item
  <2>3. QED
    BY <1>1, <2>1, <2>2 DEF OneDone
<1>8. OneFiles'
  <2>1. ASSUME ok, failures = {}
        PROVE  SweptUpTo(pos)'
    <3>1. SweptUpTo(pos - 1)
      BY <1>1, <2>1 DEF OneInv, OneFiles
    <3>2. ASSUME NEW f, (f \in DOMAIN raw /\ raw[f] = raw'[f] /\ OneSwept(f))
                   \/ \E j \in DOMAIN Item.outs : Item.outs[j].file = f
          PROVE  OneSwept(f)'
      BY <1>1, <1>4, <2>1, <3>2 DEF OneSwept, Wrote
    <3>3. ASSUME NEW f, OneSwept(f)
          PROVE  OneSwept(f)'
      BY <1>1, <1>4, <2>1, <3>3 DEF OneSwept, Wrote
    <3>4. ASSUME NEW i \in 1..pos, NEW j \in DOMAIN work[i].outs, NEW f, f = work[i].outs[j].file
          PROVE  OneSwept(f)'
      <4>1. CASE i \in 1..pos - 1
        BY <3>1, <3>3, <3>4, <4>1 DEF SweptUpTo
      <4>2. CASE i = pos
        BY <3>2, <3>4, <4>2 DEF Item
      <4>3. QED
        BY <1>2, <4>1, <4>2
    <3>5. QED
      BY <1>1, <3>4 DEF SweptUpTo
  <2>2. ASSUME args.supplement, ~args.force, NEW l \in ToSet(args.locks) \cap DOMAIN raw'
        PROVE  raw'[l].by = sessions
    BY <1>1, <1>4, <2>2 DEF OneInv, OneFiles, Wrote
  <2>3. QED
    BY <1>1, <2>1, <2>2 DEF OneFiles
<1>9. OneReport' /\ OneOutcome'
  BY <1>1, <1>2 DEF OneInv, OneReport, OneOutcome
<1>10. QED
  BY <1>5, <1>6, <1>7, <1>8, <1>9 DEF OneInv

\* The steps between commands.
LEMMA OneMoves ==
  ASSUME OneInv, write_manifest \/ Continue
  PROVE  OneInv'
<1> USE DEF OneBusy
<1>1. CASE write_manifest
  <2>1. pc \in {"dump_ok", "dump_bad"}
    BY <1>1 DEF write_manifest, OneInv, OneControl
  <2>2. /\ pc' = (IF pc = "dump_ok" THEN "ended" ELSE "raised") /\ pos' = pos
        /\ UNCHANGED <<args, stage, work, log, failures, status, raw, report, failed, settings, logs, sessions, finished>>
    BY <1>1, <2>1 DEF write_manifest, bounds
  <2>3. OneControl'
    BY <2>1, <2>2, OneSame DEF OneInv, OneControl
  <2>4. OneLogs' /\ OneDone' /\ OneReport'
    BY <2>1, <2>2 DEF OneInv, OneLogs, BadLog, OneDone, Accounted, OutsFinished, OneReport
  <2>5. OneFiles'
    BY <2>1, <2>2 DEF OneInv, OneFiles, SweptUpTo, OneSwept
  <2>6. OneOutcome'
    BY <2>1, <2>2 DEF OneInv, OneControl, OneOutcome
  <2>7. QED
    BY <2>3, <2>4, <2>5, <2>6 DEF OneInv
<1>2. CASE Continue
  <2>1. /\ pc = "ended" /\ pc' = "next" /\ pos' = pos + 1
        /\ UNCHANGED <<args, stage, work, log, failures, status, raw, report, failed, settings, logs, sessions, finished>>
    BY <1>2 DEF Continue, files, bounds
  <2>2. /\ status = "running" /\ IsSeq(work) /\ pos \in 1..Len(work) + 1 /\ pos <= Len(work) /\ Len(work) \in Nat
        /\ pos' \in 1..Len(work) + 1 /\ pos' - 1 = pos
    BY <2>1, SeqShape DEF OneInv, OneControl
  <2>3. OneControl'
    BY <2>1, <2>2, OneSame DEF OneInv, OneControl
  <2>4. OneLogs' /\ OneReport' /\ OneOutcome'
    BY <2>1, <2>2 DEF OneInv, OneLogs, BadLog, OneReport, OneOutcome
  <2>5. OneDone'
    <3>1. \A i \in 1..pos' - 1 : i \in 1..pos - 1 \/ i = pos
      BY <2>1, <2>2
    <3>2. OutsFinished(pos) /\ \A i \in 1..pos - 1 : work[i].kind = "sweep" => Accounted(i)
      BY <2>1 DEF OneInv, OneDone
    <3>3. \A i \in 1..pos' - 1 : work[i].kind = "sweep" => Accounted(i)
      BY <3>1, <3>2 DEF Accounted
    <3>4. QED
      BY <2>1, <3>3 DEF OneDone, Accounted, OutsFinished
  <2>6. OneFiles'
    <3>1. failures = {} => SweptUpTo(pos)
      BY <2>1 DEF OneInv, OneFiles
    <3>2. \A n : SweptUpTo(n) => SweptUpTo(n)'
      BY <2>1 DEF SweptUpTo, OneSwept
    <3>3. QED
      BY <2>1, <2>2, <3>1, <3>2 DEF OneInv, OneFiles
  <2>7. QED
    BY <2>3, <2>4, <2>5, <2>6 DEF OneInv
<1>3. QED
  BY <1>1, <1>2

\* A failed build ends the session; a failed sweep is listed, and the next one starts.
LEMMA OneFails ==
  ASSUME OneInv, HandleFailure
  PROVE  OneInv'
<1> USE DEF OneBusy
<1>1. pc = "raised"
  BY DEF HandleFailure
<1>2. CASE Raise
  BY <1>2, OneExit DEF Raise, Exit, files, OneInv, OneReport
<1>3. CASE append_command_failure
  <2> DEFINE f == [name |-> Item.name, log |-> log, by |-> sessions]
  <2>1. /\ Item.kind = "sweep" /\ failures' = failures \cup {f} /\ failed' = failures'
        /\ pc' = "next" /\ pos' = pos + 1
        /\ UNCHANGED <<args, stage, work, log, status, raw, report, settings, logs, sessions, finished>>
    BY <1>3 DEF append_command_failure, bounds
  <2>2. f.name = Item.name /\ f.log = log /\ f.by = sessions /\ f \in failures' /\ failures' # {}
    BY <2>1
  <2> HIDE DEF f
  <2>3. /\ status = "running" /\ IsSeq(work) /\ pos \in 1..Len(work) + 1 /\ pos <= Len(work) /\ Len(work) \in Nat
        /\ pos' \in 1..Len(work) + 1 /\ stage \in {"builds", "sweeps"}
    BY <1>1, <2>1, SeqShape DEF OneInv, OneControl
  <2>4. stage = "sweeps"
    <3>1. Item \in ToSet(work)
      BY <2>3, SeqShape DEF Item
    <3>2. QED
      BY <1>1, <2>1, <2>3, <3>1 DEF OneInv, OneControl
  <2>5. OneControl'
    BY <1>1, <2>1, <2>3, <2>4, OneSame DEF OneInv, OneControl
  <2>6. OneLogs'
    <3>1. \A g \in failures' : BadLog(g)'
      BY <1>1, <2>1, <2>2 DEF OneInv, OneLogs, BadLog
    <3>2. QED
      BY <2>1, <3>1 DEF OneInv, OneLogs
  <2>7. OneDone'
    <3>1. \A i \in 1..pos' - 1 : i \in 1..pos - 1 \/ i = pos
      BY <2>1, <2>3
    <3>2. \A i \in 1..pos - 1 : work[i].kind = "sweep" => Accounted(i)
      BY <1>1 DEF OneInv, OneDone
    <3>3. \A i : Accounted(i) => Accounted(i)'
      BY <2>1 DEF Accounted, OutsFinished
    <3>4. \A i : i = pos => Accounted(i)'
      BY <2>1, <2>2 DEF Accounted, Item
    <3>5. \A i \in 1..pos' - 1 : work'[i].kind = "sweep" => Accounted(i)'
      BY <2>1, <3>1, <3>2, <3>3, <3>4
    <3>6. QED
      BY <2>1, <3>5 DEF OneDone
  <2>8. OneFiles' /\ OneReport' /\ OneOutcome'
    BY <1>1, <2>1, <2>2, <2>3 DEF OneInv, OneFiles, OneReport, OneOutcome
  <2>9. QED
    BY <2>5, <2>6, <2>7, <2>8 DEF OneInv
<1>4. QED
  BY <1>2, <1>3 DEF HandleFailure

\* The combined CSV has the results that are there.
LEMMA OneCombines ==
  ASSUME OneInv, Combine
  PROVE  OneInv'
<1> USE DEF OneBusy
<1>1. stage = "sweeps" /\ pc = "next" /\ pos > Len(work)
      /\ UNCHANGED <<args, raw, failed, settings, logs, sessions, finished>>
  BY DEF Combine, Over, bounds
<1>2. settings \in Seq(ONE_LOCK_KEYS) /\ args \in OneSessions /\ status = "running"
  BY <1>1 DEF OneInv, OneReport, OneControl
<1>3. CASE Exit("error")
  BY <1>1, <1>2, <1>3, OneExit DEF Exit
<1>4. CASE /\ pc' = "finish" /\ report' = [state |-> "whole", rows |-> load_combined_rows]
           /\ UNCHANGED <<stage, work, pos, log, rows, failures, status>>
  <2>1. pos = Len(work) + 1
    <3>1. IsSeq(work) /\ pos \in 1..Len(work) + 1 /\ Len(work) \in Nat
      BY <1>1, SeqShape DEF OneInv, OneControl
    <3>2. QED
      BY <1>1, <3>1
  <2>2. OneControl'
    BY <1>1, <1>4, <2>1, OneSame DEF OneInv, OneControl
  <2>3. OneLogs' /\ OneDone' /\ OneOutcome'
    BY <1>1, <1>2, <1>4 DEF OneInv, OneLogs, BadLog, OneDone, Accounted, OutsFinished, OneOutcome
  <2>4. OneFiles'
    BY <1>1, <1>4 DEF OneInv, OneFiles, SweptUpTo, OneSwept
  <2>5. ToSet(CombinedLocks) \cap DOMAIN raw \subseteq NamesOf(load_combined_rows)
    <3> DEFINE have == Among(CombinedLocks, DOMAIN raw)
               rs == load_combined_rows
    <3>1. CombinedLocks \in Seq(ONE_LOCK_KEYS)
      BY <1>2, OneLinesAssumption DEF CombinedLocks
    <3>2. ToSet(have) = ToSet(CombinedLocks) \cap DOMAIN raw
      BY <3>1, AmongFacts
    <3>3. rs = [i \in DOMAIN have |-> [name |-> have[i], by |-> raw[have[i]].by, n |-> raw[have[i]].n]]
      BY DEF load_combined_rows
    <3> HIDE DEF have, rs
    <3>4. DOMAIN rs = DOMAIN have /\ \A i \in DOMAIN have : rs[i].name = have[i]
      BY <3>3
    <3>5. ToSet(have) \subseteq NamesOf(rs)
      BY <3>4 DEF ToSet, NamesOf
    <3>6. QED
      BY <3>2, <3>5 DEF rs
  <2>6. OneReport'
    <3>1. report'.rows = load_combined_rows /\ CombinedLocks' = CombinedLocks
      BY <1>1, <1>4 DEF CombinedLocks
    <3>2. QED
      BY <1>1, <1>2, <2>5, <3>1 DEF OneInv, OneReport
  <2>7. QED
    BY <2>2, <2>3, <2>4, <2>6 DEF OneInv
<1>5. QED
  BY <1>3, <1>4 DEF Combine

\* The session ends with 0 when no sweep failed: all of its locks have been swept.
LEMMA OneFinishes ==
  ASSUME OneInv, pc = "finish", Finish
  PROVE  OneInv'
<1> USE DEF OneBusy
<1>1. /\ failed' = failures /\ pc' = "off" /\ status' = (IF failures = {} THEN "ok" ELSE "failures") /\ failures' = {}
      /\ UNCHANGED <<args, raw, report, settings, logs, sessions, finished>>
  BY DEF Finish, Exit, bounds
<1>2. /\ pos = Len(work) + 1 /\ stage = "sweeps" /\ IsSeq(work) /\ DOMAIN work = 1..Len(work) /\ Len(work) \in Nat
  BY SeqShape DEF OneInv, OneControl
<1>3. OneControl' /\ OneDone' /\ OneFiles' /\ OneReport'
  BY <1>1 DEF OneInv, OneControl, OneDone, OneFiles, OneReport
<1>4. OneLogs'
  BY <1>1 DEF OneInv, OneLogs, BadLog
<1>5. OneOutcome'
  <2> SUFFICES ASSUME failures = {}
               PROVE  /\ \A l \in ToSet(args.locks) : OneSwept(l)
                      /\ ToSet(args.locks) \cap ToSet(settings) \subseteq NamesOf(report.rows)
    BY <1>1 DEF OneOutcome, OneSwept
  <2>1. SweptUpTo(pos - 1)
    BY DEF OneInv, OneFiles
  <2>2. ASSUME NEW l \in ToSet(args.locks)
        PROVE  OneSwept(l)
    <3>1. PICK c \in ToSet(work) : \E j \in DOMAIN c.outs : c.outs[j] = Out(l)
      BY <1>2 DEF OneInv, OneControl
    <3>2. PICK i \in DOMAIN work : work[i] = c
      BY DEF ToSet
    <3>3. i \in 1..pos - 1
      BY <1>2
    <3>4. PICK j \in DOMAIN work[i].outs : work[i].outs[j] = Out(l)
      BY <3>1, <3>2
    <3>5. work[i].outs[j].file = l
      BY <3>4 DEF Out
    <3>6. OneSwept(work[i].outs[j].file)
      BY <2>1, <3>3 DEF SweptUpTo
    <3>7. QED
      BY <3>5, <3>6
  <2>3. ToSet(settings) \cap DOMAIN raw \subseteq NamesOf(report.rows)
    BY DEF OneInv, OneReport, CombinedLocks
  <2>4. QED
    BY <2>2, <2>3 DEF OneSwept
<1>6. QED
  BY <1>3, <1>4, <1>5 DEF OneInv

\* Every step of experiment one.
LEMMA OneKeeps ==
  ASSUME OneInv, OneStart \/ OneStep \/ Kill
  PROVE  OneInv'
<1>1. CASE Kill
  BY <1>1, OneExit DEF Kill, Exit, OneInv, OneReport
<1>2. QED
  BY <1>1, OneStarts, OneRuns, OneCommandStarts, OneCommandEnds, OneMoves, OneFails, OneCombines, OneFinishes
     DEF OneStep, LoggerStep

\* What a command of experiment one writes.
LEMMA OneWrites ==
  ASSUME OneInv, OneStart \/ OneStep \/ Kill
  PROVE  UNCHANGED raw \/ (OneItem(Item) /\ Wrote(FALSE) /\ args' = args)
<1>1. CASE pc = "running"
  <2>1. OneItem(Item)
    <3>1. pos <= Len(work) /\ IsSeq(work) /\ pos \in 1..Len(work) + 1
      BY <1>1 DEF OneInv, OneControl, OneBusy
    <3>2. Item \in ToSet(work)
      BY <3>1, SeqShape DEF Item
    <3>3. QED
      BY <1>1, <3>2 DEF OneInv, OneControl
  <2>2. IsSeq(Item.outs)
    BY <2>1 DEF OneItem
  <2>3. Kill \/ (\E ok \in BOOLEAN : EndCommand(ok)) \/ UNCHANGED raw
    BY <1>1 DEF OneStart, OneStep, run_benchmarks, Combine, Continue, HandleFailure, Raise, append_command_failure,
             StartCommand, Finish, LoggerStep, write_manifest, files
  <2>4. Kill => Wrote(FALSE) /\ args' = args
    BY <2>2, CommandWrites DEF Kill
  <2>5. EndCommand(FALSE) => Wrote(FALSE) /\ args' = args
    BY <2>2, CommandWrites DEF EndCommand
  <2>6. EndCommand(TRUE) => Wrote(FALSE) /\ args' = args
    BY <2>2, CommandWrites DEF EndCommand, Wrote
  <2>7. QED
    BY <2>1, <2>3, <2>4, <2>5, <2>6
<1>2. CASE pc # "running"
  BY <1>2 DEF OneStart, OneStep, run_benchmarks, Combine, Continue, HandleFailure, Raise, append_command_failure,
             StartCommand, Finish, LoggerStep, write_manifest, files, Kill, EndCommand
<1>3. QED
  BY <1>1, <1>2

\* The results that a supplement finds stay.
LEMMA OneKeepsSettled ==
  ASSUME OneInv, program = "one", OneStart \/ OneStep \/ Kill,
         NEW f \in DOMAIN raw, pc # "off", ~args.force, raw[f].by # sessions, Settled(f)
  PROVE  f \in DOMAIN raw' /\ raw'[f] = raw[f]
<1>1. args.supplement
  BY DEF Settled
<1>2. f \notin ToSet(args.locks)
  BY <1>1 DEF OneInv, OneFiles
<1>3. CASE OneItem(Item) /\ Wrote(FALSE)
  <2>1. \A l : Out(l).file = l
    BY DEF Out
  <2>2. \A i \in DOMAIN Item.outs : Item.outs[i].file # f
    BY <1>2, <1>3, <2>1 DEF OneItem
  <2>3. QED
    BY <1>3, <2>2 DEF Wrote
<1>4. QED
  BY <1>3, OneWrites

\* The properties, of experiment one.
LEMMA OneShows ==
  ASSUME OneInv, program = "one"
  PROVE  ExitTellsOutcome /\ FailuresKeepTheirLogs /\ PinnedNumaFirst
<1>1. ExitTellsOutcome
  BY DEF ExitTellsOutcome, OneInv, OneOutcome
<1>2. Listed
  <2> SUFFICES ASSUME pc = "finish", NEW i \in DOMAIN work
               PROVE  \/ work[i].kind = "build" \/ \E f \in failures : f.name = work[i].name
                      \/ \A j \in DOMAIN work[i].outs : <<work[i].outs[j].file, sessions>> \in finished
    BY DEF Listed
  <2>1. pos = Len(work) + 1 /\ IsSeq(work) /\ \A c \in ToSet(work) : OneItem(c)
    BY DEF OneInv, OneControl
  <2>2. i \in 1..pos - 1 /\ work[i] \in ToSet(work)
    BY <2>1, SeqShape
  <2>3. work[i].kind \in {"build", "sweep"}
    BY <2>1, <2>2 DEF OneItem
  <2>4. work[i].kind = "sweep" => Accounted(i)
    BY <2>2 DEF OneInv, OneDone
  <2>5. QED
    BY <2>3, <2>4 DEF Accounted, OutsFinished
<1>3. FailuresKeepTheirLogs
  BY <1>2 DEF FailuresKeepTheirLogs, OneInv, OneLogs, BadLog
<1>4. PinnedNumaFirst
  <2> SUFFICES ASSUME pc = "running"
               PROVE  Item.cpus = <<>>
    BY DEF PinnedNumaFirst
  <2>1. pos <= Len(work) /\ IsSeq(work) /\ pos \in 1..Len(work) + 1
    BY DEF OneInv, OneControl, OneBusy
  <2>2. Item \in ToSet(work)
    BY <2>1, SeqShape DEF Item
  <2>3. QED
    BY <2>2 DEF OneInv, OneControl, OneItem
<1>5. QED
  BY <1>1, <1>2, <1>3, <1>4

----------------------------------------------------------------------------
(* Experiment three.                                                       *)

ThreeBusy == {"running", "dump_ok", "dump_bad", "ended", "raised"}

Targets == ToSet(args.targets)

PartItem(c, combo) ==
    /\ c.kind = "sweep" /\ c.name = Part(combo)
    /\ c.cpus = cpu_list_for_threads(taskset_target_cpu_count(combo))
    /\ DOMAIN c.outs = {1}
    /\ c.outs[1].file = Part(combo) /\ c.outs[1].points = PartPoints(combo, args.threads)

LockItem(c) ==
    /\ c.cpus = <<>>
    /\ c.kind \in {"build", "sweep", "merge", "plot"}
    /\ c.kind # "sweep" => c.outs = <<>>
    /\ c.kind = "merge" => c.name = LockFile(ACCORDIN_TASKSET_LOCK) /\ ACCORDIN_TASKSET_LOCK \in Targets
    /\ \A j \in DOMAIN c.outs : \E l \in Targets \ {ACCORDIN_TASKSET_LOCK} :
            c.outs[j].file = LockFile(l) /\ c.outs[j].points = PointsOf(args.threads)

ThreeItem(c) == IsSeq(c.outs) /\ (LockItem(c) \/ \E combo \in ToSet(Combos) : PartItem(c, combo))

\* The parts of a merge are swept before it.
PartsFirst(s) ==
    \A i \in DOMAIN s : s[i].kind = "merge" =>
        \A combo \in ToSet(Combos) : \E j \in DOMAIN s : j < i /\ s[j].name = Part(combo) /\ s[j].cpus # <<>>

Covered(w, l) ==
    IF l = ACCORDIN_TASKSET_LOCK THEN \E c \in ToSet(w) : c.kind = "merge"
    ELSE \E c \in ToSet(w) : \E j \in DOMAIN c.outs : c.cpus = <<>> /\ c.outs[j].file = LockFile(l)

ThreeControl ==
    /\ pc \in {"off", "next", "merge"} \cup ThreeBusy
    /\ sessions \in Nat /\ failures = {} /\ failed = {}
    /\ \A f \in DOMAIN raw : raw[f].by \in Nat /\ raw[f].by <= sessions
    /\ pc # "off" =>
        /\ status = "running" /\ stage \in {"builds", "sweeps"}
        /\ args.locks \in Seq(THREE_LOCK_KEYS) /\ args.threads \in Seq(Nat) /\ args.force \in BOOLEAN
        /\ IsSeq(args.targets) /\ Targets \subseteq ToSet(args.locks)
        /\ IsSeq(work) /\ pos \in 1..Len(work) + 1
        /\ pc \in {"merge"} \cup ThreeBusy => pos <= Len(work) /\ (pc = "merge" <=> Item.kind = "merge")
        /\ \A c \in ToSet(work) : ThreeItem(c)
        /\ stage = "builds" => \A c \in ToSet(work) : c.kind = "build"
        /\ stage = "sweeps" => PartsFirst(work) /\ \A l \in Targets : Covered(work, l)

\* The raw.csv of a lock has the points asked for, or an older file is behind it.
LockDone(l) ==
    /\ LockFile(l) \in DOMAIN raw
    /\ \/ raw[LockFile(l)].of = PointsOf(args.threads)
       \/ \E g \in FilesOf(l) \cap DOMAIN raw : raw[g].by # sessions

ItemDone(c) ==
    /\ c.cpus # <<>> => taskset_part_is_complete(c.name)
    /\ c.cpus = <<>> => \A j \in DOMAIN c.outs :
            c.outs[j].file \in DOMAIN raw /\ raw[c.outs[j].file].of = PointsOf(args.threads)
    /\ c.kind = "merge" /\ pc # "merge" => LockDone(ACCORDIN_TASKSET_LOCK)

ThreeFiles ==
    pc # "off" =>
        /\ \A l \in ToSet(args.locks) \ Targets :
            lock_is_complete(l, args.threads) /\ raw[LockFile(l)].by # sessions
        /\ stage = "builds" => \A f \in DOMAIN raw : raw[f].by # sessions
        /\ stage = "sweeps" => \A l \in Targets : LockFile(l) \in DOMAIN raw => raw[LockFile(l)].by = sessions
        /\ pc = "running" /\ Item.cpus # <<>> => Item.name \notin DOMAIN raw
        /\ pc = "merge" => /\ Item.name \in DOMAIN raw
                           /\ raw[Item.name] = [by |-> sessions, of |-> <<>>, n |-> 0, summed |-> FALSE]

ThreeParts ==
    pc \notin {"off", "dump_bad", "raised"} /\ stage = "sweeps" =>
        /\ \A combo \in ToSet(Combos) : Part(combo) \in DOMAIN raw =>
            LET r == raw[Part(combo)] IN
            r.by = sessions => r.of = PartPoints(combo, args.threads) /\ r.n = Len(r.of)
        /\ \A i \in 1..(IF pc \in {"dump_ok", "ended"} THEN pos ELSE pos - 1) : ItemDone(work[i])

ThreeOutcome ==
    status = "ok" => pc = "off" /\
        \A l \in ToSet(args.locks) :
            LET f == LockFile(l) IN
            /\ raw[f].n = Len(PointsOf(args.threads))
            /\ \/ raw[f].of = PointsOf(args.threads)
               \/ \E g \in FilesOf(l) \cap DOMAIN raw : raw[g].by # sessions

ThreeInv == ThreeControl /\ ThreeFiles /\ ThreeParts /\ ThreeOutcome

\* Files of locks and of parts have names of their own.
LEMMA FileNames ==
  /\ \A l, c : LockFile(l) # Part(c)
  /\ \A l, k : LockFile(l) = LockFile(k) => l = k
  /\ \A c, d : Part(c) = Part(d) => c = d
  /\ \A c : Part(c)[2] = c
BY DEF LockFile, Part

\* The commands of a session depend on nothing but its arguments.
LEMMA ThreeSame ==
  ASSUME UNCHANGED args
  PROVE  Targets' = Targets /\ \A c : ThreeItem(c)' <=> ThreeItem(c)
<1>1. Targets' = Targets
  BY DEF Targets
<1>2. \A c : LockItem(c)' <=> LockItem(c)
  BY <1>1 DEF LockItem
<1>3. \A c, combo : PartItem(c, combo)' <=> PartItem(c, combo)
  BY DEF PartItem
<1>4. QED
  BY <1>1, <1>2, <1>3 DEF ThreeItem

\* Lists of commands in which parts come before their merge.
Good(w) == IsSeq(w) /\ PartsFirst(w) /\ \A c \in ToSet(w) : ThreeItem(c)

\* Two such lists in a row are one.
LEMMA GoodConcat ==
  ASSUME NEW v, NEW w, Good(v), Good(w)
  PROVE  Good(v \o w) /\ ToSet(v \o w) = ToSet(v) \cup ToSet(w)
<1> DEFINE c == v \o w
           m == Len(v)
           n == Len(w)
<1>1. IsSeq(v) /\ IsSeq(w) /\ IsSeq(c) /\ ToSet(c) = ToSet(v) \cup ToSet(w)
  BY ConcatElements DEF Good
<1>2. m \in Nat /\ n \in Nat /\ DOMAIN v = 1..m /\ DOMAIN w = 1..n /\ DOMAIN c = 1..Len(c)
  BY <1>1, SeqShape
<1>3. Len(c) = m + n /\ \A i \in 1..m + n : c[i] = IF i <= m THEN v[i] ELSE w[i - m]
  <2> DEFINE S == ToSet(v) \cup ToSet(w)
  <2>1. v \in Seq(ToSet(v)) /\ w \in Seq(ToSet(w)) /\ ToSet(v) \subseteq S /\ ToSet(w) \subseteq S
    BY <1>1 DEF IsSeq
  <2> HIDE DEF S, c
  <2>2. v \in Seq(S) /\ w \in Seq(S)
    BY <2>1
  <2>3. QED
    BY <2>2, ConcatProperties DEF c
<1> HIDE DEF c, m, n
<1>4. \A i \in 1..m : i \in DOMAIN c /\ c[i] = v[i]
  BY <1>2, <1>3
<1>5. ASSUME NEW i \in 1..n
      PROVE  m + i \in DOMAIN c /\ c[m + i] = w[i]
  <2>1. m + i \in 1..m + n /\ ~(m + i <= m) /\ (m + i) - m = i
    BY <1>2
  <2>2. QED
    BY <1>2, <1>3, <2>1
<1>6. \A i \in DOMAIN c : i \in 1..m \/ (i - m \in 1..n /\ i = m + (i - m))
  <2> SUFFICES ASSUME NEW i \in 1..m + n, i \notin 1..m
               PROVE  i - m \in 1..n /\ i = m + (i - m)
    BY <1>2, <1>3
  <2>1. QED
    BY <1>2
<1>7. PartsFirst(c)
  <2> SUFFICES ASSUME NEW i \in DOMAIN c, c[i].kind = "merge", NEW combo \in ToSet(Combos)
               PROVE  \E j \in DOMAIN c : j < i /\ c[j].name = Part(combo) /\ c[j].cpus # <<>>
    BY DEF PartsFirst
  <2>1. CASE i \in 1..m
    <3>1. PICK j \in DOMAIN v : j < i /\ v[j].name = Part(combo) /\ v[j].cpus # <<>>
      <4>1. i \in DOMAIN v /\ v[i].kind = "merge"
        BY <1>2, <1>4, <2>1
      <4>2. QED
        BY <4>1 DEF Good, PartsFirst
    <3>2. QED
      BY <1>2, <1>4, <3>1
  <2>2. CASE i - m \in 1..n /\ i = m + (i - m)
    <3> DEFINE h == i - m
    <3>1. h \in 1..n /\ i = m + h
      BY <2>2
    <3> HIDE DEF h
    <3>2. h \in DOMAIN w /\ w[h].kind = "merge"
      BY <1>2, <1>5, <3>1
    <3>3. PICK j \in DOMAIN w : j < h /\ w[j].name = Part(combo) /\ w[j].cpus # <<>>
      BY <3>2 DEF Good, PartsFirst
    <3>4. m + j \in DOMAIN c /\ c[m + j] = w[j]
      BY <1>2, <1>5, <3>3
    <3>5. m + j < i
      BY <1>2, <3>1, <3>3
    <3>6. QED
      BY <3>3, <3>4, <3>5
  <2>3. QED
    BY <1>6, <2>1, <2>2
<1>8. \A x \in ToSet(c) : ThreeItem(x)
  BY <1>1 DEF Good
<1>9. QED
  BY <1>1, <1>7, <1>8 DEF Good, c

\* The empty list is one.
LEMMA GoodEmpty == Good(<<>>) /\ ToSet(<<>>) = {}
<1>1. IsSeq(<<>>) /\ ToSet(<<>>) = {} /\ DOMAIN <<>> = {}
  BY EmptySeq DEF IsSeq, ToSet
<1>2. QED
  BY <1>1 DEF Good, PartsFirst

\* So is a single command that is not a merge.
LEMMA GoodOne ==
  ASSUME NEW c, ThreeItem(c), c.kind # "merge"
  PROVE  Good(<<c>>) /\ ToSet(<<c>>) = {c}
<1>1. IsSeq(<<c>>) /\ ToSet(<<c>>) = {c} /\ DOMAIN <<c>> = {1} /\ <<c>>[1] = c
  BY DEF IsSeq, ToSet
<1>2. QED
  BY <1>1 DEF Good, PartsFirst

\* Any number of such lists in a row are one.
LEMMA GoodFlatten ==
  ASSUME NEW n \in Nat, NEW m, m = [i \in 1..n |-> m[i]], \A i \in 1..n : Good(m[i])
  PROVE  Good(FlattenSeq(m)) /\ ToSet(FlattenSeq(m)) = UNION {ToSet(m[i]) : i \in 1..n}
<1> DEFINE U == UNION {ToSet(m[i]) : i \in 1..n}
           P == {w \in Seq(U) : Good(w)}
<1>1. \A i \in 1..n : m[i] \in P
  <2> SUFFICES ASSUME NEW i \in 1..n
               PROVE  m[i] \in P
    OBVIOUS
  <2>1. m[i] \in Seq(ToSet(m[i])) /\ Good(m[i]) /\ ToSet(m[i]) \subseteq U
    BY DEF Good, IsSeq
  <2> HIDE DEF U
  <2>2. m[i] \in Seq(U)
    BY <2>1
  <2>3. QED
    BY <2>1, <2>2
<1> HIDE DEF U
<1>2. <<>> \in P
  BY GoodEmpty
<1>3. \A v, w \in P : v \o w \in P
  BY GoodConcat, ConcatFacts
<1> HIDE DEF P
<1>4. m \in Seq(P) /\ DOMAIN m = 1..n
  <2>1. m \in [1..n -> P]
    BY <1>1
  <2>2. QED
    BY <2>1, FunctionIsSeq
<1>5. FlattenSeq(m) \in P
  BY <1>2, <1>3, <1>4, FlattenClosed
<1>6. m \in Seq(Seq(U))
  <2>1. P \subseteq Seq(U)
    BY DEF P
  <2>2. QED
    BY <1>4, <2>1
<1>7. ToSet(FlattenSeq(m)) = UNION {ToSet(m[i]) : i \in DOMAIN m}
  BY <1>6, FlattenFacts
<1>8. QED
  BY <1>4, <1>5, <1>7 DEF P

\* A command without files.
LEMMA GoodPlain ==
  ASSUME NEW kind \in {"build", "plot"}, NEW name
  PROVE  LET c == Command(kind, name, <<>>, <<>>) IN Good(<<c>>) /\ ToSet(<<c>>) = {c}
<1> DEFINE c == Command(kind, name, <<>>, <<>>)
<1>1. c.kind = kind /\ c.outs = <<>> /\ c.cpus = <<>>
  BY DEF Command
<1>2. DOMAIN <<>> = {} /\ IsSeq(<<>>)
  BY EmptySeq DEF IsSeq
<1> HIDE DEF c
<1>3. DOMAIN c.outs = {} /\ IsSeq(c.outs)
  BY <1>1, <1>2
<1>4. ThreeItem(c)
  BY <1>1, <1>3 DEF ThreeItem, LockItem
<1>5. QED
  BY <1>1, <1>4, GoodOne DEF c

\* A sweep of target locks, to each of which it gives the points of every ratio.
LEMMA GoodSweep ==
  ASSUME NEW locks, IsSeq(locks), ToSet(locks) \subseteq Targets \ {ACCORDIN_TASKSET_LOCK}
  PROVE  LET c == ThreeSweep(locks) IN
         /\ ThreeItem(c) /\ c.kind = "sweep" /\ c.cpus = <<>>
         /\ Good(<<c>>) /\ ToSet(<<c>>) = {c}
         /\ \A l \in ToSet(locks) : \E j \in DOMAIN c.outs : c.outs[j].file = LockFile(l)
<1> DEFINE c == ThreeSweep(locks)
           n == Len(locks)
           o == c.outs
           O(l) == [file |-> LockFile(l), points |-> PointsOf(args.threads)]
<1>1. n \in Nat /\ DOMAIN locks = 1..n /\ \A i \in 1..n : locks[i] \in ToSet(locks)
  BY SeqShape
<1>2. c.kind = "sweep" /\ c.cpus = <<>> /\ o = [i \in DOMAIN locks |-> O(locks[i])]
  BY DEF ThreeSweep, Command
<1>3. \A l : O(l).file = LockFile(l) /\ O(l).points = PointsOf(args.threads)
  OBVIOUS
<1> HIDE DEF c, n, o, O
<1>4. o = [i \in 1..n |-> o[i]] /\ \A i \in 1..n : o[i] = O(locks[i])
  BY <1>1, <1>2
<1>5. IsSeq(o) /\ DOMAIN o = 1..n
  BY <1>1, <1>4, ArraySeq
<1>6. \A j \in 1..n : locks[j] \in Targets \ {ACCORDIN_TASKSET_LOCK} /\ o[j].file = LockFile(locks[j]) /\ o[j].points = PointsOf(args.threads)
  BY <1>1, <1>3, <1>4
<1>7. LockItem(c)
  BY <1>2, <1>5, <1>6 DEF LockItem, o
<1>8. ThreeItem(c)
  BY <1>5, <1>7 DEF ThreeItem, o
<1>9. \A l \in ToSet(locks) : \E j \in DOMAIN o : o[j].file = LockFile(l)
  BY <1>1, <1>5, <1>6 DEF ToSet
<1>10. QED
  BY <1>2, <1>8, <1>9, GoodOne DEF c, o

\* The parts of the taskset variant, one bound sweep for each ratio.
LEMMA GoodParts ==
  /\ Good(taskset_sweep_specs)
  /\ \A combo \in ToSet(Combos) : \E j \in DOMAIN taskset_sweep_specs :
        taskset_sweep_specs[j].name = Part(combo) /\ taskset_sweep_specs[j].cpus # <<>>
  /\ ToSet(taskset_sweep_specs) = {taskset_sweep_specs[i] : i \in DOMAIN Combos}
  /\ DOMAIN taskset_sweep_specs = DOMAIN Combos /\ DOMAIN Combos = 1..Len(Combos) /\ Len(Combos) \in Nat
<1> DEFINE w == taskset_sweep_specs
           n == Len(Combos)
           C(combo) == Command("sweep", Part(combo),
                <<[file |-> Part(combo), points |-> PartPoints(combo, args.threads)]>>,
                cpu_list_for_threads(taskset_target_cpu_count(combo)))
<1>1. /\ n \in Nat /\ DOMAIN Combos = 1..n
      /\ \A i \in 1..n : Combos[i] \in ToSet(Combos) /\ Combos[i] \in (Nat \ {0}) \X Nat
  BY ThreeLinesAssumption, SeqFacts
<1>2. w = [i \in DOMAIN Combos |-> C(Combos[i])]
  BY DEF taskset_sweep_specs
<1>3. ASSUME NEW combo
      PROVE  /\ C(combo).kind = "sweep" /\ C(combo).name = Part(combo)
             /\ C(combo).cpus = cpu_list_for_threads(taskset_target_cpu_count(combo))
             /\ PartItem(C(combo), combo) /\ IsSeq(C(combo).outs)
  <2> DEFINE o == [file |-> Part(combo), points |-> PartPoints(combo, args.threads)]
  <2>1. /\ C(combo).kind = "sweep" /\ C(combo).name = Part(combo)
        /\ C(combo).cpus = cpu_list_for_threads(taskset_target_cpu_count(combo)) /\ C(combo).outs = <<o>>
    BY DEF Command
  <2>2. o.file = Part(combo) /\ o.points = PartPoints(combo, args.threads)
    OBVIOUS
  <2> HIDE DEF o, C
  <2>3. IsSeq(<<o>>) /\ DOMAIN <<o>> = {1} /\ <<o>>[1] = o
    BY DEF IsSeq, ToSet
  <2>4. QED
    BY <2>1, <2>2, <2>3 DEF PartItem
<1> HIDE DEF w, n, C
<1>4. w = [i \in 1..n |-> w[i]] /\ \A i \in 1..n : w[i] = C(Combos[i])
  BY <1>1, <1>2
<1>5. IsSeq(w) /\ DOMAIN w = 1..n /\ ToSet(w) = {w[i] : i \in 1..n}
  BY <1>1, <1>4, ArraySeq
<1>6. \A i \in 1..n : w[i].cpus # <<>> /\ w[i].name = Part(Combos[i])
  <2> SUFFICES ASSUME NEW i \in 1..n
               PROVE  w[i].cpus # <<>> /\ w[i].name = Part(Combos[i])
    OBVIOUS
  <2>1. taskset_target_cpu_count(Combos[i]) \in 1..Len(ordered_cpus)
    BY <1>1, CpusOfRatio
  <2>2. cpu_list_for_threads(taskset_target_cpu_count(Combos[i])) # <<>>
    BY <2>1, CpuList
  <2>3. QED
    BY <1>3, <1>4, <2>2
<1>7. \A combo \in ToSet(Combos) : \E j \in DOMAIN w : w[j].name = Part(combo) /\ w[j].cpus # <<>>
  <2>1. \A combo \in ToSet(Combos) : \E i \in 1..n : Combos[i] = combo
    BY <1>1 DEF ToSet
  <2>2. QED
    BY <1>5, <1>6, <2>1
<1>8. \A i \in 1..n : ThreeItem(w[i]) /\ w[i].kind = "sweep"
  BY <1>1, <1>3, <1>4 DEF ThreeItem
<1>9. Good(w)
  BY <1>5, <1>8 DEF Good, PartsFirst
<1>10. QED
  BY <1>1, <1>5, <1>7, <1>9 DEF w, n

\* The parts, and the merge of them.
LEMMA GoodMerge ==
  ASSUME ACCORDIN_TASKSET_LOCK \in Targets
  PROVE  LET c == Command("merge", LockFile(ACCORDIN_TASKSET_LOCK), <<>>, <<>>) IN
         Good(taskset_sweep_specs \o <<c>>) /\ c \in ToSet(taskset_sweep_specs \o <<c>>) /\ c.kind = "merge"
<1> DEFINE c == Command("merge", LockFile(ACCORDIN_TASKSET_LOCK), <<>>, <<>>)
           s == taskset_sweep_specs
           n == Len(s)
           w == s \o <<c>>
<1>1. c.kind = "merge" /\ c.name = LockFile(ACCORDIN_TASKSET_LOCK) /\ c.outs = <<>> /\ c.cpus = <<>>
  BY DEF Command
<1>2. DOMAIN <<>> = {} /\ IsSeq(<<>>)
  BY EmptySeq DEF IsSeq
<1> HIDE DEF c
<1>3. DOMAIN c.outs = {} /\ IsSeq(c.outs)
  BY <1>1, <1>2
<1>4. ThreeItem(c)
  BY <1>1, <1>3 DEF ThreeItem, LockItem
<1>5. IsSeq(<<c>>) /\ ToSet(<<c>>) = {c} /\ DOMAIN <<c>> = {1} /\ <<c>>[1] = c /\ Len(<<c>>) = 1
  BY DEF IsSeq, ToSet
<1>6. /\ Good(s) /\ IsSeq(s)
      /\ \A combo \in ToSet(Combos) : \E j \in DOMAIN s : s[j].name = Part(combo) /\ s[j].cpus # <<>>
  BY GoodParts DEF Good
<1> HIDE DEF s
<1>7. n \in Nat /\ DOMAIN s = 1..n /\ \A i \in 1..n : s[i] \in ToSet(s)
  BY <1>6, SeqShape
<1>8. IsSeq(w) /\ ToSet(w) = ToSet(s) \cup {c} /\ DOMAIN w = 1..Len(w)
  BY <1>5, <1>6, ConcatElements, SeqShape
<1>9. Len(w) = n + 1 /\ \A i \in 1..n + 1 : w[i] = IF i <= n THEN s[i] ELSE <<c>>[i - n]
  <2> DEFINE S == ToSet(s) \cup {c}
  <2>1. s \in Seq(ToSet(s)) /\ <<c>> \in Seq({c}) /\ ToSet(s) \subseteq S /\ {c} \subseteq S
    BY <1>6 DEF IsSeq
  <2> HIDE DEF S, w
  <2>2. s \in Seq(S) /\ <<c>> \in Seq(S)
    BY <2>1
  <2>3. Len(s \o <<c>>) = Len(s) + Len(<<c>>)
        /\ \A i \in 1..Len(s) + Len(<<c>>) : (s \o <<c>>)[i] = IF i <= Len(s) THEN s[i] ELSE <<c>>[i - Len(s)]
    BY <2>2, ConcatProperties
  <2>4. QED
    BY <1>5, <2>3 DEF w
<1> HIDE DEF n, w
<1>10. \A i \in 1..n : i \in DOMAIN w /\ w[i] = s[i] /\ i < n + 1
  BY <1>7, <1>8, <1>9
<1>11. PartsFirst(w)
  <2> SUFFICES ASSUME NEW i \in DOMAIN w, w[i].kind = "merge", NEW combo \in ToSet(Combos)
               PROVE  \E j \in DOMAIN w : j < i /\ w[j].name = Part(combo) /\ w[j].cpus # <<>>
    BY DEF PartsFirst
  <2>1. CASE i \in 1..n
    <3>1. i \in DOMAIN s /\ s[i].kind = "merge"
      BY <1>7, <1>10, <2>1
    <3>2. PICK j \in DOMAIN s : j < i /\ s[j].name = Part(combo) /\ s[j].cpus # <<>>
      BY <1>6, <3>1 DEF Good, PartsFirst
    <3>3. QED
      BY <1>7, <1>10, <3>2
  <2>2. CASE i = n + 1
    <3>1. PICK j \in DOMAIN s : s[j].name = Part(combo) /\ s[j].cpus # <<>>
      BY <1>6
    <3>2. QED
      BY <1>7, <1>10, <2>2, <3>1
  <2>3. QED
    BY <1>7, <1>8, <1>9, <2>1, <2>2
<1>12. \A x \in ToSet(w) : ThreeItem(x)
  BY <1>4, <1>6, <1>8 DEF Good
<1>13. QED
  BY <1>1, <1>8, <1>11, <1>12 DEF Good, c, s, w

\* Lists one after the other, the i-th of which covers the locks in L[i].
LEMMA GoodInTurn ==
  ASSUME NEW n \in Nat, NEW m, NEW L, m = [i \in 1..n |-> m[i]],
         \A i \in 1..n : Good(m[i]) /\ \A l \in L[i] : Covered(m[i], l)
  PROVE  Good(FlattenSeq(m)) /\ \A i \in 1..n : \A l \in L[i] : Covered(FlattenSeq(m), l)
<1>1. Good(FlattenSeq(m)) /\ ToSet(FlattenSeq(m)) = UNION {ToSet(m[i]) : i \in 1..n}
  <2>1. \A i \in 1..n : Good(m[i])
    OBVIOUS
  <2>2. QED
    BY <2>1, GoodFlatten
<1>2. ASSUME NEW i \in 1..n, NEW l \in L[i]
      PROVE  Covered(FlattenSeq(m), l)
  <2>1. Covered(m[i], l) /\ ToSet(m[i]) \subseteq ToSet(FlattenSeq(m))
    BY <1>1
  <2>2. QED
    BY <2>1 DEF Covered
<1>3. QED
  BY <1>1, <1>2

\* The base locks that share a sweep.
LEMMA GoodGroups ==
  ASSUME NEW locks, IsSeq(locks), ToSet(locks) \subseteq Targets \ {ACCORDIN_TASKSET_LOCK},
         NEW b, Good(b), NEW gs, gs = lock_thread_groups(locks, [l \in ToSet(locks) |-> args.threads]),
         NEW m, m = [i \in DOMAIN gs |-> b \o <<ThreeSweep(gs[i])>>]
  PROVE  Good(FlattenSeq(m)) /\ \A l \in ToSet(locks) : Covered(FlattenSeq(m), l)
<1> DEFINE n == Len(gs)
<1>1. /\ IsSeq(gs) /\ \A g \in DOMAIN gs : IsSeq(gs[g]) /\ ToSet(gs[g]) \subseteq ToSet(locks)
      /\ \A l \in ToSet(locks) : \E g \in DOMAIN gs : l \in ToSet(gs[g])
  BY GroupFacts
<1>2. n \in Nat /\ DOMAIN gs = 1..n
  BY <1>1, SeqShape
<1> HIDE DEF n
<1>3. m = [i \in 1..n |-> m[i]] /\ \A i \in 1..n : m[i] = b \o <<ThreeSweep(gs[i])>>
  BY <1>2
<1>4. ASSUME NEW i \in 1..n
      PROVE  Good(m[i]) /\ \A l \in ToSet(gs[i]) : Covered(m[i], l)
  <2> DEFINE c == ThreeSweep(gs[i])
  <2>1. IsSeq(gs[i]) /\ ToSet(gs[i]) \subseteq Targets \ {ACCORDIN_TASKSET_LOCK}
    BY <1>1, <1>2
  <2>2. /\ c.cpus = <<>> /\ Good(<<c>>) /\ ToSet(<<c>>) = {c}
        /\ \A l \in ToSet(gs[i]) : \E j \in DOMAIN c.outs : c.outs[j].file = LockFile(l)
    BY <2>1, GoodSweep
  <2>3. m[i] = b \o <<c>>
    BY <1>3
  <2> HIDE DEF c
  <2>4. Good(b \o <<c>>) /\ c \in ToSet(b \o <<c>>)
    <3>1. Good(b \o <<c>>) /\ ToSet(b \o <<c>>) = ToSet(b) \cup ToSet(<<c>>)
      BY <2>2, GoodConcat
    <3>2. QED
      BY <2>2, <3>1
  <2>5. \A l \in ToSet(gs[i]) : Covered(b \o <<c>>, l)
    BY <2>1, <2>2, <2>4 DEF Covered
  <2>6. QED
    BY <2>3, <2>4, <2>5
<1> DEFINE L == [i \in 1..n |-> ToSet(gs[i])]
<1>5. \A i \in 1..n : Good(m[i]) /\ \A l \in L[i] : Covered(m[i], l)
  BY <1>4
<1>6. \A l \in ToSet(locks) : \E i \in 1..n : l \in L[i]
  BY <1>1, <1>2
<1>7. m = [i \in 1..n |-> m[i]]
  BY <1>3
<1> HIDE DEF L
<1>8. Good(FlattenSeq(m)) /\ \A i \in 1..n : \A l \in L[i] : Covered(FlattenSeq(m), l)
  BY <1>2, <1>5, <1>7, GoodInTurn
<1>9. QED
  BY <1>6, <1>8

\* Locks that are swept each by itself, the taskset variant in its parts.
LEMMA GoodSingles ==
  ASSUME NEW locks, IsSeq(locks), ToSet(locks) \subseteq Targets,
         NEW m, m = [i \in DOMAIN locks |->
            IF locks[i] = ACCORDIN_TASKSET_LOCK
            THEN taskset_sweep_specs \o <<Command("merge", LockFile(locks[i]), <<>>, <<>>)>>
            ELSE <<ThreeSweep(<<locks[i]>>)>>]
  PROVE  Good(FlattenSeq(m)) /\ \A l \in ToSet(locks) : Covered(FlattenSeq(m), l)
<1> DEFINE n == Len(locks)
           M == Command("merge", LockFile(ACCORDIN_TASKSET_LOCK), <<>>, <<>>)
           Fine(w, l) == IF l = ACCORDIN_TASKSET_LOCK THEN \E c \in ToSet(w) : c.kind = "merge"
                         ELSE \E c \in ToSet(w) : \E j \in DOMAIN c.outs : c.cpus = <<>> /\ c.outs[j].file = LockFile(l)
<1>1. n \in Nat /\ DOMAIN locks = 1..n /\ \A i \in 1..n : locks[i] \in ToSet(locks)
  BY SeqShape
<1> HIDE DEF n
<1>2. m = [i \in 1..n |-> m[i]]
  BY <1>1
<1>3. ASSUME NEW i \in 1..n
      PROVE  Good(m[i]) /\ Fine(m[i], locks[i])
  <2>1. CASE locks[i] = ACCORDIN_TASKSET_LOCK
    <3>1. m[i] = taskset_sweep_specs \o <<M>>
      BY <1>1, <2>1
    <3>2. ACCORDIN_TASKSET_LOCK \in Targets
      BY <1>1, <2>1
    <3>3. Good(taskset_sweep_specs \o <<M>>) /\ M \in ToSet(taskset_sweep_specs \o <<M>>) /\ M.kind = "merge"
      BY <3>2, GoodMerge
    <3> HIDE DEF M
    <3>4. QED
      BY <2>1, <3>1, <3>3
  <2>2. CASE locks[i] # ACCORDIN_TASKSET_LOCK
    <3> DEFINE l == locks[i]
               c == ThreeSweep(<<l>>)
    <3>1. m[i] = <<c>>
      BY <1>1, <2>2
    <3>2. l \in Targets /\ l # ACCORDIN_TASKSET_LOCK
      BY <1>1, <2>2
    <3> HIDE DEF l
    <3>3. IsSeq(<<l>>) /\ ToSet(<<l>>) = {l}
      BY DEF IsSeq, ToSet
    <3>4. /\ c.cpus = <<>> /\ Good(<<c>>) /\ ToSet(<<c>>) = {c}
          /\ \A k \in ToSet(<<l>>) : \E j \in DOMAIN c.outs : c.outs[j].file = LockFile(k)
      <4>1. ToSet(<<l>>) \subseteq Targets \ {ACCORDIN_TASKSET_LOCK}
        BY <3>2, <3>3
      <4>2. QED
        BY <3>3, <4>1, GoodSweep
    <3> HIDE DEF c
    <3>5. Good(m[i]) /\ Fine(m[i], l)
      BY <3>1, <3>2, <3>3, <3>4
    <3>6. QED
      BY <3>5 DEF l
  <2>3. QED
    BY <2>1, <2>2
<1> DEFINE L == [i \in 1..n |-> {locks[i]}]
<1>4. \A i \in 1..n : Good(m[i]) /\ \A l \in L[i] : Covered(m[i], l)
  BY <1>3 DEF Covered
<1>5. \A l \in ToSet(locks) : \E i \in 1..n : l \in L[i]
  BY <1>1 DEF ToSet
<1> HIDE DEF L
<1>6. Good(FlattenSeq(m)) /\ \A i \in 1..n : \A l \in L[i] : Covered(FlattenSeq(m), l)
  BY <1>1, <1>2, <1>4, GoodInTurn
<1>7. QED
  BY <1>5, <1>6

\* The commands of a session: its targets are among their outputs.
LEMMA ThreeList ==
  ASSUME args.targets \in Seq(THREE_LOCK_KEYS), NEW built \in BOOLEAN
  PROVE  LET w == run_baseline_supplement(built) IN Good(w) /\ \A l \in Targets : Covered(w, l)
<1> DEFINE In(S) == Among(args.targets, S)
           multi == In(MULTI_LOCK_SWEEP_LOCKS)
           ext == In({"mcs_extension"})
           accordin == In(ACCORDIN_VARIANT_LOCKS)
           Build(name) == IF built THEN <<>> ELSE <<Command("build", <<name>>, <<>>, <<>>)>>
           A == ForEach(lock_thread_groups(multi, [l \in ToSet(multi) |-> args.threads]),
                        LAMBDA g : Build("wrappers") \o <<ThreeSweep(g)>>)
           B == ForEach(ext, LAMBDA l : <<ThreeSweep(<<l>>)>>)
           C == IF accordin = <<>> THEN <<>> ELSE Build("direct")
           D == ForEach(accordin, LAMBDA l : IF l = ACCORDIN_TASKSET_LOCK
                    THEN taskset_sweep_specs \o <<Command("merge", LockFile(l), <<>>, <<>>)>> ELSE <<ThreeSweep(<<l>>)>>)
           E == <<Command("plot", <<"plots">>, <<>>, <<>>)>>
<1>1. run_baseline_supplement(built) = A \o B \o C \o D \o E
  BY DEF run_baseline_supplement
<1>2. \A S : IsSeq(In(S)) /\ ToSet(In(S)) = Targets \cap S
  <2>1. \A S : In(S) \in Seq(THREE_LOCK_KEYS) /\ ToSet(In(S)) = Targets \cap S
    BY AmongFacts DEF Targets
  <2>2. QED
    BY <2>1, SeqOfItsElements
<1> HIDE DEF In
<1>3. \A name : Good(Build(name))
  BY GoodPlain, GoodEmpty
<1> HIDE DEF Build
<1>4. ACCORDIN_TASKSET_LOCK \notin ToSet(multi) /\ ACCORDIN_TASKSET_LOCK \notin ToSet(ext)
  BY <1>2 DEF ACCORDIN_TASKSET_LOCK, MULTI_LOCK_SWEEP_LOCKS
<1>5. Good(A) /\ \A l \in ToSet(multi) : Covered(A, l)
  <2>1. IsSeq(multi) /\ ToSet(multi) \subseteq Targets \ {ACCORDIN_TASKSET_LOCK} /\ Good(Build("wrappers"))
    BY <1>2, <1>3, <1>4
  <2> DEFINE gs == lock_thread_groups(multi, [l \in ToSet(multi) |-> args.threads])
             b == Build("wrappers")
             m == [i \in DOMAIN gs |-> b \o <<ThreeSweep(gs[i])>>]
  <2>2. A = FlattenSeq(m)
    BY DEF ForEach
  <2> HIDE DEF A, multi, b
  <2>3. gs = lock_thread_groups(multi, [l \in ToSet(multi) |-> args.threads])
    OBVIOUS
  <2> HIDE DEF gs
  <2>4. m = [i \in DOMAIN gs |-> b \o <<ThreeSweep(gs[i])>>]
    OBVIOUS
  <2> HIDE DEF m
  <2>5. Good(FlattenSeq(m)) /\ \A l \in ToSet(multi) : Covered(FlattenSeq(m), l)
    BY <2>1, <2>3, <2>4, GoodGroups DEF b
  <2>6. QED
    BY <2>2, <2>5
<1>6. Good(B) /\ \A l \in ToSet(ext) : Covered(B, l)
  <2> DEFINE m == [i \in DOMAIN ext |->
            IF ext[i] = ACCORDIN_TASKSET_LOCK
            THEN taskset_sweep_specs \o <<Command("merge", LockFile(ext[i]), <<>>, <<>>)>>
            ELSE <<ThreeSweep(<<ext[i]>>)>>]
  <2>1. IsSeq(ext) /\ ToSet(ext) \subseteq Targets
    BY <1>2
  <2>2. \A i \in DOMAIN ext : ext[i] # ACCORDIN_TASKSET_LOCK
    BY <1>4 DEF ToSet
  <2>3. B = FlattenSeq([i \in DOMAIN ext |-> <<ThreeSweep(<<ext[i]>>)>>])
    BY DEF ForEach
  <2> HIDE DEF ext
  <2>4. m = [i \in DOMAIN ext |-> <<ThreeSweep(<<ext[i]>>)>>]
    BY <2>2
  <2>5. B = FlattenSeq(m)
    BY <2>3, <2>4
  <2> HIDE DEF B
  <2>6. QED
    BY <2>1, <2>5, GoodSingles
<1>7. Good(C)
  BY <1>3, GoodEmpty
<1>8. Good(D) /\ \A l \in ToSet(accordin) : Covered(D, l)
  <2> DEFINE m == [i \in DOMAIN accordin |->
            IF accordin[i] = ACCORDIN_TASKSET_LOCK
            THEN taskset_sweep_specs \o <<Command("merge", LockFile(accordin[i]), <<>>, <<>>)>>
            ELSE <<ThreeSweep(<<accordin[i]>>)>>]
  <2>1. IsSeq(accordin) /\ ToSet(accordin) \subseteq Targets
    BY <1>2
  <2>2. D = FlattenSeq(m)
    BY DEF ForEach
  <2> HIDE DEF accordin, D
  <2>3. QED
    BY <2>1, <2>2, GoodSingles
<1>9. Good(E)
  BY GoodPlain
<1>10. Targets \subseteq ToSet(multi) \cup ToSet(ext) \cup ToSet(accordin)
  <2>1. Targets \subseteq THREE_LOCK_KEYS
    BY SeqFacts DEF Targets
  <2>2. QED
    BY <1>2, <2>1 DEF THREE_LOCK_KEYS
<1> HIDE DEF A, B, C, D, E, multi, ext, accordin
<1>11. Good(A \o B) /\ ToSet(A \o B) = ToSet(A) \cup ToSet(B)
  BY <1>5, <1>6, GoodConcat
<1>12. Good(A \o B \o C) /\ ToSet(A \o B \o C) = ToSet(A \o B) \cup ToSet(C)
  BY <1>7, <1>11, GoodConcat
<1>13. Good(A \o B \o C \o D) /\ ToSet(A \o B \o C \o D) = ToSet(A \o B \o C) \cup ToSet(D)
  BY <1>8, <1>12, GoodConcat
<1>14. Good(A \o B \o C \o D \o E) /\ ToSet(A \o B \o C \o D \o E) = ToSet(A \o B \o C \o D) \cup ToSet(E)
  BY <1>9, <1>13, GoodConcat
<1> DEFINE w == A \o B \o C \o D \o E
<1>15. ToSet(A) \subseteq ToSet(w) /\ ToSet(B) \subseteq ToSet(w) /\ ToSet(D) \subseteq ToSet(w)
  BY <1>11, <1>12, <1>13, <1>14
<1> HIDE DEF w
<1>16. \A v, l : ToSet(v) \subseteq ToSet(w) /\ Covered(v, l) => Covered(w, l)
  BY DEF Covered
<1>17. \A l \in Targets : Covered(w, l)
  BY <1>5, <1>6, <1>8, <1>10, <1>15, <1>16
<1>18. QED
  BY <1>1, <1>14, <1>17 DEF w

\* A session that ends without success.
LEMMA ThreeExit ==
  ASSUME ThreeInv, pc' = "off", status' # "ok", failures' = {}, UNCHANGED <<failed, sessions>>,
         \A f \in DOMAIN raw' : raw'[f].by \in Nat /\ raw'[f].by <= sessions
  PROVE  ThreeInv'
<1>1. ThreeControl'
  BY DEF ThreeInv, ThreeControl
<1>2. ThreeFiles' /\ ThreeParts' /\ ThreeOutcome'
  BY DEF ThreeFiles, ThreeParts, ThreeOutcome
<1>3. QED
  BY <1>1, <1>2 DEF ThreeInv

\* A session starts: the locks that are not targets are complete, and if none is a target it ends with 0.
LEMMA ThreeStarts ==
  ASSUME ThreeInv, ThreeStart
  PROVE  ThreeInv'
<1>1. /\ pc = "off" /\ sessions' = sessions + 1 /\ UNCHANGED <<raw, failed>>
  BY DEF ThreeStart, NewSession, files
<1>2. PICK a \in ThreeSessions : LET locks == resolve_requested_locks(a) IN
        IF locks = <<>> THEN Exit("ok") /\ args' = a
        ELSE Begin([locks |-> a.locks, threads |-> a.threads, force |-> a.force, targets |-> locks],
                   "builds", <<Command("build", <<"mutex_bench">>, <<>>, <<>>)>>)
  BY DEF ThreeStart
<1> DEFINE locks == resolve_requested_locks(a)
<1>3. a.locks \in Seq(THREE_LOCK_KEYS) /\ a.threads \in Seq(Nat) /\ a.force \in BOOLEAN
  BY ThreeLinesAssumption
<1>4. /\ sessions \in Nat /\ failures = {} /\ failed = {}
      /\ \A f \in DOMAIN raw : raw[f].by \in Nat /\ raw[f].by <= sessions
  BY DEF ThreeInv, ThreeControl
<1>5. sessions' \in Nat /\ \A f \in DOMAIN raw : raw[f].by \in Nat /\ raw[f].by <= sessions' /\ raw[f].by # sessions'
  BY <1>1, <1>4
<1>6. /\ IsSeq(locks) /\ ToSet(locks) \subseteq ToSet(a.locks)
      /\ \A l \in ToSet(a.locks) \ ToSet(locks) : lock_is_complete(l, a.threads)
      /\ locks = <<>> => ToSet(locks) = {}
  <2>1. CASE a.force
    BY <1>3, <2>1, SeqOfItsElements, GoodEmpty DEF resolve_requested_locks
  <2>2. CASE ~a.force
    <3> DEFINE S == {l \in ToSet(a.locks) : ~lock_is_complete(l, a.threads)}
    <3>1. locks = Among(a.locks, S)
      BY <2>2 DEF resolve_requested_locks, incomplete_or_missing_locks
    <3> HIDE DEF locks
    <3>2. locks \in Seq(THREE_LOCK_KEYS) /\ ToSet(locks) = ToSet(a.locks) \cap S
      <4> HIDE DEF S
      <4>1. QED
        BY <1>3, <3>1, AmongFacts
    <3>3. QED
      BY <3>2, SeqOfItsElements, GoodEmpty
  <2>3. QED
    BY <1>3, <2>1, <2>2
<1> HIDE DEF locks
<1>7. CASE locks = <<>>
  <2>1. pc' = "off" /\ status' = "ok" /\ failures' = {} /\ args' = a
    BY <1>2, <1>7 DEF locks, Exit
  <2>2. ThreeControl' /\ ThreeFiles' /\ ThreeParts'
    BY <1>1, <1>4, <1>5, <2>1 DEF ThreeControl, ThreeFiles, ThreeParts
  <2>3. ASSUME NEW l \in ToSet(a.locks)
        PROVE  LET f == LockFile(l) IN
               /\ raw[f].n = Len(PointsOf(a.threads))
               /\ \E g \in FilesOf(l) \cap DOMAIN raw : raw[g].by # sessions'
    <3>1. lock_is_complete(l, a.threads)
      BY <1>6, <1>7
    <3>2. LockFile(l) \in DOMAIN raw /\ raw[LockFile(l)].n = Len(PointsOf(a.threads))
      BY <1>3, <3>1, MatrixFacts DEF lock_is_complete
    <3>3. QED
      BY <1>5, <3>2 DEF FilesOf
  <2>4. ThreeOutcome'
    BY <1>1, <2>1, <2>3 DEF ThreeOutcome
  <2>5. QED
    BY <2>2, <2>4 DEF ThreeInv
<1>8. CASE locks # <<>>
  <2> DEFINE b == [locks |-> a.locks, threads |-> a.threads, force |-> a.force, targets |-> locks]
             c == Command("build", <<"mutex_bench">>, <<>>, <<>>)
  <2>1. /\ pc' = "next" /\ status' = "running" /\ args' = b /\ stage' = "builds" /\ work' = <<c>>
        /\ pos' = 1 /\ failures' = {}
    BY <1>2, <1>8 DEF locks, Begin
  <2>2. /\ b.locks = a.locks /\ b.threads = a.threads /\ b.force = a.force /\ b.targets = locks
    OBVIOUS
  <2>3. c.kind = "build" /\ c.outs = <<>> /\ c.cpus = <<>>
    BY DEF Command
  <2> HIDE DEF b, c
  <2>4. Targets' = ToSet(locks)
    BY <2>1, <2>2 DEF Targets
  <2>5. IsSeq(<<c>>) /\ ToSet(<<c>>) = {c} /\ Len(<<c>>) = 1
    BY DEF IsSeq, ToSet
  <2>6. IsSeq(<<>>) /\ DOMAIN <<>> = {}
    BY EmptySeq DEF IsSeq
  <2>7. ThreeItem(c)'
    <3>1. DOMAIN c.outs = {} /\ IsSeq(c.outs)
      BY <2>3, <2>6
    <3>2. QED
      BY <2>3, <3>1 DEF ThreeItem, LockItem
  <2>8. ThreeControl'
    BY <1>1, <1>3, <1>4, <1>5, <1>6, <2>1, <2>2, <2>3, <2>4, <2>5, <2>7 DEF ThreeControl, ThreeBusy
  <2>9. ThreeFiles'
    <3>1. \A l \in ToSet(a.locks) \ ToSet(locks) : lock_is_complete(l, a.threads)' /\ raw[LockFile(l)].by # sessions'
      <4>1. ASSUME NEW l \in ToSet(a.locks) \ ToSet(locks)
            PROVE  lock_is_complete(l, a.threads) /\ LockFile(l) \in DOMAIN raw
        BY <1>6 DEF lock_is_complete
      <4>2. \A l, t : lock_is_complete(l, t)' <=> lock_is_complete(l, t)
        BY <1>1 DEF lock_is_complete
      <4>3. QED
        BY <1>5, <1>1, <4>1 DEF lock_is_complete
    <3>2. \A l \in (ToSet(args.locks) \ Targets)' : lock_is_complete(l, args.threads)' /\ raw'[LockFile(l)].by # sessions'
      BY <1>1, <2>1, <2>2, <2>4, <3>1 DEF lock_is_complete
    <3>3. QED
      BY <1>1, <1>5, <2>1, <3>2 DEF ThreeFiles
  <2>10. ThreeParts' /\ ThreeOutcome'
    BY <2>1 DEF ThreeParts, ThreeOutcome
  <2>11. QED
    BY <2>8, <2>9, <2>10 DEF ThreeInv
<1>9. QED
  BY <1>7, <1>8

\* The item at hand is one of the list.
LEMMA ThreeAtHand ==
  ASSUME ThreeInv, pc # "off"
  PROVE  /\ Len(work) \in Nat /\ DOMAIN work = 1..Len(work) /\ pos \in 1..Len(work) + 1
         /\ pos <= Len(work) => pos \in DOMAIN work /\ Item \in ToSet(work) /\ ThreeItem(Item)
                                /\ pos + 1 \in 1..Len(work) + 1 /\ (pos + 1) - 1 = pos
                                /\ \A i \in 1..pos : i \in 1..pos - 1 \/ i = pos
         /\ pos > Len(work) => pos - 1 = Len(work)
         /\ \A i \in 1..pos - 1 : i \in DOMAIN work /\ work[i] \in ToSet(work) /\ ThreeItem(work[i])
<1>1. IsSeq(work) /\ pos \in 1..Len(work) + 1 /\ \A c \in ToSet(work) : ThreeItem(c)
  BY DEF ThreeInv, ThreeControl
<1>2. Len(work) \in Nat /\ DOMAIN work = 1..Len(work) /\ \A i \in 1..Len(work) : work[i] \in ToSet(work)
  BY <1>1, SeqShape
<1>3. \A i \in 1..pos - 1 : i \in 1..Len(work)
  BY <1>1, <1>2
<1>4. pos <= Len(work) => pos \in 1..Len(work) /\ pos + 1 \in 1..Len(work) + 1 /\ (pos + 1) - 1 = pos
                                /\ \A i \in 1..pos : i \in 1..pos - 1 \/ i = pos
  BY <1>1, <1>2
<1>5. pos > Len(work) => pos - 1 = Len(work)
  BY <1>1, <1>2
<1>6. QED
  BY <1>1, <1>2, <1>3, <1>4, <1>5 DEF Item

\* The results are the same when neither the files nor the arguments change.
LEMMA ThreeQuiet ==
  ASSUME UNCHANGED <<raw, args, sessions>>
  PROVE  /\ \A l, t : lock_is_complete(l, t)' <=> lock_is_complete(l, t)
         /\ \A p : taskset_part_is_complete(p)' <=> taskset_part_is_complete(p)
         /\ \A l : LockDone(l)' <=> LockDone(l)
         /\ \A c : ItemDone(c) /\ (pc' = "merge" \/ pc # "merge") => ItemDone(c)'
<1>1. \A l, t : lock_is_complete(l, t)' <=> lock_is_complete(l, t)
  BY DEF lock_is_complete
<1>2. \A p : taskset_part_is_complete(p)' <=> taskset_part_is_complete(p)
  BY DEF taskset_part_is_complete
<1>3. \A l : LockDone(l)' <=> LockDone(l)
  BY DEF LockDone
<1>4. \A c : ItemDone(c) /\ (pc' = "merge" \/ pc # "merge") => ItemDone(c)'
  BY <1>2, <1>3 DEF ItemDone
<1>5. QED
  BY <1>1, <1>2, <1>3, <1>4

\* The targets are made ready: with --force the files of the targets are removed.
LEMMA ThreePrepares ==
  ASSUME ThreeInv, prepare_target_dirs
  PROVE  ThreeInv'
<1>1. /\ stage = "builds" /\ pc = "next" /\ pos > Len(work) /\ UNCHANGED <<failed, sessions>>
  BY DEF prepare_target_dirs, Over, bounds
<1>2. /\ status = "running" /\ args.locks \in Seq(THREE_LOCK_KEYS) /\ args.threads \in Seq(Nat) /\ args.force \in BOOLEAN
      /\ IsSeq(args.targets) /\ Targets \subseteq ToSet(args.locks)
      /\ \A f \in DOMAIN raw : raw[f].by \in Nat /\ raw[f].by <= sessions /\ raw[f].by # sessions
      /\ sessions \in Nat /\ failures = {} /\ failed = {}
  BY <1>1 DEF ThreeInv, ThreeControl, ThreeFiles
<1>3. CASE Exit("error") /\ UNCHANGED raw
  <2>1. pc' = "off" /\ status' # "ok" /\ failures' = {}
    BY <1>3 DEF Exit
  <2>2. QED
    BY <1>1, <1>2, <1>3, <2>1, ThreeExit
<1> DEFINE gone == UNION {FilesOf(l) : l \in IF args.force THEN ToSet(args.targets) ELSE {}}
<1>4. ASSUME NEW built \in BOOLEAN, Proceed("sweeps", run_baseline_supplement(built)),
             args.force \/ \A l \in Targets : LockFile(l) \notin DOMAIN raw,
             raw' = [f \in DOMAIN raw \ gone |-> raw[f]]
      PROVE  ThreeInv'
  <2>1. /\ pc' = "next" /\ stage' = "sweeps" /\ work' = run_baseline_supplement(built) /\ pos' = 1
        /\ UNCHANGED <<args, failures, status>>
    BY <1>4 DEF Proceed
  <2>2. Good(work') /\ \A l \in Targets : Covered(work', l)
    <3>1. args.targets \in Seq(THREE_LOCK_KEYS)
      <4>1. ToSet(args.locks) \subseteq THREE_LOCK_KEYS
        BY <1>2, SeqFacts
      <4>2. args.targets \in Seq(Targets) /\ Targets \subseteq THREE_LOCK_KEYS
        BY <1>2, <4>1 DEF IsSeq, Targets
      <4>3. QED
        BY <4>2
    <3>2. QED
      BY <2>1, <3>1, ThreeList
  <2>3. Targets' = Targets /\ \A c : ThreeItem(c)' <=> ThreeItem(c)
    BY <2>1, ThreeSame
  <2>4. \A v, l : Covered(v, l)' <=> Covered(v, l)
    BY DEF Covered
  <2>5. /\ DOMAIN raw' = DOMAIN raw \ gone /\ \A f \in DOMAIN raw' : raw'[f] = raw[f]
    BY <1>4
  <2>6. /\ \A l \in Targets : LockFile(l) \notin DOMAIN raw'
        /\ \A l \in ToSet(args.locks) \ Targets : LockFile(l) \notin gone
    <3>1. \A l \in Targets : args.force => LockFile(l) \in gone
      BY DEF FilesOf, Targets
    <3>2. ASSUME NEW l \in ToSet(args.locks) \ Targets
          PROVE  LockFile(l) \notin gone
      BY FileNames DEF FilesOf, Targets
    <3>3. QED
      BY <1>4, <2>5, <3>1, <3>2
  <2> HIDE DEF gone
  <2>7. ThreeControl'
    <3>1. IsSeq(work') /\ Len(work') \in Nat
      BY <2>2, SeqShape DEF Good
    <3>2. 1 \in 1..Len(work') + 1
      BY <3>1
    <3>3. /\ PartsFirst(work') /\ \A l \in Targets' : Covered(work', l)
          /\ \A c \in ToSet(work') : ThreeItem(c)'
      BY <2>2, <2>3 DEF Good
    <3>4. \A f \in DOMAIN raw' : raw'[f].by \in Nat /\ raw'[f].by <= sessions
      BY <1>2, <2>5
    <3>5. /\ args'.locks \in Seq(THREE_LOCK_KEYS) /\ args'.threads \in Seq(Nat) /\ args'.force \in BOOLEAN
          /\ IsSeq(args'.targets) /\ Targets' \subseteq ToSet(args'.locks)
      BY <1>2, <2>1, <2>3
    <3>6. QED
      BY <1>1, <1>2, <2>1, <3>1, <3>2, <3>3, <3>4, <3>5 DEF ThreeControl, ThreeBusy, PartsFirst, Covered
  <2>8. ThreeFiles'
    <3>1. ASSUME NEW l \in ToSet(args.locks) \ Targets
          PROVE  lock_is_complete(l, args.threads)' /\ raw'[LockFile(l)].by # sessions
      <4>1. lock_is_complete(l, args.threads) /\ raw[LockFile(l)].by # sessions
        BY <1>1 DEF ThreeInv, ThreeFiles
      <4>2. LockFile(l) \in DOMAIN raw' /\ raw'[LockFile(l)] = raw[LockFile(l)]
        BY <2>5, <2>6, <4>1 DEF lock_is_complete
      <4>3. QED
        BY <2>1, <4>1, <4>2 DEF lock_is_complete
    <3>2. QED
      BY <1>1, <2>1, <2>3, <2>6, <3>1 DEF ThreeFiles
  <2>9. ThreeParts'
    <3>1. \A f \in DOMAIN raw' : raw'[f].by # sessions
      BY <1>2, <2>5
    <3>2. QED
      BY <1>1, <2>1, <3>1 DEF ThreeParts
  <2>10. ThreeOutcome'
    BY <1>2, <2>1 DEF ThreeOutcome
  <2>11. QED
    BY <2>7, <2>8, <2>9, <2>10 DEF ThreeInv
<1>5. QED
  <2>1. \/ Exit("error") /\ UNCHANGED raw
        \/ /\ args.force \/ \A l \in Targets : LockFile(l) \notin DOMAIN raw
           /\ \E built \in BOOLEAN : Proceed("sweeps", run_baseline_supplement(built))
           /\ raw' = [f \in DOMAIN raw \ gone |-> raw[f]]
    BY <1>2 DEF prepare_target_dirs, Targets
  <2> HIDE DEF gone
  <2>2. QED
    BY <1>3, <1>4, <2>1

\* Steps that write no results.
LEMMA ThreeMoves ==
  ASSUME ThreeInv, SkipPart \/ RunCommand \/ write_manifest \/ Continue
  PROVE  ThreeInv'
<1> USE DEF ThreeBusy
<1>1. UNCHANGED <<args, stage, work, failures, status, raw, failed, sessions>>
  BY DEF SkipPart, RunCommand, StartCommand, write_manifest, Continue, files, bounds
<1>2. pc # "off" /\ pc # "merge" /\ status = "running" /\ failures = {} /\ failed = {} /\ sessions \in Nat
      /\ \A f \in DOMAIN raw : raw[f].by \in Nat /\ raw[f].by <= sessions
  BY DEF ThreeInv, ThreeControl, SkipPart, IsPart, RunCommand, write_manifest, Continue
<1>3. pos <= Len(work)
  BY DEF ThreeInv, ThreeControl, SkipPart, IsPart, RunCommand, write_manifest, Continue
<1>4. /\ pos \in DOMAIN work /\ Item \in ToSet(work) /\ ThreeItem(Item)
      /\ pos + 1 \in 1..Len(work) + 1 /\ (pos + 1) - 1 = pos /\ pos \in 1..Len(work) + 1
      /\ \A i \in 1..pos : i \in 1..pos - 1 \/ i = pos
  BY <1>2, <1>3, ThreeAtHand
<1>5. /\ Targets' = Targets /\ \A c : ThreeItem(c)' <=> ThreeItem(c)
  BY <1>1, ThreeSame
<1>6. /\ \A l, t : lock_is_complete(l, t)' <=> lock_is_complete(l, t)
      /\ \A p : taskset_part_is_complete(p)' <=> taskset_part_is_complete(p)
      /\ \A c : ItemDone(c) => ItemDone(c)'
  BY <1>1, <1>2, ThreeQuiet
<1>7. \/ /\ SkipPart /\ pc = "next" /\ pc' = "next" /\ pos' = pos + 1 /\ Item.cpus # <<>> /\ taskset_part_is_complete(Item.name)
      \/ /\ pc = "next" /\ pc' = "running" /\ pos' = pos /\ Item.kind # "merge" /\ (Item.cpus # <<>> => Item.name \notin DOMAIN raw)
      \/ pc = "dump_ok" /\ pc' = "ended" /\ pos' = pos
      \/ pc = "dump_bad" /\ pc' = "raised" /\ pos' = pos
      \/ pc = "ended" /\ pc' = "next" /\ pos' = pos + 1
  <2>1. SkipPart => pc = "next" /\ pc' = "next" /\ pos' = pos + 1 /\ Item.cpus # <<>> /\ taskset_part_is_complete(Item.name)
    BY DEF SkipPart, IsPart
  <2>2. RunCommand => pc = "next" /\ pc' = "running" /\ pos' = pos /\ Item.kind # "merge" /\ (Item.cpus # <<>> => Item.name \notin DOMAIN raw)
    BY DEF RunCommand, IsPart, StartCommand
  <2>3. write_manifest => \/ pc = "dump_ok" /\ pc' = "ended" /\ pos' = pos
                          \/ pc = "dump_bad" /\ pc' = "raised" /\ pos' = pos
    <3>1. write_manifest => pc \in {"dump_ok", "dump_bad"}
      BY DEF write_manifest, ThreeInv, ThreeControl
    <3>2. QED
      BY <3>1 DEF write_manifest
  <2>4. Continue => pc = "ended" /\ pc' = "next" /\ pos' = pos + 1
    BY DEF Continue
  <2>5. QED
    BY <2>1, <2>2, <2>3, <2>4
<1>8. /\ pos' \in 1..Len(work) + 1 /\ pc' \in {"next"} \cup ThreeBusy
      /\ pc' # "next" => pos' = pos /\ Item' = Item
      /\ pc' \in {"running"} => Item.kind # "merge" /\ (Item.cpus # <<>> => Item.name \notin DOMAIN raw)
      /\ pc' \in ThreeBusy => Item.kind # "merge"
  <2>1. pc \in ThreeBusy => Item.kind # "merge"
    BY DEF ThreeInv, ThreeControl
  <2>2. pos' = pos => Item' = Item
    BY <1>1 DEF Item
  <2>3. pos' \in 1..Len(work) + 1
    BY <1>4, <1>7
  <2>4. QED
    BY <1>7, <2>1, <2>2, <2>3
<1>9. ThreeControl'
  <2>1. /\ stage \in {"builds", "sweeps"}
        /\ args.locks \in Seq(THREE_LOCK_KEYS) /\ args.threads \in Seq(Nat) /\ args.force \in BOOLEAN
        /\ IsSeq(args.targets) /\ Targets \subseteq ToSet(args.locks)
        /\ IsSeq(work) /\ \A c \in ToSet(work) : ThreeItem(c)
        /\ stage = "builds" => \A c \in ToSet(work) : c.kind = "build"
        /\ stage = "sweeps" => PartsFirst(work) /\ \A l \in Targets : Covered(work, l)
    BY <1>2 DEF ThreeInv, ThreeControl
  <2>2. /\ Targets' \subseteq ToSet(args'.locks) /\ \A c \in ToSet(work') : ThreeItem(c)'
        /\ stage' = "sweeps" => PartsFirst(work') /\ \A l \in Targets' : Covered(work', l)
    BY <1>1, <1>5, <2>1
  <2>3. pc' \in {"merge"} \cup ThreeBusy => pos' <= Len(work') /\ (pc' = "merge" <=> Item'.kind = "merge")
    BY <1>1, <1>3, <1>8
  <2> HIDE DEF ThreeBusy
  <2>4. pc' \in {"off", "next", "merge"} \cup ThreeBusy /\ pos' \in 1..Len(work') + 1
    BY <1>1, <1>8
  <2>5. QED
    BY <1>1, <1>2, <2>1, <2>2, <2>3, <2>4 DEF ThreeControl, PartsFirst, Covered
<1>10. ThreeFiles'
  <2>1. /\ \A l \in ToSet(args.locks) \ Targets :
            lock_is_complete(l, args.threads) /\ raw[LockFile(l)].by # sessions
        /\ stage = "builds" => \A f \in DOMAIN raw : raw[f].by # sessions
        /\ stage = "sweeps" => \A l \in Targets : LockFile(l) \in DOMAIN raw => raw[LockFile(l)].by = sessions
    BY <1>2 DEF ThreeInv, ThreeFiles
  <2>2. pc' # "merge" /\ (pc' = "running" /\ Item'.cpus # <<>> => Item'.name \notin DOMAIN raw')
    BY <1>1, <1>8
  <2>3. \A l \in (ToSet(args.locks) \ Targets)' : lock_is_complete(l, args.threads)' /\ raw'[LockFile(l)].by # sessions'
    BY <1>1, <1>5, <1>6, <2>1
  <2>4. QED
    BY <1>1, <1>5, <2>1, <2>2, <2>3 DEF ThreeFiles
<1>11. ThreeParts'
  <2> SUFFICES ASSUME pc' \notin {"off", "dump_bad", "raised"}, stage = "sweeps"
               PROVE  /\ \A combo \in ToSet(Combos) : Part(combo) \in DOMAIN raw =>
                            LET r == raw[Part(combo)] IN
                            r.by = sessions => r.of = PartPoints(combo, args.threads) /\ r.n = Len(r.of)
                      /\ \A i \in (1..(IF pc \in {"dump_ok", "ended"} THEN pos ELSE pos - 1))' : ItemDone(work[i])'
    BY <1>1 DEF ThreeParts, PartPoints
  <2>1. /\ \A combo \in ToSet(Combos) : Part(combo) \in DOMAIN raw =>
                            LET r == raw[Part(combo)] IN
                            r.by = sessions => r.of = PartPoints(combo, args.threads) /\ r.n = Len(r.of)
        /\ \A i \in 1..(IF pc \in {"dump_ok", "ended"} THEN pos ELSE pos - 1) : ItemDone(work[i])
    BY <1>2, <1>7 DEF ThreeInv, ThreeParts
  <2>2. SkipPart => ItemDone(Item)
    <3>1. SUFFICES ASSUME SkipPart
                   PROVE  ItemDone(Item)
      OBVIOUS
    <3>2. Item.cpus # <<>> /\ taskset_part_is_complete(Item.name)
      BY <3>1 DEF SkipPart, IsPart
    <3>3. Item.kind # "merge"
      BY <1>4, <3>2 DEF ThreeItem, LockItem, PartItem
    <3>4. QED
      BY <3>2, <3>3 DEF ItemDone
  <2>3. \A i \in (1..(IF pc \in {"dump_ok", "ended"} THEN pos ELSE pos - 1))' : ItemDone(work[i])
    <3>1. CASE SkipPart /\ pc = "next" /\ pc' = "next" /\ pos' = pos + 1
      BY <1>4, <2>1, <2>2, <3>1 DEF Item
    <3>2. CASE pc = "next" /\ pc' = "running" /\ pos' = pos
      BY <2>1, <3>2
    <3>3. CASE pc = "dump_ok" /\ pc' = "ended" /\ pos' = pos
      BY <2>1, <3>3
    <3>4. CASE pc = "ended" /\ pc' = "next" /\ pos' = pos + 1
      BY <1>4, <2>1, <3>4
    <3>5. QED
      BY <1>7, <3>1, <3>2, <3>3, <3>4
  <2>4. QED
    BY <1>1, <1>6, <2>1, <2>3
<1>12. ThreeOutcome'
  BY <1>1, <1>2 DEF ThreeOutcome
<1>13. QED
  BY <1>9, <1>10, <1>11, <1>12 DEF ThreeInv

\* Once the merge has been reached, all parts are complete.
LEMMA PartsBeforeMerge ==
  ASSUME ThreeInv, stage = "sweeps", pc \notin {"off", "dump_bad", "raised"},
         NEW i \in DOMAIN work, i <= pos, work[i].kind = "merge"
  PROVE  \A combo \in ToSet(Combos) : taskset_part_is_complete(Part(combo))
<1> SUFFICES ASSUME NEW combo \in ToSet(Combos)
             PROVE  taskset_part_is_complete(Part(combo))
  OBVIOUS
<1>1. PartsFirst(work)
  BY DEF ThreeInv, ThreeControl
<1>2. PICK j \in DOMAIN work : j < i /\ work[j].name = Part(combo) /\ work[j].cpus # <<>>
  BY <1>1 DEF PartsFirst
<1>3. j \in 1..pos - 1 /\ j \in 1..(IF pc \in {"dump_ok", "ended"} THEN pos ELSE pos - 1)
  BY <1>2, ThreeAtHand
<1>4. ItemDone(work[j])
  BY <1>3 DEF ThreeInv, ThreeParts
<1>5. QED
  BY <1>2, <1>4 DEF ItemDone

\* What a command of experiment three writes.
LEMMA ThreeWrote ==
  ASSUME ThreeInv, pc = "running", Wrote(FALSE)
  PROVE  /\ DOMAIN raw \subseteq DOMAIN raw'
         /\ \A f \in DOMAIN raw' :
                \/ f \in DOMAIN raw /\ raw'[f] = raw[f]
                \/ /\ stage = "sweeps" /\ raw'[f].by = sessions
                   /\ \/ /\ Item.cpus = <<>> /\ raw'[f].of = PointsOf(args.threads)
                         /\ \E l \in Targets \ {ACCORDIN_TASKSET_LOCK} : f = LockFile(l)
                      \/ /\ f = Item.name /\ f \notin DOMAIN raw
                         /\ \E combo \in ToSet(Combos) :
                                f = Part(combo) /\ raw'[f].of = PartPoints(combo, args.threads)
<1>1. pos <= Len(work) /\ Item.kind # "merge"
  BY DEF ThreeInv, ThreeControl, ThreeBusy
<1>2. Item \in ToSet(work) /\ ThreeItem(Item)
  BY <1>1, ThreeAtHand
<1>3. DOMAIN raw \subseteq DOMAIN raw' /\ \A f \in DOMAIN raw' :
            \/ f \in DOMAIN raw /\ raw'[f] = raw[f]
            \/ \E j \in DOMAIN Item.outs :
                Item.outs[j].file = f /\ raw'[f].by = sessions /\ raw'[f].of = Item.outs[j].points
  BY DEF Wrote
<1> SUFFICES ASSUME NEW f \in DOMAIN raw', NEW j \in DOMAIN Item.outs,
                    Item.outs[j].file = f, raw'[f].by = sessions, raw'[f].of = Item.outs[j].points
             PROVE  /\ stage = "sweeps"
                    /\ \/ /\ Item.cpus = <<>> /\ raw'[f].of = PointsOf(args.threads)
                          /\ \E l \in Targets \ {ACCORDIN_TASKSET_LOCK} : f = LockFile(l)
                       \/ /\ f = Item.name /\ f \notin DOMAIN raw
                          /\ \E combo \in ToSet(Combos) :
                                f = Part(combo) /\ raw'[f].of = PartPoints(combo, args.threads)
  BY <1>3
<1>4. Item.kind = "sweep"
  <2>1. Item.kind # "sweep" => Item.outs = <<>> \/ \E combo \in ToSet(Combos) : PartItem(Item, combo)
    BY <1>2 DEF ThreeItem, LockItem
  <2>2. DOMAIN <<>> = {}
    OBVIOUS
  <2>3. QED
    BY <2>1, <2>2 DEF PartItem
<1>5. stage = "sweeps"
  BY <1>2, <1>4 DEF ThreeInv, ThreeControl
<1>6. CASE LockItem(Item)
  BY <1>5, <1>6 DEF LockItem
<1>7. ASSUME NEW combo \in ToSet(Combos), PartItem(Item, combo)
      PROVE  f = Item.name /\ f \notin DOMAIN raw /\ f = Part(combo) /\ raw'[f].of = PartPoints(combo, args.threads)
  <2>1. j = 1 /\ f = Part(combo) /\ Item.name = Part(combo) /\ raw'[f].of = PartPoints(combo, args.threads)
    BY <1>7 DEF PartItem
  <2>2. Item.cpus # <<>>
    <3>1. combo \in (Nat \ {0}) \X Nat
      BY ThreeLinesAssumption, SeqFacts
    <3>2. cpu_list_for_threads(taskset_target_cpu_count(combo)) # <<>>
      BY <3>1, CpusOfRatio, CpuList
    <3>3. QED
      BY <1>7, <3>2 DEF PartItem
  <2>3. Item.name \notin DOMAIN raw
    BY <2>2 DEF ThreeInv, ThreeFiles
  <2>4. QED
    BY <2>1, <2>3
<1>8. QED
  BY <1>2, <1>5, <1>6, <1>7 DEF ThreeItem

\* A part that a session left incomplete is removed.
LEMMA ThreeRemoves ==
  ASSUME ThreeInv, RemovePart
  PROVE  ThreeInv'
<1>1. /\ pc = "next" /\ pos <= Len(work) /\ Item.cpus # <<>> /\ ~taskset_part_is_complete(Item.name)
      /\ raw' = [f \in DOMAIN raw \ {Item.name} |-> raw[f]]
      /\ UNCHANGED <<pc, args, stage, work, pos, failures, status, failed, sessions>>
  BY DEF RemovePart, IsPart, memory, bounds
<1>2. Item \in ToSet(work) /\ ThreeItem(Item) /\ pos \in DOMAIN work
  BY <1>1, ThreeAtHand
<1>3. PICK combo \in ToSet(Combos) : Item.name = Part(combo) /\ Item.kind = "sweep"
  BY <1>1, <1>2 DEF ThreeItem, LockItem, PartItem
<1>4. stage = "sweeps"
  BY <1>1, <1>2, <1>3 DEF ThreeInv, ThreeControl
<1>5. DOMAIN raw' = DOMAIN raw \ {Item.name} /\ \A f \in DOMAIN raw' : raw'[f] = raw[f]
  BY <1>1
<1>6. /\ \A l : LockFile(l) \in DOMAIN raw' <=> LockFile(l) \in DOMAIN raw
      /\ \A l : LockFile(l) \in DOMAIN raw => raw'[LockFile(l)] = raw[LockFile(l)]
  BY <1>3, <1>5, FileNames
<1>7. Targets' = Targets /\ \A c : ThreeItem(c)' <=> ThreeItem(c)
  BY <1>1, ThreeSame
<1>8. ThreeControl'
  BY <1>1, <1>5, <1>7 DEF ThreeInv, ThreeControl, ThreeBusy, PartsFirst, Covered, Item
<1>9. ThreeFiles'
  <2>1. \A l, t : lock_is_complete(l, t) => lock_is_complete(l, t)'
    BY <1>6 DEF lock_is_complete
  <2>2. ASSUME NEW l \in ToSet(args.locks) \ Targets
        PROVE  lock_is_complete(l, args.threads)' /\ raw'[LockFile(l)].by # sessions
    <3>1. lock_is_complete(l, args.threads) /\ raw[LockFile(l)].by # sessions
      BY <1>1 DEF ThreeInv, ThreeFiles
    <3>2. LockFile(l) \in DOMAIN raw /\ lock_is_complete(l, args.threads)'
      BY <1>1, <2>1, <3>1 DEF lock_is_complete
    <3>3. QED
      BY <1>6, <3>1, <3>2
  <2>3. \A l \in Targets : LockFile(l) \in DOMAIN raw' => raw'[LockFile(l)].by = sessions
    BY <1>1, <1>4, <1>6 DEF ThreeInv, ThreeFiles
  <2>4. QED
    BY <1>1, <1>4, <1>7, <2>2, <2>3 DEF ThreeFiles
<1>10. ThreeParts'
  <2>1. ASSUME NEW i \in 1..pos - 1
        PROVE  ItemDone(work[i])'
    <3>1. ItemDone(work[i])
      BY <1>1, <1>4 DEF ThreeInv, ThreeParts
    <3>2. i \in DOMAIN work /\ ThreeItem(work[i]) /\ i <= pos
      BY <1>1, ThreeAtHand
    <3>3. work[i].kind # "merge"
      BY <1>1, <1>3, <1>4, <3>2, PartsBeforeMerge
    <3>4. work[i].cpus # <<>> => taskset_part_is_complete(work[i].name)'
      <4>1. SUFFICES ASSUME work[i].cpus # <<>>
                     PROVE  taskset_part_is_complete(work[i].name)'
        OBVIOUS
      <4>2. taskset_part_is_complete(work[i].name)
        BY <3>1, <4>1 DEF ItemDone
      <4>3. work[i].name # Item.name
        BY <1>1, <4>2
      <4>4. QED
        BY <1>1, <1>5, <4>2, <4>3 DEF taskset_part_is_complete
    <3>5. work[i].cpus = <<>> => \A j \in DOMAIN work[i].outs :
            work[i].outs[j].file \in DOMAIN raw' /\ raw'[work[i].outs[j].file].of = PointsOf(args.threads)
      <4>1. SUFFICES ASSUME work[i].cpus = <<>>, NEW j \in DOMAIN work[i].outs
                     PROVE  work[i].outs[j].file \in DOMAIN raw' /\ raw'[work[i].outs[j].file].of = PointsOf(args.threads)
        OBVIOUS
      <4>2. work[i].outs[j].file \in DOMAIN raw /\ raw[work[i].outs[j].file].of = PointsOf(args.threads)
        BY <3>1, <4>1 DEF ItemDone
      <4>3. LockItem(work[i])
        <5>1. \A c \in ToSet(Combos) : cpu_list_for_threads(taskset_target_cpu_count(c)) # <<>>
          BY ThreeLinesAssumption, SeqFacts, CpusOfRatio, CpuList
        <5>2. QED
          BY <3>2, <4>1, <5>1 DEF ThreeItem, PartItem
      <4>4. PICK l \in Targets : work[i].outs[j].file = LockFile(l)
        BY <4>3 DEF LockItem
      <4>5. QED
        BY <1>6, <4>2, <4>4
    <3>6. QED
      BY <1>1, <3>3, <3>4, <3>5 DEF ItemDone
  <2>2. ASSUME NEW c \in ToSet(Combos), Part(c) \in DOMAIN raw', raw'[Part(c)].by = sessions
        PROVE  raw'[Part(c)].of = PartPoints(c, args.threads) /\ raw'[Part(c)].n = Len(raw'[Part(c)].of)
    BY <1>1, <1>4, <1>5, <2>2 DEF ThreeInv, ThreeParts
  <2>3. QED
    BY <1>1, <1>4, <2>1, <2>2 DEF ThreeParts, PartPoints
<1>11. ThreeOutcome'
  BY <1>1 DEF ThreeInv, ThreeControl, ThreeOutcome
<1>12. QED
  BY <1>8, <1>9, <1>10, <1>11 DEF ThreeInv

\* Parts are bound to CPUs, and to one at least.
LEMMA PartCpus ==
  \A combo \in ToSet(Combos) : cpu_list_for_threads(taskset_target_cpu_count(combo)) # <<>>
BY ThreeLinesAssumption, SeqFacts, CpusOfRatio, CpuList

\* What has been done stays, where the files it has written stay.
LEMMA ItemKept ==
  ASSUME UNCHANGED args,
         \A combo \in ToSet(Combos) :
            taskset_part_is_complete(Part(combo)) => taskset_part_is_complete(Part(combo))',
         \A l \in Targets \ {ACCORDIN_TASKSET_LOCK} :
            LockFile(l) \in DOMAIN raw /\ raw[LockFile(l)].of = PointsOf(args.threads)
            => LockFile(l) \in DOMAIN raw' /\ raw'[LockFile(l)].of = PointsOf(args.threads),
         NEW c, ThreeItem(c), ItemDone(c),
         c.kind = "merge" /\ pc' # "merge" => LockDone(ACCORDIN_TASKSET_LOCK)'
  PROVE  ItemDone(c)'
<1>1. c.cpus # <<>> => taskset_part_is_complete(c.name)'
  BY DEF ItemDone, ThreeItem, LockItem, PartItem
<1>2. ASSUME c.cpus = <<>>, NEW j \in DOMAIN c.outs
      PROVE  c.outs[j].file \in DOMAIN raw' /\ raw'[c.outs[j].file].of = PointsOf(args.threads)
  <2>1. c.outs[j].file \in DOMAIN raw /\ raw[c.outs[j].file].of = PointsOf(args.threads)
    BY <1>2 DEF ItemDone
  <2>2. LockItem(c)
    BY <1>2, PartCpus DEF ThreeItem, PartItem
  <2>3. PICK l \in Targets \ {ACCORDIN_TASKSET_LOCK} : c.outs[j].file = LockFile(l)
    BY <2>2 DEF LockItem
  <2>4. QED
    BY <2>1, <2>3
<1>3. QED
  BY <1>1, <1>2 DEF ItemDone

\* The results of the parts are about to be merged.
LEMMA ThreeOpens ==
  ASSUME ThreeInv, OpenMerge
  PROVE  ThreeInv'
<1> DEFINE M == LockFile(ACCORDIN_TASKSET_LOCK)
           v == [by |-> sessions, of |-> <<>>, n |-> 0, summed |-> FALSE]
<1>1. /\ pc = "next" /\ pos <= Len(work) /\ Item.kind = "merge" /\ pc' = "merge"
      /\ raw' = With(raw, Item.name, v)
      /\ UNCHANGED <<args, stage, work, pos, failures, status, failed, sessions>>
  BY DEF OpenMerge, bounds
<1>2. Item \in ToSet(work) /\ ThreeItem(Item) /\ pos \in DOMAIN work
  BY <1>1, ThreeAtHand
<1>3. Item.name = M /\ ACCORDIN_TASKSET_LOCK \in Targets /\ Item.cpus = <<>>
  BY <1>1, <1>2 DEF ThreeItem, LockItem, PartItem
<1>4. stage = "sweeps" /\ sessions \in Nat
  BY <1>1, <1>2 DEF ThreeInv, ThreeControl
<1>5. v.by = sessions
  OBVIOUS
<1>6. /\ DOMAIN raw' = DOMAIN raw \cup {M} /\ raw'[M] = v
      /\ \A f \in DOMAIN raw' : f # M => f \in DOMAIN raw /\ raw'[f] = raw[f]
  BY <1>1, <1>3 DEF With
<1>7. /\ \A c : Part(c) # M /\ \A l : l # ACCORDIN_TASKSET_LOCK => LockFile(l) # M
  BY FileNames
<1> HIDE DEF M, v
<1>8. Targets' = Targets /\ \A c : ThreeItem(c)' <=> ThreeItem(c)
  BY <1>1, ThreeSame
<1>9. ThreeControl'
  <2>1. \A f \in DOMAIN raw' : raw'[f].by \in Nat /\ raw'[f].by <= sessions
    BY <1>1, <1>4, <1>5, <1>6 DEF ThreeInv, ThreeControl
  <2>2. Item' = Item
    BY <1>1 DEF Item
  <2>3. QED
    BY <1>1, <1>8, <2>1, <2>2 DEF ThreeInv, ThreeControl, ThreeBusy, PartsFirst, Covered
<1>10. ThreeFiles'
  <2>1. ASSUME NEW l \in ToSet(args.locks) \ Targets
        PROVE  lock_is_complete(l, args.threads)' /\ raw'[LockFile(l)].by # sessions
    <3>1. lock_is_complete(l, args.threads) /\ raw[LockFile(l)].by # sessions
      BY <1>1 DEF ThreeInv, ThreeFiles
    <3>2. LockFile(l) \in DOMAIN raw' /\ raw'[LockFile(l)] = raw[LockFile(l)]
      BY <1>3, <1>6, <1>7, <3>1 DEF lock_is_complete
    <3>3. QED
      BY <1>1, <3>1, <3>2 DEF lock_is_complete
  <2>2. \A l \in Targets : LockFile(l) \in DOMAIN raw' => raw'[LockFile(l)].by = sessions
    BY <1>1, <1>4, <1>5, <1>6 DEF ThreeInv, ThreeFiles
  <2>3. Item'.name \in DOMAIN raw' /\ raw'[Item'.name] = [by |-> sessions', of |-> <<>>, n |-> 0, summed |-> FALSE]
    BY <1>1, <1>3, <1>6 DEF Item, v
  <2>4. QED
    BY <1>1, <1>4, <1>8, <2>1, <2>2, <2>3 DEF ThreeFiles
<1>11. ThreeParts'
  <2>1. ASSUME NEW i \in 1..pos - 1
        PROVE  ItemDone(work[i])'
    <3>1. ItemDone(work[i])
      BY <1>1, <1>4 DEF ThreeInv, ThreeParts
    <3>2. i \in DOMAIN work /\ ThreeItem(work[i])
      BY <1>1, ThreeAtHand
    <3>3. \A combo \in ToSet(Combos) :
            taskset_part_is_complete(Part(combo)) => taskset_part_is_complete(Part(combo))'
      BY <1>1, <1>6, <1>7 DEF taskset_part_is_complete
    <3>4. QED
      BY <1>1, <1>6, <1>7, <3>1, <3>2, <3>3, ItemKept
  <2>2. QED
    BY <1>1, <1>6, <1>7, <2>1 DEF ThreeInv, ThreeParts, PartPoints
<1>12. ThreeOutcome'
  BY <1>1 DEF ThreeInv, ThreeControl, ThreeOutcome
<1>13. QED
  BY <1>9, <1>10, <1>11, <1>12 DEF ThreeInv

\* The parts of this session have the points of the matrix, in its order.
LEMMA MergeOfParts ==
  ASSUME NEW threads \in Seq(Nat),
         \A combo \in ToSet(Combos) :
            raw[Part(combo)].of = PartPoints(combo, threads) /\ raw[Part(combo)].n = Len(raw[Part(combo)].of)
  PROVE  MergedPoints = PointsOf(threads)
<1> DEFINE F(c) == SubSeq(raw[Part(c)].of, 1, raw[Part(c)].n)
<1>1. ASSUME NEW c \in ToSet(Combos)
      PROVE  F(c) = PartPoints(c, threads)
  <2> DEFINE p == PartPoints(c, threads)
  <2>1. IsSeq(p) /\ F(c) = SubSeq(p, 1, Len(p))
    BY MatrixFacts
  <2> HIDE DEF p, F
  <2>2. SubSeq(p, 1, Len(p)) = p
    BY <2>1 DEF IsSeq
  <2>3. QED
    BY <2>1, <2>2 DEF p
<1>2. MergedPoints = FlattenSeq([i \in DOMAIN Combos |-> F(Combos[i])])
  BY DEF MergedPoints, ForEach
<1>3. \A i \in DOMAIN Combos : Combos[i] \in ToSet(Combos)
  BY DEF ToSet
<1> HIDE DEF F
<1>4. [i \in DOMAIN Combos |-> F(Combos[i])] = [i \in DOMAIN Combos |-> PartPoints(Combos[i], threads)]
  BY <1>1, <1>3
<1>5. PointsOf(threads) = FlattenSeq([i \in DOMAIN Combos |-> PartPoints(Combos[i], threads)])
  BY MatrixFacts
<1>6. QED
  BY <1>2, <1>4, <1>5

\* The merge has the points of the matrix, or a part of an older session is behind it.
LEMMA ThreeMerges ==
  ASSUME ThreeInv, WriteMerge
  PROVE  ThreeInv'
<1> DEFINE M == LockFile(ACCORDIN_TASKSET_LOCK)
           m == MergedPoints
           k == Len(MergedPoints)
<1>1. /\ pc = "merge" /\ pc' = "next" /\ pos' = pos + 1
      /\ raw' = [raw EXCEPT ![Item.name] = [@ EXCEPT !.of = m, !.n = k, !.summed = TRUE]]
      /\ UNCHANGED <<args, stage, work, failures, status, failed, sessions>>
  BY DEF WriteMerge, bounds
<1>2. pos <= Len(work) /\ Item.kind = "merge" /\ status = "running" /\ args.threads \in Seq(Nat) /\ sessions \in Nat
  BY <1>1 DEF ThreeInv, ThreeControl
<1>3. /\ Item \in ToSet(work) /\ ThreeItem(Item) /\ pos \in DOMAIN work
      /\ pos + 1 \in 1..Len(work) + 1 /\ (pos + 1) - 1 = pos /\ pos \in 1..Len(work) + 1
      /\ \A i \in 1..pos : i \in 1..pos - 1 \/ i = pos
  BY <1>1, <1>2, ThreeAtHand
<1>4. Item.name = M /\ ACCORDIN_TASKSET_LOCK \in Targets /\ Item.cpus = <<>> /\ Item.outs = <<>>
  BY <1>2, <1>3 DEF ThreeItem, LockItem, PartItem
<1>5. stage = "sweeps"
  BY <1>1, <1>2, <1>3 DEF ThreeInv, ThreeControl
<1> HIDE DEF m, k
<1>6. /\ DOMAIN raw' = DOMAIN raw /\ M \in DOMAIN raw /\ raw'[M].by = sessions /\ raw'[M].of = m
      /\ \A f \in DOMAIN raw : f # M => raw'[f] = raw[f]
  <2>1. M \in DOMAIN raw /\ raw[M] = [by |-> sessions, of |-> <<>>, n |-> 0, summed |-> FALSE]
    BY <1>1, <1>4 DEF ThreeInv, ThreeFiles
  <2> HIDE DEF M
  <2> DEFINE w == [raw[M] EXCEPT !.of = m, !.n = k, !.summed = TRUE]
  <2>2. raw' = [raw EXCEPT ![M] = w]
    BY <1>1, <1>4
  <2>3. w.by = sessions /\ w.of = m
    BY <2>1
  <2> HIDE DEF w
  <2>4. QED
    BY <2>1, <2>2, <2>3
<1>7. /\ \A c : Part(c) # M /\ \A l : l # ACCORDIN_TASKSET_LOCK => LockFile(l) # M
  BY FileNames
<1>8. Targets' = Targets /\ \A c : ThreeItem(c)' <=> ThreeItem(c)
  BY <1>1, ThreeSame
<1>9. LockDone(ACCORDIN_TASKSET_LOCK)'
  <2>1. \A combo \in ToSet(Combos) : taskset_part_is_complete(Part(combo))
    BY <1>1, <1>2, <1>3, <1>5, PartsBeforeMerge DEF Item
  <2>2. \A combo \in ToSet(Combos) : Part(combo) \in DOMAIN raw
    BY <2>1 DEF taskset_part_is_complete
  <2>3. CASE \E combo \in ToSet(Combos) : raw[Part(combo)].by # sessions
    <3>1. PICK combo \in ToSet(Combos) : raw[Part(combo)].by # sessions
      BY <2>3
    <3>2. Part(combo) \in DOMAIN raw' /\ raw'[Part(combo)].by # sessions
      BY <1>6, <1>7, <2>2, <3>1
    <3>3. Part(combo) \in FilesOf(ACCORDIN_TASKSET_LOCK)
      BY DEF FilesOf
    <3>4. QED
      BY <1>1, <1>6, <3>2, <3>3 DEF LockDone
  <2>4. CASE \A combo \in ToSet(Combos) : raw[Part(combo)].by = sessions
    <3>1. \A combo \in ToSet(Combos) :
            raw[Part(combo)].of = PartPoints(combo, args.threads) /\ raw[Part(combo)].n = Len(raw[Part(combo)].of)
      BY <1>1, <1>5, <2>2, <2>4 DEF ThreeInv, ThreeParts
    <3>2. m = PointsOf(args.threads)
      BY <1>2, <3>1, MergeOfParts DEF m
    <3>3. QED
      BY <1>1, <1>6, <3>2 DEF LockDone
  <2>5. QED
    BY <2>3, <2>4
<1> HIDE DEF M
<1>10. ThreeControl'
  <2>1. \A f \in DOMAIN raw' : raw'[f].by \in Nat /\ raw'[f].by <= sessions
    BY <1>1, <1>2, <1>6 DEF ThreeInv, ThreeControl
  <2>2. QED
    BY <1>1, <1>3, <1>8, <2>1 DEF ThreeInv, ThreeControl, ThreeBusy, PartsFirst, Covered
<1>11. ThreeFiles'
  <2>1. ASSUME NEW l \in ToSet(args.locks) \ Targets
        PROVE  lock_is_complete(l, args.threads)' /\ raw'[LockFile(l)].by # sessions
    <3>1. lock_is_complete(l, args.threads) /\ raw[LockFile(l)].by # sessions
      BY <1>1 DEF ThreeInv, ThreeFiles
    <3>2. LockFile(l) \in DOMAIN raw' /\ raw'[LockFile(l)] = raw[LockFile(l)]
      BY <1>4, <1>6, <1>7, <3>1 DEF lock_is_complete
    <3>3. QED
      BY <1>1, <3>1, <3>2 DEF lock_is_complete
  <2>2. \A l \in Targets : LockFile(l) \in DOMAIN raw' => raw'[LockFile(l)].by = sessions
    BY <1>1, <1>5, <1>6 DEF ThreeInv, ThreeFiles
  <2>3. QED
    BY <1>1, <1>5, <1>8, <2>1, <2>2 DEF ThreeFiles
<1>12. ThreeParts'
  <2>1. ASSUME NEW i \in 1..pos - 1
        PROVE  ItemDone(work[i])'
    <3>1. ItemDone(work[i])
      BY <1>1, <1>5 DEF ThreeInv, ThreeParts
    <3>2. i \in DOMAIN work /\ ThreeItem(work[i])
      BY <1>1, ThreeAtHand
    <3>3. \A combo \in ToSet(Combos) :
            taskset_part_is_complete(Part(combo)) => taskset_part_is_complete(Part(combo))'
      BY <1>1, <1>6, <1>7 DEF taskset_part_is_complete
    <3>4. QED
      BY <1>1, <1>6, <1>7, <1>9, <3>1, <3>2, <3>3, ItemKept
  <2>2. \A i : i = pos => ItemDone(work[i])'
    <3>1. DOMAIN <<>> = {}
      OBVIOUS
    <3>2. \A i : i = pos => work'[i] = Item
      BY <1>1 DEF Item
    <3>3. \A c : c = Item => ItemDone(c)'
      BY <1>4, <1>9, <3>1 DEF ItemDone
    <3>4. QED
      BY <3>2, <3>3
  <2>3. ASSUME NEW c \in ToSet(Combos), Part(c) \in DOMAIN raw', raw'[Part(c)].by = sessions
        PROVE  raw'[Part(c)].of = PartPoints(c, args.threads) /\ raw'[Part(c)].n = Len(raw'[Part(c)].of)
    BY <1>1, <1>5, <1>6, <1>7, <2>3 DEF ThreeInv, ThreeParts
  <2>4. pos' - 1 = pos /\ pc' \notin {"dump_ok", "ended"}
    BY <1>1, <1>3
  <2>5. \A i \in 1..pos : ItemDone(work[i])'
    BY <1>3, <2>1, <2>2
  <2>6. QED
    BY <1>1, <1>5, <2>3, <2>4, <2>5 DEF ThreeParts, PartPoints
<1>13. ThreeOutcome'
  BY <1>1, <1>2 DEF ThreeOutcome
<1>14. QED
  BY <1>10, <1>11, <1>12, <1>13 DEF ThreeInv

\* A command ends: a part is written only where none was, so those before it stay complete.
LEMMA ThreeCommandEnds ==
  ASSUME ThreeInv, NEW ok \in BOOLEAN, EndCommand(ok)
  PROVE  ThreeInv'
<1> USE DEF ThreeBusy
<1>1. /\ pc = "running" /\ pc' = IF ok THEN "dump_ok" ELSE "dump_bad"
      /\ ~ok => WrittenInPart
      /\ UNCHANGED <<args, stage, work, pos, failures, status, failed, sessions>>
  BY DEF EndCommand
<1>2. /\ pos <= Len(work) /\ Item.kind # "merge" /\ status = "running" /\ args.threads \in Seq(Nat) /\ sessions \in Nat
      /\ stage \in {"builds", "sweeps"}
  BY <1>1 DEF ThreeInv, ThreeControl
<1>3. Item \in ToSet(work) /\ ThreeItem(Item) /\ pos \in DOMAIN work /\ \A i \in 1..pos : i \in 1..pos - 1 \/ i = pos
  BY <1>1, <1>2, ThreeAtHand
<1>4. Wrote(FALSE) /\ (ok => Wrote(TRUE))
  <2>1. IsSeq(Item.outs)
    BY <1>3 DEF ThreeItem
  <2>2. ok => EndCommand(TRUE)
    OBVIOUS
  <2>3. ok => Wrote(TRUE)
    BY <2>1, <2>2, CommandWrites
  <2>4. ~ok => Wrote(FALSE)
    BY <1>1, <2>1, CommandWrites
  <2>5. Wrote(TRUE) => Wrote(FALSE)
    BY DEF Wrote
  <2>6. QED
    BY <2>3, <2>4, <2>5
<1> DEFINE P(f) == f = Item.name /\ f \notin DOMAIN raw /\ \E combo \in ToSet(Combos) :
                                f = Part(combo) /\ raw'[f].of = PartPoints(combo, args.threads)
           L(f) == raw'[f].of = PointsOf(args.threads) /\ \E l \in Targets \ {ACCORDIN_TASKSET_LOCK} : f = LockFile(l)
<1>5. /\ DOMAIN raw \subseteq DOMAIN raw'
      /\ \A f \in DOMAIN raw' : \/ f \in DOMAIN raw /\ raw'[f] = raw[f]
                                \/ stage = "sweeps" /\ raw'[f].by = sessions /\ (L(f) \/ P(f))
  BY <1>1, <1>4, ThreeWrote
<1>6. ASSUME NEW combo \in ToSet(Combos), Part(combo) \in DOMAIN raw'
      PROVE  \/ Part(combo) \in DOMAIN raw /\ raw'[Part(combo)] = raw[Part(combo)]
             \/ /\ Part(combo) = Item.name /\ Part(combo) \notin DOMAIN raw
                /\ raw'[Part(combo)].by = sessions /\ raw'[Part(combo)].of = PartPoints(combo, args.threads)
  BY <1>5, <1>6, FileNames
<1>7. ASSUME NEW l, LockFile(l) \in DOMAIN raw'
      PROVE  \/ LockFile(l) \in DOMAIN raw /\ raw'[LockFile(l)] = raw[LockFile(l)]
             \/ /\ stage = "sweeps" /\ l \in Targets \ {ACCORDIN_TASKSET_LOCK}
                /\ raw'[LockFile(l)].by = sessions /\ raw'[LockFile(l)].of = PointsOf(args.threads)
  BY <1>5, <1>7, FileNames
<1>8. \A f \in DOMAIN raw' : raw'[f].by \in Nat /\ raw'[f].by <= sessions
  BY <1>2, <1>5 DEF ThreeInv, ThreeControl
<1>9. stage = "builds" => \A f \in DOMAIN raw' : raw'[f].by # sessions
  BY <1>1, <1>5 DEF ThreeInv, ThreeFiles
<1>10. DOMAIN raw \subseteq DOMAIN raw'
  BY <1>5
<1> HIDE DEF P, L
<1>11. Targets' = Targets /\ \A c : ThreeItem(c)' <=> ThreeItem(c)
  BY <1>1, ThreeSame
<1>12. ThreeControl'
  <2>1. Item' = Item
    BY <1>1 DEF Item
  <2>2. QED
    BY <1>1, <1>2, <1>8, <1>11, <2>1 DEF ThreeInv, ThreeControl, PartsFirst, Covered
<1>13. ThreeFiles'
  <2>1. ASSUME NEW l \in ToSet(args.locks) \ Targets
        PROVE  lock_is_complete(l, args.threads)' /\ raw'[LockFile(l)].by # sessions
    <3>1. lock_is_complete(l, args.threads) /\ raw[LockFile(l)].by # sessions
      BY <1>1 DEF ThreeInv, ThreeFiles
    <3>2. LockFile(l) \in DOMAIN raw' /\ raw'[LockFile(l)] = raw[LockFile(l)]
      BY <1>7, <1>10, <3>1 DEF lock_is_complete
    <3>3. QED
      BY <1>1, <3>1, <3>2 DEF lock_is_complete
  <2>2. stage = "sweeps" => \A l \in Targets : LockFile(l) \in DOMAIN raw' => raw'[LockFile(l)].by = sessions
    BY <1>1, <1>7 DEF ThreeInv, ThreeFiles
  <2>3. QED
    BY <1>1, <1>9, <1>11, <2>1, <2>2 DEF ThreeFiles
<1>14. ASSUME ok, stage = "sweeps"
       PROVE  ThreeParts'
  <2>1. Wrote(TRUE)
    BY <1>4, <1>14
  <2>2. \A combo \in ToSet(Combos) :
            taskset_part_is_complete(Part(combo)) => taskset_part_is_complete(Part(combo))'
    <3> SUFFICES ASSUME NEW combo \in ToSet(Combos), taskset_part_is_complete(Part(combo))
                 PROVE  taskset_part_is_complete(Part(combo))'
      OBVIOUS
    <3>1. Part(combo) \in DOMAIN raw' /\ raw'[Part(combo)] = raw[Part(combo)]
      BY <1>6, <1>10 DEF taskset_part_is_complete
    <3>2. QED
      BY <1>1, <3>1 DEF taskset_part_is_complete
  <2>3. \A l \in Targets \ {ACCORDIN_TASKSET_LOCK} :
            LockFile(l) \in DOMAIN raw /\ raw[LockFile(l)].of = PointsOf(args.threads)
            => LockFile(l) \in DOMAIN raw' /\ raw'[LockFile(l)].of = PointsOf(args.threads)
    BY <1>7, <1>10
  <2>4. LockDone(ACCORDIN_TASKSET_LOCK) => LockDone(ACCORDIN_TASKSET_LOCK)'
    <3> DEFINE M == LockFile(ACCORDIN_TASKSET_LOCK)
    <3> SUFFICES ASSUME LockDone(ACCORDIN_TASKSET_LOCK)
                 PROVE  LockDone(ACCORDIN_TASKSET_LOCK)'
      OBVIOUS
    <3>1. M \in DOMAIN raw' /\ raw'[M] = raw[M]
      BY <1>7, <1>10 DEF LockDone
    <3>2. ASSUME NEW g \in FilesOf(ACCORDIN_TASKSET_LOCK) \cap DOMAIN raw
          PROVE  g \in DOMAIN raw' /\ raw'[g] = raw[g]
      <4>1. g = M \/ \E combo \in ToSet(Combos) : g = Part(combo)
        BY DEF FilesOf
      <4>2. QED
        BY <1>6, <1>10, <3>1, <4>1
    <3>3. QED
      BY <1>1, <3>1, <3>2 DEF LockDone
  <2>5. ASSUME NEW i \in 1..pos - 1
        PROVE  ItemDone(work[i])'
    <3>1. ItemDone(work[i])
      BY <1>1, <1>14 DEF ThreeInv, ThreeParts
    <3>2. i \in DOMAIN work /\ ThreeItem(work[i])
      BY <1>1, ThreeAtHand
    <3>3. work[i].kind = "merge" => LockDone(ACCORDIN_TASKSET_LOCK)'
      BY <1>1, <2>4, <3>1 DEF ItemDone
    <3>4. QED
      BY <1>1, <2>2, <2>3, <3>1, <3>2, <3>3, ItemKept
  <2>6. \A c : c = Item => ItemDone(c)'
    <3>1. ASSUME Item.cpus # <<>>
          PROVE  \A p : p = Item.name => taskset_part_is_complete(p)'
      <4>1. PICK combo \in ToSet(Combos) : PartItem(Item, combo)
        BY <1>3, <3>1 DEF ThreeItem, LockItem
      <4> DEFINE f == Part(combo)
      <4>2. /\ Item.name = f /\ 1 \in DOMAIN Item.outs /\ Item.outs[1].file = f
            /\ \A i \in DOMAIN Item.outs : Item.outs[i].points = PartPoints(combo, args.threads)
        BY <4>1 DEF PartItem
      <4> HIDE DEF f
      <4>3. f \in DOMAIN raw' /\ raw'[f].of = PartPoints(combo, args.threads)
            /\ raw'[f].n = Len(raw'[f].of) /\ raw'[f].summed
        BY <2>1, <4>2 DEF Wrote
      <4>4. Len(PartPoints(combo, args.threads)) = Len(args.threads) * Repeats
        BY <1>2, MatrixFacts
      <4>5. QED
        BY <1>1, <4>2, <4>3, <4>4 DEF taskset_part_is_complete
    <3>2. ASSUME Item.cpus = <<>>, NEW j \in DOMAIN Item.outs
          PROVE  \A f : f = Item.outs[j].file => f \in DOMAIN raw' /\ raw'[f].of = PointsOf(args.threads)
      <4>1. LockItem(Item)
        BY <1>3, <3>2, PartCpus DEF ThreeItem, PartItem
      <4>2. \A i \in DOMAIN Item.outs : Item.outs[i].points = PointsOf(args.threads)
        BY <4>1 DEF LockItem
      <4>3. QED
        BY <2>1, <3>2, <4>2 DEF Wrote
    <3> SUFFICES ASSUME NEW c, c = Item
                 PROVE  ItemDone(c)'
      OBVIOUS
    <3>3. c.cpus # <<>> => taskset_part_is_complete(c.name)'
      BY <3>1
    <3>4. c.cpus = <<>> => \A j \in DOMAIN c.outs :
            c.outs[j].file \in DOMAIN raw' /\ raw'[c.outs[j].file].of = PointsOf(args.threads)
      BY <3>2
    <3>5. QED
      BY <1>1, <1>2, <3>3, <3>4 DEF ItemDone
  <2>7. \A i \in 1..pos : ItemDone(work[i])'
    <3>1. \A i : i = pos => work'[i] = Item
      BY <1>1 DEF Item
    <3>2. \A i : i = pos => ItemDone(work[i])'
      BY <2>6, <3>1
    <3>3. QED
      BY <1>3, <2>5, <3>2
  <2>8. ASSUME NEW c \in ToSet(Combos), Part(c) \in DOMAIN raw', raw'[Part(c)].by = sessions
        PROVE  raw'[Part(c)].of = PartPoints(c, args.threads) /\ raw'[Part(c)].n = Len(raw'[Part(c)].of)
    <3>1. CASE Part(c) \in DOMAIN raw /\ raw'[Part(c)] = raw[Part(c)]
      BY <1>1, <1>14, <2>8, <3>1 DEF ThreeInv, ThreeParts
    <3>2. CASE Part(c) \notin DOMAIN raw /\ raw'[Part(c)].of = PartPoints(c, args.threads)
      BY <2>1, <2>8, <3>2 DEF Wrote
    <3>3. QED
      BY <1>6, <2>8, <3>1, <3>2
  <2>9. QED
    BY <1>1, <1>14, <2>7, <2>8 DEF ThreeParts, PartPoints
<1>15. ThreeParts'
  BY <1>1, <1>2, <1>14 DEF ThreeParts
<1>16. ThreeOutcome'
  BY <1>1, <1>2 DEF ThreeOutcome
<1>17. QED
  BY <1>12, <1>13, <1>15, <1>16 DEF ThreeInv

\* The locks asked for are complete, and the session ends with 0.
LEMMA ThreeChecked ==
  ASSUME ThreeInv, Checked
  PROVE  ThreeInv'
<1>1. /\ stage = "sweeps" /\ pc = "next" /\ pos > Len(work) /\ UNCHANGED <<args, raw, failed, sessions>>
      /\ Exit(IF incomplete_or_missing_locks(args.targets, args.threads) = <<>> THEN "ok" ELSE "incomplete")
  BY DEF Checked, Over, files, bounds
<1>2. /\ args.locks \in Seq(THREE_LOCK_KEYS) /\ args.threads \in Seq(Nat) /\ IsSeq(args.targets)
      /\ sessions \in Nat /\ failures = {} /\ failed = {}
      /\ \A f \in DOMAIN raw : raw[f].by \in Nat /\ raw[f].by <= sessions
  BY <1>1 DEF ThreeInv, ThreeControl
<1>3. pc' = "off" /\ failures' = {}
  BY <1>1 DEF Exit
<1>4. CASE incomplete_or_missing_locks(args.targets, args.threads) # <<>>
  <2>1. status' # "ok"
    BY <1>1, <1>4 DEF Exit
  <2>2. QED
    BY <1>1, <1>2, <1>3, <2>1, ThreeExit
<1>5. CASE incomplete_or_missing_locks(args.targets, args.threads) = <<>>
  <2>1. status' = "ok"
    BY <1>1, <1>5 DEF Exit
  <2>2. \A l \in Targets : lock_is_complete(l, args.threads)
    <3> DEFINE S == {l \in ToSet(args.targets) : ~lock_is_complete(l, args.threads)}
    <3>1. Among(args.targets, S) = <<>>
      BY <1>5 DEF incomplete_or_missing_locks
    <3>2. args.targets \in Seq(Targets)
      BY <1>2 DEF IsSeq, Targets
    <3> HIDE DEF S
    <3>3. Targets \cap S = {}
      BY <3>1, <3>2, AmongFacts, GoodEmpty DEF Targets
    <3>4. QED
      BY <3>3 DEF S, Targets
  <2>3. \A i \in DOMAIN work : ItemDone(work[i])
    <3>1. pos - 1 = Len(work) /\ DOMAIN work = 1..Len(work)
      BY <1>1, ThreeAtHand
    <3>2. QED
      BY <1>1, <3>1 DEF ThreeInv, ThreeParts
  <2>4. ASSUME NEW l \in ToSet(args.locks)
        PROVE  /\ raw[LockFile(l)].n = Len(PointsOf(args.threads))
               /\ \/ raw[LockFile(l)].of = PointsOf(args.threads)
                  \/ \E g \in FilesOf(l) \cap DOMAIN raw : raw[g].by # sessions
    <3>1. lock_is_complete(l, args.threads) /\ (l \notin Targets => raw[LockFile(l)].by # sessions)
      BY <1>1, <2>2 DEF ThreeInv, ThreeFiles
    <3>2. LockFile(l) \in DOMAIN raw /\ raw[LockFile(l)].n = Len(PointsOf(args.threads)) /\ LockFile(l) \in FilesOf(l)
      BY <1>2, <3>1, MatrixFacts DEF lock_is_complete, FilesOf
    <3>3. CASE l \notin Targets
      BY <3>1, <3>2, <3>3
    <3>4. CASE l \in Targets
      <4>1. Covered(work, l)
        BY <1>1, <3>4 DEF ThreeInv, ThreeControl
      <4>2. CASE l = ACCORDIN_TASKSET_LOCK
        <5>1. PICK c \in ToSet(work) : c.kind = "merge"
          BY <4>1, <4>2 DEF Covered
        <5>2. PICK i \in DOMAIN work : work[i] = c
          BY DEF ToSet
        <5>3. LockDone(l)
          BY <1>1, <2>3, <4>2, <5>1, <5>2 DEF ItemDone
        <5>4. QED
          BY <3>2, <5>3 DEF LockDone
      <4>3. CASE l # ACCORDIN_TASKSET_LOCK
        <5>1. PICK c \in ToSet(work) : \E j \in DOMAIN c.outs : c.cpus = <<>> /\ c.outs[j].file = LockFile(l)
          BY <4>1, <4>3 DEF Covered
        <5>2. PICK i \in DOMAIN work : work[i] = c
          BY DEF ToSet
        <5>3. ItemDone(c)
          BY <2>3, <5>2
        <5>4. QED
          BY <3>2, <5>1, <5>3 DEF ItemDone
      <4>4. QED
        BY <4>2, <4>3
    <3>5. QED
      BY <3>3, <3>4
  <2>5. ThreeOutcome'
    BY <1>1, <1>3, <2>1, <2>4 DEF ThreeOutcome
  <2>6. ThreeControl' /\ ThreeFiles' /\ ThreeParts'
    BY <1>1, <1>2, <1>3 DEF ThreeControl, ThreeFiles, ThreeParts
  <2>7. QED
    BY <2>5, <2>6 DEF ThreeInv
<1>6. QED
  BY <1>4, <1>5

\* Every step of experiment three.
LEMMA ThreeKeeps ==
  ASSUME ThreeInv, ThreeStart \/ ThreeStep \/ Kill
  PROVE  ThreeInv'
<1>1. CASE Kill
  <2>1. /\ pc # "off" /\ pc' = "off" /\ status' = "killed" /\ failures' = {} /\ UNCHANGED <<failed, sessions>>
        /\ IF pc = "running" THEN WrittenInPart ELSE UNCHANGED raw
    BY <1>1 DEF Kill, Exit
  <2>2. \A f \in DOMAIN raw : raw[f].by \in Nat /\ raw[f].by <= sessions
    BY DEF ThreeInv, ThreeControl
  <2>3. \A f \in DOMAIN raw' : raw'[f].by \in Nat /\ raw'[f].by <= sessions
    <3>1. CASE pc = "running"
      <4>1. pos <= Len(work)
        BY <3>1 DEF ThreeInv, ThreeControl, ThreeBusy
      <4>2. IsSeq(Item.outs)
        BY <2>1, <4>1, ThreeAtHand DEF ThreeItem
      <4>3. Wrote(FALSE)
        BY <2>1, <3>1, <4>2, CommandWrites
      <4>4. sessions \in Nat /\ \A f \in DOMAIN raw' : (f \in DOMAIN raw /\ raw'[f] = raw[f]) \/ raw'[f].by = sessions
        BY <4>3 DEF Wrote, ThreeInv, ThreeControl
      <4>5. QED
        BY <2>2, <4>4
    <3>2. CASE pc # "running"
      BY <2>1, <2>2, <3>2
    <3>3. QED
      BY <3>1, <3>2
  <2>4. QED
    BY <2>1, <2>3, ThreeExit
<1>2. CASE Raise
  BY <1>2, ThreeExit DEF Raise, Exit, files, bounds, ThreeInv, ThreeControl
<1>3. QED
  BY <1>1, <1>2, ThreeStarts, ThreePrepares, ThreeMoves, ThreeRemoves, ThreeOpens, ThreeMerges, ThreeChecked, ThreeCommandEnds
     DEF ThreeStep, LoggerStep

\* Without --force the complete files that a session finds stay.
LEMMA ThreeKeepsSettled ==
  ASSUME ThreeInv, program = "three", ThreeStart \/ ThreeStep \/ Kill,
         NEW f \in DOMAIN raw, pc # "off", ~args.force, raw[f].by # sessions, Settled(f)
  PROVE  f \in DOMAIN raw' /\ raw'[f] = raw[f]
<1>1. PICK l \in ToSet(args.locks) :
        /\ f \in FilesOf(l)
        /\ f # LockFile(l) => raw[f].summed
        /\ raw[f].n = IF f = LockFile(l) THEN Len(PointsOf(args.threads)) ELSE Len(Points(args.threads))
  BY DEF Settled
<1>2. \/ f = LockFile(l) /\ (stage = "sweeps" => l \notin Targets)
      \/ \E combo \in ToSet(Combos) : f = Part(combo) /\ taskset_part_is_complete(f)
  <2>1. CASE f = LockFile(l)
    BY <2>1 DEF ThreeInv, ThreeFiles
  <2>2. CASE f # LockFile(l)
    <3>1. PICK combo \in ToSet(Combos) : f = Part(combo)
      BY <1>1, <2>2 DEF FilesOf
    <3>2. args.threads \in Seq(Nat)
      BY DEF ThreeInv, ThreeControl
    <3>3. raw[f].summed /\ raw[f].n = Len(args.threads) * Repeats
      BY <1>1, <2>2, <3>2, MatrixFacts
    <3>4. QED
      BY <3>1, <3>3 DEF taskset_part_is_complete
  <2>3. QED
    BY <2>1, <2>2
<1>3. CASE pc = "running" /\ Wrote(FALSE)
  <2>1. DOMAIN raw \subseteq DOMAIN raw'
        /\ \/ raw'[f] = raw[f]
           \/ stage = "sweeps" /\ \E k \in Targets \ {ACCORDIN_TASKSET_LOCK} : f = LockFile(k)
    BY <1>3, ThreeWrote
  <2>2. QED
    BY <1>2, <2>1, FileNames
<1>4. CASE pc = "running"
  <2>1. pos <= Len(work)
    BY <1>4 DEF ThreeInv, ThreeControl, ThreeBusy
  <2>2. IsSeq(Item.outs)
    BY <2>1, ThreeAtHand DEF ThreeItem
  <2>3. Kill => Wrote(FALSE)
    BY <1>4, <2>2, CommandWrites DEF Kill
  <2>4. EndCommand(FALSE) => Wrote(FALSE)
    BY <2>2, CommandWrites DEF EndCommand
  <2>5. EndCommand(TRUE) => Wrote(FALSE)
    BY <2>2, CommandWrites DEF Wrote
  <2>6. Kill \/ \E ok \in BOOLEAN : EndCommand(ok)
    BY <1>4 DEF ThreeStart, NewSession, ThreeStep, prepare_target_dirs, Over, SkipPart, RemovePart, IsPart, RunCommand,
                OpenMerge, WriteMerge, Checked, Continue, Raise, LoggerStep, write_manifest
  <2>7. QED
    BY <1>3, <1>4, <2>3, <2>4, <2>5, <2>6
<1>5. CASE prepare_target_dirs
  <2>1. CASE UNCHANGED raw
    BY <2>1
  <2>2. CASE raw' = [g \in DOMAIN raw \ UNION {FilesOf(k) : k \in {}} |-> raw[g]]
    <3>1. UNION {FilesOf(k) : k \in {}} = {}
      OBVIOUS
    <3>2. raw' = [g \in DOMAIN raw |-> raw[g]]
      BY <2>2, <3>1
    <3>3. QED
      BY <3>2
  <2>3. UNCHANGED raw \/ raw' = [g \in DOMAIN raw \ UNION {FilesOf(k) : k \in {}} |-> raw[g]]
    BY <1>5 DEF prepare_target_dirs
  <2>4. QED
    BY <2>1, <2>2, <2>3
<1>6. CASE RemovePart
  <2>1. ~taskset_part_is_complete(Item.name) /\ raw' = [g \in DOMAIN raw \ {Item.name} |-> raw[g]]
        /\ pos <= Len(work) /\ Item.cpus # <<>>
    BY <1>6 DEF RemovePart, IsPart
  <2>2. ThreeItem(Item)
    BY <2>1, ThreeAtHand
  <2>3. \E combo \in ToSet(Combos) : Item.name = Part(combo)
    BY <2>1, <2>2 DEF ThreeItem, LockItem, PartItem
  <2>4. f # Item.name
    BY <1>2, <2>1, <2>3, FileNames
  <2>5. QED
    BY <2>1, <2>4
<1>7. CASE OpenMerge \/ WriteMerge
  <2>1. pos <= Len(work) /\ Item.kind = "merge"
    BY <1>7 DEF OpenMerge, WriteMerge, ThreeInv, ThreeControl
  <2>2. Item \in ToSet(work) /\ ThreeItem(Item)
    BY <2>1, ThreeAtHand
  <2>3. Item.name = LockFile(ACCORDIN_TASKSET_LOCK) /\ ACCORDIN_TASKSET_LOCK \in Targets /\ stage = "sweeps"
    BY <2>1, <2>2 DEF ThreeItem, LockItem, PartItem, ThreeInv, ThreeControl
  <2>4. f # Item.name
    BY <1>2, <2>3, FileNames
  <2>5. QED
    BY <1>7, <2>4 DEF OpenMerge, WriteMerge, With
<1>8. CASE pc # "running" /\ ~prepare_target_dirs /\ ~RemovePart /\ ~OpenMerge /\ ~WriteMerge
  BY <1>8 DEF ThreeStart, NewSession, ThreeStep, SkipPart, RunCommand, StartCommand, Checked, Continue, Raise,
              LoggerStep, EndCommand, write_manifest, Kill, files
<1>9. QED
  BY <1>4, <1>5, <1>6, <1>7, <1>8

\* The properties, of experiment three.
LEMMA ThreeShows ==
  ASSUME ThreeInv, program = "three"
  PROVE  ExitTellsOutcome /\ FailuresKeepTheirLogs /\ PinnedNumaFirst
<1>1. ExitTellsOutcome
  BY DEF ExitTellsOutcome, ThreeInv, ThreeOutcome
<1>2. pc # "finish" /\ failed = {}
  BY DEF ThreeInv, ThreeControl, ThreeBusy
<1>3. FailuresKeepTheirLogs
  BY <1>2 DEF FailuresKeepTheirLogs, Listed
<1>4. PinnedNumaFirst
  <2> SUFFICES ASSUME pc = "running", Item.cpus # <<>>
               PROVE  LET used == ToSet(Item.cpus)
                          combo == Item.name[2] IN
                      /\ Cardinality(used) = CHOOSE n \in 1..Len(ordered_cpus) :
                            \A m \in 1..Len(ordered_cpus) :
                                LET Off(k) == LET d == k * combo[1] - combo[1] - combo[2] IN d * d
                                IN Off(n) < Off(m) \/ (Off(n) = Off(m) /\ n >= m)
                      /\ \A i, j \in DOMAIN Nodes :
                            (i < j /\ used \cap ToSet(Nodes[j]) # {}) => ToSet(Nodes[i]) \subseteq used
    BY DEF PinnedNumaFirst
  <2>1. pos <= Len(work)
    BY DEF ThreeInv, ThreeControl, ThreeBusy
  <2>2. ThreeItem(Item)
    BY <2>1, ThreeAtHand
  <2>3. PICK combo \in ToSet(Combos) : PartItem(Item, combo)
    BY <2>2 DEF ThreeItem, LockItem
  <2> DEFINE n == taskset_target_cpu_count(combo)
  <2>4. Item.name[2] = combo /\ Item.cpus = cpu_list_for_threads(n)
    BY <2>3, FileNames DEF PartItem
  <2>5. combo \in (Nat \ {0}) \X Nat
    BY ThreeLinesAssumption, SeqFacts
  <2>6. n \in 1..Len(ordered_cpus)
        /\ n = CHOOSE k \in 1..Len(ordered_cpus) :
                    \A m \in 1..Len(ordered_cpus) :
                        LET Off(j) == LET d == j * combo[1] - combo[1] - combo[2] IN d * d
                        IN Off(k) < Off(m) \/ (Off(k) = Off(m) /\ k >= m)
    BY <2>5, CpusOfRatio
  <2> HIDE DEF n
  <2>7. LET used == ToSet(cpu_list_for_threads(n)) IN
         /\ Cardinality(used) = n
         /\ \A i, j \in DOMAIN Nodes :
                (i < j /\ used \cap ToSet(Nodes[j]) # {}) => ToSet(Nodes[i]) \subseteq used
    BY <2>6, CpuList
  <2>8. QED
    BY <2>4, <2>6, <2>7
<1>5. QED
  BY <1>1, <1>3, <1>4

----------------------------------------------------------------------------
(* All four programs.                                                      *)

SweepsInv ==
    /\ program \in {"one", "two", "three", "merge"}
    /\ program = "one" => OneInv
    /\ program = "two" => TwoInv
    /\ program = "three" => ThreeInv
    /\ program = "merge" => MergeInv

\* The properties, of the merge tool.
LEMMA MergeShows ==
  ASSUME MergeInv, program = "merge"
  PROVE  ExitTellsOutcome /\ FailuresKeepTheirLogs /\ PinnedNumaFirst /\ MergeTakesLast
<1>1. pc \in {"off", "next", "report_open"} /\ failed = {}
  BY DEF MergeInv
<1>2. ExitTellsOutcome
  BY DEF ExitTellsOutcome, MergeInv
<1>3. FailuresKeepTheirLogs /\ PinnedNumaFirst
  BY <1>1 DEF FailuresKeepTheirLogs, Listed, PinnedNumaFirst
<1>4. MergeTakesLast
  <2> DEFINE order == OfKind(args.roots, "commands") \o OfKind(args.roots, "raw")
             Has(i, k) == k[2] \notin args.exclude /\
                IF order[i].kind = "raw" THEN k \in ToSet(order[i].keys)
                ELSE \E j \in DOMAIN order[i].recs : order[i].recs[j].key = k /\ Measured(order[i].recs[j])
             Last1(k) == Max({i \in DOMAIN order : Has(i, k)})
  <2> SUFFICES ASSUME status \in {"ok", "missing"}
               PROVE  /\ \A r, s \in DOMAIN report.rows : report.rows[r].name = report.rows[s].name => r = s
                      /\ \A r \in ToSet(report.rows) : Has(r.by, r.name) /\ r.by = Last1(r.name)
                      /\ status = "ok" <=> \A k \in Head(order).expected :
                            k[2] \in args.exclude \/ \E i \in DOMAIN order : Has(i, k)
    BY DEF MergeTakesLast
  <2>1. order = Order(args) /\ \A i, k : Has(i, k) <=> HasKey(args, i, k)
    BY DEF Order, HasKey
  <2>2. /\ args \in MergeSessions /\ LastSeen(args, report.rows, Len(order))
        /\ status = "ok" <=> \A k \in Head(order).expected :
            k[2] \in args.exclude \/ \E r \in ToSet(report.rows) : r.name = k
    BY <2>1 DEF MergeInv
  <2>3. Len(order) \in Nat /\ DOMAIN order = 1..Len(order)
    BY <2>1, <2>2, OrderFacts, SeqShape
  <2> HIDE DEF order, Has
  <2>4. /\ \A i, j \in DOMAIN report.rows : report.rows[i].name = report.rows[j].name => i = j
        /\ \A r \in ToSet(report.rows) :
            /\ r.by \in DOMAIN order /\ Has(r.by, r.name)
            /\ \A i \in DOMAIN order : Has(i, r.name) => i <= r.by
        /\ \A i \in DOMAIN order : \A k : Has(i, k) => \E r \in ToSet(report.rows) : r.name = k
    BY <2>1, <2>2, <2>3 DEF LastSeen
  <2>5. ASSUME NEW r \in ToSet(report.rows)
        PROVE  r.by = Last1(r.name)
    <3> DEFINE S == {i \in DOMAIN order : Has(i, r.name)}
    <3>1. r.by \in S /\ \A i \in S : i <= r.by /\ i \in Nat
      BY <2>3, <2>4
    <3> HIDE DEF S
    <3>2. \A x \in S : (\A y \in S : x >= y) => x = r.by
      BY <3>1
    <3>3. Max(S) = r.by
      BY <3>1, <3>2 DEF Max
    <3>4. QED
      BY <3>3 DEF S
  <2>6. \A k : (\E r \in ToSet(report.rows) : r.name = k) <=> \E i \in DOMAIN order : Has(i, k)
    BY <2>4
  <2>7. QED
    BY <2>2, <2>4, <2>5, <2>6
<1>5. QED
  BY <1>2, <1>3, <1>4

\* The invariant of each program holds of an empty root.
LEMMA SweepsInit ==
  ASSUME Init
  PROVE  SweepsInv
<1>1. /\ program \in {"one", "two", "three", "merge"}
      /\ raw = <<>> /\ report = [state |-> "absent", rows |-> <<>>] /\ failed = {}
      /\ settings = <<>> /\ logs = <<>> /\ pc = "off" /\ stage = "none"
      /\ rows = <<>> /\ failures = {} /\ status = "none"
      /\ sessions = 0 /\ kills = 0 /\ finished = {}
  BY ProgramsAssumption DEF Init, SweepRootInit
<1>2. DOMAIN <<>> = {} /\ <<>> \in Seq(ONE_LOCK_KEYS) /\ IsFiniteSet({})
  BY FS_EmptySet
<1>3. OneInv
  BY <1>1, <1>2 DEF OneInv, OneControl, OneBusy, OneLogs, OneDone, OneFiles, OneReport, OneOutcome
<1>4. TwoInv
  <2>1. TwoControl /\ TwoLogs /\ TwoSwept /\ TwoLeft /\ TwoOutcome
    BY <1>1 DEF TwoControl, TwoLogs, TwoSwept, TwoLeft, TwoOutcome, TwoBusy, TwoCollecting, TwoReporting
  <2>2. TwoRows
    BY <1>1, EmptyRows DEF TwoRows
  <2>3. QED
    BY <2>1, <2>2 DEF TwoInv
<1>5. ThreeInv
  BY <1>1, <1>2 DEF ThreeInv, ThreeControl, ThreeBusy, ThreeFiles, ThreeParts, ThreeOutcome
<1>6. MergeInv
  BY <1>1 DEF MergeInv
<1>7. QED
  BY <1>1, <1>3, <1>4, <1>5, <1>6 DEF SweepsInv

\* A step that changes nothing keeps it.
LEMMA SweepsStutter ==
  ASSUME SweepsInv, UNCHANGED vars
  PROVE  SweepsInv'
<1>1. UNCHANGED <<program, raw, report, failed, settings, logs, pc, args, stage, work, pos, log, rows,
                  failures, status, sessions, kills, finished>>
  BY DEF vars, rootVars, memory, files, bounds
<1>2. Item' = Item
  BY <1>1 DEF Item
<1>3. ASSUME OneInv
      PROVE  OneInv'
  <2>1. \A c : OneItem(c)' <=> OneItem(c)
    BY <1>1, OneSame
  <2>2. \A l : Out(l)' = Out(l)
    BY <1>1, OneSame
  <2>3. OneControl'
    BY <1>1, <1>3, <2>1, <2>2 DEF OneInv, OneControl, OneBusy
  <2>4. OneLogs' /\ OneDone'
    BY <1>1, <1>3 DEF OneInv, OneLogs, OneDone, OneBusy, BadLog, Accounted, OutsFinished
  <2>5. OneFiles' /\ OneReport' /\ OneOutcome'
    BY <1>1, <1>3 DEF OneInv, OneFiles, OneReport, OneOutcome, SweptUpTo, OneSwept, CombinedLocks
  <2>6. QED
    BY <2>3, <2>4, <2>5 DEF OneInv
<1>4. ASSUME TwoInv
      PROVE  TwoInv'
  <2>1. TwoControl'
    BY <1>1, <1>2, <1>4 DEF TwoInv, TwoControl, TwoBusy, TwoCollecting, TwoReporting
  <2>2. TwoLogs' /\ TwoRows'
    BY <1>1, <1>2, <1>4 DEF TwoInv, TwoLogs, TwoRows, TwoBusy
  <2>3. TwoSwept'
    BY <1>1, <1>2, <1>4 DEF TwoInv, TwoSwept, TwoCollecting, Accounted, OutsFinished
  <2>4. TwoLeft'
    BY <1>1, <1>2, <1>4 DEF TwoInv, TwoLeft, TwoCollecting, Left
  <2>5. TwoOutcome'
    BY <1>1, <1>4 DEF TwoInv, TwoOutcome
  <2>6. QED
    BY <2>1, <2>2, <2>3, <2>4, <2>5 DEF TwoInv
<1>5. ASSUME ThreeInv
      PROVE  ThreeInv'
  <2>1. Targets' = Targets /\ \A c : ThreeItem(c)' <=> ThreeItem(c)
    BY <1>1, ThreeSame
  <2>2. /\ \A l, t : lock_is_complete(l, t)' <=> lock_is_complete(l, t)
        /\ \A c : ItemDone(c) => ItemDone(c)'
    BY <1>1, ThreeQuiet
  <2>3. ThreeControl'
    BY <1>1, <1>2, <1>5, <2>1 DEF ThreeInv, ThreeControl, ThreeBusy, PartsFirst, Covered
  <2>4. ThreeFiles'
    BY <1>1, <1>2, <1>5, <2>1, <2>2 DEF ThreeInv, ThreeFiles
  <2>5. ThreeParts'
    BY <1>1, <1>5, <2>2 DEF ThreeInv, ThreeParts, PartPoints
  <2>6. ThreeOutcome'
    BY <1>1, <1>5 DEF ThreeInv, ThreeOutcome
  <2>7. QED
    BY <2>3, <2>4, <2>5, <2>6 DEF ThreeInv
<1>6. ASSUME MergeInv
      PROVE  MergeInv'
  BY <1>1, <1>6 DEF MergeInv
<1>7. QED
  BY <1>1, <1>3, <1>4, <1>5, <1>6 DEF SweepsInv

\* Every step of every program keeps it.
LEMMA SweepsKeep ==
  ASSUME SweepsInv, [Next]_vars
  PROVE  SweepsInv'
<1>1. CASE Next
  BY <1>1, OneKeeps, TwoKeeps, ThreeKeeps, MergeKeeps DEF Next, Start, Step, SweepsInv
<1>2. QED
  BY <1>1, SweepsStutter

\* The invariant says what the properties say.
LEMMA SweepsShow ==
  ASSUME SweepsInv
  PROVE  /\ MergeTakesLast /\ RowsOfFinishedSweeps /\ FailuresKeepTheirLogs
         /\ PinnedNumaFirst /\ ExitTellsOutcome
<1>1. program # "merge" => MergeTakesLast
  BY DEF MergeTakesLast
<1>2. program # "two" => RowsOfFinishedSweeps
  BY DEF RowsOfFinishedSweeps
<1>3. QED
  BY <1>1, <1>2, OneShows, TwoShows, ThreeShows, MergeShows DEF SweepsInv

\* No step of any program writes a file that is complete for the session.
LEMMA SettledKept ==
  ASSUME SweepsInv, Next, NEW f \in DOMAIN raw, pc # "off", ~args.force, raw[f].by # sessions, Settled(f)
  PROVE  f \in DOMAIN raw' /\ raw'[f] = raw[f]
<1>1. program # "merge"
  BY DEF Settled
<1>2. QED
  BY <1>1, OneKeepsSettled, TwoKeepsSettled, ThreeKeepsSettled DEF SweepsInv, Next, Start, Step

\* In every state of every sequence of sessions and kills the invariant of the
\* program at work holds.
THEOREM SweepsInvariant == Spec => []SweepsInv
<1>1. Init => SweepsInv
  BY SweepsInit
<1>2. SweepsInv /\ [Next]_vars => SweepsInv'
  BY SweepsKeep
<1>3. QED
  BY <1>1, <1>2, PTL DEF Spec

\* The merged raw.csv has each key once, from the last root that has a row of it,
\* and the exit code says whether an expected row is missing:
\* merge_experiment_four_results.py, where roots recovered from commands.json
\* are read before those with a raw.csv.
THEOREM MergedFromLast == Spec => []MergeTakesLast
BY SweepsInvariant, SweepsShow, PTL

\* Experiment two never has a row, in memory or in raw.csv, of a sweep that failed
\* or was killed, also when rows are read back from the raw.csv of a session that
\* was killed while it rewrote the file.
THEOREM RowsAreOfFinishedSweeps == Spec => []RowsOfFinishedSweeps
BY SweepsInvariant, SweepsShow, PTL

\* Before a report every sweep has ended well or is listed as a failure, and the
\* log that failed_runs.csv names is the log of that failure (in experiment two,
\* whose log names are used again, once a session has reported).
THEOREM FailuresAreListed == Spec => []FailuresKeepTheirLogs
BY SweepsInvariant, SweepsShow, PTL

\* The CPUs of a bound sweep are as many as its threads, or as the ratio of its
\* part asks for, and those of a node are used only when the nodes before are full.
THEOREM SweepsArePinned == Spec => []PinnedNumaFirst
BY SweepsInvariant, SweepsShow, PTL

\* Exit code 0 means that the results asked for are there, in each program as far
\* as its check of them goes: see ExitTellsOutcome.
THEOREM SweepsExitTruthfully == Spec => []ExitTellsOutcome
BY SweepsInvariant, SweepsShow, PTL

\* Without --force no step of a session, killed or not, writes a file again that
\* was complete for it when it was found.
THEOREM SettledFilesStay == Spec => CompletedSweepsKept
<1>1. SweepsInv /\ [Next]_vars =>
        [\A f \in DOMAIN raw :
            (pc # "off" /\ ~args.force /\ raw[f].by # sessions /\ Settled(f))
                => f \in DOMAIN raw' /\ raw'[f] = raw[f]]_vars
  BY SettledKept
<1>2. QED
  BY <1>1, SweepsInvariant, PTL DEF Spec, CompletedSweepsKept

============================================================================
