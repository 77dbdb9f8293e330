--------------------------- MODULE MatchingProofs ---------------------------
(***************************************************************************)
(* Matching is right for every query, line and setting: the algorithms of  *)
(* the matcher find a match exactly where a term asks for one, match puts  *)
(* their answers together as the query says, and the places each algorithm *)
(* reports are those of its term.                                          *)
(***************************************************************************)
EXTENDS Matching, FiniteSetTheorems, SequenceTheorems, WellFoundedInduction, TLAPS

\* The characters written out are strings, which the provers do not know.
Char == STRING \cup {" ", "\t", "a", "b", "e", "E"}
Text == Seq(Char)

-----------------------------------------------------------------------------
(* Sets of numbers. *)

\* A set of naturals has a least member.
LEMMA NatLeast ==
    ASSUME NEW A, A \subseteq Nat, A # {}
    PROVE  \E m \in A : \A k \in A : m <= k
<1> DEFINE Less == {ss \in Nat \X Nat : ss[1] < ss[2]}
<1>1. IsWellFoundedOn(Less, Nat)
  BY NatLessThanWellFounded DEF OpToRel
<1>2. PICK m \in A : \A k \in A : ~ (<<k, m>> \in Less)
  BY <1>1, WFMin
<1>3. ASSUME NEW k \in A PROVE m <= k
  <2>1. m \in Nat /\ k \in Nat /\ ~ (<<k, m>> \in Less)
    BY <1>2
  <2> QED BY <2>1
<1> QED BY <1>3

\* A set of naturals that has a bound has a greatest member.
LEMMA NatGreatest ==
    ASSUME NEW n \in Nat, NEW A, A \subseteq 0 .. n, A # {}
    PROVE  \E m \in A : \A k \in A : k <= m
<1> DEFINE D == {d \in Nat : n - d \in A}
<1>1. PICK k0 \in A : TRUE
  OBVIOUS
<1>2. n - k0 \in Nat /\ n - (n - k0) = k0
  OBVIOUS
<1>3. PICK d \in D : \A e \in D : d <= e
  <2>1. D # {} /\ D \subseteq Nat
    BY <1>2
  <2> HIDE DEF D
  <2> QED BY <2>1, NatLeast
<1>4. ASSUME NEW k \in A PROVE k <= n - d
  <2>1. k \in 0 .. n /\ n - k \in D
    OBVIOUS
  <2>2. d <= n - k /\ d \in Nat
    BY <1>3, <2>1
  <2> QED BY <2>1, <2>2
<1> QED BY <1>3, <1>4

\* Min and Max choose them (the modules have their own names for both).
LEMMA MinIs ==
    ASSUME NEW A, A \subseteq Nat, A # {}
    PROVE  /\ Min(A) \in A /\ \A k \in A : Min(A) <= k
           /\ M!Min(A) \in A /\ \A k \in A : M!Min(A) <= k
<1>1. PICK m \in A : \A k \in A : m <= k
  BY NatLeast
<1> QED BY <1>1 DEF Min, M!Min

LEMMA MaxIs ==
    ASSUME NEW n \in Nat, NEW A, A \subseteq 0 .. n, A # {}
    PROVE  /\ Max(A) \in A /\ \A k \in A : k <= Max(A)
           /\ M!Max(A) \in A /\ \A k \in A : k <= M!Max(A)
<1>1. PICK m \in A : \A k \in A : k <= m
  BY NatGreatest
<1> QED BY <1>1 DEF Max, M!Max

\* Ascending lists members of the set.
LEMMA AscendingIs ==
    ASSUME NEW n \in Nat, NEW S, S \subseteq 1 .. n
    PROVE  M!Ascending(S) \in Seq(S)
<1> DEFINE below(x) == {y \in S : y < x}
           N    == Cardinality(S)
           f    == [x \in S |-> Cardinality(below(x))]
           I    == {f[x] : x \in S}
           J    == 0 .. N - 1
<1>1. IsFiniteSet(S) /\ N \in Nat
  <2>1. IsFiniteSet(1 .. n)
    BY FS_Interval
  <2> QED BY <2>1, FS_Subset, FS_CardinalityType
<1>2. ASSUME NEW x \in S PROVE IsFiniteSet(below(x)) /\ f[x] \in Nat /\ f[x] <= N - 1
  <2>1. IsFiniteSet(below(x)) /\ Cardinality(below(x)) \in Nat
    BY <1>1, FS_Subset, FS_CardinalityType
  <2>2. below(x) \subseteq S \ {x}
    OBVIOUS
  <2>3. IsFiniteSet(S \ {x}) /\ Cardinality(S \ {x}) = N - 1
    BY <1>1, FS_RemoveElement
  <2>4. Cardinality(below(x)) <= Cardinality(S \ {x})
    BY <2>2, <2>3, FS_Subset
  <2> HIDE DEF below, N
  <2> QED BY <2>1, <2>3, <2>4
<1>3. ASSUME NEW x \in S, NEW y \in S, x < y PROVE f[x] < f[y]
  <2>1. below(x) \subseteq below(y) /\ x \in below(y) /\ x \notin below(x)
    <3>1. x \in Int /\ y \in Int /\ ~ (x < x)
      OBVIOUS
    <3>2. ASSUME NEW z \in S, z < x PROVE z < y
      <4>1. z \in Int
        OBVIOUS
      <4> QED BY <1>3, <3>1, <3>2, <4>1
    <3> QED BY <1>3, <3>1, <3>2
  <2>2. Cardinality(below(x)) < Cardinality(below(y))
    <3>1. Cardinality(below(x)) <= Cardinality(below(y)) /\ (Cardinality(below(y)) = Cardinality(below(x)) => below(y) = below(x))
      BY <2>1, <1>2, FS_Subset
    <3>2. Cardinality(below(x)) \in Nat /\ Cardinality(below(y)) \in Nat
      BY <1>2, FS_CardinalityType
    <3> HIDE DEF below
    <3> QED BY <2>1, <3>1, <3>2
  <2> QED BY <2>2
<1>4. ExistsBijection(S, I)
  <2>1. \A x, y \in S : f[x] = f[y] => x = y
    <3>1. \A x, y \in S : f[x] \in Nat /\ f[y] \in Nat /\ (x < y => f[x] < f[y]) /\ (y < x => f[y] < f[x])
      BY <1>2, <1>3
    <3> HIDE DEF f
    <3> QED BY <3>1
  <2>2. f \in [S -> I]
    OBVIOUS
  <2>3. \A k \in I : \E x \in S : f[x] = k
    OBVIOUS
  <2> HIDE DEF f, I
  <2> QED BY <2>1, <2>2, <2>3 DEF ExistsBijection, Bijection, Injection, Surjection, IsInjective
<1>5. IsFiniteSet(I) /\ Cardinality(I) = N
  BY <1>1, <1>4, FS_Bijection
<1>6. IsFiniteSet(J) /\ Cardinality(J) = N
  <2>1. IsFiniteSet(J) /\ Cardinality(J) = IF 0 > N - 1 THEN 0 ELSE N - 1 - 0 + 1
    BY <1>1, FS_Interval
  <2> HIDE DEF N
  <2> QED BY <2>1, <1>1
<1>7. I = J
  <2>1. ASSUME NEW x \in S PROVE f[x] \in J
    <3>1. f[x] \in Nat /\ f[x] <= N - 1
      BY <1>2
    <3> HIDE DEF f, N
    <3> QED BY <1>1, <3>1
  <2>2. I \subseteq J
    <3> HIDE DEF f, J
    <3> QED BY <2>1
  <2> HIDE DEF I, J
  <2> QED BY <2>2, <1>5, <1>6, FS_Subset
<1> DEFINE c(i) == CHOOSE x \in S : M!Cardinality({y \in S : y < x}) = i - 1
<1>8. ASSUME NEW i \in 1 .. N PROVE c(i) \in S
  <2>1. i - 1 \in J
    BY <1>1
  <2>2. PICK x \in S : Cardinality(below(x)) = i - 1
    <3> HIDE DEF J, below
    <3> QED BY <2>1, <1>7
  <2>3. M!Cardinality({y \in S : y < x}) = i - 1
    BY <2>2 DEF M!Cardinality, Cardinality
  <2> QED BY <2>3
<1>9. M!Ascending(S) = [i \in 1 .. N |-> c(i)]
  <2>1. M!Cardinality(S) = N
    BY DEF M!Cardinality, Cardinality
  <2>2. M!Ascending(S) = [i \in 1 .. M!Cardinality(S) |-> c(i)]
    BY DEF M!Ascending
  <2> HIDE DEF c, N
  <2> QED BY <2>1, <2>2
<1> HIDE DEF N, c
<1> QED BY <1>1, <1>8, <1>9

-----------------------------------------------------------------------------
(* GreedyPlaces: the pattern is found as soon as it stands in the text with
   gaps. *)

GreedySteps(t, p, n, h) ==
    h = [i \in 0 .. n |-> IF i = 0 THEN <<>> ELSE M!Taken(t, p, h[i - 1], i)]

\* The places of p after the first n places of the text.
GreedyUpto(t, p) == CHOOSE h : GreedySteps(t, p, Len(t), h)

LEMMA GreedyExists ==
    ASSUME NEW t, NEW p, NEW n \in Nat
    PROVE  \E h : GreedySteps(t, p, n, h)
<1> DEFINE Bad == {m \in Nat : ~ \E h : GreedySteps(t, p, m, h)}
<1>1. SUFFICES ASSUME Bad # {} PROVE FALSE
  OBVIOUS
<1>2. PICK m \in Bad : \A k \in Bad : m <= k
  <2>1. Bad \subseteq Nat
    OBVIOUS
  <2> HIDE DEF Bad
  <2> QED BY <1>1, <2>1, NatLeast
<1>3. m \in Nat /\ ~ \E h : GreedySteps(t, p, m, h)
  OBVIOUS
<1>4. CASE m = 0
  <2> DEFINE h == [i \in 0 .. m |-> <<>>]
  <2>1. GreedySteps(t, p, m, h)
    BY <1>4 DEF GreedySteps
  <2> QED BY <1>3, <2>1
<1>5. CASE m # 0
  <2>1. m - 1 \in Nat /\ ~ (m <= m - 1)
    BY <1>3, <1>5
  <2>2. PICK g : GreedySteps(t, p, m - 1, g)
    BY <1>2, <2>1
  <2> DEFINE h == [i \in 0 .. m |-> IF i < m THEN g[i] ELSE M!Taken(t, p, g[m - 1], m)]
             w(i) == IF i = 0 THEN <<>> ELSE M!Taken(t, p, h[i - 1], i)
  <2>3. ASSUME NEW i \in 0 .. m PROVE h[i] = w(i)
    <3>1. CASE i = m
      <4>1. h[i - 1] = g[m - 1] /\ h[i] = M!Taken(t, p, g[m - 1], m)
        BY <3>1, <2>1, <1>5
      <4> QED BY <3>1, <4>1, <1>5
    <3>2. CASE i # m
      <4>1. i \in 0 .. m - 1 /\ i < m /\ (i # 0 => i - 1 \in 0 .. m /\ i - 1 < m)
        BY <3>2, <1>3
      <4>2. h[i] = g[i] /\ (i # 0 => h[i - 1] = g[i - 1])
        BY <4>1
      <4>3. g[i] = IF i = 0 THEN <<>> ELSE M!Taken(t, p, g[i - 1], i)
        BY <2>2, <4>1 DEF GreedySteps
      <4> HIDE DEF h
      <4> QED BY <4>2, <4>3
    <3> QED BY <3>1, <3>2
  <2>4. h = [i \in 0 .. m |-> h[i]]
    OBVIOUS
  <2>5. GreedySteps(t, p, m, h)
    <3> HIDE DEF h
    <3> QED BY <2>3, <2>4 DEF GreedySteps
  <2> QED BY <1>3, <2>5
<1> QED BY <1>4, <1>5

\* How GreedyPlaces is computed, step by step.
LEMMA GreedyIs ==
    ASSUME NEW t \in Text, NEW p \in Text
    PROVE  LET G == GreedyUpto(t, p)
           IN  /\ M!GreedyPlaces(t, p) = G[Len(t)]
               /\ G[0] = <<>>
               /\ \A n \in 1 .. Len(t) : G[n] = IF Len(G[n - 1]) < Len(p) /\ t[n] = p[Len(G[n - 1]) + 1]
                                               THEN Append(G[n - 1], n) ELSE G[n - 1]
<1> DEFINE G == GreedyUpto(t, p)
<1>0. Len(t) \in Nat
  BY DEF Text
<1>1. GreedySteps(t, p, Len(t), G)
  BY <1>0, GreedyExists DEF GreedyUpto
<1>2. M!GreedyPlaces(t, p) = G[Len(t)]
  BY DEF M!GreedyPlaces, GreedyUpto, GreedySteps
<1> HIDE DEF G
<1>3. \A i \in 0 .. Len(t) : G[i] = IF i = 0 THEN <<>> ELSE M!Taken(t, p, G[i - 1], i)
  BY <1>1 DEF GreedySteps
<1>4. ASSUME NEW n \in 1 .. Len(t) PROVE G[n] = M!Taken(t, p, G[n - 1], n)
  BY <1>0, <1>3
<1> QED BY <1>0, <1>2, <1>3, <1>4 DEF M!Taken, G

\* g holds places of a beginning of p within the first n places of t, in order.
Spells(t, p, n, g) ==
    /\ g \in Seq(1 .. n) /\ Len(g) <= Len(p)
    /\ \A k \in 1 .. Len(g) : t[g[k]] = p[k] /\ (k > 1 => g[k - 1] < g[k])

\* p stands in t with gaps, at the places at.
Embeds(t, p, at) ==
    /\ at \in [1 .. Len(p) -> 1 .. Len(t)]
    /\ \A k \in 1 .. Len(p) : t[at[k]] = p[k] /\ (k > 1 => at[k - 1] < at[k])

LEMMA SpellsStep ==
    ASSUME NEW t \in Text, NEW p \in Text, NEW n \in 1 .. Len(t), NEW g, Spells(t, p, n - 1, g),
           NEW h, h = IF Len(g) < Len(p) /\ t[n] = p[Len(g) + 1] THEN Append(g, n) ELSE g
    PROVE  Spells(t, p, n, h) /\ Len(g) <= Len(h)
<1>1. /\ g \in Seq(1 .. n - 1) /\ Len(g) \in Nat /\ Len(g) <= Len(p)
      /\ \A k \in 1 .. Len(g) : g[k] \in 1 .. n - 1 /\ t[g[k]] = p[k] /\ (k > 1 => g[k - 1] < g[k])
  BY DEF Spells
<1>2. n \in Nat /\ Len(p) \in Nat /\ 1 .. n - 1 \subseteq 1 .. n /\ n \in 1 .. n
  BY DEF Text
<1>3. g \in Seq(1 .. n)
  BY <1>1, <1>2
<1>4. CASE ~ (Len(g) < Len(p) /\ t[n] = p[Len(g) + 1])
  <2>1. h = g
    BY <1>4
  <2> QED BY <2>1, <1>1, <1>3 DEF Spells
<1>5. CASE Len(g) < Len(p) /\ t[n] = p[Len(g) + 1]
  <2> DEFINE m == Len(g)
  <2>1. h = Append(g, n)
    BY <1>5
  <2>2. h \in Seq(1 .. n) /\ Len(h) = m + 1 /\ h[m + 1] = n /\ \A k \in 1 .. m : h[k] = g[k]
    <3> DEFINE S == 1 .. n
    <3>1. g \in Seq(S) /\ n \in S
      BY <1>2, <1>3
    <3> HIDE DEF S
    <3>2. Append(g, n) \in Seq(S)
      BY <3>1
    <3>3. Len(Append(g, n)) = Len(g) + 1
      BY <3>1
    <3>4. Append(g, n)[Len(g) + 1] = n
      BY <3>1
    <3>5. \A k \in 1 .. Len(g) : Append(g, n)[k] = g[k]
      BY <3>1
    <3> QED BY <2>1, <3>2, <3>3, <3>4, <3>5 DEF S
  <2>3. Len(h) <= Len(p) /\ m <= Len(h)
    <3> HIDE DEF m
    <3> QED BY <2>2, <1>1, <1>2, <1>5 DEF m
  <2>4. ASSUME NEW k \in 1 .. Len(h) PROVE t[h[k]] = p[k] /\ (k > 1 => h[k - 1] < h[k])
    <3>1. CASE k = m + 1
      <4>1. k > 1 => k - 1 \in 1 .. m /\ h[k - 1] = g[k - 1] /\ g[k - 1] \in 1 .. n - 1
        BY <3>1, <2>2, <1>1
      <4> QED BY <3>1, <4>1, <2>2, <1>2, <1>5
    <3>2. CASE k \in 1 .. m
      <4>1. k > 1 => k - 1 \in 1 .. m
        BY <3>2, <1>1
      <4> HIDE DEF m
      <4> QED BY <3>2, <4>1, <2>2, <1>1 DEF m
    <3>3. k = m + 1 \/ k \in 1 .. m
      BY <2>2, <1>1
    <3> QED BY <3>1, <3>2, <3>3
  <2> QED BY <2>2, <2>3, <2>4 DEF Spells
<1> QED BY <1>4, <1>5

\* What is found spells a beginning of the pattern ...
LEMMA GreedySpells ==
    ASSUME NEW t \in Text, NEW p \in Text
    PROVE  \A n \in 0 .. Len(t) : Spells(t, p, n, GreedyUpto(t, p)[n])
<1> DEFINE G   == GreedyUpto(t, p)
           Bad == {n \in 0 .. Len(t) : ~Spells(t, p, n, G[n])}
<1>0. Len(t) \in Nat /\ Len(p) \in Nat
  BY DEF Text
<1>1. G[0] = <<>> /\ \A n \in 1 .. Len(t) : G[n] = IF Len(G[n - 1]) < Len(p) /\ t[n] = p[Len(G[n - 1]) + 1]
                                                   THEN Append(G[n - 1], n) ELSE G[n - 1]
  BY GreedyIs
<1> HIDE DEF G
<1>2. SUFFICES ASSUME Bad # {} PROVE FALSE
  BY DEF G
<1>3. PICK n \in Bad : \A k \in Bad : n <= k
  <2>1. Bad \subseteq Nat
    BY <1>0
  <2> HIDE DEF Bad
  <2> QED BY <1>2, <2>1, NatLeast
<1>4. Spells(t, p, 0, G[0])
  BY <1>0, <1>1 DEF Spells
<1>5. n # 0
  BY <1>4
<1>6. n \in 1 .. Len(t) /\ n - 1 \in 0 .. Len(t) /\ ~ (n <= n - 1)
  BY <1>0, <1>5
<1>7. Spells(t, p, n - 1, G[n - 1])
  BY <1>3, <1>6
<1>8. Spells(t, p, n, G[n])
  BY <1>1, <1>6, <1>7, SpellsStep
<1> QED BY <1>8

\* ... no other places in the text spell more of it ...
LEMMA GreedyKeepsUp ==
    ASSUME NEW t \in Text, NEW p \in Text, NEW at, Embeds(t, p, at)
    PROVE  \A n \in 0 .. Len(t) : \A k \in 1 .. Len(p) : at[k] <= n => k <= Len(GreedyUpto(t, p)[n])
<1> DEFINE G       == GreedyUpto(t, p)
           Ok(n)   == \A k \in 1 .. Len(p) : at[k] <= n => k <= Len(G[n])
           Bad     == {n \in 0 .. Len(t) : ~Ok(n)}
<1>0. Len(t) \in Nat /\ Len(p) \in Nat
  BY DEF Text
<1>1. \A n \in 1 .. Len(t) : G[n] = IF Len(G[n - 1]) < Len(p) /\ t[n] = p[Len(G[n - 1]) + 1]
                                    THEN Append(G[n - 1], n) ELSE G[n - 1]
  BY GreedyIs
<1>2. \A n \in 0 .. Len(t) : Spells(t, p, n, G[n])
  BY GreedySpells
<1> HIDE DEF G
<1>3. \A n \in 0 .. Len(t) : Len(G[n]) \in Nat /\ Len(G[n]) <= Len(p) /\ G[n] \in Seq(1 .. n)
  BY <1>2 DEF Spells
<1>4. \A k \in 1 .. Len(p) : at[k] \in 1 .. Len(t) /\ t[at[k]] = p[k] /\ (k > 1 => at[k - 1] < at[k])
  BY DEF Embeds
<1>5. ASSUME NEW n \in 1 .. Len(t), Ok(n - 1) PROVE Ok(n)
  <2>0. n - 1 \in 0 .. Len(t) /\ n \in 0 .. Len(t)
    BY <1>0
  <2>1. Len(G[n - 1]) \in Nat /\ G[n - 1] \in Seq(1 .. n - 1) /\ Len(G[n]) \in Nat
    BY <2>0, <1>3
  <2>2. Len(Append(G[n - 1], n)) = Len(G[n - 1]) + 1
    <3>1. G[n - 1] \in Seq(Int)
      BY <2>1
    <3> QED BY <3>1
  <2>3. SUFFICES ASSUME NEW k \in 1 .. Len(p), at[k] <= n PROVE k <= Len(G[n])
    OBVIOUS
  <2>4. Len(G[n - 1]) <= Len(G[n])
    <3>1. G[n] = G[n - 1] \/ G[n] = Append(G[n - 1], n)
      BY <1>1
    <3>2. CASE G[n] = G[n - 1]
      <4>1. Len(G[n]) = Len(G[n - 1])
        BY <3>2
      <4> QED BY <4>1, <2>1
    <3>3. CASE G[n] = Append(G[n - 1], n)
      <4>1. Len(G[n]) = Len(G[n - 1]) + 1
        BY <3>3, <2>2
      <4> QED BY <4>1, <2>1
    <3> QED BY <3>1, <3>2, <3>3
  <2>5. CASE at[k] <= n - 1
    <3>1. k <= Len(G[n - 1])
      BY <1>5, <2>5
    <3> QED BY <3>1, <2>1, <2>4
  <2>6. CASE ~(at[k] <= n - 1)
    <3>1. at[k] = n
      BY <1>4, <2>3, <2>6
    <3>2. k = 1 \/ k - 1 <= Len(G[n - 1])
      <4>1. SUFFICES ASSUME k # 1 PROVE k - 1 <= Len(G[n - 1])
        OBVIOUS
      <4>2. k - 1 \in 1 .. Len(p) /\ k > 1
        BY <1>0, <4>1
      <4>3. at[k - 1] <= n - 1
        BY <3>1, <4>2, <1>4
      <4> QED BY <1>5, <4>2, <4>3
    <3>3. CASE k <= Len(G[n - 1])
      BY <3>3, <2>1, <2>4
    <3>4. CASE ~(k <= Len(G[n - 1]))
      <4>1. Len(G[n - 1]) + 1 = k /\ Len(G[n - 1]) < Len(p)
        BY <3>2, <3>4, <2>1, <1>0
      <4>2. t[n] = p[Len(G[n - 1]) + 1]
        BY <3>1, <4>1, <1>4
      <4>3. G[n] = Append(G[n - 1], n)
        BY <1>1, <4>1, <4>2
      <4> QED BY <4>1, <4>3, <2>2
    <3> QED BY <3>3, <3>4
  <2> QED BY <2>5, <2>6
<1>6. Ok(0)
  BY <1>4
<1> HIDE DEF Ok
<1>7. Bad = {}
  <2>1. SUFFICES ASSUME Bad # {} PROVE FALSE
    OBVIOUS
  <2>2. PICK n \in Bad : \A k \in Bad : n <= k
    <3>1. Bad \subseteq Nat
      BY <1>0
    <3> HIDE DEF Bad
    <3> QED BY <2>1, <3>1, NatLeast
  <2>3. n # 0
    BY <1>6
  <2>4. n \in 1 .. Len(t) /\ n - 1 \in 0 .. Len(t) /\ ~ (n <= n - 1)
    BY <1>0, <2>3
  <2>5. Ok(n - 1)
    BY <2>2, <2>4
  <2> QED BY <2>4, <2>5, <1>5
<1>8. \A n \in 0 .. Len(t) : Ok(n)
  BY <1>7
<1> QED BY <1>8 DEF Ok, G

\* ... and what is found early stays.
LEMMA GreedyGrows ==
    ASSUME NEW t \in Text, NEW p \in Text
    PROVE  LET G == GreedyUpto(t, p)
           IN  \A n \in 0 .. Len(t) : \A i \in 0 .. n :
                   Len(G[i]) <= Len(G[n]) /\ \A k \in 1 .. Len(G[i]) : G[n][k] = G[i][k]
<1> DEFINE G       == GreedyUpto(t, p)
           Ext(g, h) == Len(g) <= Len(h) /\ \A k \in 1 .. Len(g) : h[k] = g[k]
           Bad     == {n \in 0 .. Len(t) : ~ \A i \in 0 .. n : Ext(G[i], G[n])}
<1>0. Len(t) \in Nat /\ Len(p) \in Nat
  BY DEF Text
<1>1. \A n \in 1 .. Len(t) : G[n] = IF Len(G[n - 1]) < Len(p) /\ t[n] = p[Len(G[n - 1]) + 1]
                                    THEN Append(G[n - 1], n) ELSE G[n - 1]
  BY GreedyIs
<1>2. \A n \in 0 .. Len(t) : Spells(t, p, n, G[n])
  BY GreedySpells
<1> HIDE DEF G
<1>3. \A n \in 0 .. Len(t) : G[n] \in Seq(Int) /\ Len(G[n]) \in Nat
  <2>1. ASSUME NEW n \in 0 .. Len(t) PROVE G[n] \in Seq(Int) /\ Len(G[n]) \in Nat
    <3>1. G[n] \in Seq(1 .. n)
      BY <1>2 DEF Spells
    <3> QED BY <3>1
  <2> QED BY <2>1
<1>4. ASSUME NEW n \in 1 .. Len(t) PROVE Ext(G[n - 1], G[n])
  <2>1. n - 1 \in 0 .. Len(t)
    BY <1>0
  <2>2. G[n - 1] \in Seq(Int) /\ n \in Int /\ Len(G[n - 1]) \in Nat
    BY <1>3, <2>1
  <2> DEFINE g == G[n - 1]
  <2>3. Len(Append(g, n)) = Len(g) + 1 /\ \A k \in 1 .. Len(g) : Append(g, n)[k] = g[k]
    <3> HIDE DEF g
    <3> QED BY <2>2 DEF g
  <2>4. G[n] = g \/ G[n] = Append(g, n)
    BY <1>1
  <2> HIDE DEF g
  <2>5. Len(g) \in Nat
    BY <2>2 DEF g
  <2>6. CASE G[n] = g
    <3>1. Len(G[n]) = Len(g) /\ \A k \in 1 .. Len(g) : G[n][k] = g[k]
      BY <2>6
    <3> QED BY <2>5, <3>1 DEF g
  <2>7. CASE G[n] = Append(g, n)
    <3>1. Len(G[n]) = Len(g) + 1 /\ \A k \in 1 .. Len(g) : G[n][k] = g[k]
      BY <2>3, <2>7
    <3> QED BY <2>5, <3>1 DEF g
  <2> QED BY <2>4, <2>6, <2>7
<1>5. Bad = {}
  <2>1. SUFFICES ASSUME Bad # {} PROVE FALSE
    OBVIOUS
  <2>2. PICK n \in Bad : \A k \in Bad : n <= k
    <3>1. Bad \subseteq Nat
      BY <1>0
    <3> HIDE DEF Bad
    <3> QED BY <2>1, <3>1, NatLeast
  <2>3. n \in 0 .. Len(t) /\ n \in Nat
    BY <1>0
  <2>4. PICK i \in 0 .. n : ~Ext(G[i], G[n])
    OBVIOUS
  <2>5. i # n
    BY <2>3, <2>4, <1>3
  <2>6. n \in 1 .. Len(t) /\ n - 1 \in 0 .. Len(t) /\ i \in 0 .. n - 1 /\ ~(n <= n - 1) /\ i \in 0 .. Len(t)
    BY <2>3, <2>5, <1>0
  <2>7. Ext(G[i], G[n - 1])
    BY <2>2, <2>6
  <2>8. Ext(G[n - 1], G[n])
    BY <2>6, <1>4
  <2>9. Len(G[i]) \in Nat /\ Len(G[n - 1]) \in Nat /\ Len(G[n]) \in Nat
    BY <2>3, <2>6, <1>3
  <2>10. Ext(G[i], G[n])
    BY <2>7, <2>8, <2>9
  <2> QED BY <2>4, <2>10
<1> QED BY <1>5 DEF G

LEMMA GreedyIsFirst ==
    ASSUME NEW t \in Text, NEW p \in Text, NEW at, Embeds(t, p, at)
    PROVE  Len(GreedyUpto(t, p)[Len(t)]) >= Len(p)
<1> DEFINE G == GreedyUpto(t, p)
<1>0. Len(t) \in Nat /\ Len(p) \in Nat
  BY DEF Text
<1>1. \A n \in 0 .. Len(t) : \A k \in 1 .. Len(p) : at[k] <= n => k <= Len(G[n])
  BY GreedyKeepsUp
<1>2. Spells(t, p, Len(t), G[Len(t)])
  BY <1>0, GreedySpells
<1> HIDE DEF G
<1>3. G[Len(t)] \in Seq(1 .. Len(t)) /\ Len(G[Len(t)]) \in Nat
  BY <1>2 DEF Spells
<1>4. CASE Len(p) = 0
  BY <1>0, <1>3, <1>4 DEF G
<1>5. CASE Len(p) # 0
  <2>1. Len(p) \in 1 .. Len(p) /\ Len(t) \in 0 .. Len(t)
    BY <1>0, <1>5
  <2>2. at[Len(p)] <= Len(t)
    BY <2>1, <1>0 DEF Embeds
  <2> QED BY <1>1, <2>1, <2>2, <1>0, <1>3 DEF G
<1> QED BY <1>4, <1>5

\* So the pattern is found exactly when it stands in the text with gaps.
LEMMA GreedyFinds ==
    ASSUME NEW t \in Text, NEW p \in Text
    PROVE  /\ Len(M!GreedyPlaces(t, p)) \in Nat /\ Len(M!GreedyPlaces(t, p)) <= Len(p)
           /\ Len(M!GreedyPlaces(t, p)) = Len(p) <=> \E at : Embeds(t, p, at)
<1> DEFINE g == M!GreedyPlaces(t, p)
<1>0. Len(t) \in Nat /\ Len(p) \in Nat
  BY DEF Text
<1>1. g = GreedyUpto(t, p)[Len(t)]
  BY GreedyIs
<1>2. Spells(t, p, Len(t), g)
  BY <1>0, <1>1, GreedySpells
<1>3. (\E at : Embeds(t, p, at)) => Len(g) >= Len(p)
  BY <1>1, GreedyIsFirst
<1> HIDE DEF g
<1>4. g \in Seq(1 .. Len(t)) /\ Len(g) \in Nat /\ Len(g) <= Len(p)
  BY <1>2 DEF Spells
<1>5. Len(g) = Len(p) => Embeds(t, p, g)
  <2>1. g \in [1 .. Len(g) -> 1 .. Len(t)]
    BY <1>4
  <2> QED BY <2>1, <1>2 DEF Spells, Embeds
<1> QED BY <1>0, <1>3, <1>4, <1>5 DEF g

\* No places of the pattern in the text come before those found.
LEMMA GreedyEarliest ==
    ASSUME NEW t \in Text, NEW p \in Text, NEW at, Embeds(t, p, at)
    PROVE  LET g == M!GreedyPlaces(t, p)
           IN  Embeds(t, p, g) /\ Len(g) = Len(p) /\ g \in Seq(1 .. Len(t)) /\ \A k \in 1 .. Len(p) : g[k] <= at[k]
<1> DEFINE G == GreedyUpto(t, p)
           g == M!GreedyPlaces(t, p)
<1>0. Len(t) \in Nat /\ Len(p) \in Nat
  BY DEF Text
<1>1. g = G[Len(t)]
  BY GreedyIs
<1>2. Len(g) = Len(p)
  BY GreedyFinds
<1>3. \A n \in 0 .. Len(t) : Spells(t, p, n, G[n])
  BY GreedySpells
<1>4. \A n \in 0 .. Len(t) : \A k \in 1 .. Len(p) : at[k] <= n => k <= Len(G[n])
  BY GreedyKeepsUp
<1>5. \A n \in 0 .. Len(t) : \A i \in 0 .. n : \A k \in 1 .. Len(G[i]) : G[n][k] = G[i][k]
  BY GreedyGrows
<1> HIDE DEF G, g
<1>6. Spells(t, p, Len(t), g)
  BY <1>0, <1>1, <1>3
<1>7. Embeds(t, p, g) /\ g \in Seq(1 .. Len(t))
  <2>1. g \in Seq(1 .. Len(t)) /\ \A k \in 1 .. Len(p) : t[g[k]] = p[k] /\ (k > 1 => g[k - 1] < g[k])
    BY <1>2, <1>6 DEF Spells
  <2>2. g \in [1 .. Len(p) -> 1 .. Len(t)]
    BY <1>2, <2>1
  <2> QED BY <2>1, <2>2 DEF Embeds
<1>8. ASSUME NEW k \in 1 .. Len(p) PROVE g[k] <= at[k]
  <2>1. at[k] \in 0 .. Len(t) /\ at[k] \in 1 .. Len(t)
    BY DEF Embeds
  <2> DEFINE n == at[k]
  <2> HIDE DEF n
  <2>2. n \in 0 .. Len(t) /\ n \in Nat
    BY <2>1, <1>0 DEF n
  <2>3. G[n] \in Seq(1 .. n)
    BY <1>3, <2>2 DEF Spells
  <2>4. k <= Len(G[n])
    BY <1>4, <2>2 DEF n
  <2>5. k \in 1 .. Len(G[n])
    <3>1. Len(G[n]) \in Nat /\ k \in Nat /\ k >= 1
      BY <2>3, <1>0
    <3> QED BY <2>4, <3>1
  <2>6. G[n][k] \in 1 .. n
    <3> DEFINE h == G[n]
               S == 1 .. n
    <3>1. h \in Seq(S) /\ k \in 1 .. Len(h)
      BY <2>3, <2>5
    <3> HIDE DEF h, S
    <3>2. h[k] \in S
      BY <3>1
    <3> QED BY <3>2 DEF h, S
  <2>7. G[Len(t)][k] = G[n][k]
    BY <1>0, <1>5, <2>2, <2>5
  <2> QED BY <2>2, <2>6, <2>7, <1>1 DEF n
<1> QED BY <1>2, <1>7, <1>8 DEF g

-----------------------------------------------------------------------------
(* Images of characters. *)

LEMMA LowerIs ==
    ASSUME NEW c \in Char
    PROVE  M!Lower(c) \in Char /\ (M!Lower(c) \in M!Spaces <=> c \in M!Spaces)
<1>1. DOMAIN M!LowerOf = {"A", "B", "E"} /\ M!LowerOf["A"] = "a" /\ M!LowerOf["B"] = "b" /\ M!LowerOf["E"] = "e"
  BY DEF M!LowerOf
<1>2. {"a", "b", "e", "A", "B", "E"} \cap M!Spaces = {}
  BY DEF M!Spaces
<1>3. CASE c \in {"A", "B", "E"}
  <2>1. M!Lower(c) = M!LowerOf[c]
    BY <1>1, <1>3 DEF M!Lower
  <2>2. M!Lower(c) \in {"a", "b", "e"}
    BY <1>1, <1>3, <2>1
  <2>3. M!Lower(c) \in Char
    BY <2>2 DEF Char
  <2>4. M!Lower(c) \notin M!Spaces /\ c \notin M!Spaces
    <3> DEFINE letters == {"a", "b", "e", "A", "B", "E"}
    <3>1. M!Lower(c) \in letters /\ c \in letters
      BY <1>3, <2>2
    <3> HIDE DEF letters
    <3> QED BY <1>2, <3>1 DEF letters
  <2> QED BY <2>3, <2>4
<1>4. CASE c \notin {"A", "B", "E"}
  BY <1>1, <1>4 DEF M!Lower
<1> QED BY <1>3, <1>4

LEMMA ImageIs ==
    ASSUME NEW c \in Char, NEW normalize, NEW cs
    PROVE  /\ M!Image(c, normalize, cs) \in Char
           /\ M!Image(c, normalize, cs) \in M!Spaces <=> c \in M!Spaces
<1> DEFINE plain == IF normalize /\ c \in DOMAIN M!Plain THEN M!Plain[c] ELSE c
<1>1. DOMAIN M!Plain = {"e_acute", "E_acute"} /\ M!Plain["e_acute"] = "e" /\ M!Plain["E_acute"] = "E"
  BY DEF M!Plain
<1>2. plain \in Char /\ (plain \in M!Spaces <=> c \in M!Spaces)
  <2>1. {"e", "E", "e_acute", "E_acute"} \cap M!Spaces = {}
    BY DEF M!Spaces
  <2>2. CASE normalize /\ c \in {"e_acute", "E_acute"}
    <3>1. plain \in {"e", "E"}
      BY <1>1, <2>2
    <3> HIDE DEF plain
    <3>2. plain \in Char
      BY <3>1 DEF Char
    <3>3. plain \notin M!Spaces /\ c \notin M!Spaces
      <4> DEFINE letters == {"e", "E", "e_acute", "E_acute"}
      <4>1. plain \in letters /\ c \in letters
        BY <2>2, <3>1
      <4> HIDE DEF letters
      <4> QED BY <2>1, <4>1 DEF letters
    <3> QED BY <3>2, <3>3
  <2>3. CASE ~(normalize /\ c \in {"e_acute", "E_acute"})
    BY <1>1, <2>3
  <2> QED BY <2>2, <2>3
<1>3. M!Image(c, normalize, cs) = IF cs THEN plain ELSE M!Lower(plain)
  BY DEF M!Image
<1> HIDE DEF plain
<1>4. M!Lower(plain) \in Char /\ (M!Lower(plain) \in M!Spaces <=> plain \in M!Spaces)
  BY <1>2, LowerIs
<1>5. CASE cs
  BY <1>2, <1>3, <1>5
<1>6. CASE ~cs
  <2>1. M!Image(c, normalize, cs) = M!Lower(plain)
    BY <1>3, <1>6
  <2> QED BY <2>1, <1>2, <1>4
<1> QED BY <1>5, <1>6

LEMMA ImagesAre ==
    ASSUME NEW s \in Text, NEW normalize, NEW cs
    PROVE  LET t == M!Images(s, normalize, cs)
           IN  /\ t \in Text /\ Len(t) = Len(s) /\ Len(s) \in Nat
               /\ \A i \in 1 .. Len(s) : t[i] \in M!Spaces <=> s[i] \in M!Spaces
<1> DEFINE t == M!Images(s, normalize, cs)
<1>1. Len(s) \in Nat /\ DOMAIN s = 1 .. Len(s) /\ \A i \in 1 .. Len(s) : s[i] \in Char
  BY DEF Text
<1>2. t = [i \in 1 .. Len(s) |-> M!Image(s[i], normalize, cs)]
  BY <1>1 DEF M!Images
<1>3. \A i \in 1 .. Len(s) : /\ M!Image(s[i], normalize, cs) \in Char
                             /\ M!Image(s[i], normalize, cs) \in M!Spaces <=> s[i] \in M!Spaces
  BY <1>1, ImageIs
<1> HIDE DEF t
<1>4. t \in Seq(Char) /\ Len(t) = Len(s)
  <2>1. t \in [1 .. Len(s) -> Char]
    BY <1>2, <1>3
  <2> QED BY <1>1, <2>1
<1>5. \A i \in 1 .. Len(s) : t[i] = M!Image(s[i], normalize, cs)
  BY <1>2
<1> QED BY <1>1, <1>3, <1>4, <1>5 DEF t, Text

\* A term, as parse_terms makes it, and the views its algorithms work on.
Types == {"Fuzzy", "Exact", "ExactBoundary", "Prefix", "Suffix", "Equal"}
Term == [type : Types, inverse : BOOLEAN, cs : BOOLEAN, text : Text \ {<<>>}]

LEMMA TermFacts ==
    ASSUME NEW opt, NEW s \in Text, NEW term \in Term
    PROVE  LET t == M!Images(s, opt.normalize, term.cs)
               p == M!Images(term.text, opt.normalize, term.cs)
           IN  /\ t \in Text /\ Len(t) = Len(s) /\ Len(s) \in Nat
               /\ p \in Text /\ p # <<>> /\ Len(p) \in Nat /\ Len(p) >= 1
               /\ DOMAIN t = 1 .. Len(t) /\ DOMAIN p = 1 .. Len(p) /\ DOMAIN s = 1 .. Len(s)
               /\ Head(p) = p[1] /\ Last(p) = p[Len(p)] /\ M!Last(p) = p[Len(p)]
               /\ \A i \in 1 .. Len(s) : t[i] \in M!Spaces <=> s[i] \in M!Spaces
<1> DEFINE t == M!Images(s, opt.normalize, term.cs)
           p == M!Images(term.text, opt.normalize, term.cs)
<1>1. t \in Text /\ Len(t) = Len(s) /\ Len(s) \in Nat /\ \A i \in 1 .. Len(s) : t[i] \in M!Spaces <=> s[i] \in M!Spaces
  BY ImagesAre
<1>2. term.text \in Text /\ term.text # <<>>
  BY DEF Term
<1>3. Len(term.text) >= 1 /\ Len(term.text) \in Nat
  BY <1>2 DEF Text
<1>4. p \in Text /\ Len(p) = Len(term.text)
  BY <1>2, ImagesAre
<1> HIDE DEF t, p
<1>5. p # <<>> /\ Len(p) \in Nat /\ Len(p) >= 1 /\ DOMAIN p = 1 .. Len(p) /\ Head(p) = p[1]
  BY <1>3, <1>4 DEF Text
<1>6. DOMAIN t = 1 .. Len(t) /\ DOMAIN s = 1 .. Len(s)
  BY <1>1 DEF Text
<1>7. Last(p) = p[Len(p)] /\ M!Last(p) = p[Len(p)]
  BY DEF Last, M!Last
<1> QED BY <1>1, <1>4, <1>5, <1>6, <1>7 DEF t, p

-----------------------------------------------------------------------------
(* Fuzzy matches. *)

LEMMA FuzzyIsRight ==
    ASSUME NEW cl, NEW t \in Text, NEW p \in Text, p # <<>>
    PROVE  /\ M!FuzzyMatchV1(cl, t, p).matched <=> \E at : Embeds(t, p, at)
           /\ M!FuzzyMatchV2(cl, t, p).matched <=> \E at : Embeds(t, p, at)
<1> DEFINE g == M!GreedyPlaces(t, p)
<1>1. Len(g) \in Nat /\ Len(g) <= Len(p) /\ (Len(g) = Len(p) <=> \E at : Embeds(t, p, at)) /\ Len(p) \in Nat
  BY GreedyFinds DEF Text
<1>2. Len(g) < Len(p) <=> ~ \E at : Embeds(t, p, at)
  <2> HIDE DEF g
  <2> QED BY <1>1
<1>3. M!NoMatch.matched = FALSE
  BY DEF M!NoMatch
<1>4. M!Shrunk(cl, t, p, M!Last(g)).matched = TRUE
  BY DEF M!Shrunk, M!ScoredMatch, M!Scored, M!Found
<1>5. M!InWindow(cl, t, p, g[1]).matched = TRUE
  BY DEF M!InWindow, M!BestMatch, M!FoundAt, M!Found
<1>6. M!FuzzyMatchV1(cl, t, p) = IF Len(g) < Len(p) THEN M!NoMatch ELSE M!Shrunk(cl, t, p, M!Last(g))
  BY DEF M!FuzzyMatchV1
<1>7. M!FuzzyMatchV2(cl, t, p) = IF Len(g) < Len(p) THEN M!NoMatch ELSE M!InWindow(cl, t, p, g[1])
  BY DEF M!FuzzyMatchV2
<1> HIDE DEF g
<1> QED BY <1>2, <1>3, <1>4, <1>5, <1>6, <1>7

\* What a fuzzy term asks for is that its characters stand in the text with gaps.
LEMMA FuzzyAsks ==
    ASSUME NEW t \in Text, NEW p \in Text
    PROVE  (\E at \in [DOMAIN p -> {j \in DOMAIN t : t[j] \in Range(p)}] :
               \A k \in DOMAIN p : t[at[k]] = p[k] /\ (k > 1 => at[k - 1] < at[k]))
           <=> \E at : Embeds(t, p, at)
<1>0. DOMAIN p = 1 .. Len(p) /\ DOMAIN t = 1 .. Len(t) /\ Len(p) \in Nat /\ Len(t) \in Nat
  BY DEF Text
<1> DEFINE J == {j \in DOMAIN t : t[j] \in Range(p)}
<1>1. ASSUME NEW at \in [DOMAIN p -> J], \A k \in DOMAIN p : t[at[k]] = p[k] /\ (k > 1 => at[k - 1] < at[k])
      PROVE  Embeds(t, p, at)
  <2>1. at \in [1 .. Len(p) -> 1 .. Len(t)]
    BY <1>0
  <2> QED BY <1>0, <1>1, <2>1 DEF Embeds
<1>2. ASSUME NEW at, Embeds(t, p, at)
      PROVE  at \in [DOMAIN p -> J] /\ \A k \in DOMAIN p : t[at[k]] = p[k] /\ (k > 1 => at[k - 1] < at[k])
  <2>1. at \in [DOMAIN p -> DOMAIN t] /\ \A k \in DOMAIN p : t[at[k]] = p[k] /\ (k > 1 => at[k - 1] < at[k])
    BY <1>0, <1>2 DEF Embeds
  <2>2. \A k \in DOMAIN p : p[k] \in Range(p)
    BY DEF Range
  <2>3. \A k \in DOMAIN p : at[k] \in J
    BY <2>1, <2>2
  <2> HIDE DEF J
  <2> QED BY <2>1, <2>3
<1> QED BY <1>1, <1>2

-----------------------------------------------------------------------------
(* Parts of a text. *)

LEMMA PartIs ==
    ASSUME NEW s \in Text, NEW a \in Nat, NEW b \in Nat, a <= b, b <= Len(s)
    PROVE  LET part == SubSeq(s, a + 1, b)
           IN  /\ part \in Text /\ Len(part) = b - a
               /\ \A i \in 1 .. b - a : part[i] = s[a + i]
<1>1. Len(s) \in Nat /\ s \in Seq(Char)
  BY DEF Text
<1>2. a + 1 \in 1 .. Len(s) + 1 /\ b \in a + 1 - 1 .. Len(s)
  BY <1>1
<1> DEFINE m == a + 1
           part == SubSeq(s, m, b)
<1>3. /\ part \in Seq(Char) /\ Len(part) = IF m <= b THEN b - m + 1 ELSE 0
      /\ \A i \in 1 .. b - m + 1 : part[i] = s[m + i - 1]
  <2> HIDE DEF m
  <2> QED BY <1>1, <1>2, SubSeqProperties DEF m
<1>4. Len(part) = b - a
  <2> HIDE DEF part
  <2> QED BY <1>3
<1>5. ASSUME NEW i \in 1 .. b - a PROVE part[i] = s[a + i]
  <2>1. i \in 1 .. b - m + 1 /\ m + i - 1 = a + i
    OBVIOUS
  <2> HIDE DEF part, m
  <2> QED BY <1>3, <2>1
<1> HIDE DEF part
<1> QED BY <1>3, <1>4, <1>5 DEF part, Text

LEMMA BeginningIs ==
    ASSUME NEW s \in Text, NEW b \in Nat, b <= Len(s)
    PROVE  /\ SubSeq(s, 1, b) \in Text /\ Len(SubSeq(s, 1, b)) = b
           /\ \A i \in 1 .. b : SubSeq(s, 1, b)[i] = s[i]
<1>1. \A a \in Nat : a <= b =>
          LET part == SubSeq(s, a + 1, b)
          IN  part \in Text /\ Len(part) = b - a /\ \A i \in 1 .. b - a : part[i] = s[a + i]
  BY PartIs
<1> DEFINE a == 0
<1>2. a \in Nat /\ a <= b /\ a + 1 = 1 /\ b - a = b /\ \A i \in 1 .. b : a + i = i
  OBVIOUS
<1> HIDE DEF a
<1>3. SubSeq(s, a + 1, b) \in Text /\ Len(SubSeq(s, a + 1, b)) = b - a /\ \A i \in 1 .. b - a : SubSeq(s, a + 1, b)[i] = s[a + i]
  BY <1>1, <1>2
<1> QED BY <1>2, <1>3

\* Two texts are the same when their characters are.
LEMMA SameText ==
    ASSUME NEW s \in Text, NEW t \in Text, Len(s) = Len(t), \A i \in 1 .. Len(s) : s[i] = t[i]
    PROVE  s = t
BY DEF Text

LEMMA StandsIs ==
    ASSUME NEW t \in Text, NEW p \in Text, NEW d \in Nat, d + Len(p) <= Len(t)
    PROVE  M!StandsAt(t, p, d) <=> SubSeq(t, d + 1, d + Len(p)) = p
<1> DEFINE n == Len(p)
           part == SubSeq(t, d + 1, d + n)
<1>1. n \in Nat /\ DOMAIN p = 1 .. n /\ d + n \in Nat /\ d <= d + n /\ d + n - d = n
  BY DEF Text
<1>2. part \in Text /\ Len(part) = n /\ \A i \in 1 .. n : part[i] = t[d + i]
  <2> DEFINE b == d + n
  <2>1. b \in Nat /\ d <= b /\ b <= Len(t) /\ b - d = n
    BY <1>1
  <2> HIDE DEF b
  <2>2. SubSeq(t, d + 1, b) \in Text /\ Len(SubSeq(t, d + 1, b)) = b - d
        /\ \A i \in 1 .. b - d : SubSeq(t, d + 1, b)[i] = t[d + i]
    BY <2>1, PartIs
  <2> QED BY <2>1, <2>2 DEF b
<1> HIDE DEF part
<1>3. M!StandsAt(t, p, d) <=> \A k \in 1 .. n : t[d + k] = p[k]
  BY <1>1 DEF M!StandsAt
<1>4. ASSUME \A k \in 1 .. n : t[d + k] = p[k] PROVE part = p
  <2>1. \A i \in 1 .. Len(part) : part[i] = p[i]
    BY <1>2, <1>4
  <2> QED BY <1>2, <2>1, SameText
<1> QED BY <1>2, <1>3, <1>4 DEF part

-----------------------------------------------------------------------------
(* Exact matches. *)

LEMMA ExactIsRight ==
    ASSUME NEW s, NEW cl, NEW t, NEW p, p # <<>>, NEW boundary \in BOOLEAN
    PROVE  M!ExactMatchNaive(s, cl, t, p, boundary).matched <=>
               \E d \in 0 .. Len(t) - Len(p) : M!StandsAt(t, p, d) /\ (boundary => M!OnBoundaries(cl, p, d))
<1> DEFINE D == {d \in 0 .. Len(t) - Len(p) : M!StandsAt(t, p, d) /\ (boundary => M!OnBoundaries(cl, p, d))}
<1>1. M!ExactMatchAt(s, cl, t, p, boundary, M!KeptStart(cl, D)).matched = TRUE
  <2> HIDE DEF D
  <2>1. CASE boundary
    BY <2>1 DEF M!ExactMatchAt, M!Found
  <2>2. CASE ~boundary
    BY <2>2 DEF M!ExactMatchAt, M!ScoredMatch, M!Scored, M!Found
  <2> QED BY <2>1, <2>2
<1>2. M!ExactMatchNaive(s, cl, t, p, boundary) =
          IF D = {} THEN M!NoMatch ELSE M!ExactMatchAt(s, cl, t, p, boundary, M!KeptStart(cl, D))
  BY DEF M!ExactMatchNaive
<1>3. M!NoMatch.matched = FALSE
  BY DEF M!NoMatch
<1>4. D # {} <=> \E d \in 0 .. Len(t) - Len(p) : M!StandsAt(t, p, d) /\ (boundary => M!OnBoundaries(cl, p, d))
  OBVIOUS
<1> HIDE DEF D
<1> QED BY <1>1, <1>2, <1>3, <1>4

\* After the start of the text, or a character outside words, the bonus is at
\* least that of a boundary.
LEMMA BonusAtBoundary ==
    ASSUME NEW prev \in M!Outside, NEW curr
    PROVE  M!BonusFor(prev, curr) >= M!BonusBoundary
BY DEF M!Outside, M!BonusFor, M!BonusBoundary, M!BonusBoundaryWhite, M!BonusBoundaryDelimiter, M!BonusCamel123, M!BonusNonWord

LEMMA BoundaryIs ==
    ASSUME NEW s \in Text, NEW p \in Text, p # <<>>, NEW cl, cl = [j \in DOMAIN s |-> M!ClassOf(s[j])],
           NEW d \in Nat, d + Len(p) <= Len(s)
    PROVE  M!OnBoundaries(cl, p, d) <=>
               /\ d > 0 => ~WordChar(s[d])
               /\ d + Len(p) < Len(s) => ~WordChar(s[d + Len(p) + 1])
<1>0. Len(s) \in Nat /\ Len(p) \in Nat /\ Len(p) >= 1 /\ DOMAIN s = 1 .. Len(s)
  BY DEF Text
<1>1. \A j \in 1 .. Len(s) : cl[j] \in M!Outside <=> ~WordChar(s[j])
  BY <1>0 DEF WordChar
<1>2. Len(cl) = Len(s)
  BY <1>0
<1>3. (d > 0 => cl[d] \in M!Outside) => M!Bonus(cl, d + 1) >= M!BonusBoundary
  <2>1. ASSUME d > 0 => cl[d] \in M!Outside PROVE M!Bonus(cl, d + 1) >= M!BonusBoundary
    <3>1. M!Bonus(cl, d + 1) = M!BonusFor(IF d + 1 = 1 THEN "White" ELSE cl[d + 1 - 1], cl[d + 1])
      BY DEF M!Bonus
    <3>2. d + 1 - 1 = d /\ (d + 1 = 1 <=> ~(d > 0))
      OBVIOUS
    <3>3. (IF d + 1 = 1 THEN "White" ELSE cl[d + 1 - 1]) \in M!Outside
      <4>1. CASE d > 0
        BY <2>1, <3>2, <4>1
      <4>2. CASE ~(d > 0)
        BY <3>2, <4>2 DEF M!Outside
      <4> QED BY <4>1, <4>2
    <3> QED BY <3>1, <3>3, BonusAtBoundary
  <2> QED BY <2>1
<1>4. d > 0 => d \in 1 .. Len(s)
  BY <1>0
<1>5. d + Len(p) < Len(s) => d + Len(p) + 1 \in 1 .. Len(s)
  BY <1>0
<1>6. M!OnBoundaries(cl, p, d) <=> /\ M!Bonus(cl, d + 1) >= M!BonusBoundary
                                   /\ d > 0 => cl[d] \in M!Outside
                                   /\ d + Len(p) < Len(s) => cl[d + Len(p) + 1] \in M!Outside
  BY <1>2 DEF M!OnBoundaries
<1> QED BY <1>1, <1>3, <1>4, <1>5, <1>6

-----------------------------------------------------------------------------
(* Spaces around a text. *)

First(s) == Min(Black(s) \cup {Len(s) + 1})
Final(s) == Max(Black(s) \cup {0})

LEMMA CardinalityIs ==
    ASSUME NEW a \in Nat, NEW b \in Nat, a <= b
    PROVE  M!Cardinality(a + 1 .. b) = b - a
<1>1. M!Cardinality(a + 1 .. b) = Cardinality(a + 1 .. b)
  BY DEF M!Cardinality, Cardinality
<1>2. a + 1 \in Int /\ b \in Int
  OBVIOUS
<1>3. Cardinality(a + 1 .. b) = IF a + 1 > b THEN 0 ELSE b - (a + 1) + 1
  BY <1>2, FS_Interval
<1> QED BY <1>1, <1>3

LEMMA BlackFacts ==
    ASSUME NEW s \in Text
    PROVE  LET n == Len(s)
               b == First(s)
               m == Final(s)
           IN  /\ n \in Nat /\ b \in 1 .. n + 1 /\ m \in 0 .. n
               /\ Black(s) \subseteq 1 .. n
               /\ \A i \in Black(s) : b <= i /\ i <= m
               /\ b # n + 1 => b \in Black(s)
               /\ m # 0 => m \in Black(s)
               /\ b <= m \/ (b = n + 1 /\ m = 0)
               /\ M!LeadingSpaces(s) = b - 1
               /\ M!TrailingSpaces(s) = n - m
<1> DEFINE n == Len(s)
           b == First(s)
           m == Final(s)
           B == Black(s)
<1>0. n \in Nat /\ DOMAIN s = 1 .. n
  BY DEF Text
<1>1. B \subseteq 1 .. n /\ \A i \in 1 .. n : i \in B <=> s[i] \notin M!Spaces
  BY <1>0 DEF Black
<1>2. b \in B \cup {n + 1} /\ \A i \in B \cup {n + 1} : b <= i
  <2>1. B \cup {n + 1} \subseteq Nat /\ B \cup {n + 1} # {}
    BY <1>0, <1>1
  <2> HIDE DEF B
  <2> QED BY <2>1, MinIs DEF First, B
<1>3. m \in B \cup {0} /\ \A i \in B \cup {0} : i <= m
  <2>1. B \cup {0} \subseteq 0 .. n /\ B \cup {0} # {}
    BY <1>0, <1>1
  <2> HIDE DEF B, n
  <2> QED BY <2>1, <1>0, MaxIs DEF Final, B
<1> HIDE DEF B, b, m
<1>4. b \in 1 .. n + 1 /\ m \in 0 .. n /\ (b # n + 1 => b \in B) /\ (m # 0 => m \in B) /\ \A i \in B : b <= i /\ i <= m
  BY <1>0, <1>1, <1>2, <1>3
<1>5. b <= m \/ (b = n + 1 /\ m = 0)
  BY <1>0, <1>4
<1>6. M!LeadingSpaces(s) = b - 1
  <2> DEFINE S == {i \in DOMAIN s : \A j \in 1 .. i : s[j] \in M!Spaces}
  <2>1. ASSUME NEW i \in S PROVE i \in 1 .. b - 1
    <3>1. i \in 1 .. n /\ \A j \in 1 .. i : s[j] \in M!Spaces
      BY <1>0
    <3>2. ~ (b <= i)
      <4>1. SUFFICES ASSUME b <= i PROVE FALSE
        OBVIOUS
      <4>2. b \in 1 .. i /\ b \in B /\ b \in 1 .. n
        BY <4>1, <3>1, <1>0, <1>4
      <4> QED BY <4>2, <3>1, <1>1
    <3> QED BY <3>1, <3>2, <1>0, <1>4
  <2>2. ASSUME NEW i \in 1 .. b - 1 PROVE i \in S
    <3>1. i \in 1 .. n
      BY <1>0, <1>4
    <3>2. ASSUME NEW j \in 1 .. i PROVE s[j] \in M!Spaces
      <4>1. j \in 1 .. n /\ ~ (b <= j)
        BY <1>0, <1>4, <3>1
      <4> QED BY <4>1, <1>1, <1>4
    <3> QED BY <3>1, <3>2, <1>0
  <2>3. S = 0 + 1 .. b - 1
    <3>1. 0 + 1 = 1
      OBVIOUS
    <3>2. S = 1 .. b - 1
      <4> HIDE DEF S
      <4> QED BY <2>1, <2>2
    <3> QED BY <3>1, <3>2
  <2>4. M!LeadingSpaces(s) = M!Cardinality(S)
    BY DEF M!LeadingSpaces
  <2>5. b - 1 \in Nat /\ 0 <= b - 1 /\ b - 1 - 0 = b - 1
    BY <1>0, <1>4
  <2> DEFINE c == b - 1
  <2> HIDE DEF S, c
  <2>6. M!Cardinality(0 + 1 .. c) = c - 0
    BY <2>5, CardinalityIs DEF c
  <2> QED BY <2>3, <2>4, <2>5, <2>6 DEF c
<1>7. M!TrailingSpaces(s) = n - m
  <2> DEFINE S == {i \in DOMAIN s : \A j \in i .. n : s[j] \in M!Spaces}
  <2>1. ASSUME NEW i \in S PROVE i \in m + 1 .. n
    <3>1. i \in 1 .. n /\ \A j \in i .. n : s[j] \in M!Spaces
      BY <1>0
    <3>2. ~ (i <= m)
      <4>1. SUFFICES ASSUME i <= m PROVE FALSE
        OBVIOUS
      <4>2. m \in i .. n /\ m \in B /\ m \in 1 .. n
        BY <4>1, <3>1, <1>0, <1>4
      <4> QED BY <4>2, <3>1, <1>1
    <3> QED BY <3>1, <3>2, <1>0, <1>4
  <2>2. ASSUME NEW i \in m + 1 .. n PROVE i \in S
    <3>1. i \in 1 .. n
      BY <1>0, <1>4
    <3>2. ASSUME NEW j \in i .. n PROVE s[j] \in M!Spaces
      <4>1. j \in 1 .. n /\ ~ (j <= m)
        BY <1>0, <1>4, <3>1
      <4> QED BY <4>1, <1>1, <1>4
    <3> QED BY <3>1, <3>2, <1>0
  <2>3. S = m + 1 .. n
    <3> HIDE DEF S
    <3> QED BY <2>1, <2>2
  <2>4. M!TrailingSpaces(s) = M!Cardinality(S)
    BY DEF M!TrailingSpaces
  <2>5. m \in Nat /\ m <= n
    BY <1>0, <1>4
  <2> HIDE DEF S, n
  <2> QED BY <2>3, <2>4, <2>5, <1>0, CardinalityIs
<1> QED BY <1>0, <1>1, <1>4, <1>5, <1>6, <1>7 DEF B, b, m

\* The image of a text has its spaces where the text has them.
LEMMA SameBlack ==
    ASSUME NEW s \in Text, NEW t \in Text, Len(t) = Len(s),
           \A i \in 1 .. Len(s) : t[i] \in M!Spaces <=> s[i] \in M!Spaces
    PROVE  Black(t) = Black(s) /\ First(t) = First(s) /\ Final(t) = Final(s)
<1>1. DOMAIN s = 1 .. Len(s) /\ DOMAIN t = 1 .. Len(s)
  BY DEF Text
<1>2. Black(t) = Black(s)
  BY <1>1 DEF Black
<1> QED BY <1>2 DEF First, Final

LEMMA PrefixStands ==
    ASSUME NEW t \in Text, NEW p \in Text, NEW d \in Nat, d <= Len(t)
    PROVE  IsPrefix(p, SubSeq(t, d + 1, Len(t))) <=> M!StandsAt(t, p, d)
<1> DEFINE n == Len(p)
           N == Len(t)
           l == SubSeq(t, d + 1, N)
<1>0. n \in Nat /\ N \in Nat /\ DOMAIN p = 1 .. n
  BY DEF Text
<1>1. l \in Text /\ Len(l) = N - d /\ \A i \in 1 .. N - d : l[i] = t[d + i]
  BY <1>0, PartIs
<1> HIDE DEF l
<1>2. CASE ~ (n <= N - d)
  <2>1. ~ IsPrefix(p, l)
    BY <1>1, <1>2 DEF IsPrefix
  <2>2. ~ M!StandsAt(t, p, d)
    BY <1>0, <1>2 DEF M!StandsAt
  <2> QED BY <2>1, <2>2 DEF l
<1>3. CASE n <= N - d
  <2>1. d + n <= N
    BY <1>0, <1>3
  <2>2. M!StandsAt(t, p, d) <=> \A k \in 1 .. n : t[d + k] = p[k]
    BY <1>0, <2>1 DEF M!StandsAt
  <2> DEFINE x == SubSeq(p, 1, n)
             y == SubSeq(l, 1, n)
  <2>3. x \in Text /\ Len(x) = n /\ \A i \in 1 .. n : x[i] = p[i]
    BY <1>0, BeginningIs
  <2>4. y \in Text /\ Len(y) = n /\ \A i \in 1 .. n : y[i] = l[i]
    BY <1>0, <1>1, <1>3, BeginningIs
  <2>5. IsPrefix(p, l) <=> x = y
    BY <1>1, <1>3 DEF IsPrefix
  <2> HIDE DEF x, y
  <2>6. x \in Text /\ y \in Text /\ Len(x) = n /\ Len(y) = n /\ \A i \in 1 .. n : x[i] = p[i] /\ y[i] = t[d + i]
    <3>1. \A i \in 1 .. n : i \in 1 .. N - d
      BY <1>0, <1>3
    <3> QED BY <2>3, <2>4, <1>1, <3>1
  <2>7. x = y <=> \A k \in 1 .. n : t[d + k] = p[k]
    <3>1. ASSUME \A k \in 1 .. n : t[d + k] = p[k] PROVE x = y
      BY <2>6, <3>1, SameText
    <3> QED BY <2>6, <3>1
  <2> QED BY <2>2, <2>5, <2>7 DEF x, y, l
<1> QED BY <1>2, <1>3

LEMMA ReverseIs ==
    ASSUME NEW s \in Text
    PROVE  Reverse(s) \in Text /\ Len(Reverse(s)) = Len(s) /\ \A i \in 1 .. Len(s) : Reverse(s)[i] = s[Len(s) - i + 1]
<1> DEFINE n == Len(s)
<1>1. n \in Nat /\ \A i \in 1 .. n : n - i + 1 \in 1 .. n /\ s[n - i + 1] \in Char
  BY DEF Text
<1>2. Reverse(s) = [i \in 1 .. n |-> s[n - i + 1]]
  BY DEF Reverse
<1> HIDE DEF n
<1>3. Reverse(s) \in [1 .. n -> Char] /\ Len(Reverse(s)) = n
  BY <1>1, <1>2
<1> QED BY <1>1, <1>2, <1>3 DEF Text, n

LEMMA SuffixStands ==
    ASSUME NEW l \in Text, NEW p \in Text
    PROVE  IsSuffix(p, l) <=> M!StandsAt(l, p, Len(l) - Len(p))
<1> DEFINE n  == Len(p)
           N  == Len(l)
           rp == Reverse(p)
           rl == Reverse(l)
<1>0. n \in Nat /\ N \in Nat /\ DOMAIN p = 1 .. n
  BY DEF Text
<1>1. rp \in Text /\ Len(rp) = n /\ (\A i \in 1 .. n : rp[i] = p[n - i + 1]) /\ DOMAIN rp = 1 .. n
  <2>1. rp \in Text /\ Len(rp) = n /\ \A i \in 1 .. n : rp[i] = p[n - i + 1]
    BY ReverseIs
  <2>2. rp \in Text => DOMAIN rp = 1 .. Len(rp)
    BY DEF Text
  <2> QED BY <2>1, <2>2
<1>2. rl \in Text /\ Len(rl) = N /\ \A i \in 1 .. N : rl[i] = l[N - i + 1]
  BY ReverseIs
<1>3. IsSuffix(p, l) <=> IsPrefix(rp, rl)
  BY DEF IsSuffix
<1> HIDE DEF rp, rl
<1> DEFINE x == SubSeq(rp, 1, n)
           y == SubSeq(rl, 1, n)
<1>4. IsPrefix(rp, rl) <=> n <= N /\ x = y
  BY <1>1, <1>2 DEF IsPrefix
<1>5. x \in Text /\ Len(x) = n /\ \A i \in 1 .. n : x[i] = rp[i]
  BY <1>0, <1>1, BeginningIs
<1>6. ASSUME n <= N PROVE x = y <=> \A k \in 1 .. n : rl[k] = rp[k]
  <2>1. y \in Text /\ Len(y) = n /\ \A i \in 1 .. n : y[i] = rl[i]
    BY <1>0, <1>2, <1>6, BeginningIs
  <2> HIDE DEF x, y
  <2>2. ASSUME \A k \in 1 .. n : rl[k] = rp[k] PROVE x = y
    BY <1>5, <2>1, <2>2, SameText
  <2> QED BY <1>5, <2>1, <2>2
<1> HIDE DEF x, y
<1>7. M!StandsAt(l, p, N - n) <=> n <= N /\ \A k \in 1 .. n : l[N - n + k] = p[k]
  BY <1>0 DEF M!StandsAt
<1>8. ASSUME n <= N PROVE (\A k \in 1 .. n : rl[k] = rp[k]) <=> (\A k \in 1 .. n : l[N - n + k] = p[k])
  <2>1. ASSUME \A k \in 1 .. n : rl[k] = rp[k], NEW k \in 1 .. n PROVE l[N - n + k] = p[k]
    <3> DEFINE j == n - k + 1
    <3>1. j \in 1 .. n /\ j \in 1 .. N /\ N - j + 1 = N - n + k /\ n - j + 1 = k
      BY <1>0, <1>8
    <3> HIDE DEF j
    <3>2. rl[j] = l[N - j + 1] /\ rp[j] = p[n - j + 1] /\ rl[j] = rp[j]
      BY <3>1, <1>1, <1>2, <2>1
    <3> QED BY <3>1, <3>2
  <2>2. ASSUME \A k \in 1 .. n : l[N - n + k] = p[k], NEW k \in 1 .. n PROVE rl[k] = rp[k]
    <3> DEFINE j == n - k + 1
    <3>1. j \in 1 .. n /\ k \in 1 .. N /\ N - k + 1 = N - n + j
      BY <1>0, <1>8
    <3> HIDE DEF j
    <3>2. l[N - n + j] = p[j]
      BY <3>1, <2>2
    <3>3. rl[k] = l[N - k + 1] /\ rp[k] = p[j]
      BY <3>1, <1>1, <1>2 DEF j
    <3> QED BY <3>1, <3>2, <3>3
  <2> QED BY <2>1, <2>2
<1> QED BY <1>3, <1>4, <1>6, <1>7, <1>8

\* Text s and its view t for a pattern p, as the algorithms get them.
View(s, t, p) ==
    /\ s \in Text /\ t \in Text /\ p \in Text /\ p # <<>>
    /\ Len(t) = Len(s) /\ \A i \in 1 .. Len(s) : t[i] \in M!Spaces <=> s[i] \in M!Spaces

LEMMA WholeText ==
    ASSUME NEW t \in Text
    PROVE  SubSeq(t, 1, Len(t)) = t
<1>1. Len(t) \in Nat
  BY DEF Text
<1>2. SubSeq(t, 1, Len(t)) \in Text /\ Len(SubSeq(t, 1, Len(t))) = Len(t)
      /\ \A i \in 1 .. Len(t) : SubSeq(t, 1, Len(t))[i] = t[i]
  BY <1>1, BeginningIs
<1> QED BY <1>2, SameText

\* Skipping Lead places leaves what a prefix is looked for in, and dropping Trail
\* places what a suffix is looked for in.
LEMMA LeadIs ==
    ASSUME NEW s, NEW t, NEW p, View(s, t, p)
    PROVE  /\ M!Lead(s, p) \in Nat /\ M!Lead(s, p) <= Len(t)
           /\ (IF Head(p) \in M!Spaces THEN t ELSE WithoutLead(t)) = SubSeq(t, M!Lead(s, p) + 1, Len(t))
           /\ M!Lead(s, p) = IF Head(p) \in M!Spaces THEN 0 ELSE First(t) - 1
<1>1. s \in Text /\ t \in Text /\ Len(t) = Len(s) /\ Len(s) \in Nat /\ First(t) = First(s)
  BY SameBlack DEF View, Text
<1>2. M!LeadingSpaces(s) = First(t) - 1 /\ First(t) \in 1 .. Len(t) + 1
  BY <1>1, BlackFacts
<1>3. CASE Head(p) \in M!Spaces
  <2>1. M!Lead(s, p) = 0
    BY <1>3 DEF M!Lead
  <2>2. 0 + 1 = 1
    OBVIOUS
  <2> QED BY <2>1, <2>2, <1>1, <1>3, WholeText
<1>4. CASE Head(p) \notin M!Spaces
  <2>1. M!Lead(s, p) = First(t) - 1
    BY <1>2, <1>4 DEF M!Lead
  <2>2. First(t) - 1 + 1 = First(t) /\ First(t) - 1 \in Nat /\ First(t) - 1 <= Len(t)
    BY <1>1, <1>2
  <2>3. WithoutLead(t) = SubSeq(t, First(t), Len(t))
    BY DEF WithoutLead, First
  <2> QED BY <2>1, <2>2, <2>3, <1>4
<1> QED BY <1>3, <1>4

LEMMA TrailIs ==
    ASSUME NEW s, NEW t, NEW p, View(s, t, p)
    PROVE  /\ M!Trail(s, p) \in Nat /\ M!Trail(s, p) <= Len(t)
           /\ (IF Last(p) \in M!Spaces THEN t ELSE WithoutTrail(t)) = SubSeq(t, 1, Len(t) - M!Trail(s, p))
           /\ M!Trail(s, p) = IF Last(p) \in M!Spaces THEN 0 ELSE Len(t) - Final(t)
<1>1. s \in Text /\ t \in Text /\ Len(t) = Len(s) /\ Len(s) \in Nat /\ Final(t) = Final(s)
  BY SameBlack DEF View, Text
<1>2. M!TrailingSpaces(s) = Len(t) - Final(t) /\ Final(t) \in 0 .. Len(t)
  BY <1>1, BlackFacts
<1>3. M!Last(p) = Last(p)
  BY DEF Last, M!Last
<1>4. CASE Last(p) \in M!Spaces
  <2>1. M!Trail(s, p) = 0
    BY <1>3, <1>4 DEF M!Trail
  <2>2. Len(t) - 0 = Len(t)
    BY <1>1
  <2> QED BY <2>1, <2>2, <1>1, <1>4, WholeText
<1>5. CASE Last(p) \notin M!Spaces
  <2>1. M!Trail(s, p) = Len(t) - Final(t)
    BY <1>2, <1>3, <1>5 DEF M!Trail
  <2>2. Len(t) - (Len(t) - Final(t)) = Final(t) /\ Len(t) - Final(t) \in Nat /\ Len(t) - Final(t) <= Len(t)
    BY <1>1, <1>2
  <2>3. WithoutTrail(t) = SubSeq(t, 1, Final(t))
    BY DEF WithoutTrail, Final
  <2> QED BY <2>1, <2>2, <2>3, <1>5
<1> QED BY <1>4, <1>5

LEMMA PrefixIsRight ==
    ASSUME NEW s, NEW t, NEW p, View(s, t, p), NEW cl
    PROVE  M!PrefixMatch(s, cl, t, p).matched
               <=> IsPrefix(p, IF Head(p) \in M!Spaces THEN t ELSE WithoutLead(t))
<1> DEFINE d == M!Lead(s, p)
<1>1. t \in Text /\ p \in Text /\ p # <<>>
  BY DEF View
<1>2. d \in Nat /\ d <= Len(t) /\ (IF Head(p) \in M!Spaces THEN t ELSE WithoutLead(t)) = SubSeq(t, d + 1, Len(t))
  BY LeadIs
<1>3. M!PrefixMatch(s, cl, t, p) = IF ~M!StandsAt(t, p, d) THEN M!NoMatch ELSE M!ScoredMatch(cl, t, p, d, d + Len(p))
  BY <1>1 DEF M!PrefixMatch
<1>4. M!NoMatch.matched = FALSE /\ M!ScoredMatch(cl, t, p, d, d + Len(p)).matched = TRUE
  BY DEF M!NoMatch, M!ScoredMatch, M!Scored, M!Found
<1> HIDE DEF d
<1>5. IsPrefix(p, SubSeq(t, d + 1, Len(t))) <=> M!StandsAt(t, p, d)
  BY <1>1, <1>2, PrefixStands
<1>6. CASE M!StandsAt(t, p, d)
  BY <1>2, <1>3, <1>4, <1>5, <1>6
<1>7. CASE ~M!StandsAt(t, p, d)
  BY <1>2, <1>3, <1>4, <1>5, <1>7
<1> QED BY <1>6, <1>7

LEMMA SuffixIsRight ==
    ASSUME NEW s, NEW t, NEW p, View(s, t, p), NEW cl
    PROVE  M!SuffixMatch(s, cl, t, p).matched
               <=> IsSuffix(p, IF Last(p) \in M!Spaces THEN t ELSE WithoutTrail(t))
<1> DEFINE e == Len(t) - M!Trail(s, p)
           l == SubSeq(t, 1, e)
<1>1. t \in Text /\ p \in Text /\ p # <<>> /\ Len(t) \in Nat
  BY DEF View, Text
<1>2. (IF Last(p) \in M!Spaces THEN t ELSE WithoutTrail(t)) = l /\ e \in Nat /\ e <= Len(t)
  BY <1>1, TrailIs
<1>3. M!SuffixMatch(s, cl, t, p) = IF ~M!StandsAt(l, p, e - Len(p)) THEN M!NoMatch ELSE M!ScoredMatch(cl, t, p, e - Len(p), e)
  BY <1>1 DEF M!SuffixMatch
<1>4. M!NoMatch.matched = FALSE /\ M!ScoredMatch(cl, t, p, e - Len(p), e).matched = TRUE
  BY DEF M!NoMatch, M!ScoredMatch, M!Scored, M!Found
<1> HIDE DEF e
<1>5. l \in Text /\ Len(l) = e
  BY <1>1, <1>2, BeginningIs
<1> HIDE DEF l
<1>6. IsSuffix(p, l) <=> M!StandsAt(l, p, e - Len(p))
  BY <1>1, <1>5, SuffixStands
<1>7. CASE M!StandsAt(l, p, e - Len(p))
  BY <1>2, <1>3, <1>4, <1>6, <1>7
<1>8. CASE ~M!StandsAt(l, p, e - Len(p))
  BY <1>2, <1>3, <1>4, <1>6, <1>8
<1> QED BY <1>7, <1>8

\* The part of a text between its leading and its trailing spaces.
LEMMA BodyIs ==
    ASSUME NEW s, NEW t, NEW p, View(s, t, p)
    PROVE  LET d == M!Lead(s, p)
               w == Len(t) - d - M!Trail(s, p)
           IN  \E n \in Nat : /\ d + n <= Len(t) /\ (n = w \/ (n = 0 /\ w <= 0))
                              /\ Body(t, p) \in Text /\ Len(Body(t, p)) = n
                              /\ \A i \in 1 .. n : Body(t, p)[i] = t[d + i]
<1> DEFINE d  == M!Lead(s, p)
           tr == M!Trail(s, p)
           N  == Len(t)
           l  == SubSeq(t, d + 1, N)
<1>0. t \in Text /\ N \in Nat
  BY DEF View, Text
<1>1. d \in Nat /\ d <= N /\ d = (IF Head(p) \in M!Spaces THEN 0 ELSE First(t) - 1)
      /\ (IF Head(p) \in M!Spaces THEN t ELSE WithoutLead(t)) = l
  BY LeadIs
<1>2. tr = IF Last(p) \in M!Spaces THEN 0 ELSE N - Final(t)
  BY TrailIs
<1>3. Body(t, p) = IF Last(p) \in M!Spaces THEN l ELSE WithoutTrail(l)
  <2> DEFINE x == IF Head(p) \in M!Spaces THEN t ELSE WithoutLead(t)
  <2>1. Body(t, p) = IF Last(p) \in M!Spaces THEN x ELSE WithoutTrail(x)
    BY DEF Body
  <2>2. x = l
    BY <1>1
  <2> HIDE DEF x, l
  <2> QED BY <2>1, <2>2
<1> HIDE DEF d, tr
<1>4. l \in Text /\ Len(l) = N - d /\ \A i \in 1 .. N - d : l[i] = t[d + i]
  <2>1. N <= Len(t)
    BY <1>0
  <2> HIDE DEF N
  <2> QED BY <2>1, <1>0, <1>1, PartIs
<1> HIDE DEF l
<1>5. CASE Last(p) \in M!Spaces
  <2>1. N - d \in Nat /\ d + (N - d) <= N /\ N - d = N - d - tr
    BY <1>0, <1>1, <1>2, <1>5
  <2> QED BY <2>1, <1>3, <1>4, <1>5 DEF d, tr
<1>6. CASE Last(p) \notin M!Spaces
  <2> DEFINE m == Final(t)
             b == First(t)
             n == Final(l)
  <2>1. /\ b \in 1 .. N + 1 /\ m \in 0 .. N /\ Black(t) \subseteq 1 .. N
        /\ \A i \in Black(t) : b <= i /\ i <= m
        /\ m # 0 => m \in Black(t)
        /\ b <= m \/ (b = N + 1 /\ m = 0)
    BY <1>0, BlackFacts
  <2>2. n \in 0 .. N - d /\ (n # 0 => n \in Black(l)) /\ \A i \in Black(l) : i <= n
    BY <1>4, BlackFacts
  <2>3. \A i \in 1 .. N - d : i \in Black(l) <=> d + i \in Black(t)
    <3>1. DOMAIN l = 1 .. N - d /\ DOMAIN t = 1 .. N
      BY <1>0, <1>4 DEF Text
    <3>2. \A i \in 1 .. N - d : d + i \in 1 .. N
      BY <1>0, <1>1
    <3> QED BY <3>1, <3>2, <1>4 DEF Black
  <2>4. Body(t, p) = SubSeq(l, 1, n)
    BY <1>3, <1>6 DEF WithoutTrail, Final
  <2> HIDE DEF m, b, n
  <2>5. Body(t, p) \in Text /\ Len(Body(t, p)) = n /\ \A i \in 1 .. n : Body(t, p)[i] = t[d + i]
    <3>1. n \in Nat /\ n <= Len(l)
      BY <2>2, <1>4
    <3>2. SubSeq(l, 1, n) \in Text /\ Len(SubSeq(l, 1, n)) = n /\ \A i \in 1 .. n : SubSeq(l, 1, n)[i] = l[i]
      BY <3>1, <1>4, BeginningIs
    <3>3. \A i \in 1 .. n : i \in 1 .. N - d
      BY <2>2, <1>0, <1>1
    <3> QED BY <3>2, <3>3, <2>4, <1>4
  <2>6. d + n <= N /\ n \in Nat
    BY <2>2, <1>0, <1>1
  <2>7. N - d - tr = m - d
    BY <1>0, <1>1, <1>2, <1>6, <2>1 DEF m
  <2>8. n = m - d \/ (n = 0 /\ m - d <= 0)
    <3>1. CASE m <= d
      <4>1. n = 0
        <5>1. SUFFICES ASSUME n # 0 PROVE FALSE
          OBVIOUS
        <5>2. n \in 1 .. N - d /\ d + n \in Black(t)
          BY <5>1, <2>2, <2>3, <1>0, <1>1
        <5>3. d + n <= m
          BY <5>2, <2>1
        <5> QED BY <5>2, <5>3, <3>1, <2>1, <1>0, <1>1
      <4> QED BY <4>1, <3>1, <2>1, <1>1
    <3>2. CASE ~(m <= d)
      <4>1. m - d \in 1 .. N - d /\ d + (m - d) = m /\ m \in Black(t)
        BY <3>2, <2>1, <1>0, <1>1
      <4>2. m - d \in Black(l)
        BY <4>1, <2>3
      <4>3. m - d <= n /\ n # 0
        BY <4>1, <4>2, <2>2, <1>0, <1>1
      <4>4. n \in 1 .. N - d /\ d + n \in Black(t)
        BY <4>3, <2>2, <2>3, <1>0, <1>1
      <4>5. d + n <= m
        BY <4>4, <2>1
      <4> QED BY <4>3, <4>5, <4>4, <2>1, <1>0, <1>1
    <3> QED BY <3>1, <3>2
  <2> QED BY <2>5, <2>6, <2>7, <2>8 DEF d, tr
<1> QED BY <1>5, <1>6

LEMMA EqualIsRight ==
    ASSUME NEW s, NEW t, NEW p, View(s, t, p)
    PROVE  M!EqualMatch(s, t, p).matched <=> Body(t, p) = p
<1> DEFINE d  == M!Lead(s, p)
           tr == M!Trail(s, p)
           w  == Len(t) - d - tr
           x  == Body(t, p)
<1>1. t \in Text /\ p \in Text /\ p # <<>> /\ Len(t) \in Nat /\ Len(p) \in Nat /\ Len(p) >= 1 /\ DOMAIN p = 1 .. Len(p)
  BY DEF View, Text
<1>2. d \in Nat /\ d <= Len(t) /\ tr \in Nat
  BY LeadIs, TrailIs
<1>3. PICK n \in Nat : /\ d + n <= Len(t) /\ (n = w \/ (n = 0 /\ w <= 0))
                       /\ x \in Text /\ Len(x) = n /\ \A i \in 1 .. n : x[i] = t[d + i]
  BY BodyIs
<1>4. M!EqualMatch(s, t, p).matched <=> w = Len(p) /\ M!StandsAt(t, p, d)
  <2> DEFINE found == M!Found((M!ScoreMatch + M!BonusBoundaryWhite) * Len(p)
                     + (M!FirstCharMultiplier - 1) * M!BonusBoundaryWhite, d, d + Len(p), M!Places(d, d + Len(p)))
  <2>1. M!EqualMatch(s, t, p) = IF p = <<>> \/ w # Len(p) \/ ~M!StandsAt(t, p, d) THEN M!NoMatch ELSE found
    BY DEF M!EqualMatch
  <2>2. found.matched = TRUE /\ M!NoMatch.matched = FALSE
    BY DEF M!Found, M!NoMatch
  <2> HIDE DEF found, w, d
  <2> QED BY <2>1, <2>2, <1>1
<1> HIDE DEF d, tr, x
<1>5. w = Len(p) <=> n = Len(p)
  <2>1. w \in Int /\ (n = w \/ (n = 0 /\ w <= 0))
    BY <1>1, <1>2, <1>3
  <2> DEFINE size == Len(p)
  <2>2. size \in Nat /\ size >= 1
    BY <1>1
  <2> HIDE DEF w, size
  <2>3. w = size <=> n = size
    BY <2>1, <2>2
  <2> QED BY <2>3 DEF size
<1>6. ASSUME n = Len(p) PROVE M!StandsAt(t, p, d) <=> x = p
  <2>1. M!StandsAt(t, p, d) <=> \A k \in 1 .. n : t[d + k] = p[k]
    <3>1. d >= 0 /\ d + Len(p) <= Len(t)
      BY <1>2, <1>3, <1>6
    <3>2. DOMAIN p = 1 .. n
      BY <1>1, <1>6
    <3> QED BY <3>1, <3>2 DEF M!StandsAt
  <2>2. ASSUME \A k \in 1 .. n : t[d + k] = p[k] PROVE x = p
    <3>1. Len(x) = Len(p) /\ \A k \in 1 .. Len(x) : x[k] = p[k]
      BY <1>3, <1>6, <2>2
    <3> QED BY <3>1, <1>1, <1>3, SameText
  <2> QED BY <1>3, <2>1, <2>2
<1>7. x = p => n = Len(p)
  BY <1>3
<1> QED BY <1>4, <1>5, <1>6, <1>7 DEF x

-----------------------------------------------------------------------------
(* One term. *)

LEMMA WithinIs ==
    ASSUME NEW t \in Text, NEW p \in Text, NEW d
    PROVE  d \in Within(t, p) <=> d \in 0 .. Len(t) - Len(p) /\ M!StandsAt(t, p, d)
<1>1. d \in Within(t, p) <=> d \in 0 .. Len(t) - Len(p) /\ SubSeq(t, d + 1, d + Len(p)) = p
  BY DEF Within
<1>2. ASSUME d \in 0 .. Len(t) - Len(p) PROVE M!StandsAt(t, p, d) <=> SubSeq(t, d + 1, d + Len(p)) = p
  <2>1. d \in Nat /\ d + Len(p) <= Len(t)
    BY <1>2 DEF Text
  <2> QED BY <2>1, StandsIs
<1> QED BY <1>1, <1>2

\* Every algorithm finds a match exactly when the term asks for one.
LEMMA TermIsRight ==
    ASSUME NEW s \in Text, NEW term \in Term
    PROVE  M!MatchTerm(o, s, term).matched <=> Asks(term, s)
<1> DEFINE t  == M!Images(s, o.normalize, term.cs)
           p  == M!Images(term.text, o.normalize, term.cs)
           cl == [j \in DOMAIN s |-> M!ClassOf(s[j])]
           r  == M!MatchTerm(o, s, term)
           a  == Asks(term, s)
<1>1. /\ t \in Text /\ Len(t) = Len(s) /\ Len(s) \in Nat
      /\ p \in Text /\ p # <<>> /\ Len(p) \in Nat /\ Len(p) >= 1
      /\ View(s, t, p)
  BY TermFacts DEF View
<1>2. term.type \in Types
  BY DEF Term
<1>3. term.type = "Fuzzy" => r = IF o.algo = "V1" THEN M!FuzzyMatchV1(cl, t, p) ELSE M!FuzzyMatchV2(cl, t, p)
  BY DEF M!MatchTerm
<1>4. term.type = "Exact" => r = M!ExactMatchNaive(s, cl, t, p, FALSE)
  BY DEF M!MatchTerm
<1>5. term.type = "ExactBoundary" => r = M!ExactMatchNaive(s, cl, t, p, TRUE)
  BY DEF M!MatchTerm
<1>6. term.type = "Prefix" => r = M!PrefixMatch(s, cl, t, p)
  BY DEF M!MatchTerm
<1>7. term.type = "Suffix" => r = M!SuffixMatch(s, cl, t, p)
  BY DEF M!MatchTerm
<1>8. term.type = "Equal" => r = M!EqualMatch(s, t, p)
  BY DEF M!MatchTerm
<1>9. term.type = "Fuzzy" =>
        (a <=> \E at \in [DOMAIN p -> {j \in DOMAIN t : t[j] \in Range(p)}] :
                   \A k \in DOMAIN p : t[at[k]] = p[k] /\ (k > 1 => at[k - 1] < at[k]))
  BY DEF Asks
<1>10. term.type = "Exact" => (a <=> Within(t, p) # {})
  BY DEF Asks
<1>11. term.type = "ExactBoundary" =>
         (a <=> \E d \in Within(t, p) : /\ d > 0 => ~WordChar(s[d])
                                        /\ d + Len(p) < Len(s) => ~WordChar(s[d + Len(p) + 1]))
  BY DEF Asks
<1>12. term.type = "Prefix" => (a <=> IsPrefix(p, IF Head(p) \in M!Spaces THEN t ELSE WithoutLead(t)))
  BY DEF Asks
<1>13. term.type = "Suffix" => (a <=> IsSuffix(p, IF Last(p) \in M!Spaces THEN t ELSE WithoutTrail(t)))
  BY DEF Asks
<1>14. term.type = "Equal" => (a <=> Body(t, p) = p)
  BY DEF Asks
<1>15. cl = [j \in DOMAIN s |-> M!ClassOf(s[j])]
  OBVIOUS
<1> HIDE DEF t, p, cl, r, a
<1>16. CASE term.type = "Fuzzy"
  <2>1. a <=> \E at : Embeds(t, p, at)
    <3>1. (\E at \in [DOMAIN p -> {j \in DOMAIN t : t[j] \in Range(p)}] :
               \A k \in DOMAIN p : t[at[k]] = p[k] /\ (k > 1 => at[k - 1] < at[k]))
           <=> \E at : Embeds(t, p, at)
      BY <1>1, FuzzyAsks
    <3> QED BY <1>9, <1>16, <3>1, Zenon
  <2>2. M!FuzzyMatchV1(cl, t, p).matched <=> \E at : Embeds(t, p, at)
    BY <1>1, FuzzyIsRight
  <2>3. M!FuzzyMatchV2(cl, t, p).matched <=> \E at : Embeds(t, p, at)
    BY <1>1, FuzzyIsRight
  <2> QED BY <2>1, <2>2, <2>3, <1>3, <1>16 DEF a, r
<1>17. CASE term.type = "Exact"
  <2>1. M!ExactMatchNaive(s, cl, t, p, FALSE).matched <=>
            \E d \in 0 .. Len(t) - Len(p) : M!StandsAt(t, p, d) /\ (FALSE => M!OnBoundaries(cl, p, d))
    BY <1>1, ExactIsRight
  <2>2. \A d : d \in Within(t, p) <=> d \in 0 .. Len(t) - Len(p) /\ M!StandsAt(t, p, d)
    BY <1>1, WithinIs
  <2> QED BY <2>1, <2>2, <1>4, <1>10, <1>17 DEF a, r
<1>18. CASE term.type = "ExactBoundary"
  <2>1. M!ExactMatchNaive(s, cl, t, p, TRUE).matched <=>
            \E d \in 0 .. Len(t) - Len(p) : M!StandsAt(t, p, d) /\ (TRUE => M!OnBoundaries(cl, p, d))
    BY <1>1, ExactIsRight
  <2>2. \A d : d \in Within(t, p) <=> d \in 0 .. Len(t) - Len(p) /\ M!StandsAt(t, p, d)
    BY <1>1, WithinIs
  <2>3. ASSUME NEW d \in 0 .. Len(t) - Len(p)
        PROVE  M!OnBoundaries(cl, p, d) <=>
                  /\ d > 0 => ~WordChar(s[d])
                  /\ d + Len(p) < Len(s) => ~WordChar(s[d + Len(p) + 1])
    <3>1. d \in Nat /\ d + Len(p) <= Len(s)
      BY <1>1
    <3> QED BY <3>1, <1>1, <1>15, BoundaryIs
  <2> QED BY <2>1, <2>2, <2>3, <1>5, <1>11, <1>18 DEF a, r
<1>19. CASE term.type = "Prefix"
  BY <1>1, <1>6, <1>12, <1>19, PrefixIsRight DEF a, r
<1>20. CASE term.type = "Suffix"
  BY <1>1, <1>7, <1>13, <1>20, SuffixIsRight DEF a, r
<1>21. CASE term.type = "Equal"
  BY <1>1, <1>8, <1>14, <1>21, EqualIsRight DEF a, r
<1> QED BY <1>2, <1>16, <1>17, <1>18, <1>19, <1>20, <1>21 DEF Types, a, r

-----------------------------------------------------------------------------
(* Sets of terms, all the sets of a query, and the ranges of an item. *)

SetAsks(set, s) == \E k \in DOMAIN set : set[k].inverse <=> ~Asks(set[k], s)
AllAsk(sets, s) == \A i \in DOMAIN sets : SetAsks(sets[i], s)
Query == Seq(Seq(Term))

LEMMA SetIsRight ==
    ASSUME NEW s \in Text, NEW set \in Seq(Term)
    PROVE  M!MatchSet(o, s, set).matched <=> SetAsks(set, s)
<1> DEFINE rs     == [k \in DOMAIN set |-> M!MatchTerm(o, s, set[k])]
           wanted == {k \in DOMAIN set : ~set[k].inverse /\ rs[k].matched}
           absent == {k \in DOMAIN set : set[k].inverse /\ ~rs[k].matched}
<1>1. \A k \in DOMAIN set : k \in Nat /\ set[k] \in Term
  OBVIOUS
<1>2. \A k \in DOMAIN set : rs[k].matched <=> Asks(set[k], s)
  <2>1. \A k \in DOMAIN set : M!MatchTerm(o, s, set[k]).matched <=> Asks(set[k], s)
    BY <1>1, TermIsRight
  <2>2. \A k \in DOMAIN set : rs[k] = M!MatchTerm(o, s, set[k])
    OBVIOUS
  <2> HIDE DEF rs
  <2> QED BY <2>1, <2>2
<1>3. M!MatchSet(o, s, set) = IF wanted # {} THEN rs[M!Min(wanted)] ELSE IF absent # {} THEN M!EmptyMatch ELSE M!NoMatch
  BY DEF M!MatchSet, M!FirstIn
<1>4. M!NoMatch.matched = FALSE /\ M!EmptyMatch.matched = TRUE
  BY DEF M!NoMatch, M!EmptyMatch
<1> HIDE DEF rs
<1>5. wanted # {} => rs[M!Min(wanted)].matched
  <2>1. ASSUME wanted # {} PROVE M!Min(wanted) \in wanted
    <3>1. wanted \subseteq Nat
      BY <1>1
    <3> HIDE DEF wanted
    <3> QED BY <2>1, <3>1, MinIs
  <2> QED BY <2>1
<1>6. wanted # {} \/ absent # {} <=> SetAsks(set, s)
  BY <1>2 DEF SetAsks
<1> HIDE DEF wanted, absent
<1> QED BY <1>3, <1>4, <1>5, <1>6

LEMMA TogetherIs ==
    ASSUME NEW rs
    PROVE  /\ "matched" \in DOMAIN M!Together(rs)
           /\ M!Together(rs).matched <=> \A i \in DOMAIN rs : rs[i].matched
<1> DEFINE failed == {i \in DOMAIN rs : ~rs[i].matched}
           done   == {i \in DOMAIN rs : \A f \in failed : i < f}
           at     == UNION {M!Range(rs[i].at) : i \in done}
           placed == {rs[i] : i \in {i \in done : rs[i].begin >= 0 /\ rs[i].begin < rs[i].end}}
           r1 == [M!Nothing EXCEPT !.at = at]
           r2 == [M!Everything EXCEPT !.score = M!TotalScore(rs), !.at = at]
           r3 == [matched |-> TRUE, score |-> M!TotalScore(rs), at |-> at,
                  begin   |-> M!Min({r.begin : r \in placed}),
                  end     |-> M!Max({r.end : r \in placed}),
                  min_end |-> M!Min({r.end : r \in placed})]
<1>1. M!Together(rs) = IF failed # {} THEN r1 ELSE IF placed = {} THEN r2 ELSE r3
  BY DEF M!Together
<1>2. failed = {} <=> \A i \in DOMAIN rs : rs[i].matched
  OBVIOUS
<1> HIDE DEF failed, at, placed
<1>3. "matched" \in DOMAIN r1 /\ r1.matched = FALSE
  BY DEF M!Nothing, M!Everything
<1>4. "matched" \in DOMAIN r2 /\ r2.matched = TRUE
  BY DEF M!Everything
<1>5. "matched" \in DOMAIN r3 /\ r3.matched = TRUE
  OBVIOUS
<1> HIDE DEF r1, r2, r3
<1> QED BY <1>1, <1>2, <1>3, <1>4, <1>5

LEMMA TextIsRight ==
    ASSUME NEW s \in Text, NEW sets \in Query
    PROVE  /\ "matched" \in DOMAIN M!MatchText(o, s, sets)
           /\ M!MatchText(o, s, sets).matched <=> AllAsk(sets, s)
<1> DEFINE rs == [i \in DOMAIN sets |-> M!MatchSet(o, s, sets[i])]
<1>1. M!MatchText(o, s, sets) = M!Together(rs)
  BY DEF M!MatchText
<1>2. \A i \in DOMAIN sets : sets[i] \in Seq(Term)
  BY DEF Query
<1>3. \A i \in DOMAIN sets : M!MatchSet(o, s, sets[i]).matched <=> SetAsks(sets[i], s)
  BY <1>2, SetIsRight
<1>4. DOMAIN rs = DOMAIN sets /\ \A i \in DOMAIN sets : rs[i] = M!MatchSet(o, s, sets[i])
  OBVIOUS
<1> HIDE DEF rs
<1>5. (\A i \in DOMAIN rs : rs[i].matched) <=> AllAsk(sets, s)
  BY <1>3, <1>4 DEF AllAsk
<1> QED BY <1>1, <1>5, TogetherIs

Span == [start : Nat, len : Nat]

LEMMA PartIsText ==
    ASSUME NEW s \in Text, NEW range \in Span
    PROVE  M!PartOf(s, range) \in Text
<1> DEFINE n == Len(s)
           a == M!StartOf(s, range)
           e == a + range.len
           b == M!Min({e, n})
<1>1. n \in Nat /\ range.start \in Nat /\ range.len \in Nat
  BY DEF Text, Span
<1>2. a \in Nat /\ a <= n
  <2>1. a = M!Min({range.start, n})
    BY DEF M!StartOf
  <2>2. {range.start, n} \subseteq Nat /\ {range.start, n} # {}
    BY <1>1
  <2> DEFINE S == {range.start, n}
  <2> HIDE DEF S, a
  <2>3. M!Min(S) \in S /\ \A k \in S : M!Min(S) <= k
    BY <2>2, MinIs DEF S
  <2>4. n \in S /\ S \subseteq Nat
    BY <1>1 DEF S
  <2> QED BY <2>1, <2>3, <2>4 DEF S
<1> HIDE DEF a, n
<1>3. b \in Nat /\ a <= b /\ b <= n
  <2>1. e \in Nat /\ a <= e
    BY <1>1, <1>2
  <2> DEFINE S == {e, n}
  <2>2. S \subseteq Nat /\ S # {} /\ n \in S
    BY <1>1, <2>1
  <2> HIDE DEF S
  <2>3. M!Min(S) \in S /\ M!Min(S) <= n
    BY <2>2, MinIs
  <2> QED BY <1>1, <1>2, <2>1, <2>3 DEF S
<1> HIDE DEF b
<1>4. SubSeq(s, a + 1, b) \in Text
  BY <1>2, <1>3, PartIs DEF n
<1> QED BY <1>4 DEF M!PartOf, a, b, n

LEMMA MatchIsRight ==
    ASSUME NEW s \in Text, NEW sets \in Query, NEW nth \in Seq(Span)
    PROVE  M!Match(o, s, sets, nth).matched <=>
               \/ sets = <<>>
               \/ nth = <<>> /\ AllAsk(sets, s)
               \/ nth # <<>> /\ \E k \in DOMAIN nth : AllAsk(sets, M!PartOf(s, nth[k]))
<1> DEFINE start == [k \in DOMAIN nth |-> M!StartOf(s, nth[k])]
           rs    == [k \in DOMAIN nth |-> M!MatchText(o, M!PartOf(s, nth[k]), sets)]
           hits  == {k \in DOMAIN rs : rs[k].matched}
           first == M!Min(hits)
           left  == UNION {rs[k].at : k \in 1 .. first - 1}
           moved == M!Moved(rs[first], start[first], left)
           found == IF hits = {} THEN M!Nothing ELSE moved
<1>1. M!Match(o, s, sets, nth) = IF sets = <<>> THEN M!Everything
                                 ELSE IF nth = <<>> THEN M!MatchText(o, s, sets) ELSE found
  BY DEF M!Match, M!FirstRange
<1>2. M!Everything.matched = TRUE /\ M!Nothing.matched = FALSE
  BY DEF M!Everything, M!Nothing
<1>3. M!MatchText(o, s, sets).matched <=> AllAsk(sets, s)
  BY TextIsRight
<1>4. DOMAIN rs = DOMAIN nth /\ \A k \in DOMAIN nth : rs[k] = M!MatchText(o, M!PartOf(s, nth[k]), sets)
  OBVIOUS
<1>5. \A k \in DOMAIN nth : k \in Nat /\ nth[k] \in Span
  OBVIOUS
<1> HIDE DEF rs, start
<1>6. \A k \in DOMAIN nth : "matched" \in DOMAIN rs[k] /\ (rs[k].matched <=> AllAsk(sets, M!PartOf(s, nth[k])))
  <2>1. \A k \in DOMAIN nth : M!PartOf(s, nth[k]) \in Text
    BY <1>5, PartIsText
  <2> QED BY <2>1, <1>4, TextIsRight
<1>7. hits # {} <=> \E k \in DOMAIN nth : AllAsk(sets, M!PartOf(s, nth[k]))
  BY <1>4, <1>6
<1>8. hits # {} => moved.matched
  <2>1. ASSUME hits # {} PROVE first \in hits
    <3>1. hits \subseteq Nat
      BY <1>4, <1>5
    <3> HIDE DEF hits
    <3> QED BY <2>1, <3>1, MinIs
  <2>2. ASSUME hits # {} PROVE rs[first].matched /\ "matched" \in DOMAIN rs[first]
    <3> HIDE DEF first
    <3> QED BY <2>1, <2>2, <1>4, <1>6
  <2> HIDE DEF hits, first, left
  <2> DEFINE r == rs[first]
  <2>3. "matched" \in DOMAIN r => moved.matched = r.matched
    <3> HIDE DEF r
    <3> QED BY DEF M!Moved, r
  <2> QED BY <2>2, <2>3
<1> HIDE DEF hits, moved
<1> QED BY <1>1, <1>2, <1>3, <1>7, <1>8

-----------------------------------------------------------------------------
(* parse_terms makes sets of terms of every query. *)

LEMMA TrimmedIs ==
    ASSUME NEW q \in Text
    PROVE  M!Trimmed(q) \in Text
<1> DEFINE n     == Len(q)
           inner == {k \in DOMAIN q : q[k] # " "}
           kept  == inner \cup {k \in DOMAIN q : k - 1 \in inner /\ q[k - 1] = "\\"}
           a     == M!Min(inner)
           b     == M!Max(kept)
<1>1. n \in Nat /\ DOMAIN q = 1 .. n
  BY DEF Text
<1>2. M!Trimmed(q) = IF inner = {} THEN <<>> ELSE SubSeq(q, a, b)
  BY DEF M!Trimmed
<1>3. inner \subseteq 1 .. n /\ kept \subseteq 1 .. n /\ inner \subseteq kept
  BY <1>1
<1>4. <<>> \in Text
  BY DEF Text
<1> HIDE DEF inner, kept, n
<1>5. ASSUME inner # {} PROVE SubSeq(q, a, b) \in Text
  <2>1. a \in inner
    <3>1. inner \subseteq Nat
      BY <1>1, <1>3
    <3> QED BY <1>5, <3>1, MinIs
  <2>2. b \in kept /\ \A k \in kept : k <= b
    <3>1. 1 .. n \subseteq 0 .. n
      BY <1>1
    <3>2. kept \subseteq 0 .. n /\ kept # {}
      BY <1>3, <1>5, <3>1
    <3> QED BY <3>2, <1>1, MaxIs
  <2>3. a \in kept /\ a \in 1 .. n /\ b \in 1 .. n /\ a <= b
    BY <2>1, <2>2, <1>1, <1>3
  <2> HIDE DEF a, b
  <2> DEFINE c == a - 1
  <2>4. c \in Nat /\ c + 1 = a /\ c <= b /\ b \in Nat /\ b <= Len(q)
    BY <2>3, <1>1 DEF n
  <2> HIDE DEF c
  <2>5. SubSeq(q, c + 1, b) \in Text
    BY <2>4, PartIs
  <2> QED BY <2>4, <2>5
<1> QED BY <1>2, <1>4, <1>5

LEMMA ProtectedIs ==
    ASSUME NEW q \in Text
    PROVE  M!Protected(q) \in Text
<1> DEFINE escapes == {k \in 1 .. Len(q) - 1 : q[k] = "\\" /\ q[k + 1] = " "}
           S       == {k \in DOMAIN q : k - 1 \notin escapes}
           kept    == M!Ascending(S)
           c(i)    == IF kept[i] \in escapes THEN "\t" ELSE q[kept[i]]
<1>1. Len(q) \in Nat /\ DOMAIN q = 1 .. Len(q) /\ \A k \in 1 .. Len(q) : q[k] \in Char
  BY DEF Text
<1>2. M!Protected(q) = [i \in DOMAIN kept |-> c(i)]
  BY DEF M!Protected
<1>3. S \subseteq 1 .. Len(q)
  BY <1>1
<1> HIDE DEF S, escapes
<1>4. kept \in Seq(S)
  BY <1>1, <1>3, AscendingIs
<1> HIDE DEF kept
<1>5. \A i \in DOMAIN kept : c(i) \in Char
  <2>1. "\t" \in Char
    BY DEF Char
  <2>2. \A i \in DOMAIN kept : kept[i] \in S
    BY <1>4
  <2> QED BY <2>1, <2>2, <1>1, <1>3
<1>6. DOMAIN kept = 1 .. Len(kept) /\ Len(kept) \in Nat
  BY <1>4
<1> HIDE DEF c
<1> QED BY <1>2, <1>5, <1>6 DEF Text

LEMMA TokensAre ==
    ASSUME NEW s \in Text
    PROVE  M!Tokens(s) \in Seq(Text)
<1> DEFINE S      == {k \in DOMAIN s : s[k] # " " /\ (k = 1 \/ s[k - 1] = " ")}
           starts == M!Ascending(S)
           Ends(k) == {e \in k .. Len(s) : e = Len(s) \/ s[e + 1] = " "}
           End(k)  == M!Min(Ends(k))
<1>1. Len(s) \in Nat /\ DOMAIN s = 1 .. Len(s)
  BY DEF Text
<1>2. M!Tokens(s) = [i \in DOMAIN starts |-> SubSeq(s, starts[i], End(starts[i]))]
  BY DEF M!Tokens
<1>3. S \subseteq 1 .. Len(s)
  BY <1>1
<1>4. ASSUME NEW k \in 1 .. Len(s) PROVE SubSeq(s, k, End(k)) \in Text
  <2>1. Ends(k) \subseteq Nat /\ Len(s) \in Ends(k)
    <3>1. Len(s) \in k .. Len(s) /\ k .. Len(s) \subseteq Nat
      BY <1>1
    <3>2. Ends(k) \subseteq k .. Len(s)
      OBVIOUS
    <3> QED BY <3>1, <3>2
  <2>2. \A e \in Ends(k) : e \in k .. Len(s)
    OBVIOUS
  <2> HIDE DEF Ends
  <2>3. End(k) \in k .. Len(s)
    <3>1. Ends(k) # {}
      BY <2>1
    <3> QED BY <2>1, <2>2, <3>1, MinIs
  <2> DEFINE c == k - 1
             e == End(k)
  <2>4. c \in Nat /\ c + 1 = k /\ c <= e /\ e \in Nat /\ e <= Len(s)
    <3> HIDE DEF End
    <3> QED BY <2>3, <1>1
  <2> HIDE DEF c, e
  <2>5. SubSeq(s, c + 1, e) \in Text
    BY <2>4, PartIs
  <2> QED BY <2>4, <2>5 DEF e
<1> HIDE DEF S, End
<1>5. starts \in Seq(S)
  BY <1>1, <1>3, AscendingIs
<1> HIDE DEF starts
<1>6. DOMAIN starts = 1 .. Len(starts) /\ Len(starts) \in Nat /\ \A i \in DOMAIN starts : starts[i] \in 1 .. Len(s)
  <2>1. DOMAIN starts = 1 .. Len(starts) /\ Len(starts) \in Nat /\ \A i \in DOMAIN starts : starts[i] \in S
    BY <1>5
  <2> QED BY <2>1, <1>3
<1>7. \A i \in DOMAIN starts : SubSeq(s, starts[i], End(starts[i])) \in Text
  BY <1>4, <1>6
<1> QED BY <1>2, <1>6, <1>7

LEMMA RestoredIs ==
    ASSUME NEW tk \in Text
    PROVE  M!Restored(tk) \in Text /\ M!LowerAll(tk) \in Text
<1>1. Len(tk) \in Nat /\ DOMAIN tk = 1 .. Len(tk) /\ \A k \in 1 .. Len(tk) : tk[k] \in Char
  BY DEF Text
<1>2. " " \in Char
  BY DEF Char
<1>3. \A k \in 1 .. Len(tk) : M!Lower(tk[k]) \in Char
  BY <1>1, LowerIs
<1>4. M!Restored(tk) = [i \in 1 .. Len(tk) |-> IF tk[i] = "\t" THEN " " ELSE tk[i]]
  BY <1>1 DEF M!Restored
<1>5. M!LowerAll(tk) = [i \in 1 .. Len(tk) |-> M!Lower(tk[i])]
  BY <1>1 DEF M!LowerAll
<1>6. M!Restored(tk) \in [1 .. Len(tk) -> Char]
  BY <1>1, <1>2, <1>4
<1>7. M!LowerAll(tk) \in [1 .. Len(tk) -> Char]
  BY <1>3, <1>5
<1> QED BY <1>1, <1>6, <1>7 DEF Text

\* A term whose text may be empty: the token was only syntax.
Parsed == [type : Types, inverse : BOOLEAN, cs : BOOLEAN, text : Text]

LEMMA QuotedIs ==
    ASSUME NEW opt, NEW cs \in BOOLEAN, NEW inv \in BOOLEAN, NEW ends \in BOOLEAN, NEW t \in Text
    PROVE  M!Quoted(opt, cs, inv, ends, t) \in Parsed
<1> DEFINE quoted == M!Starts(t, "'")
           both   == quoted /\ Len(t) > 2 /\ M!Ends(t, "'")
           type   == IF both THEN "ExactBoundary"
                     ELSE IF quoted THEN IF opt.exact \/ inv THEN "Fuzzy" ELSE "Exact"
                     ELSE IF M!Starts(t, "^") THEN IF ends THEN "Equal" ELSE "Prefix"
                     ELSE IF ends THEN "Suffix"
                     ELSE IF inv \/ opt.exact THEN "Exact" ELSE "Fuzzy"
           text   == IF both THEN Tail(M!Front(t))
                     ELSE IF quoted \/ M!Starts(t, "^") THEN Tail(t) ELSE t
<1>1. M!Quoted(opt, cs, inv, ends, t) = [type |-> type, inverse |-> inv, cs |-> cs, text |-> text]
  BY DEF M!Quoted
<1>2. type \in Types
  BY DEF Types
<1>3. text \in Text
  <2>1. quoted \/ M!Starts(t, "^") => t # <<>>
    BY DEF M!Starts
  <2>2. t # <<>> => Tail(t) \in Text
    BY DEF Text
  <2>3. ASSUME both PROVE Tail(M!Front(t)) \in Text
    <3> DEFINE n == Len(t) - 1
               f == SubSeq(t, 1, n)
    <3>1. n \in Nat /\ n <= Len(t) /\ n >= 2
      BY <2>3 DEF Text
    <3> HIDE DEF n
    <3>2. f \in Text /\ Len(f) = n
      BY <3>1, BeginningIs
    <3>3. M!Front(t) = f
      BY DEF M!Front, n
    <3> HIDE DEF f
    <3>4. f # <<>>
      BY <3>1, <3>2
    <3> QED BY <3>2, <3>3, <3>4 DEF Text
  <2> HIDE DEF quoted, both
  <2> QED BY <2>1, <2>2, <2>3
<1> HIDE DEF type, text
<1> QED BY <1>1, <1>2, <1>3 DEF Parsed

LEMMA TermOfIs ==
    ASSUME NEW opt, NEW token \in Text
    PROVE  M!TermOf(opt, token) \in Parsed
<1> DEFINE whole == M!Restored(token)
           cs    == M!TermCaseSensitive(opt.mode, whole)
           t     == IF cs THEN whole ELSE M!LowerAll(whole)
           inv   == M!Starts(t, "!")
           u     == IF inv THEN Tail(t) ELSE t
           ends  == M!Ends(u, "$") /\ u # <<"$">>
           v     == IF ends THEN M!Front(u) ELSE u
<1>1. M!TermOf(opt, token) = M!Quoted(opt, cs, inv, ends, v)
  BY DEF M!TermOf, M!Inverted, M!Ended
<1>2. cs \in BOOLEAN /\ inv \in BOOLEAN
  BY DEF M!TermCaseSensitive, M!Starts
<1>3. ends \in BOOLEAN
  BY DEF M!Ends
<1>4. t \in Text
  BY RestoredIs
<1>5. u \in Text
  <2>1. inv => t # <<>>
    BY DEF M!Starts
  <2> HIDE DEF t
  <2> QED BY <1>4, <2>1 DEF Text
<1>6. v \in Text
  <2>1. ends => u # <<>>
    BY DEF M!Ends
  <2> HIDE DEF u
  <2>2. ASSUME u # <<>> PROVE M!Front(u) \in Text
    <3> DEFINE n == Len(u) - 1
    <3>1. n \in Nat /\ n <= Len(u)
      BY <1>5, <2>2 DEF Text
    <3> HIDE DEF n
    <3>2. SubSeq(u, 1, n) \in Text
      BY <1>5, <3>1, BeginningIs
    <3> QED BY <3>2 DEF M!Front, n
  <2> HIDE DEF ends
  <2> QED BY <1>5, <2>1, <2>2
<1> HIDE DEF cs, inv, ends, v
<1> QED BY <1>1, <1>2, <1>3, <1>6, QuotedIs

\* What parse_terms has when it has read some of the tokens.
Reading == [sets : Query, set : Seq(Term), switch : BOOLEAN, bar : BOOLEAN]

LEMMA AddTokenIs ==
    ASSUME NEW a \in Reading, NEW token, NEW term \in Parsed
    PROVE  M!AddToken(a, token, term) \in Reading
<1>1. a.sets \in Seq(Seq(Term)) /\ a.set \in Seq(Term) /\ a.switch \in BOOLEAN /\ a.bar \in BOOLEAN
  BY DEF Reading, Query
<1>2. a = [sets |-> a.sets, set |-> a.set, switch |-> a.switch, bar |-> a.bar]
  BY DEF Reading
<1>3. CASE a.set # <<>> /\ ~a.bar /\ token = <<"|">>
  <2>1. M!AddToken(a, token, term) = [a EXCEPT !.switch = FALSE, !.bar = TRUE]
    BY <1>3 DEF M!AddToken
  <2> QED BY <2>1 DEF Reading
<1>4. CASE ~(a.set # <<>> /\ ~a.bar /\ token = <<"|">>) /\ term.text = <<>>
  <2>1. M!AddToken(a, token, term) = [a EXCEPT !.bar = FALSE]
    BY <1>4 DEF M!AddToken
  <2> QED BY <2>1 DEF Reading
<1>5. CASE ~(a.set # <<>> /\ ~a.bar /\ token = <<"|">>) /\ term.text # <<>>
  <2> DEFINE sets == IF a.switch THEN Append(a.sets, a.set) ELSE a.sets
             old  == IF a.switch THEN <<>> ELSE a.set
             set  == Append(old, term)
  <2>1. M!AddToken(a, token, term) = [sets |-> sets, set |-> set, switch |-> TRUE, bar |-> FALSE]
    BY <1>5 DEF M!AddToken
  <2>2. sets \in Seq(Seq(Term))
    <3> DEFINE T0 == Seq(Term)
    <3> HIDE DEF T0
    <3>1. a.sets \in Seq(T0) /\ a.set \in T0
      BY <1>1 DEF T0
    <3>2. sets \in Seq(T0)
      BY <3>1
    <3> QED BY <3>2 DEF T0
  <2>3. term \in Term
    BY <1>5 DEF Parsed, Term
  <2>4. set \in Seq(Term)
    <3>1. old \in Seq(Term)
      BY <1>1
    <3> HIDE DEF old
    <3> QED BY <2>3, <3>1
  <2> HIDE DEF sets, set
  <2> QED BY <2>1, <2>2, <2>4 DEF Reading, Query
<1> QED BY <1>3, <1>4, <1>5

ReadSteps(opt, tokens, n, h) ==
    h = [i \in 0 .. n |-> IF i = 0 THEN M!NoTerms ELSE M!AddToken(h[i - 1], tokens[i], M!TermOf(opt, tokens[i]))]
ReadUpto(opt, tokens) == CHOOSE h : ReadSteps(opt, tokens, Len(tokens), h)

LEMMA ReadExists ==
    ASSUME NEW opt, NEW tokens, NEW n \in Nat
    PROVE  \E h : ReadSteps(opt, tokens, n, h)
<1> DEFINE Bad == {m \in Nat : ~ \E h : ReadSteps(opt, tokens, m, h)}
           step(x, i) == M!AddToken(x, tokens[i], M!TermOf(opt, tokens[i]))
<1>1. SUFFICES ASSUME Bad # {} PROVE FALSE
  OBVIOUS
<1>2. PICK m \in Bad : \A k \in Bad : m <= k
  <2>1. Bad \subseteq Nat
    OBVIOUS
  <2> HIDE DEF Bad
  <2> QED BY <1>1, <2>1, NatLeast
<1>3. m \in Nat /\ ~ \E h : ReadSteps(opt, tokens, m, h)
  OBVIOUS
<1>0. \A k, h : ReadSteps(opt, tokens, k, h) <=> h = [i \in 0 .. k |-> IF i = 0 THEN M!NoTerms ELSE step(h[i - 1], i)]
  BY DEF ReadSteps
<1> HIDE DEF step
<1>4. CASE m = 0
  <2> DEFINE h == [i \in 0 .. m |-> M!NoTerms]
  <2>1. h = [i \in 0 .. m |-> IF i = 0 THEN M!NoTerms ELSE step(h[i - 1], i)]
    BY <1>4
  <2>2. ReadSteps(opt, tokens, m, h)
    BY <1>0, <2>1
  <2> QED BY <1>3, <2>2
<1>5. CASE m # 0
  <2>1. m - 1 \in Nat /\ ~ (m <= m - 1)
    BY <1>3, <1>5
  <2>2. PICK g : ReadSteps(opt, tokens, m - 1, g)
    BY <1>2, <2>1
  <2> DEFINE h == [i \in 0 .. m |-> IF i < m THEN g[i] ELSE step(g[m - 1], m)]
             w(i) == IF i = 0 THEN M!NoTerms ELSE step(h[i - 1], i)
  <2>3. ASSUME NEW i \in 0 .. m PROVE h[i] = w(i)
    <3>1. CASE i = m
      <4>1. h[i - 1] = g[m - 1] /\ h[i] = step(g[m - 1], m)
        BY <3>1, <2>1, <1>5
      <4> QED BY <3>1, <4>1, <1>5
    <3>2. CASE i # m
      <4>1. i \in 0 .. m - 1 /\ i < m /\ (i # 0 => i - 1 \in 0 .. m /\ i - 1 < m)
        BY <3>2, <1>3
      <4>2. h[i] = g[i] /\ (i # 0 => h[i - 1] = g[i - 1])
        BY <4>1
      <4>3. g[i] = IF i = 0 THEN M!NoTerms ELSE step(g[i - 1], i)
        BY <2>2, <4>1, <1>0
      <4> HIDE DEF h
      <4> QED BY <4>2, <4>3
    <3> QED BY <3>1, <3>2
  <2>4. h = [i \in 0 .. m |-> h[i]]
    OBVIOUS
  <2>5. ReadSteps(opt, tokens, m, h)
    <3> HIDE DEF h
    <3>1. h = [i \in 0 .. m |-> w(i)]
      BY <2>3, <2>4
    <3> QED BY <3>1, <1>0
  <2> QED BY <1>3, <2>5
<1> QED BY <1>4, <1>5

LEMMA ParseTermsIs ==
    ASSUME NEW opt, NEW q \in Text
    PROVE  M!ParseTerms(opt, q) \in Query
<1> DEFINE tokens == M!Tokens(M!Protected(M!Trimmed(q)))
           R      == ReadUpto(opt, tokens)
           Bad    == {n \in 0 .. Len(tokens) : R[n] \notin Reading}
<1>1. tokens \in Seq(Text)
  BY TrimmedIs, ProtectedIs, TokensAre
<1>2. M!ParseTerms(opt, q) = M!Closed(R[Len(tokens)])
  BY DEF M!ParseTerms, ReadUpto, ReadSteps
<1> HIDE DEF tokens
<1>3. Len(tokens) \in Nat /\ \A n \in 1 .. Len(tokens) : tokens[n] \in Text
  BY <1>1
<1>4. ReadSteps(opt, tokens, Len(tokens), R)
  BY <1>3, ReadExists DEF ReadUpto
<1> HIDE DEF R
<1>5. R[0] = M!NoTerms
  BY <1>3, <1>4 DEF ReadSteps
<1>6. \A n \in 1 .. Len(tokens) : R[n] = M!AddToken(R[n - 1], tokens[n], M!TermOf(opt, tokens[n]))
  BY <1>3, <1>4 DEF ReadSteps
<1>7. Bad = {}
  <2>1. SUFFICES ASSUME Bad # {} PROVE FALSE
    OBVIOUS
  <2>2. PICK n \in Bad : \A k \in Bad : n <= k
    <3>1. Bad \subseteq Nat
      BY <1>3
    <3> HIDE DEF Bad
    <3> QED BY <2>1, <3>1, NatLeast
  <2>3. M!NoTerms \in Reading
    <3>1. <<>> \in Seq(Seq(Term)) /\ <<>> \in Seq(Term)
      OBVIOUS
    <3> QED BY <3>1 DEF M!NoTerms, Reading, Query
  <2>4. n \in 1 .. Len(tokens) /\ n - 1 \in 0 .. Len(tokens) /\ ~ (n <= n - 1)
    BY <1>3, <1>5, <2>3
  <2>5. R[n - 1] \in Reading
    BY <2>2, <2>4
  <2>6. M!TermOf(opt, tokens[n]) \in Parsed
    BY <1>3, <2>4, TermOfIs
  <2>7. R[n] \in Reading
    BY <1>6, <2>4, <2>5, <2>6, AddTokenIs
  <2> QED BY <2>7
<1>8. R[Len(tokens)] \in Reading
  BY <1>3, <1>7
<1> DEFINE a == R[Len(tokens)]
<1> HIDE DEF a
<1>9. M!Closed(a) \in Query
  <2>1. a.sets \in Query /\ a.set \in Seq(Term)
    BY <1>8 DEF a, Reading
  <2>2. M!Closed(a) = IF a.set = <<>> THEN a.sets ELSE Append(a.sets, a.set)
    BY DEF M!Closed
  <2> DEFINE T0 == Seq(Term)
  <2>3. a.sets \in Seq(T0) /\ a.set \in T0
    BY <2>1 DEF Query
  <2> HIDE DEF T0
  <2>4. M!Closed(a) \in Seq(T0)
    BY <2>2, <2>3
  <2> QED BY <2>4 DEF Query, T0
<1> QED BY <1>2, <1>9 DEF a

-----------------------------------------------------------------------------
(* The line and the query. *)

LEMMA StringsText == Seq(STRING) \subseteq Text
<1>1. STRING \subseteq Char
  BY DEF Char
<1>2. ASSUME NEW s \in Seq(STRING) PROVE s \in Seq(Char)
  <2>1. Len(s) \in Nat /\ DOMAIN s = 1 .. Len(s) /\ s = [i \in 1 .. Len(s) |-> s[i]] /\ \A i \in 1 .. Len(s) : s[i] \in STRING
    OBVIOUS
  <2>2. s \in [1 .. Len(s) -> Char]
    BY <1>1, <2>1
  <2> QED BY <2>1, <2>2
<1> QED BY <1>2 DEF Text

\* The query is a text of characters, the line and the options are given ones.
MatchingTyped == o \in Settings /\ line \in Lines /\ query \in Seq(STRING) /\ typed \in 0 .. MaxStrokes

\* In such a state an item matches exactly when it has what the query asks.
LEMMA HitIsRight ==
    ASSUME MatchingTyped
    PROVE  MatchesWhatIsAsked
<1> DEFINE sets == M!ParseTerms(o, query)
           text == item.text
           nth  == item.nth
<1>1. text \in Text /\ nth \in Seq(Span)
  <2>1. item = T!BuildItem(o, line, 0)
    BY DEF item
  <2>2. item.text \in Seq(STRING) /\ item.nth \in Seq(Span)
    BY <2>1, ItemsAssumption DEF MatchingTyped, Span
  <2> QED BY <2>2, StringsText
<1>2. sets \in Query
  BY StringsText, ParseTermsIs DEF MatchingTyped
<1>3. Hit(query) <=> M!Match(o, text, sets, nth).matched
  BY DEF Hit
<1>4. searched = IF nth = <<>> THEN {text} ELSE {M!PartOf(text, nth[k]) : k \in DOMAIN nth}
  BY DEF searched
<1>5. MatchesWhatIsAsked <=> (Hit(query) <=> (sets = <<>> \/ \E s \in searched : AllAsk(sets, s)))
  BY DEF MatchesWhatIsAsked, AllAsk, SetAsks
<1> HIDE DEF sets, text, nth
<1>6. M!Match(o, text, sets, nth).matched <=>
          \/ sets = <<>>
          \/ nth = <<>> /\ AllAsk(sets, text)
          \/ nth # <<>> /\ \E k \in DOMAIN nth : AllAsk(sets, M!PartOf(text, nth[k]))
  BY <1>1, <1>2, MatchIsRight
<1>7. (\E s \in searched : AllAsk(sets, s)) <=>
          \/ nth = <<>> /\ AllAsk(sets, text)
          \/ nth # <<>> /\ \E k \in DOMAIN nth : AllAsk(sets, M!PartOf(text, nth[k]))
  <2>1. CASE nth = <<>>
    BY <1>4, <2>1
  <2>2. CASE nth # <<>>
    BY <1>4, <2>2
  <2> QED BY <2>1, <2>2
<1> QED BY <1>3, <1>5, <1>6, <1>7

LEMMA MatchingTypeStep ==
    ASSUME MatchingTyped, [Next]_vars
    PROVE  MatchingTyped'
<1>1. CASE UNCHANGED vars
  BY <1>1 DEF MatchingTyped, vars
<1>2. ASSUME NEW s \in Strokes, Type(s) PROVE MatchingTyped'
  <2>1. s \in Seq(STRING) /\ query \in Seq(STRING)
    BY StrokesAssumption DEF MatchingTyped
  <2>2. query \o s \in Seq(STRING) /\ s \o query \in Seq(STRING)
    BY <2>1
  <2>3. query' \in Seq(STRING)
    BY <1>2, <2>2 DEF Type
  <2>4. typed' \in 0 .. MaxStrokes
    BY <1>2, MaxStrokesIsNat DEF MatchingTyped, Type
  <2> QED BY <1>2, <2>3, <2>4 DEF MatchingTyped, Type
<1> QED BY <1>1, <1>2 DEF Next

\* Whatever is typed, the query is a text and the line and the options stay as
\* they were given.
THEOREM MatchingIsTyped == Spec => []MatchingTyped
<1>1. Init => MatchingTyped
  BY MaxStrokesIsNat DEF Init, MatchingTyped
<1>2. MatchingTyped /\ [Next]_vars => MatchingTyped'
  BY MatchingTypeStep
<1> QED BY <1>1, <1>2, PTL DEF Spec

\* Whatever line is read under whatever options, and whatever is typed: the item
\* matches the query exactly when a searched range satisfies, for every set of
\* the query, one of its terms (parse_terms, match and every algorithm).
THEOREM MatchingIsRight == Spec => []MatchesWhatIsAsked
<1>1. MatchingTyped => MatchesWhatIsAsked
  BY HitIsRight
<1> QED BY <1>1, MatchingIsTyped, PTL

-----------------------------------------------------------------------------
(* Where a match is: the places calculate_score reports are those of the
   pattern matched greedily in the window. *)

ScoreSteps(cl, t, p, b, n, h) ==
    h = [i \in 0 .. n |-> IF i = 0 THEN M!ScoreStart ELSE M!ScoreStep(cl, t, p, h[i - 1], b + i)]
ScoreUpto(cl, t, p, b, e) == CHOOSE h : ScoreSteps(cl, t, p, b, e - b, h)

LEMMA ScoreExists ==
    ASSUME NEW cl, NEW t, NEW p, NEW b, NEW n \in Nat
    PROVE  \E h : ScoreSteps(cl, t, p, b, n, h)
<1> DEFINE Bad == {m \in Nat : ~ \E h : ScoreSteps(cl, t, p, b, m, h)}
<1>1. SUFFICES ASSUME Bad # {} PROVE FALSE
  OBVIOUS
<1>2. PICK m \in Bad : \A k \in Bad : m <= k
  <2>1. Bad \subseteq Nat
    OBVIOUS
  <2> HIDE DEF Bad
  <2> QED BY <1>1, <2>1, NatLeast
<1>3. m \in Nat /\ ~ \E h : ScoreSteps(cl, t, p, b, m, h)
  OBVIOUS
<1>4. CASE m = 0
  <2> DEFINE h == [i \in 0 .. m |-> M!ScoreStart]
  <2>1. ScoreSteps(cl, t, p, b, m, h)
    BY <1>4 DEF ScoreSteps
  <2> QED BY <1>3, <2>1
<1>5. CASE m # 0
  <2>1. m - 1 \in Nat /\ ~ (m <= m - 1)
    BY <1>3, <1>5
  <2>2. PICK g : ScoreSteps(cl, t, p, b, m - 1, g)
    BY <1>2, <2>1
  <2> DEFINE h == [i \in 0 .. m |-> IF i < m THEN g[i] ELSE M!ScoreStep(cl, t, p, g[m - 1], b + m)]
             w(i) == IF i = 0 THEN M!ScoreStart ELSE M!ScoreStep(cl, t, p, h[i - 1], b + i)
  <2>3. ASSUME NEW i \in 0 .. m PROVE h[i] = w(i)
    <3>1. CASE i = m
      <4>1. h[i - 1] = g[m - 1] /\ h[i] = M!ScoreStep(cl, t, p, g[m - 1], b + m)
        BY <3>1, <2>1, <1>5
      <4> QED BY <3>1, <4>1, <1>5
    <3>2. CASE i # m
      <4>1. i \in 0 .. m - 1 /\ i < m /\ (i # 0 => i - 1 \in 0 .. m /\ i - 1 < m)
        BY <3>2, <1>3
      <4>2. h[i] = g[i] /\ (i # 0 => h[i - 1] = g[i - 1])
        BY <4>1
      <4>3. g[i] = IF i = 0 THEN M!ScoreStart ELSE M!ScoreStep(cl, t, p, g[i - 1], b + i)
        BY <2>2, <4>1 DEF ScoreSteps
      <4> HIDE DEF h
      <4> QED BY <4>2, <4>3
    <3> QED BY <3>1, <3>2
  <2>4. h = [i \in 0 .. m |-> h[i]]
    OBVIOUS
  <2>5. ScoreSteps(cl, t, p, b, m, h)
    <3> HIDE DEF h
    <3> QED BY <2>3, <2>4 DEF ScoreSteps
  <2> QED BY <1>3, <2>5
<1> QED BY <1>4, <1>5

\* The account of calculate_score after the places w of the window at b.
ScoreFields == {"k", "score", "gap", "run", "first", "at"}
Agrees(a, w, b) ==
    /\ DOMAIN a = ScoreFields /\ a.k = Len(w) + 1
    /\ a.at \in Seq(Int) /\ Len(a.at) = Len(w) /\ \A i \in 1 .. Len(w) : a.at[i] = b + w[i]

LEMMA ScoreStepIs ==
    ASSUME NEW cl, NEW t, NEW p, NEW a, DOMAIN a = ScoreFields, NEW j
    PROVE  LET x == M!ScoreStep(cl, t, p, a, j)
           IN  /\ DOMAIN x = ScoreFields
               /\ x.k = IF a.k <= Len(p) /\ t[j] = p[a.k] THEN a.k + 1 ELSE a.k
               /\ x.at = IF a.k <= Len(p) /\ t[j] = p[a.k] THEN Append(a.at, j) ELSE a.at
<1> DEFINE hit == a.k <= Len(p) /\ t[j] = p[a.k]
<1>1. CASE hit
  <2>1. M!ScoreStep(cl, t, p, a, j) = M!ScoreHit(a, M!Bonus(cl, j), j)
    BY <1>1 DEF M!ScoreStep
  <2>2. \A bonus : LET x == M!ScoreHit(a, bonus, j)
                   IN  DOMAIN x = ScoreFields /\ x.k = a.k + 1 /\ x.at = Append(a.at, j)
    BY DEF M!ScoreHit, ScoreFields
  <2> QED BY <1>1, <2>1, <2>2
<1>2. CASE ~hit
  <2>1. M!ScoreStep(cl, t, p, a, j) = M!ScoreMiss(a)
    BY <1>2 DEF M!ScoreStep
  <2>2. "k" \in DOMAIN a /\ "at" \in DOMAIN a
    BY DEF ScoreFields
  <2>3. DOMAIN M!ScoreMiss(a) = ScoreFields /\ M!ScoreMiss(a).k = a.k /\ M!ScoreMiss(a).at = a.at
    BY <2>2 DEF M!ScoreMiss
  <2> QED BY <1>2, <2>1, <2>3
<1> QED BY <1>1, <1>2

LEMMA ScoreIs ==
    ASSUME NEW cl, NEW t \in Text, NEW p \in Text, NEW b \in Nat, NEW e \in Nat, b <= e, e <= Len(t)
    PROVE  LET w  == M!GreedyPlaces(SubSeq(t, b + 1, e), p)
               at == M!CalculateScore(cl, t, p, b, e).at
           IN  at \in Seq(Int) /\ Len(at) = Len(w) /\ \A i \in 1 .. Len(w) : at[i] = b + w[i]
<1> DEFINE win  == SubSeq(t, b + 1, e)
           size == e - b
           S    == ScoreUpto(cl, t, p, b, e)
           W    == GreedyUpto(win, p)
           Bad  == {n \in 0 .. size : ~Agrees(S[n], W[n], b)}
<1>0. size \in Nat
  OBVIOUS
<1>1. win \in Text /\ Len(win) = size /\ \A i \in 1 .. size : win[i] = t[b + i]
  BY PartIs
<1>2. ScoreSteps(cl, t, p, b, size, S)
  BY <1>0, ScoreExists DEF ScoreUpto
<1>3. M!CalculateScore(cl, t, p, b, e) = S[size]
  BY DEF M!CalculateScore, ScoreUpto, ScoreSteps
<1> HIDE DEF S, win, size
<1>4. /\ M!GreedyPlaces(win, p) = W[size] /\ W[0] = <<>>
      /\ \A n \in 1 .. size : W[n] = IF Len(W[n - 1]) < Len(p) /\ win[n] = p[Len(W[n - 1]) + 1]
                                     THEN Append(W[n - 1], n) ELSE W[n - 1]
  BY <1>1, GreedyIs
<1>5. \A n \in 0 .. size : W[n] \in Seq(1 .. n) /\ Len(W[n]) \in Nat /\ Len(W[n]) <= Len(p)
  <2>1. \A n \in 0 .. size : Spells(win, p, n, W[n])
    BY <1>1, GreedySpells
  <2> HIDE DEF W
  <2>2. ASSUME NEW n \in 0 .. size PROVE W[n] \in Seq(1 .. n) /\ Len(W[n]) \in Nat /\ Len(W[n]) <= Len(p)
    BY <2>1 DEF Spells
  <2> QED BY <2>2
<1> HIDE DEF W
<1>6. \A i \in 0 .. size : S[i] = IF i = 0 THEN M!ScoreStart ELSE M!ScoreStep(cl, t, p, S[i - 1], b + i)
  BY <1>2 DEF ScoreSteps
<1>7. Agrees(S[0], W[0], b)
  <2>1. S[0] = M!ScoreStart
    BY <1>0, <1>6
  <2> QED BY <2>1, <1>4 DEF Agrees, M!ScoreStart, ScoreFields
<1>8. ASSUME NEW n \in 1 .. size, Agrees(S[n - 1], W[n - 1], b) PROVE Agrees(S[n], W[n], b)
  <2> DEFINE a == S[n - 1]
             w == W[n - 1]
             x == S[n]
             j == b + n
  <2>1. n \in 0 .. size /\ n - 1 \in 0 .. size /\ n # 0 /\ n \in Nat /\ j \in Int
    BY <1>0
  <2>2. x = M!ScoreStep(cl, t, p, a, j) /\ DOMAIN a = ScoreFields
    BY <1>6, <1>8, <2>1 DEF Agrees
  <2>3. w \in Seq(Int) /\ Len(w) \in Nat
    BY <1>5, <2>1
  <2>4. a.k = Len(w) + 1 /\ a.at \in Seq(Int) /\ Len(a.at) = Len(w) /\ \A i \in 1 .. Len(w) : a.at[i] = b + w[i]
    BY <1>8 DEF Agrees
  <2>5. t[j] = win[n]
    BY <1>1
  <2>6. W[n] = IF Len(w) < Len(p) /\ t[j] = p[Len(w) + 1] THEN Append(w, n) ELSE w
    BY <1>4, <2>5
  <2> HIDE DEF a, w, x, j
  <2>7. /\ DOMAIN x = ScoreFields
        /\ x.k = IF a.k <= Len(p) /\ t[j] = p[a.k] THEN a.k + 1 ELSE a.k
        /\ x.at = IF a.k <= Len(p) /\ t[j] = p[a.k] THEN Append(a.at, j) ELSE a.at
    BY <2>2, ScoreStepIs
  <2>8. Len(p) \in Nat /\ (a.k <= Len(p) <=> Len(w) < Len(p))
    BY <2>3, <2>4 DEF Text
  <2>9. CASE ~(Len(w) < Len(p) /\ t[j] = p[Len(w) + 1])
    <3>1. W[n] = w /\ x.k = a.k /\ x.at = a.at
      BY <2>9, <2>6, <2>7, <2>8, <2>4
    <3> QED BY <3>1, <2>4, <2>7 DEF Agrees, x
  <2>10. CASE Len(w) < Len(p) /\ t[j] = p[Len(w) + 1]
    <3>1. W[n] = Append(w, n) /\ x.k = a.k + 1 /\ x.at = Append(a.at, j)
      BY <2>10, <2>6, <2>7, <2>8, <2>4
    <3> DEFINE v  == Append(w, n)
               at == Append(a.at, j)
               m  == Len(w)
    <3>2. n \in Int /\ j \in Int
      BY <2>1
    <3>3. Len(v) = m + 1 /\ v[m + 1] = n /\ \A i \in 1 .. m : v[i] = w[i]
      BY <2>3, <3>2
    <3>4. at \in Seq(Int) /\ Len(at) = m + 1 /\ at[m + 1] = j /\ \A i \in 1 .. m : at[i] = a.at[i]
      BY <2>3, <2>4, <3>2
    <3> HIDE DEF v, at
    <3>5. m \in Nat
      BY <2>3
    <3>6. ASSUME NEW i \in 1 .. m + 1 PROVE at[i] = b + v[i]
      <4>1. CASE i = m + 1
        BY <4>1, <3>3, <3>4 DEF j
      <4>2. CASE i # m + 1
        <5>1. i \in 1 .. m
          BY <3>5, <4>2
        <5> QED BY <5>1, <3>3, <3>4, <2>4
      <4> QED BY <4>1, <4>2
    <3>7. x.k = m + 1 + 1
      BY <3>1, <2>4
    <3> HIDE DEF m
    <3> QED BY <3>1, <3>3, <3>4, <3>6, <3>7, <2>7 DEF Agrees, x, v, at
  <2> QED BY <2>9, <2>10
<1>9. Bad = {}
  <2>1. SUFFICES ASSUME Bad # {} PROVE FALSE
    OBVIOUS
  <2>2. PICK n \in Bad : \A k \in Bad : n <= k
    <3>1. Bad \subseteq Nat
      OBVIOUS
    <3> HIDE DEF Bad
    <3> QED BY <2>1, <3>1, NatLeast
  <2>3. n # 0
    BY <1>7
  <2>4. n \in 1 .. size /\ n - 1 \in 0 .. size /\ ~ (n <= n - 1)
    BY <1>0, <2>3
  <2>5. Agrees(S[n - 1], W[n - 1], b)
    BY <2>2, <2>4
  <2> QED BY <2>4, <2>5, <1>8
<1>10. Agrees(S[size], W[size], b)
  BY <1>0, <1>9
<1> QED BY <1>10, <1>3, <1>4 DEF Agrees, win
\* A match at these places: they spell the pattern, in order, from the first
\* place of the match to its last.
Placed(r, t, p) ==
    /\ Len(r.at) = Len(p)
    /\ \A k \in 1 .. Len(p) : t[r.at[k]] = p[k] /\ (k > 1 => r.at[k - 1] < r.at[k])
    /\ r.begin = r.at[1] - 1 /\ r.end = r.at[Len(r.at)]

\* A window whose greedy places start at its first place and end at its last.
LEMMA WindowPlaced ==
    ASSUME NEW cl, NEW t \in Text, NEW p \in Text, p # <<>>, NEW b \in Nat, NEW e \in Nat, b <= e, e <= Len(t),
           NEW win, win = SubSeq(t, b + 1, e), NEW g, g = M!GreedyPlaces(win, p), Len(g) = Len(p), Embeds(win, p, g),
           g[1] = 1, b + g[Len(p)] = e
    PROVE  Placed(M!ScoredMatch(cl, t, p, b, e), t, p)
<1> DEFINE at == M!CalculateScore(cl, t, p, b, e).at
           r  == M!ScoredMatch(cl, t, p, b, e)
           n  == Len(p)
<1>1. n \in Nat /\ n >= 1
  BY DEF Text
<1>2. Len(win) = e - b /\ \A i \in 1 .. e - b : win[i] = t[b + i]
  BY PartIs
<1>3. at \in Seq(Int) /\ Len(at) = n /\ \A i \in 1 .. n : at[i] = b + g[i]
  <2> DEFINE w == M!GreedyPlaces(SubSeq(t, b + 1, e), p)
  <2>1. at \in Seq(Int) /\ Len(at) = Len(w) /\ \A i \in 1 .. Len(w) : at[i] = b + w[i]
    BY ScoreIs
  <2>2. w = g
    OBVIOUS
  <2> HIDE DEF w, at
  <2> QED BY <2>1, <2>2
<1>4. r.at = at /\ r.begin = b /\ r.end = e
  BY DEF M!ScoredMatch, M!Scored, M!Found
<1> HIDE DEF at, r
<1>5. \A k \in 1 .. n : g[k] \in 1 .. e - b /\ win[g[k]] = p[k] /\ (k > 1 => g[k - 1] < g[k])
  BY <1>2 DEF Embeds
<1> HIDE DEF n
<1>6. ASSUME NEW k \in 1 .. n PROVE t[at[k]] = p[k] /\ (k > 1 => at[k - 1] < at[k])
  <2>1. at[k] = b + g[k] /\ g[k] \in 1 .. e - b /\ win[g[k]] = p[k]
    BY <1>3, <1>5
  <2>2. k > 1 => k - 1 \in 1 .. n /\ at[k - 1] = b + g[k - 1] /\ g[k - 1] \in 1 .. e - b /\ g[k - 1] < g[k]
    <3>1. k > 1 => k - 1 \in 1 .. n
      BY <1>1
    <3> QED BY <3>1, <1>3, <1>5
  <2>3. t[at[k]] = p[k]
    BY <2>1, <1>2
  <2> QED BY <2>1, <2>2, <2>3
<1>7. at[1] = b + 1 /\ at[n] = e
  BY <1>1, <1>3 DEF n
<1> QED BY <1>3, <1>4, <1>6, <1>7 DEF Placed, r, n

\* Numbers that rise keep their distance.
LEMMA RisingIs ==
    ASSUME NEW n \in Nat, NEW f, \A k \in 1 .. n : f[k] \in Int, \A k \in 1 .. n : k > 1 => f[k - 1] < f[k]
    PROVE  \A j \in 1 .. n : \A i \in 1 .. j : j - i <= f[j] - f[i]
<1> DEFINE Bad == {j \in 1 .. n : ~ \A i \in 1 .. j : j - i <= f[j] - f[i]}
<1>1. SUFFICES ASSUME Bad # {} PROVE FALSE
  OBVIOUS
<1>2. PICK j \in Bad : \A k \in Bad : j <= k
  <2>1. Bad \subseteq Nat
    OBVIOUS
  <2> HIDE DEF Bad
  <2> QED BY <1>1, <2>1, NatLeast
<1>3. PICK i \in 1 .. j : ~ (j - i <= f[j] - f[i])
  OBVIOUS
<1>4. j \in 1 .. n /\ f[j] \in Int /\ i # j
  BY <1>3
<1>5. j - 1 \in 1 .. n /\ i \in 1 .. j - 1 /\ j > 1 /\ ~ (j <= j - 1)
  BY <1>3, <1>4
<1>6. \A h \in 1 .. j - 1 : j - 1 - h <= f[j - 1] - f[h]
  BY <1>2, <1>5
<1>7. j - 1 - i <= f[j - 1] - f[i] /\ f[j - 1] < f[j] /\ f[j - 1] \in Int /\ f[i] \in Int
  BY <1>5, <1>6
<1> QED BY <1>3, <1>4, <1>7

\* A pattern that stands in the text without gaps is found where it stands.
LEMMA StandingPlaced ==
    ASSUME NEW cl, NEW t \in Text, NEW p \in Text, p # <<>>, NEW d \in Nat, M!StandsAt(t, p, d)
    PROVE  Placed(M!ScoredMatch(cl, t, p, d, d + Len(p)), t, p)
<1> DEFINE n   == Len(p)
           e   == d + n
           win == SubSeq(t, d + 1, e)
           g   == M!GreedyPlaces(win, p)
           c   == [k \in 1 .. n |-> k]
<1>1. n \in Nat /\ n >= 1 /\ DOMAIN p = 1 .. n /\ Len(t) \in Nat
  BY DEF Text
<1>2. e <= Len(t) /\ \A k \in 1 .. n : t[d + k] = p[k]
  BY <1>1 DEF M!StandsAt
<1> HIDE DEF n
<1>3. e \in Nat /\ d <= e /\ e - d = n
  BY <1>1
<1>4. win \in Text /\ Len(win) = n /\ \A i \in 1 .. n : win[i] = t[d + i]
  <2> HIDE DEF e
  <2>1. win \in Text /\ Len(win) = e - d /\ \A i \in 1 .. e - d : win[i] = t[d + i]
    BY <1>2, <1>3, PartIs
  <2> QED BY <2>1, <1>3
<1> HIDE DEF win, e
<1>5. Embeds(win, p, c)
  <2>1. \A k \in 1 .. n : c[k] = k /\ win[c[k]] = p[k] /\ (k > 1 => c[k - 1] < c[k])
    BY <1>1, <1>2, <1>4
  <2>2. c \in [1 .. n -> 1 .. n]
    OBVIOUS
  <2> HIDE DEF c
  <2> QED BY <2>1, <2>2, <1>4 DEF Embeds, n
<1>6. Embeds(win, p, g) /\ Len(g) = n /\ \A k \in 1 .. n : g[k] <= c[k]
  BY <1>4, <1>5, GreedyEarliest DEF n
<1> HIDE DEF g
<1>7. \A k \in 1 .. n : g[k] \in 1 .. n /\ (k > 1 => g[k - 1] < g[k])
  BY <1>4, <1>6 DEF Embeds, n
<1>8. \A j \in 1 .. n : \A i \in 1 .. j : j - i <= g[j] - g[i]
  <2>1. \A k \in 1 .. n : g[k] \in Int
    BY <1>7
  <2> QED BY <2>1, <1>1, <1>7, RisingIs
<1>9. g[1] = 1 /\ g[n] = n
  <2>1. 1 \in 1 .. n /\ n \in 1 .. n
    BY <1>1
  <2>2. g[1] \in 1 .. n /\ g[n] \in 1 .. n /\ n - 1 <= g[n] - g[1]
    BY <1>1, <1>7, <1>8, <2>1
  <2>3. g[1] <= 1
    BY <1>6, <2>1
  <2> QED BY <1>1, <2>2, <2>3
<1> QED BY <1>2, <1>3, <1>4, <1>6, <1>9, WindowPlaced DEF n, e, win, g
\* fuzzy_match_v1: the forward scan ends as early as it can, the backward scan
\* starts the window as late as it can, so the places in the window begin and
\* end it.
LEMMA BackwardScan ==
    ASSUME NEW t \in Text, NEW p \in Text, p # <<>>, NEW f, Embeds(t, p, f), NEW e, e = f[Len(p)]
    PROVE  LET R == M!GreedyPlaces(M!Reverse(SubSeq(t, 1, e)), M!Reverse(p))
           IN  /\ R \in Seq(1 .. e) /\ Len(R) = Len(p) /\ R[1] = 1
               /\ \A k \in 1 .. Len(p) : t[e - R[k] + 1] = p[Len(p) - k + 1] /\ (k > 1 => R[k - 1] < R[k])
<1> DEFINE n    == Len(p)
           head == SubSeq(t, 1, e)
           rt   == M!Reverse(head)
           rp   == M!Reverse(p)
           R    == M!GreedyPlaces(rt, rp)
           c    == [k \in 1 .. n |-> e - f[n - k + 1] + 1]
<1>1. n \in Nat /\ n >= 1 /\ Len(t) \in Nat
  BY DEF Text
<1>2. \A k \in 1 .. n : f[k] \in 1 .. Len(t) /\ t[f[k]] = p[k] /\ (k > 1 => f[k - 1] < f[k])
  BY DEF Embeds
<1>3. e \in 1 .. Len(t) /\ e \in Nat /\ e <= Len(t)
  BY <1>1, <1>2
<1>4. head \in Text /\ Len(head) = e /\ \A i \in 1 .. e : head[i] = t[i]
  BY <1>3, BeginningIs
<1> HIDE DEF head, n
<1>5. rt \in Text /\ Len(rt) = e /\ \A i \in 1 .. e : rt[i] = head[e - i + 1]
  <2>1. Reverse(head) \in Text /\ Len(Reverse(head)) = Len(head) /\ \A i \in 1 .. Len(head) : Reverse(head)[i] = head[Len(head) - i + 1]
    BY <1>4, ReverseIs
  <2>2. rt = Reverse(head)
    BY DEF Reverse, M!Reverse
  <2> HIDE DEF rt
  <2> QED BY <2>1, <2>2, <1>4
<1>6. rp \in Text /\ Len(rp) = n /\ \A i \in 1 .. n : rp[i] = p[n - i + 1]
  <2>1. Reverse(p) \in Text /\ Len(Reverse(p)) = Len(p) /\ \A i \in 1 .. Len(p) : Reverse(p)[i] = p[Len(p) - i + 1]
    BY ReverseIs
  <2>2. rp = Reverse(p)
    BY DEF Reverse, M!Reverse
  <2> HIDE DEF rp
  <2> QED BY <2>1, <2>2 DEF n
<1> HIDE DEF rt, rp
<1>7. \A j \in 1 .. n : \A i \in 1 .. j : j - i <= f[j] - f[i]
  <2>1. \A k \in 1 .. n : f[k] \in Int
    BY <1>2
  <2> QED BY <2>1, <1>1, <1>2, RisingIs
<1>8. ASSUME NEW k \in 1 .. n PROVE c[k] \in 1 .. e /\ rt[c[k]] = rp[k] /\ (k > 1 => c[k - 1] < c[k])
  <2> DEFINE m == n - k + 1
  <2>1. m \in 1 .. n /\ n \in 1 .. n
    BY <1>1
  <2>2. n - m <= f[n] - f[m] /\ f[m] \in 1 .. Len(t) /\ t[f[m]] = p[m]
    BY <2>1, <1>2, <1>7
  <2>3. c[k] = e - f[m] + 1
    OBVIOUS
  <2>4. k > 1 => k - 1 \in 1 .. n /\ m + 1 \in 1 .. n /\ c[k - 1] = e - f[m + 1] + 1
    <3>1. ASSUME k > 1 PROVE k - 1 \in 1 .. n /\ m + 1 \in 1 .. n /\ n - (k - 1) + 1 = m + 1
      BY <1>1, <3>1
    <3> HIDE DEF m
    <3> QED BY <3>1
  <2>5. m + 1 \in 1 .. n => f[m] < f[m + 1] /\ f[m + 1] \in 1 .. Len(t)
    <3>1. ASSUME m + 1 \in 1 .. n PROVE m + 1 > 1
      BY <2>1
    <3> DEFINE l == m + 1
    <3> HIDE DEF m, l
    <3>2. l \in 1 .. n => f[l] \in 1 .. Len(t) /\ (l > 1 => f[l - 1] < f[l])
      BY <1>2
    <3>3. l \in 1 .. n => l > 1 /\ l - 1 = m
      BY <2>1, <3>1 DEF l
    <3>4. l \in 1 .. n => f[l] \in 1 .. Len(t) /\ f[m] < f[l]
      BY <3>2, <3>3
    <3> QED BY <3>4 DEF l
  <2>0. f[m] \in 1 .. e
    <3> HIDE DEF m
    <3>1. f[m] <= e /\ f[m] >= 1 /\ f[m] \in Int
      BY <2>1, <2>2, <1>1, <1>3 DEF n
    <3> QED BY <3>1, <1>3
  <2>6. c[k] \in 1 .. e
    <3> HIDE DEF c, m
    <3> QED BY <2>0, <2>3, <1>3
  <2>7. rt[c[k]] = rp[k]
    <3>1. e - c[k] + 1 = f[m]
      BY <2>2, <2>3, <1>3
    <3> HIDE DEF c, m
    <3>3. rt[c[k]] = head[f[m]] /\ head[f[m]] = t[f[m]]
      BY <3>1, <2>0, <2>6, <1>4, <1>5
    <3> QED BY <3>3, <2>2, <1>6 DEF m
  <2>8. k > 1 => c[k - 1] < c[k]
    <3> HIDE DEF c, m
    <3>1. f[m] \in Int /\ e \in Int
      BY <2>2, <1>3
    <3> QED BY <3>1, <2>3, <2>4, <2>5
  <2> HIDE DEF c
  <2> QED BY <2>6, <2>7, <2>8
<1>9. Embeds(rt, rp, c)
  <2>1. c \in [1 .. n -> 1 .. e]
    <3>1. \A k \in 1 .. n : c[k] \in 1 .. e
      BY <1>8
    <3>2. c = [k \in 1 .. n |-> c[k]]
      OBVIOUS
    <3> HIDE DEF c
    <3> QED BY <3>1, <3>2
  <2> HIDE DEF c
  <2> QED BY <2>1, <1>5, <1>6, <1>8 DEF Embeds
<1>10. c[1] = 1
  <2>1. 1 \in 1 .. n /\ n - 1 + 1 = n
    BY <1>1
  <2>2. c[1] = e - f[n - 1 + 1] + 1
    BY <2>1
  <2> QED BY <2>1, <2>2, <1>3 DEF n
<1> HIDE DEF c
<1>11. Embeds(rt, rp, R) /\ Len(R) = n /\ R \in Seq(1 .. e) /\ \A k \in 1 .. n : R[k] <= c[k]
  BY <1>5, <1>6, <1>9, GreedyEarliest
<1> HIDE DEF R
<1>12. \A k \in 1 .. n : R[k] \in 1 .. e /\ rt[R[k]] = rp[k] /\ (k > 1 => R[k - 1] < R[k])
  BY <1>11, <1>5, <1>6 DEF Embeds
<1>13. R[1] = 1
  <2>1. 1 \in 1 .. n
    BY <1>1
  <2> QED BY <2>1, <1>10, <1>11, <1>12
<1>14. ASSUME NEW k \in 1 .. n PROVE t[e - R[k] + 1] = p[n - k + 1]
  <2>1. R[k] \in 1 .. e /\ rt[R[k]] = rp[k]
    BY <1>12
  <2>2. e - R[k] + 1 \in 1 .. e
    BY <2>1, <1>3
  <2> QED BY <2>1, <2>2, <1>4, <1>5, <1>6
<1> QED BY <1>11, <1>12, <1>13, <1>14 DEF n, R, rt, rp, head

LEMMA ShrunkPlaced ==
    ASSUME NEW cl, NEW t \in Text, NEW p \in Text, p # <<>>, Len(M!GreedyPlaces(t, p)) = Len(p)
    PROVE  Placed(M!Shrunk(cl, t, p, M!Last(M!GreedyPlaces(t, p))), t, p)
<1> DEFINE n   == Len(p)
           f   == M!GreedyPlaces(t, p)
           e   == f[n]
           R   == M!GreedyPlaces(M!Reverse(SubSeq(t, 1, e)), M!Reverse(p))
           b   == e - R[n]
           win == SubSeq(t, b + 1, e)
           g   == M!GreedyPlaces(win, p)
           c   == [k \in 1 .. n |-> R[n] - R[n - k + 1] + 1]
           x   == [k \in 1 .. n |-> b + g[k]]
<1>1. n \in Nat /\ n >= 1 /\ Len(t) \in Nat
  BY DEF Text
<1>2. \E at : Embeds(t, p, at)
  BY GreedyFinds
<1>3. Embeds(t, p, f) /\ \A at : Embeds(t, p, at) => \A k \in 1 .. n : f[k] <= at[k]
  BY <1>2, GreedyEarliest
<1>4. /\ R \in Seq(1 .. e) /\ Len(R) = n /\ R[1] = 1
      /\ \A k \in 1 .. n : t[e - R[k] + 1] = p[n - k + 1] /\ (k > 1 => R[k - 1] < R[k])
  BY <1>3, BackwardScan
<1>5. M!Shrunk(cl, t, p, M!Last(f)) = M!ScoredMatch(cl, t, p, b, e)
  <2>1. M!Last(f) = e
    BY DEF M!Last
  <2>2. M!Last(R) = R[n]
    BY <1>4 DEF M!Last
  <2> QED BY <2>1, <2>2 DEF M!Shrunk
<1> HIDE DEF f, n
<1>6. e \in 1 .. Len(t) /\ e \in Nat
  BY <1>1, <1>3 DEF Embeds, n
<1> HIDE DEF R, e
<1>7. \A k \in 1 .. n : R[k] \in 1 .. e
  <2> DEFINE S == 1 .. e
  <2>1. R \in Seq(S) /\ Len(R) = n
    BY <1>4
  <2> HIDE DEF S
  <2>2. \A k \in 1 .. n : R[k] \in S
    BY <2>1
  <2> QED BY <2>2 DEF S
<1>8. b \in Nat /\ b <= e /\ e <= Len(t) /\ e - b = R[n] /\ R[n] \in Nat
  BY <1>1, <1>6, <1>7
<1> HIDE DEF b
<1>9. win \in Text /\ Len(win) = R[n] /\ \A i \in 1 .. R[n] : win[i] = t[b + i]
  <2>1. win \in Text /\ Len(win) = e - b /\ \A i \in 1 .. e - b : win[i] = t[b + i]
    BY <1>6, <1>8, PartIs
  <2> QED BY <2>1, <1>8
<1> HIDE DEF win
<1>10. \A j \in 1 .. n : \A i \in 1 .. j : j - i <= R[j] - R[i]
  <2>1. \A k \in 1 .. n : R[k] \in Int
    BY <1>7
  <2> QED BY <2>1, <1>1, <1>4, RisingIs
<1>11. ASSUME NEW k \in 1 .. n PROVE c[k] \in 1 .. R[n] /\ win[c[k]] = p[k] /\ (k > 1 => c[k - 1] < c[k])
  <2> DEFINE m == n - k + 1
  <2>1. m \in 1 .. n /\ n \in 1 .. n /\ n - m + 1 = k
    BY <1>1
  <2>2. n - m <= R[n] - R[m] /\ R[m] \in 1 .. e /\ R[n] \in 1 .. e /\ t[e - R[m] + 1] = p[k]
    BY <2>1, <1>4, <1>7, <1>10
  <2>3. c[k] = R[n] - R[m] + 1
    OBVIOUS
  <2>4. k > 1 => c[k - 1] = R[n] - R[m + 1] + 1 /\ m + 1 \in 1 .. n /\ R[m] < R[m + 1] /\ R[m + 1] \in 1 .. e
    <3>1. SUFFICES ASSUME k > 1 PROVE c[k - 1] = R[n] - R[m + 1] + 1 /\ m + 1 \in 1 .. n /\ R[m] < R[m + 1] /\ R[m + 1] \in 1 .. e
      OBVIOUS
    <3>2. k - 1 \in 1 .. n /\ m + 1 \in 1 .. n /\ n - (k - 1) + 1 = m + 1 /\ m + 1 > 1
      BY <1>1, <3>1, <2>1
    <3>3. c[k - 1] = R[n] - R[n - (k - 1) + 1] + 1
      BY <3>2
    <3> DEFINE l == m + 1
    <3> HIDE DEF m, l, c
    <3>4. l \in 1 .. n /\ l > 1 /\ l - 1 = m /\ n - (k - 1) + 1 = l
      BY <2>1, <3>2 DEF l
    <3>5. R[l - 1] < R[l] /\ R[l] \in 1 .. e
      BY <3>4, <1>4, <1>7
    <3>6. R[m] < R[l] /\ c[k - 1] = R[n] - R[l] + 1
      BY <3>3, <3>4, <3>5
    <3> QED BY <3>4, <3>5, <3>6 DEF l
  <2> HIDE DEF c
  <2>5. c[k] \in 1 .. R[n]
    <3> HIDE DEF m
    <3> QED BY <2>1, <2>2, <2>3, <1>1
  <2>6. win[c[k]] = p[k]
    <3>1. b + c[k] = e - R[m] + 1
      <4> HIDE DEF m
      <4> QED BY <2>2, <2>3, <1>6, <1>8
    <3>2. win[c[k]] = t[b + c[k]]
      BY <2>5, <1>9
    <3> HIDE DEF m
    <3> QED BY <3>1, <3>2, <2>2
  <2>7. k > 1 => c[k - 1] < c[k]
    <3> HIDE DEF m
    <3> QED BY <2>2, <2>3, <2>4
  <2> QED BY <2>5, <2>6, <2>7
<1>12. Embeds(win, p, c)
  <2>1. c = [k \in 1 .. n |-> c[k]] /\ \A k \in 1 .. n : c[k] \in 1 .. R[n]
    BY <1>11
  <2> HIDE DEF c
  <2>2. c \in [1 .. n -> 1 .. R[n]]
    BY <2>1
  <2> QED BY <2>2, <1>9, <1>11 DEF Embeds, n
<1>13. c[1] = 1
  <2>1. 1 \in 1 .. n /\ n \in 1 .. n /\ n - 1 + 1 = n
    BY <1>1
  <2>2. c[1] = R[n] - R[n - 1 + 1] + 1
    BY <2>1
  <2> HIDE DEF c
  <2> QED BY <2>1, <2>2, <1>8
<1> HIDE DEF c
<1>14. Embeds(win, p, g) /\ Len(g) = n /\ \A k \in 1 .. n : g[k] <= c[k]
  BY <1>9, <1>12, GreedyEarliest DEF n
<1> HIDE DEF g
<1>15. \A k \in 1 .. n : g[k] \in 1 .. R[n] /\ win[g[k]] = p[k] /\ (k > 1 => g[k - 1] < g[k])
  BY <1>9, <1>14 DEF Embeds, n
<1>16. g[1] = 1
  <2>1. 1 \in 1 .. n
    BY <1>1
  <2> QED BY <2>1, <1>13, <1>14, <1>15
<1>17. ASSUME NEW k \in 1 .. n PROVE x[k] \in 1 .. Len(t) /\ t[x[k]] = p[k] /\ (k > 1 => x[k - 1] < x[k])
  <2>1. x[k] = b + g[k] /\ g[k] \in 1 .. R[n] /\ win[g[k]] = p[k]
    BY <1>15
  <2>2. k > 1 => k - 1 \in 1 .. n
    BY <1>1
  <2>3. k > 1 => x[k - 1] = b + g[k - 1] /\ g[k - 1] < g[k] /\ g[k - 1] \in 1 .. R[n]
    BY <2>2, <1>15
  <2> HIDE DEF x
  <2>4. win[g[k]] = t[x[k]]
    BY <2>1, <1>9
  <2>5. x[k] \in 1 .. Len(t)
    BY <2>1, <1>1, <1>6, <1>8
  <2> QED BY <2>1, <2>3, <2>4, <2>5, <1>8
<1>18. Embeds(t, p, x)
  <2>1. x = [k \in 1 .. n |-> x[k]] /\ \A k \in 1 .. n : x[k] \in 1 .. Len(t)
    BY <1>17
  <2> HIDE DEF x
  <2>2. x \in [1 .. n -> 1 .. Len(t)]
    BY <2>1
  <2> QED BY <2>2, <1>17 DEF Embeds, n
<1>19. b + g[n] = e
  <2>1. n \in 1 .. n
    BY <1>1
  <2>2. e <= x[n] /\ x[n] = b + g[n]
    BY <2>1, <1>3, <1>18 DEF e
  <2>3. g[n] \in 1 .. R[n]
    BY <2>1, <1>15
  <2> HIDE DEF x
  <2> QED BY <2>2, <2>3, <1>6, <1>8
<1> QED BY <1>5, <1>6, <1>8, <1>14, <1>16, <1>19, WindowPlaced DEF n, f, win, g
\* The places of a match without gaps, counted off.
LEMMA CountedPlaced ==
    ASSUME NEW t \in Text, NEW p \in Text, p # <<>>, NEW d \in Nat, M!StandsAt(t, p, d), NEW score
    PROVE  Placed(M!Found(score, d, d + Len(p), M!Places(d, d + Len(p))), t, p)
<1> DEFINE n  == Len(p)
           at == M!Places(d, d + n)
           r  == M!Found(score, d, d + n, at)
<1>1. n \in Nat /\ n >= 1 /\ DOMAIN p = 1 .. n
  BY DEF Text
<1>2. \A k \in 1 .. n : t[d + k] = p[k]
  BY <1>1 DEF M!StandsAt
<1>3. r.at = at /\ r.begin = d /\ r.end = d + n
  BY DEF M!Found
<1> HIDE DEF n, r
<1>4. at = [k \in 1 .. n |-> d + k]
  <2>1. (d + n) - d = n
    BY <1>1
  <2> QED BY <2>1 DEF M!Places
<1>5. Len(at) = n
  BY <1>1, <1>4
<1>6. \A k \in 1 .. n : at[k] = d + k
  BY <1>4
<1> HIDE DEF at
<1>7. ASSUME NEW k \in 1 .. n PROVE t[at[k]] = p[k] /\ (k > 1 => at[k - 1] < at[k])
  <2>1. k > 1 => k - 1 \in 1 .. n /\ d + (k - 1) < d + k
    BY <1>1
  <2> QED BY <2>1, <1>2, <1>6
<1>8. at[1] = d + 1 /\ at[n] = d + n
  BY <1>1, <1>6
<1> QED BY <1>3, <1>5, <1>7, <1>8 DEF Placed, n, r, at

LEMMA BonusIs ==
    ASSUME NEW cl, NEW j
    PROVE  M!Bonus(cl, j) \in 0 .. 10
<1>1. \A prev, curr : M!BonusFor(prev, curr) \in 0 .. 10
  BY DEF M!BonusFor, M!BonusBoundary, M!BonusBoundaryWhite, M!BonusBoundaryDelimiter, M!BonusCamel123, M!BonusNonWord
<1> QED BY <1>1 DEF M!Bonus

\* The occurrence an exact match keeps is one of those found.
LEMMA KeptIs ==
    ASSUME NEW cl, NEW D, D \subseteq Nat, D # {}
    PROVE  M!KeptStart(cl, D) \in D
<1> DEFINE good == {d \in D : M!Bonus(cl, d + 1) >= M!BonusBoundary}
           top  == {d \in D : \A x \in D : M!Bonus(cl, d + 1) >= M!Bonus(cl, x + 1)}
           V    == {M!Bonus(cl, d + 1) : d \in D}
<1>1. M!KeptStart(cl, D) = IF good # {} THEN M!Min(good) ELSE M!Min(top)
  BY DEF M!KeptStart
<1>2. good \subseteq D /\ top \subseteq D /\ good \subseteq Nat /\ top \subseteq Nat
  OBVIOUS
<1>3. top # {}
  <2>1. V \subseteq 0 .. 10 /\ V # {}
    BY BonusIs
  <2> HIDE DEF V
  <2>2. PICK m \in V : \A v \in V : v <= m
    BY <2>1, NatGreatest
  <2>3. PICK d \in D : m = M!Bonus(cl, d + 1)
    BY DEF V
  <2>4. ASSUME NEW x \in D PROVE M!Bonus(cl, d + 1) >= M!Bonus(cl, x + 1)
    <3>1. M!Bonus(cl, x + 1) \in V
      BY DEF V
    <3>2. M!Bonus(cl, x + 1) <= m /\ M!Bonus(cl, x + 1) \in 0 .. 10 /\ m \in 0 .. 10
      BY <3>1, <2>1, <2>2
    <3> QED BY <3>2, <2>3
  <2>5. d \in top
    BY <2>4
  <2> QED BY <2>5
<1> HIDE DEF good, top
<1>4. good # {} => M!Min(good) \in good
  BY <1>2, MinIs
<1>5. M!Min(top) \in top
  BY <1>2, <1>3, MinIs
<1> QED BY <1>1, <1>2, <1>4, <1>5

LEMMA ExactPlaced ==
    ASSUME NEW s, NEW cl, NEW t \in Text, NEW p \in Text, p # <<>>, NEW boundary \in BOOLEAN,
           M!ExactMatchNaive(s, cl, t, p, boundary).matched
    PROVE  Placed(M!ExactMatchNaive(s, cl, t, p, boundary), t, p)
<1> DEFINE D == {d \in 0 .. Len(t) - Len(p) : M!StandsAt(t, p, d) /\ (boundary => M!OnBoundaries(cl, p, d))}
           d == M!KeptStart(cl, D)
<1>1. M!ExactMatchNaive(s, cl, t, p, boundary) =
          IF D = {} THEN M!NoMatch ELSE M!ExactMatchAt(s, cl, t, p, boundary, d)
  BY DEF M!ExactMatchNaive
<1>2. D # {}
  BY <1>1 DEF M!NoMatch
<1>3. d \in D
  <2>1. D \subseteq Nat
    OBVIOUS
  <2> HIDE DEF D
  <2> QED BY <2>1, <1>2, KeptIs
<1>4. d \in Nat /\ M!StandsAt(t, p, d)
  <2>1. \A x \in D : x \in Nat /\ M!StandsAt(t, p, x)
    OBVIOUS
  <2> HIDE DEF d, D
  <2> QED BY <2>1, <1>3
<1> HIDE DEF d, D
<1>5. M!ExactMatchNaive(s, cl, t, p, boundary) =
          IF boundary THEN M!Found(M!BoundaryScore(s, cl, p, d), d, d + Len(p), M!Places(d, d + Len(p)))
          ELSE M!ScoredMatch(cl, t, p, d, d + Len(p))
  BY <1>1, <1>2 DEF M!ExactMatchAt
<1>6. Placed(M!Found(M!BoundaryScore(s, cl, p, d), d, d + Len(p), M!Places(d, d + Len(p))), t, p)
  BY <1>4, CountedPlaced
<1>7. Placed(M!ScoredMatch(cl, t, p, d, d + Len(p)), t, p)
  BY <1>4, StandingPlaced
<1> QED BY <1>5, <1>6, <1>7

LEMMA PrefixPlaced ==
    ASSUME NEW s, NEW t, NEW p, View(s, t, p), NEW cl, M!PrefixMatch(s, cl, t, p).matched
    PROVE  Placed(M!PrefixMatch(s, cl, t, p), t, p)
<1> DEFINE d == M!Lead(s, p)
<1>1. t \in Text /\ p \in Text /\ p # <<>>
  BY DEF View
<1>2. d \in Nat
  BY LeadIs
<1> HIDE DEF d
<1>3. M!PrefixMatch(s, cl, t, p) = IF ~M!StandsAt(t, p, d) THEN M!NoMatch ELSE M!ScoredMatch(cl, t, p, d, d + Len(p))
  BY <1>1 DEF M!PrefixMatch, d
<1>4. M!StandsAt(t, p, d)
  BY <1>3 DEF M!NoMatch
<1> QED BY <1>1, <1>2, <1>3, <1>4, StandingPlaced

LEMMA SuffixPlaced ==
    ASSUME NEW s, NEW t, NEW p, View(s, t, p), NEW cl, M!SuffixMatch(s, cl, t, p).matched
    PROVE  Placed(M!SuffixMatch(s, cl, t, p), t, p)
<1> DEFINE e == Len(t) - M!Trail(s, p)
           n == Len(p)
           d == e - n
           l == SubSeq(t, 1, e)
<1>1. t \in Text /\ p \in Text /\ p # <<>> /\ Len(t) \in Nat /\ n \in Nat
  BY DEF View, Text
<1>2. e \in Nat /\ e <= Len(t)
  BY <1>1, TrailIs
<1>3. M!SuffixMatch(s, cl, t, p) = IF ~M!StandsAt(l, p, d) THEN M!NoMatch ELSE M!ScoredMatch(cl, t, p, d, e)
  BY <1>1 DEF M!SuffixMatch
<1>4. M!StandsAt(l, p, d)
  BY <1>3 DEF M!NoMatch
<1> HIDE DEF e
<1>5. Len(l) = e /\ \A i \in 1 .. e : l[i] = t[i]
  BY <1>1, <1>2, BeginningIs
<1> HIDE DEF l
<1>6. d \in Nat /\ e = d + n /\ \A k \in DOMAIN p : l[d + k] = p[k]
  BY <1>1, <1>2, <1>4, <1>5 DEF M!StandsAt
<1>7. M!StandsAt(t, p, d)
  <2>1. DOMAIN p = 1 .. n
    BY <1>1 DEF Text
  <2>2. ASSUME NEW k \in DOMAIN p PROVE t[d + k] = p[k]
    <3>1. d + k \in 1 .. e
      BY <2>1, <1>1, <1>6
    <3> QED BY <3>1, <1>5, <1>6
  <2>3. d >= 0 /\ d + n <= Len(t)
    BY <1>2, <1>6
  <2> QED BY <2>2, <2>3 DEF M!StandsAt
<1> HIDE DEF d
<1>8. Placed(M!ScoredMatch(cl, t, p, d, d + n), t, p)
  BY <1>1, <1>6, <1>7, StandingPlaced
<1> QED BY <1>3, <1>4, <1>6, <1>8

LEMMA EqualPlaced ==
    ASSUME NEW s, NEW t, NEW p, View(s, t, p), M!EqualMatch(s, t, p).matched
    PROVE  Placed(M!EqualMatch(s, t, p), t, p)
<1> DEFINE d     == M!Lead(s, p)
           score == (M!ScoreMatch + M!BonusBoundaryWhite) * Len(p) + (M!FirstCharMultiplier - 1) * M!BonusBoundaryWhite
           none  == p = <<>> \/ Len(t) - d - M!Trail(s, p) # Len(p) \/ ~M!StandsAt(t, p, d)
<1>1. t \in Text /\ p \in Text /\ p # <<>>
  BY DEF View
<1>2. d \in Nat
  BY LeadIs
<1>3. M!EqualMatch(s, t, p) = IF none THEN M!NoMatch ELSE M!Found(score, d, d + Len(p), M!Places(d, d + Len(p)))
  BY DEF M!EqualMatch
<1>4. ~none
  <2> HIDE DEF none
  <2> QED BY <1>3 DEF M!NoMatch
<1>5. M!StandsAt(t, p, d)
  BY <1>4
<1> HIDE DEF d, score, none
<1>6. Placed(M!Found(score, d, d + Len(p), M!Places(d, d + Len(p))), t, p)
  BY <1>1, <1>2, <1>5, CountedPlaced
<1> QED BY <1>3, <1>4, <1>6
-----------------------------------------------------------------------------
(* fuzzy_match_v2: what its rows hold.  A cell is live when its run is not
   zero: only live cells carry over to the next row. *)

LEMMA MaxOfThree ==
    ASSUME NEW x \in Int, NEW y \in Int, NEW z \in Int
    PROVE  M!Max({x, y, z}) \in {x, y, z} /\ x <= M!Max({x, y, z}) /\ y <= M!Max({x, y, z}) /\ z <= M!Max({x, y, z})
<1> DEFINE S == {x, y, z}
<1>1. \E m \in S : \A k \in S : m >= k
  <2>1. CASE x >= y /\ x >= z
    BY <2>1
  <2>2. CASE y >= x /\ y >= z
    BY <2>2
  <2>3. CASE z >= x /\ z >= y
    BY <2>3
  <2>4. (x >= y /\ x >= z) \/ (y >= x /\ y >= z) \/ (z >= x /\ z >= y)
    OBVIOUS
  <2> QED BY <2>1, <2>2, <2>3, <2>4
<1>2. x \in S /\ y \in S /\ z \in S
  OBVIOUS
<1> HIDE DEF S
<1>3. M!Max(S) \in S /\ \A k \in S : M!Max(S) >= k
  BY <1>1 DEF M!Max
<1>4. S = {x, y, z}
  BY DEF S
<1> HIDE DEF S
<1>5. M!Max(S) \in {x, y, z} /\ M!Max(S) >= x /\ M!Max(S) >= y /\ M!Max(S) >= z
  BY <1>2, <1>3, <1>4
<1>6. M!Max(S) \in Int
  BY <1>5
<1>7. x <= M!Max(S) /\ y <= M!Max(S) /\ z <= M!Max(S)
  BY <1>5, <1>6
<1> QED BY <1>4, <1>5, <1>7

Bonuses(b, w) == \A j \in 1 .. Len(w) : b[j] \in 0 .. 10
RunsFit(row, w) == \A j \in 1 .. Len(w) : row[j].run \in 0 .. j
CellOk(cell, j, c, w) ==
    /\ cell.m \in Nat /\ cell.run \in 0 .. j /\ cell.from \in Nat
    /\ cell.m > 0 => cell.m >= 16 /\ w[j] = c
    /\ cell.run > 0 => cell.m > 0
Linked(cell, above, j) == cell.m > 0 => cell.from \in 1 .. j - 1 /\ above[cell.from].run > 0

LEMMA CellIs ==
    ASSUME NEW w \in Text, NEW c, NEW above, RunsFit(above, w), NEW b, Bonuses(b, w), NEW j \in 1 .. Len(w),
           NEW a, a.hprev \in Nat, a.col \in 0 .. j - 1, a.col # 0 => above[a.col].run > 0, NEW s2 \in Int,
           NEW cell, cell = M!Cell(above, c, w, b, j, a, s2)
    PROVE  /\ CellOk(cell, j, c, w) /\ Linked(cell, above, j)
           /\ a.col = 0 \/ w[j] # c => cell.m = 0 /\ cell.run = 0
           /\ a.col # 0 /\ w[j] = c /\ s2 < 0 => cell.run > 0
<1> DEFINE left   == IF j > 1 THEN above[j - 1].run ELSE 0
           run0   == left + 1
           fb     == b[j - run0 + 1]
           breaks == run0 > 1 /\ b[j] >= M!BonusBoundary /\ b[j] > fb
           bonus  == IF run0 > 1 /\ ~breaks THEN M!Max({b[j], M!BonusConsecutive, fb}) ELSE b[j]
           s1     == a.hprev + M!ScoreMatch
           weak   == [m |-> s1 + b[j], run |-> 0, from |-> a.col]
           strong == [m |-> s1 + bonus, run |-> IF breaks THEN 1 ELSE run0, from |-> a.col]
<1>1. Len(w) \in Nat /\ j \in Nat /\ j >= 1
  BY DEF Text
<1>2. left \in 0 .. j - 1
  <2>1. CASE j > 1
    <3>1. j - 1 \in 1 .. Len(w)
      BY <1>1, <2>1
    <3>2. above[j - 1].run \in 0 .. j - 1
      BY <3>1 DEF RunsFit
    <3> QED BY <2>1, <3>2
  <2>2. CASE ~(j > 1)
    BY <1>1, <2>2
  <2> QED BY <2>1, <2>2
<1>3. cell = IF a.col = 0 \/ w[j] # c THEN M!NoCell ELSE IF s1 + bonus < s2 THEN weak ELSE strong
  BY DEF M!Cell
<1> HIDE DEF left
<1>4. run0 \in 1 .. j /\ j - run0 + 1 \in 1 .. Len(w)
  BY <1>1, <1>2
<1> HIDE DEF run0
<1>5. fb \in 0 .. 10 /\ b[j] \in 0 .. 10
  BY <1>4 DEF Bonuses
<1> HIDE DEF fb
<1>6. M!BonusConsecutive = 4 /\ M!ScoreMatch = 16
  BY DEF M!BonusConsecutive, M!ScoreMatch
<1>7. bonus \in 0 .. 10
  <2>1. M!Max({b[j], 4, fb}) \in {b[j], 4, fb}
    <3> DEFINE bj == b[j]
               four == 4
    <3>1. bj \in Int /\ fb \in Int /\ four \in Int
      BY <1>5
    <3> HIDE DEF bj, four
    <3>2. M!Max({bj, four, fb}) \in {bj, four, fb}
      BY <3>1, MaxOfThree
    <3> QED BY <3>2 DEF bj, four
  <2> QED BY <2>1, <1>5, <1>6
<1> HIDE DEF bonus, breaks
<1>8. s1 \in Nat /\ s1 >= 16
  BY <1>6
<1> HIDE DEF s1
<1>9. weak.m = s1 + b[j] /\ weak.run = 0 /\ weak.from = a.col
  OBVIOUS
<1>10. strong.m = s1 + bonus /\ strong.run = (IF breaks THEN 1 ELSE run0) /\ strong.from = a.col
  OBVIOUS
<1>11. M!NoCell.m = 0 /\ M!NoCell.run = 0 /\ M!NoCell.from = 0
  BY DEF M!NoCell
<1> HIDE DEF weak, strong
<1>12. CASE a.col = 0 \/ w[j] # c
  <2>1. cell = M!NoCell
    BY <1>3, <1>12
  <2>2. cell.m = 0 /\ cell.run = 0 /\ cell.from = 0
    BY <2>1, <1>11
  <2> QED BY <2>2, <1>1, <1>12 DEF CellOk, Linked
<1>13. CASE ~(a.col = 0 \/ w[j] # c) /\ s1 + bonus < s2
  <2>1. cell = weak
    BY <1>3, <1>13
  <2>2. cell.m \in Nat /\ cell.m >= 16 /\ cell.run = 0 /\ cell.from = a.col
    <3>1. cell.m = s1 + b[j] /\ cell.run = 0 /\ cell.from = a.col
      BY <2>1, <1>9, Zenon
    <3>2. s1 + b[j] \in Nat /\ s1 + b[j] >= 16
      <4> DEFINE bj == b[j]
      <4>1. bj \in 0 .. 10
        BY <1>5
      <4> HIDE DEF bj
      <4>2. s1 + bj \in Nat /\ s1 + bj >= 16
        BY <4>1, <1>8
      <4> QED BY <4>2 DEF bj
    <3> QED BY <3>1, <3>2, Zenon
  <2>3. a.col \in 1 .. j - 1 /\ above[a.col].run > 0 /\ a.col \in Nat
    BY <1>1, <1>13
  <2>4. ~(s2 < 0)
    BY <1>7, <1>8, <1>13
  <2> QED BY <2>2, <2>3, <2>4, <1>1, <1>13 DEF CellOk, Linked
<1>14. CASE ~(a.col = 0 \/ w[j] # c) /\ ~(s1 + bonus < s2)
  <2>1. cell = strong
    BY <1>3, <1>14
  <2>2. cell.m \in Nat /\ cell.m >= 16 /\ cell.run \in 1 .. j /\ cell.from = a.col
    <3>1. (IF breaks THEN 1 ELSE run0) \in 1 .. j
      BY <1>1, <1>4
    <3> QED BY <2>1, <3>1, <1>7, <1>8, <1>10
  <2>3. a.col \in 1 .. j - 1 /\ above[a.col].run > 0 /\ a.col \in Nat
    BY <1>1, <1>14
  <2> QED BY <2>2, <2>3, <1>1, <1>14 DEF CellOk, Linked
<1> QED BY <1>12, <1>13, <1>14

RowSteps(above, c, t, b, n, h) ==
    h = [i \in 0 .. n |-> IF i = 0 THEN M!RowStart ELSE M!Column(above, c, t, b, i, h[i - 1])]
RowUpto(above, c, t, b) == CHOOSE h : RowSteps(above, c, t, b, Len(t), h)

LEMMA RowExists ==
    ASSUME NEW above, NEW c, NEW t, NEW b, NEW n \in Nat
    PROVE  \E h : RowSteps(above, c, t, b, n, h)
<1> DEFINE Bad == {m \in Nat : ~ \E h : RowSteps(above, c, t, b, m, h)}
<1>1. SUFFICES ASSUME Bad # {} PROVE FALSE
  OBVIOUS
<1>2. PICK m \in Bad : \A k \in Bad : m <= k
  <2>1. Bad \subseteq Nat
    OBVIOUS
  <2> HIDE DEF Bad
  <2> QED BY <1>1, <2>1, NatLeast
<1>3. m \in Nat /\ ~ \E h : RowSteps(above, c, t, b, m, h)
  OBVIOUS
<1>4. CASE m = 0
  <2> DEFINE h == [i \in 0 .. m |-> M!RowStart]
  <2>1. RowSteps(above, c, t, b, m, h)
    BY <1>4 DEF RowSteps
  <2> QED BY <1>3, <2>1
<1>5. CASE m # 0
  <2>1. m - 1 \in Nat /\ ~ (m <= m - 1)
    BY <1>3, <1>5
  <2>2. PICK g : RowSteps(above, c, t, b, m - 1, g)
    BY <1>2, <2>1
  <2> DEFINE h == [i \in 0 .. m |-> IF i < m THEN g[i] ELSE M!Column(above, c, t, b, m, g[m - 1])]
             w(i) == IF i = 0 THEN M!RowStart ELSE M!Column(above, c, t, b, i, h[i - 1])
  <2>3. ASSUME NEW i \in 0 .. m PROVE h[i] = w(i)
    <3>1. CASE i = m
      <4>1. h[i - 1] = g[m - 1] /\ h[i] = M!Column(above, c, t, b, m, g[m - 1])
        BY <3>1, <2>1, <1>5
      <4> QED BY <3>1, <4>1, <1>5
    <3>2. CASE i # m
      <4>1. i \in 0 .. m - 1 /\ i < m /\ (i # 0 => i - 1 \in 0 .. m /\ i - 1 < m)
        BY <3>2, <1>3
      <4>2. h[i] = g[i] /\ (i # 0 => h[i - 1] = g[i - 1])
        BY <4>1
      <4>3. g[i] = IF i = 0 THEN M!RowStart ELSE M!Column(above, c, t, b, i, g[i - 1])
        BY <2>2, <4>1 DEF RowSteps
      <4> HIDE DEF h
      <4> QED BY <4>2, <4>3
    <3> QED BY <3>1, <3>2
  <2>4. h = [i \in 0 .. m |-> h[i]]
    OBVIOUS
  <2>5. RowSteps(above, c, t, b, m, h)
    <3> HIDE DEF h
    <3> QED BY <2>3, <2>4 DEF RowSteps
  <2> QED BY <1>3, <2>5
<1> QED BY <1>4, <1>5

\* s is a sequence of n things.
Listed(s, n) == s \in Seq({s[k] : k \in 1 .. n}) /\ Len(s) = n

LEMMA ListedIs ==
    ASSUME NEW n \in Nat, NEW s, Listed(s, n)
    PROVE  Len(s) = n /\ DOMAIN s = 1 .. n
<1> DEFINE V == {s[k] : k \in 1 .. n}
<1>1. s \in Seq(V) /\ Len(s) = n
  BY DEF Listed
<1> HIDE DEF V
<1> QED BY <1>1

LEMMA AppendIs ==
    ASSUME NEW n \in Nat, NEW s, Listed(s, n), NEW x
    PROVE  LET next == Append(s, x)
           IN  Listed(next, n + 1) /\ Len(next) = n + 1 /\ next[n + 1] = x /\ \A k \in 1 .. n : next[k] = s[k]
<1> DEFINE next == Append(s, x)
           S    == {s[k] : k \in 1 .. n} \cup {x}
           V    == {next[k] : k \in 1 .. n + 1}
<1>1. s \in Seq(S) /\ x \in S /\ Len(s) = n
  BY DEF Listed
<1> HIDE DEF S
<1>2. next \in Seq(S) /\ Len(next) = n + 1 /\ next[n + 1] = x /\ \A k \in 1 .. n : next[k] = s[k]
  BY <1>1
<1> HIDE DEF next
<1>3. next = [k \in 1 .. n + 1 |-> next[k]]
  BY <1>2
<1>4. \A k \in 1 .. n + 1 : next[k] \in V
  OBVIOUS
<1> HIDE DEF V
<1>5. next \in [1 .. n + 1 -> V] /\ n + 1 \in Nat
  BY <1>3, <1>4
<1>6. next \in Seq(V)
  BY <1>5
<1> QED BY <1>2, <1>6 DEF next, V, Listed

\* What holds of the carries and of the cells up to column j: the carried column
\* is one that is live above, and there is none only as long as none was live
\* above; a cell of the row is live as soon as its character stands behind a
\* live cell above.
Alive(row, j)   == \E k \in 1 .. j : row[k].run > 0
CellsOk(row, above, c, w, j) ==
    /\ Listed(row, j)
    /\ \A k \in 1 .. j : CellOk(row[k], k, c, w) /\ Linked(row[k], above, k)
CarriesOk(a, above, j) ==
    /\ a.hprev \in Nat /\ a.col \in 0 .. j
    /\ a.col # 0 => above[a.col].run > 0
    /\ a.col = 0 => a.hprev = 0 /\ ~Alive(above, j)
OwnOk(a, above, c, w, j) ==
    /\ a.hcur \in Nat /\ (~Alive(a.row, j) => a.hcur = 0)
    /\ \A k \in 1 .. j : w[k] = c /\ Alive(above, k - 1) => Alive(a.row, k)

\* The score carried by the row above, one column on.
LEMMA CarriesStep ==
    ASSUME NEW w \in Text, NEW c, NEW above, NEW j \in 1 .. Len(w),
           above[j].m \in Nat, above[j].run \in Nat, above[j].run > 0 => above[j].m >= 16,
           NEW b, NEW a, CarriesOk(a, above, j - 1),
           NEW x, x = M!Column(above, c, w, b, j, a)
    PROVE  CarriesOk(x, above, j)
<1> DEFINE carried == a.hprev + M!Gap(a.gapprev)
           own     == above[j].run > 0 /\ above[j].m >= carried
           h       == IF own THEN above[j].m ELSE carried
<1>1. x.hprev = M!Max({h, 0}) /\ x.col = IF own THEN j ELSE a.col
  BY DEF M!Column
<1>2. M!Gap(a.gapprev) \in Int /\ M!Gap(a.gapprev) < 0
  BY DEF M!Gap, M!GapExtension, M!GapStart
<1>3. a.hprev \in Nat /\ a.col \in 0 .. j - 1 /\ (a.col # 0 => above[a.col].run > 0) /\ (a.col = 0 => a.hprev = 0 /\ ~Alive(above, j - 1))
  BY DEF CarriesOk
<1>4. carried \in Int /\ (a.col = 0 => carried < 0)
  BY <1>2, <1>3
<1> HIDE DEF carried
<1>5. h \in Int
  BY <1>4
<1>6. x.hprev \in Nat /\ (h < 0 => x.hprev = 0)
  <2> DEFINE z == 0
  <2>1. z \in Int /\ {h, z, z} = {h, 0}
    OBVIOUS
  <2> HIDE DEF z, h
  <2>2. M!Max({h, z, z}) \in {h, z, z} /\ z <= M!Max({h, z, z})
    BY <1>5, <2>1, MaxOfThree
  <2> DEFINE mx == M!Max({h, z, z})
  <2>3. x.hprev = mx
    BY <1>1, <2>1
  <2>4. mx \in {h, 0} /\ 0 <= mx
    BY <2>2 DEF z
  <2> HIDE DEF mx
  <2> QED BY <2>3, <2>4, <1>5
<1>7. j \in Nat /\ j >= 1 /\ j - 1 \in Nat
  BY DEF Text
<1>8. CASE own
  <2>1. x.col = j /\ above[j].run > 0
    BY <1>1, <1>8
  <2> QED BY <2>1, <1>6, <1>7 DEF CarriesOk
<1>9. CASE ~own
  <2>1. x.col = a.col /\ h = carried
    BY <1>1, <1>9
  <2>2. a.col = 0 => above[j].run = 0
    BY <1>4, <1>9
  <2>3. a.col = 0 => ~Alive(above, j)
    <3>1. ASSUME a.col = 0, NEW k \in 1 .. j PROVE ~(above[k].run > 0)
      <4>1. CASE k = j
        BY <2>2, <3>1, <4>1
      <4>2. CASE k # j
        <5>1. k \in 1 .. j - 1
          BY <1>7, <4>2
        <5> QED BY <5>1, <1>3, <3>1 DEF Alive
      <4> QED BY <4>1, <4>2
    <3> QED BY <3>1 DEF Alive
  <2>4. x.col \in 0 .. j /\ (x.col # 0 => above[x.col].run > 0)
    BY <2>1, <1>3, <1>7
  <2>5. x.col = 0 => x.hprev = 0
    BY <2>1, <1>4, <1>6
  <2> QED BY <2>1, <2>3, <2>4, <2>5, <1>6 DEF CarriesOk
<1> QED BY <1>8, <1>9

\* The row itself, one column on.
LEMMA OwnStep ==
    ASSUME NEW w \in Text, NEW c, NEW above, RunsFit(above, w), NEW b, Bonuses(b, w), NEW j \in 1 .. Len(w),
           NEW a, CarriesOk(a, above, j - 1), CellsOk(a.row, above, c, w, j - 1), OwnOk(a, above, c, w, j - 1),
           NEW x, x = M!Column(above, c, w, b, j, a)
    PROVE  CellsOk(x.row, above, c, w, j) /\ OwnOk(x, above, c, w, j)
<1> DEFINE s2   == a.hcur + M!Gap(a.gapcur)
           cell == M!Cell(above, c, w, b, j, a, s2)
           row  == a.row
           next == Append(row, cell)
<1>1. x.row = next /\ x.hcur = M!Max({cell.m, s2, 0})
  BY DEF M!Column
<1>2. M!Gap(a.gapcur) \in Int /\ M!Gap(a.gapcur) < 0
  BY DEF M!Gap, M!GapExtension, M!GapStart
<1>3. a.hcur \in Nat /\ (~Alive(row, j - 1) => a.hcur = 0) /\ \A k \in 1 .. j - 1 : w[k] = c /\ Alive(above, k - 1) => Alive(row, k)
  BY DEF OwnOk
<1>4. s2 \in Int /\ (~Alive(row, j - 1) => s2 < 0)
  BY <1>2, <1>3
<1>5. a.hprev \in Nat /\ a.col \in 0 .. j - 1 /\ (a.col # 0 => above[a.col].run > 0) /\ (a.col = 0 => ~Alive(above, j - 1))
  BY DEF CarriesOk
<1> HIDE DEF s2
<1>6. /\ CellOk(cell, j, c, w) /\ Linked(cell, above, j)
      /\ a.col = 0 \/ w[j] # c => cell.m = 0 /\ cell.run = 0
      /\ a.col # 0 /\ w[j] = c /\ s2 < 0 => cell.run > 0
  BY <1>4, <1>5, CellIs
<1> HIDE DEF cell
<1>7. j \in Nat /\ j >= 1 /\ j - 1 \in Nat
  BY DEF Text
<1>8. Listed(row, j - 1)
  BY DEF CellsOk
<1>9. Len(next) = j /\ next[j] = cell /\ \A k \in 1 .. j - 1 : next[k] = row[k]
  <2> DEFINE i == j - 1
  <2>1. i \in Nat /\ i + 1 = j /\ Listed(row, i)
    BY <1>7, <1>8 DEF Listed
  <2> HIDE DEF i, row
  <2>2. Len(next) = i + 1 /\ next[i + 1] = cell /\ \A k \in 1 .. i : next[k] = row[k]
    BY <2>1, AppendIs
  <2> QED BY <2>1, <2>2 DEF i
<1>10. Listed(next, j)
  <2> DEFINE i == j - 1
  <2>1. i \in Nat /\ i + 1 = j /\ Listed(row, i)
    BY <1>7, <1>8 DEF Listed
  <2> HIDE DEF i, row
  <2>2. Listed(next, i + 1)
    BY <2>1, AppendIs
  <2> QED BY <2>1, <2>2
<1> HIDE DEF next
<1>11. \A k \in 1 .. j - 1 : CellOk(row[k], k, c, w) /\ Linked(row[k], above, k)
  BY DEF CellsOk
<1>12. ASSUME NEW k \in 1 .. j PROVE k = j \/ k \in 1 .. j - 1
  BY <1>7
<1>13. \A k \in 1 .. j : CellOk(next[k], k, c, w) /\ Linked(next[k], above, k)
  BY <1>6, <1>9, <1>11, <1>12
<1>14. \A k \in 1 .. j - 1 : Alive(row, k) => Alive(next, k)
  <2>1. ASSUME NEW k \in 1 .. j - 1, Alive(row, k) PROVE Alive(next, k)
    <3>1. PICK i \in 1 .. k : row[i].run > 0
      BY <2>1 DEF Alive
    <3>2. i \in 1 .. j - 1
      BY <1>7
    <3> QED BY <3>1, <3>2, <1>9 DEF Alive
  <2> QED BY <2>1
<1>15. Alive(row, j - 1) => Alive(next, j)
  <2>1. SUFFICES ASSUME Alive(row, j - 1) PROVE Alive(next, j)
    OBVIOUS
  <2>2. PICK i \in 1 .. j - 1 : row[i].run > 0
    BY <2>1 DEF Alive
  <2>3. i \in 1 .. j
    BY <1>7
  <2> QED BY <2>2, <2>3, <1>9 DEF Alive
<1>16. cell.run > 0 => Alive(next, j)
  BY <1>7, <1>9 DEF Alive
<1>17. w[j] = c /\ Alive(above, j - 1) => Alive(next, j)
  BY <1>4, <1>5, <1>6, <1>15, <1>16
<1>18. \A k \in 1 .. j : w[k] = c /\ Alive(above, k - 1) => Alive(next, k)
  BY <1>3, <1>12, <1>14, <1>17
<1>19. x.hcur \in Nat /\ (~Alive(next, j) => x.hcur = 0)
  <2> DEFINE m == cell.m
             z == 0
  <2>1. m \in Nat /\ z \in Int /\ cell.run \in Nat
    BY <1>6 DEF CellOk
  <2>2. ~Alive(next, j) => m = 0 /\ s2 < 0
    BY <1>4, <1>6, <1>15, <1>16
  <2>3. x.hcur = M!Max({m, s2, z})
    BY <1>1
  <2> HIDE DEF m, z
  <2>4. M!Max({m, s2, z}) \in {m, s2, z} /\ z <= M!Max({m, s2, z})
    <3>1. m \in Int /\ s2 \in Int /\ z \in Int
      BY <2>1, <1>4
    <3> QED BY <3>1, MaxOfThree
  <2> DEFINE mx == M!Max({m, s2, z})
  <2>5. mx \in {m, s2, 0} /\ 0 <= mx
    BY <2>4 DEF z
  <2> HIDE DEF mx
  <2> QED BY <2>1, <2>2, <2>3, <2>5, <1>4 DEF mx
<1> QED BY <1>1, <1>9, <1>10, <1>13, <1>18, <1>19 DEF CellsOk, OwnOk

\* A row whose cells are all filled in, and a row that follows from the one above.
FullRow(row, w) == \A j \in 1 .. Len(w) : \E d : CellOk(row[j], j, d, w)
RowBelow(row, above, c, w) ==
    /\ Len(row) = Len(w) /\ DOMAIN row = 1 .. Len(w)
    /\ \A k \in 1 .. Len(w) : CellOk(row[k], k, c, w) /\ Linked(row[k], above, k)
    /\ \A k \in 1 .. Len(w) : w[k] = c /\ Alive(above, k - 1) => Alive(row, k)

\* A row after the first: each of its cells that scores is linked to a live cell
\* above, and it lives from where its character stands behind a live cell above.
LEMMA NextRowIs ==
    ASSUME NEW w \in Text, NEW c, NEW above, FullRow(above, w),
           NEW b, Bonuses(b, w), NEW row, row = M!NextRow(above, c, w, b)
    PROVE  RowBelow(row, above, c, w)
<1> DEFINE n     == Len(w)
           C     == RowUpto(above, c, w, b)
           Ok(j) == CarriesOk(C[j], above, j) /\ CellsOk(C[j].row, above, c, w, j) /\ OwnOk(C[j], above, c, w, j)
           Bad   == {j \in 0 .. n : ~Ok(j)}
<1>1. n \in Nat
  BY DEF Text
<1>2. RowSteps(above, c, w, b, n, C)
  BY <1>1, RowExists DEF RowUpto
<1>3. row = C[n].row
  BY DEF M!NextRow, RowUpto, RowSteps
<1> HIDE DEF C, n
<1>4. \A j \in 0 .. n : C[j] = IF j = 0 THEN M!RowStart ELSE M!Column(above, c, w, b, j, C[j - 1])
  BY <1>2 DEF RowSteps
<1>5. \A j \in 1 .. n : above[j].m \in Nat /\ above[j].run \in 0 .. j /\ (above[j].run > 0 => above[j].m >= 16)
  BY DEF FullRow, CellOk, n
<1>6. Ok(0)
  <2>1. C[0] = M!RowStart
    BY <1>1, <1>4
  <2>2. M!RowStart.row = <<>> /\ M!RowStart.hcur = 0 /\ M!RowStart.hprev = 0 /\ M!RowStart.col = 0
    BY DEF M!RowStart
  <2>3. CarriesOk(M!RowStart, above, 0)
    BY <2>2 DEF CarriesOk, Alive
  <2>4. CellsOk(<<>>, above, c, w, 0)
    BY DEF CellsOk, Listed
  <2>5. OwnOk(M!RowStart, above, c, w, 0)
    BY <2>2 DEF OwnOk, Alive
  <2> QED BY <2>1, <2>2, <2>3, <2>4, <2>5
<1>7. ASSUME NEW j \in 1 .. n, Ok(j - 1) PROVE Ok(j)
  <2> DEFINE a == C[j - 1]
             x == C[j]
  <2>1. j \in 0 .. n /\ j # 0 /\ j \in 1 .. Len(w)
    BY <1>1 DEF n
  <2>2. x = M!Column(above, c, w, b, j, a)
    BY <1>4, <2>1
  <2>3. CarriesOk(a, above, j - 1) /\ CellsOk(a.row, above, c, w, j - 1) /\ OwnOk(a, above, c, w, j - 1)
    BY <1>7
  <2>4. above[j].m \in Nat /\ above[j].run \in Nat /\ (above[j].run > 0 => above[j].m >= 16)
    BY <1>5
  <2>5. RunsFit(above, w)
    BY <1>5 DEF RunsFit, n
  <2> HIDE DEF a, x
  <2>6. CarriesOk(x, above, j)
    BY <2>1, <2>2, <2>3, <2>4, CarriesStep
  <2>7. CellsOk(x.row, above, c, w, j) /\ OwnOk(x, above, c, w, j)
    BY <2>1, <2>2, <2>3, <2>5, OwnStep
  <2> QED BY <2>6, <2>7 DEF x
<1> HIDE DEF Ok
<1>8. Bad = {}
  <2>1. SUFFICES ASSUME Bad # {} PROVE FALSE
    OBVIOUS
  <2>2. PICK j \in Bad : \A k \in Bad : j <= k
    <3>1. Bad \subseteq Nat
      BY <1>1
    <3> HIDE DEF Bad
    <3> QED BY <2>1, <3>1, NatLeast
  <2>3. j # 0
    BY <1>6
  <2>4. j \in 1 .. n /\ j - 1 \in 0 .. n /\ ~ (j <= j - 1)
    BY <1>1, <2>3
  <2>5. Ok(j - 1)
    BY <2>2, <2>4
  <2> QED BY <2>4, <2>5, <1>7
<1>9. Ok(n)
  BY <1>1, <1>8
<1>10. CellsOk(row, above, c, w, n) /\ OwnOk(C[n], above, c, w, n)
  BY <1>3, <1>9 DEF Ok
<1>11. Listed(row, n) /\ \A k \in 1 .. n : CellOk(row[k], k, c, w) /\ Linked(row[k], above, k)
  BY <1>10 DEF CellsOk
<1>12. Len(row) = n /\ DOMAIN row = 1 .. n
  BY <1>1, <1>11, ListedIs
<1>13. \A k \in 1 .. n : w[k] = c /\ Alive(above, k - 1) => Alive(row, k)
  BY <1>3, <1>10 DEF OwnOk
<1> QED BY <1>11, <1>12, <1>13 DEF n, RowBelow

RowsSteps(t, p, b, n, h) ==
    h = [i \in 0 .. n |-> IF i = 0 THEN <<>> ELSE M!AddRow(h[i - 1], t, p, b, i)]
RowsUpto(t, p, b) == CHOOSE h : RowsSteps(t, p, b, Len(p), h)

LEMMA RowsExists ==
    ASSUME NEW t, NEW p, NEW b, NEW n \in Nat
    PROVE  \E h : RowsSteps(t, p, b, n, h)
<1> DEFINE Bad == {m \in Nat : ~ \E h : RowsSteps(t, p, b, m, h)}
<1>1. SUFFICES ASSUME Bad # {} PROVE FALSE
  OBVIOUS
<1>2. PICK m \in Bad : \A k \in Bad : m <= k
  <2>1. Bad \subseteq Nat
    OBVIOUS
  <2> HIDE DEF Bad
  <2> QED BY <1>1, <2>1, NatLeast
<1>3. m \in Nat /\ ~ \E h : RowsSteps(t, p, b, m, h)
  OBVIOUS
<1>4. CASE m = 0
  <2> DEFINE h == [i \in 0 .. m |-> <<>>]
  <2>1. RowsSteps(t, p, b, m, h)
    BY <1>4 DEF RowsSteps
  <2> QED BY <1>3, <2>1
<1>5. CASE m # 0
  <2>1. m - 1 \in Nat /\ ~ (m <= m - 1)
    BY <1>3, <1>5
  <2>2. PICK g : RowsSteps(t, p, b, m - 1, g)
    BY <1>2, <2>1
  <2> DEFINE h == [i \in 0 .. m |-> IF i < m THEN g[i] ELSE M!AddRow(g[m - 1], t, p, b, m)]
             w(i) == IF i = 0 THEN <<>> ELSE M!AddRow(h[i - 1], t, p, b, i)
  <2>3. ASSUME NEW i \in 0 .. m PROVE h[i] = w(i)
    <3>1. CASE i = m
      <4>1. h[i - 1] = g[m - 1] /\ h[i] = M!AddRow(g[m - 1], t, p, b, m)
        BY <3>1, <2>1, <1>5
      <4> QED BY <3>1, <4>1, <1>5
    <3>2. CASE i # m
      <4>1. i \in 0 .. m - 1 /\ i < m /\ (i # 0 => i - 1 \in 0 .. m /\ i - 1 < m)
        BY <3>2, <1>3
      <4>2. h[i] = g[i] /\ (i # 0 => h[i - 1] = g[i - 1])
        BY <4>1
      <4>3. g[i] = IF i = 0 THEN <<>> ELSE M!AddRow(g[i - 1], t, p, b, i)
        BY <2>2, <4>1 DEF RowsSteps
      <4> HIDE DEF h
      <4> QED BY <4>2, <4>3
    <3> QED BY <3>1, <3>2
  <2>4. h = [i \in 0 .. m |-> h[i]]
    OBVIOUS
  <2>5. RowsSteps(t, p, b, m, h)
    <3> HIDE DEF h
    <3> QED BY <2>3, <2>4 DEF RowsSteps
  <2> QED BY <1>3, <2>5
<1> QED BY <1>4, <1>5

\* All rows: each is of the character of its own, linked to the row above, and
\* where the pattern stands in the text each row is live as soon as its character
\* is reached.
RowOk(row, c, w) == Len(row) = Len(w) /\ DOMAIN row = 1 .. Len(w) /\ \A k \in 1 .. Len(w) : CellOk(row[k], k, c, w)
RowsOk(rows, w, p, n) ==
    /\ Listed(rows, n)
    /\ \A i \in 1 .. n : RowOk(rows[i], p[i], w)
    /\ \A i \in 2 .. n : \A k \in 1 .. Len(w) : Linked(rows[i][k], rows[i - 1], k)
    /\ \A at : Embeds(w, p, at) => \A i \in 1 .. n : Alive(rows[i], at[i])

LEMMA FirstRowIs ==
    ASSUME NEW w \in Text, NEW p \in Text, p # <<>>, NEW b, Bonuses(b, w), NEW row, row = M!FirstRow(w, p, b)
    PROVE  /\ RowOk(row, p[1], w)
           /\ \A at : Embeds(w, p, at) => Alive(row, at[1])
<1>1. Len(w) \in Nat /\ DOMAIN w = 1 .. Len(w) /\ Len(p) \in Nat /\ Len(p) >= 1
  BY DEF Text
<1> DEFINE hit(j) == [m |-> M!ScoreMatch + M!FirstCharMultiplier * b[j], run |-> 1, from |-> 0]
<1>2. row = [j \in 1 .. Len(w) |-> IF w[j] = p[1] THEN hit(j) ELSE M!NoCell]
  BY <1>1 DEF M!FirstRow
<1>3. Len(row) = Len(w) /\ DOMAIN row = 1 .. Len(w)
  BY <1>1, <1>2
<1>4. ASSUME NEW j \in 1 .. Len(w) PROVE CellOk(row[j], j, p[1], w) /\ (w[j] = p[1] => row[j].run > 0)
  <2>1. CASE w[j] = p[1]
    <3>1. row[j] = hit(j)
      BY <1>2, <2>1
    <3>2. row[j].m = 16 + 2 * b[j] /\ row[j].run = 1 /\ row[j].from = 0
      BY <3>1 DEF M!ScoreMatch, M!FirstCharMultiplier
    <3>3. 16 + 2 * b[j] \in Nat /\ 16 + 2 * b[j] >= 16
      <4> DEFINE bj == b[j]
      <4>1. bj \in 0 .. 10
        BY DEF Bonuses
      <4> HIDE DEF bj
      <4>2. 16 + 2 * bj \in Nat /\ 16 + 2 * bj >= 16
        BY <4>1
      <4> QED BY <4>2 DEF bj
    <3>4. row[j].m \in Nat /\ row[j].m >= 16
      BY <3>2, <3>3, Zenon
    <3>5. 1 \in 0 .. j /\ 0 \in Nat /\ 1 > 0
      BY <1>1
    <3> QED BY <2>1, <3>2, <3>4, <3>5 DEF CellOk
  <2>2. CASE ~(w[j] = p[1])
    <3>1. row[j].m = 0 /\ row[j].run = 0 /\ row[j].from = 0
      BY <1>2, <2>2 DEF M!NoCell
    <3> QED BY <2>2, <3>1, <1>1 DEF CellOk
  <2> QED BY <2>1, <2>2
<1>5. ASSUME NEW at, Embeds(w, p, at) PROVE Alive(row, at[1])
  <2>1. at[1] \in 1 .. Len(w) /\ w[at[1]] = p[1]
    BY <1>1, <1>5 DEF Embeds
  <2>2. at[1] \in 1 .. at[1]
    BY <2>1, <1>1
  <2> QED BY <2>1, <2>2, <1>4 DEF Alive
<1> QED BY <1>3, <1>4, <1>5 DEF RowOk

LEMMA AddRowIs ==
    ASSUME NEW w \in Text, NEW p \in Text, NEW b, Bonuses(b, w), NEW i \in 1 .. Len(p),
           NEW rows, RowsOk(rows, w, p, i - 1), NEW next, next = M!AddRow(rows, w, p, b, i)
    PROVE  RowsOk(next, w, p, i)
<1> DEFINE m     == i - 1
           above == rows[m]
           row   == IF i = 1 THEN M!FirstRow(w, p, b) ELSE M!NextRow(above, p[i], w, b)
<1>1. Len(p) \in Nat /\ i \in Nat /\ i >= 1 /\ m \in Nat /\ m + 1 = i /\ p # <<>> /\ Len(w) \in Nat
  BY DEF Text
<1>2. /\ Listed(rows, m)
      /\ \A k \in 1 .. m : RowOk(rows[k], p[k], w)
      /\ \A k \in 2 .. m : \A j \in 1 .. Len(w) : Linked(rows[k][j], rows[k - 1], j)
      /\ \A at : Embeds(w, p, at) => \A k \in 1 .. m : Alive(rows[k], at[k])
  BY DEF RowsOk
<1>3. next = Append(rows, row)
  <2>1. M!Last(rows) = above
    BY <1>1, <1>2, ListedIs DEF M!Last
  <2> QED BY <2>1 DEF M!AddRow
<1>4. i # 1 => m \in 1 .. m
  BY <1>1
<1> HIDE DEF m
<1>5. i # 1 => RowOk(above, p[m], w)
  BY <1>2, <1>4
<1>6. i # 1 => RowBelow(row, above, p[i], w)
  <2>1. SUFFICES ASSUME i # 1 PROVE RowBelow(row, above, p[i], w)
    OBVIOUS
  <2>2. row = M!NextRow(above, p[i], w, b)
    BY <2>1
  <2>3. FullRow(above, w)
    BY <2>1, <1>5 DEF RowOk, FullRow
  <2> DEFINE c == p[i]
  <2> HIDE DEF row, above, c
  <2>4. row = M!NextRow(above, c, w, b)
    BY <2>2 DEF c
  <2>5. RowBelow(row, above, c, w)
    BY <2>3, <2>4, NextRowIs
  <2> QED BY <2>5 DEF c
<1>7. i = 1 => RowOk(row, p[1], w) /\ \A at : Embeds(w, p, at) => Alive(row, at[1])
  BY <1>1, FirstRowIs
<1> HIDE DEF row
<1>8. Listed(next, i) /\ next[i] = row /\ \A k \in 1 .. m : next[k] = rows[k]
  <2>1. Listed(next, m + 1) /\ next[m + 1] = row /\ \A k \in 1 .. m : next[k] = rows[k]
    BY <1>1, <1>2, <1>3, AppendIs
  <2> QED BY <2>1, <1>1
<1>9. RowOk(row, p[i], w)
  <2>1. CASE i = 1
    BY <1>7, <2>1
  <2>2. CASE i # 1
    BY <1>6, <2>2 DEF RowOk, RowBelow
  <2> QED BY <2>1, <2>2
<1>10. \A k \in 1 .. i : k = i \/ k \in 1 .. m
  BY <1>1
<1>11. \A k \in 1 .. i : RowOk(next[k], p[k], w)
  BY <1>2, <1>8, <1>9, <1>10
<1>12. ASSUME NEW k \in 2 .. i PROVE \A j \in 1 .. Len(w) : Linked(next[k][j], next[k - 1], j)
  <2>1. k - 1 \in 1 .. m /\ next[k - 1] = rows[k - 1]
    BY <1>1, <1>8
  <2>2. CASE k = i
    <3>1. k - 1 = m /\ i # 1 /\ next[k] = row
      BY <1>1, <1>8, <2>2
    <3>2. next[k - 1] = above
      BY <2>1, <3>1
    <3> HIDE DEF above
    <3> QED BY <3>1, <3>2, <1>6 DEF RowBelow
  <2>3. CASE k # i
    <3>1. k \in 2 .. m /\ k \in 1 .. m
      BY <1>1, <2>3
    <3>2. next[k] = rows[k]
      BY <3>1, <1>8
    <3> QED BY <2>1, <3>1, <3>2, <1>2
  <2> QED BY <2>2, <2>3
<1>13. ASSUME NEW at, Embeds(w, p, at) PROVE \A k \in 1 .. i : Alive(next[k], at[k])
  <2>1. at[i] \in 1 .. Len(w) /\ w[at[i]] = p[i]
    BY <1>13 DEF Embeds
  <2>2. Alive(row, at[i])
    <3>1. CASE i = 1
      BY <1>7, <1>13, <3>1
    <3>2. CASE i # 1
      <4>1. m \in 1 .. Len(p) /\ i > 1
        BY <1>1, <3>2
      <4>2. at[i - 1] < at[i]
        BY <4>1, <1>13 DEF Embeds
      <4>3. at[m] \in 1 .. Len(w) /\ at[m] < at[i]
        BY <4>1, <4>2, <1>13 DEF Embeds, m
      <4>4. Alive(above, at[m])
        BY <1>2, <1>4, <1>13, <3>2
      <4> HIDE DEF above
      <4>5. PICK l \in 1 .. at[m] : above[l].run > 0
        BY <4>4 DEF Alive
      <4>6. l \in 1 .. at[i] - 1
        BY <4>3, <2>1, <1>1
      <4>7. Alive(above, at[i] - 1)
        BY <4>5, <4>6 DEF Alive
      <4> QED BY <4>7, <2>1, <1>6, <3>2 DEF RowBelow
    <3> QED BY <3>1, <3>2
  <2> QED BY <2>2, <1>2, <1>8, <1>10, <1>13
<1> QED BY <1>8, <1>11, <1>12, <1>13 DEF RowsOk

LEMMA RowsAre ==
    ASSUME NEW w \in Text, NEW p \in Text, NEW b, Bonuses(b, w)
    PROVE  RowsOk(M!Rows(w, p, b), w, p, Len(p))
<1> DEFINE n     == Len(p)
           R     == RowsUpto(w, p, b)
           Bad   == {i \in 0 .. n : ~RowsOk(R[i], w, p, i)}
<1>1. n \in Nat
  BY DEF Text
<1>2. RowsSteps(w, p, b, n, R)
  BY <1>1, RowsExists DEF RowsUpto
<1>3. M!Rows(w, p, b) = R[n]
  BY DEF M!Rows, RowsUpto, RowsSteps
<1> HIDE DEF R, n
<1>4. \A i \in 0 .. n : R[i] = IF i = 0 THEN <<>> ELSE M!AddRow(R[i - 1], w, p, b, i)
  BY <1>2 DEF RowsSteps
<1>5. RowsOk(R[0], w, p, 0)
  <2>1. R[0] = <<>>
    BY <1>1, <1>4
  <2> QED BY <2>1 DEF RowsOk, Listed
<1>6. ASSUME NEW i \in 1 .. n, RowsOk(R[i - 1], w, p, i - 1) PROVE RowsOk(R[i], w, p, i)
  <2>1. i \in 0 .. n /\ i # 0
    BY <1>1
  <2>2. R[i] = M!AddRow(R[i - 1], w, p, b, i)
    BY <1>4, <2>1
  <2> QED BY <1>6, <2>2, AddRowIs DEF n
<1>7. Bad = {}
  <2>1. SUFFICES ASSUME Bad # {} PROVE FALSE
    OBVIOUS
  <2>2. PICK i \in Bad : \A k \in Bad : i <= k
    <3>1. Bad \subseteq Nat
      BY <1>1
    <3> HIDE DEF Bad
    <3> QED BY <2>1, <3>1, NatLeast
  <2>3. i # 0
    BY <1>5
  <2>4. i \in 1 .. n /\ i - 1 \in 0 .. n /\ ~ (i <= i - 1)
    BY <1>1, <2>3
  <2>5. RowsOk(R[i - 1], w, p, i - 1)
    BY <2>2, <2>4
  <2> QED BY <2>4, <2>5, <1>6
<1>8. RowsOk(R[n], w, p, n)
  BY <1>1, <1>7
<1> QED BY <1>3, <1>8 DEF n

BackSteps(rows, j, n, h) ==
    h = [i \in 0 .. n |-> IF i = 0 THEN j ELSE rows[Len(rows) - i + 1][h[i - 1]].from]
BackUpto(rows, j) == CHOOSE h : BackSteps(rows, j, Len(rows) - 1, h)

LEMMA BackExists ==
    ASSUME NEW rows, NEW j, NEW n \in Nat
    PROVE  \E h : BackSteps(rows, j, n, h)
<1> DEFINE Bad == {m \in Nat : ~ \E h : BackSteps(rows, j, m, h)}
<1>1. SUFFICES ASSUME Bad # {} PROVE FALSE
  OBVIOUS
<1>2. PICK m \in Bad : \A k \in Bad : m <= k
  <2>1. Bad \subseteq Nat
    OBVIOUS
  <2> HIDE DEF Bad
  <2> QED BY <1>1, <2>1, NatLeast
<1>3. m \in Nat /\ ~ \E h : BackSteps(rows, j, m, h)
  OBVIOUS
<1>4. CASE m = 0
  <2> DEFINE h == [i \in 0 .. m |-> j]
  <2>1. BackSteps(rows, j, m, h)
    BY <1>4 DEF BackSteps
  <2> QED BY <1>3, <2>1
<1>5. CASE m # 0
  <2>1. m - 1 \in Nat /\ ~ (m <= m - 1)
    BY <1>3, <1>5
  <2>2. PICK g : BackSteps(rows, j, m - 1, g)
    BY <1>2, <2>1
  <2> DEFINE h == [i \in 0 .. m |-> IF i < m THEN g[i] ELSE rows[Len(rows) - m + 1][g[m - 1]].from]
             w(i) == IF i = 0 THEN j ELSE rows[Len(rows) - i + 1][h[i - 1]].from
  <2>3. ASSUME NEW i \in 0 .. m PROVE h[i] = w(i)
    <3>1. CASE i = m
      <4>1. h[i - 1] = g[m - 1] /\ h[i] = rows[Len(rows) - m + 1][g[m - 1]].from
        BY <3>1, <2>1, <1>5
      <4> QED BY <3>1, <4>1, <1>5
    <3>2. CASE i # m
      <4>1. i \in 0 .. m - 1 /\ i < m /\ (i # 0 => i - 1 \in 0 .. m /\ i - 1 < m)
        BY <3>2, <1>3
      <4>2. h[i] = g[i] /\ (i # 0 => h[i - 1] = g[i - 1])
        BY <4>1
      <4>3. g[i] = IF i = 0 THEN j ELSE rows[Len(rows) - i + 1][g[i - 1]].from
        BY <2>2, <4>1 DEF BackSteps
      <4> HIDE DEF h
      <4> QED BY <4>2, <4>3
    <3> QED BY <3>1, <3>2
  <2>4. h = [i \in 0 .. m |-> h[i]]
    OBVIOUS
  <2>5. BackSteps(rows, j, m, h)
    <3> HIDE DEF h
    <3> QED BY <2>3, <2>4 DEF BackSteps
  <2> QED BY <1>3, <2>5
<1> QED BY <1>4, <1>5

\* From a cell of the last row that scores, the predecessors lead back to the
\* first row over places that spell the pattern, in order.
LEMMA BacktrackIs ==
    ASSUME NEW w \in Text, NEW p \in Text, p # <<>>, NEW rows, RowsOk(rows, w, p, Len(p)),
           NEW j \in 1 .. Len(w), rows[Len(p)][j].m > 0
    PROVE  /\ Embeds(w, p, M!Backtrack(rows, j))
           /\ M!Backtrack(rows, j) \in Seq(1 .. Len(w)) /\ Len(M!Backtrack(rows, j)) = Len(p)
           /\ M!Backtrack(rows, j)[Len(p)] = j
<1> DEFINE n     == Len(p)
           B     == BackUpto(rows, j)
           at    == M!Backtrack(rows, j)
           Ok(k) == B[k] \in 1 .. Len(w) /\ rows[n - k][B[k]].m > 0
           Bad   == {k \in 0 .. n - 1 : ~Ok(k)}
<1>1. n \in Nat /\ n >= 1 /\ n - 1 \in Nat /\ Len(w) \in Nat
  BY DEF Text
<1> HIDE DEF n
<1>2. /\ Listed(rows, n)
      /\ \A i \in 1 .. n : RowOk(rows[i], p[i], w)
      /\ \A i \in 2 .. n : \A k \in 1 .. Len(w) : Linked(rows[i][k], rows[i - 1], k)
  BY DEF RowsOk, n
<1>3. Len(rows) = n
  BY <1>2 DEF Listed
<1>4. BackSteps(rows, j, n - 1, B)
  BY <1>1, <1>3, BackExists DEF BackUpto
<1>5. at = [i \in 1 .. n |-> B[n - i]]
  BY <1>3 DEF M!Backtrack, BackUpto, BackSteps
<1> HIDE DEF B, at
<1>6. \A k \in 0 .. n - 1 : B[k] = IF k = 0 THEN j ELSE rows[n - k + 1][B[k - 1]].from
  BY <1>3, <1>4 DEF BackSteps
<1>7. Ok(0) /\ B[0] = j
  <2>1. B[0] = j
    BY <1>1, <1>6
  <2>2. n - 0 = n
    BY <1>1
  <2> QED BY <2>1, <2>2 DEF n
<1>8. ASSUME NEW k \in 1 .. n - 1, Ok(k - 1) PROVE Ok(k) /\ B[k] < B[k - 1]
  <2> DEFINE i == n - k + 1
             x == B[k - 1]
             y == B[k]
  <2>1. k \in 0 .. n - 1 /\ k # 0 /\ n - (k - 1) = i /\ i \in 2 .. n /\ i - 1 = n - k /\ i - 1 \in 1 .. n
    BY <1>1
  <2>2. y = rows[i][x].from
    BY <1>6, <2>1
  <2>3. x \in 1 .. Len(w) /\ rows[i][x].m > 0
    BY <1>8, <2>1
  <2>4. i - 1 = n - k
    BY <2>1
  <2> HIDE DEF i, x, y
  <2>5. Linked(rows[i][x], rows[i - 1], x)
    BY <1>2, <2>1, <2>3
  <2>6. y \in 1 .. x - 1 /\ rows[i - 1][y].run > 0
    BY <2>2, <2>3, <2>5 DEF Linked
  <2>7. y \in 1 .. Len(w) /\ y < x
    BY <2>3, <2>6, <1>1
  <2>8. RowOk(rows[i - 1], p[i - 1], w)
    BY <1>2, <2>1
  <2>9. rows[i - 1][y].m > 0
    BY <2>6, <2>7, <2>8 DEF RowOk, CellOk
  <2>10. rows[n - k][y].m > 0
    BY <2>4, <2>9
  <2> QED BY <2>7, <2>10 DEF x, y
<1> HIDE DEF Ok
<1>9. Bad = {}
  <2>1. SUFFICES ASSUME Bad # {} PROVE FALSE
    OBVIOUS
  <2>2. PICK k \in Bad : \A l \in Bad : k <= l
    <3>1. Bad \subseteq Nat
      BY <1>1
    <3> HIDE DEF Bad
    <3> QED BY <2>1, <3>1, NatLeast
  <2>3. k # 0
    BY <1>7
  <2>4. k \in 1 .. n - 1 /\ k - 1 \in 0 .. n - 1 /\ ~ (k <= k - 1)
    BY <1>1, <2>3
  <2>5. Ok(k - 1)
    BY <2>2, <2>4
  <2> QED BY <2>4, <2>5, <1>8
<1>10. \A k \in 0 .. n - 1 : Ok(k)
  BY <1>9
<1>11. ASSUME NEW i \in 1 .. n PROVE at[i] \in 1 .. Len(w) /\ w[at[i]] = p[i] /\ (i > 1 => at[i - 1] < at[i])
  <2> DEFINE k == n - i
             x == at[i]
  <2>1. k \in 0 .. n - 1 /\ n - k = i
    BY <1>1
  <2>2. x = B[k]
    BY <1>5
  <2>3. B[k] \in 1 .. Len(w) /\ rows[n - k][B[k]].m > 0
    BY <1>10, <2>1 DEF Ok
  <2> HIDE DEF k, x
  <2>4. x \in 1 .. Len(w) /\ rows[i][x].m > 0
    BY <2>1, <2>2, <2>3
  <2>5. w[x] = p[i]
    BY <2>4, <1>2 DEF RowOk, CellOk
  <2>6. i > 1 => at[i - 1] < x
    <3>1. SUFFICES ASSUME i > 1 PROVE at[i - 1] < x
      OBVIOUS
    <3>2. k + 1 \in 1 .. n - 1 /\ (k + 1) - 1 = k /\ n - (i - 1) = k + 1 /\ i - 1 \in 1 .. n
      BY <3>1, <1>1, <2>1 DEF k
    <3>3. at[i - 1] = B[k + 1]
      BY <3>2, <1>5
    <3> DEFINE l == k + 1
    <3>4. l \in 1 .. n - 1 /\ l - 1 = k
      BY <3>2
    <3> HIDE DEF l
    <3>5. Ok(l - 1)
      BY <3>4, <2>1, <1>10
    <3>6. B[l] < B[l - 1]
      BY <3>4, <3>5, <1>8
    <3>7. B[l] < B[k]
      BY <3>4, <3>6
    <3> QED BY <3>3, <3>7, <2>2 DEF l
  <2> QED BY <2>4, <2>5, <2>6 DEF x
<1>12. at \in [1 .. n -> 1 .. Len(w)]
  <2>1. at = [i \in 1 .. n |-> at[i]]
    BY <1>5
  <2> QED BY <2>1, <1>11
<1>13. Embeds(w, p, at)
  BY <1>11, <1>12 DEF Embeds, n
<1>14. at \in Seq(1 .. Len(w)) /\ Len(at) = n
  BY <1>1, <1>12
<1>15. at[n] = j
  <2>1. n \in 1 .. n /\ n - n = 0
    BY <1>1
  <2>2. at[n] = B[n - n]
    BY <2>1, <1>5
  <2> QED BY <2>1, <2>2, <1>7
<1> QED BY <1>13, <1>14, <1>15 DEF n, at

\* Finitely many numbers have a bound.
LEMMA BoundIs ==
    ASSUME NEW n \in Nat, NEW f, \A k \in 1 .. n : f[k] \in Nat
    PROVE  \E m \in Nat : \A k \in 1 .. n : f[k] <= m
<1> DEFINE Ok(i) == \E m \in Nat : \A k \in 1 .. i : f[k] <= m
           Bad   == {i \in 0 .. n : ~Ok(i)}
<1>1. Ok(0)
  <2>1. 0 \in Nat /\ \A k \in 1 .. 0 : f[k] <= 0
    OBVIOUS
  <2> QED BY <2>1
<1>2. ASSUME NEW i \in 1 .. n, Ok(i - 1) PROVE Ok(i)
  <2>1. PICK m \in Nat : \A k \in 1 .. i - 1 : f[k] <= m
    BY <1>2
  <2> DEFINE fi == f[i]
  <2>2. fi \in Nat
    OBVIOUS
  <2>3. ASSUME NEW k \in 1 .. i PROVE f[k] <= m + fi
    <3>1. CASE k = i
      <4> HIDE DEF fi
      <4>1. fi <= m + fi
        BY <2>2
      <4> QED BY <4>1, <3>1 DEF fi
    <3>2. CASE k # i
      <4>1. k \in 1 .. i - 1 /\ k \in 1 .. n
        BY <3>2
      <4> DEFINE x == f[k]
      <4>2. x \in Nat /\ x <= m
        BY <4>1, <2>1
      <4> HIDE DEF x, fi
      <4>3. x <= m + fi
        BY <4>2, <2>2
      <4> QED BY <4>3 DEF x
    <3> QED BY <3>1, <3>2
  <2> HIDE DEF fi
  <2>4. m + fi \in Nat
    BY <2>2
  <2> QED BY <2>3, <2>4
<1> HIDE DEF Ok
<1>3. Bad = {}
  <2>1. SUFFICES ASSUME Bad # {} PROVE FALSE
    OBVIOUS
  <2>2. PICK i \in Bad : \A k \in Bad : i <= k
    <3>1. Bad \subseteq Nat
      OBVIOUS
    <3> HIDE DEF Bad
    <3> QED BY <2>1, <3>1, NatLeast
  <2>3. i # 0
    BY <1>1
  <2>4. i \in 1 .. n /\ i - 1 \in 0 .. n /\ ~ (i <= i - 1)
    BY <2>3
  <2>5. Ok(i - 1)
    BY <2>2, <2>4
  <2> QED BY <2>4, <2>5, <1>2
<1>4. n \in 0 .. n /\ (n \in 0 .. n => Ok(n))
  BY <1>3
<1> QED BY <1>4 DEF Ok

\* The best cell of the last row: it scores a character at least.
LEMMA BestIs ==
    ASSUME NEW w \in Text, NEW c, NEW top, RowOk(top, c, w), NEW x \in 1 .. Len(w), Alive(top, x),
           NEW best, best = M!Max({0} \cup {top[j].m : j \in DOMAIN top}),
           NEW j, j = M!Min({k \in DOMAIN top : top[k].m = best})
    PROVE  best >= 16 /\ best \in Nat /\ j \in 1 .. Len(w) /\ top[j].m = best
<1> DEFINE N == Len(w)
           f == [k \in 1 .. N |-> top[k].m]
           V == {0} \cup {top[k].m : k \in DOMAIN top}
           K == {k \in DOMAIN top : top[k].m = best}
<1>1. N \in Nat
  BY DEF Text
<1>2. DOMAIN top = 1 .. N /\ \A k \in 1 .. N : CellOk(top[k], k, c, w)
  BY DEF RowOk
<1>3. \A k \in 1 .. N : top[k].m \in Nat /\ (top[k].run > 0 => top[k].m >= 16)
  BY <1>2 DEF CellOk
<1>4. \A k \in 1 .. N : f[k] = top[k].m /\ f[k] \in Nat
  BY <1>3
<1> HIDE DEF f, N
<1>5. PICK m \in Nat : \A k \in 1 .. N : f[k] <= m
  BY <1>1, <1>4, BoundIs
<1>6. \A v \in V : v \in 0 .. m /\ (v = 0 \/ \E k \in 1 .. N : top[k].m = v)
  <2>1. ASSUME NEW v \in V PROVE v \in 0 .. m /\ (v = 0 \/ \E k \in 1 .. N : top[k].m = v)
    <3>1. CASE v = 0
      BY <3>1
    <3>2. CASE v # 0
      <4>1. PICK k \in 1 .. N : v = top[k].m
        BY <3>2, <1>2
      <4>2. v = f[k] /\ f[k] \in Nat /\ f[k] <= m
        BY <4>1, <1>4, <1>5
      <4>3. v \in 0 .. m
        BY <4>2
      <4> QED BY <4>1, <4>3
    <3> QED BY <3>1, <3>2
  <2> QED BY <2>1
<1>7. \A k \in 1 .. N : top[k].m \in V
  BY <1>2
<1>8. V # {}
  OBVIOUS
<1> HIDE DEF V
<1>9. best \in V /\ \A v \in V : v <= best
  <2>1. V \subseteq 0 .. m
    BY <1>6
  <2>2. best = M!Max(V)
    BY DEF V
  <2> QED BY <2>1, <2>2, <1>8, MaxIs
<1>10. best \in 0 .. m
  BY <1>6, <1>9
<1>11. best >= 16
  <2>1. PICK k \in 1 .. x : top[k].run > 0
    BY DEF Alive
  <2>2. k \in 1 .. N
    BY <1>1 DEF N
  <2> DEFINE v == top[k].m
  <2>3. v >= 16 /\ v <= best /\ v \in Nat
    BY <2>1, <2>2, <1>3, <1>7, <1>9
  <2> HIDE DEF v
  <2> QED BY <2>3, <1>10
<1>12. K # {} /\ K \subseteq Nat
  <2>1. PICK k \in 1 .. N : top[k].m = best
    <3>1. best # 0
      BY <1>10, <1>11
    <3> QED BY <3>1, <1>6, <1>9
  <2>2. k \in K
    BY <2>1, <1>2
  <2>3. K \subseteq Nat
    BY <1>2
  <2> QED BY <2>2, <2>3
<1>13. j \in K
  <2>1. j = M!Min(K)
    OBVIOUS
  <2> HIDE DEF K
  <2> QED BY <2>1, <1>12, MinIs
<1>14. j \in 1 .. N /\ top[j].m = best
  BY <1>2, <1>13
<1> QED BY <1>10, <1>11, <1>14 DEF N

\* fuzzy_match_v2: the window holds the pattern, so the last row lives, and the
\* way back from its best cell is a match.
LEMMA WindowHolds ==
    ASSUME NEW t \in Text, NEW p \in Text, p # <<>>, Len(M!GreedyPlaces(t, p)) = Len(p),
           NEW first, first = M!GreedyPlaces(t, p)[1],
           NEW last, last = M!Max({j \in DOMAIN t : t[j] = M!Last(p)})
    PROVE  /\ first \in 1 .. Len(t) /\ last \in first .. Len(t)
           /\ \E at : Embeds(SubSeq(t, first, last), p, at)
<1> DEFINE n == Len(p)
           f == M!GreedyPlaces(t, p)
           J == {j \in DOMAIN t : t[j] = M!Last(p)}
           a == first - 1
           win == SubSeq(t, a + 1, last)
           x == [k \in 1 .. n |-> f[k] - a]
<1>1. n \in Nat /\ n >= 1 /\ Len(t) \in Nat /\ DOMAIN t = 1 .. Len(t) /\ M!Last(p) = p[n]
  BY DEF Text, M!Last
<1>2. Embeds(t, p, f)
  <2>1. \E at : Embeds(t, p, at)
    BY GreedyFinds
  <2> QED BY <2>1, GreedyEarliest
<1> HIDE DEF f, n
<1>3. \A k \in 1 .. n : f[k] \in 1 .. Len(t) /\ t[f[k]] = p[k] /\ (k > 1 => f[k - 1] < f[k])
  BY <1>2 DEF Embeds, n
<1>4. 1 \in 1 .. n /\ n \in 1 .. n
  BY <1>1
<1>5. first = f[1] /\ first \in 1 .. Len(t)
  BY <1>3, <1>4 DEF f
<1>6. last \in J /\ \A k \in J : k <= last
  <2>1. J \subseteq 0 .. Len(t)
    BY <1>1
  <2>2. f[n] \in J
    BY <1>1, <1>3, <1>4
  <2>3. last = M!Max(J)
    OBVIOUS
  <2> HIDE DEF J
  <2> QED BY <2>1, <2>2, <2>3, <1>1, MaxIs
<1>7. last \in 1 .. Len(t) /\ f[n] <= last
  <2>1. f[n] \in J
    BY <1>1, <1>3, <1>4
  <2> QED BY <2>1, <1>1, <1>6
<1>8. \A j \in 1 .. n : \A i \in 1 .. j : j - i <= f[j] - f[i]
  <2>1. \A k \in 1 .. n : f[k] \in Int
    BY <1>3
  <2> QED BY <2>1, <1>1, <1>3, RisingIs
<1>9. \A k \in 1 .. n : f[k] \in first .. last
  <2>1. ASSUME NEW k \in 1 .. n PROVE f[k] \in first .. last
    <3>1. 1 \in 1 .. k /\ k \in 1 .. n /\ n \in 1 .. n
      BY <1>1
    <3>2. k - 1 <= f[k] - f[1] /\ n - k <= f[n] - f[k]
      BY <3>1, <1>8
    <3>3. f[k] \in Int /\ f[n] \in Int /\ f[1] \in Int
      BY <3>1, <1>3, <1>4
    <3> DEFINE fk == f[k]
               fn == f[n]
               f1 == f[1]
    <3>4. fk \in Int /\ fn \in Int /\ f1 \in Int /\ k - 1 <= fk - f1 /\ n - k <= fn - fk /\ first = f1 /\ fn <= last
      BY <3>2, <3>3, <1>5, <1>7
    <3> HIDE DEF fk, fn, f1
    <3>5. fk \in first .. last
      BY <3>4, <1>1, <1>7
    <3> QED BY <3>5 DEF fk
  <2> QED BY <2>1
<1>10. a \in Nat /\ a <= last /\ last \in Nat /\ last <= Len(t) /\ a + 1 = first
  <2>1. f[1] \in first .. last
    BY <1>4, <1>9
  <2> QED BY <2>1, <1>1, <1>5, <1>7
<1> HIDE DEF a
<1>11. win \in Text /\ Len(win) = last - a /\ \A i \in 1 .. last - a : win[i] = t[a + i]
  BY <1>10, PartIs
<1> HIDE DEF win
<1>12. ASSUME NEW k \in 1 .. n PROVE x[k] \in 1 .. Len(win) /\ win[x[k]] = p[k] /\ (k > 1 => x[k - 1] < x[k])
  <2>1. x[k] = f[k] - a /\ f[k] \in first .. last /\ t[f[k]] = p[k]
    BY <1>3, <1>9
  <2>2. k > 1 => k - 1 \in 1 .. n
    BY <1>1
  <2>3. k > 1 => x[k - 1] = f[k - 1] - a /\ f[k - 1] \in first .. last /\ f[k - 1] < f[k]
    BY <2>2, <1>3, <1>9
  <2> HIDE DEF x
  <2>4. x[k] \in 1 .. last - a /\ a + x[k] = f[k]
    BY <2>1, <1>5, <1>10
  <2>5. win[x[k]] = p[k]
    BY <2>1, <2>4, <1>11
  <2>6. k > 1 => x[k - 1] < x[k]
    BY <2>1, <2>3, <1>5, <1>10
  <2> QED BY <2>4, <2>5, <2>6, <1>11
<1>13. Embeds(win, p, x)
  <2>1. x = [k \in 1 .. n |-> x[k]] /\ \A k \in 1 .. n : x[k] \in 1 .. Len(win)
    BY <1>12
  <2> HIDE DEF x
  <2>2. x \in [1 .. n -> 1 .. Len(win)]
    BY <2>1
  <2> QED BY <2>2, <1>12 DEF Embeds, n
<1>14. first <= last
  <2>1. f[1] \in first .. last
    BY <1>4, <1>9
  <2> QED BY <2>1, <1>5, <1>7
<1>15. win = SubSeq(t, first, last)
  BY <1>10 DEF win
<1>16. \E at : Embeds(SubSeq(t, first, last), p, at)
  <2> HIDE DEF x, win
  <2> QED BY <1>13, <1>15
<1>17. last \in first .. Len(t)
  BY <1>5, <1>7, <1>14
<1> QED BY <1>5, <1>16, <1>17

LEMMA InWindowPlaced ==
    ASSUME NEW cl, NEW t \in Text, NEW p \in Text, p # <<>>, Len(M!GreedyPlaces(t, p)) = Len(p),
           NEW r, r = M!InWindow(cl, t, p, M!GreedyPlaces(t, p)[1])
    PROVE  Placed(r, t, p) /\ r.score >= M!ScoreMatch
<1> DEFINE n     == Len(p)
           first == M!GreedyPlaces(t, p)[1]
           last  == M!Max({j \in DOMAIN t : t[j] = M!Last(p)})
           a     == first - 1
           win   == SubSeq(t, first, last)
           b     == [j \in DOMAIN win |-> M!Bonus(cl, j + first - 1)]
           rows  == M!Rows(win, p, b)
           top   == M!Last(rows)
           best  == M!Max({0} \cup {top[j].m : j \in DOMAIN top})
           j     == M!Min({k \in DOMAIN top : top[k].m = best})
           back  == M!Backtrack(rows, j)
           at    == [i \in DOMAIN back |-> back[i] + first - 1]
<1>1. n \in Nat /\ n >= 1 /\ Len(t) \in Nat
  BY DEF Text
<1>2. r = M!Found(best, at[1] - 1, M!Last(at), at)
  BY DEF M!InWindow, M!BestMatch, M!FoundAt
<1>3. /\ first \in 1 .. Len(t) /\ last \in first .. Len(t)
      /\ \E x : Embeds(win, p, x)
  BY WindowHolds
<1> HIDE DEF first, last, n
<1>4. a \in Nat /\ a <= last /\ last \in Nat /\ last <= Len(t) /\ a + 1 = first
  BY <1>1, <1>3
<1>5. win \in Text /\ Len(win) = last - a /\ \A i \in 1 .. last - a : win[i] = t[a + i]
  <2>1. win = SubSeq(t, a + 1, last)
    BY <1>4
  <2> HIDE DEF a, win
  <2> QED BY <2>1, <1>4, PartIs
<1>6. Bonuses(b, win)
  <2>1. DOMAIN win = 1 .. Len(win)
    BY <1>5 DEF Text
  <2> HIDE DEF win
  <2>2. \A i \in 1 .. Len(win) : b[i] = M!Bonus(cl, i + first - 1)
    BY <2>1
  <2> QED BY <2>2, BonusIs DEF Bonuses
<1> HIDE DEF b, win
<1>7. RowsOk(rows, win, p, n)
  BY <1>5, <1>6, RowsAre DEF n
<1> HIDE DEF rows
<1>8. top = rows[n] /\ Len(rows) = n
  BY <1>1, <1>7 DEF RowsOk, Listed, M!Last
<1>9. n \in 1 .. n
  BY <1>1
<1>10. RowOk(top, p[n], win)
  BY <1>7, <1>8, <1>9 DEF RowsOk
<1>11. PICK x : Embeds(win, p, x)
  BY <1>3 DEF win
<1>12. Alive(top, x[n]) /\ x[n] \in 1 .. Len(win)
  <2>1. Alive(rows[n], x[n])
    BY <1>7, <1>9, <1>11 DEF RowsOk
  <2>2. x[n] \in 1 .. Len(win)
    BY <1>9, <1>11 DEF Embeds, n
  <2> QED BY <2>1, <2>2, <1>8
<1> HIDE DEF top
<1>13. best >= 16 /\ best \in Nat /\ j \in 1 .. Len(win) /\ top[j].m = best
  <2> DEFINE y == x[n]
             c == p[n]
  <2>1. RowOk(top, c, win) /\ Alive(top, y) /\ y \in 1 .. Len(win)
    BY <1>10, <1>12
  <2>2. best = M!Max({0} \cup {top[i].m : i \in DOMAIN top})
    OBVIOUS
  <2>3. j = M!Min({k \in DOMAIN top : top[k].m = best})
    OBVIOUS
  <2>4. win \in Text
    BY <1>5
  <2> HIDE DEF y, c, best, j
  <2> QED BY <2>1, <2>2, <2>3, <2>4, BestIs
<1> HIDE DEF best, j
<1>14. Embeds(win, p, back) /\ back \in Seq(1 .. Len(win)) /\ Len(back) = n
  <2>1. rows[n][j].m > 0
    BY <1>8, <1>13
  <2> QED BY <2>1, <1>5, <1>7, <1>13, BacktrackIs DEF n
<1> HIDE DEF back
<1>15. \A k \in 1 .. n : back[k] \in 1 .. last - a /\ win[back[k]] = p[k] /\ (k > 1 => back[k - 1] < back[k])
  BY <1>5, <1>14 DEF Embeds, n
<1>16. at = [i \in 1 .. n |-> back[i] + first - 1]
  <2> DEFINE S == 1 .. Len(win)
  <2>1. back \in Seq(S) /\ Len(back) = n
    BY <1>14
  <2> HIDE DEF S
  <2>2. DOMAIN back = 1 .. n
    BY <2>1
  <2> QED BY <2>2
<1>17. Len(at) = n
  BY <1>1, <1>16
<1> HIDE DEF at
<1>18. ASSUME NEW k \in 1 .. n PROVE t[at[k]] = p[k] /\ (k > 1 => at[k - 1] < at[k])
  <2>1. at[k] = back[k] + first - 1 /\ back[k] \in 1 .. last - a /\ win[back[k]] = p[k]
    BY <1>15, <1>16
  <2>2. k > 1 => k - 1 \in 1 .. n
    BY <1>1
  <2>3. k > 1 => at[k - 1] = back[k - 1] + first - 1 /\ back[k - 1] \in 1 .. last - a /\ back[k - 1] < back[k]
    BY <2>2, <1>15, <1>16
  <2>4. at[k] = a + back[k]
    BY <2>1, <1>3, <1>4
  <2>5. t[at[k]] = p[k]
    BY <2>1, <2>4, <1>5
  <2>6. k > 1 => at[k - 1] < at[k]
    BY <2>1, <2>3, <1>3, <1>4
  <2> QED BY <2>5, <2>6
<1>19. M!Last(at) = at[n]
  BY <1>17 DEF M!Last
<1>20. r.at = at /\ r.begin = at[1] - 1 /\ r.end = at[n] /\ r.score = best
  BY <1>2, <1>19 DEF M!Found
<1>21. Placed(r, t, p)
  BY <1>17, <1>18, <1>20 DEF Placed, n
<1> QED BY <1>13, <1>20, <1>21 DEF M!ScoreMatch

-----------------------------------------------------------------------------
(* Every kind of term, and every term of a query. *)

LEMMA FuzzyPlaced ==
    ASSUME NEW cl, NEW t \in Text, NEW p \in Text, p # <<>>
    PROVE  /\ M!FuzzyMatchV1(cl, t, p).matched => Placed(M!FuzzyMatchV1(cl, t, p), t, p)
           /\ M!FuzzyMatchV2(cl, t, p).matched
                => Placed(M!FuzzyMatchV2(cl, t, p), t, p) /\ M!FuzzyMatchV2(cl, t, p).score >= M!ScoreMatch
<1> DEFINE g == M!GreedyPlaces(t, p)
<1>1. Len(g) \in Nat /\ Len(g) <= Len(p) /\ Len(p) \in Nat
  BY GreedyFinds DEF Text
<1>2. M!NoMatch.matched = FALSE
  BY DEF M!NoMatch
<1>3. M!FuzzyMatchV1(cl, t, p) = IF Len(g) < Len(p) THEN M!NoMatch ELSE M!Shrunk(cl, t, p, M!Last(g))
  BY DEF M!FuzzyMatchV1
<1>4. M!FuzzyMatchV2(cl, t, p) = IF Len(g) < Len(p) THEN M!NoMatch ELSE M!InWindow(cl, t, p, g[1])
  BY DEF M!FuzzyMatchV2
<1>5. CASE Len(g) < Len(p)
  BY <1>2, <1>3, <1>4, <1>5
<1>6. CASE ~(Len(g) < Len(p))
  <2>1. Len(g) = Len(p)
    <3> HIDE DEF g
    <3> QED BY <1>1, <1>6
  <2>2. Placed(M!Shrunk(cl, t, p, M!Last(g)), t, p)
    BY <2>1, ShrunkPlaced
  <2>3. Placed(M!InWindow(cl, t, p, g[1]), t, p) /\ M!InWindow(cl, t, p, g[1]).score >= M!ScoreMatch
    BY <2>1, InWindowPlaced
  <2> HIDE DEF g
  <2> QED BY <2>2, <2>3, <1>3, <1>4, <1>6
<1> QED BY <1>5, <1>6

LEMMA TermPlaced ==
    ASSUME NEW s \in Text, NEW term \in Term, NEW r, r = M!MatchTerm(o, s, term), r.matched
    PROVE  /\ Placed(r, M!Images(s, o.normalize, term.cs), M!Images(term.text, o.normalize, term.cs))
           /\ term.type = "Fuzzy" /\ o.algo # "V1" => r.score >= M!ScoreMatch
<1> DEFINE t  == M!Images(s, o.normalize, term.cs)
           p  == M!Images(term.text, o.normalize, term.cs)
           cl == [j \in DOMAIN s |-> M!ClassOf(s[j])]
<1>1. t \in Text /\ p \in Text /\ p # <<>> /\ View(s, t, p)
  BY TermFacts DEF View
<1>2. term.type \in Types
  BY DEF Term
<1>3. term.type = "Fuzzy" => r = IF o.algo = "V1" THEN M!FuzzyMatchV1(cl, t, p) ELSE M!FuzzyMatchV2(cl, t, p)
  BY DEF M!MatchTerm
<1>4. term.type = "Exact" => r = M!ExactMatchNaive(s, cl, t, p, FALSE)
  BY DEF M!MatchTerm
<1>5. term.type = "ExactBoundary" => r = M!ExactMatchNaive(s, cl, t, p, TRUE)
  BY DEF M!MatchTerm
<1>6. term.type = "Prefix" => r = M!PrefixMatch(s, cl, t, p)
  BY DEF M!MatchTerm
<1>7. term.type = "Suffix" => r = M!SuffixMatch(s, cl, t, p)
  BY DEF M!MatchTerm
<1>8. term.type = "Equal" => r = M!EqualMatch(s, t, p)
  BY DEF M!MatchTerm
<1> HIDE DEF t, p, cl
<1>9. CASE term.type = "Fuzzy"
  <2>1. CASE o.algo = "V1"
    <3>1. r = M!FuzzyMatchV1(cl, t, p)
      BY <1>3, <1>9, <2>1
    <3>2. Placed(r, t, p)
      BY <3>1, <1>1, FuzzyPlaced
    <3> QED BY <3>2, <2>1 DEF t, p
  <2>2. CASE o.algo # "V1"
    <3>1. r = M!FuzzyMatchV2(cl, t, p)
      BY <1>3, <1>9, <2>2
    <3>2. Placed(r, t, p) /\ r.score >= M!ScoreMatch
      BY <3>1, <1>1, FuzzyPlaced
    <3> QED BY <3>2 DEF t, p
  <2> QED BY <2>1, <2>2
<1>10. term.type # "Fuzzy" => Placed(r, t, p)
  <2>1. CASE term.type = "Exact"
    BY <1>1, <1>4, <2>1, ExactPlaced
  <2>2. CASE term.type = "ExactBoundary"
    BY <1>1, <1>5, <2>2, ExactPlaced
  <2>3. CASE term.type = "Prefix"
    BY <1>1, <1>6, <2>3, PrefixPlaced
  <2>4. CASE term.type = "Suffix"
    BY <1>1, <1>7, <2>4, SuffixPlaced
  <2>5. CASE term.type = "Equal"
    BY <1>1, <1>8, <2>5, EqualPlaced
  <2> QED BY <2>1, <2>2, <2>3, <2>4, <2>5, <1>2 DEF Types
<1> QED BY <1>9, <1>10 DEF t, p

\* In a state the query can be in, every match is where its term stands.
LEMMA PlacesAre ==
    ASSUME MatchingTyped
    PROVE  PlacesSpellTheTerm
<1> DEFINE sets == M!ParseTerms(o, query)
<1>1. sets \in Query
  BY StringsText, ParseTermsIs DEF MatchingTyped
<1>2. terms \subseteq Term
  <2>1. terms = UNION {Range(set) : set \in Range(sets)}
    BY DEF terms
  <2> HIDE DEF sets
  <2>2. ASSUME NEW set \in Range(sets), NEW term \in Range(set) PROVE term \in Term
    <3>1. PICK i \in DOMAIN sets : set = sets[i]
      BY DEF Range
    <3>2. set \in Seq(Term)
      BY <3>1, <1>1 DEF Query
    <3>3. PICK k \in DOMAIN set : term = set[k]
      BY DEF Range
    <3> QED BY <3>2, <3>3
  <2> QED BY <2>1, <2>2
<1>3. searched \subseteq Text
  <2> DEFINE text == item.text
             nth  == item.nth
  <2>1. text \in Text /\ nth \in Seq(Span)
    <3>1. item = T!BuildItem(o, line, 0)
      BY DEF item
    <3>2. item.text \in Seq(STRING) /\ item.nth \in Seq(Span)
      BY <3>1, ItemsAssumption DEF MatchingTyped, Span
    <3> QED BY <3>2, StringsText
  <2>2. searched = IF nth = <<>> THEN {text} ELSE {M!PartOf(text, nth[k]) : k \in DOMAIN nth}
    BY DEF searched
  <2> HIDE DEF text, nth
  <2>3. \A k \in DOMAIN nth : M!PartOf(text, nth[k]) \in Text
    BY <2>1, PartIsText
  <2> QED BY <2>1, <2>2, <2>3
<1>4. ASSUME NEW term \in Term, NEW s \in Text, M!MatchTerm(o, s, term).matched
      PROVE  LET r == M!MatchTerm(o, s, term)
                 p == M!Images(term.text, o.normalize, term.cs)
                 t == M!Images(s, o.normalize, term.cs)
             IN  /\ Len(r.at) = Len(p) /\ \A k \in DOMAIN p : t[r.at[k]] = p[k]
                 /\ \A k \in 2 .. Len(p) : r.at[k - 1] < r.at[k]
                 /\ r.begin = Head(r.at) - 1 /\ r.end = Last(r.at)
                 /\ term.type = "Fuzzy" /\ o.algo # "V1" => r.score >= M!ScoreMatch
  <2> DEFINE r == M!MatchTerm(o, s, term)
             p == M!Images(term.text, o.normalize, term.cs)
             t == M!Images(s, o.normalize, term.cs)
  <2>1. Placed(r, t, p) /\ (term.type = "Fuzzy" /\ o.algo # "V1" => r.score >= M!ScoreMatch)
    BY <1>4, TermPlaced
  <2>2. DOMAIN p = 1 .. Len(p) /\ Len(p) \in Nat
    BY TermFacts
  <2> HIDE DEF r, p, t
  <2>3. Last(r.at) = r.at[Len(r.at)] /\ Head(r.at) = r.at[1]
    BY DEF Last
  <2>4. \A k \in 2 .. Len(p) : k \in 1 .. Len(p) /\ k > 1
    BY <2>2
  <2> QED BY <2>1, <2>2, <2>3, <2>4 DEF Placed, r, p, t
<1> QED BY <1>2, <1>3, <1>4 DEF PlacesSpellTheTerm

\* Whatever line is read under whatever options, and whatever is typed: the
\* places a match reports spell its term, in order, from the first place of the
\* match to its last (calculate_score, both fuzzy matches with the backtracking
\* of the second, and the contiguous matches), and fuzzy_match_v2 scores a
\* character at least.
THEOREM PlacesAreRight == Spec => []PlacesSpellTheTerm
<1>1. MatchingTyped => PlacesSpellTheTerm
  BY PlacesAre
<1> QED BY <1>1, MatchingIsTyped, PTL
=============================================================================
