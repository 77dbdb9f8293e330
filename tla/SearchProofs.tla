---------------------------- MODULE SearchProofs ----------------------------
(***************************************************************************)
(* Theorems about a search with the chunk cache, for every list of lines,  *)
(* set of queries and options, chunk size and number of reloads.  They     *)
(* rest on Search!MatcherAssumption: what matches a query matches every    *)
(* cacheable query whose key is a prefix or a suffix of its key.           *)
(***************************************************************************)
EXTENDS Search, FiniteSetTheorems, SequenceTheorems, WellFoundedInduction, TLAPS

-----------------------------------------------------------------------------
\* A set of naturals has a least member.
LEMMA NatLeast ==
    ASSUME NEW T, T \subseteq Nat, T # {}
    PROVE  \E m \in T : \A k \in T : m <= k
<1> DEFINE Less == {ss \in Nat \X Nat : ss[1] < ss[2]}
<1>1. IsWellFoundedOn(Less, Nat)
  BY NatLessThanWellFounded DEF OpToRel
<1>2. PICK m \in T : \A k \in T : ~ (<<k, m>> \in Less)
  BY <1>1, WFMin
<1>3. ASSUME NEW k \in T PROVE m <= k
  <2>1. m \in Nat /\ k \in Nat /\ ~ (<<k, m>> \in Less)
    BY <1>2
  <2> QED BY <2>1
<1> QED BY <1>3

-----------------------------------------------------------------------------
(* Orders: InOrder puts a finite set in the order of a relation. *)

Below(S, R, x) == {y \in S : <<y, x>> \in R}

StrictOrder(S, R) ==
    /\ \A x \in S : <<x, x>> \notin R
    /\ \A x, y, z \in S : <<x, y>> \in R /\ <<y, z>> \in R => <<x, z>> \in R
    /\ \A x, y \in S : x = y \/ <<x, y>> \in R \/ <<y, x>> \in R

OneWay(S, R) == \A x, y \in S : <<x, y>> \in R => <<y, x>> \notin R

\* s lists S in the order of R.
Lists(s, S, R) ==
    /\ s \in Seq(S)
    /\ \A x \in S : \E i \in 1 .. Len(s) : s[i] = x
    /\ \A i, j \in 1 .. Len(s) : i < j => <<s[i], s[j]>> \in R

\* Members of a list in an order without cycles stand after as many others as
\* their place says.
LEMMA ListedIs ==
    ASSUME NEW S, NEW R, NEW s, Lists(s, S, R), OneWay(S, R)
    PROVE  /\ IsFiniteSet(S) /\ Cardinality(S) = Len(s)
           /\ \A i \in 1 .. Len(s), x \in S : Cardinality(Below(S, R, x)) = i - 1 <=> x = s[i]
<1> DEFINE n == Len(s)
<1>0. s \in Seq(S) /\ n \in Nat /\ \A i \in 1 .. n : s[i] \in S
  BY DEF Lists
<1>1. ASSUME NEW i \in 1 .. n, NEW j \in 1 .. n, i # j PROVE s[i] # s[j]
  <2>1. CASE i < j
    BY <2>1, <1>0 DEF Lists, OneWay
  <2>2. CASE j < i
    BY <2>2, <1>0 DEF Lists, OneWay
  <2> QED BY <1>1, <2>1, <2>2
<1>2. ASSUME NEW k \in 0 .. n
      PROVE  LET F == {s[j] : j \in 1 .. k} IN IsFiniteSet(F) /\ Cardinality(F) = k
  <2> DEFINE F == {s[j] : j \in 1 .. k}
             f == [j \in 1 .. k |-> s[j]]
  <2>1. f \in [1 .. k -> F] /\ \A x \in F : \E j \in 1 .. k : f[j] = x
    OBVIOUS
  <2>2. \A i, j \in 1 .. k : f[i] = f[j] => i = j
    <3>1. \A i \in 1 .. k : i \in 1 .. n
      BY <1>0
    <3> QED BY <1>1, <3>1
  <2>3. f \in Bijection(1 .. k, F)
    BY <2>1, <2>2, Zenon DEF Bijection, Injection, Surjection, IsInjective
  <2>4. IsFiniteSet(1 .. k) /\ Cardinality(1 .. k) = k
    BY <1>0, FS_Interval
  <2> HIDE DEF F, f
  <2> QED BY <2>3, <2>4, FS_Bijection DEF ExistsBijection, F
<1>3. S = {s[j] : j \in 1 .. n}
  BY <1>0 DEF Lists
<1>4. ASSUME NEW i \in 1 .. n PROVE Below(S, R, s[i]) = {s[j] : j \in 1 .. i - 1}
  <2>1. ASSUME NEW j \in 1 .. i - 1 PROVE s[j] \in Below(S, R, s[i])
    <3>1. j \in 1 .. n /\ j < i
      BY <1>0
    <3> QED BY <3>1, <1>0 DEF Lists, Below
  <2>2. ASSUME NEW y \in Below(S, R, s[i]) PROVE y \in {s[j] : j \in 1 .. i - 1}
    <3>1. PICK j \in 1 .. n : s[j] = y
      BY DEF Lists, Below
    <3>2. <<s[j], s[i]>> \in R
      BY <3>1 DEF Below
    <3>3. ~(i < j) /\ i # j
      BY <1>0, <3>2 DEF Lists, OneWay
    <3>4. j \in 1 .. i - 1
      BY <3>3, <1>0
    <3> QED BY <3>1, <3>4
  <2> QED BY <2>1, <2>2
<1>5. ASSUME NEW i \in 1 .. n PROVE Cardinality(Below(S, R, s[i])) = i - 1
  <2>1. i - 1 \in 0 .. n
    BY <1>0
  <2> QED BY <1>4, <1>2, <2>1
<1>6. IsFiniteSet(S) /\ Cardinality(S) = n
  <2>1. n \in 0 .. n
    BY <1>0
  <2> QED BY <1>3, <1>2, <2>1
<1>7. ASSUME NEW i \in 1 .. n, NEW x \in S
      PROVE  Cardinality(Below(S, R, x)) = i - 1 <=> x = s[i]
  <2>1. PICK j \in 1 .. n : s[j] = x
    BY DEF Lists
  <2>2. Cardinality(Below(S, R, x)) = j - 1
    BY <2>1, <1>5
  <2>3. i - 1 = j - 1 <=> i = j
    BY <1>0
  <2> QED BY <2>1, <2>2, <2>3, <1>1
<1> QED BY <1>6, <1>7

LEMMA ListedAt ==
    ASSUME NEW S, NEW R, NEW s, Lists(s, S, R), OneWay(S, R),
           NEW i \in 1 .. Len(s), NEW x \in S
    PROVE  Cardinality(Below(S, R, x)) = i - 1 <=> x = s[i]
BY ListedIs

\* A finite set can be listed in a strict total order.
LEMMA ListExists ==
    ASSUME NEW S, NEW R, IsFiniteSet(S), StrictOrder(S, R)
    PROVE  \E s : Lists(s, S, R)
<1> DEFINE n == Cardinality(S)
           r(x) == Cardinality(Below(S, R, x))
           f == [x \in S |-> r(x) + 1]
<1>1. n \in Nat
  BY FS_CardinalityType
<1>2. ASSUME NEW x \in S
      PROVE  IsFiniteSet(Below(S, R, x)) /\ r(x) \in Nat /\ r(x) < n
  <2>1. Below(S, R, x) \in SUBSET S /\ x \notin Below(S, R, x)
    BY DEF Below, StrictOrder
  <2>2. IsFiniteSet(Below(S, R, x)) /\ r(x) <= n /\ r(x) # n
    BY <2>1, FS_Subset, Zenon
  <2>3. r(x) \in Nat
    BY <2>2, FS_CardinalityType
  <2> QED BY <2>2, <2>3, <1>1
<1>3. ASSUME NEW x \in S, NEW y \in S, <<x, y>> \in R PROVE r(x) < r(y)
  <2>1. Below(S, R, x) \in SUBSET Below(S, R, y)
    BY <1>3 DEF Below, StrictOrder
  <2>2. x \in Below(S, R, y) /\ x \notin Below(S, R, x)
    BY <1>3 DEF Below, StrictOrder
  <2>3. r(x) <= r(y) /\ r(x) # r(y)
    BY <2>1, <2>2, <1>2, FS_Subset, Zenon
  <2> QED BY <2>3, <1>2
<1>4. f \in Injection(S, 1 .. n)
  <2>1. \A x \in S : f[x] \in 1 .. n
    <3> SUFFICES ASSUME NEW x \in S PROVE r(x) + 1 \in 1 .. n
      OBVIOUS
    <3> HIDE DEF r, n
    <3> QED BY <1>1, <1>2
  <2>2. ASSUME NEW x \in S, NEW y \in S, f[x] = f[y] PROVE x = y
    <3>1. r(x) = r(y) /\ r(x) \in Nat
      <4>1. r(x) + 1 = r(y) + 1
        BY <2>2
      <4> HIDE DEF r
      <4> QED BY <4>1, <1>2
    <3>2. <<x, y>> \notin R /\ <<y, x>> \notin R
      BY <3>1, <1>3, <1>2
    <3> QED BY <3>2 DEF StrictOrder
  <2> HIDE DEF f
  <2>3. f \in [S -> 1 .. n]
    BY <2>1 DEF f
  <2> QED BY <2>3, <2>2, Zenon DEF Injection, IsInjective
<1>5. IsFiniteSet(1 .. n) /\ Cardinality(1 .. n) = n
  BY <1>1, FS_Interval
<1>6. f \in Surjection(S, 1 .. n)
  <2> HIDE DEF f
  <2> QED BY <1>4, <1>5, FS_Injection
<1>7. \A i \in 1 .. n : \E x \in S : r(x) + 1 = i
  BY <1>6 DEF Surjection
<1> DEFINE s == [i \in 1 .. n |-> CHOOSE x \in S : r(x) + 1 = i]
<1>8. \A i \in 1 .. n : s[i] \in S /\ r(s[i]) + 1 = i
  <2> HIDE DEF r
  <2> QED BY <1>7
<1>9. s \in Seq(S) /\ Len(s) = n
  <2>1. s \in [1 .. n -> S]
    BY <1>8
  <2> HIDE DEF s, n
  <2> QED BY <2>1, <1>1
<1>10. ASSUME NEW x \in S PROVE \E i \in 1 .. n : s[i] = x
  <2> DEFINE i == r(x) + 1
  <2>1. i \in 1 .. n /\ s[i] \in S /\ r(s[i]) + 1 = i
    <3>1. i \in 1 .. n
      <4> HIDE DEF r, n
      <4> QED BY <1>1, <1>2
    <3> QED BY <3>1, <1>8
  <2>2. f[s[i]] = f[x]
    BY <2>1
  <2> HIDE DEF f, i, s
  <2>3. s[i] = x
    BY <2>1, <2>2, <1>4 DEF Injection, IsInjective
  <2> QED BY <2>3, <2>1
<1>11. ASSUME NEW i \in 1 .. n, NEW j \in 1 .. n, i < j PROVE <<s[i], s[j]>> \in R
  <2>1. s[i] \in S /\ s[j] \in S /\ r(s[i]) + 1 = i /\ r(s[j]) + 1 = j
    BY <1>8
  <2> HIDE DEF s, r
  <2>2. r(s[i]) \in Nat /\ r(s[j]) \in Nat /\ r(s[i]) < r(s[j])
    BY <2>1, <1>2, <1>11
  <2>3. s[i] # s[j] /\ <<s[j], s[i]>> \notin R
    BY <2>1, <2>2, <1>3
  <2> QED BY <2>1, <2>3 DEF StrictOrder
<1> HIDE DEF s, r, f
<1> QED BY <1>9, <1>10, <1>11 DEF Lists

\* Ranks of one length compare like numbers: the first point that differs decides.
LEMMA RankOrder ==
    ASSUME NEW n \in Nat, NEW x \in [1 .. n -> Int], NEW y \in [1 .. n -> Int], NEW z \in [1 .. n -> Int]
    PROVE  /\ ~RankLess(x, x)
           /\ RankLess(x, y) /\ RankLess(y, z) => RankLess(x, z)
           /\ x = y \/ RankLess(x, y) \/ RankLess(y, x)
<1>1. ~RankLess(x, x)
  BY DEF RankLess
<1>2. ASSUME RankLess(x, y), RankLess(y, z) PROVE RankLess(x, z)
  <2>1. PICK k \in 1 .. n : x[k] < y[k] /\ \A i \in 1 .. k - 1 : x[i] = y[i]
    BY <1>2 DEF RankLess
  <2>2. PICK l \in 1 .. n : y[l] < z[l] /\ \A i \in 1 .. l - 1 : y[i] = z[i]
    BY <1>2 DEF RankLess
  <2>3. CASE k <= l
    <3>1. x[k] < z[k]
      BY <2>1, <2>2, <2>3
    <3>2. \A i \in 1 .. k - 1 : x[i] = z[i]
      BY <2>1, <2>2, <2>3
    <3> QED BY <3>1, <3>2 DEF RankLess
  <2>4. CASE l < k
    <3>1. x[l] < z[l]
      BY <2>1, <2>2, <2>4
    <3>2. \A i \in 1 .. l - 1 : x[i] = z[i]
      BY <2>1, <2>2, <2>4
    <3> QED BY <3>1, <3>2 DEF RankLess
  <2> QED BY <2>3, <2>4
<1>3. ASSUME x # y PROVE RankLess(x, y) \/ RankLess(y, x)
  <2> DEFINE T == {k \in 1 .. n : x[k] # y[k]}
  <2>1. T # {} /\ T \subseteq Nat
    <3>1. \E k \in 1 .. n : x[k] # y[k]
      BY <1>3
    <3>2. PICK k \in 1 .. n : x[k] # y[k]
      BY <3>1
    <3>3. k \in T
      BY <3>2
    <3>4. T \subseteq 1 .. n
      OBVIOUS
    <3>5. 1 .. n \subseteq Nat
      OBVIOUS
    <3> HIDE DEF T
    <3> QED BY <3>3, <3>4, <3>5
  <2>2. PICK k \in T : \A i \in T : k <= i
    <3> HIDE DEF T
    <3> QED BY <2>1, NatLeast
  <2>3. k \in 1 .. n /\ x[k] # y[k] /\ \A i \in 1 .. k - 1 : x[i] = y[i]
    BY <2>2
  <2>4. x[k] < y[k] \/ y[k] < x[k]
    BY <2>3
  <2> QED BY <2>3, <2>4 DEF RankLess
<1> QED BY <1>1, <1>2, <1>3

\* A bounded set of integers has a least and a greatest member.
LEMMA IntExtrema ==
    ASSUME NEW a \in Int, NEW b \in Int, NEW T, T \subseteq a .. b, T # {}
    PROVE  /\ Max(T) \in T /\ \A k \in T : k <= Max(T)
           /\ Min(T) \in T /\ \A k \in T : Min(T) <= k
<1>1. \E m \in T : \A k \in T : m <= k
  <2> DEFINE D == {d \in Nat : a + d \in T}
  <2>1. PICK t \in T : t \in a .. b
    OBVIOUS
  <2>2. t - a \in D
    BY <2>1
  <2>3. PICK d \in D : \A e \in D : d <= e
    <3>1. D # {} /\ D \subseteq Nat
      BY <2>2
    <3> HIDE DEF D
    <3> QED BY <3>1, NatLeast
  <2>4. ASSUME NEW k \in T PROVE a + d <= k
    <3>1. k - a \in D /\ k \in Int
      <4>1. k \in a .. b
        OBVIOUS
      <4> QED BY <4>1
    <3>2. d <= k - a /\ d \in Nat
      BY <2>3, <3>1
    <3> QED BY <3>1, <3>2
  <2> QED BY <2>3, <2>4
<1>2. \E m \in T : \A k \in T : k <= m
  <2> DEFINE D == {d \in Nat : b - d \in T}
  <2>1. PICK t \in T : t \in a .. b
    OBVIOUS
  <2>2. b - t \in D
    BY <2>1
  <2>3. PICK d \in D : \A e \in D : d <= e
    <3>1. D # {} /\ D \subseteq Nat
      BY <2>2
    <3> HIDE DEF D
    <3> QED BY <3>1, NatLeast
  <2>4. ASSUME NEW k \in T PROVE k <= b - d
    <3>1. b - k \in D /\ k \in Int
      <4>1. k \in a .. b
        OBVIOUS
      <4> QED BY <4>1
    <3>2. d <= b - k /\ d \in Nat
      BY <2>3, <3>1
    <3> QED BY <3>1, <3>2
  <2> QED BY <2>3, <2>4
<1>3. \A k, m \in T : k >= m <=> m <= k
  OBVIOUS
<1>4. Max(T) \in T /\ \A k \in T : Max(T) >= k
  BY <1>2, <1>3, Zenon DEF Max
<1>5. Min(T) \in T /\ \A k \in T : Min(T) <= k
  BY <1>1, Zenon DEF Min
<1> QED BY <1>3, <1>4, <1>5

-----------------------------------------------------------------------------
(* The options and the patterns: what no step changes. *)

Fixed == o \in Settings /\ patterns = [q \in Queries |-> BuildPattern(o, q)]

LEMMA PairExtrema ==
    ASSUME NEW a \in Int, NEW b \in Int
    PROVE  /\ Max({a, b}) \in Int /\ Max({a, b}) >= a
           /\ Min({a, b}) \in Int
<1> DEFINE T == {a, b}
<1>1. PICK lo \in Int : lo <= a /\ lo <= b
  <2>1. a <= b \/ b <= a
    OBVIOUS
  <2> QED BY <2>1
<1>2. PICK hi \in Int : a <= hi /\ b <= hi
  <2>1. a <= b \/ b <= a
    OBVIOUS
  <2> QED BY <2>1
<1>3. T \subseteq lo .. hi /\ T # {} /\ T \subseteq Int /\ a \in T
  BY <1>1, <1>2
<1> HIDE DEF T
<1>4. Max(T) \in T /\ (\A k \in T : k <= Max(T)) /\ Min(T) \in T
  BY <1>3, IntExtrema
<1>5. Max(T) \in Int /\ Min(T) \in Int /\ a <= Max(T)
  BY <1>3, <1>4
<1>6. Max(T) >= a
  BY <1>5
<1> QED BY <1>5, <1>6 DEF T

LEMMA U16Int ==
    ASSUME NEW v \in Int
    PROVE  U16(v) \in Int
<1> DEFINE w == Min({v, 65535})
<1>1. w \in Int
  BY PairExtrema, 65535 \in Int
<1> HIDE DEF w
<1>2. Max({0, w}) \in Int
  BY <1>1, PairExtrema
<1> QED BY <1>2 DEF U16, w

LEMMA LengthInt ==
    ASSUME NEW text \in Seq(STRING)
    PROVE  /\ Lead(text) \in Int
           /\ TrimLength(text) \in Int /\ TrimLength(text) >= 0
<1>1. ASSUME NEW T, T \subseteq 1 .. Len(text) PROVE Cardinality(T) \in Nat
  <2>1. IsFiniteSet(1 .. Len(text))
    BY FS_Interval
  <2>2. IsFiniteSet(T)
    BY <2>1, <1>1, FS_Subset
  <2> QED BY <2>2, FS_CardinalityType
<1>0. \A T : M!Cardinality(T) = Cardinality(T)
  BY DEF M!Cardinality, Cardinality
<1>2. M!LeadingSpaces(text) \in Nat /\ M!TrailingSpaces(text) \in Nat
  <2>1. {i \in DOMAIN text : \A j \in 1 .. i : text[j] \in M!Spaces} \subseteq 1 .. Len(text)
    OBVIOUS
  <2>2. {i \in DOMAIN text : \A j \in i .. Len(text) : text[j] \in M!Spaces} \subseteq 1 .. Len(text)
    OBVIOUS
  <2> DEFINE A == {i \in DOMAIN text : \A j \in 1 .. i : text[j] \in M!Spaces}
             Z == {i \in DOMAIN text : \A j \in i .. Len(text) : text[j] \in M!Spaces}
  <2>3. Cardinality(A) \in Nat /\ Cardinality(Z) \in Nat
    <3> HIDE DEF A, Z
    <3>1. A \subseteq 1 .. Len(text) /\ Z \subseteq 1 .. Len(text)
      BY <2>1, <2>2 DEF A, Z
    <3> QED BY <1>1, <3>1
  <2>4. M!LeadingSpaces(text) = M!Cardinality(A) /\ M!TrailingSpaces(text) = M!Cardinality(Z)
    BY DEF M!LeadingSpaces, M!TrailingSpaces
  <2> HIDE DEF A, Z
  <2> QED BY <1>0, <2>3, <2>4
<1> DEFINE v == Len(text) - Lead(text) - M!TrailingSpaces(text)
<1>3. Lead(text) \in Int /\ v \in Int
  BY <1>2 DEF Lead
<1> HIDE DEF v
<1>4. Max({0, v}) \in Int /\ Max({0, v}) >= 0
  BY <1>3, PairExtrema
<1> QED BY <1>3, <1>4 DEF TrimLength, v

LEMMA PointInt ==
    ASSUME NEW r, {r.score, r.begin, r.end, r.min_end} \subseteq Int,
           NEW text \in Seq(STRING), NEW criterion \in Criteria
    PROVE  Point(criterion, r, text) \in Int
<1> DEFINE n      == Len(text)
           spaces == {i \in DOMAIN text : text[i] \in M!Spaces}
           B      == {0} \cup {i \in spaces : i <= r.begin}
           E      == {Len(text) + 1} \cup {i \in spaces : i > r.end}
           D      == {-1} \cup {i - 1 : i \in {i \in DOMAIN text : text[i] \in {"/", "\\"}}}
           white  == Min({Lead(text), r.begin})
           b      == Max(B)
           e      == Min(E) - 1
           delim  == Max(D)
           slope  == (65535 * (r.end - white)) \div (TrimLength(text) + 1)
<1>1. n \in Nat /\ DOMAIN text = 1 .. n /\ r.score \in Int /\ r.begin \in Int /\ r.end \in Int /\ r.min_end \in Int
  OBVIOUS
<1>2. white \in Int
  BY <1>1, LengthInt, PairExtrema
<1>3. b \in Int
  <2>1. B \subseteq 0 .. n /\ B # {}
    BY <1>1
  <2>2. 0 .. n \subseteq Int
    OBVIOUS
  <2> HIDE DEF B, n
  <2>3. n \in Int /\ 0 \in Int
    BY <1>1
  <2>4. Max(B) \in B
    BY <2>1, <2>3, IntExtrema
  <2> QED BY <2>1, <2>2, <2>4
<1>4. e \in Int
  <2>1. E \subseteq 0 .. n + 1 /\ E # {}
    BY <1>1
  <2>2. 0 .. n + 1 \subseteq Int /\ n + 1 \in Int
    BY <1>1
  <2> DEFINE m == n + 1
  <2> HIDE DEF E, m, n
  <2>3. E \subseteq 0 .. m /\ E # {} /\ m \in Int /\ 0 \in Int
    BY <2>1, <2>2 DEF m
  <2>4. Min(E) \in E
    BY <2>3, IntExtrema
  <2>5. Min(E) \in Int
    BY <2>1, <2>2, <2>4
  <2> QED BY <2>5
<1>5. delim \in Int
  <2>1. D \subseteq -1 .. n /\ D # {}
    BY <1>1
  <2>2. -1 .. n \subseteq Int /\ -1 \in Int
    OBVIOUS
  <2> HIDE DEF D, n
  <2>3. n \in Int /\ -1 \in Int
    BY <1>1
  <2>4. Max(D) \in D
    BY <2>1, <2>3, IntExtrema
  <2> QED BY <2>1, <2>2, <2>4
<1>6. slope \in Int
  <2> DEFINE x == 65535 * (r.end - white)
             d == TrimLength(text) + 1
  <2>1. x \in Int
    <3> HIDE DEF white
    <3> QED BY <1>1, <1>2
  <2>2. d \in Int /\ d > 0
    BY LengthInt
  <2> HIDE DEF x, d
  <2>3. x \div d \in Int
    BY <2>1, <2>2
  <2> QED BY <2>3 DEF x, d
<1> HIDE DEF white, b, e, delim, slope
<1>7. /\ 65535 - U16(r.score) \in Int /\ U16(TrimLength(text)) \in Int
      /\ U16(e - b) \in Int /\ U16(r.begin - delim) \in Int /\ U16(r.min_end - white) \in Int
      /\ U16(65535 - slope) \in Int /\ 65535 \in Int
  <2>1. U16(r.score) \in Int /\ U16(TrimLength(text)) \in Int
    BY <1>1, LengthInt, U16Int
  <2>2. e - b \in Int /\ r.begin - delim \in Int /\ r.min_end - white \in Int /\ 65535 - slope \in Int
    BY <1>1, <1>2, <1>3, <1>4, <1>5, <1>6
  <2>3. U16(e - b) \in Int /\ U16(r.begin - delim) \in Int /\ U16(r.min_end - white) \in Int /\ U16(65535 - slope) \in Int
    <3> DEFINE w1 == e - b
               w2 == r.begin - delim
               w3 == r.min_end - white
               w4 == 65535 - slope
    <3> HIDE DEF w1, w2, w3, w4
    <3>1. U16(w1) \in Int /\ U16(w2) \in Int /\ U16(w3) \in Int /\ U16(w4) \in Int
      <4>1. w1 \in Int /\ w2 \in Int /\ w3 \in Int /\ w4 \in Int
        BY <2>2 DEF w1, w2, w3, w4
      <4> QED BY <4>1, U16Int
    <3> QED BY <3>1 DEF w1, w2, w3, w4
  <2>4. 65535 - U16(r.score) \in Int
    BY <2>1
  <2> QED BY <2>1, <2>3, <2>4
<1> DEFINE valid == r.begin >= 0 /\ r.begin < r.end
           P == Point(criterion, r, text)
<1>8. /\ criterion = "Score"  => P = 65535 - U16(r.score)
      /\ criterion = "Length" => P = U16(TrimLength(text))
      /\ criterion = "Chunk" => P = IF valid THEN U16(e - b) ELSE 65535
      /\ criterion = "Pathname" => P = IF valid /\ delim <= r.begin THEN U16(r.begin - delim) ELSE 65535
      /\ criterion = "Begin" => P = IF valid THEN U16(r.min_end - white) ELSE 65535
      /\ criterion = "End" => P = IF valid THEN U16(65535 - slope) ELSE 65535
  BY DEF Point, white, b, e, delim, slope
<1> HIDE DEF valid, P
<1>9. P \in Int
  BY <1>7, <1>8 DEF Criteria
<1> QED BY <1>9 DEF P

\* What the pattern of a query answers for a line, and the rank it gives it.
AnswerOf(opt, q) ==
    [t \in Range(Feed) |->
        LET r == BuildPattern(opt, q).match[t]
        IN  [hit |-> r.matched, rank |-> [k \in DOMAIN opt.criteria |-> Point(opt.criteria[k], r, t)]]]

Entry(opt) == [index : Int, rank : [1 .. Len(opt.criteria) -> Int]]

-----------------------------------------------------------------------------
(* The inductive invariant. *)

Chunk == [first : Nat, items : Seq(Range(Feed)), sealed : BOOLEAN]

ChunkOk(st) == st \in Seq(Chunk) /\ \A id \in 1 .. Len(st) : Len(st[id].items) >= 1

EndOf(st, id) == st[id].first + Len(st[id].items)

\* The chunks of the list follow each other from 0, all but the last one sealed.
Listed(st, l, n, done) ==
    /\ l \in Seq(1 .. Len(st)) /\ n \in Nat /\ done \in BOOLEAN
    /\ l = <<>> => n = 0
    /\ l # <<>> => st[l[1]].first = 0 /\ EndOf(st, l[Len(l)]) = n /\ (~done => ~st[l[Len(l)]].sealed)
    /\ \A k \in 1 .. Len(l) - 1 : st[l[k]].sealed /\ st[l[k + 1]].first = EndOf(st, l[k])
    /\ \A j, k \in 1 .. Len(l) : j < k => EndOf(st, l[j]) <= st[l[k]].first

\* A snapshot: chunks and how many items of each; they follow each other too.
Snapshot(st, ids, counts) ==
    /\ ids \in Seq(1 .. Len(st)) /\ counts \in Seq(Nat) /\ Len(counts) = Len(ids)
    /\ \A k \in 1 .. Len(ids) : 1 <= counts[k] /\ counts[k] <= Len(st[ids[k]].items)
    /\ ids # <<>> => st[ids[1]].first = 0
    /\ \A k \in 1 .. Len(ids) - 1 : st[ids[k + 1]].first = st[ids[k]].first + counts[k]
    /\ \A j, k \in 1 .. Len(ids) : j < k => st[ids[j]].first + counts[j] <= st[ids[k]].first

HitAt(st, id, k, a) == a[st[id].items[k]].hit
EntryAt(st, id, k, a) == [index |-> st[id].first + k - 1, rank |-> a[st[id].items[k]].rank]

\* The results are those of the matching items of the first n chunks, all of them.
FoundIn(st, ids, counts, a, found, n) ==
    /\ \A i \in 1 .. Len(found) : \E c \in 1 .. n : \E k \in 1 .. counts[c] :
          HitAt(st, ids[c], k, a) /\ found[i] = EntryAt(st, ids[c], k, a)
    /\ \A c \in 1 .. n : \A k \in 1 .. counts[c] :
          HitAt(st, ids[c], k, a) => \E i \in 1 .. Len(found) : found[i] = EntryAt(st, ids[c], k, a)

Ascending(found) == \A i, j \in 1 .. Len(found) : i < j => found[i].index < found[j].index

\* The order of SortResults.
Precedes(opt, x, y) ==
    RankLess(x.rank, y.rank)
    \/ (x.rank = y.rank /\ IF opt.tac THEN x.index > y.index ELSE x.index < y.index)

Sorted(opt, found) == \A i, j \in 1 .. Len(found) : i < j => Precedes(opt, found[i], found[j])

HitsOf(st, id, a) == {i \in 1 .. Len(st[id].items) : HitAt(st, id, i, a)}

\* A bitmap describes a sealed chunk, for every query with its key.
CacheOk(st, opt, c) ==
    \A e \in c :
      /\ e.id \in 1 .. Len(st) /\ st[e.id].sealed
      /\ \A x \in c : x.id = e.id /\ x.key = e.key => x = e
      /\ \E q \in Queries : IsCacheable(opt, q) /\ KeyOf(opt, q) = e.key
      /\ \A q \in Queries : IsCacheable(opt, q) /\ KeyOf(opt, q) = e.key =>
            e.hits = HitsOf(st, e.id, AnswerOf(opt, q))

Scan(opt) ==
    [on : {TRUE}, query : Queries, ids : Seq(Nat), counts : Seq(Nat), at : Nat,
     step : {"look", "match"}, complete : BOOLEAN, left : SUBSET Nat, found : Seq(Entry(opt))]

Merger(opt) ==
    [on : {TRUE}, pass : BOOLEAN, query : Queries, ids : Seq(Nat), counts : Seq(Nat),
     found : Seq(Entry(opt)), sorted : BOOLEAN]

\* What is left to be tried holds the matches; if the snapshot has the whole
\* chunk, it still does.
LeftOk(st, a, s) ==
    s.step = "match" =>
      /\ s.at <= Len(s.ids)
      /\ 0 \notin s.left
      /\ \A k \in 1 .. s.counts[s.at] : HitAt(st, s.ids[s.at], k, a) => k \in s.left
      /\ s.complete => st[s.ids[s.at]].sealed /\ s.counts[s.at] = Len(st[s.ids[s.at]].items)

ScanOk(st, opt, s) ==
    s = Idle \/
      /\ s \in Scan(opt)
      /\ Snapshot(st, s.ids, s.counts)
      /\ ~BuildPattern(opt, s.query).empty
      /\ s.at \in 1 .. Len(s.ids) + 1
      /\ LeftOk(st, AnswerOf(opt, s.query), s)
      /\ FoundIn(st, s.ids, s.counts, AnswerOf(opt, s.query), s.found, s.at - 1)
      /\ Ascending(s.found)

MergerOk(st, opt, m) ==
    m = Idle \/
      /\ m \in Merger(opt)
      /\ Snapshot(st, m.ids, m.counts)
      /\ IF m.pass THEN m.ids = <<>> \/ BuildPattern(opt, m.query).empty
         ELSE /\ ~BuildPattern(opt, m.query).empty
              /\ m.sorted = (opt.sort /\ BuildPattern(opt, m.query).sortable)
              /\ FoundIn(st, m.ids, m.counts, AnswerOf(opt, m.query), m.found, Len(m.ids))
              /\ IF m.sorted THEN Sorted(opt, m.found) ELSE Ascending(m.found)

StoreInv  == ChunkOk(store) /\ Listed(store, list, fed, finished)
CacheInv  == CacheOk(store, o, cache)
ScanInv   == ScanOk(store, o, scan)
MergerInv == MergerOk(store, o, merger)

SearchInv == Fixed /\ StoreInv /\ CacheInv /\ ScanInv /\ MergerInv

-----------------------------------------------------------------------------
(* What the inputs and the matcher are known to do. *)

LEMMA OptionFacts ==
    ASSUME NEW opt \in Settings
    PROVE  /\ opt.interactive \in BOOLEAN /\ opt.sort \in BOOLEAN /\ opt.tac \in BOOLEAN
           /\ opt.criteria \in Seq(Criteria)
           /\ Range(Feed) \subseteq Seq(STRING) /\ Feed \in Seq(Range(Feed))
<1>1. opt.interactive \in BOOLEAN /\ opt.sort \in BOOLEAN /\ opt.tac \in BOOLEAN /\ opt.criteria \in Seq(Criteria)
  BY InputsAssumption
<1>2. Feed \in Seq(Seq(STRING))
  BY InputsAssumption
<1>3. \A i \in 1 .. Len(Feed) : Feed[i] \in Seq(STRING) /\ Feed[i] \in Range(Feed)
  BY <1>2 DEF Range
<1>4. \A t \in Range(Feed) : \E i \in 1 .. Len(Feed) : t = Feed[i]
  BY <1>2 DEF Range
<1>5. Feed \in [1 .. Len(Feed) -> Range(Feed)] /\ Len(Feed) \in Nat
  BY <1>2, <1>3
<1>6. Feed \in Seq(Range(Feed))
  BY <1>5
<1> QED BY <1>1, <1>3, <1>4, <1>6

LEMMA AnswerFacts ==
    ASSUME NEW opt \in Settings, NEW q \in Queries, NEW t \in Range(Feed)
    PROVE  LET m == BuildPattern(opt, q).match[t]
               a == AnswerOf(opt, q)[t]
           IN  /\ a.hit = m.matched /\ a.hit \in BOOLEAN
               /\ a.rank = [k \in DOMAIN opt.criteria |-> Point(opt.criteria[k], m, t)]
               /\ a.rank \in [1 .. Len(opt.criteria) -> Int]
               /\ BuildPattern(opt, q).empty => a.hit
<1> DEFINE m == BuildPattern(opt, q).match[t]
           a == AnswerOf(opt, q)[t]
<1>1. m.matched \in BOOLEAN /\ {m.score, m.begin, m.end, m.min_end} \subseteq Int
  BY MatcherAssumption
<1>2. a = [hit |-> m.matched, rank |-> [k \in DOMAIN opt.criteria |-> Point(opt.criteria[k], m, t)]]
  BY DEF AnswerOf
<1>3. BuildPattern(opt, q).empty => m.matched
  <2>1. ASSUME BuildPattern(opt, q).empty PROVE m.matched
    <3>1. Sets(opt, q) = <<>>
      BY <2>1 DEF BuildPattern
    <3>2. m = M!Match(opt, t, Sets(opt, q), <<>>)
      BY DEF BuildPattern
    <3>3. m = M!Everything
      BY <3>1, <3>2 DEF M!Match
    <3> HIDE DEF m
    <3> QED BY <3>3 DEF M!Everything
  <2> QED BY <2>1
<1> HIDE DEF m
<1>4. opt.criteria \in Seq(Criteria) /\ t \in Seq(STRING)
  BY OptionFacts
<1>5. ASSUME NEW k \in 1 .. Len(opt.criteria) PROVE Point(opt.criteria[k], m, t) \in Int
  <2>1. opt.criteria[k] \in Criteria
    BY <1>4
  <2> QED BY <2>1, <1>1, <1>4, PointInt
<1>6. DOMAIN opt.criteria = 1 .. Len(opt.criteria)
  BY <1>4
<1>7. [k \in DOMAIN opt.criteria |-> Point(opt.criteria[k], m, t)] \in [1 .. Len(opt.criteria) -> Int]
  BY <1>5, <1>6
<1> HIDE DEF a
<1>8. a.hit = m.matched /\ a.rank = [k \in DOMAIN opt.criteria |-> Point(opt.criteria[k], m, t)]
  BY <1>2
<1> QED BY <1>1, <1>3, <1>7, <1>8 DEF a, m

\* The lines a query matches are among those that a cacheable query matches whose
\* key is its key, or a prefix or a suffix of it.
LEMMA NarrowerMatches ==
    ASSUME NEW opt \in Settings, NEW q \in Queries, NEW r \in Queries, IsCacheable(opt, r),
           \/ KeyOf(opt, r) = KeyOf(opt, q)
           \/ \E n \in 1 .. Len(KeyOf(opt, q)) - 1 :
                 \/ KeyOf(opt, r) = SubSeq(KeyOf(opt, q), 1, n)
                 \/ KeyOf(opt, r) = SubSeq(KeyOf(opt, q), Len(KeyOf(opt, q)) - n + 1, Len(KeyOf(opt, q)))
    PROVE  \A t \in Range(Feed) : AnswerOf(opt, q)[t].hit => AnswerOf(opt, r)[t].hit
<1> DEFINE key     == KeyOf(opt, q)
           shorter == {key} \cup UNION {{SubSeq(key, 1, n), SubSeq(key, Len(key) - n + 1, Len(key))}
                                          : n \in 1 .. Len(key) - 1}
<1>1. KeyOf(opt, r) \in shorter
  <2>1. CASE KeyOf(opt, r) = key
    BY <2>1
  <2>2. ASSUME NEW n \in 1 .. Len(key) - 1,
               KeyOf(opt, r) \in {SubSeq(key, 1, n), SubSeq(key, Len(key) - n + 1, Len(key))}
        PROVE  KeyOf(opt, r) \in shorter
    BY <2>2
  <2> QED BY <2>1, <2>2
<1>2. \A t \in Range(Feed) :
         BuildPattern(opt, q).match[t].matched => BuildPattern(opt, r).match[t].matched
  <2> HIDE DEF shorter
  <2>1. IsCacheable(opt, r) /\ KeyOf(opt, r) \in shorter =>
           \A t \in Range(Feed) :
             BuildPattern(opt, q).match[t].matched => BuildPattern(opt, r).match[t].matched
    BY MatcherAssumption, Zenon DEF shorter
  <2> QED BY <1>1, <2>1
<1>3. ASSUME NEW t \in Range(Feed), AnswerOf(opt, q)[t].hit PROVE AnswerOf(opt, r)[t].hit
  <2>1. AnswerOf(opt, q)[t].hit = BuildPattern(opt, q).match[t].matched
    BY AnswerFacts, Zenon
  <2>2. AnswerOf(opt, r)[t].hit = BuildPattern(opt, r).match[t].matched
    BY AnswerFacts, Zenon
  <2> QED BY <1>2, <1>3, <2>1, <2>2, Zenon
<1> QED BY <1>3

LEMMA PatternFacts ==
    ASSUME Fixed, NEW q \in Queries
    PROVE  /\ o \in Settings
           /\ patterns[q] = BuildPattern(o, q)
           /\ Cacheable(q) = IsCacheable(o, q) /\ CacheKey(q) = KeyOf(o, q)
           /\ Len(KeyOf(o, q)) \in Nat
           /\ \A t \in Range(Feed) : /\ PatternMatch(q, t).matched = AnswerOf(o, q)[t].hit
                                    /\ Rank(PatternMatch(q, t), t) = AnswerOf(o, q)[t].rank
<1>1. o \in Settings /\ patterns[q] = BuildPattern(o, q)
  BY DEF Fixed
<1>2. BuildPattern(o, q).cacheable = IsCacheable(o, q) /\ BuildPattern(o, q).key = KeyOf(o, q)
  BY DEF BuildPattern
<1>3. Len(KeyOf(o, q)) \in Nat
  BY <1>1, MatcherAssumption
<1>4. ASSUME NEW t \in Range(Feed)
      PROVE  /\ PatternMatch(q, t).matched = AnswerOf(o, q)[t].hit
             /\ Rank(PatternMatch(q, t), t) = AnswerOf(o, q)[t].rank
  BY <1>1, AnswerFacts DEF PatternMatch, Rank
<1> QED BY <1>1, <1>2, <1>3, <1>4 DEF Cacheable, CacheKey

-----------------------------------------------------------------------------
(* The store only grows: what a snapshot or a cached bitmap describes stays. *)

Grown(st, st2) ==
    /\ Len(st) <= Len(st2)
    /\ \A id \in 1 .. Len(st) :
         /\ st2[id].first = st[id].first
         /\ Len(st[id].items) <= Len(st2[id].items)
         /\ st[id].sealed => st2[id] = st[id]
         /\ \A i \in 1 .. Len(st[id].items) : st2[id].items[i] = st[id].items[i]

LEMMA ChunkFacts ==
    ASSUME NEW st, ChunkOk(st)
    PROVE  /\ Len(st) \in Nat
           /\ \A id \in 1 .. Len(st) :
                /\ st[id] \in Chunk /\ st[id].first \in Nat /\ st[id].items \in Seq(Range(Feed))
                /\ st[id].sealed \in BOOLEAN /\ Len(st[id].items) \in Nat /\ Len(st[id].items) >= 1
                /\ \A i \in 1 .. Len(st[id].items) : st[id].items[i] \in Range(Feed)
<1>1. st \in Seq(Chunk)
  BY DEF ChunkOk
<1>2. ASSUME NEW id \in 1 .. Len(st)
      PROVE  /\ st[id] \in Chunk /\ st[id].first \in Nat /\ st[id].items \in Seq(Range(Feed))
             /\ st[id].sealed \in BOOLEAN
  <2>1. st[id] \in Chunk
    BY <1>1
  <2> QED BY <2>1 DEF Chunk
<1>3. ASSUME NEW id \in 1 .. Len(st)
      PROVE  /\ Len(st[id].items) \in Nat /\ Len(st[id].items) >= 1
             /\ \A i \in 1 .. Len(st[id].items) : st[id].items[i] \in Range(Feed)
  <2> DEFINE items == st[id].items
  <2>1. items \in Seq(Range(Feed)) /\ Len(items) >= 1
    BY <1>2 DEF ChunkOk
  <2> HIDE DEF items
  <2>2. Len(items) \in Nat /\ \A i \in 1 .. Len(items) : items[i] \in Range(Feed)
    BY <2>1
  <2> QED BY <2>1, <2>2 DEF items
<1> QED BY <1>1, <1>2, <1>3

LEMMA SnapshotFacts ==
    ASSUME NEW st, ChunkOk(st), NEW ids, NEW counts, Snapshot(st, ids, counts)
    PROVE  /\ Len(ids) \in Nat
           /\ \A c \in 1 .. Len(ids) :
                /\ ids[c] \in 1 .. Len(st) /\ counts[c] \in Nat /\ counts[c] <= Len(st[ids[c]].items)
                /\ st[ids[c]].first \in Nat
                /\ \A k \in 1 .. counts[c] :
                      k \in 1 .. Len(st[ids[c]].items) /\ st[ids[c]].items[k] \in Range(Feed)
<1>1. ids \in Seq(1 .. Len(st)) /\ counts \in Seq(Nat) /\ Len(counts) = Len(ids)
  BY DEF Snapshot
<1>2. ASSUME NEW c \in 1 .. Len(ids)
      PROVE  ids[c] \in 1 .. Len(st) /\ counts[c] \in Nat /\ counts[c] <= Len(st[ids[c]].items)
  <2>1. ids[c] \in 1 .. Len(st) /\ counts[c] \in Nat
    BY <1>1
  <2> QED BY <2>1 DEF Snapshot
<1>3. ASSUME NEW c \in 1 .. Len(ids), NEW k \in 1 .. counts[c]
      PROVE  k \in 1 .. Len(st[ids[c]].items) /\ st[ids[c]].items[k] \in Range(Feed)
  <2>1. Len(st[ids[c]].items) \in Nat
    BY <1>2, ChunkFacts
  <2>2. k \in 1 .. Len(st[ids[c]].items)
    BY <1>2, <2>1
  <2> QED BY <1>2, <2>2, ChunkFacts
<1> QED BY <1>1, <1>2, <1>3, ChunkFacts

LEMMA SnapshotGrown ==
    ASSUME NEW st, ChunkOk(st), NEW st2, ChunkOk(st2), Grown(st, st2),
           NEW ids, NEW counts, Snapshot(st, ids, counts)
    PROVE  /\ Snapshot(st2, ids, counts)
           /\ \A c \in 1 .. Len(ids) : \A k \in 1 .. counts[c] : \A a :
                /\ HitAt(st2, ids[c], k, a) = HitAt(st, ids[c], k, a)
                /\ EntryAt(st2, ids[c], k, a) = EntryAt(st, ids[c], k, a)
<1>1. \A c \in 1 .. Len(ids) :
        /\ ids[c] \in 1 .. Len(st) /\ counts[c] \in Nat /\ counts[c] <= Len(st[ids[c]].items)
        /\ \A k \in 1 .. counts[c] : k \in 1 .. Len(st[ids[c]].items)
  BY SnapshotFacts
<1>2. Len(st) \in Nat /\ Len(st2) \in Nat
  BY ChunkFacts
<1>3. ASSUME NEW c \in 1 .. Len(ids)
      PROVE  /\ ids[c] \in 1 .. Len(st2) /\ st2[ids[c]].first = st[ids[c]].first
             /\ counts[c] <= Len(st2[ids[c]].items)
             /\ \A k \in 1 .. counts[c] : st2[ids[c]].items[k] = st[ids[c]].items[k]
  <2> DEFINE id == ids[c]
  <2>1. id \in 1 .. Len(st) /\ id \in 1 .. Len(st2)
    BY <1>1, <1>2 DEF Grown
  <2>2. st2[id].first = st[id].first /\ Len(st[id].items) <= Len(st2[id].items)
        /\ \A i \in 1 .. Len(st[id].items) : st2[id].items[i] = st[id].items[i]
    BY <2>1 DEF Grown
  <2>3. Len(st2[id].items) \in Nat /\ Len(st[id].items) \in Nat
    BY <2>1, ChunkFacts
  <2> QED BY <2>1, <2>2, <2>3, <1>1
<1>4. ids \in Seq(1 .. Len(st2))
  <2>1. ids \in Seq(1 .. Len(st))
    BY DEF Snapshot
  <2>2. ids \in [1 .. Len(ids) -> 1 .. Len(st2)] /\ Len(ids) \in Nat
    BY <2>1, <1>3
  <2> QED BY <2>2
<1>5. Snapshot(st2, ids, counts)
  <2>1. Len(ids) \in Nat
    BY SnapshotFacts
  <2>2. ids # <<>> => st2[ids[1]].first = 0
    <3>1. ids # <<>> => 1 \in 1 .. Len(ids)
      BY <1>4
    <3> QED BY <3>1, <1>3 DEF Snapshot
  <2>3. \A k \in 1 .. Len(ids) - 1 : st2[ids[k + 1]].first = st2[ids[k]].first + counts[k]
    <3>1. \A k \in 1 .. Len(ids) - 1 : k \in 1 .. Len(ids) /\ k + 1 \in 1 .. Len(ids)
      BY <2>1
    <3> QED BY <3>1, <1>3 DEF Snapshot
  <2> QED BY <1>3, <1>4, <2>2, <2>3 DEF Snapshot
<1> QED BY <1>3, <1>5 DEF HitAt, EntryAt

LEMMA FoundGrown ==
    ASSUME NEW st, ChunkOk(st), NEW st2, ChunkOk(st2), Grown(st, st2),
           NEW ids, NEW counts, Snapshot(st, ids, counts),
           NEW a, NEW found, NEW n \in Nat, n <= Len(ids), FoundIn(st, ids, counts, a, found, n)
    PROVE  FoundIn(st2, ids, counts, a, found, n)
<1>1. \A c \in 1 .. n : c \in 1 .. Len(ids)
  BY SnapshotFacts
<1>2. \A c \in 1 .. n : \A k \in 1 .. counts[c] :
         /\ HitAt(st2, ids[c], k, a) = HitAt(st, ids[c], k, a)
         /\ EntryAt(st2, ids[c], k, a) = EntryAt(st, ids[c], k, a)
  <2>1. \A c \in 1 .. Len(ids) : \A k \in 1 .. counts[c] : \A b :
           /\ HitAt(st2, ids[c], k, b) = HitAt(st, ids[c], k, b)
           /\ EntryAt(st2, ids[c], k, b) = EntryAt(st, ids[c], k, b)
    BY SnapshotGrown
  <2> QED BY <1>1, <2>1
<1>3. \A i \in 1 .. Len(found) : \E c \in 1 .. n : \E k \in 1 .. counts[c] :
         HitAt(st2, ids[c], k, a) /\ found[i] = EntryAt(st2, ids[c], k, a)
  BY <1>2 DEF FoundIn
<1>4. \A c \in 1 .. n : \A k \in 1 .. counts[c] :
         HitAt(st2, ids[c], k, a) => \E i \in 1 .. Len(found) : found[i] = EntryAt(st2, ids[c], k, a)
  BY <1>2 DEF FoundIn
<1> QED BY <1>3, <1>4 DEF FoundIn

LEMMA CacheGrown ==
    ASSUME NEW st, ChunkOk(st), NEW st2, ChunkOk(st2), Grown(st, st2),
           NEW opt, NEW c, CacheOk(st, opt, c)
    PROVE  CacheOk(st2, opt, c)
<1>1. ASSUME NEW e \in c PROVE e.id \in 1 .. Len(st2) /\ st2[e.id] = st[e.id] /\ st2[e.id].sealed
  <2>1. e.id \in 1 .. Len(st) /\ st[e.id].sealed
    BY DEF CacheOk
  <2> QED BY <2>1, ChunkFacts DEF Grown
<1> QED BY <1>1 DEF CacheOk, HitsOf, HitAt

LEMMA ScanGrown ==
    ASSUME NEW st, ChunkOk(st), NEW st2, ChunkOk(st2), Grown(st, st2),
           NEW opt, NEW s, ScanOk(st, opt, s)
    PROVE  ScanOk(st2, opt, s)
<1>1. CASE s = Idle
  BY <1>1 DEF ScanOk
<1>2. CASE s # Idle
  <2> DEFINE a == AnswerOf(opt, s.query)
             ids == s.ids
             counts == s.counts
             at == s.at
             found == s.found
  <2>1. /\ s \in Scan(opt) /\ Snapshot(st, ids, counts) /\ ~BuildPattern(opt, s.query).empty
        /\ at \in 1 .. Len(ids) + 1 /\ LeftOk(st, a, s)
        /\ FoundIn(st, ids, counts, a, found, at - 1) /\ Ascending(found)
    BY <1>2 DEF ScanOk
  <2>2. Snapshot(st2, ids, counts)
    <3> HIDE DEF ids, counts
    <3> QED BY <2>1, SnapshotGrown
  <2>3. FoundIn(st2, ids, counts, a, found, at - 1)
    <3> HIDE DEF ids, counts, at, a, found
    <3> DEFINE n == at - 1
    <3>1. n \in Nat /\ n <= Len(ids)
      BY <2>1, SnapshotFacts
    <3>2. FoundIn(st, ids, counts, a, found, n)
      BY <2>1
    <3> HIDE DEF n
    <3>3. FoundIn(st2, ids, counts, a, found, n)
      BY <2>1, <3>1, <3>2, FoundGrown
    <3> QED BY <3>3 DEF n
  <2>4. LeftOk(st2, a, s)
    <3> SUFFICES ASSUME s.step = "match" PROVE LeftOk(st2, a, s)
      BY DEF LeftOk
    <3>1. at <= Len(ids) /\ 0 \notin s.left
          /\ (\A k \in 1 .. counts[at] : HitAt(st, ids[at], k, a) => k \in s.left)
          /\ (s.complete => st[ids[at]].sealed /\ counts[at] = Len(st[ids[at]].items))
      BY <2>1 DEF LeftOk
    <3> HIDE DEF ids, counts, at, a, found
    <3>2. at \in 1 .. Len(ids) /\ ids[at] \in 1 .. Len(st)
      BY <2>1, <3>1, SnapshotFacts
    <3>3. \A k \in 1 .. counts[at] : HitAt(st2, ids[at], k, a) = HitAt(st, ids[at], k, a)
      BY <2>1, <3>2, SnapshotGrown
    <3>4. st[ids[at]].sealed => st2[ids[at]] = st[ids[at]]
      BY <3>2 DEF Grown
    <3>5. /\ at <= Len(ids) /\ 0 \notin s.left
          /\ (\A k \in 1 .. counts[at] : HitAt(st2, ids[at], k, a) => k \in s.left)
          /\ (s.complete => st2[ids[at]].sealed /\ counts[at] = Len(st2[ids[at]].items))
      BY <3>1, <3>3, <3>4
    <3> QED BY <3>5 DEF LeftOk, ids, counts, at
  <2> QED BY <2>1, <2>2, <2>3, <2>4 DEF ScanOk
<1> QED BY <1>1, <1>2

LEMMA MergerGrown ==
    ASSUME NEW st, ChunkOk(st), NEW st2, ChunkOk(st2), Grown(st, st2),
           NEW opt, NEW m, MergerOk(st, opt, m)
    PROVE  MergerOk(st2, opt, m)
<1>1. CASE m = Idle
  BY <1>1 DEF MergerOk
<1>2. CASE m # Idle
  <2>1. m \in Merger(opt) /\ Snapshot(st, m.ids, m.counts)
    BY <1>2 DEF MergerOk
  <2>2. Snapshot(st2, m.ids, m.counts) /\ Len(m.ids) \in Nat
    BY <2>1, SnapshotGrown, SnapshotFacts
  <2>3. ASSUME ~m.pass
        PROVE  FoundIn(st2, m.ids, m.counts, AnswerOf(opt, m.query), m.found, Len(m.ids))
    <3> DEFINE n == Len(m.ids)
               a == AnswerOf(opt, m.query)
               ids == m.ids
               counts == m.counts
               found == m.found
    <3>1. FoundIn(st, ids, counts, a, found, n)
      BY <1>2, <2>3 DEF MergerOk
    <3>2. Snapshot(st, ids, counts) /\ n \in Nat /\ n <= Len(ids)
      BY <2>1, <2>2
    <3> HIDE DEF n, a, ids, counts, found
    <3>3. FoundIn(st2, ids, counts, a, found, n)
      BY <3>1, <3>2, FoundGrown
    <3> QED BY <3>3 DEF n, a, ids, counts, found
  <2> QED BY <1>2, <2>2, <2>3 DEF MergerOk
<1> QED BY <1>1, <1>2

-----------------------------------------------------------------------------
(* The two places where the code sorts. *)

\* The bits of a bitmap, lowest first.
LEMMA BitsInOrder ==
    ASSUME NEW n \in Nat, NEW T, T \subseteq 1 .. n
    PROVE  LET s == InOrder(T, <)
           IN  /\ s \in Seq(T)
               /\ \A x \in T : \E i \in 1 .. Len(s) : s[i] = x
               /\ \A i, j \in 1 .. Len(s) : i < j => s[i] < s[j]
<1> DEFINE R == {p \in T \X T : p[1] < p[2]}
           f == InOrder(T, <)
<1>1. IsFiniteSet(T)
  <2>1. IsFiniteSet(1 .. n)
    BY FS_Interval
  <2> QED BY <2>1, FS_Subset
<1>2. \A x, y \in T : <<x, y>> \in R <=> x < y
  OBVIOUS
<1>3. \A x \in T : x \in Int
  OBVIOUS
<1>4. \A x \in T : {y \in T : y < x} = Below(T, R, x)
  BY <1>2 DEF Below
<1> HIDE DEF R
<1>5. StrictOrder(T, R)
  BY <1>2, <1>3 DEF StrictOrder
<1>6. PICK s : Lists(s, T, R)
  BY <1>1, <1>5, ListExists
<1>7. /\ Cardinality(T) = Len(s)
      /\ \A i \in 1 .. Len(s), x \in T : Cardinality(Below(T, R, x)) = i - 1 <=> x = s[i]
  <2>1. OneWay(T, R)
    BY <1>2, <1>3 DEF OneWay
  <2> HIDE DEF f
  <2>2. Cardinality(T) = Len(s)
    BY <2>1, <1>6, ListedIs, Zenon
  <2>3. ASSUME NEW i \in 1 .. Len(s), NEW x \in T
        PROVE  Cardinality(Below(T, R, x)) = i - 1 <=> x = s[i]
    BY <2>1, <1>6, ListedAt
  <2> QED BY <2>2, <2>3
<1>8. s \in Seq(T) /\ \A i \in 1 .. Len(s) : s[i] \in T
  BY <1>6 DEF Lists
<1>9. f = [i \in 1 .. Len(s) |-> CHOOSE x \in T : Cardinality({y \in T : y < x}) = i - 1]
  BY <1>7 DEF InOrder
<1>10. ASSUME NEW i \in 1 .. Len(s) PROVE f[i] = s[i]
  <2>1. \A x \in T : Cardinality({y \in T : y < x}) = i - 1 <=> x = s[i]
    BY <1>4, <1>7
  <2>2. f[i] = CHOOSE x \in T : Cardinality({y \in T : y < x}) = i - 1
    BY <1>9
  <2> HIDE DEF f
  <2> QED BY <2>1, <2>2, <1>8
<1>11. f = s
  <2>1. s = [i \in 1 .. Len(s) |-> s[i]]
    BY <1>8
  <2>2. f = [i \in 1 .. Len(s) |-> f[i]]
    BY <1>9
  <2> HIDE DEF f
  <2> QED BY <2>1, <2>2, <1>10
<1>12. \A i, j \in 1 .. Len(s) : i < j => s[i] < s[j]
  BY <1>2, <1>6, <1>8 DEF Lists
<1>13. \A x \in T : \E i \in 1 .. Len(s) : s[i] = x
  BY <1>6 DEF Lists
<1> QED BY <1>8, <1>11, <1>12, <1>13

LEMMA PrecedesOrder ==
    ASSUME NEW opt, opt.tac \in BOOLEAN, Len(opt.criteria) \in Nat, NEW x \in Entry(opt), NEW y \in Entry(opt), NEW z \in Entry(opt)
    PROVE  /\ ~Precedes(opt, x, x)
           /\ Precedes(opt, x, y) => ~Precedes(opt, y, x)
           /\ Precedes(opt, x, y) /\ Precedes(opt, y, z) => Precedes(opt, x, z)
           /\ x.index # y.index => Precedes(opt, x, y) \/ Precedes(opt, y, x)
<1> DEFINE n == Len(opt.criteria)
           rx == x.rank
           ry == y.rank
           rz == z.rank
<1>1. /\ rx \in [1 .. n -> Int] /\ ry \in [1 .. n -> Int] /\ rz \in [1 .. n -> Int]
      /\ x.index \in Int /\ y.index \in Int /\ z.index \in Int
  BY DEF Entry
<1> HIDE DEF rx, ry, rz, n
<1>2. /\ ~RankLess(rx, rx) /\ ~RankLess(ry, ry)
      /\ (RankLess(rx, ry) /\ RankLess(ry, rz) => RankLess(rx, rz))
      /\ (RankLess(rx, ry) /\ RankLess(ry, rx) => RankLess(rx, rx))
      /\ (rx = ry \/ RankLess(rx, ry) \/ RankLess(ry, rx))
  BY <1>1, RankOrder DEF n
<1> QED BY <1>1, <1>2 DEF Precedes, rx, ry, rz

LEMMA ResultsInOrder ==
    ASSUME o \in Settings, NEW rs, rs \in Seq(Entry(o)), Ascending(rs)
    PROVE  LET s == SortResults(rs)
           IN  /\ s \in Seq(Entry(o)) /\ Sorted(o, s)
               /\ \A i \in 1 .. Len(s) : \E j \in 1 .. Len(rs) : s[i] = rs[j]
               /\ \A j \in 1 .. Len(rs) : \E i \in 1 .. Len(s) : s[i] = rs[j]
<1> DEFINE T == Range(rs)
           R == {p \in T \X T : Precedes(o, p[1], p[2])}
           f == SortResults(rs)
<1>1. T = {rs[i] : i \in 1 .. Len(rs)} /\ Len(rs) \in Nat
  BY DEF Range
<1>2. IsFiniteSet(T)
  <2>1. IsFiniteSet(1 .. Len(rs))
    BY <1>1, FS_Interval
  <2> DEFINE g == [i \in 1 .. Len(rs) |-> rs[i]]
  <2>2. g \in Surjection(1 .. Len(rs), T)
    <3>1. g \in [1 .. Len(rs) -> T] /\ \A t \in T : \E i \in 1 .. Len(rs) : g[i] = t
      BY <1>1
    <3> HIDE DEF g, T
    <3> QED BY <3>1 DEF Surjection
  <2> HIDE DEF g, T
  <2> QED BY <2>1, <2>2, FS_Surjection
<1>3. \A x, y \in T : <<x, y>> \in R <=> Precedes(o, x, y)
  OBVIOUS
<1>4. T \subseteq Entry(o)
  BY <1>1
<1>5. \A x, y \in T : x = y \/ x.index # y.index
  <2>1. ASSUME NEW i \in 1 .. Len(rs), NEW j \in 1 .. Len(rs), i # j
        PROVE  rs[i].index # rs[j].index
    <3>1. rs[i].index \in Int /\ rs[j].index \in Int
      <4>1. rs[i] \in Entry(o) /\ rs[j] \in Entry(o)
        OBVIOUS
      <4> QED BY <4>1 DEF Entry
    <3>2. i < j \/ j < i
      BY <2>1
    <3> QED BY <3>1, <3>2 DEF Ascending
  <2> QED BY <1>1, <2>1
<1> HIDE DEF T, R
<1>6. o.tac \in BOOLEAN /\ Len(o.criteria) \in Nat
  BY OptionFacts
<1>7. /\ \A x \in T : ~Precedes(o, x, x)
      /\ \A x, y \in T : Precedes(o, x, y) => ~Precedes(o, y, x)
      /\ \A x, y, z \in T : Precedes(o, x, y) /\ Precedes(o, y, z) => Precedes(o, x, z)
      /\ \A x, y \in T : x = y \/ Precedes(o, x, y) \/ Precedes(o, y, x)
  BY <1>4, <1>5, <1>6, PrecedesOrder
<1>8. StrictOrder(T, R) /\ OneWay(T, R)
  BY <1>3, <1>7 DEF StrictOrder, OneWay
<1>9. PICK s : Lists(s, T, R)
  BY <1>2, <1>8, ListExists
<1>10. /\ Cardinality(T) = Len(s)
       /\ \A i \in 1 .. Len(s), x \in T : Cardinality(Below(T, R, x)) = i - 1 <=> x = s[i]
  BY <1>8, <1>9, ListedIs
<1>11. s \in Seq(T) /\ \A i \in 1 .. Len(s) : s[i] \in T
  BY <1>9 DEF Lists
<1> DEFINE Before(x) == {y \in T : RankLess(y.rank, x.rank)
                \/ (y.rank = x.rank /\ IF o.tac THEN y.index > x.index ELSE y.index < x.index)}
<1>12. f = [i \in 1 .. Len(s) |-> CHOOSE x \in T : Cardinality(Before(x)) = i - 1]
  BY <1>10 DEF SortResults, InOrder, T
<1>13. \A x \in T : Before(x) = Below(T, R, x)
  BY <1>3 DEF Below, Precedes
<1> HIDE DEF Before, f
<1>14. ASSUME NEW i \in 1 .. Len(s) PROVE f[i] = s[i]
  <2>1. \A x \in T : Cardinality(Before(x)) = i - 1 <=> x = s[i]
    BY <1>13, <1>10
  <2>2. f[i] = CHOOSE x \in T : Cardinality(Before(x)) = i - 1
    BY <1>12
  <2> QED BY <2>1, <2>2, <1>11
<1>15. f = s
  <2>1. s = [i \in 1 .. Len(s) |-> s[i]]
    BY <1>11
  <2>2. f = [i \in 1 .. Len(s) |-> f[i]]
    BY <1>12
  <2> QED BY <2>1, <2>2, <1>14
<1>16. s \in Seq(Entry(o))
  BY <1>4, <1>11
<1>17. Sorted(o, s)
  BY <1>3, <1>9, <1>11 DEF Lists, Sorted
<1>18. /\ \A i \in 1 .. Len(s) : \E j \in 1 .. Len(rs) : s[i] = rs[j]
       /\ \A j \in 1 .. Len(rs) : \E i \in 1 .. Len(s) : s[i] = rs[j]
  BY <1>1, <1>9, <1>11 DEF Lists
<1> QED BY <1>15, <1>16, <1>17, <1>18 DEF f

-----------------------------------------------------------------------------
(* What the reader does to the store. *)

LEMMA GrownTransitive ==
    ASSUME NEW st, ChunkOk(st), NEW st1, ChunkOk(st1), NEW st2, ChunkOk(st2),
           Grown(st, st1), Grown(st1, st2)
    PROVE  Grown(st, st2)
<1>1. Len(st) \in Nat /\ Len(st1) \in Nat /\ Len(st2) \in Nat /\ Len(st) <= Len(st1) /\ Len(st1) <= Len(st2)
  BY ChunkFacts DEF Grown
<1>2. ASSUME NEW id \in 1 .. Len(st)
      PROVE  /\ st2[id].first = st[id].first
             /\ Len(st[id].items) <= Len(st2[id].items)
             /\ st[id].sealed => st2[id] = st[id]
             /\ \A i \in 1 .. Len(st[id].items) : st2[id].items[i] = st[id].items[i]
  <2>1. id \in 1 .. Len(st1) /\ id \in 1 .. Len(st2)
    BY <1>1
  <2> DEFINE a == st[id].items
             b == st1[id].items
             c == st2[id].items
  <2>2. Len(a) \in Nat /\ Len(b) \in Nat /\ Len(c) \in Nat
    BY <2>1, ChunkFacts
  <2>3. /\ st1[id].first = st[id].first /\ st2[id].first = st1[id].first
        /\ Len(a) <= Len(b) /\ Len(b) <= Len(c)
        /\ \A i \in 1 .. Len(a) : b[i] = a[i]
        /\ \A i \in 1 .. Len(b) : c[i] = b[i]
    BY <2>1, Zenon DEF Grown
  <2>4. st[id].sealed => st2[id] = st[id]
    BY <2>1, Zenon DEF Grown
  <2> HIDE DEF a, b, c
  <2>5. Len(a) <= Len(c) /\ \A i \in 1 .. Len(a) : c[i] = a[i]
    BY <2>2, <2>3
  <2> QED BY <2>3, <2>4, <2>5 DEF a, c
<1>3. Len(st) <= Len(st2)
  BY <1>1
<1> QED BY <1>2, <1>3 DEF Grown

LEMMA ListedFacts ==
    ASSUME NEW st, ChunkOk(st), NEW l, NEW n, NEW done, Listed(st, l, n, done)
    PROVE  /\ Len(l) \in Nat /\ (l # <<>> => Len(l) \in 1 .. Len(l) /\ Last(l) = l[Len(l)])
           /\ \A k \in 1 .. Len(l) :
                /\ l[k] \in 1 .. Len(st) /\ st[l[k]].first \in Nat /\ EndOf(st, l[k]) \in Nat
                /\ EndOf(st, l[k]) = st[l[k]].first + Len(st[l[k]].items)
                /\ k < Len(l) => st[l[k]].sealed
<1>1. l \in Seq(1 .. Len(st)) /\ Len(l) \in Nat
  BY DEF Listed
<1>2. l # <<>> => Len(l) \in 1 .. Len(l) /\ Last(l) = l[Len(l)]
  BY <1>1 DEF Last
<1>3. ASSUME NEW k \in 1 .. Len(l)
      PROVE  /\ l[k] \in 1 .. Len(st) /\ st[l[k]].first \in Nat /\ Len(st[l[k]].items) \in Nat
             /\ k < Len(l) => st[l[k]].sealed
  <2>1. l[k] \in 1 .. Len(st)
    BY <1>1
  <2>2. k < Len(l) => k \in 1 .. Len(l) - 1
    BY <1>1
  <2> QED BY <2>1, <2>2, ChunkFacts DEF Listed
<1> QED BY <1>1, <1>2, <1>3 DEF EndOf

LEMMA ChunkReplaced ==
    ASSUME NEW st, st \in Seq(Chunk), NEW x \in 1 .. Len(st), NEW w \in Chunk
    PROVE  LET st2 == [st EXCEPT ![x] = w]
           IN  /\ Len(st2) = Len(st) /\ st2 \in Seq(Chunk)
               /\ st2[x] = w /\ \A id \in 1 .. Len(st) : id # x => st2[id] = st[id]
<1> DEFINE st2 == [st EXCEPT ![x] = w]
<1>1. st \in [1 .. Len(st) -> Chunk] /\ Len(st) \in Nat
  OBVIOUS
<1>2. st2 \in [1 .. Len(st) -> Chunk] /\ st2[x] = w /\ \A id \in 1 .. Len(st) : id # x => st2[id] = st[id]
  BY <1>1
<1> HIDE DEF st2
<1>3. st2 \in Seq(Chunk) /\ Len(st2) = Len(st)
  BY <1>1, <1>2
<1> QED BY <1>2, <1>3 DEF st2

\* The last chunk is sealed.
LEMMA Sealing ==
    ASSUME NEW st, ChunkOk(st), NEW l, NEW n, Listed(st, l, n, FALSE),
           NEW st2, st2 = IF l = <<>> THEN st ELSE [st EXCEPT ![Last(l)].sealed = TRUE]
    PROVE  /\ ChunkOk(st2) /\ Grown(st, st2) /\ Listed(st2, l, n, TRUE)
           /\ \A k \in 1 .. Len(l) : st2[l[k]].sealed
<1>1. CASE l = <<>>
  <2>1. Grown(st, st)
    <3>1. \A id \in 1 .. Len(st) : Len(st[id].items) \in Nat
      BY ChunkFacts
    <3>2. Len(st) \in Nat
      BY ChunkFacts
    <3> QED BY <3>1, <3>2 DEF Grown
  <2>2. Listed(st, l, n, TRUE)
    BY <1>1 DEF Listed
  <2>3. st2 = st /\ \A k \in 1 .. Len(l) : st2[l[k]].sealed
    <3>1. Len(l) = 0
      BY <1>1
    <3> QED BY <1>1, <3>1
  <2> QED BY <2>1, <2>2, <2>3
<1>2. CASE l # <<>>
  <2> DEFINE x == l[Len(l)]
  <2>1. x \in 1 .. Len(st) /\ st2 = [st EXCEPT ![x].sealed = TRUE] /\ ~st[x].sealed
    BY <1>2, ListedFacts DEF Listed
  <2>2. st \in Seq(Chunk) /\ Len(st) \in Nat /\ st[x] \in Chunk
    BY <2>1, ChunkFacts DEF ChunkOk
  <2> HIDE DEF x
  <2> DEFINE w == [st[x] EXCEPT !.sealed = TRUE]
  <2>w. w.first = st[x].first /\ w.items = st[x].items /\ w.sealed /\ w \in Chunk
    BY <2>2 DEF Chunk
  <2>u. st2 = [st EXCEPT ![x] = w]
    BY <2>1
  <2> HIDE DEF w
  <2>c. /\ Len(st2) = Len(st) /\ st2 \in Seq(Chunk)
        /\ st2[x] = w /\ \A id \in 1 .. Len(st) : id # x => st2[id] = st[id]
    <3>1. x \in 1 .. Len(st) /\ st \in Seq(Chunk) /\ w \in Chunk
      BY <2>1, <2>2, <2>w
    <3> DEFINE f == [st EXCEPT ![x] = w]
    <3>2. /\ Len(f) = Len(st) /\ f \in Seq(Chunk)
        /\ f[x] = w /\ \A id \in 1 .. Len(st) : id # x => f[id] = st[id]
      BY <3>1, ChunkReplaced
    <3>3. st2 = f
      BY <2>u
    <3> HIDE DEF f
    <3> QED BY <3>2, <3>3
  <2>3. Len(st2) = Len(st) /\ st2 \in Seq(Chunk)
    BY <2>c
  <2>4. \A id \in 1 .. Len(st) : id # x => st2[id] = st[id]
    BY <2>c
  <2>5. st2[x] = w
    BY <2>c
  <2>6. st2[x].first = st[x].first /\ st2[x].items = st[x].items /\ st2[x].sealed /\ st2[x] \in Chunk
    BY <2>5, <2>w
  <2>7. st2 \in Seq(Chunk)
    BY <2>3
  <2>8. \A id \in 1 .. Len(st) : st2[id].first = st[id].first /\ st2[id].items = st[id].items /\ EndOf(st2, id) = EndOf(st, id)
                                /\ (st[id].sealed => st2[id] = st[id] /\ st2[id].sealed)
    BY <2>1, <2>4, <2>6 DEF EndOf
  <2>9. ChunkOk(st2)
    BY <2>3, <2>7, <2>8 DEF ChunkOk
  <2>10. Grown(st, st2)
    <3>1. \A id \in 1 .. Len(st) : Len(st[id].items) \in Nat
      BY ChunkFacts
    <3> QED BY <2>2, <2>3, <2>8, <3>1 DEF Grown
  <2>11. \A k \in 1 .. Len(l) : l[k] \in 1 .. Len(st) /\ st2[l[k]].sealed
    <3>1. ASSUME NEW k \in 1 .. Len(l) PROVE l[k] \in 1 .. Len(st) /\ st2[l[k]].sealed
      <4>1. l[k] \in 1 .. Len(st) /\ (k < Len(l) => st[l[k]].sealed) /\ Len(l) \in Nat
        BY ListedFacts
      <4>2. k < Len(l) \/ l[k] = x
        BY <4>1 DEF x
      <4> QED BY <4>1, <4>2, <2>6, <2>8
    <3> QED BY <3>1
  <2>12. Listed(st2, l, n, TRUE)
    <3>1. l \in Seq(1 .. Len(st2)) /\ n \in Nat
      BY <2>3 DEF Listed
    <3>2. 1 \in 1 .. Len(l) /\ Len(l) \in 1 .. Len(l) /\ \A k \in 1 .. Len(l) - 1 : k \in 1 .. Len(l) /\ k + 1 \in 1 .. Len(l)
      BY <1>2, ListedFacts
    <3>3. st2[l[1]].first = 0 /\ EndOf(st2, l[Len(l)]) = n
      BY <1>2, <3>2, <2>8, <2>11 DEF Listed
    <3>4. \A k \in 1 .. Len(l) - 1 : st2[l[k]].sealed /\ st2[l[k + 1]].first = EndOf(st2, l[k])
      BY <3>2, <2>8, <2>11 DEF Listed
    <3>5. \A j, k \in 1 .. Len(l) : j < k => EndOf(st2, l[j]) <= st2[l[k]].first
      BY <2>8, <2>11 DEF Listed
    <3> QED BY <1>2, <3>1, <3>3, <3>4, <3>5 DEF Listed
  <2> QED BY <2>9, <2>10, <2>11, <2>12
<1> QED BY <1>1, <1>2

\* A line is appended to the last chunk.
LEMMA Appending ==
    ASSUME NEW st, ChunkOk(st), NEW l, NEW n, Listed(st, l, n, FALSE), l # <<>>, NEW line \in Range(Feed),
           NEW st2, st2 = [st EXCEPT ![Last(l)].items = Append(@, line)]
    PROVE  ChunkOk(st2) /\ Grown(st, st2) /\ Listed(st2, l, n + 1, FALSE)
<1> DEFINE x == l[Len(l)]
           is == st[x].items
<1>1. x \in 1 .. Len(st) /\ st2 = [st EXCEPT ![x].items = Append(is, line)] /\ ~st[x].sealed
  BY ListedFacts DEF Listed
<1>2. st \in Seq(Chunk) /\ Len(st) \in Nat /\ st[x] \in Chunk /\ is \in Seq(Range(Feed)) /\ Len(is) \in Nat
  BY <1>1, ChunkFacts DEF ChunkOk
<1> HIDE DEF x
<1>5. /\ Append(is, line) \in Seq(Range(Feed)) /\ Len(Append(is, line)) = Len(is) + 1
      /\ \A i \in 1 .. Len(is) : Append(is, line)[i] = is[i]
  <2> HIDE DEF is
  <2> QED BY <1>2
<1> DEFINE more == Append(is, line)
           w    == [st[x] EXCEPT !.items = more]
<1>u. st2 = [st EXCEPT ![x] = w]
  BY <1>1
<1>w. w.first = st[x].first /\ w.items = more /\ w.sealed = st[x].sealed /\ w \in Chunk
  <2>1. more \in Seq(Range(Feed))
    BY <1>5
  <2> HIDE DEF more
  <2> QED BY <2>1, <1>2 DEF Chunk
<1> HIDE DEF w
<1>c. /\ Len(st2) = Len(st) /\ st2 \in Seq(Chunk)
      /\ st2[x] = w /\ \A id \in 1 .. Len(st) : id # x => st2[id] = st[id]
  <2>1. x \in 1 .. Len(st) /\ st \in Seq(Chunk) /\ w \in Chunk
    BY <1>1, <1>2, <1>w
  <2> DEFINE f == [st EXCEPT ![x] = w]
  <2>2. /\ Len(f) = Len(st) /\ f \in Seq(Chunk)
      /\ f[x] = w /\ \A id \in 1 .. Len(st) : id # x => f[id] = st[id]
    BY <2>1, ChunkReplaced
  <2>3. st2 = f
    BY <1>u
  <2> HIDE DEF f
  <2> QED BY <2>2, <2>3
<1>3. Len(st2) = Len(st) /\ st2 \in Seq(Chunk)
  BY <1>c
<1>4. \A id \in 1 .. Len(st) : id # x => st2[id] = st[id]
  BY <1>c
<1>6. /\ st2[x].first = st[x].first /\ st2[x].items = Append(is, line) /\ st2[x].sealed = st[x].sealed
      /\ st2[x] \in Chunk
  <2>1. st2[x] = w
    BY <1>c
  <2> QED BY <2>1, <1>w
<1>7. st2 \in Seq(Chunk)
  BY <1>3
<1>8. ChunkOk(st2)
  <2>1. ASSUME NEW id \in 1 .. Len(st) PROVE Len(st2[id].items) >= 1
    <3>1. CASE id = x
      BY <3>1, <1>2, <1>5, <1>6
    <3>2. CASE id # x
      BY <3>2, <1>4, ChunkFacts
    <3> QED BY <3>1, <3>2
  <2> QED BY <1>3, <1>7, <2>1 DEF ChunkOk
<1>9. Grown(st, st2)
  <2>1. ASSUME NEW id \in 1 .. Len(st)
        PROVE  /\ st2[id].first = st[id].first
               /\ Len(st[id].items) <= Len(st2[id].items)
               /\ st[id].sealed => st2[id] = st[id]
               /\ \A i \in 1 .. Len(st[id].items) : st2[id].items[i] = st[id].items[i]
    <3>1. CASE id = x
      BY <3>1, <1>1, <1>2, <1>5, <1>6
    <3>2. CASE id # x
      BY <3>2, <1>4, ChunkFacts
    <3> QED BY <3>1, <3>2
  <2> QED BY <1>2, <1>3, <2>1 DEF Grown
<1>10. n \in Nat /\ EndOf(st2, x) = n + 1 /\ EndOf(st, x) = n
  <2>1. n \in Nat /\ EndOf(st, x) = n
    BY DEF Listed, x
  <2>2. st[x].first \in Nat /\ EndOf(st, x) = st[x].first + Len(is) /\ EndOf(st2, x) = st[x].first + Len(Append(is, line))
    BY <1>1, <1>6, ChunkFacts DEF EndOf
  <2> DEFINE L == Len(is)
             L2 == Len(Append(is, line))
             f == st[x].first
  <2>3. L \in Nat /\ L2 = L + 1 /\ f \in Nat /\ n \in Nat /\ f + L = n
    BY <2>1, <2>2, <1>2, <1>5
  <2>4. EndOf(st2, x) = f + L2
    BY <2>2
  <2> HIDE DEF L, L2, f
  <2>5. f + L2 = n + 1
    BY <2>3
  <2> QED BY <2>1, <2>4, <2>5
<1>11. ASSUME NEW k \in 1 .. Len(l)
       PROVE  /\ l[k] \in 1 .. Len(st) /\ st2[l[k]].first = st[l[k]].first /\ st2[l[k]].sealed = st[l[k]].sealed
              /\ k < Len(l) => EndOf(st2, l[k]) = EndOf(st, l[k])
  <2>1. l[k] \in 1 .. Len(st) /\ (k < Len(l) => st[l[k]].sealed)
    BY ListedFacts
  <2> QED BY <2>1, <1>1, <1>4, <1>6 DEF EndOf
<1>12. Listed(st2, l, n + 1, FALSE)
  <2>1. l \in Seq(1 .. Len(st2)) /\ n + 1 \in Nat
    BY <1>3, <1>10 DEF Listed
  <2>2. 1 \in 1 .. Len(l) /\ Len(l) \in 1 .. Len(l) /\ Len(l) \in Nat
        /\ \A k \in 1 .. Len(l) - 1 : k \in 1 .. Len(l) /\ k + 1 \in 1 .. Len(l) /\ k < Len(l)
    BY ListedFacts
  <2>3. st2[l[1]].first = 0 /\ EndOf(st2, l[Len(l)]) = n + 1 /\ ~st2[l[Len(l)]].sealed
    BY <2>2, <1>10, <1>11 DEF Listed, x
  <2>4. \A k \in 1 .. Len(l) - 1 : st2[l[k]].sealed /\ st2[l[k + 1]].first = EndOf(st2, l[k])
    BY <2>2, <1>11 DEF Listed
  <2>5. \A j, k \in 1 .. Len(l) : j < k => EndOf(st2, l[j]) <= st2[l[k]].first
    <3>1. \A j, k \in 1 .. Len(l) : j < k => j < Len(l)
      BY <2>2
    <3> QED BY <3>1, <1>11 DEF Listed
  <2> QED BY <2>1, <2>3, <2>4, <2>5 DEF Listed
<1> QED BY <1>8, <1>9, <1>12

\* A new chunk is put at the end of a list of sealed ones.
LEMMA Starting ==
    ASSUME NEW st, ChunkOk(st), NEW l, NEW n, Listed(st, l, n, TRUE), \A k \in 1 .. Len(l) : st[l[k]].sealed,
           NEW line \in Range(Feed),
           NEW st2, st2 = Append(st, [first |-> n, items |-> <<line>>, sealed |-> FALSE])
    PROVE  ChunkOk(st2) /\ Grown(st, st2) /\ Listed(st2, Append(l, Len(st2)), n + 1, FALSE)
<1> DEFINE new == [first |-> n, items |-> <<line>>, sealed |-> FALSE]
           l2  == Append(l, Len(st2))
<1>1. st \in Seq(Chunk) /\ Len(st) \in Nat /\ n \in Nat /\ l \in Seq(1 .. Len(st)) /\ Len(l) \in Nat
  BY ChunkFacts DEF ChunkOk, Listed
<1>2. new \in Chunk /\ Len(new.items) = 1 /\ new.first = n /\ ~new.sealed
  <2>1. <<line>> \in Seq(Range(Feed)) /\ Len(<<line>>) = 1
    OBVIOUS
  <2> QED BY <1>1, <2>1 DEF Chunk
<1> HIDE DEF new
<1>3. /\ st2 \in Seq(Chunk) /\ Len(st2) = Len(st) + 1
      /\ st2[Len(st2)] = new /\ \A id \in 1 .. Len(st) : st2[id] = st[id]
  BY <1>1, <1>2 DEF new
<1>4. ChunkOk(st2)
  <2>1. ASSUME NEW id \in 1 .. Len(st2) PROVE Len(st2[id].items) >= 1
    <3>1. id \in 1 .. Len(st) \/ id = Len(st2)
      BY <1>1, <1>3
    <3> QED BY <3>1, <1>2, <1>3, ChunkFacts
  <2> QED BY <1>3, <2>1 DEF ChunkOk
<1>5. Grown(st, st2)
  <2>1. \A id \in 1 .. Len(st) : Len(st[id].items) \in Nat
    BY ChunkFacts
  <2> QED BY <1>1, <1>3, <2>1 DEF Grown
<1>6. /\ l2 \in Seq(1 .. Len(st2)) /\ Len(l2) = Len(l) + 1
      /\ l2[Len(l2)] = Len(st2) /\ \A k \in 1 .. Len(l) : l2[k] = l[k] /\ l[k] \in 1 .. Len(st)
  <2>1. Len(st2) \in 1 .. Len(st2)
    BY <1>1, <1>3
  <2>2. 1 .. Len(st) \subseteq 1 .. Len(st2)
    BY <1>1, <1>3
  <2>3. l \in Seq(1 .. Len(st2))
    BY <1>1, <2>2
  <2> QED BY <1>1, <2>1, <2>3
<1> HIDE DEF l2
<1>7. /\ EndOf(st2, Len(st2)) = n + 1 /\ st2[Len(st2)].first = n /\ ~st2[Len(st2)].sealed
      /\ \A id \in 1 .. Len(st) : EndOf(st2, id) = EndOf(st, id)
  BY <1>2, <1>3 DEF EndOf
<1>8. \A k \in 1 .. Len(l) : EndOf(st, l[k]) \in Nat /\ EndOf(st, l[k]) <= n
  <2>1. ASSUME NEW k \in 1 .. Len(l) PROVE EndOf(st, l[k]) \in Nat /\ EndOf(st, l[k]) <= n
    <3>1. /\ EndOf(st, l[k]) \in Nat /\ l # <<>> /\ Len(l) \in 1 .. Len(l)
          /\ st[l[Len(l)]].first \in Nat /\ Len(st[l[Len(l)]].items) \in Nat
      <4>1. l # <<>> /\ Len(l) \in 1 .. Len(l)
        BY <1>1
      <4>2. EndOf(st, l[k]) \in Nat /\ l[Len(l)] \in 1 .. Len(st)
        BY <4>1, ListedFacts
      <4> QED BY <4>1, <4>2, ChunkFacts
    <3>2. EndOf(st, l[Len(l)]) = n
      BY <3>1 DEF Listed
    <3>3. CASE k = Len(l)
      BY <3>1, <3>2, <3>3, <1>1
    <3>4. CASE k # Len(l)
      <4>1. EndOf(st, l[k]) <= st[l[Len(l)]].first
        BY <3>1, <3>4, <1>1 DEF Listed
      <4>2. n = st[l[Len(l)]].first + Len(st[l[Len(l)]].items)
        BY <3>2 DEF EndOf
      <4> QED BY <4>1, <4>2, <3>1
    <3> QED BY <3>3, <3>4
  <2> QED BY <2>1
<1>9. Listed(st2, l2, n + 1, FALSE)
  <2>1. n + 1 \in Nat /\ l2 # <<>> /\ Len(l2) \in Nat
    BY <1>1, <1>6
  <2>2. st2[l2[1]].first = 0
    <3>1. CASE l = <<>>
      <4>1. n = 0 /\ Len(l2) = 1
        BY <3>1, <1>6 DEF Listed
      <4> QED BY <4>1, <1>6, <1>7
    <3>2. CASE l # <<>>
      <4>1. 1 \in 1 .. Len(l) /\ st[l[1]].first = 0
        BY <3>2, <1>1 DEF Listed
      <4> QED BY <4>1, <1>3, <1>6
    <3> QED BY <3>1, <3>2
  <2>3. EndOf(st2, l2[Len(l2)]) = n + 1 /\ ~st2[l2[Len(l2)]].sealed
    BY <1>6, <1>7
  <2>4. ASSUME NEW k \in 1 .. Len(l2) - 1 PROVE st2[l2[k]].sealed /\ st2[l2[k + 1]].first = EndOf(st2, l2[k])
    <3>1. k \in 1 .. Len(l) /\ l2[k] = l[k] /\ st2[l2[k]].sealed /\ EndOf(st2, l2[k]) = EndOf(st, l[k])
      <4>1. k \in 1 .. Len(l)
        BY <1>1, <1>6
      <4>2. l2[k] = l[k] /\ l[k] \in 1 .. Len(st)
        BY <4>1, <1>6
      <4> QED BY <4>1, <4>2, <1>3, <1>7
    <3>2. CASE k = Len(l)
      <4>1. l2[k + 1] = Len(st2) /\ st2[l2[k + 1]].first = n
        BY <3>2, <1>6, <1>7
      <4>2. EndOf(st, l[k]) = n
        BY <3>1, <3>2, ListedFacts DEF Listed
      <4> QED BY <3>1, <4>1, <4>2
    <3>3. CASE k # Len(l)
      <4>1. k \in 1 .. Len(l) - 1 /\ k + 1 \in 1 .. Len(l)
        BY <3>1, <3>3, <1>1
      <4>2. l2[k + 1] = l[k + 1] /\ st2[l2[k + 1]].first = st[l[k + 1]].first
        BY <4>1, <1>3, <1>6
      <4> QED BY <3>1, <4>1, <4>2 DEF Listed
    <3> QED BY <3>2, <3>3
  <2>5. ASSUME NEW j \in 1 .. Len(l2), NEW k \in 1 .. Len(l2), j < k PROVE EndOf(st2, l2[j]) <= st2[l2[k]].first
    <3>1. j \in 1 .. Len(l) /\ EndOf(st2, l2[j]) = EndOf(st, l[j])
      <4>1. j \in 1 .. Len(l)
        BY <2>5, <1>1, <1>6
      <4>2. l2[j] = l[j] /\ l[j] \in 1 .. Len(st)
        BY <4>1, <1>6
      <4> QED BY <4>1, <4>2, <1>7
    <3>2. CASE k = Len(l2)
      BY <3>1, <3>2, <1>6, <1>7, <1>8
    <3>3. CASE k # Len(l2)
      <4>1. k \in 1 .. Len(l)
        BY <3>3, <1>1, <1>6
      <4>2. l2[k] = l[k] /\ l[k] \in 1 .. Len(st)
        BY <4>1, <1>6
      <4>3. st2[l2[k]].first = st[l[k]].first
        BY <4>2, <1>3
      <4> QED BY <4>3,  <2>5, <3>1, <4>1 DEF Listed
    <3> QED BY <3>2, <3>3
  <2> QED BY <1>6, <2>1, <2>2, <2>3, <2>4, <2>5 DEF Listed
<1> QED BY <1>4, <1>5, <1>9 DEF l2

-----------------------------------------------------------------------------
(* The steps. *)

LEMMA EmptyList ==
    ASSUME NEW st
    PROVE  Listed(st, <<>>, 0, FALSE)
<1>1. <<>> \in Seq(1 .. Len(st)) /\ 1 .. 0 = {} /\ 1 .. 0 - 1 = {}
  OBVIOUS
<1>2. Len(<<>>) = 0
  OBVIOUS
<1> DEFINE l == <<>>
<1>3. 1 .. Len(l) = {} /\ 1 .. Len(l) - 1 = {} /\ l = <<>> /\ l \in Seq(1 .. Len(st))
  BY <1>1, <1>2
<1> HIDE DEF l
<1>4. Listed(st, l, 0, FALSE)
  BY <1>3 DEF Listed
<1> QED BY <1>4 DEF l

LEMMA InitInv ==
    ASSUME Init
    PROVE  SearchInv
<1>1. Fixed
  BY DEF Init, Fixed
<1>2. ChunkOk(store)
  <2>1. store = <<>> /\ <<>> \in Seq(Chunk) /\ Len(<<>>) = 0
    BY DEF Init
  <2> QED BY <2>1 DEF ChunkOk
<1>3. Listed(store, list, fed, finished)
  BY EmptyList DEF Init
<1>4. CacheInv /\ ScanInv /\ MergerInv
  BY DEF Init, CacheInv, CacheOk, ScanInv, ScanOk, MergerInv, MergerOk
<1> QED BY <1>1, <1>2, <1>3, <1>4 DEF SearchInv, StoreInv

\* A step that only lets the store grow.
LEMMA KeptWhileGrowing ==
    ASSUME SearchInv, UNCHANGED <<o, patterns, cache, scan, merger>>,
           ChunkOk(store'), Grown(store, store')
    PROVE  Fixed' /\ CacheInv' /\ ScanInv' /\ MergerInv'
<1>1. ChunkOk(store) /\ CacheOk(store, o, cache) /\ ScanOk(store, o, scan) /\ MergerOk(store, o, merger)
  BY DEF SearchInv, StoreInv, CacheInv, ScanInv, MergerInv
<1>2. CacheOk(store', o, cache) /\ ScanOk(store', o, scan) /\ MergerOk(store', o, merger)
  BY <1>1, CacheGrown, ScanGrown, MergerGrown
<1>3. Fixed'
  BY DEF SearchInv, Fixed
<1> QED BY <1>2, <1>3 DEF CacheInv, ScanInv, MergerInv

LEMMA ReadInv ==
    ASSUME SearchInv, Read
    PROVE  SearchInv'
<1> DEFINE line == Feed[fed + 1]
           open == list # <<>> /\ ~Full(Last(list))
<1>1. ChunkOk(store) /\ Listed(store, list, fed, FALSE) /\ fed \in Nat /\ fed < Len(Feed)
  BY DEF SearchInv, StoreInv, Read, Listed
<1>2. line \in Range(Feed)
  <2>1. o \in Settings
    BY DEF SearchInv, Fixed
  <2>2. Feed \in Seq(Range(Feed))
    BY <2>1, OptionFacts
  <2>3. fed + 1 \in 1 .. Len(Feed)
    BY <1>1, <2>2
  <2> QED BY <2>2, <2>3
<1>3. fed' = fed + 1 /\ finished' = FALSE
  BY DEF SearchInv, StoreInv, Listed, Read
<1>6. ChunkOk(store') /\ Grown(store, store') /\ Listed(store', list', fed + 1, FALSE)
  <2> HIDE DEF open
  <2>1. CASE open
    <3>1. store' = [store EXCEPT ![Last(list)].items = Append(@, line)] /\ list' = list /\ list # <<>>
      BY <2>1 DEF Read, open
    <3> HIDE DEF line
    <3> QED BY <1>1, <1>2, <3>1, Appending
  <2>2. CASE ~open
    <3> DEFINE st == SealedTail
    <3>1. store' = Append(st, [first |-> fed, items |-> <<line>>, sealed |-> FALSE]) /\ list' = Append(list, Len(store'))
      BY <2>2 DEF Read, open
    <3> HIDE DEF line
    <3>2. st = IF list = <<>> THEN store ELSE [store EXCEPT ![Last(list)].sealed = TRUE]
      BY DEF SealedTail
    <3> HIDE DEF st
    <3>3. /\ ChunkOk(st) /\ Grown(store, st) /\ Listed(st, list, fed, TRUE)
          /\ \A k \in 1 .. Len(list) : st[list[k]].sealed
      BY <1>1, <3>2, Sealing
    <3>4. ChunkOk(store') /\ Grown(st, store') /\ Listed(store', Append(list, Len(store')), fed + 1, FALSE)
      BY <1>2, <3>1, <3>3, Starting
    <3> QED BY <1>1, <3>1, <3>3, <3>4, GrownTransitive
  <2> QED BY <2>1, <2>2
<1>7. UNCHANGED <<o, patterns, cache, scan, merger>>
  BY DEF Read
<1> QED BY <1>3, <1>6, <1>7, KeptWhileGrowing DEF SearchInv, StoreInv

LEMMA FinishInv ==
    ASSUME SearchInv, Finish
    PROVE  SearchInv'
<1>1. ChunkOk(store) /\ Listed(store, list, fed, FALSE)
  BY DEF SearchInv, StoreInv, Finish, Listed
<1>2. store' = IF list = <<>> THEN store ELSE [store EXCEPT ![Last(list)].sealed = TRUE]
  BY DEF Finish, SealedTail
<1>3. ChunkOk(store') /\ Grown(store, store') /\ Listed(store', list, fed, TRUE)
  BY <1>1, <1>2, Sealing
<1>4. UNCHANGED <<o, patterns, cache, scan, merger>> /\ list' = list /\ fed' = fed /\ finished' = TRUE
  BY DEF Finish
<1> QED BY <1>3, <1>4, KeptWhileGrowing DEF SearchInv, StoreInv

LEMMA ReloadInv ==
    ASSUME SearchInv, Reload
    PROVE  SearchInv'
<1>1. /\ UNCHANGED <<o, patterns, store, scan, merger>>
      /\ list' = <<>> /\ fed' = 0 /\ finished' = FALSE /\ cache' = {}
  BY DEF Reload
<1>2. Listed(store', list', fed', finished')
  BY <1>1, EmptyList
<1>3. CacheInv'
  BY <1>1 DEF CacheInv, CacheOk
<1> QED BY <1>1, <1>2, <1>3 DEF SearchInv, Fixed, StoreInv, ScanInv, MergerInv

LEMMA SnapshotOfList ==
    ASSUME StoreInv, NEW counts, counts = [k \in DOMAIN list |-> Len(store[list[k]].items)]
    PROVE  Snapshot(store, list, counts)
<1>1. ChunkOk(store) /\ Listed(store, list, fed, finished) /\ list \in Seq(1 .. Len(store)) /\ Len(list) \in Nat
  BY DEF StoreInv, Listed
<1>2. \A k \in 1 .. Len(list) :
        /\ list[k] \in 1 .. Len(store) /\ counts[k] = Len(store[list[k]].items) /\ counts[k] \in Nat /\ counts[k] >= 1
        /\ EndOf(store, list[k]) = store[list[k]].first + counts[k]
  <2>1. DOMAIN list = 1 .. Len(list)
    BY <1>1
  <2>2. ASSUME NEW k \in 1 .. Len(list)
        PROVE  /\ list[k] \in 1 .. Len(store) /\ counts[k] = Len(store[list[k]].items)
               /\ counts[k] \in Nat /\ counts[k] >= 1
               /\ EndOf(store, list[k]) = store[list[k]].first + counts[k]
    <3>1. list[k] \in 1 .. Len(store) /\ counts[k] = Len(store[list[k]].items)
      BY <1>1, <2>1
    <3> QED BY <1>1, <3>1, ChunkFacts DEF EndOf
  <2> QED BY <2>2
<1>3. counts \in Seq(Nat) /\ Len(counts) = Len(list)
  <2>1. DOMAIN list = 1 .. Len(list)
    BY <1>1
  <2>2. counts = [k \in 1 .. Len(list) |-> counts[k]]
    BY <2>1
  <2>3. counts \in [1 .. Len(list) -> Nat]
    BY <1>2, <2>2
  <2> QED BY <1>1, <2>3
<1>4. \A k \in 1 .. Len(list) - 1 : store[list[k + 1]].first = store[list[k]].first + counts[k]
  <2>1. \A k \in 1 .. Len(list) - 1 : k \in 1 .. Len(list) /\ store[list[k + 1]].first = EndOf(store, list[k])
    BY <1>1 DEF Listed
  <2> QED BY <1>2, <2>1
<1>5. \A j, k \in 1 .. Len(list) : j < k => store[list[j]].first + counts[j] <= store[list[k]].first
  BY <1>1, <1>2 DEF Listed
<1>6. \A k \in 1 .. Len(list) : 1 <= counts[k] /\ counts[k] <= Len(store[list[k]].items)
  <2>1. \A k \in 1 .. Len(list) : counts[k] \in Nat /\ counts[k] >= 1 /\ counts[k] = Len(store[list[k]].items)
    BY <1>2
  <2>2. ASSUME NEW k \in 1 .. Len(list), NEW m, m = Len(store[list[k]].items), counts[k] = m, m \in Nat, m >= 1
        PROVE  1 <= counts[k] /\ counts[k] <= Len(store[list[k]].items)
    <3>1. 1 <= m /\ m <= m
      BY <2>2
    <3> QED BY <3>1, <2>2
  <2> QED BY <2>1, <2>2
<1>7. list # <<>> => store[list[1]].first = 0
  BY <1>1 DEF Listed
<1> QED BY <1>1, <1>3, <1>4, <1>5, <1>6, <1>7 DEF Snapshot

LEMMA SeqOfIds ==
    ASSUME NEW n \in Nat, NEW s \in Seq(1 .. n)
    PROVE  s \in Seq(Nat)
<1>1. s \in [1 .. Len(s) -> Nat] /\ Len(s) \in Nat
  OBVIOUS
<1> QED BY <1>1

LEMMA AskInv ==
    ASSUME SearchInv, NEW q \in Queries, Ask(q)
    PROVE  SearchInv'
<1> DEFINE counts == [k \in DOMAIN list |-> Len(store[list[k]].items)]
<1>1. /\ UNCHANGED <<o, patterns, store, list, fed, finished, cache>>
      /\ IF list = <<>> \/ patterns[q].empty
         THEN /\ merger' = [on |-> TRUE, pass |-> TRUE, query |-> q, ids |-> list,
                            counts |-> counts, found |-> <<>>, sorted |-> FALSE]
              /\ UNCHANGED scan
         ELSE /\ scan' = [on |-> TRUE, query |-> q, ids |-> list, counts |-> counts,
                          at |-> 1, step |-> "look", complete |-> FALSE, left |-> {}, found |-> <<>>]
              /\ UNCHANGED merger
  BY DEF Ask
<1>2. Snapshot(store, list, counts)
  BY SnapshotOfList DEF SearchInv
<1> HIDE DEF counts
<1>3. list \in Seq(Nat) /\ counts \in Seq(Nat) /\ Len(list) \in Nat
  BY <1>2, SeqOfIds, ChunkFacts DEF Snapshot, SearchInv, StoreInv
<1>4. patterns[q] = BuildPattern(o, q)
  BY PatternFacts DEF SearchInv
<1>5. <<>> \in Seq(Entry(o)) /\ Len(<<>>) = 0
  OBVIOUS
<1>6. MergerOk(store, o, merger')
  <2>1. CASE list = <<>> \/ patterns[q].empty
    <3>1. merger' = [on |-> TRUE, pass |-> TRUE, query |-> q, ids |-> list,
                     counts |-> counts, found |-> <<>>, sorted |-> FALSE]
      BY <1>1, <2>1
    <3>2. merger' \in Merger(o)
      BY <3>1, <1>3, <1>5 DEF Merger
    <3>3. merger'.ids = list /\ merger'.counts = counts /\ merger'.pass /\ merger'.query = q
      BY <3>1
    <3> QED BY <3>2, <3>3, <1>2, <1>4, <2>1 DEF MergerOk
  <2>2. CASE ~(list = <<>> \/ patterns[q].empty)
    BY <1>1, <2>2 DEF SearchInv, MergerInv
  <2> QED BY <2>1, <2>2
<1>7. ScanOk(store, o, scan')
  <2>1. CASE list = <<>> \/ patterns[q].empty
    BY <1>1, <2>1 DEF SearchInv, ScanInv
  <2>2. CASE ~(list = <<>> \/ patterns[q].empty)
    <3>1. scan' = [on |-> TRUE, query |-> q, ids |-> list, counts |-> counts,
                   at |-> 1, step |-> "look", complete |-> FALSE, left |-> {}, found |-> <<>>]
      BY <1>1, <2>2
    <3>2. scan' \in Scan(o)
      BY <3>1, <1>3, <1>5 DEF Scan
    <3>3. /\ scan'.ids = list /\ scan'.counts = counts /\ scan'.at = 1 /\ scan'.step = "look"
          /\ scan'.query = q /\ scan'.found = <<>>
      BY <3>1
    <3>4. FoundIn(store, list, counts, AnswerOf(o, q), <<>>, 1 - 1) /\ Ascending(<<>>)
      BY <1>5 DEF FoundIn, Ascending
    <3>5. LeftOk(store, AnswerOf(o, q), scan')
      BY <3>3 DEF LeftOk
    <3>6. 1 \in 1 .. Len(list) + 1
      BY <1>3
    <3> QED BY <3>2, <3>3, <3>4, <3>5, <3>6, <1>2, <1>4, <2>2 DEF ScanOk
  <2> QED BY <2>1, <2>2
<1> QED BY <1>1, <1>6, <1>7 DEF SearchInv, Fixed, StoreInv, CacheInv, ScanInv, MergerInv

\* The entries a narrower look-up finds have a shorter key of the same chunk.
LEMMA NarrowerEntries ==
    ASSUME NEW id, NEW key, Len(key) \in Nat, NEW e \in Narrower(id, key)
    PROVE  /\ e \in cache /\ e.id = id
           /\ \E n \in 1 .. Len(key) - 1 :
                 e.key = SubSeq(key, 1, n) \/ e.key = SubSeq(key, Len(key) - n + 1, Len(key))
<1> DEFINE Pre(n) == Entries(id, SubSeq(key, 1, n))
           Suf(n) == Entries(id, SubSeq(key, Len(key) - n + 1, Len(key)))
           found  == {n \in 1 .. Len(key) - 1 : Pre(n) \cup Suf(n) # {}}
           x      == Max(found)
<1>1. found # {} /\ (e \in Pre(x) \/ e \in Suf(x))
  BY DEF Narrower
<1>2. x \in 1 .. Len(key) - 1
  <2>1. found \subseteq 1 .. Len(key) - 1
    OBVIOUS
  <2> DEFINE b == Len(key) - 1
  <2>2. b \in Int /\ 1 \in Int /\ found \subseteq 1 .. b
    BY <2>1
  <2> HIDE DEF found, b
  <2>3. Max(found) \in found
    BY <1>1, <2>2, IntExtrema
  <2> QED BY <2>1, <2>3
<1> HIDE DEF found, x
<1>3. CASE e \in Pre(x)
  BY <1>2, <1>3 DEF Entries
<1>4. CASE e \in Suf(x)
  BY <1>2, <1>4 DEF Entries
<1> QED BY <1>1, <1>3, <1>4

\* The hits kept for a shorter key hold those of the query.
LEMMA KeptHits ==
    ASSUME SearchInv, NEW q \in Queries, NEW e \in cache,
           \/ e.key = KeyOf(o, q)
           \/ \E n \in 1 .. Len(KeyOf(o, q)) - 1 :
                 \/ e.key = SubSeq(KeyOf(o, q), 1, n)
                 \/ e.key = SubSeq(KeyOf(o, q), Len(KeyOf(o, q)) - n + 1, Len(KeyOf(o, q)))
    PROVE  /\ e.hits \subseteq Nat /\ 0 \notin e.hits
           /\ \A k \in 1 .. Len(store[e.id].items) : HitAt(store, e.id, k, AnswerOf(o, q)) => k \in e.hits
<1>1. e.id \in 1 .. Len(store)
  BY DEF SearchInv, CacheInv, CacheOk
<1>2. PICK r \in Queries : IsCacheable(o, r) /\ KeyOf(o, r) = e.key /\ e.hits = HitsOf(store, e.id, AnswerOf(o, r))
  BY DEF SearchInv, CacheInv, CacheOk
<1>3. o \in Settings /\ ChunkOk(store)
  BY DEF SearchInv, Fixed, StoreInv
<1>4. \A t \in Range(Feed) : AnswerOf(o, q)[t].hit => AnswerOf(o, r)[t].hit
  BY <1>2, <1>3, NarrowerMatches
<1>5. \A k \in 1 .. Len(store[e.id].items) : store[e.id].items[k] \in Range(Feed)
  BY <1>1, <1>3, ChunkFacts
<1>6. \A k \in 1 .. Len(store[e.id].items) : HitAt(store, e.id, k, AnswerOf(o, q)) => k \in e.hits
  BY <1>2, <1>4, <1>5 DEF HitsOf, HitAt
<1>7. e.hits \subseteq 1 .. Len(store[e.id].items)
  BY <1>2 DEF HitsOf
<1> QED BY <1>6, <1>7

LEMMA Scanning ==
    ASSUME SearchInv, scan.on
    PROVE  /\ scan \in Scan(o) /\ scan # Idle
           /\ scan.query \in Queries /\ scan.ids \in Seq(Nat) /\ scan.counts \in Seq(Nat)
           /\ scan.complete \in BOOLEAN /\ scan.left \subseteq Nat /\ scan.found \in Seq(Entry(o))
           /\ scan.at \in Nat /\ scan.at \in 1 .. Len(scan.ids) + 1
           /\ Snapshot(store, scan.ids, scan.counts)
           /\ ~BuildPattern(o, scan.query).empty
           /\ LeftOk(store, AnswerOf(o, scan.query), scan)
           /\ FoundIn(store, scan.ids, scan.counts, AnswerOf(o, scan.query), scan.found, scan.at - 1)
           /\ Ascending(scan.found)
<1>1. scan # Idle
  BY DEF Idle
<1>2. scan \in Scan(o)
  BY <1>1 DEF SearchInv, ScanInv, ScanOk
<1>3. /\ scan.query \in Queries /\ scan.ids \in Seq(Nat) /\ scan.counts \in Seq(Nat)
      /\ scan.complete \in BOOLEAN /\ scan.left \subseteq Nat /\ scan.found \in Seq(Entry(o)) /\ scan.at \in Nat
  BY <1>2 DEF Scan
<1> QED BY <1>1, <1>2, <1>3 DEF SearchInv, ScanInv, ScanOk

LEMMA LookUpInv ==
    ASSUME SearchInv, LookUp
    PROVE  SearchInv'
<1> DEFINE q        == scan.query
           id       == scan.ids[scan.at]
           n        == scan.counts[scan.at]
           key      == CacheKey(q)
           complete == Complete(id, n)
           exact    == IF Cacheable(q) THEN Entries(id, key) ELSE {}
           usable   == IF ~o.interactive \/ ~complete THEN {}
                       ELSE IF exact # {} THEN exact ELSE Narrower(id, key)
           left     == IF usable = {} THEN 1 .. n ELSE UNION {e.hits : e \in usable}
           a        == AnswerOf(o, q)
<1>1. /\ scan.on /\ scan.step = "look" /\ scan.at <= Len(scan.ids)
      /\ scan' = [scan EXCEPT !.step = "match", !.complete = complete, !.left = left]
      /\ UNCHANGED <<o, patterns, store, list, fed, finished, cache, merger, scans, reloads>>
  BY DEF LookUp
<1>2. /\ scan \in Scan(o) /\ q \in Queries /\ scan.at \in 1 .. Len(scan.ids)
      /\ Snapshot(store, scan.ids, scan.counts)
  <2>1. scan.at \in 1 .. Len(scan.ids) + 1 /\ Len(scan.ids) \in Nat
    BY <1>1, Scanning
  <2>2. scan.at \in 1 .. Len(scan.ids)
    BY <1>1, <2>1
  <2> QED BY <1>1, <2>2, Scanning
<1>3. id \in 1 .. Len(store) /\ n \in Nat /\ n <= Len(store[id].items) /\ Len(store[id].items) \in Nat
      /\ store[id].sealed \in BOOLEAN
  <2>1. ChunkOk(store)
    BY DEF SearchInv, StoreInv
  <2> QED BY <1>2, <2>1, SnapshotFacts, ChunkFacts
<1>4. key = KeyOf(o, q) /\ Len(key) \in Nat
  BY <1>2, PatternFacts DEF SearchInv
<1>5. complete \in BOOLEAN /\ (complete => store[id].sealed /\ n = Len(store[id].items))
  BY <1>3 DEF Complete, Sealed
<1> HIDE DEF complete
<1>6. ASSUME NEW e \in usable
      PROVE  /\ e.hits \subseteq Nat /\ 0 \notin e.hits
             /\ \A k \in 1 .. n : HitAt(store, id, k, a) => k \in e.hits
  <2>1. e \in exact \/ e \in Narrower(id, key)
    OBVIOUS
  <2>2. /\ e \in cache /\ e.id = id
        /\ \/ e.key = key
           \/ \E m \in 1 .. Len(key) - 1 :
                 e.key = SubSeq(key, 1, m) \/ e.key = SubSeq(key, Len(key) - m + 1, Len(key))
    <3>1. CASE e \in exact
      BY <3>1 DEF Entries
    <3>2. CASE e \in Narrower(id, key)
      <4> HIDE DEF key, id
      <4>1. Len(key) \in Nat
        BY <1>4
      <4>2. /\ e \in cache /\ e.id = id
            /\ \E m \in 1 .. Len(key) - 1 :
                  e.key = SubSeq(key, 1, m) \/ e.key = SubSeq(key, Len(key) - m + 1, Len(key))
        BY <3>2, <4>1, NarrowerEntries, Zenon
      <4> QED BY <4>2
    <3> QED BY <2>1, <3>1, <3>2
  <2>3. \/ e.key = KeyOf(o, q)
        \/ \E m \in 1 .. Len(KeyOf(o, q)) - 1 :
              \/ e.key = SubSeq(KeyOf(o, q), 1, m)
              \/ e.key = SubSeq(KeyOf(o, q), Len(KeyOf(o, q)) - m + 1, Len(KeyOf(o, q)))
    <3> HIDE DEF key
    <3> QED BY <2>2, <1>4
  <2> HIDE DEF q, id, key, n
  <2>4. /\ e.hits \subseteq Nat /\ 0 \notin e.hits
        /\ \A k \in 1 .. Len(store[e.id].items) : HitAt(store, e.id, k, AnswerOf(o, q)) => k \in e.hits
    BY <1>2, <2>2, <2>3, KeptHits
  <2>5. \A k \in 1 .. n : k \in 1 .. Len(store[id].items)
    BY <1>3
  <2> QED BY <2>2, <2>4, <2>5
<1> HIDE DEF usable
<1>7. left \in SUBSET Nat /\ 0 \notin left /\ \A k \in 1 .. n : HitAt(store, id, k, a) => k \in left
  <2> HIDE DEF n, id, a
  <2>1. CASE usable = {}
    BY <2>1, <1>3
  <2>2. CASE usable # {}
    <3>1. left = UNION {e.hits : e \in usable}
      BY <2>2
    <3>2. \A x \in left : \E e \in usable : x \in e.hits
      BY <3>1
    <3>3. \A e \in usable : \A x \in e.hits : x \in left
      BY <3>1
    <3> HIDE DEF left
    <3> QED BY <2>2, <3>2, <3>3, <1>6
  <2> QED BY <2>1, <2>2
<1> HIDE DEF left
<1>8. /\ scan' \in Scan(o) /\ scan'.ids = scan.ids /\ scan'.counts = scan.counts /\ scan'.query = q
      /\ scan'.at = scan.at /\ scan'.found = scan.found /\ scan'.left = left /\ scan'.complete = complete
  BY <1>1, <1>2, <1>5, <1>7 DEF Scan
<1>9. LeftOk(store, a, scan')
  BY <1>1, <1>5, <1>7, <1>8 DEF LeftOk
<1>10. ScanOk(store, o, scan')
  <2>1. /\ Snapshot(store, scan'.ids, scan'.counts) /\ ~BuildPattern(o, scan'.query).empty
        /\ scan'.at \in 1 .. Len(scan'.ids) + 1
        /\ FoundIn(store, scan'.ids, scan'.counts, AnswerOf(o, scan'.query), scan'.found, scan'.at - 1)
        /\ Ascending(scan'.found)
    BY <1>1, <1>8, Scanning, Zenon
  <2> QED BY <1>8, <1>9, <2>1 DEF ScanOk
<1> QED BY <1>1, <1>10 DEF SearchInv, Fixed, StoreInv, CacheInv, ScanInv, MergerInv

LEMMA Concat ==
    ASSUME NEW E, NEW s \in Seq(E), NEW t \in Seq(E)
    PROVE  /\ s \o t \in Seq(E) /\ Len(s \o t) = Len(s) + Len(t)
           /\ \A i \in 1 .. Len(s) : (s \o t)[i] = s[i]
           /\ \A i \in Len(s) + 1 .. Len(s) + Len(t) : (s \o t)[i] = t[i - Len(s)] /\ i - Len(s) \in 1 .. Len(t)
<1>1. s \o t \in Seq(E) /\ Len(s \o t) = Len(s) + Len(t) /\ Len(s) \in Nat /\ Len(t) \in Nat
  OBVIOUS
<1>2. \A i \in 1 .. Len(s) : (s \o t)[i] = s[i]
  OBVIOUS
<1>3. \A i \in Len(s) + 1 .. Len(s) + Len(t) : (s \o t)[i] = t[i - Len(s)]
  OBVIOUS
<1>4. \A i \in Len(s) + 1 .. Len(s) + Len(t) : i - Len(s) \in 1 .. Len(t)
  BY <1>1
<1> QED BY <1>1, <1>2, <1>3, <1>4

LEMMA SeqMember ==
    ASSUME NEW T, NEW s \in Seq(T), NEW i \in 1 .. Len(s)
    PROVE  s[i] \in T
OBVIOUS

LEMMA SeqFrom ==
    ASSUME NEW T, NEW n \in Nat, NEW s \in [1 .. n -> T]
    PROVE  s \in Seq(T) /\ Len(s) = n
OBVIOUS

\* The matches among the first n items of a chunk, in order, and their results.
BitsOf(st, id, n, a, bits) ==
    /\ bits \in Seq(1 .. n)
    /\ \A k \in 1 .. n : HitAt(st, id, k, a) <=> \E i \in 1 .. Len(bits) : bits[i] = k
    /\ \A i, j \in 1 .. Len(bits) : i < j => bits[i] < bits[j]

ResultsOf(st, id, a, bits, more) ==
    Len(more) = Len(bits) /\ \A i \in 1 .. Len(bits) : more[i] = EntryAt(st, id, bits[i], a)

\* Results of the next chunk go behind those of the chunks before it.
LEMMA FoundExtended ==
    ASSUME NEW st, ChunkOk(st), NEW ids, NEW counts, Snapshot(st, ids, counts), NEW a, NEW E,
           NEW found \in Seq(E), NEW at \in 1 .. Len(ids), FoundIn(st, ids, counts, a, found, at - 1), Ascending(found),
           NEW bits, BitsOf(st, ids[at], counts[at], a, bits),
           NEW more \in Seq(E), ResultsOf(st, ids[at], a, bits, more)
    PROVE  /\ found \o more \in Seq(E)
           /\ FoundIn(st, ids, counts, a, found \o more, at)
           /\ Ascending(found \o more)
<1> DEFINE new == found \o more
           f   == Len(found)
           m   == Len(bits)
           n   == counts[at]
           id  == ids[at]
<1>1. f \in Nat /\ m \in Nat /\ n \in Nat /\ at \in Nat /\ st[id].first \in Nat
  BY SnapshotFacts DEF BitsOf
<1>2. /\ new \in Seq(E) /\ Len(new) = f + m
      /\ (\A i \in 1 .. f : new[i] = found[i])
      /\ (\A i \in f + 1 .. f + m : new[i] = more[i - f] /\ i - f \in 1 .. m)
  <2>1. Len(more) = m /\ more \in Seq(E) /\ found \in Seq(E)
    BY DEF ResultsOf
  <2>2. /\ new \in Seq(E) /\ Len(new) = f + Len(more)
        /\ \A i \in 1 .. f : new[i] = found[i]
        /\ \A i \in f + 1 .. f + Len(more) : new[i] = more[i - f] /\ i - f \in 1 .. Len(more)
    BY <2>1, Concat
  <2> QED BY <2>1, <2>2, Zenon
<1> HIDE DEF new
<1>3. \A i \in 1 .. Len(new) : i \in 1 .. f \/ i \in f + 1 .. f + m
  BY <1>1, <1>2
<1>4. \A i \in 1 .. m : bits[i] \in 1 .. n /\ HitAt(st, id, bits[i], a)
  <2>1. ASSUME NEW i \in 1 .. m PROVE bits[i] \in 1 .. n
    BY SeqMember DEF BitsOf
  <2>2. \A k \in 1 .. n : HitAt(st, id, k, a) <=> \E i \in 1 .. m : bits[i] = k
    BY DEF BitsOf
  <2> QED BY <2>1, <2>2, Zenon
<1>5. \A c \in 1 .. at - 1 : c \in 1 .. at /\ c \in 1 .. Len(ids) /\ c < at
  BY <1>1, SnapshotFacts
<1>6. at \in 1 .. at
  BY <1>1
<1>7. ASSUME NEW i \in 1 .. Len(new)
      PROVE  \E c \in 1 .. at : \E k \in 1 .. counts[c] : HitAt(st, ids[c], k, a) /\ new[i] = EntryAt(st, ids[c], k, a)
  <2>1. CASE i \in 1 .. f
    <3>1. new[i] = found[i]
      BY <1>2, <2>1
    <3>2. PICK c \in 1 .. at - 1 : \E k \in 1 .. counts[c] :
             HitAt(st, ids[c], k, a) /\ found[i] = EntryAt(st, ids[c], k, a)
      BY <2>1 DEF FoundIn
    <3> QED BY <3>1, <3>2, <1>5
  <2>2. CASE i \in f + 1 .. f + m
    <3> DEFINE j == i - f
    <3>1. j \in 1 .. m /\ new[i] = more[j]
      BY <1>2, <2>2
    <3>2. new[i] = EntryAt(st, id, bits[j], a)
      BY <3>1 DEF ResultsOf
    <3> HIDE DEF j
    <3> QED BY <3>1, <3>2, <1>4, <1>6
  <2> QED BY <1>3, <2>1, <2>2
<1>8. ASSUME NEW c \in 1 .. at, NEW k \in 1 .. counts[c], HitAt(st, ids[c], k, a)
      PROVE  \E i \in 1 .. Len(new) : new[i] = EntryAt(st, ids[c], k, a)
  <2>1. CASE c = at
    <3>1. PICK j \in 1 .. m : bits[j] = k
      BY <1>8, <2>1 DEF BitsOf
    <3>2. more[j] = EntryAt(st, id, k, a)
      BY <3>1 DEF ResultsOf
    <3> DEFINE i == f + j
    <3>3. i \in f + 1 .. f + m /\ i \in 1 .. Len(new) /\ i - f = j
      BY <1>1, <1>2, <3>1
    <3> HIDE DEF i
    <3>4. new[i] = more[j]
      BY <1>2, <3>3
    <3> QED BY <2>1, <3>2, <3>3, <3>4
  <2>2. CASE c # at
    <3>1. c \in 1 .. at - 1
      BY <1>1, <2>2
    <3>2. PICK i \in 1 .. f : found[i] = EntryAt(st, ids[c], k, a)
      BY <1>8, <3>1 DEF FoundIn
    <3>3. i \in 1 .. Len(new)
      BY <1>1, <1>2
    <3> QED BY <1>2, <3>2, <3>3
  <2> QED BY <2>1, <2>2
<1>9. ASSUME NEW i \in 1 .. Len(new), NEW j \in 1 .. Len(new), i < j
      PROVE  new[i].index < new[j].index
  <2>1. CASE j \in 1 .. f
    <3>1. i \in 1 .. f
      BY <1>1, <1>9, <2>1
    <3> QED BY <1>2, <1>9, <2>1, <3>1 DEF Ascending
  <2>2. CASE j \in f + 1 .. f + m
    <3> DEFINE y == j - f
    <3>1. y \in 1 .. m /\ new[j] = more[y]
      BY <1>2, <2>2
    <3>2. new[j] = EntryAt(st, id, bits[y], a) /\ bits[y] \in 1 .. n
      BY <3>1, <1>4 DEF ResultsOf
    <3> HIDE DEF y
    <3>3. new[j].index = st[id].first + bits[y] - 1
      BY <3>2 DEF EntryAt
    <3>4. CASE i \in 1 .. f
      <4>1. new[i] = found[i]
        BY <1>2, <3>4
      <4>2. PICK c \in 1 .. at - 1 : \E k \in 1 .. counts[c] :
               HitAt(st, ids[c], k, a) /\ found[i] = EntryAt(st, ids[c], k, a)
        BY <3>4 DEF FoundIn
      <4>3. PICK k \in 1 .. counts[c] : found[i] = EntryAt(st, ids[c], k, a)
        BY <4>2
      <4>4. new[i].index = st[ids[c]].first + k - 1
        BY <4>1, <4>3 DEF EntryAt
      <4>5. st[ids[c]].first + counts[c] <= st[id].first
        BY <1>5 DEF Snapshot
      <4>6. st[ids[c]].first \in Nat /\ counts[c] \in Nat
        BY <1>5, SnapshotFacts
      <4> DEFINE F == st[ids[c]].first
                 G == st[id].first
                 C == counts[c]
                 b == bits[y]
      <4>7. F \in Nat /\ C \in Nat /\ G \in Nat /\ F + C <= G /\ k \in 1 .. C /\ b \in Nat /\ b >= 1
        BY <4>5, <4>6, <1>1, <3>2
      <4> HIDE DEF F, G, C, b
      <4>8. F + k - 1 < G + b - 1
        BY <4>7
      <4> QED BY <4>4, <4>8, <3>3 DEF F, G, b
    <3>5. CASE i \in f + 1 .. f + m
      <4> DEFINE x == i - f
      <4>1. x \in 1 .. m /\ new[i] = more[x] /\ x < y
        BY <1>1, <1>2, <1>9, <2>2, <3>5 DEF y
      <4>2. new[i] = EntryAt(st, id, bits[x], a) /\ bits[x] \in 1 .. n
        BY <4>1, <1>4 DEF ResultsOf
      <4> HIDE DEF x
      <4>3. new[i].index = st[id].first + bits[x] - 1
        BY <4>2 DEF EntryAt
      <4>4. bits[x] < bits[y]
        BY <4>1, <3>1 DEF BitsOf
      <4> DEFINE G == st[id].first
                 b == bits[x]
                 d == bits[y]
      <4>5. G \in Nat /\ b \in Nat /\ d \in Nat /\ b < d
        BY <1>1, <3>2, <4>2, <4>4
      <4> HIDE DEF G, b, d
      <4>6. G + b - 1 < G + d - 1
        BY <4>5
      <4> QED BY <4>3, <4>6, <3>3 DEF G, b, d
    <3> QED BY <1>3, <3>4, <3>5
  <2> QED BY <1>3, <2>1, <2>2
<1>10. FoundIn(st, ids, counts, a, new, at)
  BY <1>7, <1>8 DEF FoundIn
<1>11. Ascending(new)
  BY <1>9 DEF Ascending
<1> QED BY <1>2, <1>10, <1>11 DEF new

LEMMA MatchChunkInv ==
    ASSUME SearchInv, MatchChunk
    PROVE  SearchInv'
<1> DEFINE q    == scan.query
           id   == scan.ids[scan.at]
           n    == scan.counts[scan.at]
           a    == AnswerOf(o, q)
           r(i) == PatternMatch(q, store[id].items[i])
           hits == {i \in scan.left : i <= n /\ r(i).matched}
           at   == InOrder(hits, <)
           more == [k \in DOMAIN at |-> [index |-> store[id].first + at[k] - 1,
                                         rank  |-> Rank(r(at[k]), store[id].items[at[k]])]]
<1>0. scan.on /\ scan.step = "match"
  BY DEF MatchChunk
<1>1. /\ scan.on /\ scan.step = "match"
      /\ scan' = [scan EXCEPT !.step = "look", !.at = @ + 1, !.found = @ \o more]
      /\ cache' = IF o.interactive /\ scan.complete /\ Cacheable(q) THEN Added(id, CacheKey(q), hits) ELSE cache
      /\ UNCHANGED <<o, patterns, store, list, fed, finished, merger, scans, reloads>>
  BY DEF MatchChunk
<1>2. /\ scan \in Scan(o) /\ q \in Queries /\ scan.at \in 1 .. Len(scan.ids) /\ scan.at \in Nat
      /\ Snapshot(store, scan.ids, scan.counts) /\ Len(scan.ids) \in Nat
      /\ scan.left \subseteq Nat /\ 0 \notin scan.left
      /\ \A k \in 1 .. n : HitAt(store, id, k, a) => k \in scan.left
      /\ scan.complete => store[id].sealed /\ n = Len(store[id].items)
      /\ scan.found \in Seq(Entry(o))
  <2>1. /\ scan.at \in 1 .. Len(scan.ids) + 1 /\ Len(scan.ids) \in Nat /\ scan.at <= Len(scan.ids)
        /\ 0 \notin scan.left /\ (\A k \in 1 .. n : HitAt(store, id, k, a) => k \in scan.left)
        /\ (scan.complete => store[id].sealed /\ n = Len(store[id].items))
    <3>1. LeftOk(store, a, scan) /\ scan.at \in 1 .. Len(scan.ids) + 1 /\ Len(scan.ids) \in Nat
      BY <1>0, Scanning
    <3> HIDE DEF a
    <3>2. /\ scan.at <= Len(scan.ids) /\ 0 \notin scan.left
          /\ (\A k \in 1 .. n : HitAt(store, id, k, a) => k \in scan.left)
          /\ (scan.complete => store[id].sealed /\ n = Len(store[id].items))
      BY <1>0, <3>1 DEF LeftOk
    <3> QED BY <3>1, <3>2
  <2>2. scan.at \in 1 .. Len(scan.ids)
    BY <2>1
  <2> QED BY <1>1, <2>1, <2>2, Scanning
<1>3. /\ id \in 1 .. Len(store) /\ n \in Nat /\ n <= Len(store[id].items) /\ Len(store[id].items) \in Nat
      /\ store[id].first \in Nat
      /\ \A k \in 1 .. n : store[id].items[k] \in Range(Feed)
  <2>1. ChunkOk(store)
    BY DEF SearchInv, StoreInv
  <2> QED BY <1>2, <2>1, SnapshotFacts, ChunkFacts
<1>4. /\ CacheKey(q) = KeyOf(o, q) /\ Cacheable(q) = IsCacheable(o, q) /\ o \in Settings
      /\ \A t \in Range(Feed) : PatternMatch(q, t).matched = a[t].hit /\ Rank(PatternMatch(q, t), t) = a[t].rank
  BY <1>2, PatternFacts DEF SearchInv
<1>5. hits = {k \in 1 .. n : HitAt(store, id, k, a)}
  <2>1. \A k \in 1 .. n : r(k).matched = HitAt(store, id, k, a)
    BY <1>3, <1>4 DEF HitAt
  <2>2. \A k \in scan.left : k <= n => k \in 1 .. n
    BY <1>2, <1>3
  <2>3. \A k \in 1 .. n : k <= n
    BY <1>3
  <2> HIDE DEF a, r, n, id
  <2> QED BY <1>2, <2>1, <2>2, <2>3
<1>6. /\ at \in Seq(hits)
      /\ \A x \in hits : \E i \in 1 .. Len(at) : at[i] = x
      /\ \A i, j \in 1 .. Len(at) : i < j => at[i] < at[j]
  <2>1. hits \subseteq 1 .. n
    BY <1>5
  <2> HIDE DEF hits, n
  <2> QED BY <1>3, <2>1, BitsInOrder
<1> HIDE DEF at
<1>7. at \in Seq(1 .. n) /\ DOMAIN at = 1 .. Len(at) /\ Len(at) \in Nat
      /\ \A i \in 1 .. Len(at) : at[i] \in hits /\ at[i] \in 1 .. n
  <2>1. hits \subseteq 1 .. n
    BY <1>5
  <2> HIDE DEF hits, n
  <2>2. \A i \in 1 .. Len(at) : at[i] \in hits /\ at[i] \in 1 .. n
    <3>1. at \in Seq(hits)
      BY <1>6
    <3>2. \A i \in 1 .. Len(at) : at[i] \in hits
      BY <3>1
    <3> QED BY <2>1, <3>2
  <2>3. at \in Seq(hits) /\ Len(at) \in Nat /\ DOMAIN at = 1 .. Len(at) /\ at = [i \in 1 .. Len(at) |-> at[i]]
    <3>1. at \in Seq(hits)
      BY <1>6
    <3> QED BY <3>1
  <2>4. at \in [1 .. Len(at) -> 1 .. n]
    BY <2>2, <2>3
  <2>5. at \in Seq(1 .. n)
    BY <2>3, <2>4, SeqFrom
  <2> QED BY <2>2, <2>3, <2>5
<1> HIDE DEF hits
<1>8. ASSUME NEW i \in 1 .. Len(at)
      PROVE  more[i] = EntryAt(store, id, at[i], a) /\ more[i] \in Entry(o)
  <2> DEFINE t == store[id].items[at[i]]
  <2>1. t \in Range(Feed)
    BY <1>3, <1>7
  <2>2. Rank(PatternMatch(q, t), t) = a[t].rank /\ a[t].rank \in [1 .. Len(o.criteria) -> Int]
    BY <1>2, <1>4, <2>1, AnswerFacts
  <2>3. more[i] = [index |-> store[id].first + at[i] - 1, rank |-> Rank(PatternMatch(q, t), t)]
    BY <1>7
  <2>4. more[i] = EntryAt(store, id, at[i], a)
    BY <2>2, <2>3 DEF EntryAt
  <2>5. store[id].first + at[i] - 1 \in Int
    <3> HIDE DEF id, n
    <3>1. at[i] \in 1 .. n
      BY <1>7
    <3> QED BY <1>3, <3>1
  <2> HIDE DEF t, id, a, more
  <2> QED BY <2>2, <2>3, <2>4, <2>5 DEF Entry
<1>9. more \in Seq(Entry(o)) /\ Len(more) = Len(at)
  <2>1. more = [i \in 1 .. Len(at) |-> more[i]]
    BY <1>7
  <2> HIDE DEF more
  <2>2. more \in [1 .. Len(at) -> Entry(o)]
    BY <1>8, <2>1
  <2> QED BY <1>7, <2>2
<1> HIDE DEF more
<1>10. /\ scan.found \o more \in Seq(Entry(o))
       /\ FoundIn(store, scan.ids, scan.counts, a, scan.found \o more, scan.at)
       /\ Ascending(scan.found \o more)
  <2> DEFINE ids == scan.ids
             counts == scan.counts
             found == scan.found
             c == scan.at
             EE == Entry(o)
  <2>1. /\ ChunkOk(store) /\ Snapshot(store, ids, counts) /\ found \in Seq(EE) /\ c \in 1 .. Len(ids)
        /\ FoundIn(store, ids, counts, a, found, c - 1) /\ Ascending(found)
    BY <1>1, <1>2, Scanning DEF SearchInv, StoreInv
  <2>2. at \in Seq(1 .. counts[c])
    BY <1>7
  <2>3. \A k \in 1 .. counts[c] : HitAt(store, ids[c], k, a) <=> \E i \in 1 .. Len(at) : at[i] = k
    BY <1>5, <1>6, <1>7
  <2>4. BitsOf(store, ids[c], counts[c], a, at)
    BY <2>2, <2>3, <1>6 DEF BitsOf
  <2>6. ResultsOf(store, ids[c], a, at, more) /\ more \in Seq(EE)
    BY <1>8, <1>9 DEF ResultsOf
  <2> HIDE DEF ids, counts, found, c, a, EE
  <2>5. /\ found \o more \in Seq(EE)
        /\ FoundIn(store, ids, counts, a, found \o more, c)
        /\ Ascending(found \o more)
    BY <2>1, <2>4, <2>6, FoundExtended
  <2> QED BY <2>5 DEF ids, counts, found, c, EE
<1>11. ScanOk(store, o, scan')
  <2> DEFINE new == scan.found \o more
  <2>1. new \in Seq(Entry(o)) /\ scan.at + 1 \in Nat /\ "look" \in {"look", "match"}
    BY <1>2, <1>10
  <2>2. scan' = [scan EXCEPT !.step = "look", !.at = scan.at + 1, !.found = new]
    BY <1>1
  <2> HIDE DEF new
  <2>3. /\ scan' \in Scan(o) /\ scan'.ids = scan.ids /\ scan'.counts = scan.counts /\ scan'.query = scan.query
        /\ scan'.at = scan.at + 1 /\ scan'.found = new /\ scan'.step = "look"
    BY <1>2, <2>1, <2>2 DEF Scan
  <2>4. scan.at + 1 \in 1 .. Len(scan.ids) + 1 /\ (scan.at + 1) - 1 = scan.at
    BY <1>2
  <2>5. FoundIn(store, scan'.ids, scan'.counts, AnswerOf(o, scan'.query), scan'.found, scan'.at - 1) /\ Ascending(scan'.found)
    BY <1>10, <2>3, <2>4 DEF new
  <2>6. LeftOk(store, AnswerOf(o, scan'.query), scan')
    BY <2>3 DEF LeftOk
  <2>7. Snapshot(store, scan'.ids, scan'.counts) /\ ~BuildPattern(o, scan'.query).empty
    BY <1>1, <2>3, Scanning
  <2> QED BY <2>3, <2>4, <2>5, <2>6, <2>7 DEF ScanOk
<1>12. CacheOk(store, o, cache')
  <2>0. CacheOk(store, o, cache)
    BY DEF SearchInv, CacheInv
  <2>1. CASE cache' = cache
    BY <2>0, <2>1
  <2>2. CASE cache' # cache
    <3> DEFINE key == KeyOf(o, q)
               new == [id |-> id, key |-> key, hits |-> hits]
    <3>1. scan.complete /\ IsCacheable(o, q) /\ cache' = Added(id, key, hits)
      BY <1>1, <1>4, <2>2
    <3>2. PICK gone : /\ cache' = (cache \ gone) \cup {new}
                      /\ \A e \in cache : e.id = id /\ e.key = key => e \in gone
      <4>1. cache' = (cache \ IF Cardinality(Keys(id)) >= CacheEntries THEN Keys(id) ELSE Entries(id, key)) \cup {new}
        BY <2>2, <3>1 DEF Added
      <4> DEFINE g == IF Cardinality(Keys(id)) >= CacheEntries THEN Keys(id) ELSE Entries(id, key)
      <4>2. \A e \in cache : e.id = id /\ e.key = key => e \in g
        BY DEF Keys, Entries
      <4> HIDE DEF g
      <4> QED BY <4>1, <4>2 DEF g
    <3>3. store[id].sealed /\ n = Len(store[id].items)
      BY <1>2, <3>1
    <3>4. hits = HitsOf(store, id, a)
      BY <1>5, <3>3 DEF HitsOf
    <3>5. ASSUME NEW p \in Queries, IsCacheable(o, p), KeyOf(o, p) = key
          PROVE  hits = HitsOf(store, id, AnswerOf(o, p))
      <4>1. \A t \in Range(Feed) : a[t].hit <=> AnswerOf(o, p)[t].hit
        <5>1. \A t \in Range(Feed) : AnswerOf(o, q)[t].hit => AnswerOf(o, p)[t].hit
          BY <1>2, <1>4, <3>5, NarrowerMatches, Zenon
        <5>2. \A t \in Range(Feed) : AnswerOf(o, p)[t].hit => AnswerOf(o, q)[t].hit
          BY <1>2, <1>4, <3>1, <3>5, NarrowerMatches, Zenon
        <5> QED BY <5>1, <5>2
      <4>2. \A k \in 1 .. Len(store[id].items) : HitAt(store, id, k, a) <=> HitAt(store, id, k, AnswerOf(o, p))
        BY <1>3, <3>3, <4>1 DEF HitAt
      <4> QED BY <3>4, <4>2 DEF HitsOf
    <3>6. new.id = id /\ new.key = key /\ new.hits = hits
      OBVIOUS
    <3> HIDE DEF new, key, id, a, n, q
    <3>7. ASSUME NEW e \in cache'
          PROVE  /\ e.id \in 1 .. Len(store) /\ store[e.id].sealed
                 /\ \A x \in cache' : x.id = e.id /\ x.key = e.key => x = e
                 /\ \E p \in Queries : IsCacheable(o, p) /\ KeyOf(o, p) = e.key
                 /\ \A p \in Queries : IsCacheable(o, p) /\ KeyOf(o, p) = e.key =>
                       e.hits = HitsOf(store, e.id, AnswerOf(o, p))
      <4>1. CASE e = new
        <5>1. \A x \in cache' : x.id = e.id /\ x.key = e.key => x = e
          BY <3>2, <3>6, <4>1
        <5>2. IsCacheable(o, q) /\ KeyOf(o, q) = e.key /\ q \in Queries
          BY <1>2, <3>1, <3>6, <4>1 DEF key
        <5> QED BY <1>3, <3>3, <3>5, <3>6, <4>1, <5>1, <5>2
      <4>2. CASE e # new
        <5>1. e \in cache /\ e \notin gone
          BY <3>2, <4>2
        <5>2. \A x \in cache' : x.id = e.id /\ x.key = e.key => x = e
          <6>1. ASSUME NEW x \in cache', x.id = e.id, x.key = e.key PROVE x = e
            <7>1. x \in cache
              BY <3>2, <3>6, <5>1, <6>1
            <7> QED BY <2>0, <5>1, <6>1, <7>1 DEF CacheOk
          <6> QED BY <6>1
        <5> QED BY <2>0, <5>1, <5>2 DEF CacheOk
      <4> QED BY <4>1, <4>2
    <3> QED BY <3>7 DEF CacheOk
  <2> QED BY <2>1, <2>2
<1> QED BY <1>1, <1>11, <1>12 DEF SearchInv, Fixed, StoreInv, CacheInv, ScanInv, MergerInv

LEMMA PublishInv ==
    ASSUME SearchInv, Publish
    PROVE  SearchInv'
<1> DEFINE q      == scan.query
           sorted == o.sort /\ patterns[q].sortable
           found  == IF sorted THEN SortResults(scan.found) ELSE scan.found
           a      == AnswerOf(o, q)
<1>0. scan.on /\ scan.step = "look" /\ scan.at > Len(scan.ids)
  BY DEF Publish
<1>1. /\ merger' = [on |-> TRUE, pass |-> FALSE, query |-> q, ids |-> scan.ids,
                    counts |-> scan.counts, sorted |-> sorted, found |-> found]
      /\ scan' = Idle
      /\ UNCHANGED <<o, patterns, store, list, fed, finished, cache, scans, reloads>>
  BY DEF Publish
<1>2. /\ q \in Queries /\ scan.ids \in Seq(Nat) /\ scan.counts \in Seq(Nat) /\ scan.found \in Seq(Entry(o))
      /\ Snapshot(store, scan.ids, scan.counts) /\ ~BuildPattern(o, q).empty /\ Ascending(scan.found)
  BY <1>0, Scanning
<1>3. FoundIn(store, scan.ids, scan.counts, a, scan.found, Len(scan.ids))
  <2>1. scan.at \in 1 .. Len(scan.ids) + 1 /\ Len(scan.ids) \in Nat
    BY <1>0, Scanning
  <2>2. scan.at - 1 = Len(scan.ids)
    BY <1>0, <2>1
  <2> QED BY <1>0, <2>2, Scanning
<1>4. o \in Settings /\ patterns[q] = BuildPattern(o, q) /\ o.sort \in BOOLEAN
  BY <1>2, PatternFacts, OptionFacts DEF SearchInv
<1>5. sorted \in BOOLEAN /\ sorted = (o.sort /\ BuildPattern(o, q).sortable)
  <2>1. patterns[q].sortable = BuildPattern(o, q).sortable
    BY <1>4
  <2>2. BuildPattern(o, q).sortable \in BOOLEAN
    BY DEF BuildPattern
  <2> QED BY <1>4, <2>1, <2>2
<1> HIDE DEF sorted
<1>6. /\ found \in Seq(Entry(o))
      /\ FoundIn(store, scan.ids, scan.counts, a, found, Len(scan.ids))
      /\ IF sorted THEN Sorted(o, found) ELSE Ascending(found)
  <2>1. CASE sorted
    <3>1. /\ found \in Seq(Entry(o)) /\ Sorted(o, found)
          /\ \A i \in 1 .. Len(found) : \E j \in 1 .. Len(scan.found) : found[i] = scan.found[j]
          /\ \A j \in 1 .. Len(scan.found) : \E i \in 1 .. Len(found) : found[i] = scan.found[j]
      <4> DEFINE rs == scan.found
                 s == SortResults(rs)
      <4>1. rs \in Seq(Entry(o)) /\ Ascending(rs) /\ found = s
        BY <1>2, <2>1
      <4> HIDE DEF rs
      <4>2. /\ s \in Seq(Entry(o)) /\ Sorted(o, s)
            /\ \A i \in 1 .. Len(s) : \E j \in 1 .. Len(rs) : s[i] = rs[j]
            /\ \A j \in 1 .. Len(rs) : \E i \in 1 .. Len(s) : s[i] = rs[j]
        BY <1>4, <4>1, ResultsInOrder
      <4> HIDE DEF s, found
      <4> QED BY <4>1, <4>2 DEF rs
    <3> HIDE DEF found, a
    <3>2. \A i \in 1 .. Len(found) : \E c \in 1 .. Len(scan.ids) : \E k \in 1 .. scan.counts[c] :
             HitAt(store, scan.ids[c], k, a) /\ found[i] = EntryAt(store, scan.ids[c], k, a)
      <4>1. ASSUME NEW i \in 1 .. Len(found)
            PROVE  \E c \in 1 .. Len(scan.ids) : \E k \in 1 .. scan.counts[c] :
                      HitAt(store, scan.ids[c], k, a) /\ found[i] = EntryAt(store, scan.ids[c], k, a)
        <5>1. PICK j \in 1 .. Len(scan.found) : found[i] = scan.found[j]
          BY <3>1
        <5>2. PICK c \in 1 .. Len(scan.ids) : \E k \in 1 .. scan.counts[c] :
                 HitAt(store, scan.ids[c], k, a) /\ scan.found[j] = EntryAt(store, scan.ids[c], k, a)
          BY <1>3 DEF FoundIn
        <5> QED BY <5>1, <5>2
      <4> QED BY <4>1
    <3>3. \A c \in 1 .. Len(scan.ids) : \A k \in 1 .. scan.counts[c] :
             HitAt(store, scan.ids[c], k, a) => \E i \in 1 .. Len(found) : found[i] = EntryAt(store, scan.ids[c], k, a)
      <4>1. ASSUME NEW c \in 1 .. Len(scan.ids), NEW k \in 1 .. scan.counts[c], HitAt(store, scan.ids[c], k, a)
            PROVE  \E i \in 1 .. Len(found) : found[i] = EntryAt(store, scan.ids[c], k, a)
        <5>1. PICK j \in 1 .. Len(scan.found) : scan.found[j] = EntryAt(store, scan.ids[c], k, a)
          BY <1>3, <4>1 DEF FoundIn
        <5> QED BY <3>1, <5>1
      <4> QED BY <4>1
    <3> QED BY <2>1, <3>1, <3>2, <3>3 DEF FoundIn
  <2>2. CASE ~sorted
    BY <1>2, <1>3, <2>2
  <2> QED BY <2>1, <2>2
<1> HIDE DEF found
<1>7. merger' \in Merger(o)
  BY <1>1, <1>2, <1>5, <1>6 DEF Merger
<1>8. MergerOk(store, o, merger')
  <2>1. /\ merger'.ids = scan.ids /\ merger'.counts = scan.counts /\ merger'.query = q
        /\ merger'.pass = FALSE /\ merger'.sorted = sorted /\ merger'.found = found
    BY <1>1
  <2> QED BY <1>2, <1>5, <1>6, <1>7, <2>1 DEF MergerOk
<1>9. ScanOk(store, o, scan')
  BY <1>1 DEF ScanOk
<1> QED BY <1>1, <1>8, <1>9 DEF SearchInv, Fixed, StoreInv, CacheInv, ScanInv, MergerInv

LEMMA AbandonInv ==
    ASSUME SearchInv, Abandon
    PROVE  SearchInv'
<1>1. scan' = Idle /\ UNCHANGED <<o, patterns, store, list, fed, finished, cache, merger, scans, reloads>>
  BY DEF Abandon
<1>2. ScanOk(store, o, scan')
  BY <1>1 DEF ScanOk
<1> QED BY <1>1, <1>2 DEF SearchInv, Fixed, StoreInv, CacheInv, ScanInv, MergerInv

LEMMA NextInv ==
    ASSUME SearchInv, [Next]_vars
    PROVE  SearchInv'
<1>1. CASE Next
  BY <1>1, ReadInv, FinishInv, ReloadInv, AskInv, LookUpInv, MatchChunkInv, PublishInv, AbandonInv DEF Next
<1>2. CASE UNCHANGED vars
  BY <1>2 DEF vars, SearchInv, Fixed, StoreInv, CacheInv, ScanInv, MergerInv
<1> QED BY <1>1, <1>2

\* The chunks of the list follow each other, only the last one may change, and what
\* the cache, the search in progress and the last result say of theirs is true.
THEOREM Inductive == Spec => []SearchInv
<1>1. Init => SearchInv
  BY InitInv
<1>2. SearchInv /\ [Next]_vars => SearchInv'
  BY NextInv
<1> QED BY <1>1, <1>2, PTL DEF Spec

LEMMA CacheOfInv ==
    ASSUME SearchInv
    PROVE  CacheHoldsTheMatches
<1>1. Fixed /\ ChunkOk(store) /\ CacheOk(store, o, cache)
  BY DEF SearchInv, StoreInv, CacheInv
<1> SUFFICES ASSUME NEW e \in cache
             PROVE  /\ Sealed(e.id) /\ \A x \in cache : x.id = e.id /\ x.key = e.key => x = e
                    /\ \A q \in Queries : Cacheable(q) /\ CacheKey(q) = e.key =>
                         e.hits = {i \in DOMAIN store[e.id].items : PatternMatch(q, store[e.id].items[i]).matched}
  BY DEF CacheHoldsTheMatches
<1>2. e.id \in 1 .. Len(store) /\ store[e.id].sealed /\ \A x \in cache : x.id = e.id /\ x.key = e.key => x = e
  BY <1>1 DEF CacheOk
<1>3. ASSUME NEW q \in Queries, Cacheable(q), CacheKey(q) = e.key
      PROVE  e.hits = {i \in DOMAIN store[e.id].items : PatternMatch(q, store[e.id].items[i]).matched}
  <2>1. /\ IsCacheable(o, q) /\ KeyOf(o, q) = e.key
        /\ \A t \in Range(Feed) : PatternMatch(q, t).matched = AnswerOf(o, q)[t].hit
    BY <1>1, <1>3, PatternFacts
  <2>2. e.hits = HitsOf(store, e.id, AnswerOf(o, q))
    BY <1>1, <2>1 DEF CacheOk
  <2>3. /\ DOMAIN store[e.id].items = 1 .. Len(store[e.id].items)
        /\ \A i \in 1 .. Len(store[e.id].items) : store[e.id].items[i] \in Range(Feed)
    BY <1>1, <1>2, ChunkFacts
  <2> QED BY <2>1, <2>2, <2>3 DEF HitsOf, HitAt
<1> QED BY <1>2, <1>3 DEF Sealed

\* A bitmap in the cache of a chunk tells what a search of every line of it would find,
\* for every query that may use it (ChunkCache::add, ChunkCache::search).
THEOREM CacheIsRight == Spec => []CacheHoldsTheMatches
<1>1. SearchInv => CacheHoldsTheMatches
  BY CacheOfInv
<1> QED BY <1>1, Inductive, PTL

-----------------------------------------------------------------------------
(* The last result. *)

\* The number of items in the chunks of a snapshot before the k-th.
ItemsBefore(st, ids, counts, k) ==
    IF k <= Len(ids) THEN st[ids[k]].first
    ELSE IF ids = <<>> THEN 0 ELSE st[ids[Len(ids)]].first + counts[Len(ids)]

LEMMA BeforeStep ==
    ASSUME NEW st, NEW ids, NEW counts, Snapshot(st, ids, counts),
           \A c \in 1 .. Len(ids) : st[ids[c]].first \in Nat
    PROVE  /\ Len(ids) \in Nat
           /\ ItemsBefore(st, ids, counts, 1) = 0
           /\ \A k \in 1 .. Len(ids) + 1 : ItemsBefore(st, ids, counts, k) \in Nat
           /\ \A k \in 1 .. Len(ids) :
                 counts[k] \in Nat /\ ItemsBefore(st, ids, counts, k + 1) = ItemsBefore(st, ids, counts, k) + counts[k]
<1> DEFINE n == Len(ids)
<1>1. ids \in Seq(1 .. Len(st)) /\ n \in Nat /\ counts \in Seq(Nat) /\ Len(counts) = n
  BY DEF Snapshot
<1>2. \A k \in 1 .. n : counts[k] \in Nat
  BY <1>1
<1>3. ids = <<>> <=> n = 0
  BY <1>1
<1>4. ItemsBefore(st, ids, counts, 1) = 0
  <2>1. CASE n = 0
    BY <2>1, <1>3 DEF ItemsBefore
  <2>2. CASE n # 0
    <3>1. 1 <= n
      BY <2>2, <1>1
    <3> QED BY <2>2, <3>1, <1>3 DEF ItemsBefore, Snapshot
  <2> QED BY <2>1, <2>2
<1>5. ASSUME NEW k \in 1 .. n
      PROVE  ItemsBefore(st, ids, counts, k + 1) = ItemsBefore(st, ids, counts, k) + counts[k]
  <2>1. ItemsBefore(st, ids, counts, k) = st[ids[k]].first
    BY <1>1 DEF ItemsBefore
  <2>2. CASE k = n
    <3>1. ~(k + 1 <= n) /\ n # 0
      BY <2>2, <1>1
    <3> QED BY <2>1, <2>2, <3>1, <1>3 DEF ItemsBefore
  <2>3. CASE k < n
    <3>1. k + 1 <= n /\ k \in 1 .. n - 1
      BY <2>3, <1>1
    <3>2. st[ids[k + 1]].first = st[ids[k]].first + counts[k]
      BY <3>1 DEF Snapshot
    <3> QED BY <2>1, <3>1, <3>2 DEF ItemsBefore
  <2> QED BY <2>2, <2>3, <1>1
<1>6. ASSUME NEW k \in 1 .. n + 1 PROVE ItemsBefore(st, ids, counts, k) \in Nat
  <2>1. CASE k <= n
    BY <2>1, <1>1 DEF ItemsBefore
  <2>2. CASE ~(k <= n) /\ n = 0
    BY <2>2, <1>3 DEF ItemsBefore
  <2>3. CASE ~(k <= n) /\ n # 0
    <3>1. n \in 1 .. n
      BY <2>3, <1>1
    <3>2. st[ids[n]].first \in Nat /\ counts[n] \in Nat
      BY <3>1, <1>2
    <3> QED BY <2>3, <3>2, <1>3 DEF ItemsBefore
  <2> QED BY <2>1, <2>2, <2>3
<1> QED BY <1>1, <1>2, <1>4, <1>5, <1>6

\* Offset counts the items of the chunks before the k-th.
LEMMA OffsetIs ==
    ASSUME NEW m, Snapshot(store, m.ids, m.counts),
           \A c \in 1 .. Len(m.ids) : store[m.ids[c]].first \in Nat
    PROVE  \A k \in 1 .. Len(m.ids) + 1 : Offset(m, k) = ItemsBefore(store, m.ids, m.counts, k)
<1> DEFINE n       == Len(m.ids)
           D       == 1 .. Len(m.counts) + 1
           counts  == m.counts
           Step(h) == [i \in D |-> IF i = 1 THEN 0 ELSE h[i - 1] + m.counts[i - 1]]
           b(k)    == ItemsBefore(store, m.ids, m.counts, k)
           E       == [i \in D |-> b(i)]
           F       == CHOOSE h : h = Step(h)
<1>1. n \in Nat /\ D = 1 .. n + 1 /\ b(1) = 0 /\ \A k \in 1 .. n : counts[k] \in Nat /\ b(k + 1) = b(k) + counts[k]
  <2>1. Len(m.counts) = n
    BY DEF Snapshot
  <2> HIDE DEF b
  <2> QED BY <2>1, BeforeStep DEF b
<1>2. \A i \in D : i # 1 => i - 1 \in D /\ i - 1 \in 1 .. n /\ i - 1 + 1 = i
  <2> HIDE DEF D, n
  <2> QED BY <1>1
<1> HIDE DEF b, n, D
<1>3. E = Step(E)
  <2>1. ASSUME NEW i \in D PROVE b(i) = IF i = 1 THEN 0 ELSE E[i - 1] + m.counts[i - 1]
    <3>1. CASE i = 1
      BY <3>1, <1>1
    <3>2. CASE i # 1
      <4>1. E[i - 1] = b(i - 1)
        BY <3>2, <1>2
      <4>2. b(i - 1 + 1) = b(i - 1) + counts[i - 1] /\ i - 1 + 1 = i
        BY <3>2, <1>1, <1>2
      <4> QED BY <3>2, <4>1, <4>2
    <3> QED BY <3>1, <3>2
  <2> QED BY <2>1
<1>4. F = Step(F)
  <2> HIDE DEF E, Step
  <2> QED BY <1>3
<1> HIDE DEF F
<1>5. \A i \in D : F[i] = IF i = 1 THEN 0 ELSE F[i - 1] + m.counts[i - 1]
  BY <1>4
<1> HIDE DEF E, Step
<1>6. ASSUME NEW k \in D, F[k] # b(k) PROVE FALSE
  <2> DEFINE T == {i \in D : F[i] # b(i)}
  <2>1. T # {} /\ T \subseteq Nat
    BY <1>6, <1>1
  <2>2. PICK i \in T : \A j \in T : i <= j
    <3> HIDE DEF T
    <3> QED BY <2>1, NatLeast
  <2>3. i # 1
    BY <1>1, <1>5
  <2>4. i - 1 \in D /\ i - 1 \in 1 .. n /\ i - 1 + 1 = i /\ ~(i <= i - 1)
    BY <2>3, <1>1, <1>2
  <2>5. F[i - 1] = b(i - 1)
    BY <2>2, <2>4
  <2>6. b(i - 1 + 1) = b(i - 1) + counts[i - 1]
    BY <2>4, <1>1
  <2> QED BY <2>3, <2>4, <2>5, <2>6, <1>5
<1>7. ASSUME NEW k \in D PROVE Offset(m, k) = F[k]
  BY DEF Offset, F, Step, D
<1> QED BY <1>1, <1>6, <1>7 DEF b, n

\* The matching items of the snapshot of a result, and the order Walked puts them in.
Hits(m) ==
    {x \in UNION {{[index |-> store[m.ids[c]].first + k - 1, text |-> store[m.ids[c]].items[k]]
                      : k \in 1 .. m.counts[c]} : c \in DOMAIN m.ids} : PatternMatch(m.query, x.text).matched}

Ahead(m, x, y) ==
    LET rank(z) == Rank(PatternMatch(m.query, z.text), z.text)
        ranked  == ~patterns[m.query].empty /\ o.sort /\ patterns[m.query].sortable
    IN  IF ranked /\ rank(x) # rank(y) THEN RankLess(rank(x), rank(y))
        ELSE IF o.tac THEN x.index > y.index ELSE x.index < y.index

LEMMA WalkedIs ==
    ASSUME NEW m
    PROVE  Walked(m) = LET seq == InOrder(Hits(m), LAMBDA x, y : Ahead(m, x, y))
                       IN  [i \in DOMAIN seq |-> seq[i].index]
BY DEF Walked, Hits, Ahead, InOrder

\* A numbering of items that leaves none out and respects their order.
Numbers(g, H, R) ==
    /\ g \in Seq(Int)
    /\ \A i \in 1 .. Len(g) : \E x \in H : x.index = g[i]
    /\ \A x \in H : \E i \in 1 .. Len(g) : x.index = g[i]
    /\ \A i, j \in 1 .. Len(g) : i < j =>
          \A x, y \in H : x.index = g[i] /\ y.index = g[j] => <<x, y>> \in R

LEMMA Numbered ==
    ASSUME NEW g, NEW H, NEW R, Numbers(g, H, R), OneWay(H, R), \A x, y \in H : x.index = y.index => x = y
    PROVE  /\ \E s : Lists(s, H, R) /\ Len(s) = Len(g) /\ \A i \in 1 .. Len(g) : s[i].index = g[i]
           /\ \A i, j \in 1 .. Len(g) : g[i] = g[j] => i = j
<1> DEFINE n == Len(g)
           s == [i \in 1 .. n |-> CHOOSE x \in H : x.index = g[i]]
<1>1. n \in Nat /\ \A i \in 1 .. n : g[i] \in Int
  BY DEF Numbers
<1>2. ASSUME NEW i \in 1 .. n PROVE s[i] \in H /\ s[i].index = g[i]
  <2>1. \E x \in H : x.index = g[i]
    BY DEF Numbers
  <2>2. s[i] = CHOOSE x \in H : x.index = g[i]
    OBVIOUS
  <2> HIDE DEF s
  <2> QED BY <2>1, <2>2
<1>3. s \in Seq(H) /\ Len(s) = n
  <2>1. s \in [1 .. n -> H]
    BY <1>2
  <2> HIDE DEF s, n
  <2> QED BY <2>1, <1>1, SeqFrom
<1> HIDE DEF s
<1>4. \A x \in H : \E i \in 1 .. n : s[i] = x
  <2>1. ASSUME NEW x \in H PROVE \E i \in 1 .. n : s[i] = x
    <3>1. PICK i \in 1 .. n : x.index = g[i]
      BY DEF Numbers
    <3> QED BY <3>1, <1>2
  <2> QED BY <2>1
<1>5. ASSUME NEW i \in 1 .. n, NEW j \in 1 .. n, i < j PROVE <<s[i], s[j]>> \in R
  BY <1>2, <1>5 DEF Numbers
<1>6. Lists(s, H, R)
  BY <1>3, <1>4, <1>5 DEF Lists
<1>7. ASSUME NEW i \in 1 .. n, NEW j \in 1 .. n, i < j PROVE g[i] # g[j]
  <2>1. <<s[i], s[j]>> \in R /\ s[i] \in H /\ s[j] \in H
    BY <1>2, <1>5, <1>7
  <2>2. s[i] # s[j]
    BY <2>1 DEF OneWay
  <2> QED BY <2>1, <2>2, <1>2
<1>8. ASSUME NEW i \in 1 .. n, NEW j \in 1 .. n, g[i] = g[j] PROVE i = j
  <2>1. ~(i < j) /\ ~(j < i)
    BY <1>7, <1>8
  <2> QED BY <2>1, <1>1
<1> QED BY <1>2, <1>3, <1>6, <1>8

\* A numbering that respects the order of a walk is what the walk finds.
LEMMA WalkOf ==
    ASSUME NEW m, NEW g, NEW R, \A x, y \in Hits(m) : <<x, y>> \in R <=> Ahead(m, x, y),
           Numbers(g, Hits(m), R), OneWay(Hits(m), R), \A x, y \in Hits(m) : x.index = y.index => x = y
    PROVE  Walked(m) = g
<1> DEFINE H == Hits(m)
           f == InOrder(H, LAMBDA x, y : Ahead(m, x, y))
           N(x) == Cardinality({y \in H : Ahead(m, y, x)})
<1>1. PICK s : Lists(s, H, R) /\ Len(s) = Len(g) /\ \A i \in 1 .. Len(g) : s[i].index = g[i]
  BY Numbered
<1>2. Walked(m) = [i \in DOMAIN f |-> f[i].index]
  BY WalkedIs
<1>3. f = [i \in 1 .. Cardinality(H) |-> CHOOSE x \in H : N(x) = i - 1]
  BY DEF InOrder
<1>4. \A x \in H : {y \in H : Ahead(m, y, x)} = Below(H, R, x)
  BY DEF Below
<1> HIDE DEF H, f
<1>5. /\ Cardinality(H) = Len(s)
      /\ \A i \in 1 .. Len(s), x \in H : Cardinality(Below(H, R, x)) = i - 1 <=> x = s[i]
  BY <1>1, ListedIs DEF H
<1>6. s \in Seq(H) /\ Len(s) \in Nat /\ \A i \in 1 .. Len(s) : s[i] \in H
  BY <1>1 DEF Lists
<1>7. \A x \in H : N(x) = Cardinality(Below(H, R, x))
  BY <1>4
<1> HIDE DEF N
<1>8. ASSUME NEW i \in 1 .. Len(g) PROVE f[i] = s[i]
  <2>1. \A x \in H : N(x) = i - 1 <=> x = s[i]
    BY <1>1, <1>5, <1>7
  <2>2. f[i] = CHOOSE x \in H : N(x) = i - 1
    BY <1>1, <1>3, <1>5
  <2> QED BY <2>1, <2>2, <1>1, <1>6
<1>9. DOMAIN f = 1 .. Len(g)
  BY <1>1, <1>3, <1>5
<1>10. Walked(m) = [i \in 1 .. Len(g) |-> g[i]]
  BY <1>1, <1>2, <1>8, <1>9
<1>11. g = [i \in 1 .. Len(g) |-> g[i]]
  BY DEF Numbers
<1> QED BY <1>10, <1>11

\* x is the k-th item of the c-th chunk of the snapshot, and it matches.
IsItem(m, x, c, k) ==
    LET a == AnswerOf(o, m.query)
    IN  /\ c \in 1 .. Len(m.ids) /\ k \in 1 .. m.counts[c]
        /\ x = [index |-> store[m.ids[c]].first + k - 1, text |-> store[m.ids[c]].items[k]]
        /\ HitAt(store, m.ids[c], k, a)
        /\ x.index = EntryAt(store, m.ids[c], k, a).index /\ x.index \in Int
        /\ Rank(PatternMatch(m.query, x.text), x.text) = EntryAt(store, m.ids[c], k, a).rank
        /\ EntryAt(store, m.ids[c], k, a) \in Entry(o)

LEMMA HitFacts ==
    ASSUME Fixed, ChunkOk(store), NEW m, m.query \in Queries, Snapshot(store, m.ids, m.counts)
    PROVE  /\ \A x \in Hits(m) : \E c, k : IsItem(m, x, c, k)
           /\ \A c \in 1 .. Len(m.ids) : \A k \in 1 .. m.counts[c] :
                 HitAt(store, m.ids[c], k, AnswerOf(o, m.query)) =>
                    \E x \in Hits(m) : IsItem(m, x, c, k)
           /\ \A x, y \in Hits(m) : x.index = y.index => x = y
<1> DEFINE a        == AnswerOf(o, m.query)
           it(c, k) == [index |-> store[m.ids[c]].first + k - 1, text |-> store[m.ids[c]].items[k]]
<1>0. o \in Settings /\ DOMAIN m.ids = 1 .. Len(m.ids) /\ Len(m.ids) \in Nat
  BY DEF Snapshot, Fixed
<1>1. ASSUME NEW c \in 1 .. Len(m.ids), NEW k \in 1 .. m.counts[c]
      PROVE  /\ store[m.ids[c]].items[k] \in Range(Feed)
             /\ store[m.ids[c]].first \in Nat /\ m.counts[c] \in Nat /\ it(c, k).index \in Int
             /\ it(c, k) \in Hits(m) <=> HitAt(store, m.ids[c], k, a)
             /\ HitAt(store, m.ids[c], k, a) => IsItem(m, it(c, k), c, k)
  <2> DEFINE t == store[m.ids[c]].items[k]
             i == store[m.ids[c]].first + k - 1
             e == EntryAt(store, m.ids[c], k, a)
  <2>1. t \in Range(Feed) /\ store[m.ids[c]].first \in Nat /\ m.counts[c] \in Nat
    BY SnapshotFacts
  <2>2. i \in Int
    BY <2>1
  <2>3. /\ PatternMatch(m.query, t).matched = a[t].hit
        /\ Rank(PatternMatch(m.query, t), t) = a[t].rank
        /\ a[t].rank \in [1 .. Len(o.criteria) -> Int]
    BY <1>0, <2>1, PatternFacts, AnswerFacts
  <2>4. e.index = i /\ e.rank = a[t].rank /\ e \in Entry(o)
    BY <2>2, <2>3 DEF EntryAt, Entry
  <2>5. HitAt(store, m.ids[c], k, a) <=> a[t].hit
    BY DEF HitAt
  <2> DEFINE U == UNION {{it(d, l) : l \in 1 .. m.counts[d]} : d \in DOMAIN m.ids}
  <2>6. it(c, k) \in U
    <3> DEFINE V(d) == {it(d, l) : l \in 1 .. m.counts[d]}
    <3>1. it(c, k) \in V(c)
      OBVIOUS
    <3>2. V(c) \in {V(d) : d \in DOMAIN m.ids}
      <4> HIDE DEF V
      <4> QED BY <1>0
    <3>3. U = UNION {V(d) : d \in DOMAIN m.ids}
      OBVIOUS
    <3> HIDE DEF V, U, it
    <3> QED BY <3>1, <3>2, <3>3
  <2>7. Hits(m) = {x \in U : PatternMatch(m.query, x.text).matched}
    BY DEF Hits
  <2>8. it(c, k).index = i /\ it(c, k).text = t /\ it(c, k) = [index |-> i, text |-> t]
    OBVIOUS
  <2>9. it(c, k) \in Hits(m) <=> HitAt(store, m.ids[c], k, a)
    <3> HIDE DEF U, it, t, a
    <3> QED BY <2>3, <2>5, <2>6, <2>7, <2>8
  <2>10. HitAt(store, m.ids[c], k, a) => IsItem(m, it(c, k), c, k)
    <3> HIDE DEF t, a, e, i
    <3> QED BY <2>2, <2>3, <2>4, <2>8 DEF IsItem, a, e, i, t
  <2> QED BY <2>1, <2>2, <2>9, <2>10
<1>2. ASSUME NEW x \in Hits(m)
      PROVE  \E c \in 1 .. Len(m.ids) : \E k \in 1 .. m.counts[c] : x = it(c, k)
  BY <1>0 DEF Hits
<1>3. ASSUME NEW x \in Hits(m), NEW y \in Hits(m), x.index = y.index PROVE x = y
  <2>1. PICK c \in 1 .. Len(m.ids) : \E k \in 1 .. m.counts[c] : x = it(c, k)
    BY <1>2
  <2>2. PICK k \in 1 .. m.counts[c] : x = it(c, k)
    BY <2>1
  <2>3. PICK d \in 1 .. Len(m.ids) : \E l \in 1 .. m.counts[d] : y = it(d, l)
    BY <1>2
  <2>4. PICK l \in 1 .. m.counts[d] : y = it(d, l)
    BY <2>3
  <2> DEFINE fc == store[m.ids[c]].first
             fd == store[m.ids[d]].first
             nc == m.counts[c]
             nd == m.counts[d]
  <2>5. fc \in Nat /\ fd \in Nat /\ nc \in Nat /\ nd \in Nat /\ fc + k - 1 = fd + l - 1 /\ k \in 1 .. nc /\ l \in 1 .. nd
    BY <1>1, <1>3, <2>2, <2>4
  <2>6. (c < d => fc + nc <= fd) /\ (d < c => fd + nd <= fc)
    BY DEF Snapshot
  <2>7. c = d => fc = fd
    OBVIOUS
  <2> HIDE DEF fc, fd, nc, nd
  <2>8. ~(c < d) /\ ~(d < c)
    BY <2>5, <2>6
  <2>9. c = d /\ k = l
    BY <1>0, <2>5, <2>7, <2>8
  <2> QED BY <2>2, <2>4, <2>9
<1>4. ASSUME NEW x \in Hits(m) PROVE \E c, k : IsItem(m, x, c, k)
  <2>1. PICK c \in 1 .. Len(m.ids) : \E k \in 1 .. m.counts[c] : x = it(c, k)
    BY <1>2
  <2>2. PICK k \in 1 .. m.counts[c] : x = it(c, k)
    BY <2>1
  <2> HIDE DEF it
  <2>3. IsItem(m, it(c, k), c, k)
    BY <1>1, <2>2
  <2> QED BY <2>2, <2>3
<1>5. ASSUME NEW c \in 1 .. Len(m.ids), NEW k \in 1 .. m.counts[c], HitAt(store, m.ids[c], k, a)
      PROVE  \E x \in Hits(m) : IsItem(m, x, c, k)
  <2> HIDE DEF it, a
  <2> QED BY <1>1, <1>5
<1> QED BY <1>3, <1>4, <1>5

WalkOrder(m) == {p \in Hits(m) \X Hits(m) : Ahead(m, p[1], p[2])}

RankOf(m, x) == Rank(PatternMatch(m.query, x.text), x.text)

LEMMA WalkOrderFacts ==
    ASSUME Fixed, ChunkOk(store), NEW m, m.query \in Queries, Snapshot(store, m.ids, m.counts)
    PROVE  /\ \A x, y \in Hits(m) : <<x, y>> \in WalkOrder(m) <=> Ahead(m, x, y)
           /\ OneWay(Hits(m), WalkOrder(m))
           /\ \A x \in Hits(m) : x.index \in Int /\ RankOf(m, x) \in [1 .. Len(o.criteria) -> Int]
<1>1. \A x, y \in Hits(m) : <<x, y>> \in WalkOrder(m) <=> Ahead(m, x, y)
  BY DEF WalkOrder
<1>2. ASSUME NEW x \in Hits(m) PROVE x.index \in Int /\ RankOf(m, x) \in [1 .. Len(o.criteria) -> Int]
  <2>1. PICK c, k : IsItem(m, x, c, k)
    BY HitFacts
  <2> DEFINE e == EntryAt(store, m.ids[c], k, AnswerOf(o, m.query))
  <2>2. x.index \in Int /\ RankOf(m, x) = e.rank /\ e \in Entry(o)
    BY <2>1 DEF IsItem, RankOf
  <2> HIDE DEF e
  <2> QED BY <2>2 DEF Entry
<1>3. Len(o.criteria) \in Nat /\ o.tac \in BOOLEAN
  BY OptionFacts DEF Fixed
<1>4. ASSUME NEW x \in Hits(m), NEW y \in Hits(m), Ahead(m, x, y) PROVE ~Ahead(m, y, x)
  <2> DEFINE n  == Len(o.criteria)
             rx == RankOf(m, x)
             ry == RankOf(m, y)
             ix == x.index
             iy == y.index
             ranked == ~patterns[m.query].empty /\ o.sort /\ patterns[m.query].sortable
  <2>1. rx \in [1 .. n -> Int] /\ ry \in [1 .. n -> Int] /\ n \in Nat /\ ix \in Int /\ iy \in Int
    BY <1>2, <1>3
  <2>2. /\ Ahead(m, x, y) <=> IF ranked /\ rx # ry THEN RankLess(rx, ry) ELSE IF o.tac THEN ix > iy ELSE ix < iy
        /\ Ahead(m, y, x) <=> IF ranked /\ ry # rx THEN RankLess(ry, rx) ELSE IF o.tac THEN iy > ix ELSE iy < ix
    BY DEF Ahead, RankOf
  <2> HIDE DEF n, rx, ry, ix, iy, ranked
  <2>3. ~RankLess(rx, rx) /\ (RankLess(rx, ry) /\ RankLess(ry, rx) => RankLess(rx, rx))
    BY <2>1, RankOrder
  <2> QED BY <2>1, <2>2, <2>3, <1>3, <1>4
<1>5. OneWay(Hits(m), WalkOrder(m))
  BY <1>1, <1>4 DEF OneWay
<1> QED BY <1>1, <1>2, <1>5

\* The results of a scan number its matches in their order.
LEMMA FoundNumbers ==
    ASSUME Fixed, ChunkOk(store), NEW m, m \in Merger(o), MergerOk(store, o, m), ~m.pass
    PROVE  /\ Count(m) \in Nat
           /\ Numbers([i \in 1 .. Count(m) |-> Get(m, i - 1)], Hits(m), WalkOrder(m))
           /\ \A i \in 1 .. Count(m) : Get(m, i - 1) = At(m, i - 1).index
<1> DEFINE a    == AnswerOf(o, m.query)
           f    == m.found
           n    == Len(f)
           rev  == ~m.sorted /\ o.tac
           P(i) == IF rev THEN n - i + 1 ELSE i
           g    == [i \in 1 .. Count(m) |-> Get(m, i - 1)]
<1>1. /\ m.query \in Queries /\ f \in Seq(Entry(o)) /\ m.sorted \in BOOLEAN
      /\ ~BuildPattern(o, m.query).empty
      /\ m.sorted = (o.sort /\ BuildPattern(o, m.query).sortable)
      /\ FoundIn(store, m.ids, m.counts, a, f, Len(m.ids)) /\ Snapshot(store, m.ids, m.counts)
      /\ IF m.sorted THEN Sorted(o, f) ELSE Ascending(f)
  <2>1. m # Idle
    <3>1. m.on = TRUE
      BY DEF Merger
    <3>2. Idle.on = FALSE
      BY DEF Idle
    <3> QED BY <3>1, <3>2
  <2> QED BY <2>1 DEF Merger, MergerOk
<1>2. Count(m) = n /\ n \in Nat
  BY <1>1 DEF Count
<1>3. o.tac \in BOOLEAN /\ Len(o.criteria) \in Nat /\ patterns[m.query] = BuildPattern(o, m.query)
  BY <1>1, OptionFacts, PatternFacts DEF Fixed
<1>4. ASSUME NEW i \in 1 .. n
      PROVE  At(m, i - 1) = f[P(i)] /\ Get(m, i - 1) = f[P(i)].index /\ P(i) \in 1 .. n /\ P(P(i)) = i
  <2>1. 1 + (IF rev THEN n - 1 - (i - 1) ELSE i - 1) = P(i) /\ P(i) \in 1 .. n /\ P(P(i)) = i
    BY <1>2
  <2>2. At(m, i - 1) = f[P(i)]
    BY <2>1 DEF At
  <2>3. Get(m, i - 1) = At(m, i - 1).index
    BY DEF Get
  <2> QED BY <2>1, <2>2, <2>3
<1>5. ASSUME NEW j \in 1 .. n PROVE f[j].index \in Int /\ f[j].rank \in [1 .. Len(o.criteria) -> Int]
  <2>1. f[j] \in Entry(o)
    BY <1>1, SeqMember
  <2> QED BY <2>1 DEF Entry
<1>6. ASSUME NEW j \in 1 .. n PROVE \E x \in Hits(m) : x.index = f[j].index /\ RankOf(m, x) = f[j].rank
  <2>1. PICK c \in 1 .. Len(m.ids) : \E k \in 1 .. m.counts[c] :
           HitAt(store, m.ids[c], k, a) /\ f[j] = EntryAt(store, m.ids[c], k, a)
    BY <1>1 DEF FoundIn
  <2>2. PICK k \in 1 .. m.counts[c] : HitAt(store, m.ids[c], k, a) /\ f[j] = EntryAt(store, m.ids[c], k, a)
    BY <2>1
  <2>3. PICK x \in Hits(m) : IsItem(m, x, c, k)
    BY <1>1, <2>2, HitFacts
  <2> QED BY <2>2, <2>3 DEF IsItem, RankOf
<1>7. ASSUME NEW x \in Hits(m) PROVE \E j \in 1 .. n : x.index = f[j].index /\ RankOf(m, x) = f[j].rank
  <2>1. PICK c, k : IsItem(m, x, c, k)
    BY <1>1, HitFacts
  <2>2. c \in 1 .. Len(m.ids) /\ k \in 1 .. m.counts[c] /\ HitAt(store, m.ids[c], k, a)
        /\ x.index = EntryAt(store, m.ids[c], k, a).index /\ RankOf(m, x) = EntryAt(store, m.ids[c], k, a).rank
    BY <2>1 DEF IsItem, RankOf
  <2>3. PICK j \in 1 .. n : f[j] = EntryAt(store, m.ids[c], k, a)
    BY <1>1, <2>2 DEF FoundIn
  <2> QED BY <2>2, <2>3
<1>8. \A x, y \in Hits(m) : x.index = y.index => x = y
  BY <1>1, HitFacts
<1>9. ASSUME NEW j \in 1 .. n, NEW x \in Hits(m), x.index = f[j].index PROVE RankOf(m, x) = f[j].rank
  BY <1>6, <1>8, <1>9
<1> DEFINE ranked == ~patterns[m.query].empty /\ o.sort /\ patterns[m.query].sortable
<1>10. ranked <=> m.sorted
  BY <1>1, <1>3
<1> HIDE DEF P, f, n, ranked
<1>11. ASSUME NEW i \in 1 .. n, NEW j \in 1 .. n, i < j, NEW x \in Hits(m), NEW y \in Hits(m),
              x.index = f[P(i)].index, y.index = f[P(j)].index
       PROVE  Ahead(m, x, y)
  <2> DEFINE u == P(i)
             v == P(j)
             rx == RankOf(m, x)
             ry == RankOf(m, y)
             ix == x.index
             iy == y.index
  <2>1. u \in 1 .. n /\ v \in 1 .. n /\ ix = f[u].index /\ iy = f[v].index /\ rx = f[u].rank /\ ry = f[v].rank
        /\ ix \in Int /\ iy \in Int /\ rx \in [1 .. Len(o.criteria) -> Int]
    BY <1>4, <1>5, <1>9, <1>11
  <2>2. Ahead(m, x, y) <=> IF ranked /\ rx # ry THEN RankLess(rx, ry) ELSE IF o.tac THEN ix > iy ELSE ix < iy
    BY DEF Ahead, RankOf, ranked
  <2>3. IF rev THEN v < u ELSE u < v
    BY <1>2, <1>11 DEF P
  <2> HIDE DEF u, v, rx, ry, ix, iy
  <2>4. CASE m.sorted
    <3>1. Precedes(o, f[u], f[v])
      BY <1>1, <2>1, <2>3, <2>4 DEF Sorted, f, n
    <3>2. ~RankLess(rx, rx)
      BY <2>1 DEF RankLess
    <3> QED BY <1>10, <2>1, <2>2, <2>4, <3>1, <3>2 DEF Precedes
  <2>5. CASE ~m.sorted
    <3>1. Ascending(f)
      BY <1>1, <2>5 DEF f
    <3>2. IF o.tac THEN iy < ix ELSE ix < iy
      BY <2>1, <2>3, <2>5, <3>1 DEF Ascending, n
    <3> QED BY <1>10, <2>1, <2>2, <2>5, <3>2
  <2> QED BY <2>4, <2>5
<1>12. Len(g) = n /\ g \in Seq(Int) /\ \A i \in 1 .. n : g[i] = f[P(i)].index
  <2>1. \A i \in 1 .. n : g[i] = f[P(i)].index /\ g[i] \in Int
    BY <1>2, <1>4, <1>5
  <2>2. g \in [1 .. n -> Int]
    BY <1>2, <2>1
  <2> HIDE DEF g
  <2> QED BY <1>2, <2>1, <2>2, SeqFrom
<1> HIDE DEF g
<1>13. ASSUME NEW i \in 1 .. n PROVE \E x \in Hits(m) : x.index = g[i]
  <2>1. P(i) \in 1 .. n /\ g[i] = f[P(i)].index
    BY <1>4, <1>12
  <2> QED BY <1>6, <2>1
<1>14. \A x \in Hits(m) : \E i \in 1 .. n : x.index = g[i]
  <2>1. ASSUME NEW x \in Hits(m) PROVE \E i \in 1 .. n : x.index = g[i]
    <3>1. PICK j \in 1 .. n : x.index = f[j].index
      BY <1>7
    <3>2. P(j) \in 1 .. n /\ P(P(j)) = j
      BY <1>4
    <3>3. g[P(j)] = f[P(P(j))].index
      BY <1>12, <3>2
    <3> QED BY <3>1, <3>2, <3>3
  <2> QED BY <2>1
<1>15. ASSUME NEW i \in 1 .. n, NEW j \in 1 .. n, i < j, NEW x \in Hits(m), NEW y \in Hits(m),
              x.index = g[i], y.index = g[j]
       PROVE  <<x, y>> \in WalkOrder(m)
  <2>1. Ahead(m, x, y)
    BY <1>11, <1>12, <1>15
  <2> QED BY <1>1, <2>1, WalkOrderFacts
<1>16. Numbers(g, Hits(m), WalkOrder(m))
  BY <1>12, <1>13, <1>14, <1>15 DEF Numbers
<1> QED BY <1>2, <1>4, <1>16 DEF g

\* A result that passes everything: its places are the items of its chunks in turn.
LEMMA PassFacts ==
    ASSUME ChunkOk(store), NEW m, Snapshot(store, m.ids, m.counts), m.pass
    PROVE  /\ Count(m) \in Nat /\ Len(m.ids) \in Nat /\ DOMAIN m.ids = 1 .. Len(m.ids)
           /\ \A k \in 1 .. Len(m.ids) :
                /\ Offset(m, k) = store[m.ids[k]].first
                /\ store[m.ids[k]].first \in Nat /\ m.counts[k] \in Nat
                /\ store[m.ids[k]].first + m.counts[k] <= Count(m)
           /\ \A p \in 0 .. Count(m) - 1 :
                /\ \E k \in 1 .. Len(m.ids) : Offset(m, k) <= p /\ p < store[m.ids[k]].first + m.counts[k]
                /\ Max({k \in DOMAIN m.ids : Offset(m, k) <= p}) \in 1 .. Len(m.ids)
<1> DEFINE n    == Len(m.ids)
           b(k) == ItemsBefore(store, m.ids, m.counts, k)
           F(k) == store[m.ids[k]].first
           T    == Count(m)
<1>1. n \in Nat /\ DOMAIN m.ids = 1 .. n /\ Len(m.counts) = n
  BY DEF Snapshot
<1>2. \A k \in 1 .. n : F(k) \in Nat /\ m.counts[k] \in Nat
  BY SnapshotFacts
<1>3. \A k \in 1 .. n + 1 : Offset(m, k) = b(k)
  BY <1>2, OffsetIs
<1>4. /\ b(1) = 0 /\ \A k \in 1 .. n + 1 : b(k) \in Nat
      /\ \A k \in 1 .. n : b(k + 1) = b(k) + m.counts[k]
  BY <1>2, BeforeStep
<1>5. \A k \in 1 .. n : b(k) = F(k)
  BY DEF ItemsBefore
<1> HIDE DEF b, F, T
<1>6. T = b(n + 1) /\ T \in Nat
  <2>1. T = Offset(m, n + 1)
    BY <1>1 DEF Count, T
  <2>2. n + 1 \in 1 .. n + 1
    BY <1>1
  <2> HIDE DEF n
  <2> QED BY <1>3, <1>4, <2>1, <2>2
<1>7. ASSUME NEW k \in 1 .. n PROVE F(k) + m.counts[k] <= T
  <2>1. b(n + 1) = F(n) + m.counts[n] /\ F(n) \in Nat /\ m.counts[n] \in Nat
    <3>1. n \in 1 .. n
      BY <1>1
    <3> HIDE DEF n
    <3> QED BY <1>2, <1>4, <1>5, <3>1
  <2>2. CASE k = n
    BY <1>6, <2>1, <2>2
  <2>3. CASE k < n
    <3>1. n \in 1 .. n
      BY <1>1
    <3>2. F(k) + m.counts[k] <= F(n)
      BY <2>3, <3>1 DEF Snapshot, F
    <3>3. F(k) \in Nat /\ m.counts[k] \in Nat
      BY <1>2
    <3> QED BY <1>6, <2>1, <3>2, <3>3
  <2> QED BY <1>1, <2>2, <2>3
<1>8. ASSUME NEW p \in 0 .. T - 1
      PROVE  /\ \E k \in 1 .. n : Offset(m, k) <= p /\ p < F(k) + m.counts[k]
             /\ Max({k \in DOMAIN m.ids : Offset(m, k) <= p}) \in 1 .. n
  <2> DEFINE K == {k \in DOMAIN m.ids : Offset(m, k) <= p}
             k == Max(K)
  <2>1. p \in Int /\ 0 <= p /\ p < T
    BY <1>6
  <2>2. 1 \in 1 .. n
    <3>1. n # 0
      BY <1>4, <1>6, <2>1
    <3> QED BY <1>1, <3>1
  <2>3. 1 \in K
    <3>1. Offset(m, 1) = 0
      BY <1>1, <1>3, <1>4
    <3> QED BY <1>1, <2>1, <2>2, <3>1
  <2>4. K \subseteq 1 .. n
    BY <1>1
  <2>5. \A l \in 1 .. n : l \in K <=> b(l) <= p
    BY <1>1, <1>3
  <2> HIDE DEF K
  <2>6. k \in K /\ \A l \in K : l <= k
    <3>1. n \in Int /\ 1 \in Int
      BY <1>1
    <3> HIDE DEF n
    <3> QED BY <2>3, <2>4, <3>1, IntExtrema
  <2> HIDE DEF k
  <2>7. k \in 1 .. n
    BY <2>4, <2>6
  <2>8. b(k + 1) > p
    <3>1. CASE k = n
      BY <1>6, <2>1, <3>1
    <3>2. CASE k # n
      <4>1. k + 1 \in 1 .. n /\ ~(k + 1 <= k)
        BY <1>1, <2>7, <3>2
      <4>2. k + 1 \notin K
        BY <2>6, <4>1
      <4>3. ~(b(k + 1) <= p) /\ b(k + 1) \in Nat
        BY <1>4, <2>5, <4>1, <4>2
      <4> QED BY <2>1, <4>3
    <3> QED BY <3>1, <3>2
  <2>9. Offset(m, k) <= p /\ p < F(k) + m.counts[k]
    <3>1. Offset(m, k) = b(k) /\ b(k) <= p /\ b(k) = F(k) /\ b(k + 1) = b(k) + m.counts[k]
      BY <1>3, <1>4, <1>5, <2>5, <2>6, <2>7
    <3>2. b(k) \in Nat /\ m.counts[k] \in Nat
      BY <1>2, <1>4, <2>7
    <3> QED BY <2>1, <2>8, <3>1, <3>2
  <2> QED BY <2>7, <2>9 DEF k, K
<1>9. \A k \in 1 .. n : Offset(m, k) = F(k)
  <2>1. \A k \in 1 .. n : k \in 1 .. n + 1
    BY <1>1
  <2> QED BY <1>3, <1>5, <2>1
<1>10. \A k \in 1 .. n : F(k) + m.counts[k] <= T
  BY <1>7
<1> DEFINE G == \A p \in 0 .. T - 1 :
                   /\ \E k \in 1 .. n : Offset(m, k) <= p /\ p < F(k) + m.counts[k]
                   /\ Max({k \in DOMAIN m.ids : Offset(m, k) <= p}) \in 1 .. n
<1>11. G
  BY <1>8
<1> HIDE DEF G
<1> QED BY <1>1, <1>2, <1>6, <1>9, <1>10, <1>11, Zenon DEF F, T, G

\* Get and Find count from the other end with --tac.
LEMMA PassGetFind ==
    ASSUME ChunkOk(store), o.tac \in BOOLEAN, NEW m, Snapshot(store, m.ids, m.counts), m.pass,
           NEW i \in 0 .. Count(m) - 1
    PROVE  /\ Get(m, i) = IF o.tac THEN Count(m) - 1 - i ELSE i
           /\ Find(m, Get(m, i)) = i
<1> DEFINE n    == Len(m.ids)
           T    == Count(m)
           F(k) == store[m.ids[k]].first
           p    == IF o.tac THEN T - 1 - i ELSE i
           mx   == Max({k \in DOMAIN m.ids : Offset(m, k) <= p})
<1>1. /\ T \in Nat /\ n \in Nat /\ DOMAIN m.ids = 1 .. n
      /\ \A k \in 1 .. n : Offset(m, k) = F(k) /\ F(k) \in Nat /\ m.counts[k] \in Nat
  BY PassFacts
<1>2. p \in 0 .. T - 1
  BY <1>1
<1>3. mx \in 1 .. n /\ \E k \in 1 .. n : Offset(m, k) <= p /\ p < F(k) + m.counts[k]
  <2> HIDE DEF p
  <2> QED BY <1>2, PassFacts
<1>4. Get(m, i) = F(mx) + p - Offset(m, mx)
  BY DEF Get
<1> HIDE DEF p, mx, F, T, n
<1>5. Get(m, i) = p
  <2>1. Offset(m, mx) = F(mx) /\ F(mx) \in Nat
    BY <1>1, <1>3
  <2> QED BY <1>2, <1>4, <2>1
<1>6. PICK k \in 1 .. n : Offset(m, k) <= p /\ p < F(k) + m.counts[k]
  BY <1>3
<1> DEFINE holds == {l \in DOMAIN m.ids : p - F(l) \in 0 .. m.counts[l] - 1}
<1>7. F(k) <= p /\ p < F(k) + m.counts[k] /\ F(k) \in Nat /\ m.counts[k] \in Nat /\ Offset(m, k) = F(k) /\ p \in Int
  BY <1>1, <1>2, <1>6
<1>8. holds = {k}
  <2>1. k \in holds
    <3>1. p - F(k) \in 0 .. m.counts[k] - 1
      BY <1>7
    <3> QED BY <1>1, <3>1
  <2>2. ASSUME NEW l \in holds PROVE l = k
    <3>1. l \in 1 .. n /\ F(l) \in Nat /\ m.counts[l] \in Nat /\ p - F(l) \in 0 .. m.counts[l] - 1
      BY <1>1
    <3>2. F(l) <= p /\ p < F(l) + m.counts[l]
      BY <1>7, <3>1
    <3>3. (l < k => F(l) + m.counts[l] <= F(k)) /\ (k < l => F(k) + m.counts[k] <= F(l))
      BY <3>1 DEF Snapshot, F, n
    <3>4. ~(l < k) /\ ~(k < l)
      BY <1>7, <3>1, <3>2, <3>3
    <3> QED BY <1>1, <3>1, <3>4
  <2> QED BY <2>1, <2>2
<1>9. Min(holds) = k
  <2>1. k \in Int /\ {k} \subseteq k .. k /\ {k} # {}
    BY <1>1
  <2>2. Min({k}) \in {k}
    <3> DEFINE S == {k}
    <3>1. S \subseteq k .. k /\ S # {} /\ k \in Int
      BY <2>1
    <3> HIDE DEF S
    <3>2. Min(S) \in S
      BY <3>1, IntExtrema
    <3> QED BY <3>2 DEF S
  <2> QED BY <1>8, <2>2
<1>10. Find(m, p) = IF o.tac THEN T - 1 - (Offset(m, k) + p - F(k)) ELSE Offset(m, k) + p - F(k)
  <2>1. holds # {}
    BY <1>8
  <2>2. Find(m, p) = IF holds = {} THEN -1
                     ELSE IF o.tac THEN T - 1 - (Offset(m, Min(holds)) + p - F(Min(holds)))
                          ELSE Offset(m, Min(holds)) + p - F(Min(holds))
    BY DEF Find, F, T
  <2> HIDE DEF holds
  <2> QED BY <1>9, <2>1, <2>2
<1>11. Find(m, p) = IF o.tac THEN T - 1 - p ELSE p
  BY <1>1, <1>7, <1>10
<1>12. (IF o.tac THEN T - 1 - p ELSE p) = i
  <2>1. i \in Int
    BY <1>1 DEF T
  <2> QED BY <1>1, <2>1 DEF p
<1> QED BY <1>5, <1>11, <1>12 DEF p, T

\* A result that passes everything numbers the items of its snapshot in turn.
LEMMA PassNumbers ==
    ASSUME Fixed, ChunkOk(store), NEW m, m \in Merger(o), MergerOk(store, o, m), m.pass
    PROVE  Numbers([i \in 1 .. Count(m) |-> Get(m, i - 1)], Hits(m), WalkOrder(m))
<1> DEFINE a    == AnswerOf(o, m.query)
           n    == Len(m.ids)
           T    == Count(m)
           F(k) == store[m.ids[k]].first
           P(i) == IF o.tac THEN T - i ELSE i - 1
           g    == [i \in 1 .. Count(m) |-> Get(m, i - 1)]
<1>1. /\ m.query \in Queries /\ Snapshot(store, m.ids, m.counts)
      /\ m.ids = <<>> \/ BuildPattern(o, m.query).empty
  <2>1. m # Idle
    <3>1. m.on = TRUE
      BY DEF Merger
    <3>2. Idle.on = FALSE
      BY DEF Idle
    <3> QED BY <3>1, <3>2
  <2> QED BY <2>1 DEF Merger, MergerOk
<1>2. o \in Settings /\ o.tac \in BOOLEAN /\ patterns[m.query] = BuildPattern(o, m.query)
  BY <1>1, OptionFacts, PatternFacts DEF Fixed
<1>3. /\ T \in Nat /\ n \in Nat
      /\ \A k \in 1 .. n : Offset(m, k) = F(k) /\ F(k) \in Nat /\ m.counts[k] \in Nat /\ F(k) + m.counts[k] <= T
  BY <1>1, PassFacts
<1>4. ASSUME NEW p \in 0 .. T - 1 PROVE \E k \in 1 .. n : Offset(m, k) <= p /\ p < F(k) + m.counts[k]
  BY <1>1, PassFacts
<1>5. ASSUME NEW i \in 1 .. T PROVE Get(m, i - 1) = P(i) /\ P(i) \in 0 .. T - 1
  <2> DEFINE j == i - 1
  <2>1. j \in 0 .. T - 1 /\ (IF o.tac THEN T - 1 - j ELSE j) = P(i) /\ P(i) \in 0 .. T - 1
    <3> HIDE DEF T
    <3> QED BY <1>3
  <2>2. Get(m, j) = IF o.tac THEN T - 1 - j ELSE j
    <3> HIDE DEF j
    <3> QED BY <1>1, <1>2, <2>1, PassGetFind DEF T
  <2> QED BY <2>1, <2>2
<1>6. n # 0 => \A c \in 1 .. n : \A k \in 1 .. m.counts[c] : HitAt(store, m.ids[c], k, a)
  <2>1. ASSUME n # 0, NEW c \in 1 .. n, NEW k \in 1 .. m.counts[c] PROVE HitAt(store, m.ids[c], k, a)
    <3>1. BuildPattern(o, m.query).empty
      BY <1>1, <2>1
    <3>2. store[m.ids[c]].items[k] \in Range(Feed)
      BY <1>1, SnapshotFacts
    <3> QED BY <1>1, <1>2, <3>1, <3>2, AnswerFacts DEF HitAt
  <2> QED BY <2>1
<1>7. \A x \in Hits(m) : \E c, k : c \in 1 .. n /\ k \in 1 .. m.counts[c] /\ x.index = F(c) + k - 1
  <2>1. ASSUME NEW x \in Hits(m)
        PROVE  \E c, k : c \in 1 .. n /\ k \in 1 .. m.counts[c] /\ x.index = F(c) + k - 1
    <3>1. PICK c, k : IsItem(m, x, c, k)
      BY <1>1, HitFacts
    <3>2. x.index = EntryAt(store, m.ids[c], k, a).index /\ c \in 1 .. n /\ k \in 1 .. m.counts[c]
      BY <3>1 DEF IsItem
    <3>3. x.index = F(c) + k - 1
      BY <3>2 DEF EntryAt
    <3> QED BY <3>2, <3>3
  <2> QED BY <2>1
<1>8. \A c \in 1 .. n : \A k \in 1 .. m.counts[c] : HitAt(store, m.ids[c], k, a) =>
         \E x \in Hits(m) : x.index = F(c) + k - 1
  <2>1. ASSUME NEW c \in 1 .. n, NEW k \in 1 .. m.counts[c], HitAt(store, m.ids[c], k, a)
        PROVE  \E x \in Hits(m) : x.index = F(c) + k - 1
    <3>1. PICK x \in Hits(m) : IsItem(m, x, c, k)
      BY <1>1, <2>1, HitFacts
    <3>2. x.index = F(c) + k - 1
      BY <3>1 DEF IsItem, EntryAt
    <3> QED BY <3>2
  <2> QED BY <2>1
<1> HIDE DEF a, F, n, T, P
<1>9. ASSUME NEW p \in 0 .. T - 1 PROVE \E x \in Hits(m) : x.index = p
  <2>1. PICK c \in 1 .. n : Offset(m, c) <= p /\ p < F(c) + m.counts[c]
    BY <1>4
  <2>2. Offset(m, c) = F(c) /\ F(c) \in Nat /\ m.counts[c] \in Nat /\ n # 0
    BY <1>3
  <2> DEFINE k == p - F(c) + 1
  <2>3. k \in 1 .. m.counts[c] /\ F(c) + k - 1 = p
    BY <1>3, <2>1, <2>2
  <2> HIDE DEF k
  <2> QED BY <1>6, <1>8, <2>2, <2>3
<1>10. ASSUME NEW x \in Hits(m) PROVE \E i \in 1 .. T : x.index = P(i)
  <2>1. PICK c, k : c \in 1 .. n /\ k \in 1 .. m.counts[c] /\ x.index = F(c) + k - 1
    BY <1>7
  <2> DEFINE p == x.index
             i == IF o.tac THEN T - p ELSE p + 1
  <2>2. p \in 0 .. T - 1
    BY <1>3, <2>1
  <2> HIDE DEF p
  <2>3. i \in 1 .. T /\ P(i) = p
    BY <1>3, <2>2 DEF P
  <2> HIDE DEF i
  <2> QED BY <2>3 DEF p
<1>11. ASSUME NEW i \in 1 .. T, NEW j \in 1 .. T, i < j, NEW x \in Hits(m), NEW y \in Hits(m),
              x.index = P(i), y.index = P(j)
       PROVE  <<x, y>> \in WalkOrder(m)
  <2>1. n # 0
    BY <1>3, <1>7
  <2>2. patterns[m.query].empty
    BY <1>1, <1>2, <2>1 DEF n
  <2>3. IF o.tac THEN P(i) > P(j) ELSE P(i) < P(j)
    BY <1>3, <1>11 DEF P
  <2>4. Ahead(m, x, y)
    BY <1>11, <2>2, <2>3 DEF Ahead
  <2> QED BY <1>1, <2>4, WalkOrderFacts
<1>12. Len(g) = T /\ g \in Seq(Int) /\ \A i \in 1 .. T : g[i] = P(i)
  <2>1. \A i \in 1 .. T : g[i] = P(i) /\ g[i] \in Int
    BY <1>5 DEF T
  <2>2. g \in [1 .. T -> Int]
    BY <2>1 DEF T
  <2> HIDE DEF g
  <2> QED BY <1>3, <2>1, <2>2, SeqFrom
<1> HIDE DEF g
<1>13. ASSUME NEW i \in 1 .. T PROVE \E x \in Hits(m) : x.index = g[i]
  <2>1. P(i) \in 0 .. T - 1 /\ g[i] = P(i)
    BY <1>5, <1>12
  <2> QED BY <1>9, <2>1
<1>14. ASSUME NEW x \in Hits(m) PROVE \E i \in 1 .. T : x.index = g[i]
  BY <1>10, <1>12
<1>15. ASSUME NEW i \in 1 .. T, NEW j \in 1 .. T, i < j, NEW x \in Hits(m), NEW y \in Hits(m),
              x.index = g[i], y.index = g[j]
       PROVE  <<x, y>> \in WalkOrder(m)
  BY <1>11, <1>12, <1>15
<1>16. Numbers(g, Hits(m), WalkOrder(m))
  BY <1>12, <1>13, <1>14, <1>15 DEF Numbers
<1> QED BY <1>16 DEF g

LEMMA MergerOfInv ==
    ASSUME SearchInv
    PROVE  MergerIsTheWalk
<1> DEFINE m == merger
           g == [i \in 1 .. Count(m) |-> Get(m, i - 1)]
<1>0. Fixed /\ ChunkOk(store) /\ MergerOk(store, o, m)
  BY DEF SearchInv, StoreInv, MergerInv
<1> SUFFICES ASSUME m.on
             PROVE  g = Walked(m) /\ \A i \in 0 .. Count(m) - 1 : Find(m, Get(m, i)) = i
  BY DEF MergerIsTheWalk, ResultIsTheWalk, FindInvertsGet
<1>1. m \in Merger(o) /\ Snapshot(store, m.ids, m.counts) /\ m.query \in Queries /\ m.pass \in BOOLEAN
  <2>1. m # Idle
    BY DEF Idle
  <2> QED BY <1>0, <2>1 DEF MergerOk, Merger
<1>2. o.tac \in BOOLEAN
  BY <1>0, OptionFacts DEF Fixed
<1> HIDE DEF m
<1>3. Numbers(g, Hits(m), WalkOrder(m)) /\ Count(m) \in Nat
  <2>1. CASE m.pass
    BY <1>0, <1>1, <2>1, PassNumbers, PassFacts
  <2>2. CASE ~m.pass
    BY <1>0, <1>1, <2>2, FoundNumbers
  <2> QED BY <1>1, <2>1, <2>2
<1>4. /\ \A x, y \in Hits(m) : <<x, y>> \in WalkOrder(m) <=> Ahead(m, x, y)
      /\ OneWay(Hits(m), WalkOrder(m))
      /\ \A x, y \in Hits(m) : x.index = y.index => x = y
  BY <1>0, <1>1, WalkOrderFacts, HitFacts
<1>5. Len(g) = Count(m) /\ \A i \in 1 .. Count(m) : g[i] = Get(m, i - 1)
  BY <1>3
<1> HIDE DEF g
<1>6. Walked(m) = g
  BY <1>3, <1>4, WalkOf
<1>7. ASSUME NEW i \in 0 .. Count(m) - 1 PROVE Find(m, Get(m, i)) = i
  <2>1. CASE m.pass
    BY <1>0, <1>1, <1>2, <2>1, PassGetFind
  <2>2. CASE ~m.pass
    <3> DEFINE T     == Count(m)
               index == Get(m, i)
               at    == {j \in 0 .. T - 1 : At(m, j).index = index}
    <3>1. ASSUME NEW j \in 0 .. T - 1
          PROVE  Get(m, j) = At(m, j).index /\ g[j + 1] = Get(m, j) /\ j + 1 \in 1 .. T
      <4> DEFINE k == j + 1
      <4>1. k \in 1 .. T /\ k - 1 = j
        BY <1>3
      <4> HIDE DEF k, T
      <4>2. Get(m, k - 1) = At(m, k - 1).index /\ g[k] = Get(m, k - 1)
        BY <1>0, <1>1, <1>5, <2>2, <4>1, FoundNumbers DEF T
      <4> QED BY <4>1, <4>2 DEF k
    <3>2. i \in at
      BY <3>1
    <3>3. ASSUME NEW j \in at PROVE j = i
      <4>1. g[j + 1] = g[i + 1] /\ j + 1 \in 1 .. T /\ i + 1 \in 1 .. T
        BY <3>1
      <4>2. j + 1 = i + 1
        BY <1>3, <1>4, <1>5, <4>1, Numbered
      <4> QED BY <1>3, <4>2
    <3>4. at = {i} /\ at \subseteq i .. i /\ at # {} /\ i \in Int
      BY <1>3, <3>2, <3>3
    <3>5. Find(m, index) = IF at = {} THEN -1 ELSE Min(at)
      BY <2>2 DEF Find
    <3> HIDE DEF at
    <3>6. Min(at) \in at
      BY <3>4, IntExtrema
    <3> QED BY <3>4, <3>5, <3>6
  <2> QED BY <1>1, <2>1, <2>2
<1> QED BY <1>6, <1>7 DEF g, m

\* The published list is what a search of every item of the snapshot finds, in its
\* order, and Merger::find inverts Merger::get, whatever the cache answered.
THEOREM MergerIsRight == Spec => []MergerIsTheWalk
<1>1. SearchInv => MergerIsTheWalk
  BY MergerOfInv
<1> QED BY <1>1, Inductive, PTL
=============================================================================
