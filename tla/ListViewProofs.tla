--------------------------- MODULE ListViewProofs ---------------------------
(***************************************************************************)
(* Theorems about the cursor and the window of the list, for every list,   *)
(* every number of rows and every --scroll-off.                            *)
(***************************************************************************)
EXTENDS ListView, FiniteSetTheorems, WellFoundedInduction, TLAPS

-----------------------------------------------------------------------------
\* A set of naturals has a least member.
LEMMA NatLeast ==
    ASSUME NEW T, T \subseteq Nat, T # {}
    PROVE  \E m \in T : \A k \in T : m <= k
<1> DEFINE Less == {ss \in Nat \X Nat : ss[1] < ss[2]}
<1>1. IsWellFoundedOn(Less, Nat)
  BY NatLessThanWellFounded DEF OpToRel
<1>2. PICK m \in T : \A k \in T : ~ (<<k, m>> \in Less)
  BY <1>1, WFMin
<1>3. ASSUME NEW k \in T PROVE m <= k
  <2>1. m \in Nat /\ k \in Nat /\ ~ (<<k, m>> \in Less)
    BY <1>2
  <2> QED BY <2>1
<1> QED BY <1>3

\* A set of naturals that has a bound has a greatest member.
LEMMA NatGreatest ==
    ASSUME NEW n \in Nat, NEW T, T \subseteq 1 .. n, T # {}
    PROVE  \E m \in T : \A k \in T : k <= m
<1> DEFINE D == {d \in Nat : n - d \in T}
<1>1. PICK k0 \in T : TRUE
  OBVIOUS
<1>2. n - k0 \in Nat /\ n - (n - k0) = k0
  OBVIOUS
<1>3. D # {}
  BY <1>2
<1>4. PICK d \in D : \A e \in D : d <= e
  BY <1>3, NatLeast
<1>5. ASSUME NEW k \in T PROVE k <= n - d
  <2>1. k \in 1 .. n /\ n - k \in Nat /\ n - (n - k) = k
    OBVIOUS
  <2>2. n - k \in D
    BY <2>1
  <2>3. d <= n - k /\ d \in Nat
    BY <1>4, <2>2
  <2> QED BY <2>1, <2>3
<1> QED BY <1>4, <1>5

-----------------------------------------------------------------------------
(* What the two loops of constrain() find. *)

\* The first loop stops at the last place at or before o that is far enough
\* back, or at lo.
LEMMA ScrollBackStops ==
    ASSUME NEW o \in Nat, NEW lo \in 0 .. o, NEW c \in Int, NEW r \in Int, NEW m \in Int
    PROVE  /\ ScrollBack(o, lo, c, r, m) \in lo .. o
           /\ \/ ScrollBack(o, lo, c, r, m) = lo
              \/ EnoughBefore(c, ScrollBack(o, lo, c, r, m), r, m)
           /\ \A p2 \in ScrollBack(o, lo, c, r, m) + 1 .. o : ~EnoughBefore(c, p2, r, m)
<1> DEFINE Stop(p) == p = lo \/ EnoughBefore(c, p, r, m)
           Good(p) == Stop(p) /\ \A p2 \in p + 1 .. o : ~EnoughBefore(c, p2, r, m)
           T == {k \in 1 .. (o - lo + 1) : Stop(lo + k - 1)}
<1>1. o - lo + 1 \in Nat /\ T \subseteq 1 .. (o - lo + 1)
  OBVIOUS
<1>2. 1 \in T
  OBVIOUS
<1>3. PICK k \in T : \A j \in T : j <= k
  <2>1. T # {}
    BY <1>2
  <2> HIDE DEF T
  <2> QED BY <1>1, <2>1, NatGreatest
<1>4. lo + k - 1 \in lo .. o /\ Stop(lo + k - 1)
  BY <1>3
<1>5. ASSUME NEW p2 \in (lo + k - 1) + 1 .. o PROVE ~EnoughBefore(c, p2, r, m)
  <2>1. p2 - lo + 1 \in 1 .. (o - lo + 1) /\ lo + (p2 - lo + 1) - 1 = p2 /\ ~(p2 - lo + 1 <= k)
    BY <1>3
  <2>2. p2 - lo + 1 \notin T
    BY <1>3, <2>1
  <2> QED BY <2>1, <2>2
<1>6. \E p \in lo .. o : Good(p)
  BY <1>4, <1>5
<1>7. ScrollBack(o, lo, c, r, m) = CHOOSE p \in lo .. o : Good(p)
  BY DEF ScrollBack
<1>8. ScrollBack(o, lo, c, r, m) \in lo .. o /\ Good(ScrollBack(o, lo, c, r, m))
  <2> HIDE DEF Good
  <2> QED BY <1>6, <1>7
<1> QED BY <1>8

\* The second loop stops at the first place from o on that is far enough
\* forward, or at hi.
LEMMA ScrollForwardStops ==
    ASSUME NEW o \in Nat, NEW hi \in Nat, o <= hi, NEW c \in Int, NEW r \in Int, NEW m \in Int
    PROVE  /\ ScrollForward(o, hi, c, r, m) \in o .. hi
           /\ \/ ScrollForward(o, hi, c, r, m) = hi
              \/ EnoughAfter(c, ScrollForward(o, hi, c, r, m), r, m)
           /\ \A p2 \in o .. ScrollForward(o, hi, c, r, m) - 1 : ~EnoughAfter(c, p2, r, m)
<1> DEFINE Stop(p) == p = hi \/ EnoughAfter(c, p, r, m)
           Good(p) == Stop(p) /\ \A p2 \in o .. p - 1 : ~EnoughAfter(c, p2, r, m)
           T == {k \in 0 .. hi : o <= k /\ Stop(k)}
<1>1. T \subseteq Nat /\ hi \in T
  OBVIOUS
<1>2. PICK p \in T : \A j \in T : p <= j
  <2>1. T # {}
    BY <1>1
  <2> HIDE DEF T
  <2> QED BY <1>1, <2>1, NatLeast
<1>3. ASSUME NEW p2 \in o .. p - 1 PROVE ~EnoughAfter(c, p2, r, m)
  <2>1. p2 \in 0 .. hi /\ o <= p2 /\ ~(p <= p2)
    BY <1>2
  <2> QED BY <1>2, <2>1
<1>4. p \in o .. hi /\ Good(p)
  BY <1>2, <1>3
<1>5. ScrollForward(o, hi, c, r, m) = CHOOSE q \in o .. hi : Good(q)
  BY DEF ScrollForward
<1>6. ScrollForward(o, hi, c, r, m) \in o .. hi /\ Good(ScrollForward(o, hi, c, r, m))
  <2> HIDE DEF Good
  <2> QED BY <1>4, <1>5
<1> QED BY <1>6

-----------------------------------------------------------------------------
(* The window that constrain() leaves. *)

\* Between the first and the last place for the window there is one.
LEMMA PlacesOrdered ==
    ASSUME NEW n \in Nat, NEW r \in Nat \ {0}, NEW c \in 0 .. Max2(n - 1, 0)
    PROVE  /\ MinOffset(c, r) \in Nat /\ MaxOffset(c, n, r) \in Nat
           /\ MinOffset(c, r) <= MaxOffset(c, n, r)
           /\ c - r + 1 <= MinOffset(c, r) /\ MaxOffset(c, n, r) <= c
           /\ MaxOffset(c, n, r) <= Max2(n - r, 0)
BY DEF MinOffset, MaxOffset, Max2, Min2

LEMMA ClampWithin ==
    ASSUME NEW x \in Int, NEW lo \in Int, NEW hi \in Int, lo <= hi
    PROVE  Clamp(x, lo, hi) \in lo .. hi /\ (x \in lo .. hi => Clamp(x, lo, hi) = x)
BY DEF Clamp

\* The cursor constrain() works with.
CursorOf(c0, n) == Clamp(c0, 0, Max2(0, n - 1))

LEMMA CursorOfInList ==
    ASSUME NEW c0 \in Int, NEW n \in Nat
    PROVE  /\ CursorOf(c0, n) \in 0 .. Max2(n - 1, 0)
           /\ c0 \in 0 .. Max2(n - 1, 0) => CursorOf(c0, n) = c0
BY DEF CursorOf, Clamp, Max2

\* The place the loops start from.
StartOf(c, o0, n, r) == Clamp(Clamp(o0, 0, n), MinOffset(c, r), MaxOffset(c, n, r))

LEMMA StartOfBetween ==
    ASSUME NEW n \in Nat, NEW r \in Nat \ {0}, NEW c \in 0 .. Max2(n - 1, 0), NEW o0 \in Int
    PROVE  /\ StartOf(c, o0, n, r) \in MinOffset(c, r) .. MaxOffset(c, n, r)
           /\ o0 \in MinOffset(c, r) .. MaxOffset(c, n, r) => StartOf(c, o0, n, r) = o0
<1>1. /\ MinOffset(c, r) \in Nat /\ MaxOffset(c, n, r) \in Nat
      /\ MinOffset(c, r) <= MaxOffset(c, n, r) /\ MaxOffset(c, n, r) <= c
  BY PlacesOrdered
<1>2. Clamp(o0, 0, n) \in 0 .. n /\ (o0 \in 0 .. n => Clamp(o0, 0, n) = o0)
  BY DEF Clamp
<1>3. c <= n
  BY DEF Max2
<1> DEFINE x == Clamp(o0, 0, n)
           lo == MinOffset(c, r)
           hi == MaxOffset(c, n, r)
<1>4. StartOf(c, o0, n, r) = Clamp(x, lo, hi)
  BY DEF StartOf
<1> HIDE DEF x, lo, hi
<1>5. x \in Int /\ lo \in Nat /\ hi \in Nat /\ lo <= hi /\ hi <= n
  BY <1>1, <1>2, <1>3 DEF x, lo, hi
<1>6. StartOf(c, o0, n, r) \in lo .. hi /\ (x \in lo .. hi => StartOf(c, o0, n, r) = x)
  BY <1>4, <1>5, ClampWithin
<1>7. o0 \in lo .. hi => x = o0
  BY <1>2, <1>5 DEF x
<1> QED BY <1>6, <1>7 DEF lo, hi

LEMMA MarginIsHalf ==
    ASSUME NEW r \in Nat, NEW so \in Nat
    PROVE  Margin(r, so) \in Nat /\ 2 * Margin(r, so) <= r
BY DEF Margin, Min2

\* The two places the loops stop at.
BackOf(c, o0, n, r, so) ==
    ScrollBack(StartOf(c, o0, n, r), MinOffset(c, r), c, r, Margin(r, so))
PlaceOf(c, o0, n, r, so) ==
    ScrollForward(BackOf(c, o0, n, r, so), MaxOffset(c, n, r), c, r, Margin(r, so))

LEMMA ConstrainedIs ==
    ASSUME NEW c0, NEW o0, NEW n, NEW r, NEW so
    PROVE  /\ r # 0 => Constrained(c0, o0, n, r, so)
                        = [cy |-> CursorOf(c0, n), offset |-> PlaceOf(CursorOf(c0, n), o0, n, r, so)]
           /\ r = 0 => Constrained(c0, o0, n, r, so)
                        = [cy |-> CursorOf(c0, n), offset |-> Clamp(o0, 0, n)]
BY DEF Constrained, CursorOf, PlaceOf, BackOf, StartOf

\* Where the loops stop, in one piece.
LEMMA PlaceOfStops ==
    ASSUME NEW n \in Nat, NEW r \in Nat \ {0}, NEW c \in 0 .. Max2(n - 1, 0), NEW o0 \in Int,
           NEW so \in Nat
    PROVE  LET lo == MinOffset(c, r)
               hi == MaxOffset(c, n, r)
               m  == Margin(r, so)
               b  == BackOf(c, o0, n, r, so)
               p  == PlaceOf(c, o0, n, r, so)
           IN  /\ b \in lo .. hi /\ p \in b .. hi
               /\ b = lo \/ EnoughBefore(c, b, r, m)
               /\ p = hi \/ EnoughAfter(c, p, r, m)
               /\ \A p2 \in b .. p - 1 : ~EnoughAfter(c, p2, r, m)
<1> DEFINE lo == MinOffset(c, r)
           hi == MaxOffset(c, n, r)
           m  == Margin(r, so)
           s  == StartOf(c, o0, n, r)
           b  == BackOf(c, o0, n, r, so)
           p  == PlaceOf(c, o0, n, r, so)
<1>1. lo \in Nat /\ hi \in Nat /\ lo <= hi
  BY PlacesOrdered
<1>2. s \in lo .. hi
  BY StartOfBetween
<1>3. m \in Int /\ c \in Int /\ r \in Int
  BY MarginIsHalf
<1>4. b = ScrollBack(s, lo, c, r, m) /\ p = ScrollForward(b, hi, c, r, m)
  BY DEF BackOf, PlaceOf
<1> HIDE DEF lo, hi, m, s, b, p
<1>5. b \in lo .. s /\ (b = lo \/ EnoughBefore(c, b, r, m))
  <2>1. s \in Nat /\ lo \in 0 .. s
    BY <1>1, <1>2
  <2> QED BY <1>3, <1>4, <2>1, ScrollBackStops
<1>6. b \in lo .. hi
  BY <1>1, <1>2, <1>5
<1>7. /\ p \in b .. hi /\ (p = hi \/ EnoughAfter(c, p, r, m))
      /\ \A p2 \in b .. p - 1 : ~EnoughAfter(c, p2, r, m)
  <2>1. b \in Nat /\ b <= hi
    BY <1>1, <1>6
  <2> QED BY <1>1, <1>3, <1>4, <2>1, ScrollForwardStops
<1> QED BY <1>5, <1>6, <1>7 DEF lo, hi, m, b, p

\* The place keeps the cursor in the window, and the window full.
LEMMA PlaceFits ==
    ASSUME NEW n \in Nat, NEW r \in Nat \ {0}, NEW c \in 0 .. Max2(n - 1, 0), NEW o0 \in Int,
           NEW so \in Nat
    PROVE  /\ PlaceOf(c, o0, n, r, so) \in MinOffset(c, r) .. MaxOffset(c, n, r)
           /\ PlaceOf(c, o0, n, r, so) \in 0 .. Max2(n - r, 0)
           /\ c \in PlaceOf(c, o0, n, r, so) .. PlaceOf(c, o0, n, r, so) + r - 1
<1> DEFINE lo == MinOffset(c, r)
           hi == MaxOffset(c, n, r)
           top == Max2(n - r, 0)
           b  == BackOf(c, o0, n, r, so)
           p  == PlaceOf(c, o0, n, r, so)
<1>1. b \in lo .. hi /\ p \in b .. hi
  BY PlaceOfStops
<1>2. lo \in Nat /\ hi \in Nat /\ c - r + 1 <= lo /\ hi <= c /\ hi <= top
  BY PlacesOrdered
<1>3. top \in Nat /\ c \in Nat
  BY DEF Max2
<1> HIDE DEF lo, hi, top, b, p
<1>4. p \in lo .. hi /\ p \in 0 .. top /\ p <= c /\ c <= p + r - 1
  BY <1>1, <1>2, <1>3
<1> QED BY <1>1, <1>2, <1>4 DEF lo, hi, top, p

\* The place keeps the margin, but at the ends of the list.
LEMMA PlaceKeepsMargin ==
    ASSUME NEW n \in Nat, NEW r \in Nat \ {0}, NEW c \in 0 .. Max2(n - 1, 0), NEW o0 \in Int,
           NEW so \in Nat, 2 * Margin(r, so) < r
    PROVE  LET m == Margin(r, so)
               p == PlaceOf(c, o0, n, r, so)
           IN  /\ Before(c, p) >= m \/ p = 0
               /\ After(c, p, r) >= m \/ p = Max2(n - r, 0)
<1> DEFINE lo == MinOffset(c, r)
           hi == MaxOffset(c, n, r)
           top == Max2(n - r, 0)
           m  == Margin(r, so)
           b  == BackOf(c, o0, n, r, so)
           p  == PlaceOf(c, o0, n, r, so)
<1>1. /\ b \in lo .. hi /\ p \in b .. hi
      /\ b = lo \/ EnoughBefore(c, b, r, m)
      /\ p = hi \/ EnoughAfter(c, p, r, m)
      /\ \A p2 \in b .. p - 1 : ~EnoughAfter(c, p2, r, m)
  BY PlaceOfStops
<1>2. lo \in Nat /\ hi \in Nat /\ lo <= hi
  BY PlacesOrdered
<1>3. lo = 0 \/ lo = c - r + 1
  BY DEF MinOffset, Max2
<1>4. hi = top \/ hi = c
  BY DEF MaxOffset, Max2, Min2
<1>5. m \in Nat /\ 2 * m < r /\ c \in Nat
  BY MarginIsHalf DEF Max2
<1> HIDE DEF lo, hi, top, m, b, p
<1>6. Before(c, b) >= m \/ b = 0
  BY <1>1, <1>2, <1>3, <1>5 DEF EnoughBefore, Before, After
<1>7. Before(c, p) >= m \/ p = 0
  <2>1. CASE p = b
    BY <1>6, <2>1
  <2>2. CASE p # b
    <3>1. p - 1 \in b .. p - 1
      BY <1>1, <1>2, <2>2
    <3>2. ~EnoughAfter(c, p - 1, r, m)
      BY <1>1, <3>1
    <3> QED BY <1>1, <1>2, <1>5, <3>2 DEF EnoughAfter, Before, After
  <2> QED BY <2>1, <2>2
<1>8. After(c, p, r) >= m \/ p = top
  BY <1>1, <1>2, <1>4, <1>5 DEF EnoughAfter, Before, After
<1> QED BY <1>7, <1>8 DEF m, p, top

\* constrain() leaves alone what it has arranged.
LEMMA PlaceIsStable ==
    ASSUME NEW n \in Nat, NEW r \in Nat \ {0}, NEW c \in 0 .. Max2(n - 1, 0), NEW o0 \in Int,
           NEW so \in Nat
    PROVE  LET p == PlaceOf(c, o0, n, r, so) IN PlaceOf(c, p, n, r, so) = p
<1> DEFINE lo == MinOffset(c, r)
           hi == MaxOffset(c, n, r)
           m  == Margin(r, so)
           b  == BackOf(c, o0, n, r, so)
           p  == PlaceOf(c, o0, n, r, so)
           s2 == StartOf(c, p, n, r)
           b2 == BackOf(c, p, n, r, so)
           p2 == PlaceOf(c, p, n, r, so)
<1>1. /\ b \in lo .. hi /\ p \in b .. hi
      /\ b = lo \/ EnoughBefore(c, b, r, m)
      /\ p = hi \/ EnoughAfter(c, p, r, m)
      /\ \A x \in b .. p - 1 : ~EnoughAfter(c, x, r, m)
  BY PlaceOfStops
<1>2. lo \in Nat /\ hi \in Nat /\ lo <= hi
  BY PlacesOrdered
<1>3. m \in Nat /\ c \in Nat
  BY MarginIsHalf DEF Max2
<1>4. p \in Int /\ p \in lo .. hi
  BY <1>1, <1>2
<1>5. s2 = p
  BY <1>4, StartOfBetween
<1>6. b2 = ScrollBack(s2, lo, c, r, m) /\ p2 = ScrollForward(b2, hi, c, r, m)
  BY DEF BackOf, PlaceOf
<1> HIDE DEF lo, hi, m, b, p, s2, b2, p2
<1>7. /\ b2 \in lo .. p /\ (b2 = lo \/ EnoughBefore(c, b2, r, m))
      /\ \A x \in b2 + 1 .. p : ~EnoughBefore(c, x, r, m)
  <2>1. p \in Nat /\ lo \in 0 .. p /\ m \in Int /\ c \in Int /\ r \in Int
    BY <1>2, <1>3, <1>4
  <2> QED BY <1>5, <1>6, <2>1, ScrollBackStops
<1>8. /\ p2 \in b2 .. hi /\ (p2 = hi \/ EnoughAfter(c, p2, r, m))
      /\ \A x \in b2 .. p2 - 1 : ~EnoughAfter(c, x, r, m)
  <2>1. b2 \in Nat /\ b2 <= hi /\ m \in Int /\ c \in Int /\ r \in Int
    BY <1>2, <1>3, <1>4, <1>7
  <2> QED BY <1>2, <1>6, <2>1, ScrollForwardStops
\* The first loop does not go back beyond where it stopped the first time ...
<1>9. b <= b2
  <2>1. CASE b2 < b
    <3>1. b \in b2 + 1 .. p /\ b # lo
      BY <1>1, <1>2, <1>7, <2>1
    <3> QED BY <1>1, <1>7, <3>1
  <2> QED BY <1>1, <1>2, <1>7, <2>1
\* ... so that the second one meets nothing new before p.
<1>10. p2 = p
  <2>1. CASE p2 < p
    <3>1. p2 \in b .. p - 1 /\ p2 # hi
      BY <1>1, <1>2, <1>7, <1>8, <1>9, <2>1
    <3> QED BY <1>1, <1>8, <3>1
  <2>2. CASE p < p2
    <3>1. p \in b2 .. p2 - 1 /\ p # hi
      BY <1>1, <1>2, <1>7, <1>8, <2>2
    <3> QED BY <1>1, <1>8, <3>1
  <2> QED BY <1>1, <1>2, <1>7, <1>8, <2>1, <2>2
<1> QED BY <1>10 DEF p, p2

-----------------------------------------------------------------------------
(* Ranks of positions. *)

LEMMA PositionsFinite ==
    ASSUME NEW n \in Nat, NEW ks \in SUBSET (1 .. n), NEW P \in SUBSET ks
    PROVE  IsFiniteSet(P) /\ Cardinality(P) \in Nat
<1>1. IsFiniteSet(1 .. n)
  BY FS_Interval
<1>2. P \in SUBSET (1 .. n)
  OBVIOUS
<1>3. IsFiniteSet(P)
  BY <1>1, <1>2, FS_Subset
<1> QED BY <1>3, FS_CardinalityType

\* The rank of a position is that of any position before it and at least one more.
LEMMA RankGrows ==
    ASSUME NEW n \in Nat, NEW ks \in SUBSET (1 .. n), NEW j \in ks, NEW k \in ks, j < k
    PROVE  Rank(ks, j) < Rank(ks, k)
<1> DEFINE A == {x \in ks : x < j}
           B == {x \in ks : x < k}
<1>1. IsFiniteSet(A) /\ Cardinality(A) \in Nat /\ IsFiniteSet(B) /\ Cardinality(B) \in Nat
  <2>1. A \in SUBSET ks /\ B \in SUBSET ks
    OBVIOUS
  <2> HIDE DEF A, B
  <2> QED BY <2>1, PositionsFinite
<1>2. j \notin A /\ A \cup {j} \in SUBSET B
  <2>1. j \in Nat /\ k \in Nat /\ \A x \in A : x \in Nat /\ x \in ks /\ x < j
    OBVIOUS
  <2>2. \A x \in A : x < k
    BY <2>1
  <2>3. j \in B
    OBVIOUS
  <2>4. \A x \in A : x \in B
    BY <2>1, <2>2
  <2>5. j \notin A
    BY <2>1
  <2> QED BY <2>3, <2>4, <2>5
<1>3. Rank(ks, j) = Cardinality(A) /\ Rank(ks, k) = Cardinality(B)
  BY DEF Rank
<1> HIDE DEF A, B
<1>4. Cardinality(A \cup {j}) = Cardinality(A) + 1
  BY <1>1, <1>2, FS_AddElement
<1>5. Cardinality(A \cup {j}) <= Cardinality(B)
  BY <1>1, <1>2, FS_Subset
<1> QED BY <1>1, <1>3, <1>4, <1>5

LEMMA RankType ==
    ASSUME NEW n \in Nat, NEW ks \in SUBSET (1 .. n), NEW k
    PROVE  Rank(ks, k) \in Nat
<1> DEFINE A == {x \in ks : x < k}
<1>1. A \in SUBSET ks
  OBVIOUS
<1>2. Rank(ks, k) = Cardinality(A)
  BY DEF Rank
<1> HIDE DEF A
<1> QED BY <1>1, <1>2, PositionsFinite

\* At most room positions have a rank below room.
LEMMA LowRanks ==
    ASSUME NEW n \in Nat, NEW ks \in SUBSET (1 .. n), NEW room \in Nat
    PROVE  Cardinality({k \in ks : Rank(ks, k) < room}) <= room
<1> DEFINE P == {k \in ks : Rank(ks, k) < room}
           f == [k \in P |-> Rank(ks, k)]
<1>1. ASSUME NEW k \in P PROVE f[k] \in 0 .. room - 1
  <2>1. f[k] = Rank(ks, k) /\ Rank(ks, k) < room
    OBVIOUS
  <2>2. Rank(ks, k) \in Nat
    BY RankType
  <2> HIDE DEF f, P
  <2> QED BY <2>1, <2>2
<1>2. ASSUME NEW j \in P, NEW k \in P, f[j] = f[k] PROVE j = k
  <2>1. j \in Nat /\ k \in Nat /\ Rank(ks, j) = Rank(ks, k) /\ Rank(ks, j) \in Nat
    BY <1>2, RankType
  <2>2. ~(j < k) /\ ~(k < j)
    BY <2>1, RankGrows
  <2> QED BY <2>1, <2>2
<1>3. f \in [P -> 0 .. room - 1]
  BY <1>1
<1> HIDE DEF P, f
<1>4. f \in Injection(P, 0 .. room - 1)
  BY <1>2, <1>3 DEF Injection, IsInjective
<1>5. IsFiniteSet(0 .. room - 1) /\ Cardinality(0 .. room - 1) = room
  <2>1. 0 \in Int /\ room - 1 \in Int
    OBVIOUS
  <2>2. Cardinality(0 .. room - 1) = IF 0 > room - 1 THEN 0 ELSE (room - 1) - 0 + 1
    BY <2>1, FS_Interval
  <2>3. Cardinality(0 .. room - 1) = room
    BY <2>2
  <2> QED BY <2>1, <2>3, FS_Interval
<1>6. Cardinality(P) <= Cardinality(0 .. room - 1)
  BY <1>4, <1>5, FS_Injection
<1> QED BY <1>5, <1>6 DEF P

\* The positions of low rank are counted without a gap: one of rank x has x others
\* before it.
LEMMA LowRanksDense ==
    ASSUME NEW n \in Nat, NEW ks \in SUBSET (1 .. n), NEW room \in Int,
           NEW k \in ks, Rank(ks, k) < room
    PROVE  Rank(ks, k) + 1 <= Cardinality({x \in ks : Rank(ks, x) < room})
<1> DEFINE P == {x \in ks : Rank(ks, x) < room}
           A == {x \in ks : x < k}
<1>1. \A x \in A : Rank(ks, x) < Rank(ks, k) /\ Rank(ks, x) \in Nat /\ Rank(ks, k) \in Nat
  BY RankGrows, RankType
<1>2. A \cup {k} \in SUBSET P
  <2>1. ASSUME NEW x \in A PROVE x \in P
    <3>1. x \in ks
      OBVIOUS
    <3>2. Rank(ks, x) < room
      BY <1>1
    <3> QED BY <3>1, <3>2
  <2>2. k \in P
    OBVIOUS
  <2> QED BY <2>1, <2>2
<1>3. A \in SUBSET ks /\ P \in SUBSET ks /\ k \notin A
  OBVIOUS
<1>4. Rank(ks, k) = Cardinality(A)
  BY DEF Rank
<1> HIDE DEF P, A
<1>5. IsFiniteSet(A) /\ Cardinality(A) \in Nat /\ IsFiniteSet(P)
  BY <1>3, PositionsFinite
<1>6. Cardinality(A \cup {k}) = Cardinality(A) + 1
  BY <1>3, <1>5, FS_AddElement
<1>7. Cardinality(A \cup {k}) <= Cardinality(P)
  BY <1>2, <1>5, FS_Subset
<1> QED BY <1>4, <1>6, <1>7 DEF P

\* The items at some positions are no more than the positions.
LEMMA ImageBound ==
    ASSUME NEW f, NEW P, IsFiniteSet(P)
    PROVE  /\ IsFiniteSet({f[k] : k \in P})
           /\ Cardinality({f[k] : k \in P}) <= Cardinality(P)
<1> DEFINE T == {f[k] : k \in P}
           g == [k \in P |-> f[k]]
<1>1. g \in [P -> T] /\ \A t \in T : \E s \in P : g[s] = t
  OBVIOUS
<1> HIDE DEF T, g
<1>2. g \in Surjection(P, T)
  BY <1>1 DEF Surjection
<1> QED BY <1>2, FS_Surjection DEF T

-----------------------------------------------------------------------------
(* The inductive invariant. *)

ListOK == merger \in Lists /\ gen \in Gen /\ merger_gen \in 0 .. gen
CursorOK == cy \in 0 .. Max2(Count - 1, 0) /\ offset \in Int /\ rows \in 0 .. MaxRows
LimitOK == multi \in Multis /\ select_seq \in 0 .. MaxPicks
SelectedOK ==
    /\ IsFiniteSet(DOMAIN selected) /\ DOMAIN selected \subseteq Items
    /\ \A i \in DOMAIN selected : selected[i] \in Selected /\ selected[i].seq <= select_seq
BatchOK == batch \in 0 .. MaxBatch
Painted == FrameFits /\ ScrollOffKept /\ RepaintIsStable

IInv == ListOK /\ CursorOK /\ LimitOK /\ SelectedOK /\ WithinLimit /\ BatchOK /\ Painted

\* An item that stays selected keeps its number, a new one comes after all numbers
\* given before.
InOrder ==
    \A i \in DOMAIN selected' :
        IF i \in DOMAIN selected THEN selected'[i] = selected[i]
        ELSE selected'[i].seq > select_seq

LEMMA ConstantTypes ==
    /\ MaxRows \in Nat /\ ScrollOff \in Nat /\ MaxGen \in Nat /\ MaxPicks \in Nat
    /\ MaxBatch \in Nat /\ Multis \subseteq Nat /\ Positions \subseteq Int
    /\ Items \subseteq Nat /\ Lists \subseteq Seq(Items) /\ <<>> \in Lists
BY ListAssumption

LEMMA CountType == ASSUME merger \in Lists PROVE Count \in Nat
BY ConstantTypes DEF Count

-----------------------------------------------------------------------------
(* The cursor and the window in each step. *)

LEMMA VSetInList ==
    ASSUME merger \in Lists, NEW o \in Int
    PROVE  VSet(o) \in 0 .. Max2(Count - 1, 0)
BY CountType DEF VSet, Clamp, Max2

LEMMA VMoveInList ==
    ASSUME merger \in Lists, NEW from \in Int, NEW d \in Int, NEW b
    PROVE  VMove(from, d, b) \in 0 .. Max2(Count - 1, 0)
<1> DEFINE e == IF Reverse THEN -d ELSE d
           dest == from + e
           o == IF ~(Cycle /\ b) THEN dest
                ELSE IF dest > Count - 1 THEN (IF from = Count - 1 THEN 0 ELSE dest)
                ELSE IF dest < 0 THEN (IF from = 0 THEN Count - 1 ELSE dest)
                ELSE dest
<1>1. dest \in Int
  OBVIOUS
<1>2. o \in Int
  <2> HIDE DEF dest
  <2> QED BY <1>1, CountType
<1>3. VMove(from, d, b) = VSet(o)
  BY DEF VMove
<1> HIDE DEF o
<1> QED BY <1>2, <1>3, VSetInList

\* The place of a window is an integer, whatever it is made from.
LEMMA ConstrainedTypes ==
    ASSUME NEW c0 \in Int, NEW o0 \in Int, NEW n \in Nat, NEW r \in Nat, NEW so \in Nat
    PROVE  /\ Constrained(c0, o0, n, r, so).cy \in 0 .. Max2(n - 1, 0)
           /\ Constrained(c0, o0, n, r, so).offset \in Int
<1>1. CursorOf(c0, n) \in 0 .. Max2(n - 1, 0)
  BY CursorOfInList
<1>2. CASE r = 0
  <2>1. Clamp(o0, 0, n) \in Int
    BY DEF Clamp
  <2> QED BY <1>1, <1>2, <2>1, ConstrainedIs
<1>3. CASE r # 0
  <2>1. r \in Nat \ {0}
    BY <1>3
  <2>2. PlaceOf(CursorOf(c0, n), o0, n, r, so) \in Int
    <3>1. PlaceOf(CursorOf(c0, n), o0, n, r, so) \in 0 .. Max2(n - r, 0)
      BY <1>1, <2>1, PlaceFits
    <3> QED BY <3>1
  <2> QED BY <1>1, <1>3, <2>2, ConstrainedIs
<1> QED BY <1>2, <1>3

\* No action of the cursor leaves the list.
LEMMA CursorActionInList ==
    ASSUME ListOK, CursorOK, CursorAction
    PROVE  CursorOK'
<1>1. merger \in Lists /\ Count \in Nat /\ cy \in Int /\ offset \in Int /\ rows \in Nat
  BY CountType, ConstantTypes DEF ListOK, CursorOK
<1>2. ScrollOff \in Nat
  BY ConstantTypes
<1>3. ASSUME cy' \in 0 .. Max2(Count - 1, 0), offset' \in Int, merger' = merger, rows' = rows
      PROVE  CursorOK'
  BY <1>3 DEF CursorOK, Count
<1>4. CASE Step
  <2>1. PICK d \in {-1, 1} : cy' = VMove(cy, d, TRUE)
    BY <1>4 DEF Step
  <2>2. cy' \in 0 .. Max2(Count - 1, 0)
    <3>1. d \in Int
      OBVIOUS
    <3> QED BY <1>1, <2>1, <3>1, VMoveInList
  <2> QED BY <1>1, <1>3, <1>4, <2>2 DEF Step, listVars
<1>5. CASE Page
  <2>1. PICK lines \in {rows - 1, rows \div 2}, d \in {-1, 1} : cy' = VSet(cy + d * Max2(1, lines))
    BY <1>5 DEF Page
  <2>2. cy + d * Max2(1, lines) \in Int
    BY <1>1 DEF Max2
  <2>3. cy' \in 0 .. Max2(Count - 1, 0)
    BY <1>1, <2>1, <2>2, VSetInList
  <2> QED BY <1>1, <1>3, <1>5, <2>3 DEF Page, listVars
<1>6. CASE Jump
  <2>1. PICK n \in Positions :
          Constrain(VSet(IF n > 0 THEN n - 1 ELSE IF n < 0 THEN n + Count ELSE n),
                    offset, Count, rows, ScrollOff)
    BY <1>6 DEF Jump
  <2>2. n \in Int
    BY ConstantTypes
  <2> DEFINE c == VSet(IF n > 0 THEN n - 1 ELSE IF n < 0 THEN n + Count ELSE n)
  <2>3. c \in Int
    <3>1. (IF n > 0 THEN n - 1 ELSE IF n < 0 THEN n + Count ELSE n) \in Int
      BY <1>1, <2>2
    <3> QED BY <1>1, <3>1, VSetInList
  <2> HIDE DEF c
  <2>4. /\ Constrained(c, offset, Count, rows, ScrollOff).cy \in 0 .. Max2(Count - 1, 0)
        /\ Constrained(c, offset, Count, rows, ScrollOff).offset \in Int
    BY <1>1, <1>2, <2>3, ConstrainedTypes
  <2>5. cy' \in 0 .. Max2(Count - 1, 0) /\ offset' \in Int
    BY <2>1, <2>4 DEF Constrain, c
  <2> QED BY <1>3, <1>6, <2>5 DEF Jump, listVars
<1>7. CASE ScrollLine
  <2>1. PICK d \in {-1, 1} :
          LET o   == offset + (IF Reverse THEN -d ELSE d)
              fit == Constrained(cy, o, Count, rows, ScrollOff)
          IN  /\ offset' = o
              /\ cy' = IF fit.offset = o THEN fit.cy ELSE VMove(fit.cy, d, FALSE)
    BY <1>7 DEF ScrollLine
  <2> DEFINE o == offset + (IF Reverse THEN -d ELSE d)
             fit == Constrained(cy, o, Count, rows, ScrollOff)
  <2>2. o \in Int
    BY <1>1
  <2>3. /\ offset' = o
        /\ cy' = IF fit.offset = o THEN fit.cy ELSE VMove(fit.cy, d, FALSE)
    BY <2>1
  <2> HIDE DEF o
  <2>4. fit.cy \in 0 .. Max2(Count - 1, 0)
    BY <1>1, <1>2, <2>2, ConstrainedTypes
  <2> HIDE DEF fit
  <2>5. fit.cy \in Int /\ d \in Int
    BY <2>4
  <2>6. VMove(fit.cy, d, FALSE) \in 0 .. Max2(Count - 1, 0)
    BY <1>1, <2>5, VMoveInList
  <2> QED BY <1>3, <1>7, <2>2, <2>3, <2>4, <2>6 DEF ScrollLine, listVars
<1>8. CASE ScrollMiddle
  <2>1. Constrain(cy, offset, Count, rows, rows)
    BY <1>8 DEF ScrollMiddle
  <2>2. cy' \in 0 .. Max2(Count - 1, 0) /\ offset' \in Int
    BY <1>1, <2>1, ConstrainedTypes DEF Constrain
  <2> QED BY <1>3, <1>8, <2>2 DEF ScrollMiddle, listVars
<1>9. CASE Click
  <2>1. PICK line \in 0 .. rows - 1 : cy' = VSet(offset + line)
    BY <1>9 DEF Click
  <2>2. cy' \in 0 .. Max2(Count - 1, 0)
    BY <1>1, <2>1, VSetInList
  <2> QED BY <1>1, <1>3, <1>9, <2>2 DEF Click, listVars
<1>10. CASE NextSelected
  <2>1. PICK d \in {-1, 1} :
          LET At(i) == (cy + d * i + Count) % Count
              hits  == {i \in 1 .. Count - 1 : IsSelected(At(i))}
          IN  cy' = IF hits = {} THEN cy
                    ELSE At(CHOOSE i \in hits : \A j \in hits : i <= j)
    BY <1>10 DEF NextSelected
  <2> DEFINE At(i) == (cy + d * i + Count) % Count
             hits  == {i \in 1 .. Count - 1 : IsSelected(At(i))}
             first == CHOOSE i \in hits : \A j \in hits : i <= j
  <2>2. cy' = IF hits = {} THEN cy ELSE At(first)
    BY <2>1
  <2>3. ASSUME hits # {} PROVE At(first) \in 0 .. Max2(Count - 1, 0)
    <3>1. hits \subseteq Nat /\ \A i \in hits : i \in 1 .. Count - 1
      OBVIOUS
    <3> HIDE DEF hits
    <3>2. \E i \in hits : \A j \in hits : i <= j
      BY <2>3, <3>1, NatLeast
    <3>3. first \in hits
      BY <3>2
    <3>4. first \in 1 .. Count - 1
      BY <3>1, <3>3
    <3> HIDE DEF first
    <3>5. Count > 0 /\ cy + d * first + Count \in Int
      BY <1>1, <3>4
    <3>6. At(first) \in 0 .. Count - 1
      BY <1>1, <3>5
    <3> QED BY <1>1, <3>5, <3>6 DEF Max2
  <2>4. cy \in 0 .. Max2(Count - 1, 0)
    BY DEF CursorOK
  <2>5. cy' \in 0 .. Max2(Count - 1, 0)
    <3> HIDE DEF hits, first, At
    <3> QED BY <2>2, <2>3, <2>4
  <2> QED BY <1>1, <1>3, <1>10, <2>5 DEF NextSelected, listVars
<1> QED BY <1>4, <1>5, <1>6, <1>7, <1>8, <1>9, <1>10 DEF CursorAction

\* What the last repaint arranged is lost only by a step that leads to another.
LEMMA PaintedByRepaint ==
    ASSUME ListOK, CursorOK, Repaint
    PROVE  CursorOK' /\ Painted'
<1> DEFINE n == Count
           r == rows'
           w == Constrained(cy, offset, n, r, ScrollOff)
           c == CursorOf(cy, n)
           p == PlaceOf(c, offset, n, r, ScrollOff)
<1>1. /\ merger \in Lists /\ n \in Nat /\ cy \in Int /\ offset \in Int
      /\ r \in Nat /\ r \in 0 .. MaxRows /\ ScrollOff \in Nat
  BY CountType, ConstantTypes DEF ListOK, CursorOK, Repaint
<1>2. cy' = w.cy /\ offset' = w.offset /\ Count' = n
  BY DEF Repaint, Constrain, Count, listVars
<1>3. /\ w.cy \in 0 .. Max2(n - 1, 0) /\ w.offset \in Int
  <2> HIDE DEF n, r
  <2> QED BY <1>1, ConstrainedTypes
<1>4. c \in 0 .. Max2(n - 1, 0)
  <2> HIDE DEF n
  <2> QED BY <1>1, CursorOfInList
<1>5. CursorOK'
  BY <1>1, <1>2, <1>3 DEF CursorOK
<1>6. CASE r = 0
  <2>1. w.offset = Clamp(offset, 0, n) /\ w.cy = c
    BY <1>6, ConstrainedIs
  <2>2. offset' \in 0 .. n /\ offset' = Clamp(offset, 0, n)
    BY <1>1, <1>2, <2>1 DEF Clamp
  <2>3. FrameFits'
    <3>1. offset' \in 0 .. Max2(n - r, 0)
      BY <1>1, <1>6, <2>2 DEF Max2
    <3> QED BY <1>2, <1>6, <3>1 DEF FrameFits, CursorVisible, NoBlankRows
  <2>4. ScrollOffKept'
    <3>1. Margin(0, ScrollOff) \in Nat
      BY <1>1, MarginIsHalf
    <3>2. ~(2 * Margin(rows', ScrollOff) < rows')
      BY <1>6, <3>1
    <3> QED BY <3>2 DEF ScrollOffKept
  <2>5. RepaintIsStable'
    <3>1. CursorOf(cy', n) = cy'
      <4> HIDE DEF n, w
      <4>1. cy' \in 0 .. Max2(n - 1, 0) /\ cy' \in Int
        BY <1>2, <1>3
      <4> QED BY <1>1, <4>1, CursorOfInList
    <3>2. Clamp(offset', 0, n) = offset'
      BY <1>1, <2>2 DEF Clamp
    <3>3. Constrained(cy', offset', n, 0, ScrollOff) = [cy |-> cy', offset |-> offset']
      BY <3>1, <3>2, ConstrainedIs
    <3> QED BY <1>2, <1>6, <3>3 DEF RepaintIsStable
  <2> QED BY <1>5, <2>3, <2>4, <2>5 DEF Painted
<1>7. CASE r # 0
  <2> HIDE DEF n, r, c
  <2>1. r \in Nat \ {0}
    BY <1>1, <1>7
  <2>2. w.offset = p /\ w.cy = c
    BY <1>7, ConstrainedIs DEF c
  <2>3. /\ p \in MinOffset(c, r) .. MaxOffset(c, n, r)
        /\ p \in 0 .. Max2(n - r, 0) /\ c \in p .. p + r - 1
    BY <1>1, <1>4, <2>1, PlaceFits
  <2>4. 2 * Margin(r, ScrollOff) < r =>
            /\ Before(c, p) >= Margin(r, ScrollOff) \/ p = 0
            /\ After(c, p, r) >= Margin(r, ScrollOff) \/ p = Max2(n - r, 0)
    BY <1>1, <1>4, <2>1, PlaceKeepsMargin
  <2>5. PlaceOf(c, p, n, r, ScrollOff) = p
    BY <1>1, <1>4, <2>1, PlaceIsStable
  <2>6. CursorOf(c, n) = c
    <3>1. c \in Int
      BY <1>4
    <3> QED BY <1>1, <1>4, <3>1, CursorOfInList
  <2>7. Constrained(c, p, n, r, ScrollOff) = [cy |-> c, offset |-> p]
    <3> HIDE DEF p
    <3> QED BY <1>7, <2>5, <2>6, ConstrainedIs
  <2>8. cy' = c /\ offset' = p /\ Count' = n /\ rows' = r
    BY <1>2, <2>2 DEF r
  <2> HIDE DEF p, w
  <2>9. FrameFits'
    BY <2>3, <2>8 DEF FrameFits, CursorVisible, NoBlankRows
  <2>10. ScrollOffKept'
    BY <2>4, <2>8 DEF ScrollOffKept
  <2>11. RepaintIsStable'
    BY <2>7, <2>8 DEF RepaintIsStable
  <2> QED BY <1>5, <2>9, <2>10, <2>11 DEF Painted
<1> QED BY <1>6, <1>7

LEMMA PaintedNotDuringTurn ==
    ASSUME BatchOK, Acts
    PROVE  Painted' /\ BatchOK'
<1>1. batch \in Nat /\ batch < MaxBatch /\ batch' = batch + 1 /\ MaxBatch \in Nat
  BY ConstantTypes DEF BatchOK, Acts
<1>2. batch' # 0 /\ BatchOK'
  BY <1>1 DEF BatchOK
<1> QED BY <1>2 DEF Painted, FrameFits, ScrollOffKept, RepaintIsStable

\* Neither a result, nor a reload, nor another layout puts the cursor outside the list.
LEMMA ListChangeInList ==
    ASSUME ListOK, CursorOK, Install \/ NewList \/ Relayout
    PROVE  ListOK' /\ CursorOK'
<1>1. merger \in Lists /\ Count \in Nat /\ cy \in Int /\ offset \in Int /\ rows \in Nat
  BY CountType, ConstantTypes DEF ListOK, CursorOK
<1>2. gen \in Nat /\ gen \in 0 .. MaxGen /\ MaxGen \in Nat /\ merger_gen \in 0 .. gen
  BY ConstantTypes DEF ListOK, Gen
<1>3. CASE Install
  <2>1. Len(merger') \in Nat /\ merger' \in Lists
    BY <1>3, ConstantTypes DEF Install
  <2>2. /\ cy' \in 0 .. Max2(Len(merger') - 1, 0) /\ offset' \in Int
    <3>1. Constrain(cy, offset, Len(merger'), rows, ScrollOff)
      BY <1>3 DEF Install
    <3>2. ScrollOff \in Nat
      BY ConstantTypes
    <3> QED BY <1>1, <2>1, <3>1, <3>2, ConstrainedTypes DEF Constrain
  <2>3. merger_gen' \in 0 .. gen' /\ gen' = gen /\ rows' = rows
    BY <1>2, <1>3 DEF Install
  <2>4. rows' \in 0 .. MaxRows /\ gen' \in Gen
    BY <2>3 DEF ListOK, CursorOK
  <2> QED BY <2>1, <2>2, <2>3, <2>4 DEF ListOK, CursorOK, Count
<1>4. CASE NewList
  <2>1. /\ gen' = gen + 1 /\ gen < MaxGen /\ cy' = 0 /\ offset' = 0
        /\ merger' = merger /\ merger_gen' = merger_gen /\ rows' = rows
    BY <1>4 DEF NewList
  <2>2. gen' \in 0 .. MaxGen /\ merger_gen' \in 0 .. gen'
    BY <1>2, <2>1
  <2>3. 0 \in 0 .. Max2(Count - 1, 0)
    BY <1>1 DEF Max2
  <2> QED BY <2>1, <2>2, <2>3 DEF ListOK, CursorOK, Count, Gen
<1>5. CASE Relayout
  BY <1>5 DEF Relayout, listVars, ListOK, CursorOK, Count
<1> QED BY <1>3, <1>4, <1>5

-----------------------------------------------------------------------------
(* The selection in each step. *)

LEMMA SelectedCount ==
    ASSUME SelectedOK
    PROVE  IsFiniteSet(DOMAIN selected) /\ Cardinality(DOMAIN selected) \in Nat
BY FS_CardinalityType DEF SelectedOK

\* Deselecting keeps everything else as it was.
LEMMA DropKeeps ==
    ASSUME LimitOK, SelectedOK, NEW items, Drop(items)
    PROVE  /\ SelectedOK' /\ InOrder
           /\ Cardinality(DOMAIN selected') <= Cardinality(DOMAIN selected)
           /\ select_seq' = select_seq
<1>1. /\ DOMAIN selected' = DOMAIN selected \ items
      /\ \A i \in DOMAIN selected' : selected'[i] = selected[i]
      /\ select_seq' = select_seq
  BY DEF Drop, Without, Restrict
<1>2. DOMAIN selected' \in SUBSET DOMAIN selected
  BY <1>1
<1>3. /\ IsFiniteSet(DOMAIN selected')
      /\ Cardinality(DOMAIN selected') <= Cardinality(DOMAIN selected)
  BY <1>2, SelectedCount, FS_Subset
<1>4. SelectedOK'
  BY <1>1, <1>2, <1>3 DEF SelectedOK
<1>5. InOrder
  BY <1>1 DEF InOrder
<1> QED BY <1>1, <1>3, <1>4, <1>5

\* Picking keeps base as it was, adds no more than the limit allows, and numbers
\* what it adds after everything before.
LEMMA PickKeeps ==
    ASSUME ListOK, LimitOK, SelectedOK,
           NEW base, NEW ks \in SUBSET DOMAIN merger,
           DOMAIN base \subseteq DOMAIN selected,
           \A i \in DOMAIN base : base[i] = selected[i],
           \A k \in ks : merger[k] \notin DOMAIN selected,
           Cardinality(DOMAIN base) <= multi,
           Pick(base, ks)
    PROVE  /\ SelectedOK' /\ InOrder /\ select_seq' \in 0 .. MaxPicks
           /\ Cardinality(DOMAIN selected') <= multi
<1> DEFINE n == Len(merger)
           D == DOMAIN base
           room == multi - Cardinality(D)
           new == Picks(base, ks)
           T == {merger[k] : k \in new}
           Num(i) == select_seq + 1 + Rank(ks, PositionOf(i))
<1>1. /\ merger \in Seq(Items) /\ n \in Nat /\ DOMAIN merger = 1 .. n
      /\ \A k \in 1 .. n : merger[k] \in Items
      /\ \A j, k \in DOMAIN merger : merger[j] = merger[k] => j = k
  BY ListAssumption DEF ListOK
<1>2. multi \in Nat /\ select_seq \in Nat /\ MaxPicks \in Nat
  BY ConstantTypes DEF LimitOK
<1>3. IsFiniteSet(D) /\ Cardinality(D) \in Nat
  <2>1. D \in SUBSET DOMAIN selected
    OBVIOUS
  <2>2. IsFiniteSet(D)
    BY <2>1, SelectedCount, FS_Subset
  <2> QED BY <2>2, FS_CardinalityType
<1>4. room \in Nat
  BY <1>2, <1>3
<1>5. ks \in SUBSET (1 .. n) /\ new = {k \in ks : Rank(ks, k) < room} /\ new \in SUBSET ks
  BY <1>1 DEF Picks
<1>6. IsFiniteSet(new) /\ Cardinality(new) \in Nat /\ Cardinality(new) <= room
  <2> HIDE DEF n, room, new
  <2>1. IsFiniteSet(new) /\ Cardinality(new) \in Nat
    BY <1>1, <1>5, PositionsFinite
  <2>2. Cardinality({k \in ks : Rank(ks, k) < room}) <= room
    BY <1>1, <1>4, <1>5, LowRanks
  <2> QED BY <1>5, <2>1, <2>2
<1>7. IsFiniteSet(T) /\ Cardinality(T) \in Nat /\ Cardinality(T) <= Cardinality(new)
  <2>1. IsFiniteSet(T) /\ Cardinality(T) <= Cardinality(new)
    BY <1>6, ImageBound
  <2> QED BY <2>1, FS_CardinalityType
<1>8. /\ select_seq' = select_seq + Cardinality(new)
      /\ select_seq + Cardinality(new) <= MaxPicks
      /\ selected' = [i \in D \cup T |->
                         IF i \in D THEN base[i] ELSE [seq |-> Num(i), gen |-> merger_gen]]
  BY DEF Pick
<1>9. /\ DOMAIN selected' = D \cup T
      /\ \A i \in D : selected'[i] = selected[i]
      /\ \A i \in T \ D : selected'[i] = [seq |-> Num(i), gen |-> merger_gen]
  <2> HIDE DEF D, T, Num
  <2>1. \A i \in D : base[i] = selected[i]
    BY DEF D
  <2> QED BY <1>8, <2>1
<1>10. ASSUME NEW i \in T
       PROVE  /\ PositionOf(i) \in new /\ merger[PositionOf(i)] = i
              /\ i \notin DOMAIN selected /\ i \in Items
  <2>1. PICK k \in new : merger[k] = i
    OBVIOUS
  <2>2. k \in ks /\ k \in DOMAIN merger /\ k \in 1 .. n
    BY <1>1, <1>5
  <2>3. PositionOf(i) \in DOMAIN merger /\ merger[PositionOf(i)] = i
    BY <2>1, <2>2 DEF PositionOf
  <2>4. PositionOf(i) = k
    BY <1>1, <2>1, <2>2, <2>3
  <2> QED BY <1>1, <2>1, <2>2, <2>4
<1>11. ASSUME NEW i \in T PROVE Num(i) \in Nat /\ Num(i) > select_seq /\ Num(i) <= select_seq'
  <2> DEFINE k == PositionOf(i)
             x == Rank(ks, k)
  <2>1. k \in new
    BY <1>10
  <2> HIDE DEF n, room, new, T, k
  <2>2. k \in ks /\ x < room
    BY <1>5, <2>1
  <2>3. x \in Nat
    BY <1>1, <1>5, RankType
  <2>4. x + 1 <= Cardinality(new)
    <3>1. room \in Int
      BY <1>4
    <3>2. Rank(ks, k) + 1 <= Cardinality({y \in ks : Rank(ks, y) < room})
      BY <1>1, <1>5, <2>2, <3>1, LowRanksDense
    <3> QED BY <1>5, <3>2
  <2>5. Num(i) = select_seq + 1 + x
    BY DEF k
  <2> HIDE DEF x, Num
  <2> QED BY <1>2, <1>6, <1>8, <2>3, <2>4, <2>5
<1>12. select_seq' \in 0 .. MaxPicks /\ select_seq <= select_seq' /\ select_seq' \in Nat
  <2> HIDE DEF new
  <2> QED BY <1>2, <1>6, <1>8
<1>13. /\ IsFiniteSet(DOMAIN selected')
       /\ Cardinality(DOMAIN selected') <= multi
  <2> HIDE DEF D, T, new
  <2>1. /\ IsFiniteSet(D \cup T)
        /\ Cardinality(D \cup T) = Cardinality(D) + Cardinality(T) - Cardinality(D \cap T)
    BY <1>3, <1>7, FS_Union
  <2>2. Cardinality(D \cap T) \in Nat
    <3>1. D \cap T \in SUBSET D
      OBVIOUS
    <3>2. IsFiniteSet(D \cap T)
      BY <1>3, <3>1, FS_Subset
    <3> QED BY <3>2, FS_CardinalityType
  <2>3. Cardinality(D \cup T) <= multi
    BY <1>2, <1>3, <1>6, <1>7, <2>1, <2>2
  <2> QED BY <1>9, <2>1, <2>3
<1>14. InOrder
  <2>1. ASSUME NEW i \in DOMAIN selected', i \in DOMAIN selected PROVE selected'[i] = selected[i]
    BY <1>9, <1>10, <2>1
  <2>2. ASSUME NEW i \in DOMAIN selected', i \notin DOMAIN selected
        PROVE  selected'[i].seq > select_seq
    <3>1. i \in T \ D
      BY <1>9, <2>2
    <3>2. selected'[i] = [seq |-> Num(i), gen |-> merger_gen]
      BY <1>9, <3>1
    <3>3. Num(i) > select_seq
      BY <1>11, <3>1
    <3> HIDE DEF Num
    <3> QED BY <3>2, <3>3
  <2> QED BY <2>1, <2>2 DEF InOrder
<1>15. SelectedOK'
  <2>1. ASSUME NEW i \in DOMAIN selected'
        PROVE  i \in Items /\ selected'[i] \in Selected /\ selected'[i].seq <= select_seq'
    <3>1. CASE i \in D
      <4>1. i \in DOMAIN selected /\ selected'[i] = selected[i]
        BY <1>9, <3>1
      <4>2. i \in Items /\ selected[i] \in Selected /\ selected[i].seq <= select_seq
        BY <4>1 DEF SelectedOK
      <4>3. selected[i].seq \in Nat
        BY <4>2 DEF Selected
      <4> QED BY <1>2, <1>12, <4>1, <4>2, <4>3
    <3>2. CASE i \notin D
      <4>1. i \in T \ D
        BY <1>9, <3>2
      <4>2. selected'[i] = [seq |-> Num(i), gen |-> merger_gen]
        BY <1>9, <4>1
      <4>3. Num(i) \in Nat /\ Num(i) <= select_seq' /\ i \in Items
        BY <1>10, <1>11, <4>1
      <4>4. merger_gen \in Gen
        BY ConstantTypes DEF ListOK, Gen
      <4> HIDE DEF Num
      <4> QED BY <4>2, <4>3, <4>4 DEF Selected
    <3> QED BY <3>1, <3>2
  <2> QED BY <1>13, <2>1 DEF SelectedOK
<1> QED BY <1>12, <1>13, <1>14, <1>15

\* Each action of the selection keeps the limit, the numbers and the cursor.
LEMMA SelectActionKeeps ==
    ASSUME ListOK, CursorOK, LimitOK, SelectedOK, WithinLimit, SelectAction
    PROVE  CursorOK' /\ LimitOK' /\ SelectedOK' /\ WithinLimit' /\ InOrder
<1>1. /\ merger \in Lists /\ Count \in Nat /\ cy \in Int /\ multi \in Nat
      /\ DOMAIN merger = 1 .. Count /\ Cardinality(DOMAIN selected) \in Nat
      /\ Cardinality(DOMAIN selected) <= multi
  BY CountType, ConstantTypes, SelectedCount DEF ListOK, CursorOK, LimitOK, WithinLimit, Count
\* What is left to show of an action that drops or picks.
<1>2. ASSUME NEW items, Drop(items), multi' = multi
      PROVE  LimitOK' /\ SelectedOK' /\ WithinLimit' /\ InOrder
  <2>1. /\ SelectedOK' /\ InOrder /\ select_seq' = select_seq
        /\ Cardinality(DOMAIN selected') <= Cardinality(DOMAIN selected)
    BY <1>2, DropKeeps
  <2>2. Cardinality(DOMAIN selected') \in Nat
    BY <2>1, FS_CardinalityType DEF SelectedOK
  <2>3. Cardinality(DOMAIN selected') <= multi
    BY <1>1, <2>1, <2>2
  <2> QED BY <1>2, <2>1, <2>3 DEF LimitOK, WithinLimit
<1>3. ASSUME NEW base, NEW ks \in SUBSET DOMAIN merger, Pick(base, ks), multi' = multi,
             DOMAIN base \subseteq DOMAIN selected,
             \A i \in DOMAIN base : base[i] = selected[i],
             \A k \in ks : merger[k] \notin DOMAIN selected
      PROVE  LimitOK' /\ SelectedOK' /\ WithinLimit' /\ InOrder
  <2>1. Cardinality(DOMAIN base) <= multi
    <3>1. DOMAIN base \in SUBSET DOMAIN selected
      BY <1>3
    <3>2. IsFiniteSet(DOMAIN base) /\ Cardinality(DOMAIN base) <= Cardinality(DOMAIN selected)
      BY <3>1, SelectedCount, FS_Subset
    <3>3. Cardinality(DOMAIN base) \in Nat
      BY <3>2, FS_CardinalityType
    <3> QED BY <1>1, <3>2, <3>3
  <2>2. /\ SelectedOK' /\ InOrder /\ select_seq' \in 0 .. MaxPicks
        /\ Cardinality(DOMAIN selected') <= multi
    BY <1>3, <2>1, PickKeeps
  <2> QED BY <1>3, <2>2 DEF LimitOK, WithinLimit
<1>4. ASSUME cy' \in 0 .. Max2(Count - 1, 0), offset' = offset, merger' = merger, rows' = rows
      PROVE  CursorOK'
  BY <1>4 DEF CursorOK, Count
<1>5. ASSUME cy' = cy, offset' = offset, merger' = merger, rows' = rows
      PROVE  CursorOK'
  BY <1>5 DEF CursorOK, Count
\* The current item may be picked if it is not selected.
<1>6. ASSUME Count > 0, Current \notin DOMAIN selected, Pick(selected, {cy + 1}), multi' = multi
      PROVE  LimitOK' /\ SelectedOK' /\ WithinLimit' /\ InOrder
  <2>1. cy + 1 \in DOMAIN merger
    BY <1>1, <1>6 DEF CursorOK, Max2
  <2>2. \A k \in {cy + 1} : merger[k] \notin DOMAIN selected
    BY <1>6 DEF Current
  <2>3. {cy + 1} \in SUBSET DOMAIN merger
    BY <2>1
  <2> QED BY <1>3, <1>6, <2>2, <2>3
<1>7. CASE Toggle
  <2>1. /\ Count > 0 /\ ToggleCurrent /\ multi' = multi
        /\ merger' = merger /\ offset' = offset /\ rows' = rows
    BY <1>7 DEF Toggle, listVars
  <2>2. PICK d \in {-1, 0, 1} : cy' = IF d = 0 THEN cy ELSE VMove(cy, d, TRUE)
    BY <1>7 DEF Toggle
  <2>3. cy' \in 0 .. Max2(Count - 1, 0)
    <3>1. d \in Int
      OBVIOUS
    <3>2. VMove(cy, d, TRUE) \in 0 .. Max2(Count - 1, 0)
      BY <1>1, <3>1, VMoveInList
    <3> QED BY <2>2, <3>2 DEF CursorOK
  <2>4. CursorOK'
    BY <1>4, <2>1, <2>3
  <2>5. CASE Current \in DOMAIN selected
    BY <1>2, <2>1, <2>4, <2>5 DEF ToggleCurrent
  <2>6. CASE Current \notin DOMAIN selected
    BY <1>6, <2>1, <2>4, <2>6 DEF ToggleCurrent
  <2> QED BY <2>5, <2>6
<1>8. CASE Select
  <2>1. /\ Count > 0 /\ Current \notin DOMAIN selected /\ Pick(selected, {cy + 1}) /\ multi' = multi
        /\ merger' = merger /\ offset' = offset /\ rows' = rows /\ cy' = cy
    BY <1>8 DEF Select, listVars, windowVars
  <2> QED BY <1>5, <1>6, <2>1
<1>9. CASE Deselect
  <2>1. /\ Drop({Current}) /\ multi' = multi
        /\ merger' = merger /\ offset' = offset /\ rows' = rows /\ cy' = cy
    BY <1>9 DEF Deselect, listVars, windowVars
  <2> QED BY <1>2, <1>5, <2>1
<1>10. CASE SelectAll
  <2> DEFINE ks == Unselected(DOMAIN selected)
  <2>1. /\ Pick(selected, ks) /\ multi' = multi
        /\ merger' = merger /\ offset' = offset /\ rows' = rows /\ cy' = cy
    BY <1>10 DEF SelectAll, listVars, windowVars
  <2>2. ks \in SUBSET DOMAIN merger /\ \A k \in ks : merger[k] \notin DOMAIN selected
    BY DEF Unselected
  <2> HIDE DEF ks
  <2> QED BY <1>3, <1>5, <2>1, <2>2
<1>11. CASE DeselectAll
  <2>1. /\ Drop(Range(merger)) /\ multi' = multi
        /\ merger' = merger /\ offset' = offset /\ rows' = rows /\ cy' = cy
    BY <1>11 DEF DeselectAll, listVars, windowVars
  <2> QED BY <1>2, <1>5, <2>1
<1>12. CASE ToggleAll
  <2> DEFINE ks == Unselected(DOMAIN selected)
             base == Without(Range(merger))
  <2>1. /\ Pick(base, ks) /\ multi' = multi
        /\ merger' = merger /\ offset' = offset /\ rows' = rows /\ cy' = cy
    BY <1>12 DEF ToggleAll, listVars, windowVars
  <2>2. ks \in SUBSET DOMAIN merger /\ \A k \in ks : merger[k] \notin DOMAIN selected
    BY DEF Unselected
  <2>3. DOMAIN base \subseteq DOMAIN selected /\ \A i \in DOMAIN base : base[i] = selected[i]
    BY DEF Without, Restrict
  <2> HIDE DEF ks, base
  <2> QED BY <1>3, <1>5, <2>1, <2>2, <2>3
<1>13. CASE ClearSelection
  <2>1. /\ Drop(DOMAIN selected) /\ multi' = multi
        /\ merger' = merger /\ offset' = offset /\ rows' = rows /\ cy' = cy
    BY <1>13 DEF ClearSelection, listVars, windowVars
  <2> QED BY <1>2, <1>5, <2>1
<1>14. CASE ChangeMulti
  <2> DEFINE items == IF multi > 0 /\ multi' # multi THEN DOMAIN selected ELSE {}
  <2>1. /\ Drop(items) /\ multi' \in Multis
        /\ merger' = merger /\ offset' = offset /\ rows' = rows /\ cy' = cy
    BY <1>14 DEF ChangeMulti, listVars, windowVars
  <2>2. /\ SelectedOK' /\ InOrder /\ select_seq' = select_seq
        /\ Cardinality(DOMAIN selected') <= Cardinality(DOMAIN selected)
    <3> HIDE DEF items
    <3> QED BY <2>1, DropKeeps
  <2>3. Cardinality(DOMAIN selected') \in Nat
    BY <2>2, FS_CardinalityType DEF SelectedOK
  <2>4. Cardinality(DOMAIN selected') <= multi'
    <3>1. multi' \in Nat
      BY <2>1, ConstantTypes
    <3>2. CASE multi > 0 /\ multi' # multi
      <4>1. DOMAIN selected' = {}
        BY <2>1, <3>2 DEF Drop, Without, Restrict
      <4> QED BY <3>1, <4>1, FS_EmptySet
    <3>3. CASE ~(multi > 0) \/ multi' = multi
      BY <1>1, <2>2, <2>3, <3>1, <3>3
    <3> QED BY <3>2, <3>3
  <2> QED BY <1>5, <2>1, <2>2, <2>4 DEF LimitOK, WithinLimit
<1> QED BY <1>7, <1>8, <1>9, <1>10, <1>11, <1>12, <1>13, <1>14 DEF SelectAction

\* A step that leaves the selection alone keeps what is said of it.
LEMMA SelectionUnchanged ==
    ASSUME LimitOK, SelectedOK, WithinLimit, UNCHANGED selVars
    PROVE  LimitOK' /\ SelectedOK' /\ WithinLimit' /\ InOrder
<1>1. multi' = multi /\ selected' = selected /\ select_seq' = select_seq
  BY DEF selVars
<1> QED BY <1>1 DEF LimitOK, SelectedOK, WithinLimit, InOrder

-----------------------------------------------------------------------------
(* The theorems. *)

LEMMA Initially == Init => IInv
<1> SUFFICES ASSUME Init PROVE IInv
  OBVIOUS
<1>1. /\ merger = <<>> /\ merger_gen = 0 /\ gen = 0 /\ cy = 0 /\ offset = 0 /\ rows \in 0 .. MaxRows
      /\ multi \in Multis /\ selected = NoneSelected /\ select_seq = 0 /\ batch = 0
  BY DEF Init
<1>2. Count = 0 /\ rows \in Nat /\ multi \in Nat
  BY <1>1, ConstantTypes DEF Count
<1>3. ListOK /\ CursorOK /\ BatchOK
  BY <1>1, <1>2, ConstantTypes DEF ListOK, CursorOK, BatchOK, Gen, Max2
<1>4. DOMAIN selected = {}
  BY <1>1 DEF NoneSelected
<1>5. LimitOK /\ SelectedOK /\ WithinLimit
  BY <1>1, <1>2, <1>4, ConstantTypes, FS_EmptySet DEF LimitOK, SelectedOK, WithinLimit
<1>6. /\ Constrained(0, 0, 0, rows, ScrollOff).cy = 0
      /\ Constrained(0, 0, 0, rows, ScrollOff) = [cy |-> 0, offset |-> 0]
  <2>1. CursorOf(0, 0) = 0 /\ Clamp(0, 0, 0) = 0
    BY DEF CursorOf, Clamp, Max2
  <2>2. CASE rows = 0
    BY <2>1, <2>2, ConstrainedIs
  <2>3. CASE rows # 0
    <3>1. PlaceOf(0, 0, 0, rows, ScrollOff) = 0
      <4>1. rows \in Nat \ {0} /\ 0 \in 0 .. Max2(0 - 1, 0) /\ 0 \in Int /\ 0 \in Nat
        BY <1>2, <2>3 DEF Max2
      <4>2. PlaceOf(0, 0, 0, rows, ScrollOff) \in 0 .. Max2(0 - rows, 0)
        BY <4>1, ConstantTypes, PlaceFits
      <4> QED BY <4>1, <4>2 DEF Max2
    <3> QED BY <2>1, <2>3, <3>1, ConstrainedIs
  <2> QED BY <2>2, <2>3
<1>7. Painted
  <2>1. FrameFits
    BY <1>1, <1>2 DEF FrameFits, CursorVisible, NoBlankRows, Max2
  <2>2. Max2(Count - rows, 0) = 0
    BY <1>2 DEF Max2
  <2>3. ScrollOffKept
    BY <1>1, <2>2 DEF ScrollOffKept
  <2>4. RepaintIsStable
    BY <1>1, <1>2, <1>6 DEF RepaintIsStable
  <2> QED BY <2>1, <2>3, <2>4 DEF Painted
<1> QED BY <1>3, <1>5, <1>7 DEF IInv

\* One case for each way in which the state changes.
LEMMA Preserved == IInv /\ [Next]_vars => IInv' /\ (InOrder \/ UNCHANGED vars)
<1> SUFFICES ASSUME IInv, [Next]_vars PROVE IInv' /\ (InOrder \/ UNCHANGED vars)
  OBVIOUS
<1>1. /\ ListOK /\ CursorOK /\ LimitOK /\ SelectedOK /\ WithinLimit /\ BatchOK /\ Painted
  BY DEF IInv
<1>2. CASE CursorAction
  <2>1. Acts /\ UNCHANGED listVars /\ UNCHANGED selVars
    BY <1>2 DEF CursorAction, Step, Page, Jump, ScrollLine, ScrollMiddle, Click, NextSelected
  <2>2. ListOK'
    BY <1>1, <2>1 DEF ListOK, listVars
  <2>3. CursorOK'
    BY <1>1, <1>2, CursorActionInList
  <2> QED BY <1>1, <2>1, <2>2, <2>3, SelectionUnchanged, PaintedNotDuringTurn DEF IInv
<1>3. CASE SelectAction
  <2>1. Acts /\ UNCHANGED listVars
    BY <1>3 DEF SelectAction, Toggle, Select, Deselect, SelectAll, DeselectAll, ToggleAll,
                ClearSelection, ChangeMulti
  <2>2. ListOK'
    BY <1>1, <2>1 DEF ListOK, listVars
  <2> QED BY <1>1, <1>3, <2>1, <2>2, SelectActionKeeps, PaintedNotDuringTurn DEF IInv
<1>4. CASE Install \/ Relayout
  <2>1. Acts /\ UNCHANGED selVars
    BY <1>4 DEF Install, Relayout
  <2> QED BY <1>1, <1>4, <2>1, ListChangeInList, SelectionUnchanged, PaintedNotDuringTurn DEF IInv
<1>5. CASE NewList
  <2>1. Acts /\ Drop(DOMAIN selected) /\ multi' = multi
    BY <1>5 DEF NewList
  <2>2. /\ SelectedOK' /\ InOrder /\ select_seq' = select_seq
        /\ Cardinality(DOMAIN selected') <= Cardinality(DOMAIN selected)
    BY <1>1, <2>1, DropKeeps
  <2>3. LimitOK'
    BY <1>1, <2>1, <2>2 DEF LimitOK
  <2>4. WithinLimit'
    <3>1. DOMAIN selected' = {}
      BY <2>1 DEF Drop, Without, Restrict
    <3>2. multi' \in Nat
      BY <2>3, ConstantTypes DEF LimitOK
    <3> QED BY <3>1, <3>2, FS_EmptySet DEF WithinLimit
  <2> QED BY <1>1, <1>5, <2>1, <2>2, <2>3, <2>4, ListChangeInList, PaintedNotDuringTurn DEF IInv
<1>6. CASE Repaint
  <2>1. batch' = 0 /\ UNCHANGED listVars /\ UNCHANGED selVars
    BY <1>6 DEF Repaint
  <2>2. ListOK' /\ BatchOK'
    BY <1>1, <2>1, ConstantTypes DEF ListOK, BatchOK, listVars
  <2> QED BY <1>1, <1>6, <2>1, <2>2, PaintedByRepaint, SelectionUnchanged DEF IInv
<1>7. CASE UNCHANGED vars
  <2>1. /\ merger' = merger /\ merger_gen' = merger_gen /\ gen' = gen
        /\ cy' = cy /\ offset' = offset /\ rows' = rows /\ batch' = batch /\ UNCHANGED selVars
    BY <1>7 DEF vars, listVars, windowVars
  <2>2. ListOK' /\ CursorOK' /\ BatchOK'
    BY <1>1, <2>1 DEF ListOK, CursorOK, BatchOK, Count
  <2>3. Painted'
    BY <1>1, <2>1 DEF Painted, FrameFits, CursorVisible, NoBlankRows, ScrollOffKept,
                      RepaintIsStable, Count
  <2> QED BY <1>1, <1>7, <2>1, <2>2, <2>3, SelectionUnchanged DEF IInv
<1> QED BY <1>2, <1>3, <1>4, <1>5, <1>6, <1>7 DEF Next

LEMMA Invariant == Spec => []IInv
<1>1. Init => IInv
  BY Initially
<1>2. IInv /\ [Next]_vars => IInv'
  BY Preserved
<1> QED BY <1>1, <1>2, PTL DEF Spec

\* The state is of its type; in particular no action, result or reload puts the
\* cursor outside the list, by which current_item() indexes the result.
THEOREM TypeCorrect == Spec => []ListTypeOK
<1>1. IInv => ListTypeOK
  BY DEF IInv, ListOK, CursorOK, LimitOK, SelectedOK, BatchOK, ListTypeOK
<1> QED BY <1>1, Invariant, PTL

\* Every frame of repaint() shows the cursor and wastes no row.
THEOREM Frames == Spec => []FrameFits
<1>1. IInv => FrameFits
  BY DEF IInv, Painted
<1> QED BY <1>1, Invariant, PTL

\* Every frame keeps --scroll-off lines around the cursor, for any such number.
THEOREM Margins == Spec => []ScrollOffKept
<1>1. IInv => ScrollOffKept
  BY DEF IInv, Painted
<1> QED BY <1>1, Invariant, PTL

\* Both together: what repaint() promises of every frame.
THEOREM Arranged == Spec => []FrameIsArranged
<1>1. IInv => FrameIsArranged
  BY DEF IInv, Painted, FrameIsArranged
<1> QED BY <1>1, Invariant, PTL

\* constrain() is at rest in the frame it made: its loop of loops ends, and a
\* frame painted again is the same.
THEOREM Stable == Spec => []RepaintIsStable
<1>1. IInv => RepaintIsStable
  BY DEF IInv, Painted
<1> QED BY <1>1, Invariant, PTL

\* No sequence of select_item() and its callers exceeds --multi.
THEOREM Limited == Spec => []WithinLimit
<1>1. IInv => WithinLimit
  BY DEF IInv
<1> QED BY <1>1, Invariant, PTL

\* sorted_selected() is the order in which the items were picked.
THEOREM Ordered == Spec => PickedInOrder
<1> DEFINE A == \A i \in DOMAIN selected' :
                  IF i \in DOMAIN selected THEN selected'[i] = selected[i]
                  ELSE \A j \in DOMAIN selected : selected'[i].seq > selected[j].seq
<1>1. IInv /\ IInv' /\ (InOrder \/ UNCHANGED vars) => [A]_vars
  <2> SUFFICES ASSUME IInv, IInv', InOrder PROVE A
    OBVIOUS
  <2>1. ASSUME NEW i \in DOMAIN selected', i \notin DOMAIN selected, NEW j \in DOMAIN selected
        PROVE  selected'[i].seq > selected[j].seq
    <3>1. selected'[i] \in Selected /\ selected'[i].seq > select_seq
      BY <2>1 DEF IInv, SelectedOK, InOrder
    <3>2. selected[j] \in Selected /\ selected[j].seq <= select_seq /\ select_seq \in Nat
      BY ConstantTypes DEF IInv, SelectedOK, LimitOK
    <3> QED BY <3>1, <3>2 DEF Selected
  <2> QED BY <2>1 DEF InOrder
<1>2. IInv /\ [Next]_vars => [A]_vars
  BY <1>1, Preserved
<1> HIDE DEF A
<1>3. Spec => [][A]_vars
  BY <1>2, Invariant, PTL DEF Spec
<1> QED BY <1>3 DEF A, PickedInOrder

\* Whatever the actions on the selection, in any order.
THEOREM Selections == Spec => SelectionKept
<1> QED BY Limited, Ordered, PTL DEF SelectionKept

=============================================================================
