------------------------------ MODULE MatchAlgo ------------------------------
(***************************************************************************)
(* The matching algorithms of matcher.cpp as operators.  A text is a       *)
(* sequence of characters.  char_equal compares the images of two          *)
(* characters under accent stripping and case folding, so every algorithm  *)
(* works on a view of the text: the images, and the classes of the         *)
(* characters as typed.  Places in a text are counted from 1; a match      *)
(* [begin, end) covers the places begin + 1 .. end.                        *)
(***************************************************************************)
EXTENDS Integers, Sequences, FiniteSets, SequencesExt

Spaces   == {" ", "\t"}
LowerOf  == [A |-> "a", B |-> "b", E |-> "e"]
Plain    == [e_acute |-> "e", E_acute |-> "E"]          \* kNormalizeTable
Classes  == {"White", "NonWord", "Delimiter", "Lower", "Upper", "Letter", "Number"}

ClassOf(c) ==
    CASE c \in Spaces                -> "White"
      [] c \in {"a", "b", "c", "e"}  -> "Lower"
      [] c \in DOMAIN LowerOf        -> "Upper"
      [] c \in {"1", "2"}            -> "Number"
      [] c \in {"/", ",", "|"}       -> "Delimiter"
      [] c \in DOMAIN Plain          -> "Letter"
      [] OTHER                       -> "NonWord"

ScoreMatch == 16
GapStart == -3
GapExtension == -1
BonusBoundary == 8
BonusNonWord == 8
BonusBoundaryWhite == 10
BonusBoundaryDelimiter == 9
BonusCamel123 == 7
BonusConsecutive == 4
FirstCharMultiplier == 2

BonusFor(prev, curr) ==
    IF curr # "White" /\ prev = "White" THEN BonusBoundaryWhite
    ELSE IF curr # "White" /\ prev = "Delimiter" THEN BonusBoundaryDelimiter
    ELSE IF curr # "White" /\ prev = "NonWord" THEN BonusBoundary
    ELSE IF (prev = "Lower" /\ curr = "Upper") \/ (prev # "Number" /\ curr = "Number") THEN BonusCamel123
    ELSE IF curr \in {"NonWord", "Delimiter"} THEN BonusNonWord
    ELSE IF curr = "White" THEN BonusBoundaryWhite
    ELSE 0

\* The bonus of a place: the start of the text counts as whitespace.
Bonus(cl, j) == BonusFor(IF j = 1 THEN "White" ELSE cl[j - 1], cl[j])

Lower(c) == IF c \in DOMAIN LowerOf THEN LowerOf[c] ELSE c
Image(c, normalize, cs) ==
    LET plain == IF normalize /\ c \in DOMAIN Plain THEN Plain[c] ELSE c
    IN  IF cs THEN plain ELSE Lower(plain)
Images(s, normalize, cs) == [i \in DOMAIN s |-> Image(s[i], normalize, cs)]

NoMatch    == [matched |-> FALSE, score |-> 0, begin |-> -1, end |-> -1, at |-> <<>>]
EmptyMatch == [NoMatch EXCEPT !.matched = TRUE]
Found(score, b, e, at) == [matched |-> TRUE, score |-> score, begin |-> b, end |-> e, at |-> at]
Places(b, e) == [k \in 1 .. e - b |-> b + k]

-----------------------------------------------------------------------------
(* calculate_score: the score and the positions of the pattern matched     *)
(* greedily in the window [b, e).                                          *)

ScoreStart == [k |-> 1, score |-> 0, gap |-> FALSE, run |-> 0, first |-> 0, at |-> <<>>]

ScoreHit(a, bonus, j) ==
    LET first == IF a.run = 0 \/ (bonus >= BonusBoundary /\ bonus > a.first)
                   THEN bonus ELSE a.first
        got   == IF a.run = 0 THEN bonus ELSE Max({bonus, first, BonusConsecutive})
    IN  [k     |-> a.k + 1,
         score |-> a.score + ScoreMatch + (IF a.k = 1 THEN FirstCharMultiplier ELSE 1) * got,
         gap   |-> FALSE, run |-> a.run + 1, first |-> first, at |-> Append(a.at, j)]

ScoreMiss(a) ==
    [a EXCEPT !.score = @ + IF a.gap THEN GapExtension ELSE GapStart,
              !.gap = TRUE, !.run = 0, !.first = 0]

ScoreStep(cl, t, p, a, j) ==
    IF a.k <= Len(p) /\ t[j] = p[a.k] THEN ScoreHit(a, Bonus(cl, j), j) ELSE ScoreMiss(a)

CalculateScore(cl, t, p, b, e) ==
    LET upto[n \in 0 .. e - b] ==
            IF n = 0 THEN ScoreStart ELSE ScoreStep(cl, t, p, upto[n - 1], b + n)
    IN  upto[e - b]

Scored(a, b, e) == Found(a.score, b, e, a.at)
ScoredMatch(cl, t, p, b, e) == Scored(CalculateScore(cl, t, p, b, e), b, e)

-----------------------------------------------------------------------------
(* fuzzy_match_v1: the first place where a forward scan completes the      *)
(* pattern, then a backward scan that shrinks the window from the left.    *)

\* Places of p in t, each the next one after the place before it; shorter than
\* p when the text runs out.
Taken(t, p, at, j) == IF Len(at) < Len(p) /\ t[j] = p[Len(at) + 1] THEN Append(at, j) ELSE at
GreedyPlaces(t, p) ==
    LET upto[n \in 0 .. Len(t)] == IF n = 0 THEN <<>> ELSE Taken(t, p, upto[n - 1], n) IN upto[Len(t)]

Shrunk(cl, t, p, e) ==
    ScoredMatch(cl, t, p, e - Last(GreedyPlaces(Reverse(SubSeq(t, 1, e)), Reverse(p))), e)

FuzzyMatchV1(cl, t, p) ==
    LET forward == GreedyPlaces(t, p)
    IN  IF p = <<>> THEN EmptyMatch
        ELSE IF Len(forward) < Len(p) THEN NoMatch
        ELSE Shrunk(cl, t, p, Last(forward))

-----------------------------------------------------------------------------
(* fuzzy_match_v2: M, run and from of the code are the fields of a cell    *)
(* (from = 0: none), a row is the cells of one pattern character.          *)

NoCell == [m |-> 0, run |-> 0, from |-> 0]
Gap(inGap) == IF inGap THEN GapExtension ELSE GapStart

FirstRow(t, p, b) ==
    [j \in DOMAIN t |-> IF t[j] = p[1]
        THEN [m |-> ScoreMatch + FirstCharMultiplier * b[j], run |-> 1, from |-> 0] ELSE NoCell]

\* The cell of pattern character c at column j; s2 is the score of leaving a gap.
Cell(above, c, t, b, j, a, s2) ==
    LET run0   == (IF j > 1 THEN above[j - 1].run ELSE 0) + 1
        fb     == b[j - run0 + 1]
        breaks == run0 > 1 /\ b[j] >= BonusBoundary /\ b[j] > fb
        bonus  == IF run0 > 1 /\ ~breaks THEN Max({b[j], BonusConsecutive, fb}) ELSE b[j]
        s1     == a.hprev + ScoreMatch
    IN  IF a.col = 0 \/ t[j] # c THEN NoCell
        ELSE IF s1 + bonus < s2 THEN [m |-> s1 + b[j], run |-> 0, from |-> a.col]
        ELSE [m |-> s1 + bonus, run |-> IF breaks THEN 1 ELSE run0, from |-> a.col]

\* A mutant: the carry forgets the column it comes from.
ColumnHere(above, c, t, b, j, a) ==
    LET s2      == a.hcur + Gap(a.gapcur)
        cell    == Cell(above, c, t, b, j, a, s2)
        carried == a.hprev + Gap(a.gapprev)
        own     == above[j].run > 0 /\ above[j].m >= carried
    IN  [row     |-> Append(a.row, cell),
         hcur    |-> Max({cell.m, s2, 0}),
         gapcur  |-> cell.m < s2,
         hprev   |-> Max({IF own THEN above[j].m ELSE carried, 0}),
         col     |-> IF own \/ a.col > 0 THEN j ELSE 0,
         gapprev |-> ~own]

\* One column: the new cell, then the carries of the two rows.
Column(above, c, t, b, j, a) ==
    LET s2      == a.hcur + Gap(a.gapcur)
        cell    == Cell(above, c, t, b, j, a, s2)
        s1      == cell.m
        carried == a.hprev + Gap(a.gapprev)
        own     == above[j].run > 0 /\ above[j].m >= carried
    IN  [row     |-> Append(a.row, cell),
         hcur    |-> Max({s1, s2, 0}),
         gapcur  |-> s1 < s2,
         hprev   |-> Max({IF own THEN above[j].m ELSE carried, 0}),
         col     |-> IF own THEN j ELSE a.col,
         gapprev |-> ~own]

RowStart == [row |-> <<>>, hcur |-> 0, gapcur |-> FALSE, hprev |-> 0, col |-> 0, gapprev |-> FALSE]

NextRow(above, c, t, b) ==
    LET upto[j \in 0 .. Len(t)] ==
            IF j = 0 THEN RowStart ELSE Column(above, c, t, b, j, upto[j - 1])
    IN  upto[Len(t)].row

\* All rows, the last one last.
AddRow(rows, t, p, b, i) ==
    Append(rows, IF i = 1 THEN FirstRow(t, p, b) ELSE NextRow(Last(rows), p[i], t, b))
Rows(t, p, b) ==
    LET upto[i \in 0 .. Len(p)] == IF i = 0 THEN <<>> ELSE AddRow(upto[i - 1], t, p, b, i)
    IN  upto[Len(p)]

\* The predecessor columns from column j of the last row back to the first row.
Backtrack(rows, j) ==
    LET back[n \in 0 .. Len(rows) - 1] ==
            IF n = 0 THEN j ELSE rows[Len(rows) - n + 1][back[n - 1]].from
    IN  [i \in 1 .. Len(rows) |-> back[Len(rows) - i]]

\* The first cell of the last row with the best score, and the places that lead
\* to it, in a text whose first column is the place first.
FoundAt(score, first, back) ==
    LET at == [i \in DOMAIN back |-> back[i] + first - 1] IN Found(score, at[1] - 1, Last(at), at)
BestMatch(rows, first) ==
    LET top  == Last(rows)
        best == Max({0} \cup {top[j].m : j \in DOMAIN top})
    IN  FoundAt(best, first, Backtrack(rows, Min({k \in DOMAIN top : top[k].m = best})))

InWindow(cl, t, p, first) ==
    LET win == SubSeq(t, first, Max({j \in DOMAIN t : t[j] = Last(p)}))
    IN  BestMatch(Rows(win, p, [j \in DOMAIN win |-> Bonus(cl, j + first - 1)]), first)

FuzzyMatchV2(cl, t, p) ==
    LET forward == GreedyPlaces(t, p)
    IN  IF p = <<>> THEN EmptyMatch
        ELSE IF Len(forward) < Len(p) THEN NoMatch
        ELSE InWindow(cl, t, p, forward[1])

-----------------------------------------------------------------------------
(* The contiguous matches. *)

\* p stands in t right after the first d places.
StandsAt(t, p, d) == d >= 0 /\ d + Len(p) <= Len(t) /\ \A k \in DOMAIN p : t[d + k] = p[k]

Outside == {"White", "NonWord", "Delimiter"}

\* A mutant: what follows the match is not looked at.
OnLeftBoundary(cl, p, d) ==
    Bonus(cl, d + 1) >= BonusBoundary /\ (d > 0 => cl[d] \in Outside)

\* --exact-boundary: a word boundary on both sides.
OnBoundaries(cl, p, d) ==
    /\ Bonus(cl, d + 1) >= BonusBoundary
    /\ d > 0 => cl[d] \in Outside
    /\ d + Len(p) < Len(cl) => cl[d + Len(p) + 1] \in Outside

\* The occurrence the scan keeps: the first of boundary quality, or else the
\* first of those with the best bonus.
KeptStart(cl, D) ==
    LET good == {d \in D : Bonus(cl, d + 1) >= BonusBoundary}
        top  == {d \in D : \A x \in D : Bonus(cl, d + 1) >= Bonus(cl, x + 1)}
    IN  IF good # {} THEN Min(good) ELSE Min(top)

\* --exact-boundary scores: underscores next to the match cost a little.
BoundaryScore(s, cl, p, d) ==
    LET bonus == Bonus(cl, d + 1)
        cost  == bonus - BonusBoundary + 1
        left  == d > 0 /\ s[d] = "_"
        right == d + Len(p) < Len(s) /\ s[d + Len(p) + 1] = "_"
    IN  bonus - (IF left THEN cost + 1 ELSE 0) - (IF right THEN IF left THEN 1 ELSE cost ELSE 0)
        + ScoreMatch * Len(p) + BonusBoundaryWhite * (Len(p) + 1)

ExactMatchAt(s, cl, t, p, boundary, d) ==
    IF boundary THEN Found(BoundaryScore(s, cl, p, d), d, d + Len(p), Places(d, d + Len(p)))
    ELSE ScoredMatch(cl, t, p, d, d + Len(p))

ExactMatchNaive(s, cl, t, p, boundary) ==
    LET D == {d \in 0 .. Len(t) - Len(p) : StandsAt(t, p, d) /\ (boundary => OnBoundaries(cl, p, d))}
    IN  IF p = <<>> THEN EmptyMatch
        ELSE IF D = {} THEN NoMatch
        ELSE ExactMatchAt(s, cl, t, p, boundary, KeptStart(cl, D))

LeadingSpaces(s)  == Cardinality({i \in DOMAIN s : \A j \in 1 .. i : s[j] \in Spaces})
TrailingSpaces(s) == Cardinality({i \in DOMAIN s : \A j \in i .. Len(s) : s[j] \in Spaces})
Lead(s, p)  == IF Head(p) \in Spaces THEN 0 ELSE LeadingSpaces(s)
Trail(s, p) == IF Last(p) \in Spaces THEN 0 ELSE TrailingSpaces(s)

PrefixMatch(s, cl, t, p) ==
    IF p = <<>> THEN EmptyMatch
    ELSE IF ~StandsAt(t, p, Lead(s, p)) THEN NoMatch
    ELSE ScoredMatch(cl, t, p, Lead(s, p), Lead(s, p) + Len(p))

SuffixMatch(s, cl, t, p) ==
    LET e == Len(t) - Trail(s, p)
    IN  IF p = <<>> THEN EmptyMatch
        ELSE IF ~StandsAt(SubSeq(t, 1, e), p, e - Len(p)) THEN NoMatch
        ELSE ScoredMatch(cl, t, p, e - Len(p), e)

EqualMatch(s, t, p) ==
    LET d == Lead(s, p)
    IN  IF p = <<>> \/ Len(t) - d - Trail(s, p) # Len(p) \/ ~StandsAt(t, p, d) THEN NoMatch
        ELSE Found((ScoreMatch + BonusBoundaryWhite) * Len(p)
                     + (FirstCharMultiplier - 1) * BonusBoundaryWhite, d, d + Len(p), Places(d, d + Len(p)))
=============================================================================
