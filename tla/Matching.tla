------------------------------ MODULE Matching ------------------------------
(***************************************************************************)
(* One line, read under some options, and a query typed at it: the item    *)
(* ItemBuilder makes of the line, and what Matcher::match answers for      *)
(* every query on the way.                                                 *)
(***************************************************************************)
EXTENDS Integers, Sequences, FiniteSets, SequencesExt

CONSTANTS Lines,      \* lines the reader may deliver
          Settings,   \* option records: those of Matcher and of Tokenizer
          Strokes,    \* what one stroke (or paste) adds to the query
          MaxStrokes  \* bound of the model: strokes typed

ASSUME MaxStrokesIsNat == MaxStrokes \in Nat

M == INSTANCE Matcher
T == INSTANCE Tokenizer

\* What is typed are characters, and so is what the tokenizer makes of a line;
\* the ranges it keeps are offsets and lengths (uint32_t).
ASSUME StrokesAssumption == Strokes \subseteq Seq(STRING)
ASSUME ItemsAssumption ==
    \A opt \in Settings, l \in Lines :
        /\ T!BuildItem(opt, l, 0).text \in Seq(STRING)
        /\ T!BuildItem(opt, l, 0).nth \in Seq([start : Nat, len : Nat])

VARIABLES o, line, query, typed
vars == <<o, line, query, typed>>

Init == o \in Settings /\ line \in Lines /\ query = <<>> /\ typed = 0

\* The cursor stands at the end of the query, or at its start.
Type(s) ==
    /\ typed < MaxStrokes
    /\ typed' = typed + 1
    /\ query' \in {query \o s, s \o query}
    /\ UNCHANGED <<o, line>>

Next == \E s \in Strokes : Type(s)
Spec == Init /\ [][Next]_vars

-----------------------------------------------------------------------------
item    == T!BuildItem(o, line, 0)
Hit(q)  == M!Match(o, item.text, M!ParseTerms(o, q), item.nth).matched
terms   == UNION {Range(set) : set \in Range(M!ParseTerms(o, query))}
searched == IF item.nth = <<>> THEN {item.text}
            ELSE {M!PartOf(item.text, item.nth[k]) : k \in DOMAIN item.nth}

(* What a term asks of a text, said without the algorithms. *)
Black(s) == {i \in DOMAIN s : s[i] \notin M!Spaces}
WithoutLead(s)  == SubSeq(s, Min(Black(s) \cup {Len(s) + 1}), Len(s))
WithoutTrail(s) == SubSeq(s, 1, Max(Black(s) \cup {0}))
Body(s, p) == LET l == IF Head(p) \in M!Spaces THEN s ELSE WithoutLead(s)
              IN  IF Last(p) \in M!Spaces THEN l ELSE WithoutTrail(l)
WordChar(c) == M!ClassOf(c) \notin M!Outside
Within(t, p) == {d \in 0 .. Len(t) - Len(p) : SubSeq(t, d + 1, d + Len(p)) = p}

Asks(term, s) ==
    LET t == M!Images(s, o.normalize, term.cs)
        p == M!Images(term.text, o.normalize, term.cs)
    IN  CASE term.type = "Fuzzy" ->
               \E at \in [DOMAIN p -> {j \in DOMAIN t : t[j] \in Range(p)}] :
                   \A k \in DOMAIN p : t[at[k]] = p[k] /\ (k > 1 => at[k - 1] < at[k])
          [] term.type = "Exact"  -> Within(t, p) # {}
          [] term.type = "ExactBoundary" ->
               \E d \in Within(t, p) : /\ d > 0 => ~WordChar(s[d])
                                       /\ d + Len(p) < Len(s) => ~WordChar(s[d + Len(p) + 1])
          [] term.type = "Prefix" -> IsPrefix(p, IF Head(p) \in M!Spaces THEN t ELSE WithoutLead(t))
          [] term.type = "Suffix" -> IsSuffix(p, IF Last(p) \in M!Spaces THEN t ELSE WithoutTrail(t))
          [] term.type = "Equal"  -> Body(t, p) = p

-----------------------------------------------------------------------------
\* An item matches exactly when some searched range satisfies a term of every
\* set of the query (match_text and the algorithms it calls).
MatchesWhatIsAsked ==
    Hit(query) <=>
        LET sets == M!ParseTerms(o, query)
        IN  sets = <<>> \/ \E s \in searched : \A i \in DOMAIN sets :
                \E k \in DOMAIN sets[i] : sets[i][k].inverse <=> ~Asks(sets[i][k], s)

\* A space between two parts of a query means both, " | " between two terms
\* means either, and an escaped space means neither (parse_terms).  Said of
\* lines searched whole: within ranges both parts must match the same range.
Bars(q) == \E k \in DOMAIN q : q[k] = "|"
QueryReadsAsTyped ==
    item.nth = <<>> =>
      \A k \in DOMAIN query :
        LET l == SubSeq(query, 1, k - 1)
            r == SubSeq(query, k + 1, Len(query))
            lone(q) == Len(M!ParseTerms(o, q)) = 1 /\ ~\E i \in DOMAIN q : q[i] = " "
        IN  /\ query[k] = " " /\ ~M!Ends(l, "\\") /\ ~Bars(query) => (Hit(query) <=> Hit(l) /\ Hit(r))
            /\ query[k] = "|" /\ M!Ends(l, " ") /\ ~M!Ends(Front(l), "\\") /\ M!Starts(r, " ")
               /\ lone(Front(l)) /\ lone(Tail(r))
                 => (Hit(query) <=> Hit(Front(l)) \/ Hit(Tail(r)))

\* The places a term's match reports spell the term, in order, from the first
\* place of the match to its last, and fuzzy_match_v2 scores a character at least
\* (its predecessor links, its gap carries and their floor; V1 has no floor).
PlacesSpellTheTerm ==
    \A term \in terms, s \in searched :
      LET r == M!MatchTerm(o, s, term)
          p == M!Images(term.text, o.normalize, term.cs)
          t == M!Images(s, o.normalize, term.cs)
      IN  r.matched =>
            /\ Len(r.at) = Len(p) /\ \A k \in DOMAIN p : t[r.at[k]] = p[k]
            /\ \A k \in 2 .. Len(p) : r.at[k - 1] < r.at[k]
            /\ r.begin = Head(r.at) - 1 /\ r.end = Last(r.at)
            /\ term.type = "Fuzzy" /\ o.algo # "V1" => r.score >= M!ScoreMatch

\* The fields tile the line from its first field on, and the part of the text
\* that --nth searches is the text that the same range prints.
FieldsAndRangesAgree ==
    LET tks == T!Tokenize(item.text, o.delimiter)
    IN  /\ tks # <<>> => Last(tks).at + Last(tks).len = Len(item.text)
        /\ \A k \in 2 .. Len(tks) : tks[k].at = tks[k - 1].at + tks[k - 1].len
        /\ \A k \in DOMAIN item.nth :
             SubSeq(item.text, item.nth[k].start + 1, item.nth[k].start + item.nth[k].len)
               = T!TransformJoin(item.text, tks, <<o.nth[k]>>)
=============================================================================
