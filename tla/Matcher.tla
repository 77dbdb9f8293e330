------------------------------- MODULE Matcher -------------------------------
(***************************************************************************)
(* Extended search: a query as typed becomes sets of terms (parse_terms);  *)
(* a text must satisfy one term of every set (match_text), within one of   *)
(* its --nth ranges when there are any (match).                            *)
(* o holds the options of a Matcher: [mode, algo, exact, normalize].       *)
(***************************************************************************)
EXTENDS MatchAlgo

LowerAll(s) == [i \in DOMAIN s |-> Lower(s[i])]
TermCaseSensitive(mode, text) == mode = "Respect" \/ (mode = "Smart" /\ text # LowerAll(text))

-----------------------------------------------------------------------------
(* parse_terms *)

\* The members of a set of numbers, the smallest first.
Ascending(S) == [i \in 1 .. Cardinality(S) |-> CHOOSE x \in S : Cardinality({y \in S : y < x}) = i - 1]

\* Leading spaces go; trailing ones go unless a backslash escapes them.
Trimmed(q) ==
    LET inner == {k \in DOMAIN q : q[k] # " "}
        kept  == inner \cup {k \in DOMAIN q : k - 1 \in inner /\ q[k - 1] = "\\"}
    IN  IF inner = {} THEN <<>> ELSE SubSeq(q, Min(inner), Max(kept))

\* An escaped space is kept from splitting by a tab in its place.
Protected(q) ==
    LET escapes == {k \in 1 .. Len(q) - 1 : q[k] = "\\" /\ q[k + 1] = " "}
        kept    == Ascending({k \in DOMAIN q : k - 1 \notin escapes})
    IN  [i \in DOMAIN kept |-> IF kept[i] \in escapes THEN "\t" ELSE q[kept[i]]]

\* The runs of characters between spaces.
Tokens(s) ==
    LET starts == Ascending({k \in DOMAIN s : s[k] # " " /\ (k = 1 \/ s[k - 1] = " ")})
        End(k) == Min({e \in k .. Len(s) : e = Len(s) \/ s[e + 1] = " "})
    IN  [i \in DOMAIN starts |-> SubSeq(s, starts[i], End(starts[i]))]

Restored(tk) == [i \in DOMAIN tk |-> IF tk[i] = "\t" THEN " " ELSE tk[i]]
Starts(s, c) == s # <<>> /\ Head(s) = c
Ends(s, c)   == s # <<>> /\ Last(s) = c

\* The term a token stands for; its text is empty when the token is only syntax.
\* Its signs go one after another: the "!", the "$", and then quotes or a "^".
Quoted(o, cs, inv, ends, t) ==
    LET quoted == Starts(t, "'")
        both   == quoted /\ Len(t) > 2 /\ Ends(t, "'")
        type   == IF both THEN "ExactBoundary"
                  ELSE IF quoted THEN IF o.exact \/ inv THEN "Fuzzy" ELSE "Exact"
                  ELSE IF Starts(t, "^") THEN IF ends THEN "Equal" ELSE "Prefix"
                  ELSE IF ends THEN "Suffix"
                  ELSE IF inv \/ o.exact THEN "Exact" ELSE "Fuzzy"
        text   == IF both THEN Tail(Front(t))
                  ELSE IF quoted \/ Starts(t, "^") THEN Tail(t) ELSE t
    IN  [type |-> type, inverse |-> inv, cs |-> cs, text |-> text]
Ended(o, cs, inv, t) ==
    LET ends == Ends(t, "$") /\ t # <<"$">> IN Quoted(o, cs, inv, ends, IF ends THEN Front(t) ELSE t)
Inverted(o, cs, t) ==
    LET inv == Starts(t, "!") IN Ended(o, cs, inv, IF inv THEN Tail(t) ELSE t)
TermOf(o, token) ==
    LET typed == Restored(token)
        cs    == TermCaseSensitive(o.mode, typed)
    IN  Inverted(o, cs, IF cs THEN typed ELSE LowerAll(typed))

\* A mutant: the bar leaves the switch on.
AddTokenSwitching(a, token, term) ==
    IF a.set # <<>> /\ ~a.bar /\ token = <<"|">> THEN [a EXCEPT !.bar = TRUE]
    ELSE IF term.text = <<>> THEN [a EXCEPT !.bar = FALSE]
    ELSE [sets   |-> IF a.switch THEN Append(a.sets, a.set) ELSE a.sets,
          set    |-> Append(IF a.switch THEN <<>> ELSE a.set, term),
          switch |-> TRUE, bar |-> FALSE]

\* One token: a bar joins the next term to the set, any other term opens a set.
AddToken(a, token, term) ==
    IF a.set # <<>> /\ ~a.bar /\ token = <<"|">> THEN [a EXCEPT !.switch = FALSE, !.bar = TRUE]
    ELSE IF term.text = <<>> THEN [a EXCEPT !.bar = FALSE]
    ELSE [sets   |-> IF a.switch THEN Append(a.sets, a.set) ELSE a.sets,
          set    |-> Append(IF a.switch THEN <<>> ELSE a.set, term),
          switch |-> TRUE, bar |-> FALSE]

NoTerms == [sets |-> <<>>, set |-> <<>>, switch |-> FALSE, bar |-> FALSE]
Closed(a) == IF a.set = <<>> THEN a.sets ELSE Append(a.sets, a.set)
ParseTerms(o, q) ==
    LET tokens == Tokens(Protected(Trimmed(q)))
        parsed[n \in 0 .. Len(tokens)] ==
            IF n = 0 THEN NoTerms ELSE AddToken(parsed[n - 1], tokens[n], TermOf(o, tokens[n]))
    IN  Closed(parsed[Len(tokens)])

\* set_terms: the results are sorted if some term says what to look for.
Sortable(sets) == \E i \in DOMAIN sets : \E k \in DOMAIN sets[i] : ~sets[i][k].inverse

-----------------------------------------------------------------------------
(* match_term, match_text and match *)

MatchTerm(o, s, term) ==
    LET cl == [j \in DOMAIN s |-> ClassOf(s[j])]
        t  == Images(s, o.normalize, term.cs)
        p  == Images(term.text, o.normalize, term.cs)
    IN  CASE term.type = "Fuzzy"         -> IF o.algo = "V1" THEN FuzzyMatchV1(cl, t, p)
                                                             ELSE FuzzyMatchV2(cl, t, p)
          [] term.type = "Exact"         -> ExactMatchNaive(s, cl, t, p, FALSE)
          [] term.type = "ExactBoundary" -> ExactMatchNaive(s, cl, t, p, TRUE)
          [] term.type = "Prefix"        -> PrefixMatch(s, cl, t, p)
          [] term.type = "Suffix"        -> SuffixMatch(s, cl, t, p)
          [] term.type = "Equal"         -> EqualMatch(s, t, p)

\* The first wanted term that matches; else an absent unwanted one; else none.
FirstIn(set, rs) ==
    LET wanted == {k \in DOMAIN set : ~set[k].inverse /\ rs[k].matched}
        absent == {k \in DOMAIN set : set[k].inverse /\ ~rs[k].matched}
    IN  IF wanted # {} THEN rs[Min(wanted)] ELSE IF absent # {} THEN EmptyMatch ELSE NoMatch
MatchSet(o, s, set) == FirstIn(set, [k \in DOMAIN set |-> MatchTerm(o, s, set[k])])

Everything == [matched |-> TRUE, score |-> 0, begin |-> -1, end |-> -1, min_end |-> -1, at |-> {}]
Nothing    == [Everything EXCEPT !.matched = FALSE]

TotalScore(rs) ==
    LET upto[n \in 0 .. Len(rs)] == IF n = 0 THEN 0 ELSE upto[n - 1] + rs[n].score IN upto[Len(rs)]

\* The places found by the sets before the first one that fails stay in the
\* caller's vector: a failing set only takes back its own.
Together(rs) ==
    LET failed == {i \in DOMAIN rs : ~rs[i].matched}
        done   == {i \in DOMAIN rs : \A f \in failed : i < f}
        at     == UNION {Range(rs[i].at) : i \in done}
        placed == {rs[i] : i \in {i \in done : rs[i].begin >= 0 /\ rs[i].begin < rs[i].end}}
    IN  IF failed # {} THEN [Nothing EXCEPT !.at = at]
        ELSE IF placed = {} THEN [Everything EXCEPT !.score = TotalScore(rs), !.at = at]
        ELSE [matched |-> TRUE, score |-> TotalScore(rs), at |-> at,
              begin   |-> Min({r.begin : r \in placed}),
              end     |-> Max({r.end : r \in placed}),
              min_end |-> Min({r.end : r \in placed})]
MatchText(o, s, sets) == Together([i \in DOMAIN sets |-> MatchSet(o, s, sets[i])])

\* A result within a range, in places of the whole text: the positions in the
\* vector are all moved, those left by the ranges tried before included.
Moved(r, base, left) ==
    LET by == IF r.begin >= 0 THEN base ELSE 0
    IN  [r EXCEPT !.at = {base + j : j \in @ \cup left},
                  !.begin = @ + by, !.end = @ + by, !.min_end = @ + by]

\* nth is a sequence of ranges [start, len]; the first one that matches wins.
\* Without ranges the text is searched whole.
FirstRange(start, rs) ==
    LET hits  == {k \in DOMAIN rs : rs[k].matched}
        first == Min(hits)
    IN  IF hits = {} THEN Nothing
        ELSE Moved(rs[first], start[first], UNION {rs[k].at : k \in 1 .. first - 1})
StartOf(s, range) == Min({range.start, Len(s)})
PartOf(s, range)  == SubSeq(s, StartOf(s, range) + 1, Min({StartOf(s, range) + range.len, Len(s)}))
Match(o, s, sets, nth) ==
    LET start == [k \in DOMAIN nth |-> StartOf(s, nth[k])]
    IN  IF sets = <<>> THEN Everything
        ELSE IF nth = <<>> THEN MatchText(o, s, sets)
        ELSE FirstRange(start, [k \in DOMAIN nth |-> MatchText(o, PartOf(s, nth[k]), sets)])
=============================================================================
