------------------------------ MODULE Tokenizer ------------------------------
(***************************************************************************)
(* Fields of a line and the ranges of fields that --nth, --with-nth and    *)
(* --accept-nth select (tokenizer.cpp, parse_nth of options.cpp).  A line  *)
(* is a sequence of characters; a token is [at, len], the place before its *)
(* first character and its length, its trailing delimiter included.        *)
(* d is a delimiter: [kind |-> "awk"], [kind |-> "literal", sep |-> s] or  *)
(* [kind |-> "regex", chars |-> S], a run of characters of S.              *)
(***************************************************************************)
EXTENDS Integers, Sequences, FiniteSets, SequencesExt

White == {" ", "\t", "\n"}
Token(a, b) == [at |-> a, len |-> b - a]
TextOf(s, tk) == SubSeq(s, tk.at + 1, tk.at + tk.len)

\* Ascending sequence of a set of numbers.
Sorted(S) == SetToSortSeq(S, <)

-----------------------------------------------------------------------------
(* Tokenizer::tokenize *)

\* A token starts at every black character after a white one.
AwkTokenize(s) ==
    LET starts == {i \in DOMAIN s : s[i] \notin White /\ (i = 1 \/ s[i - 1] \in White)}
        b      == Sorted(starts)
    IN  [k \in DOMAIN b |-> Token(b[k] - 1, IF k = Len(b) THEN Len(s) ELSE b[k + 1] - 1)]

\* Pieces that keep their delimiter; the last piece may be empty.
LiteralTokenize(s, sep) ==
    LET Here(p)  == {i \in p .. Len(s) - Len(sep) : SubSeq(s, i + 1, i + Len(sep)) = sep}
        Pieces[p \in 0 .. Len(s)] ==
            IF Here(p) = {} THEN <<Token(p, Len(s))>>
            ELSE LET e == Min(Here(p)) + Len(sep) IN <<Token(p, e)>> \o Pieces[e]
    IN  IF sep = <<>> THEN [i \in DOMAIN s |-> Token(i - 1, i)] ELSE Pieces[0]

\* A token runs to the end of a delimiter; what trails the last one is a token.
RegexTokenize(s, chars) ==
    LET ends == {i \in DOMAIN s : s[i] \in chars /\ (i = Len(s) \/ s[i + 1] \notin chars)}
        e    == Sorted((ends \cup {Len(s)}) \ {0})
    IN  [k \in DOMAIN e |-> Token(IF k = 1 THEN 0 ELSE e[k - 1], e[k])]

Tokenize(s, d) ==
    CASE d.kind = "awk"     -> AwkTokenize(s)
      [] d.kind = "literal" -> LiteralTokenize(s, d.sep)
      [] d.kind = "regex"   -> RegexTokenize(s, d.chars)

-----------------------------------------------------------------------------
(* parse_range: an expression is <<"at", n>>, <<"to", n>>, <<"from", n>>,  *)
(* <<"in", a, b>> or <<"all">>.  Zero marks an open end.                   *)

Ellipsis == 0
NewRange(b, e) == [begin |-> IF b = 1 /\ e # 1 THEN Ellipsis ELSE b,
                   end   |-> IF e = -1 THEN Ellipsis ELSE e]

ValidRange(x) ==
    CASE x[1] = "all" -> TRUE
      [] x[1] = "in"  -> x[2] # 0 /\ x[3] # 0 /\ ~(x[2] < 0 /\ x[3] > 0)
      [] OTHER        -> x[2] # 0

ParseRange(x) ==
    CASE x[1] = "all"  -> NewRange(Ellipsis, Ellipsis)
      [] x[1] = "to"   -> NewRange(Ellipsis, x[2])
      [] x[1] = "from" -> NewRange(x[2], Ellipsis)
      [] x[1] = "in"   -> NewRange(x[2], x[3])
      [] x[1] = "at"   -> NewRange(x[2], x[2])

-----------------------------------------------------------------------------
(* transform_range: the tokens a range selects, and the place of the part. *)

FromEnd(i, n) == IF i < 0 THEN i + n + 1 ELSE i

First(n, r) == IF r.begin = Ellipsis THEN 1 ELSE FromEnd(r.begin, n)
Final(n, r) == IF r.end = Ellipsis THEN n ELSE FromEnd(r.end, n)
Picked(tks, r) ==
    LET n == Len(tks)
    IN  Sorted({i \in 1 .. n : First(n, r) <= i /\ i <= Final(n, r)})

\* A mutant: a range counted from the end starts at the first token.
PartStartFromFront(tks, r) ==
    LET i == Max({1, r.begin}) IN IF i <= Len(tks) THEN tks[i].at ELSE 0

PartStart(tks, r) ==
    LET n == Len(tks)
        i == IF r.begin = r.end
               THEN IF r.begin # Ellipsis /\ First(n, r) \in 1 .. n THEN First(n, r) ELSE 1
               ELSE Max({1, First(n, r)})
    IN  IF i <= n THEN tks[i].at ELSE 0

\* transform_spans: what --nth stores with an item.
TransformSpans(tks, ranges) ==
    [k \in DOMAIN ranges |->
       [start |-> PartStart(tks, ranges[k]),
        len   |-> FoldLeft(LAMBDA n, i : n + tks[i].len, 0, Picked(tks, ranges[k]))]]

\* transform_join: the texts of the selected tokens, range after range.
TransformJoin(s, tks, ranges) ==
    FlattenSeq([k \in DOMAIN ranges |->
       FlattenSeq([i \in DOMAIN Picked(tks, ranges[k]) |-> TextOf(s, tks[Picked(tks, ranges[k])[i]])])])

\* strip_last_delimiter and get_last_delimiter: the length of the delimiter at
\* the end of a text (awk: of the white space).
LastDelimiter(s, d) ==
    LET Tailing(S) == {k \in 0 .. Len(s) : \A i \in k + 1 .. Len(s) : s[i] \in S}
    IN  CASE d.kind = "awk"     -> Len(s) - Min(Tailing(White))
          [] d.kind = "literal" -> IF IsSuffix(d.sep, s) THEN Len(d.sep) ELSE 0
          [] d.kind = "regex"   -> Len(s) - Min(Tailing(d.chars))
StripLastDelimiter(s, d) == SubSeq(s, 1, Len(s) - LastDelimiter(s, d))
GetLastDelimiter(s, d) ==
    IF d.kind = "awk" THEN <<>> ELSE SubSeq(s, Len(s) - LastDelimiter(s, d) + 1, Len(s))

-----------------------------------------------------------------------------
(* NthTransformer: [kind |-> "plain", ranges], or [kind |-> "template",    *)
(* parts] of parts <<"nth", ranges>>, <<"index">> and <<"literal", s>>;    *)
(* [kind |-> "none"] where the option is not given.                        *)

ApplyRaw(e, s, tks, index, d) ==
    LET Part(p) == CASE p[1] = "nth"     -> StripLastDelimiter(TransformJoin(s, tks, p[2]), d)
                     [] p[1] = "index"   -> IF index >= 0 THEN <<ToString(index)>> ELSE <<>>
                     [] p[1] = "literal" -> p[2]
    IN  IF e.kind = "plain" THEN TransformJoin(s, tks, e.ranges)
        ELSE FlattenSeq([k \in DOMAIN e.parts |-> Part(e.parts[k])])

Apply(e, s, tks, index, d) == StripLastDelimiter(ApplyRaw(e, s, tks, index, d), d)

\* ItemBuilder::build: the text shown and searched, and the ranges searched.
BuildItem(o, raw, index) ==
    LET Shown == ApplyRaw(o.with_nth, raw, Tokenize(raw, o.delimiter), index, o.delimiter)
        text  == IF o.with_nth.kind = "none" THEN raw ELSE StripLastDelimiter(Shown, [kind |-> "awk"])
    IN  [text |-> text, orig |-> raw, nth |-> TransformSpans(Tokenize(text, o.delimiter), o.nth)]

\* ItemBuilder::output_text and field_text.
OutputText(o, item, index) ==
    IF o.accept_nth.kind = "none" THEN item.orig
    ELSE Apply(o.accept_nth, item.orig, Tokenize(item.orig, o.delimiter), index, o.delimiter)

FieldText(o, item, field) ==
    LET tks == Tokenize(item.orig, o.delimiter)
    IN  IF field \in DOMAIN tks THEN StripLastDelimiter(TextOf(item.orig, tks[field]), o.delimiter) ELSE <<>>
=============================================================================
