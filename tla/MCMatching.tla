----------------------------- MODULE MCMatching -----------------------------
(* Lines, options and strokes for TLC. *)
EXTENDS Matching

NoExpr == [kind |-> "none", ranges |-> <<>>, parts |-> <<>>]
Awk == [kind |-> "awk"]
Comma == [kind |-> "literal", sep |-> <<",">>]
Runs == [kind |-> "regex", chars |-> {",", " "}]
Ranges(xs) == [k \in DOMAIN xs |-> T!ParseRange(xs[k])]

Plain == [mode |-> "Smart", algo |-> "V2", exact |-> FALSE, normalize |-> TRUE,
          delimiter |-> Awk, nth |-> <<>>, with_nth |-> NoExpr, accept_nth |-> NoExpr]
Greedy == [Plain EXCEPT !.algo = "V1", !.normalize = FALSE]
Exact  == [Plain EXCEPT !.exact = TRUE, !.mode = "Respect"]
OneField == [Plain EXCEPT !.nth = Ranges(<< <<"from", 2>> >>)]
ByComma == [Plain EXCEPT !.delimiter = Comma, !.nth = Ranges(<< <<"in", -2, -1>> >>),
            !.with_nth = [NoExpr EXCEPT !.kind = "plain", !.ranges = Ranges(<< <<"at", 2>>, <<"to", 1>> >>)]]
ByRuns == [Plain EXCEPT !.mode = "Ignore", !.delimiter = Runs, !.nth = Ranges(<< <<"at", -1>> >>),
           !.with_nth = [NoExpr EXCEPT !.kind = "template",
              !.parts = << <<"nth", Ranges(<< <<"from", 2>> >>)>>, <<"literal", <<",">>>>, <<"nth", Ranges(<< <<"at", 1>> >>)>> >>]]

MCSettings == {Plain, Greedy, Exact, OneField, ByComma, ByRuns}

MCLines == { <<"a", "B", "a", "b">>,
             <<" ", "a", " ", "b", "a", " ">>,
             <<"b", ",", "a", "b", "_", "e_acute">>,
             <<"a", ",", "B", ",", "a">>,
             <<"e", "e", "a", " ", "a", "b">> }

MCStrokes == {<<"a">>, <<"a", "B">>, <<"b", "e">>, <<" ">>, <<" ", "|", " ">>, <<"!">>, <<"^">>, <<"$">>, <<"'">>, <<"\\">>}
=============================================================================
