------------------------------ MODULE MCSearch ------------------------------
(* Lines, options and queries for TLC. *)
EXTENDS Search

Fuzzy == [mode |-> "Smart", algo |-> "V2", exact |-> FALSE, normalize |-> TRUE, extended |-> TRUE,
          interactive |-> TRUE, criteria |-> <<"Score", "Length">>, sort |-> TRUE, tac |-> FALSE]
Exact == [Fuzzy EXCEPT !.exact = TRUE, !.mode = "Ignore", !.tac = TRUE, !.criteria = <<"Chunk", "Begin">>]
Whole == [Fuzzy EXCEPT !.extended = FALSE, !.algo = "V1", !.criteria = <<"Pathname", "End">>]
NoSort == [Fuzzy EXCEPT !.sort = FALSE, !.tac = TRUE, !.mode = "Respect"]
MCSettings == {Fuzzy, Exact, Whole, NoSort}

MCFeed == << <<"b", "a", "b">>, <<" ", "a", "b", " ", "B">>, <<"a", "/", "e">> >>

MCQueries == { <<>>, <<"a">>, <<"b">>, <<"a", "b">>, <<"a", "B">>, <<"a", " ", "b">>, <<"!", "b">>, <<"!", "b", " ", "a">>,
               <<"^", "a", " ", "b">>, <<"b", " ", "|", " ", "B">>, <<"'", "a", "b">>,
               <<"a", "\\", " ">> }
=============================================================================
