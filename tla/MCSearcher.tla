----------------------------- MODULE MCSearcher -----------------------------
(* Two lists of at most one item, the empty query and another. *)
EXTENDS Searcher
MCLists == {1, 2}
=============================================================================
