----------------------------- MODULE MCListView -----------------------------
(* A list of six lines and a window of at most four, so that each of the  *)
(* window and the list can be the longer one; the shorter results leave the *)
(* cursor, the window and the selection behind.                             *)
EXTENDS ListView
MCLists == {<<>>, <<0>>, <<2, 0>>, <<3, 1, 0, 5, 4, 2>>}
MCPositions == {-2, -1, 1, 3}
=============================================================================
