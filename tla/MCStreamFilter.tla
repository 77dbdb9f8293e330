--------------------------- MODULE MCStreamFilter ---------------------------
(* Three records in chunks of two, some of them matches. *)
EXTENDS StreamFilter

Hit  == [need |-> 1, colors |-> 0, nth |-> 0]
Miss == [need |-> 2, colors |-> 0, nth |-> 0]
MCSpecs == {Hit, Miss}
MCMatching == {Hit}
=============================================================================
