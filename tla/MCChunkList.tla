---------------------------- MODULE MCChunkList ----------------------------
(* A small store: chunks of two items, four bytes and two runs. *)
EXTENDS ChunkList

\* A plain record, one with runs, one whose bytes outgrow a chunk and one
\* whose runs do.
MCSpecs == {[need |-> 1, colors |-> 0, nth |-> 0],
            [need |-> 3, colors |-> 1, nth |-> 2],
            [need |-> 5, colors |-> 1, nth |-> 0],
            [need |-> 1, colors |-> 3, nth |-> 3]}
=============================================================================
