---------------------------- MODULE MCReaderFeed ----------------------------
(* Sources whose lines end in all the ways there are. *)
EXTENDS ReaderFeed

MCTexts == {<<"a", "cr", "nl", "b">>, <<"nl", "cr">>}
=============================================================================
