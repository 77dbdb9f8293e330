----------------------------- MODULE MCSession -----------------------------
(* Keymaps and tty reads for small sessions. *)
EXTENDS Session

Bind(e, a) == [NoBinding EXCEPT ![e] = a]

MCBindings == {NoBinding, Bind("load", "accept"), Bind("start", "reload"),
               Bind("change", "reload"), Bind("load", "edit"), Bind("focus", "accept")}
MCBatches == {<<"edit">>, <<"reload_sync">>, <<"edit", "accept">>, <<"edit", "move">>}

\* Events that do something while nobody types.
IdleBindings == {NoBinding, Bind("load", "reload_sync"), Bind("start", "reload")}
Unbound == {NoBinding}
OnLoad  == {Bind("load", "accept")}
OnZero  == {Bind("zero", "accept")}
OnFocus == {Bind("focus", "reload")}
NoKeys == {}
ReloadKey == {<<"reload">>}
=============================================================================
