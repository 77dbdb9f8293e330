------------------------------ MODULE MCPrompt ------------------------------
(* Keys and bindings for small sessions. *)
EXTENDS Prompt

\* What a terminal sends for a key with this name.
Unit(name, bytes, means) == [name |-> name, bytes |-> bytes, means |-> means, open |-> FALSE]
Named(name, key, bytes) == Unit(name, bytes, <<Special(key, bytes)>>)
Rune(c) == Unit(<<c>>, <<Code[c]>>, <<Character(<<Code[c]>>, <<Code[c]>>)>>)
Control(c) == Unit(<<"ctrl-", c>>, <<Code[c] - 96>>, <<Character(<<Code[c] - 96>>, <<>>)>>)
AltRune(c) == Unit(<<"alt-", c>>, <<27, Code[c]>>, <<Character(<<27, Code[c]>>, <<>>)>>)
ControlAlt(c) == Unit(<<"ctrl-alt-", c>>, <<27, Code[c] - 96>>, <<Character(<<27, Code[c] - 96>>, <<>>)>>)
Byte(name, c) == Unit(name, <<c>>, <<Character(<<c>>, <<>>)>>)
Reply(bytes) == Unit(<<>>, bytes, <<>>)
Click(name, bytes, m) == Unit(name, bytes, <<m>>)

Escape == [Named(<<"esc">>, "Escape", <<27>>) EXCEPT !.open = TRUE]
Cut(bytes, means) == [name |-> <<>>, bytes |-> bytes, means |-> means, open |-> TRUE]

\* Sequences of every kind, replies of the terminal that are no keys, and
\* sequences that are cut short.
Sequences ==
    {Rune("a"), Escape,
     Named(<<"up">>, "ArrowUp", <<27, 91, 65>>),
     Named(<<"down">>, "ArrowDown", <<27, 79, 66>>),
     Named(<<"ctrl-left">>, "CtrlArrowLeft", <<27, 91, 49, 59, 53, 68>>),
     AltRune("b"),
     Unit(<<>>, <<195, 169>>, <<Character(<<195, 169>>, <<233>>)>>),
     Unit(<<>>, <<27, 195, 169>>, <<Character(<<27, 195, 169>>, <<233>>)>>),
     Reply(<<27, 91, 49, 56, 116>>),
     Reply(<<27, 93, 49, 97, 7>>),
     Reply(<<27, 80, 97, 27, 92>>),
     Click(<<>>, <<27, 91, 77, 32, 33, 34>>, Mouse("Left", "Pressed", 0, 1, {})),
     Click(<<>>, <<27, 91, 60, 52, 59, 51, 59, 49, 109>>, Mouse("Left", "Released", 2, 0, {"shift"})),
     Cut(<<27, 91, 49, 59>>, <<>>),
     Cut(<<27, 80, 97, 97, 97, 97>>, <<>>),
     Cut(<<226, 130>>, <<Character(<<226, 130>>, <<226, 130>>)>>)}

Short == {Rune("a"), Escape, Named(<<"up">>, "ArrowUp", <<27, 91, 65>>), Cut(<<27, 79>>, <<>>)}

\* A key for every kind of name, with the bytes of two terminals for some.
Keys ==
    {Rune("a"), Rune("+"), Rune(","), Rune(":"), Unit(<<"space">>, <<32>>, Rune(" ").means),
     AltRune("b"), AltRune("+"), AltRune(","), Unit(<<"alt-", "space">>, <<27, 32>>, AltRune(" ").means),
     Unit(<<"alt-", "enter">>, <<27, 13>>, ControlAlt("m").means), ControlAlt("a"), ControlAlt("z"),
     Control("a"), Control("z"), Byte(<<"ctrl-space">>, 0), Byte(<<"ctrl-^">>, 30), Byte(<<"ctrl-]">>, 29),
     Byte(<<"ctrl-\\">>, 28), Byte(<<"ctrl-/">>, 31),
     Named(<<"bspace">>, "Backspace", <<127>>), Named(<<"bspace">>, "Backspace", <<8>>),
     Named(<<"ctrl-", "i">>, "Tab", <<9>>), Named(<<"tab">>, "Tab", <<9>>),
     Named(<<"enter">>, "Return", <<13>>), Named(<<"ctrl-", "m">>, "Return", <<13>>),
     Named(<<"btab">>, "BackTab", <<27, 91, 90>>), Escape,
     Unit(<<"alt-bspace">>, <<27, 127>>, <<Character(<<27, 127>>, <<>>)>>),
     Named(<<"left">>, "ArrowLeft", <<27, 91, 68>>), Named(<<"right">>, "ArrowRight", <<27, 79, 67>>),
     Named(<<"home">>, "Home", <<27, 79, 72>>), Named(<<"home">>, "Home", <<27, 91, 55, 126>>),
     Named(<<"end">>, "End", <<27, 91, 70>>), Named(<<"end">>, "End", <<27, 91, 52, 126>>),
     Named(<<"del">>, "Delete", <<27, 91, 51, 126>>), Named(<<"insert">>, "Insert", <<27, 91, 50, 126>>),
     Named(<<"page-up">>, "PageUp", <<27, 91, 53, 126>>), Named(<<"page-down">>, "PageDown", <<27, 91, 54, 126>>),
     Named(<<"f", "1">>, "F1", <<27, 79, 80>>), Named(<<"f", "1">>, "F1", <<27, 91, 49, 49, 126>>),
     Named(<<"f", "6">>, "F6", <<27, 91, 49, 55, 126>>), Named(<<"f12">>, "F12", <<27, 91, 50, 52, 126>>),
     Named(<<"shift-up">>, "ShiftArrowUp", <<27, 91, 49, 59, 50, 65>>),
     Named(<<"shift-down">>, "ShiftArrowDown", <<27, 91, 50, 66>>),
     Named(<<"alt-left">>, "AltArrowLeft", <<27, 91, 49, 59, 51, 68>>),
     Named(<<"ctrl-right">>, "CtrlArrowRight", <<27, 91, 49, 59, 53, 67>>)}

\* Keys that edit the line.
Edits == {Rune("a"), Rune(" "), Rune("/"), Control("w"), Control("y"), Control("a"), AltRune("f"), AltRune("d"),
          Named(<<"bspace">>, "Backspace", <<127>>)}

\* Bindings.
A(name) == [name |-> name, arg |-> <<>>, open |-> ""]
Do(name, open, arg) == [name |-> name, arg |-> arg, open |-> open]
Bind(keys, actions) == [keys |-> keys, actions |-> actions, added |-> FALSE]
Add(keys, actions) == [keys |-> keys, actions |-> actions, added |-> TRUE]

Setup(binds, units, keys) ==
    [binds |-> binds, units |-> units, keys |-> keys, pieces |-> FALSE, inputless |-> FALSE, expect |-> {}]

\* Every key alone, and every sequence in pieces, after and before another.
Decoding == {Setup(<<Bind(<<k>>, <<A("ignore")>>)>>, {k}, 1) : k \in Keys}
            \cup {[Setup(<<>>, Sequences, 2) EXCEPT !.pieces = TRUE],
                  [Setup(<<>>, Short, 3) EXCEPT !.pieces = TRUE]}

\* Lists of keys, and of actions with arguments, in two bindings.
KeyLists == { <<Rune("a")>>, <<Rune(",")>>, <<Rune(":")>>, <<Rune("+")>>, <<AltRune(",")>>,
              <<Rune("a"), Rune(",")>>, <<Rune("a"), Rune(":"), AltRune("b")>>, <<Rune("a"), Rune("+")>>,
              <<Rune("b"), Rune(","), Control("a")>> }
Args == { <<"a">>, <<"a", "+", "b">>, <<"a", ",", "b", ":", "a">>, <<"a", ")", "b", "+", "a">> }
ActionLists == { <<A("up")>>, <<A("up"), A("toggle-preview")>> } \cup
               { <<Do("put", "(", arg), A("up")>> : arg \in Args } \cup
               { <<A("up"), Do("execute", "/", arg)>> : arg \in Args }
LastLists == ActionLists \cup { <<A("up"), Do("print", ":", arg)>> : arg \in Args }
\* Every two lists of keys, every two of actions, and every key after every action.
Pairs == {<<k, <<A("up")>>, l, <<A("up")>>>> : k \in KeyLists, l \in KeyLists}
         \cup {<< <<Rune("a")>>, a, <<Rune("a")>>, b>> : a \in ActionLists, b \in LastLists}
         \cup {<< <<Rune("b")>>, a, l, <<A("up")>>>> : a \in ActionLists, l \in KeyLists}
Specs == {Setup(<<Bind(q[1], q[2]), [keys |-> q[3], actions |-> q[4], added |-> added]>>, {}, 0) :
             q \in Pairs, added \in BOOLEAN}

\* Sessions: the default keys, the actions that have none, an empty line, and
\* a hidden one with a key of --expect.
Editing == Setup(<<Bind(<<Control("w")>>, <<A("kill-line"), A("backward-char")>>)>>, Edits, 4)
SubWords == Setup(<<Bind(<<Control("b")>>, <<A("backward-subword")>>), Bind(<<Control("f")>>, <<A("forward-subword")>>),
                    Bind(<<Control("k")>>, <<A("kill-subword")>>), Bind(<<Control("w")>>, <<A("backward-kill-subword")>>)>>,
                  {Rune("a"), Rune(","), Unit(<<>>, <<65>>, <<Character(<<65>>, <<65>>)>>)}
                      \cup {Control(c) : c \in {"b", "f", "k", "w"}}, 4)
Changes == Setup(<<Bind(<<Control("x")>>, <<Do("change-query", "(", <<"a", " ", "b">>)>>), Bind(<<Control("k")>>, <<A("clear-query")>>),
                   Bind(<<Control("w")>>, <<A("cancel")>>), Bind(<<Control("b")>>, <<A("backward-delete-char/eof")>>)>>,
                 {Rune("a"), Escape, Named(<<"left">>, "ArrowLeft", <<27, 91, 68>>)}
                     \cup {Control(c) : c \in {"x", "k", "w", "b", "d", "y", "e"}}, 3)
Emptied == Setup(<<Bind(<<Unit(<<"backward-eof">>, <<>>, <<>>)>>, <<Do("put", "(", <<"a">>), A("backward-char")>>)>>,
                 {Rune("b"), Named(<<"bspace">>, "Backspace", <<127>>), Control("u"), Control("w")}, 4)
Hidden == [Setup(<<Bind(<<Control("x")>>, <<A("toggle-input"), Do("put", "(", <<"a">>)>>),
                   Bind(<<Rune("c")>>, <<A("show-input"), A("put"), A("hide-input"), A("accept")>>)>>,
                 {Rune("b"), Rune("c"), Escape, Control("u"), Control("x"), Control("t")}, 4)
              EXCEPT !.inputless = TRUE, !.expect = {event_of("CtrlT")}]
Triggers == Setup(<<Bind(<<Control("a")>>, <<Do("trigger", "(", <<"b", ",", "c">>), Do("put", "(", <<"a">>)>>),
                    Bind(<<Rune("b")>>, <<Do("put", "(", <<"x">>), Do("trigger", "(", <<"ctrl-", "a", ",", "b">>)>>),
                    Bind(<<Rune("c")>>, <<Do("trigger", "(", <<"b", ",", "b">>), A("put")>>),
                    Bind(<<Rune("d")>>, <<Do("toggle-bind", "(", <<"b", ",", "ctrl-", "a">>)>>),
                    Bind(<<Rune("e")>>, <<Do("unbind", "(", <<"c">>), Do("rebind", "(", <<"b">>)>>),
                    Bind(<<Rune("f")>>, <<Do("put", "(", <<"y">>), Do("trigger", "(", <<"c", ",", "f", ",", "c">>), A("backward-char")>>)>>,
                  {Control("a")} \cup {Rune(c) : c \in {"b", "c", "d", "e", "f"}}, 3)
Sessions == {Editing, SubWords, Changes, Emptied, Hidden, Triggers}
MCSetups == Decoding \cup Specs \cup Sessions
=============================================================================
