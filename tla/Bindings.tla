------------------------------ MODULE Bindings ------------------------------
(***************************************************************************)
(* --bind (keymap.cpp): mask_action_contents, parse_action_list,           *)
(* parse_keymap, build_keymap and the default keymap.  Arguments may hold  *)
(* the separators, so they are blanked in a copy of the spec, and the copy *)
(* is split.                                                               *)
(***************************************************************************)
EXTENDS Keymap

\* Actions with an argument, and the ones without; one spelling of each.
ArgActions == {"change-query", "put", "print", "execute", "trigger", "unbind", "rebind", "toggle-bind"}
NamedActions ==
    {"ignore", "abort", "accept", "beginning-of-line", "end-of-line", "backward-char", "forward-char",
     "backward-delete-char", "backward-delete-char/eof", "delete-char", "delete-char/eof",
     "backward-word", "forward-word", "backward-subword", "forward-subword",
     "kill-word", "kill-subword", "kill-line", "unix-line-discard", "unix-word-rubout",
     "backward-kill-word", "backward-kill-subword", "yank", "cancel", "clear-query", "toggle", "up", "down",
     "toggle-input", "hide-input", "show-input", "toggle-preview", "show-preview", "hide-preview",
     "toggle-sort"}

-----------------------------------------------------------------------------
(* mask_action_contents *)

Blank == "<blank>"
Blanks(n) == [i \in 1 .. n |-> Blank]
Closers == "(" :> ")" @@ "{" :> "}" @@ "[" :> "]" @@ "<" :> ">"
           @@ [c \in {"~", "!", "@", "#", "$", "%", "^", "&", "*", ";", "/", "|"} |-> c]

\* A mutant: an argument ends at the first closer.
ArgumentEndFirst(s) == LET ends == {i \in 2 .. Len(s) : s[i] = Closers[s[1]]} IN IF ends = {} THEN 0 ELSE Min(ends)

\* The closer that ends the argument s begins with, or 0: the first one that is
\* last, or followed by a separator.
ArgumentEnd(s) ==
    LET ends == {i \in 2 .. Len(s) : s[i] = Closers[s[1]] /\ (i = Len(s) \/ s[i + 1] \in {"+", ","})}
    IN  IF ends = {} THEN 0 ELSE Min(ends)

RECURSIVE Masked(_)
Masked(s) ==
    LET names == {i \in 2 .. Len(s) : s[i] \in ArgActions /\ s[i - 1] \in {":", "+"}}
        n == Min(names)
        rest == SubSeq(s, n + 1, Len(s))
    IN  IF names = {} \/ n = Len(s) THEN s
        ELSE SubSeq(s, 1, n) \o
             CASE rest[1] = ":" -> Blanks(Len(rest))
               [] rest[1] \in DOMAIN Closers ->
                    LET end == ArgumentEnd(rest)
                    IN  IF end = 0 THEN rest
                        ELSE Blanks(end) \o Masked(SubSeq(rest, end + 1, Len(rest)))
               [] OTHER -> Masked(rest)

\* replace_all, of a sequence by one of the same length.
RECURSIVE Replaced(_, _, _)
Replaced(s, from, to) ==
    LET n == Len(from)
    IN  IF Len(s) < n THEN s
        ELSE IF SubSeq(s, 1, n) = from THEN to \o Replaced(SubSeq(s, n + 1, Len(s)), from, to)
        ELSE <<s[1]>> \o Replaced(Tail(s), from, to)

MaskActionContents(s) ==
    FoldLeft(LAMBDA t, rule : Replaced(t, rule[1], rule[2]), Masked(s),
             << << <<",", ",", ",">>, <<",", EscComma, ",">> >>,
                << <<",", ":", ",">>, <<",", EscColon, ",">> >>,
                << <<":", ":">>, <<EscColon, ":">> >>,
                << <<",", ":">>, <<EscComma, ":">> >>,
                << <<"+", ":">>, <<EscPlus, ":">> >> >>)

-----------------------------------------------------------------------------
(* parse_action_list: [ok, actions] *)

\* Where the i-th of the parts starts in the text they were cut from.
StartOf(parts, i) == FoldLeft(LAMBDA n, part : n + Len(part) + 1, 1, SubSeq(parts, 1, i - 1))
Originals(parts, original) ==
    [i \in DOMAIN parts |-> SubSeq(original, StartOf(parts, i), StartOf(parts, i) + Len(parts[i]) - 1)]

TakesArgument(spec) == /\ Tail(MaskActionContents(<<":">> \o spec)) # spec
                       /\ spec[1] \in ArgActions

ParseSpec(acc, spec, last, first, prev, put_allowed) ==
    LET Done(actions) == [ok |-> TRUE, actions |-> acc.actions \o actions, glued |-> <<>>]
        Arg(arg) == Done(<< <<spec[1], arg>> >>)
        body == SubSeq(spec, 3, Len(spec))
        keys == {"unbind", "rebind", "toggle-bind"}
        arg == IF spec[2] = ":" THEN body ELSE Front(body)
    IN  CASE spec = <<"put">> ->
               IF put_allowed THEN Done(<< <<"char", <<>>>> >>) ELSE [acc EXCEPT !.ok = FALSE]
          [] Len(spec) = 1 /\ spec[1] \in NamedActions -> Done(<< <<spec[1], <<>>>> >>)
          [] first /\ spec = <<>> -> Done(prev)
          [] Len(spec) > 1 /\ TakesArgument(spec) ->
               IF spec[2] = ":" /\ ~last THEN [acc EXCEPT !.glued = Append(spec, "+")]
               ELSE IF (body = <<>> /\ spec[2] # ":") \/ (spec[1] \in keys /\ ~ParseKeyChords(arg).ok)
               THEN [acc EXCEPT !.ok = FALSE]
               ELSE Arg(arg)
          [] OTHER -> [acc EXCEPT !.ok = FALSE]

ParseActionList(masked, original, prev, put_allowed) ==
    LET parts == Originals(Split(masked, "+"), original)
        Add(acc, i) == IF ~acc.ok THEN acc
                       ELSE ParseSpec(acc, acc.glued \o parts[i], i = Len(parts), i = 1, prev, put_allowed)
    IN  FoldLeft(Add, [ok |-> TRUE, actions |-> <<>>, glued |-> <<>>], [i \in DOMAIN parts |-> i])

-----------------------------------------------------------------------------
(* parse_keymap: [ok, keymap] *)

NoKeys == [ok |-> TRUE, keymap |-> <<>>, keys |-> <<>>]

NameChords(name) ==
    LET escaped == EscColon :> 58 @@ EscComma :> 44 @@ EscPlus :> 43
    IN  IF Len(name) = 1 /\ name[1] \in DOMAIN escaped
        THEN [ok |-> TRUE, events |-> <<rune_event(escaped[name[1]])>>]
        ELSE ParseKeyChords(name)

\* The list of one key is parsed with what the key is bound to already.
Assigned(acc, event, list) == IF list.ok THEN [acc EXCEPT !.keymap = event :> list.actions @@ @]
                              ELSE [acc EXCEPT !.ok = FALSE]
BindEvent(acc, event, masked, original) ==
    LET prev == IF event \in DOMAIN acc.keymap THEN acc.keymap[event] ELSE <<>>
    IN  Assigned(acc, event, ParseActionList(masked, original, prev, Printable(event)))
BindChords(acc, chords, masked, original) ==
    IF ~acc.ok \/ ~chords.ok THEN [acc EXCEPT !.ok = FALSE]
    ELSE IF chords.events = <<>> THEN [acc EXCEPT !.ok = FALSE]
    ELSE BindEvent(acc, chords.events[1], masked, original)
BindKey(acc, name, masked, original) == BindChords(acc, NameChords(name), masked, original)

\* One of the comma-separated parts: keys wait for the part with the actions.
ParsePair(acc, pair, original, colon) ==
    LET name == IF colon = 0 THEN pair ELSE SubSeq(pair, 1, colon - 1)
        keys == Append(acc.keys, name)
        Rest(s) == SubSeq(s, colon + 1, Len(s))
    IN  IF ~acc.ok \/ name = <<>> THEN [acc EXCEPT !.ok = FALSE]
        ELSE IF colon = 0 THEN [acc EXCEPT !.keys = keys]
        ELSE [FoldLeft(LAMBDA a, k : BindKey(a, k, Rest(pair), Rest(original)), acc, keys) EXCEPT !.keys = <<>>]

ParsePairs(pairs, originals) ==
    LET Add(acc, i) == ParsePair(acc, pairs[i], originals[i], SelectInSeq(pairs[i], LAMBDA c : c = ":"))
    IN  FoldLeft(Add, NoKeys, [i \in DOMAIN pairs |-> i])

AllBound(all) == [all EXCEPT !.ok = @ /\ all.keys = <<>>]
ParseParts(pairs, str) == AllBound(ParsePairs(pairs, Originals(pairs, str)))
ParseKeymap(str) == ParseParts(Split(MaskActionContents(str), ","), str)

-----------------------------------------------------------------------------
(* default_keymap, build_keymap *)

One(type, name) == event_of(type) :> << <<name, <<>>>> >>
All(types, name) == [e \in {event_of(t) : t \in types} |-> << <<name, <<>>>> >>]
AltKey(c, name) == alt_event(Code[c]) :> << <<name, <<>>>> >>
Two(types, a, b) == [e \in {event_of(t) : t \in types} |-> << <<a, <<>>>>, <<b, <<>>>> >>]

\* Keys whose actions this project models elsewhere, or that end the session.
DefaultKeymap ==
    All({"CtrlC", "CtrlG", "CtrlQ", "Esc"}, "abort") @@ One("Enter", "accept")
    @@ All({"CtrlA", "Home"}, "beginning-of-line") @@ All({"CtrlE", "End"}, "end-of-line")
    @@ All({"CtrlB", "Left"}, "backward-char") @@ All({"CtrlF", "Right"}, "forward-char")
    @@ All({"Backspace", "CtrlBackspace"}, "backward-delete-char")
    @@ One("CtrlD", "delete-char/eof") @@ One("Delete", "delete-char")
    @@ One("CtrlU", "unix-line-discard") @@ One("CtrlW", "unix-word-rubout") @@ One("CtrlY", "yank")
    @@ AltKey("b", "backward-word") @@ All({"ShiftLeft", "AltLeft"}, "backward-word")
    @@ AltKey("f", "forward-word") @@ All({"ShiftRight", "AltRight"}, "forward-word")
    @@ AltKey("d", "kill-word") @@ One("AltBackspace", "backward-kill-word")
    @@ All({"CtrlK", "Up", "ScrollUp"}, "up") @@ All({"CtrlJ", "Down", "ScrollDown"}, "down")
    @@ All({"CtrlP", "AltUp"}, "up-match") @@ All({"CtrlN", "AltDown"}, "down-match")
    @@ Two({"Tab", "SScrollDown"}, "toggle", "down") @@ Two({"ShiftTab", "SScrollUp"}, "toggle", "up")
    @@ One("PageUp", "page-up") @@ One("PageDown", "page-down")
    @@ All({"ShiftUp", "PreviewScrollUp"}, "preview-up") @@ All({"ShiftDown", "PreviewScrollDown"}, "preview-down")
    @@ One("LeftClick", "click") @@ All({"RightClick", "SLeftClick", "SRightClick"}, "toggle")
    @@ One("CtrlL", "clear-screen") @@ One("CtrlZ", "sig-stop")
    @@ One("CtrlSlash", "toggle-wrap-word") @@ AltKey("/", "toggle-wrap-word")
    @@ One("Mouse", "mouse") @@ One("Invalid", "invalid") @@ One("Fatal", "fatal")

\* The actions on the preview window go first, so that a preview(...) sees them.
WindowActions == {"toggle-preview", "show-preview", "hide-preview"}
WindowFirst(actions) == SelectSeq(actions, LAMBDA a : a[1] \in WindowActions)
                        \o SelectSeq(actions, LAMBDA a : a[1] \notin WindowActions)

\* A double click does what enter does, unless it is bound.
BuildKeymap(user) ==
    LET keymap == [e \in DOMAIN user |-> WindowFirst(user[e])] @@ DefaultKeymap
    IN  keymap @@ event_of("DoubleClick") :> keymap[event_of("Enter")]
=============================================================================
