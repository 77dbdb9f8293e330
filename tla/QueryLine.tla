----------------------------- MODULE QueryLine -----------------------------
(***************************************************************************)
(* The query line (actions.cpp, and process_event of terminal.cpp): the    *)
(* text and the cursor, what was killed, the actions that edit them, and   *)
(* how the actions bound to an event run, with trigger(...) and the        *)
(* actions that change the keymap.  The actions that do not touch the line *)
(* do nothing here; see ListView, Session and Preview.                     *)
(***************************************************************************)
EXTENDS Bindings

\* The line and what actions change besides it.  The keymap only loses keys and
\* gets them back, so it is keymap_org without the ones unbound; event is
\* current_event_.
NewLine(keymap, inputless) ==
    [input |-> <<>>, cx |-> 0, yanked |-> <<>>, beof |-> FALSE, inputless |-> inputless,
     exit |-> "None", event |-> event_of("Start"), keymap_org |-> keymap, unbound |-> {},
     triggering |-> {}, printed |-> <<>>]

-----------------------------------------------------------------------------
(* Words *)

IsSpace(c) == c = 32
\* The code points of the model: ASCII, and others that are letters.
IsWordChar(c) == c \in 48 .. 57 \cup 65 .. 90 \cup 97 .. 122 \/ c >= 128
IsLower(c) == c \in 97 .. 122
IsUpper(c) == c \in 65 .. 90

\* Where the last word before the cursor begins.
LastBoundary(s, end, Boundary(_, _)) ==
    LET at == {i \in 1 .. end - 1 : Boundary(s[i], s[i + 1])} IN IF at = {} THEN 0 ELSE Max(at)
SpaceBoundary(a, b) == IsSpace(a) /\ ~IsSpace(b)
WordBoundary(a, b) == ~IsWordChar(a) /\ IsWordChar(b)
SubWordBoundary(a, b) == (IsLower(a) /\ IsUpper(b)) \/ WordBoundary(a, b)

\* Where the next word after the cursor ends.
NextBoundary(s, start, Boundary(_, _)) ==
    Min({i \in start + 1 .. Len(s) : i = Len(s) \/ Boundary(s[i], s[i + 1])} \cup
        (IF start >= Len(s) THEN {start} ELSE {}))
WordEnd(a, b) == IsWordChar(a) /\ ~IsWordChar(b)
SubWordEnd(a, b) == (IsLower(a) /\ IsUpper(b)) \/ WordEnd(a, b)

-----------------------------------------------------------------------------
(* Edits *)

Before(u) == SubSeq(u.input, 1, u.cx)
After(u) == SubSeq(u.input, u.cx + 1, Len(u.input))

SetInput(u, s) == [u EXCEPT !.input = s, !.cx = Len(s)]
Inserted(u, s) == [u EXCEPT !.input = Before(u) \o s \o After(u), !.cx = @ + Len(s)]

CanDelete(u) == u.cx < Len(u.input)
DelChar(u) == IF CanDelete(u) THEN [u EXCEPT !.input = Before(u) \o Tail(After(u))] ELSE u
Backspaced(u) == IF u.cx > 0 THEN [u EXCEPT !.input = Front(Before(u)) \o After(u), !.cx = @ - 1] ELSE u

\* A mutant: the cursor has moved when the text is cut.
RuboutLate(u, to) == [u EXCEPT !.cx = to, !.yanked = SubSeq(u.input, to + 1, to), !.input = SubSeq(@, 1, to) \o After(u)]

\* rubout
Rubout(u, to) == [u EXCEPT !.cx = to, !.yanked = SubSeq(u.input, to + 1, u.cx),
                           !.input = SubSeq(@, 1, to) \o After(u)]
KilledTo(u, to) == IF to > u.cx
                   THEN [u EXCEPT !.yanked = SubSeq(u.input, u.cx + 1, to),
                                  !.input = Before(u) \o SubSeq(@, to + 1, Len(@))]
                   ELSE u

RequestExit(u, e) == [u EXCEPT !.exit = IF @ = "None" THEN e ELSE @]
Text(arg) == [i \in DOMAIN arg |-> Code[arg[i]]]

\* The actions on the line that call no other action.
Edit(u, name, arg) ==
    LET noted == [u EXCEPT !.beof = (u.input = <<>>)]
        Back(v, Boundary(_, _)) == IF v.cx > 0 THEN Rubout(v, LastBoundary(v.input, v.cx, Boundary)) ELSE v
    IN  CASE name = "char" -> Inserted(u, <<u.event[2]>>)
          [] name = "put" -> Inserted(u, Text(arg))
          [] name = "change-query" -> SetInput(u, Text(arg))
          [] name = "clear-query" -> SetInput(u, <<>>)
          [] name = "print" -> [u EXCEPT !.printed = Append(@, arg)]
          [] name = "abort" -> RequestExit(u, "Quit")
          [] name = "accept" -> RequestExit(u, "Close")
          [] name = "cancel" -> IF u.input = <<>> THEN RequestExit(u, "Quit")
                                ELSE SetInput([u EXCEPT !.yanked = u.input], <<>>)
          [] name = "beginning-of-line" -> [u EXCEPT !.cx = 0]
          [] name = "end-of-line" -> [u EXCEPT !.cx = Len(u.input)]
          [] name = "backward-char" -> [u EXCEPT !.cx = Max({@ - 1, 0})]
          [] name = "forward-char" -> [u EXCEPT !.cx = Min({@ + 1, Len(u.input)})]
          [] name = "delete-char" -> DelChar(u)
          [] name = "delete-char/eof" -> IF ~CanDelete(u) /\ u.cx = 0 THEN RequestExit(u, "Quit") ELSE DelChar(u)
          [] name = "backward-delete-char" -> Backspaced(noted)
          [] name = "backward-delete-char/eof" ->
               IF u.input = <<>> THEN RequestExit(u, "Quit") ELSE Backspaced(u)
          [] name = "unix-line-discard" -> IF u.cx > 0 THEN Rubout(noted, 0) ELSE noted
          [] name = "unix-word-rubout" -> Back(noted, SpaceBoundary)
          [] name = "backward-kill-word" -> Back(noted, WordBoundary)
          [] name = "backward-kill-subword" -> Back(noted, SubWordBoundary)
          [] name = "kill-word" -> KilledTo(u, NextBoundary(u.input, u.cx, WordEnd))
          [] name = "kill-subword" -> KilledTo(u, NextBoundary(u.input, u.cx, SubWordEnd))
          [] name = "kill-line" -> KilledTo(u, Len(u.input))
          [] name = "yank" -> Inserted(u, u.yanked)
          [] name = "backward-word" -> [u EXCEPT !.cx = LastBoundary(u.input, @, WordBoundary)]
          [] name = "forward-word" -> [u EXCEPT !.cx = NextBoundary(u.input, @, WordEnd)]
          [] name = "backward-subword" -> [u EXCEPT !.cx = LastBoundary(u.input, @, SubWordBoundary)]
          [] name = "forward-subword" -> [u EXCEPT !.cx = NextBoundary(u.input, @, SubWordEnd)]
          [] name = "toggle-input" -> [u EXCEPT !.inputless = ~@]
          [] name = "hide-input" -> [u EXCEPT !.inputless = TRUE]
          [] name = "show-input" -> [u EXCEPT !.inputless = FALSE]
          [] OTHER -> u

Bound(u, key) == key \in DOMAIN u.keymap_org \ u.unbound

\* unbind, rebind and toggle-bind of one key.
Rebound(u, name, key) ==
    CASE name = "unbind" \/ (name = "toggle-bind" /\ Bound(u, key)) -> [u EXCEPT !.unbound = @ \cup {key}]
      [] OTHER -> [u EXCEPT !.unbound = @ \ {key}]

-----------------------------------------------------------------------------
(* Running actions *)

RECURSIVE DoActions(_, _)

\* A mutant: a key that was triggered is never taken out of triggering_.
TriggeredOnce(u, key) ==
    IF key \in u.triggering \/ ~Bound(u, key) THEN u
    ELSE DoActions([u EXCEPT !.triggering = @ \cup {key}], u.keymap_org[key])

\* One key of trigger(...), unless it is being triggered.
Triggered(u, key) ==
    IF key \in u.triggering \/ ~Bound(u, key) THEN u
    ELSE [DoActions([u EXCEPT !.triggering = @ \cup {key}], u.keymap_org[key]) EXCEPT !.triggering = @ \ {key}]

\* do_action: while the input is hidden the line keeps its text.
InputKept(v, input) == IF v.inputless THEN [SetInput(v, input) EXCEPT !.beof = FALSE] ELSE v
OnKeys(u, name, keys) ==
    CASE ~keys.ok -> u
      [] keys.ok /\ name = "trigger" -> FoldLeft(Triggered, u, keys.events)
      [] OTHER -> FoldLeft(LAMBDA v, k : Rebound(v, name, k), u, keys.events)
DoAction(u, a) ==
    InputKept(IF a[1] \in {"trigger", "unbind", "rebind", "toggle-bind"} THEN OnKeys(u, a[1], ParseKeyChords(a[2]))
              ELSE Edit(u, a[1], a[2]),
              u.input)

\* do_actions, up to the first action that ends the session.
DoActions(u, actions) ==
    LET Done(v) == [u |-> v, go |-> v.exit = "None"]
        Do1(acc, a) == IF acc.go THEN Done(DoAction(acc.u, a)) ELSE acc
    IN  FoldLeft(Do1, [u |-> u, go |-> TRUE], actions).u

\* process_event: the actions of e, and the ones of backward-eof if they ask for them.
BackwardEOF(u, e) ==
    LET eof == event_of("BackwardEOF")
    IN  IF u.beof /\ u.exit = "None" /\ Bound(u, eof)
        THEN [DoActions([u EXCEPT !.event = eof], u.keymap_org[eof]) EXCEPT !.event = e]
        ELSE u
ProcessEvent(u, e) ==
    LET actions == IF Bound(u, e) THEN u.keymap_org[e] ELSE <<>>
    IN  BackwardEOF(DoActions([u EXCEPT !.event = e, !.beof = FALSE],
                              IF actions = <<>> /\ e[1] = "Rune" THEN << <<"char", <<>>>> >> ELSE actions), e)
=============================================================================
