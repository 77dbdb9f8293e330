------------------------------- MODULE Keymap -------------------------------
(***************************************************************************)
(* Key bindings (keymap.cpp): from the key events of KeyParser to the      *)
(* events bindings are made for, from --bind to a keymap, and the default  *)
(* keymap.  The text of --bind is a sequence of tokens: a character, the   *)
(* name of a key or of an action, or a prefix such as "ctrl-".  An event   *)
(* is a pair of its type and its rune, an action a pair of its name and    *)
(* its argument.                                                           *)
(***************************************************************************)
EXTENDS Integers, Sequences, SequencesExt

Failed == [ok |-> FALSE]   \* OptionError

Alphabet == <<"a", "b", "c", "d", "e", "f", "g", "h", "i", "j", "k", "l", "m",
              "n", "o", "p", "q", "r", "s", "t", "u", "v", "w", "x", "y", "z">>
Code == [c \in ToSet(Alphabet) |-> 96 + CHOOSE i \in 1 .. 26 : Alphabet[i] = c]
        @@ " " :> 32 @@ "+" :> 43 @@ "," :> 44 @@ "/" :> 47 @@ ":" :> 58 @@ "]" :> 93

event_of(type) == <<type, 0>>
rune_event(r) == <<"Rune", r>>
alt_event(r) == <<"Alt", r>>
ctrl_alt_event(r) == <<"CtrlAlt", r>>

\* CtrlA .. CtrlZ, with Tab and Enter where ctrl-i and ctrl-m would be.
CtrlEvents == <<"CtrlA", "CtrlB", "CtrlC", "CtrlD", "CtrlE", "CtrlF", "CtrlG", "CtrlH", "Tab",
                "CtrlJ", "CtrlK", "CtrlL", "Enter", "CtrlN", "CtrlO", "CtrlP", "CtrlQ", "CtrlR",
                "CtrlS", "CtrlT", "CtrlU", "CtrlV", "CtrlW", "CtrlX", "CtrlY", "CtrlZ">>

\* Event::printable
Printable(e) == e[1] = "Rune" /\ e[2] >= 32 /\ e[2] \notin 127 .. 159

-----------------------------------------------------------------------------
(* to_event *)

SpecialEvents ==
    "Return" :> "Enter" @@ "Escape" :> "Esc" @@ "BackTab" :> "ShiftTab"
    @@ "ArrowUp" :> "Up" @@ "ArrowDown" :> "Down" @@ "ArrowLeft" :> "Left" @@ "ArrowRight" :> "Right"
    @@ "ShiftArrowUp" :> "ShiftUp" @@ "ShiftArrowDown" :> "ShiftDown"
    @@ "ShiftArrowLeft" :> "ShiftLeft" @@ "ShiftArrowRight" :> "ShiftRight"
    @@ "CtrlArrowUp" :> "CtrlUp" @@ "CtrlArrowDown" :> "CtrlDown"
    @@ "CtrlArrowLeft" :> "CtrlLeft" @@ "CtrlArrowRight" :> "CtrlRight"
    @@ "AltArrowUp" :> "AltUp" @@ "AltArrowDown" :> "AltDown"
    @@ "AltArrowLeft" :> "AltLeft" @@ "AltArrowRight" :> "AltRight"
    @@ [k \in {"Tab", "Backspace", "Delete", "PageUp", "PageDown", "Home", "End", "Insert", "F1", "F2",
               "F3", "F4", "F5", "F6", "F7", "F8", "F9", "F10", "F11", "F12"} |-> k]

MouseEvent(m) ==
    LET S(shifted, plain) == event_of(IF "shift" \in m.mods THEN shifted ELSE plain)
    IN  CASE m.button = "WheelUp" -> S("SScrollUp", "ScrollUp")
          [] m.button = "WheelDown" -> S("SScrollDown", "ScrollDown")
          [] m.button = "Left" /\ m.motion = "Pressed" -> S("SLeftClick", "LeftClick")
          [] m.button = "Right" /\ m.motion = "Pressed" -> S("SRightClick", "RightClick")
          [] OTHER -> event_of("Mouse")

\* ESC and something else.
AltEvent(k) ==
    LET c == k.input[2]
    IN  CASE c \in {8, 127} -> event_of("AltBackspace")
          [] c \in 1 .. 26 \ {8} -> ctrl_alt_event(96 + c)
          [] OTHER -> LET rest == IF k.codepoints = <<>> THEN Tail(k.input) ELSE k.codepoints
                      IN  IF Len(rest) = 1 THEN alt_event(rest[1]) ELSE event_of("Invalid")

ControlEvent(c) ==
    CASE c = 0 -> event_of("CtrlSpace")
      [] c \in 1 .. 26 -> event_of(CtrlEvents[c])
      [] c = 28 -> event_of("CtrlBackSlash")
      [] c = 29 -> event_of("CtrlRightBracket")
      [] c = 30 -> event_of("CtrlCaret")
      [] c = 31 -> event_of("CtrlSlash")

ToEvent(k) ==
    CASE k.type = "Mouse" -> MouseEvent(k)
      [] k.type = "Special" -> event_of(SpecialEvents[k.key])
      [] k.type = "Character" /\ Len(k.input) >= 2 /\ k.input[1] = 27 -> AltEvent(k)
      [] k.type = "Character" /\ Len(k.input) = 1 /\ k.input[1] \in 0 .. 31 -> ControlEvent(k.input[1])
      [] OTHER -> IF k.codepoints # <<>> THEN rune_event(k.codepoints[1]) ELSE event_of("Invalid")

-----------------------------------------------------------------------------
(* parse_key_chords *)

\* The separators that are text, while a spec is split.
EscColon == "<colon>"
EscComma == "<comma>"
EscPlus  == "<plus>"

NamedEvents ==
    "up" :> "Up" @@ "down" :> "Down" @@ "left" :> "Left" @@ "right" :> "Right"
    @@ "enter" :> "Enter" @@ "bspace" :> "Backspace" @@ "tab" :> "Tab" @@ "btab" :> "ShiftTab"
    @@ "esc" :> "Esc" @@ "del" :> "Delete" @@ "home" :> "Home" @@ "end" :> "End" @@ "insert" :> "Insert"
    @@ "page-up" :> "PageUp" @@ "page-down" :> "PageDown"
    @@ "ctrl-space" :> "CtrlSpace" @@ "ctrl-^" :> "CtrlCaret" @@ "ctrl-/" :> "CtrlSlash"
    @@ "ctrl-\\" :> "CtrlBackSlash" @@ "ctrl-]" :> "CtrlRightBracket"
    @@ "alt-bspace" :> "AltBackspace" @@ "ctrl-bspace" :> "CtrlBackspace"
    @@ "ctrl-alt-bspace" :> "CtrlAltBackspace"
    @@ "alt-up" :> "AltUp" @@ "alt-down" :> "AltDown" @@ "alt-left" :> "AltLeft" @@ "alt-right" :> "AltRight"
    @@ "shift-up" :> "ShiftUp" @@ "shift-down" :> "ShiftDown"
    @@ "shift-left" :> "ShiftLeft" @@ "shift-right" :> "ShiftRight"
    @@ "ctrl-up" :> "CtrlUp" @@ "ctrl-down" :> "CtrlDown" @@ "ctrl-left" :> "CtrlLeft" @@ "ctrl-right" :> "CtrlRight"
    @@ "f10" :> "F10" @@ "f11" :> "F11" @@ "f12" :> "F12"
    @@ "left-click" :> "LeftClick" @@ "double-click" :> "DoubleClick" @@ "backward-eof" :> "BackwardEOF"

\* s cut at every c.
Split(s, c) == FoldLeft(LAMBDA parts, x : IF x = c THEN Append(parts, <<>>)
                                          ELSE [parts EXCEPT ![Len(parts)] = Append(@, x)], << <<>> >>, s)

\* One key: [ok, event].
Key(event) == [ok |-> TRUE, event |-> event]
Chord(key) ==
    LET k == [i \in DOMAIN key |-> IF key[i] = EscComma THEN "," ELSE key[i]]
        Digit(d) == d \in {"1", "2", "3", "4", "5", "6", "7", "8", "9"}
        F == [d \in {"1", "2", "3", "4", "5", "6", "7", "8", "9"} |-> event_of("F" \o d)]
        Escaped == EscColon :> 58 @@ EscPlus :> 43
        Rune(c) == IF c \in DOMAIN Escaped THEN Escaped[c] ELSE Code[c]
        Letter(c) == c \in ToSet(Alphabet)
    IN  CASE k = <<"space">> -> Key(rune_event(32))
          [] k = <<"alt-", "enter">> -> Key(ctrl_alt_event(109))
          [] k = <<"alt-", "space">> -> Key(alt_event(32))
          [] Len(k) = 1 /\ k[1] \in DOMAIN NamedEvents -> Key(event_of(NamedEvents[k[1]]))
          [] Len(k) = 2 /\ k[1] = "ctrl-alt-" /\ Letter(k[2]) ->
               Key(IF k[2] = "h" THEN event_of("CtrlAltBackspace") ELSE ctrl_alt_event(Code[k[2]]))
          [] Len(k) = 2 /\ k[1] = "ctrl-" /\ Letter(k[2]) ->
               Key(event_of(IF k[2] = "h" THEN "CtrlBackspace" ELSE CtrlEvents[Code[k[2]] - 96]))
          [] Len(k) = 2 /\ k[1] = "alt-" /\ k[2] \in DOMAIN Code \cup DOMAIN Escaped -> Key(alt_event(Rune(k[2])))
          [] Len(k) = 2 /\ k[1] = "f" /\ Digit(k[2]) -> Key(F[k[2]])
          [] Len(k) = 1 /\ k[1] \in DOMAIN Code -> Key(rune_event(Code[k[1]]))
          [] OTHER -> Failed

\* A list of keys: [ok, events].  The comma of "alt-," is no separator, and a
\* lone comma is a key.
AltCommas(text) == [i \in DOMAIN text |-> IF i > 1 /\ text[i - 1] = "alt-" /\ text[i] = "," THEN EscComma ELSE text[i]]
HasComma(str, n) == \/ str = <<",">>
                    \/ n > 1 /\ (SubSeq(str, 1, 2) = <<",", ",">> \/ SubSeq(str, n - 1, n) = <<",", ",">>)
                    \/ \E i \in 1 .. n - 2 : SubSeq(str, i, i + 2) = <<",", ",", ",">>
ChordsOf(str) == [i \in DOMAIN str |-> Chord(str[i])]
AllChords(chords) == IF \E i \in DOMAIN chords : ~chords[i].ok THEN Failed
                     ELSE [ok |-> TRUE, events |-> [i \in DOMAIN chords |-> chords[i].event]]
ChordList(str) == AllChords(ChordsOf(SelectSeq(Split(str, ","), LAMBDA t : t # <<>>)) \o
                            (IF HasComma(str, Len(str)) THEN <<Key(rune_event(44))>> ELSE <<>>))
ParseKeyChords(text) == IF text = <<>> THEN Failed ELSE ChordList(AltCommas(text))
=============================================================================
