----------------------------- MODULE KeyParser -----------------------------
(***************************************************************************)
(* KeyParser (keyparser.cpp): the bytes a terminal sends, decoded to key   *)
(* events.  The state of the parser is what it holds back: pending_ and    *)
(* lone_esc_pending_.  Bytes are numbers, an event is a record.            *)
(***************************************************************************)
EXTENDS Integers, Sequences, SequencesExt

CONSTANT MaxPending  \* kMaxPending: bytes of an unterminated string kept

ESC == 27
BEL == 7
ST  == 156

Special(key, input) == [type |-> "Special", key |-> key, input |-> input]
Character(input, codepoints) == [type |-> "Character", input |-> input, codepoints |-> codepoints]
Mouse(button, motion, x, y, mods) ==
    [type |-> "Mouse", button |-> button, motion |-> motion, x |-> x, y |-> y, mods |-> mods]

-----------------------------------------------------------------------------
(* Tables *)

Arrows == 65 :> "ArrowUp" @@ 66 :> "ArrowDown" @@ 67 :> "ArrowRight" @@ 68 :> "ArrowLeft"
Letters == Arrows @@ 72 :> "Home" @@ 70 :> "End"
Ss3Table == Letters @@ 80 :> "F1" @@ 81 :> "F2" @@ 82 :> "F3" @@ 83 :> "F4"
Numbered == 1 :> "Home" @@ 2 :> "Insert" @@ 3 :> "Delete" @@ 4 :> "End" @@ 5 :> "PageUp"
            @@ 6 :> "PageDown" @@ 7 :> "Home" @@ 8 :> "End"
            @@ 11 :> "F1" @@ 12 :> "F2" @@ 13 :> "F3" @@ 14 :> "F4" @@ 15 :> "F5"
            @@ 17 :> "F6" @@ 18 :> "F7" @@ 19 :> "F8" @@ 20 :> "F9" @@ 21 :> "F10"
            @@ 23 :> "F11" @@ 24 :> "F12"
Digits(n) == IF n < 10 THEN <<48 + n>> ELSE <<48 + (n \div 10), 48 + (n % 10)>>
CsiTable == [s \in {<<c>> : c \in DOMAIN Letters} |-> Letters[s[1]]]
            @@ <<90>> :> "BackTab"
            @@ [s \in {Digits(n) \o <<126>> : n \in DOMAIN Numbered} |->
                  Numbered[CHOOSE n \in DOMAIN Numbered : s = Digits(n) \o <<126>>]]

\* modified_arrow
Modified == 2 :> (65 :> "ShiftArrowUp" @@ 66 :> "ShiftArrowDown" @@ 67 :> "ShiftArrowRight" @@ 68 :> "ShiftArrowLeft")
         @@ 3 :> (65 :> "AltArrowUp" @@ 66 :> "AltArrowDown" @@ 67 :> "AltArrowRight" @@ 68 :> "AltArrowLeft")
         @@ 5 :> (65 :> "CtrlArrowUp" @@ 66 :> "CtrlArrowDown" @@ 67 :> "CtrlArrowRight" @@ 68 :> "CtrlArrowLeft")

-----------------------------------------------------------------------------
(* Characters *)

\* utf8_sequence_length
Utf8Length(lead) == CASE lead \in 192 .. 223 -> 2
                      [] lead \in 224 .. 239 -> 3
                      [] lead \in 240 .. 247 -> 4
                      [] OTHER -> 1

\* A code point from the bytes of one sequence; utfcpp refuses what is cut
\* short, overlong, a surrogate or out of range.
CodePoint(b) == LET bits == IF Len(b) = 1 THEN b[1] ELSE b[1] % (2 ^ (7 - Len(b)))
                IN  FoldLeft(LAMBDA c, x : c * 64 + (x % 64), bits, Tail(b))
WellFormed(b) ==
    /\ Len(b) = Utf8Length(b[1])
    /\ Len(b) = 1 => b[1] < 128
    /\ \A i \in 2 .. Len(b) : b[i] \in 128 .. 191
    /\ Len(b) > 1 => CodePoint(b) >= <<0, 128, 2048, 65536>>[Len(b)]
    /\ CodePoint(b) \notin 55296 .. 57343
    /\ CodePoint(b) <= 1114111

\* Well-formed sequences from the start of b to its end, or no sequence.
RECURSIVE Utf8(_)
Utf8(b) == IF b = <<>> THEN <<>>
           ELSE LET n == Utf8Length(b[1])
                IN  IF n > Len(b) \/ ~WellFormed(SubSeq(b, 1, n)) THEN <<-1>>
                    ELSE <<CodePoint(SubSeq(b, 1, n))>> \o Utf8(SubSeq(b, n + 1, Len(b)))

\* decode_utf8_or_latin1
DecodeUtf8OrLatin1(b) == IF -1 \in Range(Utf8(b)) THEN b ELSE Utf8(b)

-----------------------------------------------------------------------------
(* One call of try_decode_one: did it decide something, what is left, and the
   event it found, if any. *)

Wait(b, lone) == [done |-> FALSE, pending |-> b, lone |-> lone, out |-> <<>>]
Took(b, n, events) == [done |-> TRUE, pending |-> SubSeq(b, n + 1, Len(b)), lone |-> FALSE, out |-> events]
Discard(b) == Took(b, Len(b), <<>>)

\* A mutant: the first timeout resolves the ESC.
LoneEscapeAtOnce(b, lone, force) ==
    IF force THEN Took(b, 1, <<Special("Escape", b)>>) ELSE Wait(b, lone)

\* A bare ESC is held for one timeout and is a key at the second.
LoneEscape(b, lone, force) ==
    CASE ~force        -> Wait(b, lone)
      [] force /\ ~lone -> Wait(b, TRUE)
      [] force /\ lone  -> Took(b, 1, <<Special("Escape", b)>>)

\* OSC, DCS, APC, PM and SOS: dropped through their terminator.
StringStarts == {93, 80, 95, 94, 88}
ControlString(b, force) ==
    LET ends == {j \in 3 .. Len(b) : b[j] \in {BEL, ST}
                                     \/ (b[j] = ESC /\ j < Len(b) /\ b[j + 1] = 92)}
        half == Last(b) = ESC /\ Len(b) > 2
    IN  CASE ends # {} -> LET j == Min(ends) IN Took(b, IF b[j] = ESC THEN j + 1 ELSE j, <<>>)
          [] ends = {} /\ force -> Discard(b)
          [] ends = {} /\ ~force /\ ~half /\ Len(b) > MaxPending -> Discard(b)
          [] OTHER -> Wait(b, FALSE)

\* ESC and a character that starts no sequence: one event for both.
Alt(b, force) ==
    LET need == Utf8Length(b[2])
        Char(n) == Character(SubSeq(b, 1, n),
                             IF need = 1 THEN <<>> ELSE DecodeUtf8OrLatin1(SubSeq(b, 2, n)))
    IN  CASE Len(b) >= 1 + need -> Took(b, 1 + need, <<Char(1 + need)>>)
          [] Len(b) < 1 + need /\ force -> Took(b, Len(b), <<Char(Len(b))>>)
          [] OTHER -> Wait(b, FALSE)

Ss3(b, force) ==
    CASE Len(b) >= 3 -> Took(b, 3, IF b[3] \in DOMAIN Ss3Table
                                   THEN <<Special(Ss3Table[b[3]], SubSeq(b, 1, 3))>> ELSE <<>>)
      [] Len(b) < 3 /\ force -> Discard(b)
      [] OTHER -> Wait(b, FALSE)

\* The ';'-separated numbers of a CSI; other bytes are skipped.
Params(text) ==
    LET digits == [ps |-> <<>>, cur |-> 0]
        Add(a, c) == CASE c \in 48 .. 57 -> [a EXCEPT !.cur = Min({@ * 10 + c - 48, 65535})]
                       [] c = 59 -> [ps |-> Append(a.ps, a.cur), cur |-> 0]
                       [] OTHER -> a
        all == FoldLeft(Add, digits, text)
    IN  IF text = <<>> THEN <<>> ELSE Append(all.ps, all.cur)

\* The fields of a mouse report; the released ones come only from SGR.
MouseReport(code, x, y, released) ==
    LET Bit(n) == (code \div n) % 2 = 1
        bits == (code % 4) + (IF Bit(64) THEN 4 ELSE 0)
    IN  Mouse(IF bits \in {0, 1, 2, 4, 5}
              THEN (0 :> "Left" @@ 1 :> "Middle" @@ 2 :> "Right" @@ 4 :> "WheelUp" @@ 5 :> "WheelDown")[bits]
              ELSE "None",
              IF released THEN "Released" ELSE IF Bit(32) THEN "Moved" ELSE "Pressed",
              Max({x - 1, 0}), Max({y - 1, 0}),
              (IF Bit(4) THEN {"shift"} ELSE {}) \cup (IF Bit(8) THEN {"alt"} ELSE {})
                  \cup (IF Bit(16) THEN {"ctrl"} ELSE {}))

\* CSI M and three raw bytes, each 32 too large.
X10(b, i, force) ==
    CASE Len(b) >= i + 3 ->
           Took(b, i + 3, <<MouseReport(b[i + 1] - 32, Max({b[i + 2] - 32, 0}), Max({b[i + 3] - 32, 0}), FALSE)>>)
      [] Len(b) < i + 3 /\ force -> Discard(b)
      [] OTHER -> Wait(b, FALSE)

\* A whole CSI, with its final byte at i.
Csi(b, i, force) ==
    LET sgr  == b[3] = 60
        text == SubSeq(b, IF sgr THEN 4 ELSE 3, i - 1)
        ps   == Params(text)
        whole == SubSeq(b, 1, i)
        mod  == CASE Len(ps) = 2 /\ ps[1] = 1 -> ps[2]
                  [] Len(ps) = 1 /\ ps[1] = 2 -> 2
                  [] OTHER -> 0
        Key(k) == Took(b, i, <<Special(k, whole)>>)
    IN  CASE ~sgr /\ b[i] = 77 /\ text = <<>> -> X10(b, i, force)
          [] sgr /\ b[i] \in {77, 109} ->
               Took(b, i, IF Len(ps) = 3 THEN <<MouseReport(ps[1], ps[2], ps[3], b[i] = 109)>> ELSE <<>>)
          [] b[i] \in DOMAIN Arrows /\ mod \in DOMAIN Modified -> Key(Modified[mod][b[i]])
          [] OTHER -> IF Append(text, b[i]) \in DOMAIN CsiTable THEN Key(CsiTable[Append(text, b[i])])
                      ELSE Took(b, i, <<>>)

CsiOrPart(b, force) ==
    LET from  == IF Len(b) > 2 /\ b[3] = 60 THEN 4 ELSE 3
        final == {i \in from .. Len(b) : b[i] \in 64 .. 126}
    IN  CASE final # {} -> Csi(b, Min(final), force)
          [] final = {} /\ force -> Discard(b)
          [] OTHER -> Wait(b, FALSE)

\* Control bytes and characters.
Plain(b, lone, force) ==
    LET c == b[1]
        need == Utf8Length(c)
        Named == 127 :> "Backspace" @@ 8 :> "Backspace" @@ 13 :> "Return" @@ 9 :> "Tab"
    IN  CASE c \in DOMAIN Named -> Took(b, 1, <<Special(Named[c], <<c>>)>>)
          [] c \notin DOMAIN Named /\ c <= 31 -> Took(b, 1, <<Character(<<c>>, <<>>)>>)
          [] c \notin DOMAIN Named /\ c > 31 /\ need <= Len(b) ->
               LET s == SubSeq(b, 1, need) IN Took(b, need, <<Character(s, DecodeUtf8OrLatin1(s))>>)
          [] need > Len(b) /\ force -> Took(b, Len(b), <<Character(b, DecodeUtf8OrLatin1(b))>>)
          [] OTHER -> Wait(b, lone)

TryDecodeOne(b, lone, force) ==
    CASE b = <<>> -> Wait(b, lone)
      [] b # <<>> /\ b[1] # ESC -> Plain(b, lone, force)
      [] b = <<ESC>> -> LoneEscape(b, lone, force)
      [] Len(b) > 1 /\ b[1] = ESC ->
           CASE b[2] \in StringStarts -> ControlString(b, force)
             [] b[2] = ESC -> Took(b, 1, <<Special("Escape", <<ESC>>)>>)
             [] b[2] = 79 -> Ss3(b, force)
             [] b[2] = 91 -> CsiOrPart(b, force)
             [] OTHER -> Alt(b, force)

\* consume_available: as many events as there are; each takes a byte or more.
ConsumeAvailable(p) ==
    LET Step(q, i) == IF q.done THEN [TryDecodeOne(q.pending, q.lone, FALSE) EXCEPT !.out = q.out \o @] ELSE q
    IN  FoldLeft(Step, [p EXCEPT !.done = TRUE], [i \in 1 .. Len(p.pending) + 1 |-> i])

Feed(p, bytes) == ConsumeAvailable([p EXCEPT !.pending = @ \o bytes, !.out = <<>>])
TimeoutTick(p) == ConsumeAvailable(TryDecodeOne(p.pending, p.lone, TRUE))

Idle == Wait(<<>>, FALSE)
=============================================================================
