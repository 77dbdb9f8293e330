------------------------------- MODULE Prompt -------------------------------
(***************************************************************************)
(* From the bytes of the terminal to the query line: the part of the main  *)
(* loop (terminal.cpp) that reads the tty, feeds KeyParser, runs its       *)
(* escape timeout, and processes the events.  The bytes of a key may come  *)
(* in pieces; the timeout is a deadline that lies ahead or has passed.     *)
(***************************************************************************)
EXTENDS QueryLine, KeyParser

CONSTANT Setups   \* bound of the model: records [binds, expect, inputless, units, keys, pieces]
                  \* with the bindings of --bind, the keys that may be typed, how many are,
                  \* and whether they may come in pieces and close to each other

VARIABLES
    setup,     \* the setup of this run
    punctual,  \* the main loop is never late, so no key is unread for a whole timeout
    rest,      \* bytes of the newest key that have not come yet
    tty,       \* bytes that came and are not read
    p,         \* the parser
    deadline,  \* esc_deadline: "off", "ahead" or "past"
    u,         \* the query line
    typed,     \* history: the keys typed
    out        \* history: the key events processed

vars == <<setup, punctual, rest, tty, p, deadline, u, typed, out>>

-----------------------------------------------------------------------------
(* The user.  A key, or a reply of the terminal, is a unit: [name, bytes,
   means, open] with the bytes that are sent at once and the key events they
   stand for; an open one is no whole sequence, and only silence ends it.  A
   binding is [keys, actions, added]: units that have names, actions with
   their arguments, and whether they follow what is bound already. *)

ActionText(a) == IF a.open = "" THEN <<a.name>>
                 ELSE <<a.name, a.open>> \o a.arg \o (IF a.open = ":" THEN <<>> ELSE <<Closers[a.open]>>)
Joined(parts, c) == IF parts = <<>> THEN <<>>
                    ELSE FoldLeft(LAMBDA text, part : text \o <<c>> \o part, parts[1], Tail(parts))
BindText(b) == Joined([i \in DOMAIN b.keys |-> b.keys[i].name], ",") \o <<":">> \o
               (IF b.added THEN <<"+">> ELSE <<>>) \o
               Joined([i \in DOMAIN b.actions |-> ActionText(b.actions[i])], "+")

\* What is given to --bind, and what it is meant to bind.
Written(binds) == Joined([i \in DOMAIN binds |-> BindText(binds[i])], ",")
KeyEvent(k) == IF k.means = <<>> THEN event_of(NamedEvents[k.name[1]])   \* no key of the terminal
               ELSE ToEvent(k.means[1])
BindMeans(keymap, b) ==
    LET Does(a) == <<IF a.name = "put" /\ a.open = "" THEN "char" ELSE a.name, a.arg>>
        actions == [i \in DOMAIN b.actions |-> Does(b.actions[i])]
        events  == {KeyEvent(b.keys[i]) : i \in DOMAIN b.keys}
    IN  [e \in events |-> IF b.added /\ e \in DOMAIN keymap THEN keymap[e] \o actions ELSE actions] @@ keymap
Meaning(binds) == FoldLeft(BindMeans, <<>>, binds)

UserKeymap(binds) == IF binds = <<>> THEN <<>> ELSE ParseKeymap(Written(binds)).keymap

Init ==
    /\ setup \in Setups
    /\ punctual \in IF setup.pieces THEN BOOLEAN ELSE {TRUE}
    /\ rest = <<>> /\ tty = <<>>
    /\ p = Idle
    /\ deadline = "off"
    /\ u = NewLine(BuildKeymap(UserKeymap(setup.binds)), setup.inputless)
    /\ typed = <<>> /\ out = <<>>

Running == u.exit = "None"
Quiet == tty = <<>> /\ p.pending = <<>> /\ rest = <<>>

\* What follows the escape key without a pause must begin with an ESC, or it
\* would be typed with alt.
Follows(unit) == Last(typed).open => Last(typed).bytes = <<ESC>> /\ unit.bytes[1] = ESC

\* The first bytes of the newest key come, and are not read yet.
Comes(bytes) ==
    \E n \in IF setup.pieces THEN 1 .. Len(bytes) ELSE {Len(bytes)} :
        /\ tty' = tty \o SubSeq(bytes, 1, n)
        /\ rest' = SubSeq(bytes, n + 1, Len(bytes))

Type(unit) ==
    /\ Running /\ rest = <<>>
    /\ Len(typed) < setup.keys
    /\ ~Quiet => setup.pieces /\ Follows(unit)
    /\ typed' = Append(typed, unit)
    /\ Comes(unit.bytes)
    /\ UNCHANGED <<setup, punctual, p, deadline, u, out>>

Arrive ==
    /\ rest # <<>>
    /\ Comes(rest)
    /\ UNCHANGED <<setup, punctual, p, deadline, u, typed, out>>

\* kEscapeTimeoutMs pass.  The terminal sends a key faster than that, or is one
\* timeout late after its first ESC; the loop may be late to read what came.
Elapse ==
    /\ deadline = "ahead"
    /\ rest = <<>> \/ (punctual /\ p.pending = <<ESC>> /\ ~p.lone)
    /\ punctual => tty = <<>>
    /\ deadline' = "past"
    /\ UNCHANGED <<setup, punctual, rest, tty, p, u, typed, out>>

-----------------------------------------------------------------------------
(* The main loop. *)

\* The events of one call of the parser: an expected key, or an action, may end
\* the session before the last of them.  If a timeout's ended it, the tty is read
\* nevertheless, and the first event that comes of it is processed.
Handled(line, e) == IF e \in setup.expect THEN RequestExit(line, "Close") ELSE ProcessEvent(line, e)
Process(st, k) ==
    IF ~st.go THEN st
    ELSE LET line == IF k.type = "Mouse" THEN st.u ELSE Handled(st.u, ToEvent(k))
         IN  [u |-> line, out |-> Append(st.out, k), go |-> line.exit = "None"]
ProcessAll(st, events) == FoldLeft(Process, [u |-> st.u, out |-> st.out, go |-> TRUE], events)

\* A mutant: only a read sets the deadline.
RearmedByReads(pending) == IF pending = <<>> \/ tty = <<>> THEN "off" ELSE "ahead"

\* The deadline is set anew for bytes that a read, or a timeout, leaves pending.
Rearmed(pending) == IF pending = <<>> THEN "off" ELSE "ahead"

\* select has something to return for.
LoopWakes == Running /\ (deadline = "past" \/ tty # <<>>)

\* One turn: the parser after the timeout (ticked), then after the tty was read
\* (fed), and the events of both.
Ends(st) == u' = st.u /\ out' = st.out
Reads(events, fed) ==
    /\ p' = [fed EXCEPT !.out = <<>>, !.done = FALSE]
    /\ deadline' = Rearmed(fed.pending)
    /\ Ends(ProcessAll(ProcessAll([u |-> u, out |-> out], events), fed.out))
Turns(ticked) == Reads(ticked.out, IF tty # <<>> THEN Feed(ticked, tty) ELSE [ticked EXCEPT !.out = <<>>])

Loop ==
    /\ LoopWakes
    /\ Turns(IF deadline = "past" THEN TimeoutTick(p) ELSE [p EXCEPT !.out = <<>>])
    /\ tty' = <<>>
    /\ UNCHANGED <<setup, punctual, rest, typed>>

Next ==
    \/ \E unit \in setup.units : Type(unit)
    \/ Arrive
    \/ Elapse
    \/ Loop

Spec == Init /\ [][Next]_vars
\* The rest of a key comes, time passes, and the loop turns: WF_vars(Loop),
\* with ENABLED written out.
LiveSpec == Spec /\ WF_vars(Arrive) /\ WF_vars(Elapse) /\ ([]<>~LoopWakes \/ []<><<Loop>>_vars)

-----------------------------------------------------------------------------
(* Properties *)

Meant(units) == FlattenSeq([i \in DOMAIN units |-> units[i].means])
IsEscape(k) == k.type = "Special" /\ k.key = "Escape"
Escapes(events) == Len(SelectSeq(events, IsEscape))

\* Whatever pieces its bytes come in, and whenever they are read, every key is
\* decoded to the event it means and no part of a sequence is taken for text,
\* as long as the loop is not late; and even if it is, ESC bytes that begin a
\* sequence are never taken for the escape key (KeyParser and its timeout).
KeysAreTyped ==
    /\ punctual => /\ IsPrefix(out, Meant(typed))
                   /\ (Running /\ Quiet) => out = Meant(typed)
    /\ Escapes(out) <= Escapes(Meant(typed))

\* What the keys typed leave pending is decided in the end, although nothing
\* else is typed (timeout_tick).
PendingIsDecided == <>[](~Running \/ Quiet)

\* A --bind binds what is written in it, whatever separators its arguments
\* hold and its keys are, to the events that are decoded from the bytes of its
\* keys (parse_keymap and parse_key_chords against KeyParser and to_event).
BindingsAsWritten ==
    (typed = <<>> /\ setup.binds # <<>>) =>
        ParseKeymap(Written(setup.binds)) = [ok |-> TRUE, keymap |-> Meaning(setup.binds), keys |-> <<>>]

\* Whatever line the keys made, the cursor is in it, and what an action kills
\* yank puts back where it was (rubout and the kills of actions.cpp).
Kills == {"unix-line-discard", "unix-word-rubout", "backward-kill-word", "backward-kill-subword",
          "kill-word", "kill-subword", "kill-line", "cancel"}
YankedBack(v, input) == v.input # input => DoAction(v, <<"yank", <<>>>>).input = input
KillsCanBeYanked ==
    u.cx \in 0 .. Len(u.input) /\ \A name \in Kills : YankedBack(DoAction(u, <<name, <<>>>>), u.input)

\* What a list of actions comes down to: each trigger(...) in it is replaced by
\* the lists of its keys, in order, but for the keys that it is itself part of.
RECURSIVE Unfolded(_, _, _)
Unfolded(line, path, actions) ==
    LET InPlace(a) ==
            IF a[1] # "trigger" THEN <<a>>
            ELSE LET chords == ParseKeyChords(a[2])
                     keys   == IF chords.ok THEN chords.events ELSE <<>>
                     Runs(key) == key \notin path /\ Bound(line, key)
                 IN  FlattenSeq([i \in DOMAIN keys |->
                         IF Runs(keys[i]) THEN Unfolded(line, path \cup {keys[i]}, line.keymap_org[keys[i]])
                                          ELSE <<>>])
    IN  FlattenSeq([i \in DOMAIN actions |-> InPlace(actions[i])])

\* What changes the keymap, or the rules of the line, in the middle of a list.
Unsteady == {"unbind", "rebind", "toggle-bind", "toggle-input", "hide-input", "show-input"}
Names(actions) == {actions[i][1] : i \in DOMAIN actions}

\* trigger(...) runs exactly the actions it stands for, whatever keys trigger each
\* other, however often and in whatever order: the guard ends every recursion, cuts
\* nothing else off, and is released with the key.  The key that is pressed is not
\* guarded, so its own list may run inside itself, one level deep; after the end of the
\* session the next key of a trigger still runs one action (do_action's Trigger).
TriggersUnfold ==
    \A key \in DOMAIN u.keymap_org \ u.unbound :
        LET actions == u.keymap_org[key]
            plain   == Unfolded(u, {}, actions)
            ran     == DoActions(u, actions)
        IN  ("trigger" \in Names(actions) /\ Names(plain) \cap Unsteady = {} /\ ran.exit = "None")
                => ran = DoActions(u, plain)
=============================================================================
