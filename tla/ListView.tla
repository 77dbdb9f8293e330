------------------------------ MODULE ListView ------------------------------
(***************************************************************************)
(* The list on the screen: the cursor cy_, the scroll position offset_ and *)
(* the selection of actions.cpp, with the results and reloads that change  *)
(* the list under them.  Everything runs on the UI thread; one step is one *)
(* action of a key, one result, one reload, one change of the window or a  *)
(* repaint.  The actions of one turn run before the repaint at its end.    *)
(***************************************************************************)
EXTENDS Integers, Sequences, FiniteSets, Functions

CONSTANTS
    Items,      \* the ordinals of items
    Lists,      \* the results a search may have: sequences of ordinals
    MaxRows,    \* bound: rows of the list (max_items())
    ScrollOff,  \* --scroll-off
    Cycle,      \* --cycle
    Reverse,    \* the layout is not the default one
    Multis,     \* the limits --multi and change-multi may give; 0: no --multi
    Positions,  \* the arguments of pos(...)
    MaxGen,     \* bound: reloads
    MaxPicks,   \* bound: items selected in a session
    MaxBatch    \* bound: actions between two repaints

ASSUME ListAssumption ==
    /\ Items \subseteq Nat
    /\ Lists \subseteq Seq(Items) /\ <<>> \in Lists
    /\ \A l \in Lists : \A i, j \in DOMAIN l : l[i] = l[j] => i = j
    /\ {MaxRows, ScrollOff, MaxGen, MaxPicks, MaxBatch} \subseteq Nat
    /\ {Cycle, Reverse} \subseteq BOOLEAN
    /\ Multis \subseteq Nat
    /\ Positions \subseteq Int

VARIABLES
    merger,      \* merger_: the result on the screen
    merger_gen,  \* the list it was made from: gen, or an earlier one
    gen,         \* display_list_: the number of the list on display
    cy,          \* cy_
    offset,      \* offset_
    rows,        \* max_items()
    multi,       \* multi_
    selected,    \* selected_: ordinal -> its number and the list it came from
    select_seq,  \* select_seq_
    batch        \* actions since the last repaint; 0: the screen is painted

listVars == <<merger, merger_gen, gen>>
windowVars == <<cy, offset, rows>>
selVars == <<multi, selected, select_seq>>
vars == <<listVars, windowVars, selVars, batch>>

Gen == 0 .. MaxGen
Selected == [seq : Nat, gen : Gen]
NoneSelected == [i \in {} |-> [seq |-> 0, gen |-> 0]]

Max2(a, b) == IF a < b THEN b ELSE a
Min2(a, b) == IF b < a THEN b ELSE a
\* std::clamp, whose result is undefined unless lo <= hi.
Clamp(x, lo, hi) == IF x < lo THEN lo ELSE IF hi < x THEN hi ELSE x

\* list_count()
Count == Len(merger)

-----------------------------------------------------------------------------
(* The window: constrain(). *)

MinOffset(c, r) == Max2(c - r + 1, 0)
MaxOffset(c, n, r) == Max2(Min2(n - r, c), 0)

\* Lines the cursor keeps from the edges of the window.
Margin(r, so) == Min2(r \div 2, so)
Before(c, o) == c - o
After(c, o, r) == r - (c - o + 1)

\* The offset may stay at o: the cursor is far enough from the first line of
\* the window, or from neither end.
EnoughBefore(c, o, r, m) == m <= Before(c, o) \/ (Before(c, o) < m /\ After(c, o, r) < m)
EnoughAfter(c, o, r, m) == m <= After(c, o, r) \/ (Before(c, o) < m /\ After(c, o, r) < m)

\* Mutant: one line at a time.
ScrollForwardOnce(o, hi, c, r, m) == IF EnoughAfter(c, o, r, m) THEN o ELSE Min2(hi, o + 1)

\* The two loops of constrain(): scroll back from o, but not beyond lo, until
\* there is enough before the cursor; then forward until there is enough after.
ScrollBack(o, lo, c, r, m) ==
    CHOOSE p \in lo .. o :
        /\ p = lo \/ EnoughBefore(c, p, r, m)
        /\ \A p2 \in p + 1 .. o : ~EnoughBefore(c, p2, r, m)
ScrollForward(o, hi, c, r, m) ==
    CHOOSE p \in o .. hi :
        /\ p = hi \/ EnoughAfter(c, p, r, m)
        /\ \A p2 \in o .. p - 1 : ~EnoughAfter(c, p2, r, m)

\* constrain(): where the cursor and the window end up.  The code repeats the
\* adjustment until it changes nothing; it changes nothing the second time
\* (property RepaintIsStable).
Constrained(c0, o0, n, r, so) ==
    LET c  == Clamp(c0, 0, Max2(0, n - 1))
        lo == MinOffset(c, r)
        hi == MaxOffset(c, n, r)
        o  == Clamp(Clamp(o0, 0, n), lo, hi)
    IN  IF r = 0 THEN [cy |-> c, offset |-> Clamp(o0, 0, n)]
        ELSE [cy |-> c, offset |-> ScrollForward(ScrollBack(o, lo, c, r, Margin(r, so)),
                                                 hi, c, r, Margin(r, so))]

Constrain(c, o, n, r, so) ==
    /\ cy' = Constrained(c, o, n, r, so).cy
    /\ offset' = Constrained(c, o, n, r, so).offset

-----------------------------------------------------------------------------
(* The cursor. *)

\* One more action of this turn.
Acts == batch < MaxBatch /\ batch' = batch + 1

VSet(o) == Clamp(o, 0, Max2(0, Count - 1))

\* vmove(): d lines towards the top of the screen.
VMove(from, d, allow_cycle) ==
    LET dest == from + (IF Reverse THEN -d ELSE d)
    IN  VSet(IF ~(Cycle /\ allow_cycle) THEN dest
             ELSE IF dest > Count - 1 THEN (IF from = Count - 1 THEN 0 ELSE dest)
             ELSE IF dest < 0 THEN (IF from = 0 THEN Count - 1 ELSE dest)
             ELSE dest)

\* up, down
Step ==
    /\ Acts
    /\ \E d \in {-1, 1} : cy' = VMove(cy, d, TRUE)
    /\ UNCHANGED <<listVars, offset, rows, selVars>>

\* page-up, page-down, half-page-up, half-page-down
Page ==
    /\ Acts
    /\ \E lines \in {rows - 1, rows \div 2}, d \in {-1, 1} : cy' = VSet(cy + d * Max2(1, lines))
    /\ UNCHANGED <<listVars, offset, rows, selVars>>

\* pos(...), first, last: 1 is the first item, -1 the last one.
Jump ==
    /\ Acts
    /\ \E n \in Positions :
          Constrain(VSet(IF n > 0 THEN n - 1 ELSE IF n < 0 THEN n + Count ELSE n),
                    offset, Count, rows, ScrollOff)
    /\ UNCHANGED <<listVars, rows, selVars>>

\* offset-up, offset-down: scroll by a line, or move the cursor if the list
\* scrolls no further.
ScrollLine ==
    /\ Acts
    /\ \E d \in {-1, 1} :
          LET o   == offset + (IF Reverse THEN -d ELSE d)
              fit == Constrained(cy, o, Count, rows, ScrollOff)
          IN  /\ offset' = o
              /\ cy' = IF fit.offset = o THEN fit.cy ELSE VMove(fit.cy, d, FALSE)
    /\ UNCHANGED <<listVars, rows, selVars>>

\* offset-middle
ScrollMiddle ==
    /\ Acts
    /\ Constrain(cy, offset, Count, rows, rows)
    /\ UNCHANGED <<listVars, rows, selVars>>

\* A click on a row of the list.
Click ==
    /\ Acts
    /\ \E line \in 0 .. rows - 1 :
          /\ offset + line \in 0 .. Count - 1
          /\ cy' = VSet(offset + line)
    /\ UNCHANGED <<listVars, offset, rows, selVars>>

IsSelected(y) == merger[y + 1] \in DOMAIN selected

\* next-selected, prev-selected: the nearest selected item in one direction.
NextSelected ==
    /\ Acts
    /\ selected # NoneSelected
    /\ \E d \in {-1, 1} :
          LET At(i) == (cy + d * i + Count) % Count
              hits  == {i \in 1 .. Count - 1 : IsSelected(At(i))}
          IN  cy' = IF hits = {} THEN cy
                    ELSE At(CHOOSE i \in hits : \A j \in hits : i <= j)
    /\ UNCHANGED <<listVars, offset, rows, selVars>>

-----------------------------------------------------------------------------
(* The selection: the key is the ordinal of the item, so an item of another *)
(* list with the same ordinal counts as selected.                           *)

\* Positions in the result: where an item is, and how many of ks come before k.
PositionOf(i) == CHOOSE k \in DOMAIN merger : merger[k] = i
Rank(ks, k) == Cardinality({j \in ks : j < k})

\* The first of the positions ks that fit in the limit besides base.
Picks(base, ks) == {k \in ks : Rank(ks, k) < multi - Cardinality(DOMAIN base)}

\* Mutant: numbered by the size of the selection.
PickRenumbers(base, ks) ==
    LET new == Picks(base, ks)
    IN  /\ select_seq + Cardinality(new) <= MaxPicks
        /\ select_seq' = select_seq + Cardinality(new)
        /\ selected' = [i \in DOMAIN base \cup {merger[k] : k \in new} |->
                           IF i \in DOMAIN base THEN base[i]
                           ELSE [seq |-> Cardinality(DOMAIN base) + 1 + Rank(ks, PositionOf(i)),
                                 gen |-> merger_gen]]

\* base and the items that fit, numbered in the order of the list.
Pick(base, ks) ==
    LET new == Picks(base, ks)
    IN  /\ select_seq + Cardinality(new) <= MaxPicks
        /\ select_seq' = select_seq + Cardinality(new)
        /\ selected' = [i \in DOMAIN base \cup {merger[k] : k \in new} |->
                           IF i \in DOMAIN base THEN base[i]
                           ELSE [seq |-> select_seq + 1 + Rank(ks, PositionOf(i)),
                                 gen |-> merger_gen]]

Without(items) == Restrict(selected, DOMAIN selected \ items)
Unselected(items) == {k \in DOMAIN merger : merger[k] \notin items}
Drop(items) == selected' = Without(items) /\ UNCHANGED select_seq

Current == merger[cy + 1]
ToggleCurrent ==
    IF Current \in DOMAIN selected THEN Drop({Current}) ELSE Pick(selected, {cy + 1})

\* toggle() does something: the limit may forbid it.
Toggles == Current \in DOMAIN selected \/ Cardinality(DOMAIN selected) < multi

\* toggle, toggle-up, toggle-down
Toggle ==
    /\ Acts
    /\ multi > 0 /\ Count > 0 /\ Toggles
    /\ ToggleCurrent
    /\ \E d \in {-1, 0, 1} : cy' = IF d = 0 THEN cy ELSE VMove(cy, d, TRUE)
    /\ UNCHANGED <<listVars, offset, rows, multi>>

\* select
Select ==
    /\ Acts
    /\ multi > 0 /\ Count > 0 /\ Current \notin DOMAIN selected
    /\ Pick(selected, {cy + 1})
    /\ UNCHANGED <<listVars, windowVars, multi>>

\* deselect
Deselect ==
    /\ Acts
    /\ multi > 0 /\ Count > 0 /\ Current \in DOMAIN selected
    /\ Drop({Current})
    /\ UNCHANGED <<listVars, windowVars, multi>>

\* select-all
SelectAll ==
    /\ Acts
    /\ multi > 0
    /\ Pick(selected, Unselected(DOMAIN selected))
    /\ UNCHANGED <<listVars, windowVars, multi>>

\* deselect-all: the items listed, the others stay selected.
DeselectAll ==
    /\ Acts
    /\ multi > 0
    /\ Drop(Range(merger))
    /\ UNCHANGED <<listVars, windowVars, multi>>

\* toggle-all
ToggleAll ==
    /\ Acts
    /\ multi > 0
    /\ Pick(Without(Range(merger)), Unselected(DOMAIN selected))
    /\ UNCHANGED <<listVars, windowVars, multi>>

\* clear-selection
ClearSelection ==
    /\ Acts
    /\ multi > 0
    /\ Drop(DOMAIN selected)
    /\ UNCHANGED <<listVars, windowVars, multi>>

\* change-multi
ChangeMulti ==
    /\ Acts
    /\ multi' \in Multis
    /\ Drop(IF multi > 0 /\ multi' # multi THEN DOMAIN selected ELSE {})
    /\ UNCHANGED <<listVars, windowVars>>

-----------------------------------------------------------------------------
(* What changes the list and the window. *)

\* install_merger(): the result of the list on display, or of one before it
\* if its search was the last to end before the reload.
Install ==
    /\ Acts
    /\ merger' \in Lists
    /\ merger_gen' \in merger_gen .. gen
    /\ Constrain(cy, offset, Len(merger'), rows, ScrollOff)
    /\ UNCHANGED <<gen, rows, selVars>>

\* reload (start_reload()), or the end of a reload-sync
\* (on_reader_progress()).  The old result stays until Install.
NewList ==
    /\ Acts
    /\ gen < MaxGen
    /\ gen' = gen + 1
    /\ cy' = 0 /\ offset' = 0
    /\ Drop(DOMAIN selected)
    /\ UNCHANGED <<merger, merger_gen, rows, multi>>

\* An action that computes the layout at once, as toggle-preview does.
Relayout ==
    /\ Acts
    /\ rows' \in 0 .. MaxRows
    /\ UNCHANGED <<listVars, cy, offset, selVars>>

\* Mutant: constrain() before the layout.
RepaintOldRows ==
    /\ batch' = 0
    /\ rows' \in 0 .. MaxRows
    /\ Constrain(cy, offset, Count, rows, ScrollOff)
    /\ UNCHANGED <<listVars, selVars>>

\* repaint(): the layout of the terminal as it is now, constrain(), the frame.
Repaint ==
    /\ batch' = 0
    /\ rows' \in 0 .. MaxRows
    /\ Constrain(cy, offset, Count, rows', ScrollOff)
    /\ UNCHANGED <<listVars, selVars>>

Init ==
    /\ merger = <<>> /\ merger_gen = 0 /\ gen = 0
    /\ cy = 0 /\ offset = 0 /\ rows \in 0 .. MaxRows
    /\ multi \in Multis
    /\ selected = NoneSelected /\ select_seq = 0
    /\ batch = 0

CursorAction == Step \/ Page \/ Jump \/ ScrollLine \/ ScrollMiddle \/ Click \/ NextSelected
SelectAction == Toggle \/ Select \/ Deselect \/ SelectAll \/ DeselectAll \/ ToggleAll
                   \/ ClearSelection \/ ChangeMulti
Next == CursorAction \/ SelectAction \/ Install \/ NewList \/ Relayout \/ Repaint

Spec == Init /\ [][Next]_vars

-----------------------------------------------------------------------------
(* Properties. *)

\* The state is of its type.  The cursor is on an item of the list whatever was
\* installed under it: the actions index the result by cy_.  The cursor may leave
\* the window, and the window the list, between two repaints.
ListTypeOK ==
    /\ merger \in Lists /\ gen \in Gen /\ merger_gen \in 0 .. gen
    /\ cy \in 0 .. Max2(Count - 1, 0) /\ offset \in Int /\ rows \in 0 .. MaxRows
    /\ multi \in Multis
    /\ DOMAIN selected \subseteq Items
    /\ \A i \in DOMAIN selected : selected[i] \in Selected
    /\ select_seq \in 0 .. MaxPicks
    /\ batch \in 0 .. MaxBatch

\* A painted frame shows the cursor, and has no empty row while items are left
\* to show (constrain() of repaint()): whatever the actions did, whichever of the
\* list and the window became shorter or longer since the frame before.
CursorVisible == rows > 0 => cy \in offset .. offset + rows - 1
NoBlankRows == offset \in 0 .. Max2(Count - rows, 0)
FrameFits == batch = 0 => CursorVisible /\ NoBlankRows

\* A painted frame keeps --scroll-off lines between the cursor and each edge,
\* but at the ends of the list.
ScrollOffKept ==
    LET m == Margin(rows, ScrollOff)
    IN  batch = 0 /\ 2 * m < rows =>
            /\ Before(cy, offset) >= m \/ offset = 0
            /\ After(cy, offset, rows) >= m \/ offset = Max2(Count - rows, 0)

\* What repaint() promises of a frame, whatever happened since the one before.
FrameIsArranged == FrameFits /\ ScrollOffKept

\* constrain() has nothing to do in the window it left: the next repaint of an
\* unchanged list does not scroll, and the code's outer loop ends in its
\* second round, or at its bound of max_lines with nothing left to do.
RepaintIsStable ==
    batch = 0 => Constrained(cy, offset, Count, rows, ScrollOff) = [cy |-> cy, offset |-> offset]

\* At most multi_ items are selected, however the limit changes under them.
WithinLimit == Cardinality(DOMAIN selected) <= multi

\* sorted_selected() lists the items in the order in which they were picked:
\* an item that stays selected keeps its number, and a new one comes after
\* those that stay, even when others were deselected in between.
PickedInOrder ==
    [][\A i \in DOMAIN selected' :
          IF i \in DOMAIN selected THEN selected'[i] = selected[i]
          ELSE \A j \in DOMAIN selected : selected'[i].seq > selected[j].seq]_vars

\* What the actions on the selection promise, one after another in any order,
\* with change-multi among them: what accept prints is never more than allowed,
\* and in the order in which it was picked.
SelectionKept == []WithinLimit /\ PickedInOrder

=============================================================================
