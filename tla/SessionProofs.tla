--------------------------- MODULE SessionProofs ---------------------------
(***************************************************************************)
(* Theorems about the main loop: for every keymap, every number of items,  *)
(* lists and queries, what it shows when it rests, what it shows of a list *)
(* that is loaded, and what a key sees.                                    *)
(***************************************************************************)
EXTENDS Session, TLAPS

-----------------------------------------------------------------------------
(* The inductive invariant. *)

TypeOK ==
    /\ gen \in Gen
    /\ count \in [Gen -> 0 .. MaxItems] /\ finished \in [Gen -> BOOLEAN] /\ failed \in BOOLEAN
    /\ rpc \in {"feed", "reap", "wake", "write", "done"}
    /\ wake_pending \in BOOLEAN /\ pipe \in BOOLEAN /\ has_req \in BOOLEAN
    /\ wpc \in {"wait", "scan", "wake"}
    /\ req \in Search /\ r \in Search /\ result \in {{}} \cup {{m} : m \in Search}
    /\ keymap \in [Events -> BoundActions]
    /\ upc \in {"boot", "boot_search", "boot_count", "boot_finished", "end", "focus", "select",
                "drain", "ack", "progress", "progress_finished", "take", "keys", "exit"}
    /\ batch \in Seq(Keys) /\ batches \in 0 .. MaxBatches /\ c \in 0 .. MaxItems
    /\ ui \in UI

\* A search is of a list that was made, and of no more than the list has; of a
\* list made by reload-sync, it is of the whole list.
Known(s) ==
    /\ s.gen <= gen
    /\ s.count <= count[s.gen]
    /\ s.gen \in ui.sync_gens => finished[s.gen] /\ s.count = count[s.gen]

\* The lists.
ListInv ==
    /\ ui.display <= gen
    /\ ui.display \in ui.sync_gens => finished[ui.display]
    /\ \A g \in ui.sync_gens : 1 < g /\ g <= gen
    /\ rpc = "feed" => ~finished[gen]
    /\ Known(req) /\ Known(r) /\ Known(ui.merger) /\ \A m \in result : Known(m)
    /\ ui.new_command # "none" => gen < MaxGen
    /\ upc = "progress_finished" => ui.display = gen /\ c <= count[gen]
    /\ ui.last_item_count <= count[ui.display]

Flag(b) == IF b THEN 1 ELSE 0

\* The load event.
LoadInv ==
    keymap["focus"] \notin {"reload", "reload_sync"} =>
        /\ ui.loads + Flag(ui.trigger_load) + Flag(ui.reading /\ ui.new_command = "none") <= gen
        /\ upc \in {"boot", "boot_search", "boot_count", "boot_finished", "select", "drain", "ack",
                    "progress", "progress_finished", "focus"} => ui.new_command = "none"
        /\ upc \in {"boot", "boot_search", "boot_count", "boot_finished"} =>
              ui.loads = 0 /\ ~ui.trigger_load

\* The keys of one read.
KeyInv ==
    /\ ui.pending_change => upc \in {"keys", "end"} /\ ui.changed
    /\ upc \in {"drain", "ack", "progress", "progress_finished", "take"} => ~ui.edited
    /\ (upc = "keys" /\ ui.edited /\ ~ui.pending_change /\ ~ui.lapse /\ ui.last_item_count # NoCount) =>
          ui.merger.query = ui.query

\* A byte in the pipe, or one that is about to be written, stands for every wake
\* that was not acknowledged.
WakeInv == wake_pending => pipe \/ upc = "ack" \/ rpc = "write"

\* The newest search.
Latest == IF ui.synced THEN ui.merger ELSE req

Booting == upc \in {"boot", "boot_search"}

\* It is of the query and of the list on display, unless that list was just shown.
QueryInv ==
    /\ upc = "boot_count" => ~ui.lapse /\ ~ui.synced
    /\ (~ui.lapse /\ ~Booting /\ ~ui.pending_change) =>
          /\ Latest.query = ui.query
          /\ \/ Latest.gen = ui.display
             \/ upc = "progress_finished" /\ ui.last_item_count = NoCount /\ finished[ui.display]

\* Items it lacks are on their way to the main loop, or wait for the throttle.
NewsComing ==
    \/ rpc \in {"wake", "write"} \/ pipe \/ upc \in {"drain", "ack", "progress"}
    \/ upc = "progress_finished" /\ c # ui.last_item_count

CountInv ==
    /\ (upc = "progress_finished" /\ c # count[gen]) => rpc \in {"wake", "write"} \/ pipe
    /\ (~ui.lapse /\ ~Booting /\ upc # "boot_count" /\ ~ui.request_pending /\ Latest.gen = ui.display) =>
          /\ ui.last_item_count <= Latest.count
          /\ count[ui.display] = Latest.count \/ (ui.display = gen /\ NewsComing)

\* Unless it was made on the main thread, it is in the slot, with the worker, in
\* result_ with a byte on its way, or installed.
ChainInv ==
    ~ui.synced =>
        \/ has_req
        \/ wpc = "scan" /\ r = req
        \/ /\ wpc # "scan"
           /\ \/ result = {req}
              \/ result = {} /\ ui.merger = req
           /\ wpc = "wake" => r = req
           /\ result # {} => wpc = "wake" \/ pipe
                               \/ upc \in {"drain", "ack", "progress", "progress_finished", "take"}

IInv == TypeOK /\ ListInv /\ KeyInv /\ WakeInv /\ QueryInv /\ CountInv /\ ChainInv /\ LoadInv

-----------------------------------------------------------------------------
(* What actions and events do to the terminal's own state. *)

\* What they never touch.
Acted(u, v) ==
    /\ v.display = u.display /\ v.last_item_count = u.last_item_count
    /\ v.last_finished = u.last_finished /\ v.first_tick = u.first_tick
    /\ v.request_pending = u.request_pending /\ v.deadline_passed = u.deadline_passed
    /\ v.changed = u.changed /\ v.pending_change = u.pending_change
    /\ v.edited = u.edited /\ v.synced = u.synced /\ v.sync_gens = u.sync_gens
    /\ v.new_command # "none" => u.new_command # "none" \/ gen < MaxGen
    /\ (v.reading /\ v.new_command = "none") => (u.reading /\ u.new_command = "none")

Same(u, v) == v.merger = u.merger /\ v.trigger_load = u.trigger_load

LEMMA SizeType ==
    ASSUME NEW s \in Search
    PROVE  Size(s) \in 0 .. MaxItems
BY SessionAssumption DEF Size, Search

LEMMA DoIs ==
    ASSUME NEW u \in UI, NEW a \in BoundActions \cup Keys
    PROVE  /\ Do(u, a) \in UI
           /\ Acted(u, Do(u, a)) /\ Same(u, Do(u, a))
           /\ Do(u, a).lapse = u.lapse /\ Do(u, a).loads = u.loads
           /\ Do(u, a).last_focus = u.last_focus
           /\ a \notin {"reload", "reload_sync"} => Do(u, a).new_command = u.new_command
<1> DEFINE v == Do(u, a)
<1>1. CASE a = "edit" /\ u.query < MaxEdits
  <2>1. v = [u EXCEPT !.query = @ + 1]
    BY <1>1 DEF Do
  <2>2. u.query + 1 \in Query
    BY <1>1, SessionAssumption DEF UI, Query
  <2>3. v \in UI
    BY <2>1, <2>2 DEF UI
  <2> HIDE DEF v
  <2> QED BY <2>1, <2>3, <1>1 DEF UI, Acted, Same, v
<1>2. CASE a = "move" /\ u.cy + 1 < Size(u.merger)
  <2>1. v = [u EXCEPT !.cy = @ + 1]
    BY <1>2 DEF Do
  <2>2. u.cy + 1 \in 0 .. MaxItems
    <3>1. u.merger \in Search /\ u.cy \in 0 .. MaxItems /\ MaxItems \in Nat
      BY SessionAssumption DEF UI
    <3>2. Size(u.merger) \in 0 .. MaxItems
      BY <3>1, SizeType
    <3> QED BY <1>2, <3>1, <3>2
  <2>3. v \in UI
    BY <2>1, <2>2 DEF UI
  <2> QED BY <2>1, <2>3, <1>2 DEF UI, Acted, Same
<1>3. CASE a \in {"reload", "reload_sync"} /\ gen < MaxGen
  <2>1. v = [u EXCEPT !.new_command = a, !.reading = TRUE, !.failed_command = FALSE]
    BY <1>3 DEF Do
  <2>3. v \in UI
    BY <2>1, <1>3 DEF UI
  <2> QED BY <2>1, <2>3, <1>3 DEF UI, Acted, Same
<1>4. CASE a = "accept"
  <2>1. v = [u EXCEPT !.exit = TRUE]
    BY <1>4 DEF Do
  <2>3. v \in UI
    BY <2>1 DEF UI
  <2> QED BY <2>1, <2>3, <1>4 DEF UI, Acted, Same
<1>5. CASE /\ ~(a = "edit" /\ u.query < MaxEdits)
           /\ ~(a = "move" /\ u.cy + 1 < Size(u.merger))
           /\ ~(a \in {"reload", "reload_sync"} /\ gen < MaxGen)
           /\ a # "accept"
  <2>1. v = u
    BY <1>5 DEF Do
  <2> QED BY <2>1 DEF Acted, Same
<1> QED BY <1>1, <1>2, <1>3, <1>4, <1>5

LEMMA ActedOn ==
    ASSUME NEW u \in UI, NEW v \in UI, NEW w \in UI, Acted(u, v), Acted(v, w)
    PROVE  Acted(u, w)
BY DEF Acted

LEMMA IndexType ==
    ASSUME NEW u \in UI
    PROVE  Index(u) \in -1 .. MaxItems
<1>1. u.merger \in Search /\ u.cy \in 0 .. MaxItems /\ MaxItems \in Nat
  BY SessionAssumption DEF UI
<1>2. Size(u.merger) \in 0 .. MaxItems
  BY <1>1, SizeType
<1> QED BY <1>1, <1>2 DEF Index

LEMMA DoActionsIs ==
    ASSUME keymap \in [Events -> BoundActions], NEW u \in UI, NEW a \in BoundActions \cup Keys
    PROVE  /\ DoActions(u, a) \in UI
           /\ Acted(u, DoActions(u, a)) /\ Same(u, DoActions(u, a))
           /\ DoActions(u, a).lapse = u.lapse /\ DoActions(u, a).loads = u.loads
           /\ a \notin {"reload", "reload_sync"} /\ keymap["focus"] \notin {"reload", "reload_sync"}
                 => DoActions(u, a).new_command = u.new_command
<1> DEFINE v == Do(u, a)
           x == [v EXCEPT !.last_focus = Index(v)]
           f == keymap["focus"]
           w == Do(x, f)
<1>1. /\ v \in UI /\ Acted(u, v) /\ Same(u, v) /\ v.lapse = u.lapse /\ v.loads = u.loads
      /\ a \notin {"reload", "reload_sync"} => v.new_command = u.new_command
  BY DoIs
<1>2. f \in BoundActions \cup Keys
  BY DEF Events
<1> HIDE DEF v, f
<1>3. x \in UI /\ Acted(v, x) /\ Same(v, x) /\ x.lapse = v.lapse /\ x.loads = v.loads
      /\ x.new_command = v.new_command
  <2>1. Index(v) \in -1 .. MaxItems
    BY <1>1, IndexType
  <2>2. x \in UI
    BY <1>1, <2>1 DEF UI
  <2> QED BY <1>1, <2>2 DEF UI, Acted, Same
<1> HIDE DEF x
<1>4. /\ w \in UI /\ Acted(x, w) /\ Same(x, w) /\ w.lapse = x.lapse /\ w.loads = x.loads
      /\ f \notin {"reload", "reload_sync"} => w.new_command = x.new_command
  BY <1>2, <1>3, DoIs
<1> HIDE DEF w
<1>5. Acted(u, w)
  BY <1>1, <1>3, <1>4, ActedOn
<1>6. Same(u, w) /\ w.lapse = u.lapse /\ w.loads = u.loads
  BY <1>1, <1>3, <1>4 DEF Same
<1>7. DoActions(u, a) = IF f # "none" /\ ~v.exit /\ Index(v) # Index(u) THEN w ELSE v
  BY DEF DoActions, v, f, w, x
<1> QED BY <1>1, <1>3, <1>4, <1>5, <1>6, <1>7 DEF f

LEMMA FireIs ==
    ASSUME keymap \in [Events -> BoundActions], NEW u \in UI, NEW e \in Events
    PROVE  /\ Fire(u, e) \in UI
           /\ Acted(u, Fire(u, e)) /\ Same(u, Fire(u, e))
           /\ ~Fire(u, e).lapse => ~u.lapse /\ Fire(u, e).query = u.query
           /\ Fire(u, e).loads = u.loads \/ (e = "load" /\ Fire(u, e).loads = u.loads + 1)
           /\ keymap[e] \notin {"reload", "reload_sync"} /\ keymap["focus"] \notin {"reload", "reload_sync"}
                 => Fire(u, e).new_command = u.new_command
<1>1. CASE keymap[e] = "none" \/ u.exit
  <2>1. Fire(u, e) = u
    BY <1>1 DEF Fire
  <2> QED BY <2>1 DEF Acted, Same
<1>2. CASE ~(keymap[e] = "none" \/ u.exit)
  <2> DEFINE v == DoActions(u, keymap[e])
             w == [v EXCEPT !.lapse = u.lapse \/ v.query # u.query,
                            !.loads = u.loads + (IF e = "load" THEN 1 ELSE 0)]
  <2>1. Fire(u, e) = w
    BY <1>2 DEF Fire
  <2>2. /\ v \in UI /\ Acted(u, v) /\ Same(u, v)
        /\ keymap[e] \notin {"reload", "reload_sync"} /\ keymap["focus"] \notin {"reload", "reload_sync"}
              => v.new_command = u.new_command
    <3>1. keymap[e] \in BoundActions \cup Keys
      OBVIOUS
    <3> QED BY <3>1, DoActionsIs
  <2> HIDE DEF v
  <2>3a. PICK p \in BOOLEAN : p = (u.lapse \/ v.query # u.query)
    OBVIOUS
  <2>3b. u.loads \in Nat
    BY DEF UI
  <2>3. PICK n \in Nat : n = u.loads + (IF e = "load" THEN 1 ELSE 0)
    BY <2>3b
  <2>4. w = [v EXCEPT !.lapse = p, !.loads = n]
    BY <2>3, <2>3a
  <2>4a. w \in UI
    <3>1. [v EXCEPT !.lapse = p, !.loads = n] \in UI
      BY <2>2 DEF UI
    <3> QED BY <2>4, <3>1
  <2>5. /\ w.lapse = (u.lapse \/ v.query # u.query) /\ w.query = v.query
        /\ w.loads = u.loads + (IF e = "load" THEN 1 ELSE 0) /\ w.new_command = v.new_command
        /\ Acted(v, w) /\ Same(v, w)
    <3> DEFINE x == [v EXCEPT !.lapse = p, !.loads = n]
    <3>1. /\ x.lapse = p /\ x.query = v.query /\ x.loads = n /\ x.new_command = v.new_command
          /\ Acted(v, x) /\ Same(v, x)
      BY <2>2 DEF UI, Acted, Same
    <3>2. w = x
      BY <2>4
    <3> HIDE DEF x, w
    <3> QED BY <2>3, <2>3a, <3>1, <3>2
  <2> HIDE DEF w
  <2>6. Acted(u, w)
    BY <2>2, <2>4a, <2>5, ActedOn
  <2>7. Same(u, w)
    BY <2>2, <2>5 DEF Same
  <2>8. w.loads = u.loads \/ (e = "load" /\ w.loads = u.loads + 1)
    BY <2>5 DEF UI
  <2>9. ~w.lapse => ~u.lapse /\ w.query = u.query
    BY <2>5
  <2> QED BY <2>1, <2>2, <2>4a, <2>5, <2>6, <2>7, <2>8, <2>9
<1> QED BY <1>1, <1>2

\* A result that is installed: the load event is fired if it was owed.
LEMMA InstallIs ==
    ASSUME keymap \in [Events -> BoundActions], NEW u \in UI, NEW m \in Search
    PROVE  /\ Install(u, m) \in UI
           /\ Acted(u, Install(u, m)) /\ Install(u, m).merger = m
           /\ ~Install(u, m).lapse => ~u.lapse /\ Install(u, m).query = u.query
           /\ ~Install(u, m).trigger_load
           /\ Install(u, m).loads <= u.loads + Flag(u.trigger_load)
<1> DEFINE u1 == [u EXCEPT !.merger = m, !.cy = Clamp(@, Size(m))]
           x  == [u1 EXCEPT !.trigger_load = FALSE]
           u2 == IF u1.trigger_load THEN Fire(x, "load") ELSE u1
           u3 == IF u2.reading THEN u2
                 ELSE IF Size(m) = 0 THEN Fire(u2, "zero")
                 ELSE IF Size(m) = 1 THEN Fire(u2, "one")
                 ELSE u2
           u4 == Fire(u3, "result")
           u5 == IF u4.reading THEN u4 ELSE Fire(u4, "result_final")
           Quiet(v, w) == /\ w \in UI /\ Acted(v, w) /\ Same(v, w)
                          /\ ~w.lapse => ~v.lapse /\ w.query = v.query
                          /\ w.loads = v.loads
<1>0. Install(u, m) = u5
  BY DEF Install
<1>q. \A v \in UI : Quiet(v, v)
  BY DEF Acted, Same
<1>f. ASSUME NEW v \in UI, NEW e \in Events, e # "load" PROVE Quiet(v, Fire(v, e))
  BY <1>f, FireIs
<1>e. {"load", "zero", "one", "result", "result_final"} \subseteq Events
  BY DEF Events
<1>1. /\ u1 \in UI /\ Acted(u, u1) /\ u1.merger = m /\ u1.trigger_load = u.trigger_load
      /\ u1.lapse = u.lapse /\ u1.query = u.query /\ u1.loads = u.loads
  <2>1. Size(m) \in 0 .. MaxItems /\ u.cy \in 0 .. MaxItems
    BY SizeType DEF UI
  <2>2. Clamp(u.cy, Size(m)) \in 0 .. MaxItems
    BY <2>1, SessionAssumption DEF Clamp
  <2>3. u1 \in UI
    BY <2>2 DEF UI
  <2> QED BY <2>3 DEF UI, Acted
<1> HIDE DEF u1
<1>x. /\ x \in UI /\ Acted(u1, x) /\ x.merger = m /\ ~x.trigger_load
      /\ x.lapse = u1.lapse /\ x.query = u1.query /\ x.loads = u1.loads
  BY <1>1 DEF UI, Acted
<1> HIDE DEF x
<1>2. /\ u2 \in UI /\ Acted(u, u2) /\ u2.merger = m /\ ~u2.trigger_load
      /\ ~u2.lapse => ~u.lapse /\ u2.query = u.query
      /\ u2.loads <= u.loads + Flag(u.trigger_load)
  <2>1. CASE u1.trigger_load
    <3> DEFINE w == Fire(x, "load")
    <3>1a. ~w.lapse => ~x.lapse /\ w.query = x.query
      BY <1>x, <1>e, FireIs
    <3>1b. w.loads = x.loads \/ w.loads = x.loads + 1
      BY <1>x, <1>e, FireIs
    <3>1c. w \in UI /\ Acted(x, w) /\ Same(x, w)
      BY <1>x, <1>e, FireIs
    <3> HIDE DEF w
    <3>2. Acted(u1, w)
      BY <1>1, <1>x, <3>1c, ActedOn
    <3>3. Acted(u, w)
      BY <1>1, <3>1c, <3>2, ActedOn
    <3>4. w.loads <= u.loads + Flag(u.trigger_load)
      <4>1. Flag(u.trigger_load) = 1 /\ u.loads \in Nat
        BY <1>1, <2>1 DEF Flag, UI
      <4> QED BY <1>1, <1>x, <3>1b, <4>1
    <3>5. u2 = w
      BY <2>1 DEF w
    <3>6. w.merger = m /\ ~w.trigger_load
      BY <1>x, <3>1c DEF Same
    <3>7. ~w.lapse => ~u.lapse /\ w.query = u.query
      BY <1>1, <1>x, <3>1a
    <3> HIDE DEF u2
    <3> QED BY <3>1c, <3>3, <3>4, <3>5, <3>6, <3>7
  <2>2. CASE ~u1.trigger_load
    <3>1. u.loads <= u.loads + Flag(u.trigger_load)
      BY DEF UI, Flag
    <3> QED BY <1>1, <2>2, <3>1
  <2> QED BY <2>1, <2>2
<1> HIDE DEF u2
<1>3. u3 \in UI /\ Quiet(u2, u3)
  <2>1. u3 \in {u2, Fire(u2, "zero"), Fire(u2, "one")}
    OBVIOUS
  <2> HIDE DEF u3
  <2>2. Quiet(u2, Fire(u2, "zero")) /\ Quiet(u2, Fire(u2, "one")) /\ Quiet(u2, u2)
    BY <1>2, <1>e, <1>f, <1>q
  <2>3. u3 \in UI
    BY <1>2, <2>1, <2>2
  <2>4. Quiet(u2, u3)
    <3> HIDE DEF Quiet
    <3> QED BY <2>1, <2>2
  <2> QED BY <2>3, <2>4
<1> HIDE DEF u3
<1>4. u4 \in UI /\ Quiet(u3, u4)
  BY <1>3, <1>e, <1>f
<1> HIDE DEF u4
<1>5. u5 \in UI /\ Quiet(u4, u5)
  <2>1. Quiet(u4, Fire(u4, "result_final")) /\ Quiet(u4, u4)
    BY <1>4, <1>e, <1>f, <1>q
  <2>2. u5 \in {u4, Fire(u4, "result_final")}
    OBVIOUS
  <2> HIDE DEF u5
  <2>3. u5 \in UI
    BY <1>4, <2>1, <2>2
  <2>4. Quiet(u4, u5)
    <3> HIDE DEF Quiet
    <3> QED BY <2>1, <2>2
  <2> QED BY <2>3, <2>4
<1> HIDE DEF u5
<1>6. Acted(u, u5)
  <2>1. Acted(u, u3)
    BY <1>2, <1>3, ActedOn
  <2>2. Acted(u, u4)
    BY <1>3, <1>4, <2>1, ActedOn
  <2> QED BY <1>4, <1>5, <2>2, ActedOn
<1>7. u5.merger = m /\ ~u5.trigger_load /\ u5.loads = u2.loads
  BY <1>2, <1>3, <1>4, <1>5 DEF Same
<1>8. ~u5.lapse => ~u.lapse /\ u5.query = u.query
  BY <1>2, <1>3, <1>4, <1>5
<1> QED BY <1>0, <1>2, <1>5, <1>6, <1>7, <1>8

-----------------------------------------------------------------------------
(* Every step preserves the invariant. *)

\* What the types say, as the proofs below use it.
Typed ==
    /\ gen \in Gen /\ MaxItems \in Nat /\ MaxGen \in Nat /\ Gen \subseteq Nat
    /\ count \in [Gen -> 0 .. MaxItems] /\ finished \in [Gen -> BOOLEAN]
    /\ \A g \in Gen : count[g] \in NoCount .. MaxItems /\ count[g] \in Nat
    /\ ui.display \in Gen /\ ui.sync_gens \subseteq Gen /\ ui.merger \in Search
    /\ c \in 0 .. MaxItems /\ ui.last_item_count \in NoCount .. MaxItems
    /\ req.gen \in Gen /\ r.gen \in Gen /\ ui.merger.gen \in Gen
    /\ req.count \in 0 .. MaxItems /\ r.count \in 0 .. MaxItems /\ ui.merger.count \in 0 .. MaxItems
    /\ \A m \in result : m \in Search /\ m.gen \in Gen /\ m.count \in 0 .. MaxItems

LEMMA TypeFacts ==
    TypeOK => Typed
<1> SUFFICES ASSUME TypeOK PROVE Typed
  OBVIOUS
<1>1. ui \in UI /\ req \in Search /\ r \in Search /\ result \in {{}} \cup {{m} : m \in Search}
  BY DEF TypeOK
<1>2. /\ ui.display \in Gen /\ ui.sync_gens \subseteq Gen /\ ui.merger \in Search
      /\ ui.last_item_count \in NoCount .. MaxItems
  BY <1>1 DEF UI
<1>3. \A m \in Search : m.gen \in Gen /\ m.count \in 0 .. MaxItems
  BY DEF Search
<1>4. \A m \in result : m \in Search
  BY <1>1
<1>5. MaxItems \in Nat /\ MaxGen \in Nat /\ Gen \subseteq Nat
  BY SessionAssumption DEF Gen
<1>6. gen \in Gen /\ count \in [Gen -> 0 .. MaxItems] /\ finished \in [Gen -> BOOLEAN] /\ c \in 0 .. MaxItems
  BY DEF TypeOK
<1>7. \A g \in Gen : count[g] \in NoCount .. MaxItems /\ count[g] \in Nat
  BY <1>5, <1>6 DEF NoCount
<1> QED BY <1>1, <1>2, <1>3, <1>4, <1>5, <1>6, <1>7 DEF Typed

LEMMA InitIInv ==
    Init => IInv
<1> SUFFICES ASSUME Init PROVE IInv
  OBVIOUS
<1>1. Empty \in Search
  BY SessionAssumption DEF Empty, Search, Gen, Query
<1>2. ui \in UI
  BY <1>1, SessionAssumption DEF Init, UI, Gen, Query, NoCount
<1>3. TypeOK
  <2>1. <<>> \in Seq(Keys) /\ 0 \in 0 .. MaxItems /\ 0 \in 0 .. MaxBatches /\ 1 \in Gen
    BY SessionAssumption DEF Gen
  <2>2. finished \in [Gen -> BOOLEAN]
    BY SessionAssumption DEF Init
  <2>3. keymap \in [Events -> BoundActions]
    BY SessionAssumption DEF Init
  <2> QED BY <1>1, <1>2, <2>1, <2>2, <2>3, SessionAssumption DEF Init, TypeOK
<1>4. ListInv
  BY <1>1, SessionAssumption DEF Init, ListInv, Known, Gen, Empty, NoCount
<1>5. KeyInv /\ WakeInv
  BY DEF Init, KeyInv, WakeInv
<1>6. QueryInv /\ CountInv
  BY DEF Init, QueryInv, CountInv, Booting
<1>7. ChainInv
  BY DEF Init, ChainInv
<1>8. LoadInv
  BY DEF Init, LoadInv, Flag
<1> QED BY <1>3, <1>4, <1>5, <1>6, <1>7, <1>8 DEF IInv

\* The reader thread never touches the terminal's state.
LEMMA ReaderStep ==
    IInv /\ Reader => IInv'
<1> SUFFICES ASSUME IInv, Reader PROVE IInv'
  OBVIOUS
<1>u. UNCHANGED <<gen, req, has_req, wpc, r, result, keymap, upc, batch, batches, c, ui>>
  BY DEF Reader, ReaderAppend, ReaderFinish, ReaderReap, ReaderWake, ReaderWrite, workerVars, ttyVars
<1>t. Typed
  BY TypeFacts DEF IInv
<1>k. KeyInv' /\ LoadInv'
  BY <1>u DEF IInv, KeyInv, LoadInv
<1>1. CASE ReaderAppend
  <2>1. UNCHANGED <<wake_pending, pipe, finished, failed>>
    BY <1>1 DEF ReaderAppend, Reader, ReaderWrite
  <2>2. count' = [count EXCEPT ![gen] = @ + 1] /\ count[gen] < MaxItems /\ rpc = "feed" /\ rpc' = "wake"
    BY <1>1 DEF ReaderAppend
  <2>3. count' \in [Gen -> 0 .. MaxItems]
    BY <1>t, <2>2 DEF Typed
  <2>4. TypeOK'
    BY <1>u, <2>1, <2>2, <2>3 DEF IInv, TypeOK
  <2>5. \A g \in Gen : count'[g] = IF g = gen THEN count[g] + 1 ELSE count[g]
    BY <1>t, <2>2 DEF Typed
  <2>6. ListInv'
    BY <1>t, <1>u, <2>1, <2>2, <2>5 DEF Typed, IInv, ListInv, Known
  <2>7. WakeInv' /\ QueryInv' /\ ChainInv'
    BY <1>u, <2>1, <2>2 DEF IInv, WakeInv, QueryInv, ChainInv, Latest, Booting
  <2>8. CountInv'
    BY <1>t, <1>u, <2>1, <2>2, <2>5 DEF Typed, IInv, CountInv, Latest, Booting, NewsComing
  <2> QED BY <1>k, <2>4, <2>6, <2>7, <2>8 DEF IInv
<1>2. CASE ReaderFinish
  <2>1. UNCHANGED <<wake_pending, pipe, count, failed>>
    BY <1>2 DEF ReaderFinish, Reader, ReaderWrite
  <2>2. finished' = [finished EXCEPT ![gen] = TRUE] /\ rpc = "feed" /\ rpc' = "reap"
    BY <1>2 DEF ReaderFinish
  <2>3. finished' \in [Gen -> BOOLEAN]
    BY <1>t, <2>2 DEF Typed
  <2>4. TypeOK'
    BY <1>u, <2>1, <2>2, <2>3 DEF IInv, TypeOK
  <2>5. \A g \in Gen : finished[g] => finished'[g]
    BY <1>t, <2>2 DEF Typed
  <2>6. ListInv'
    BY <1>t, <1>u, <2>1, <2>2, <2>5 DEF Typed, IInv, ListInv, Known
  <2>7. WakeInv' /\ QueryInv' /\ ChainInv'
    BY <1>t, <1>u, <2>1, <2>2, <2>5 DEF Typed, IInv, WakeInv, QueryInv, ChainInv, Latest, Booting
  <2>8. CountInv'
    BY <1>t, <1>u, <2>1, <2>2, <2>5 DEF Typed, IInv, CountInv, Latest, Booting, NewsComing
  <2> QED BY <1>k, <2>4, <2>6, <2>7, <2>8 DEF IInv
<1>3. CASE ReaderReap \/ ReaderWake \/ ReaderWrite
  <2>1. UNCHANGED <<count, finished>>
    BY <1>3 DEF ReaderReap, ReaderWake, ReaderWrite
  <2>2. TypeOK'
    BY <1>3, <1>u, <2>1 DEF Reader, ReaderAppend, ReaderFinish, ReaderReap, ReaderWake, ReaderWrite, AfterWake, IInv, TypeOK
  <2>3. rpc' = "feed" => ~finished[gen]
    BY <1>3 DEF ReaderReap, ReaderWake, ReaderWrite, AfterWake
  <2>4. ListInv'
    BY <1>u, <2>1, <2>3 DEF IInv, ListInv, Known
  <2>5. /\ pipe => pipe'
        /\ rpc \in {"wake", "write"} => rpc' \in {"wake", "write"} \/ pipe' \/ upc \in {"boot", "ack"}
        /\ WakeInv'
    BY <1>3, <1>u DEF Reader, ReaderAppend, ReaderFinish, ReaderReap, ReaderWake, ReaderWrite, AfterWake, IInv, WakeInv, TypeOK
  <2>6. QueryInv' /\ ChainInv'
    BY <1>u, <2>1, <2>5 DEF IInv, QueryInv, ChainInv, Latest, Booting
  <2>7. CountInv'
    BY <1>u, <2>1, <2>5 DEF IInv, CountInv, Latest, Booting, NewsComing
  <2> QED BY <1>k, <2>2, <2>4, <2>5, <2>6, <2>7 DEF IInv
<1> QED BY <1>1, <1>2, <1>3 DEF Reader

LEMMA WorkerStep ==
    IInv /\ Worker => IInv'
<1> SUFFICES ASSUME IInv, Worker PROVE IInv'
  OBVIOUS
<1>u. UNCHANGED <<gen, count, finished, failed, rpc, wake_pending, keymap, upc, batch, batches, c, ui, req>>
  BY DEF Worker, WorkerTake, WorkerDrop, WorkerPublish, WorkerWake, readerVars, ttyVars
<1>1. TypeOK'
  <2>1. has_req' \in BOOLEAN /\ pipe' \in BOOLEAN /\ wpc' \in {"wait", "scan", "wake"}
    BY DEF Worker, WorkerTake, WorkerDrop, WorkerPublish, WorkerWake, IInv, TypeOK
  <2>2. r' \in Search /\ result' \in {{}} \cup {{m} : m \in Search}
    BY DEF Worker, WorkerTake, WorkerDrop, WorkerPublish, WorkerWake, IInv, TypeOK
  <2> QED BY <1>u, <2>1, <2>2 DEF IInv, TypeOK
<1>2. ListInv'
  <2>1. r' \in {r, req} /\ \A m \in result' : m = r \/ m \in result
    BY DEF Worker, WorkerTake, WorkerDrop, WorkerPublish, WorkerWake
  <2> QED BY <1>u, <2>1 DEF IInv, ListInv, Known
<1>3. pipe => pipe'
  BY DEF Worker, WorkerTake, WorkerDrop, WorkerPublish, WorkerWake
<1>4. KeyInv' /\ LoadInv' /\ WakeInv' /\ QueryInv'
  BY <1>u, <1>3 DEF IInv, KeyInv, LoadInv, WakeInv, QueryInv, Latest, Booting
<1>5. CountInv'
  BY <1>u, <1>3 DEF IInv, CountInv, Latest, Booting, NewsComing
<1>6. ChainInv'
  BY <1>u DEF IInv, ChainInv, Worker, WorkerTake, WorkerDrop, WorkerPublish, WorkerWake
<1> QED BY <1>1, <1>2, <1>4, <1>5, <1>6 DEF IInv

LEMMA TimerStep ==
    IInv /\ Timer => IInv'
<1> SUFFICES ASSUME IInv, Timer PROVE IInv'
  OBVIOUS
<1>u. UNCHANGED <<gen, count, finished, failed, rpc, wake_pending, pipe, req, has_req, wpc, r, result,
                  keymap, upc, batch, batches, c>>
  BY DEF Timer, readerVars, ttyVars, workerVars
<1>1. ui \in UI /\ ui' = [ui EXCEPT !.deadline_passed = TRUE]
  BY DEF Timer, IInv, TypeOK
<1>2. ui' \in UI
  BY <1>1 DEF UI
<1>3. /\ Same(ui, ui')
      /\ UNCHANGED <<ui.display, ui.last_item_count, ui.request_pending, ui.changed, ui.pending_change,
                     ui.edited, ui.synced, ui.sync_gens, ui.new_command, ui.reading, ui.query, ui.lapse,
                     ui.loads>>
  BY <1>1 DEF UI, Same
<1>4. TypeOK'
  BY <1>u, <1>2 DEF IInv, TypeOK
<1>5. ListInv' /\ KeyInv' /\ LoadInv'
  BY <1>u, <1>3 DEF IInv, ListInv, Known, KeyInv, LoadInv, Same
<1>6. WakeInv' /\ QueryInv' /\ CountInv' /\ ChainInv'
  BY <1>u, <1>3 DEF IInv, WakeInv, QueryInv, CountInv, ChainInv, Latest, Booting, NewsComing, Same
<1> QED BY <1>4, <1>5, <1>6 DEF IInv

\* A search that was posted is the newest, of what is there now.
LEMMA Submits ==
    ASSUME NEW u \in UI
    PROVE  Submit(u) /\ UNCHANGED count /\ upc' # "progress_finished" /\ Typed /\ ListInv'
               => QueryInv' /\ CountInv' /\ ChainInv'
<1> SUFFICES ASSUME Submit(u), UNCHANGED count, upc' # "progress_finished", Typed, ListInv'
             PROVE  QueryInv' /\ CountInv' /\ ChainInv'
  OBVIOUS
<1>1. /\ has_req' = TRUE /\ req' = Now(u, count)
      /\ ui'.synced = FALSE /\ ui'.lapse = FALSE /\ ui'.display = u.display /\ ui'.query = u.query
  BY DEF Submit, Submitted, UI
<1>2. req'.query = u.query /\ req'.gen = u.display /\ req'.count = count[u.display]
  BY <1>1 DEF Now
<1>3. QueryInv'
  BY <1>1, <1>2 DEF QueryInv, Latest
<1>4. CountInv'
  BY <1>1, <1>2 DEF CountInv, Latest, ListInv
<1> QED BY <1>1, <1>3, <1>4 DEF ChainInv

LEMMA SubmittedIs ==
    ASSUME NEW u \in UI
    PROVE  /\ Submitted(u) \in UI /\ Now(u, count).gen = u.display
           /\ Now(u, count).count = count[u.display] /\ Now(u, count).query = u.query
           /\ Typed => Now(u, count) \in Search
           /\ Same(u, Submitted(u))
           /\ \A x \in {Submitted(u)} :
                /\ x.display = u.display /\ x.last_item_count = u.last_item_count
                /\ x.changed = u.changed /\ x.pending_change = u.pending_change
                /\ x.edited = u.edited /\ x.sync_gens = u.sync_gens
                /\ x.new_command = u.new_command /\ x.reading = u.reading /\ x.loads = u.loads
                /\ x.query = u.query /\ ~x.lapse /\ ~x.synced /\ ~x.request_pending
<1>1. Submitted(u) \in UI
  BY DEF Submitted, UI
<1>2. Typed => Now(u, count) \in Search
  BY DEF Typed, Now, Search, UI
<1> QED BY <1>1, <1>2 DEF Submitted, UI, Now, Same

\* What the main thread's steps that leave the lists and the slot alone share.
Calm == UNCHANGED <<gen, count, finished, failed, rpc, req, has_req, wpc, r, keymap, batches>>

Untouched == UNCHANGED <<ui.display, ui.merger, ui.sync_gens, ui.new_command, ui.loads, ui.trigger_load,
                         ui.request_pending, ui.changed, ui.pending_change, ui.synced, ui.query>>

\* The start-up.
LEMMA BootStep ==
    IInv /\ (Boot \/ BootCount) /\ UNCHANGED <<wpc, r, keymap>> => IInv'
<1> SUFFICES ASSUME IInv, Boot \/ BootCount, UNCHANGED <<wpc, r, keymap>> PROVE IInv'
  OBVIOUS
<1>u. Calm /\ UNCHANGED <<wake_pending, pipe, result, batch, c>>
  BY DEF Boot, BootCount, Calm, readerVars, ttyVars, searchSlot
<1>t. Typed /\ ui \in UI
  BY TypeFacts DEF IInv, TypeOK
<1>1. CASE Boot
  <2>1. upc = "boot" /\ upc' = "boot_search" /\ ui' = [ui EXCEPT !.reading = ~finished[gen]]
    BY <1>1 DEF Boot
  <2>2. ui' \in UI /\ Untouched /\ UNCHANGED <<ui.last_item_count, ui.edited, ui.lapse>>
    BY <1>t, <2>1 DEF Typed, UI, Untouched
  <2>3. TypeOK'
    BY <1>u, <2>1, <2>2 DEF IInv, TypeOK, Calm
  <2>4. ListInv' /\ KeyInv' /\ WakeInv' /\ ChainInv'
    BY <1>u, <2>1, <2>2 DEF IInv, ListInv, Known, KeyInv, WakeInv, ChainInv, Calm, Untouched
  <2>5. LoadInv'
    <3> DEFINE f == Flag(ui.reading /\ ui.new_command = "none")
    <3>1. f' \in {0, 1} /\ 1 <= gen /\ gen \in Nat
      BY <1>t DEF Flag, Typed, Gen
    <3>2. ~ui'.trigger_load => Flag(ui.trigger_load)' = 0
      BY DEF Flag
    <3> HIDE DEF f
    <3>3. keymap["focus"] \notin {"reload", "reload_sync"} =>
             (ui.loads + Flag(ui.trigger_load) + f <= gen)'
      BY <1>u, <2>1, <2>2, <3>1, <3>2 DEF IInv, LoadInv, Calm, Untouched
    <3> QED BY <1>u, <2>1, <2>2, <3>3 DEF IInv, LoadInv, Calm, Untouched, f
  <2>6. QueryInv' /\ CountInv'
    BY <2>1 DEF QueryInv, CountInv, Booting
  <2> QED BY <2>3, <2>4, <2>5, <2>6 DEF IInv
<1>2. CASE BootCount
  <2>1. /\ upc = "boot_count" /\ upc' = "boot_finished"
        /\ ui' = [ui EXCEPT !.last_item_count = count[ui.display],
                            !.lapse = count[ui.display] # req.count]
    BY <1>2 DEF BootCount
  <2>2. ui' \in UI /\ Untouched /\ UNCHANGED <<ui.edited, ui.reading>>
    <3>1. PICK n \in NoCount .. MaxItems : n = count[ui.display]
      BY <1>t DEF Typed
    <3>2. PICK p \in BOOLEAN : p = (count[ui.display] # req.count)
      OBVIOUS
    <3>3. ui' = [ui EXCEPT !.last_item_count = n, !.lapse = p]
      BY <2>1, <3>1, <3>2
    <3> QED BY <1>t, <3>3 DEF UI, Untouched
  <2>3. ui'.last_item_count = count[ui.display] /\ (~ui'.lapse => count[ui.display] = req.count)
    BY <1>t, <2>1 DEF UI
  <2>4. TypeOK'
    BY <1>u, <2>1, <2>2 DEF IInv, TypeOK, Calm
  <2>5. ListInv'
    BY <1>u, <1>t, <2>1, <2>2, <2>3 DEF IInv, ListInv, Known, Calm, Untouched, Typed
  <2>6. KeyInv' /\ WakeInv' /\ ChainInv'
    BY <1>u, <2>1, <2>2 DEF IInv, KeyInv, WakeInv, ChainInv, Calm, Untouched
  <2>7. LoadInv'
    BY <1>u, <2>1, <2>2 DEF IInv, LoadInv, Calm, Untouched
  <2>8. QueryInv'
    BY <1>u, <2>1, <2>2 DEF IInv, QueryInv, Booting, Latest, Calm, Untouched
  <2>9. CountInv'
    BY <1>u, <1>t, <2>1, <2>2, <2>3 DEF IInv, QueryInv, CountInv, Booting, Latest, Calm, Untouched, Typed
  <2> QED BY <2>4, <2>5, <2>6, <2>7, <2>8, <2>9 DEF IInv
<1> QED BY <1>1, <1>2

LEMMA BootSearchStep ==
    IInv /\ BootSearch /\ UNCHANGED <<wpc, r, keymap>> => IInv'
<1> SUFFICES ASSUME IInv, BootSearch, UNCHANGED <<wpc, r, keymap>> PROVE IInv'
  OBVIOUS
<1>u. /\ UNCHANGED <<gen, count, finished, failed, rpc, wpc, r, keymap, batches, wake_pending, pipe, result, batch, c>>
      /\ upc = "boot_search" /\ upc' = "boot_count" /\ Submit(ui)
  BY DEF BootSearch, readerVars, ttyVars
<1>t. Typed /\ ui \in UI
  BY TypeFacts DEF IInv, TypeOK
<1>1. /\ req' = Now(ui, count) /\ has_req' = TRUE /\ ui' = Submitted(ui)
  BY <1>u DEF Submit
<1>2. ui' \in UI /\ Now(ui, count) \in Search /\ Same(ui, ui')
  BY <1>1, <1>t, SubmittedIs
<1>3. UNCHANGED <<ui.display, ui.last_item_count, ui.changed, ui.pending_change, ui.edited, ui.sync_gens,
                  ui.new_command, ui.reading, ui.loads>>
  BY <1>1, <1>t, SubmittedIs
<1>4. req'.gen = ui.display /\ req'.count = count[ui.display]
  BY <1>1, <1>t, SubmittedIs
<1>5. TypeOK'
  BY <1>u, <1>1, <1>2 DEF IInv, TypeOK
<1>6. ListInv'
  <2>1. Known(req)'
    <3>1. ui.display <= gen /\ (ui.display \in ui.sync_gens => finished[ui.display])
      BY DEF IInv, ListInv
    <3>2. count[ui.display] <= count[ui.display]
      <4>1. count[ui.display] \in Nat
        BY <1>t DEF Typed
      <4> QED BY <4>1
    <3> QED BY <1>u, <1>3, <1>4, <3>1, <3>2 DEF Known
  <2>2. Known(r)' /\ Known(ui.merger)' /\ (\A m \in result : Known(m))'
    BY <1>u, <1>2, <1>3 DEF IInv, ListInv, Known, Same
  <2> QED BY <1>u, <1>3, <2>1, <2>2 DEF IInv, ListInv
<1>7. KeyInv' /\ WakeInv' /\ LoadInv'
  BY <1>u, <1>2, <1>3 DEF IInv, KeyInv, WakeInv, LoadInv, Same
<1>8. QueryInv' /\ CountInv' /\ ChainInv'
  BY <1>u, <1>t, <1>6, Submits
<1> QED BY <1>5, <1>6, <1>7, <1>8 DEF IInv

\* Select, Drain and Ack: the main loop wakes up.
LEMMA WakeUpStep ==
    ASSUME NEW keys \in Batches \cup {<<>>}
    PROVE  IInv /\ (Select(keys) \/ Drain \/ Ack \/ KeysDone \/ Leave) /\ UNCHANGED <<wpc, r, keymap>> => IInv'
<1> SUFFICES ASSUME IInv, Select(keys) \/ Drain \/ Ack \/ KeysDone \/ Leave, UNCHANGED <<wpc, r, keymap>>
             PROVE  IInv'
  OBVIOUS
<1>u. UNCHANGED <<gen, count, finished, failed, rpc, req, has_req, wpc, r, keymap, result, c>>
  BY DEF Select, Drain, Ack, KeysDone, Leave, readerVars, ttyVars, searchSlot
<1>t. Typed /\ ui \in UI
  BY TypeFacts DEF IInv, TypeOK
<1>s. /\ upc = "select" => upc' \in {"drain", "progress", "exit"}
      /\ upc = "drain" => upc' = "ack"
      /\ upc = "ack" => upc' = "progress"
      /\ upc = "keys" => upc' = "end"
      /\ upc \in {"select", "drain", "ack", "keys"}
      /\ upc # "ack" => UNCHANGED wake_pending
      /\ upc = "ack" => ~wake_pending'
      /\ upc # "drain" => UNCHANGED pipe
      /\ upc' # "exit" /\ upc = "select" /\ pipe => upc' = "drain"
  BY DEF Select, Drain, Ack, KeysDone, Leave
<1>1. ui' = ui \/ (upc = "select" /\ ui' = [ui EXCEPT !.edited = FALSE])
  BY DEF Select, Drain, Ack, KeysDone, Leave
<1>e. upc = "select" /\ upc' # "exit" => ui' = [ui EXCEPT !.edited = FALSE]
  BY DEF Select, Drain, Ack, KeysDone, Leave
<1>2. /\ ui' \in UI /\ Untouched /\ UNCHANGED <<ui.last_item_count, ui.lapse, ui.reading>>
      /\ upc = "select" /\ upc' # "exit" => ~ui'.edited
      /\ upc # "select" => UNCHANGED ui.edited
  BY <1>1, <1>e, <1>s, <1>t DEF UI, Untouched
<1>3. TypeOK'
  <2>1. batch' \in Seq(Keys) /\ batches' \in 0 .. MaxBatches
    <3>1. \/ batch' = batch /\ batches' = batches
          \/ batch' = keys /\ (batches' = batches \/ (batches < MaxBatches /\ batches' = batches + 1))
      BY DEF Select, Drain, Ack, KeysDone, Leave, ttyVars
    <3>2. keys \in Seq(Keys)
      <4>1. <<>> \in Seq(Keys) /\ Batches \subseteq Seq(Keys)
        BY SessionAssumption
      <4> QED BY <4>1
    <3>3. batch \in Seq(Keys) /\ batches \in 0 .. MaxBatches /\ MaxBatches \in Nat
      BY SessionAssumption DEF IInv, TypeOK
    <3> QED BY <3>1, <3>2, <3>3
  <2>2. wake_pending' \in BOOLEAN /\ pipe' \in BOOLEAN
    BY DEF Select, Drain, Ack, KeysDone, Leave, IInv, TypeOK
  <2> QED BY <1>u, <1>2, <1>s, <2>1, <2>2 DEF IInv, TypeOK
<1>4. ListInv'
  BY <1>u, <1>2, <1>s DEF IInv, ListInv, Known, Untouched
<1>5. KeyInv'
  BY <1>u, <1>2, <1>s DEF IInv, KeyInv, Untouched
<1>6. WakeInv' /\ LoadInv'
  BY <1>u, <1>2, <1>s DEF IInv, WakeInv, LoadInv, Untouched
<1>7. QueryInv'
  BY <1>u, <1>2, <1>s DEF IInv, QueryInv, Latest, Booting, Untouched
<1>8. CountInv'
  BY <1>u, <1>2, <1>s DEF IInv, CountInv, Latest, Booting, NewsComing, Untouched
<1>9. ChainInv'
  BY <1>u, <1>2, <1>s DEF IInv, ChainInv, Untouched
<1> QED BY <1>3, <1>4, <1>5, <1>6, <1>7, <1>8, <1>9 DEF IInv

\* What bookkeeping leaves alone.
Alike(u, v) ==
    /\ v.display = u.display /\ v.merger = u.merger /\ v.sync_gens = u.sync_gens
    /\ v.new_command = u.new_command /\ v.loads = u.loads /\ v.query = u.query
    /\ v.request_pending = u.request_pending /\ v.changed = u.changed
    /\ v.pending_change = u.pending_change /\ v.synced = u.synced /\ v.lapse = u.lapse
    /\ v.edited = u.edited

LEMMA LoadedIs ==
    ASSUME TypeOK, NEW u \in UI
    PROVE  \A v \in {Loaded(u)} :
             /\ v \in UI /\ ~v.reading
             /\ Alike(u, v) /\ v.last_item_count = u.last_item_count
             /\ v.last_finished = u.last_finished /\ v.first_tick = u.first_tick
<1>1. PICK p \in BOOLEAN : p = (keymap["load"] # "none")
  OBVIOUS
<1>2. failed \in BOOLEAN
  BY DEF TypeOK
<1>3. Loaded(u) = [u EXCEPT !.reading = FALSE, !.trigger_load = p, !.failed_command = failed]
  BY <1>1 DEF Loaded
<1> DEFINE v == [u EXCEPT !.reading = FALSE, !.trigger_load = p, !.failed_command = failed]
<1>4. v \in UI
  BY <1>2 DEF UI
<1>5. /\ ~v.reading
      /\ Alike(u, v) /\ v.last_item_count = u.last_item_count
      /\ v.last_finished = u.last_finished /\ v.first_tick = u.first_tick
  BY DEF UI, Alike
<1>6. Loaded(u) = v
  BY <1>3
<1> HIDE DEF v
<1> QED BY <1>4, <1>5, <1>6

\* The start event, after the last bookkeeping of the start-up.
LEMMA BootFinishedStep ==
    IInv /\ BootFinished /\ UNCHANGED <<wpc, r, keymap>> => IInv'
<1> SUFFICES ASSUME IInv, BootFinished, UNCHANGED <<wpc, r, keymap>> PROVE IInv'
  OBVIOUS
<1>u. /\ UNCHANGED <<gen, count, finished, failed, rpc, req, has_req, wpc, r, keymap, batches>>
      /\ UNCHANGED <<wake_pending, pipe, result, batch, c>>
      /\ upc = "boot_finished" /\ upc' = "end"
  BY DEF BootFinished, readerVars, ttyVars, searchSlot
<1>t. Typed /\ ui \in UI /\ TypeOK
  BY TypeFacts DEF IInv, TypeOK
<1> DEFINE x == [ui EXCEPT !.last_finished = finished[ui.display]]
           u == IF x.last_finished THEN Loaded(x) ELSE x
<1>1. ui' = Fire(u, "start")
  BY DEF BootFinished
<1>2. /\ x \in UI /\ UNCHANGED keymap
      /\ Alike(ui, x) /\ x.last_item_count = ui.last_item_count
      /\ x.trigger_load = ui.trigger_load
  BY <1>t, <1>u DEF UI, Typed, Alike
<1> HIDE DEF x
<1>3. /\ u \in UI
      /\ Alike(ui, u) /\ u.last_item_count = ui.last_item_count
      /\ ~u.reading \/ u.trigger_load = ui.trigger_load
  BY <1>t, <1>2, LoadedIs DEF Alike
<1> HIDE DEF u
<1>k. keymap \in [Events -> BoundActions] /\ "start" \in Events
  BY <1>t DEF TypeOK, Events
<1>4. ui' \in UI /\ Acted(u, ui') /\ Same(u, ui')
  BY <1>1, <1>3, <1>k, FireIs
<1>5. ~ui'.lapse => ~u.lapse /\ ui'.query = u.query
  BY <1>1, <1>3, <1>k, FireIs
<1>6. ui'.loads = u.loads
  BY <1>1, <1>3, <1>k, FireIs
<1>7. TypeOK'
  BY <1>u, <1>t, <1>4 DEF TypeOK
<1>8. ListInv'
  BY <1>u, <1>3, <1>4 DEF Alike, IInv, ListInv, Known, Acted, Same
<1>9. KeyInv' /\ WakeInv' /\ ChainInv'
  BY <1>u, <1>3, <1>4, <1>5 DEF Alike, IInv, KeyInv, WakeInv, ChainInv, Acted, Same
<1>10. QueryInv' /\ CountInv'
  BY <1>u, <1>3, <1>4, <1>5 DEF Alike, IInv, QueryInv, CountInv, Booting, Latest, NewsComing, Acted, Same
<1>11. LoadInv'
  <2> DEFINE f == Flag(ui.trigger_load)
             g == Flag(ui.reading /\ ui.new_command = "none")
  <2>1. ~u.trigger_load => f' = 0
    BY <1>4 DEF Flag, Same
  <2>2. ~u.reading => g' = 0
    BY <1>4 DEF Flag, Acted
  <2>3. f' \in {0, 1} /\ g' \in {0, 1} /\ gen \in Nat /\ 1 <= gen
    BY <1>t DEF Flag, Typed, Gen
  <2>4. keymap["focus"] \notin {"reload", "reload_sync"} => ui.loads = 0 /\ ~ui.trigger_load
    BY <1>u DEF IInv, LoadInv
  <2> HIDE DEF f, g
  <2>5. keymap["focus"] \notin {"reload", "reload_sync"} => (ui.loads + f + g <= gen)'
    BY <1>u, <1>3, <1>6, <2>1, <2>2, <2>3, <2>4 DEF Alike
  <2> QED BY <1>u, <2>5 DEF LoadInv, f, g
<1> QED BY <1>7, <1>8, <1>9, <1>10, <1>11 DEF IInv

\* A list made by reload-sync is shown once it is finished.
LEMMA ProgressStep ==
    IInv /\ Progress /\ UNCHANGED <<wpc, r, keymap>> => IInv'
<1> SUFFICES ASSUME IInv, Progress, UNCHANGED <<wpc, r, keymap>> PROVE IInv'
  OBVIOUS
<1>u. /\ UNCHANGED <<gen, count, finished, failed, rpc, req, has_req, wpc, r, keymap, batches>>
      /\ UNCHANGED <<wake_pending, pipe, result, batch>>
      /\ upc = "progress"
  BY DEF Progress, readerVars, ttyVars, searchSlot
<1>t. Typed /\ ui \in UI /\ TypeOK
  BY TypeFacts DEF IInv, TypeOK
<1>1. CASE ui.display # gen /\ ~finished[gen]
  <2>1. upc' = "take" /\ UNCHANGED <<c, ui>>
    BY <1>1 DEF Progress
  <2>2. TypeOK' /\ ListInv'
    BY <1>u, <1>t, <2>1 DEF IInv, TypeOK, ListInv, Known
  <2>3. KeyInv' /\ WakeInv' /\ ChainInv' /\ LoadInv'
    BY <1>u, <2>1 DEF IInv, KeyInv, WakeInv, ChainInv, LoadInv
  <2>4. QueryInv' /\ CountInv'
    BY <1>u, <1>1, <2>1 DEF IInv, QueryInv, CountInv, Booting, Latest, NewsComing
  <2> QED BY <2>2, <2>3, <2>4 DEF IInv
<1>2. CASE ~(ui.display # gen /\ ~finished[gen])
  <2>1. upc' = "progress_finished" /\ c' = count[gen]
    BY <1>2 DEF Progress
  <2>c. c' \in 0 .. MaxItems /\ c' \in Nat
    BY <1>t, <2>1 DEF Typed
  <2>2. CASE ui.display = gen
    <3>1. UNCHANGED ui
      BY <1>2, <2>2 DEF Progress
    <3>2. TypeOK' /\ ListInv'
      BY <1>u, <1>t, <2>1, <2>c, <2>2, <3>1 DEF IInv, TypeOK, ListInv, Known
    <3>3. KeyInv' /\ WakeInv' /\ ChainInv' /\ LoadInv'
      BY <1>u, <2>1, <3>1 DEF IInv, KeyInv, WakeInv, ChainInv, LoadInv
    <3>4. QueryInv'
      BY <1>u, <1>1, <2>1, <3>1 DEF IInv, QueryInv, Booting, Latest
    <3>5. CountInv'
      <4>1. Latest.gen \in Gen /\ Latest.count \in Nat /\ Latest.count <= count[Latest.gen]
        BY <1>t DEF Typed, Latest, IInv, ListInv, Known
      <4>2. ui.last_item_count \in NoCount .. MaxItems /\ NoCount = -1 /\ MaxItems \in Nat
        BY <1>t DEF Typed, NoCount
      <4>3. Latest' = Latest
        BY <1>u, <3>1 DEF Latest
      <4> DEFINE n == Latest.count
                 d == Latest.gen
                 k == count[gen]
                 i == ui.last_item_count
      <4>4. d = gen => (n <= k /\ k \in Nat)
        BY <1>t, <4>1 DEF Typed
      <4>5. (~ui.lapse /\ ~ui.request_pending /\ d = gen) => i <= n
        BY <1>u, <2>2 DEF IInv, CountInv, Booting
      <4> HIDE DEF n, d, k, i
      <4>6. (~ui.lapse /\ ~ui.request_pending /\ d = gen) => i <= n /\ (k = n \/ k # i)
        BY <4>1, <4>2, <4>4, <4>5 DEF i, n
      <4> QED BY <1>u, <2>1, <2>2, <3>1, <4>3, <4>6 DEF CountInv, NewsComing, n, d, k, i
    <3> QED BY <3>2, <3>3, <3>4, <3>5 DEF IInv
  <2>3. CASE ui.display # gen
    <3>0. finished[gen]
      BY <1>2, <2>3
    <3>1. ui' = [ui EXCEPT !.display = gen, !.cy = 0, !.last_item_count = NoCount]
      BY <1>2, <2>3 DEF Progress
    <3>2. /\ ui' \in UI /\ ui'.display = gen /\ ui'.last_item_count = NoCount
          /\ UNCHANGED <<ui.merger, ui.sync_gens, ui.new_command, ui.loads, ui.trigger_load,
                         ui.request_pending, ui.changed, ui.pending_change, ui.synced, ui.query,
                         ui.reading, ui.lapse, ui.edited>>
      <4>1. NoCount \in NoCount .. MaxItems /\ 0 \in 0 .. MaxItems
        BY <1>t DEF Typed, NoCount
      <4>2. gen \in Gen
        BY <1>t DEF Typed
      <4> QED BY <1>t, <3>1, <4>1, <4>2 DEF UI
    <3>3. TypeOK'
      BY <1>u, <1>t, <2>1, <2>c, <3>2 DEF TypeOK
    <3>4. ListInv'
      <4>1. NoCount <= count[gen] /\ c' <= count[gen] /\ gen <= gen
        BY <1>t, <2>1, <2>c DEF Typed, NoCount
      <4>2. Known(req)' /\ Known(r)' /\ Known(ui.merger)' /\ (\A m \in result : Known(m))'
        BY <1>u, <3>2 DEF IInv, ListInv, Known
      <4> QED BY <1>u, <3>0, <3>2, <4>1, <4>2 DEF IInv, ListInv
    <3>5. KeyInv' /\ WakeInv' /\ ChainInv' /\ LoadInv'
      BY <1>u, <2>1, <3>2 DEF IInv, KeyInv, WakeInv, ChainInv, LoadInv
    <3>6. QueryInv'
      BY <1>u, <2>1, <3>0, <3>2 DEF IInv, QueryInv, Booting, Latest
    <3>7. CountInv'
      <4>1. Latest'.count \in Nat
        BY <1>u, <1>t, <3>2 DEF Typed, Latest
      <4>2. NoCount <= Latest'.count /\ c' # NoCount
        BY <4>1, <2>c DEF NoCount
      <4> QED BY <1>u, <2>1, <3>2, <4>2 DEF CountInv, NewsComing
    <3> QED BY <3>3, <3>4, <3>5, <3>6, <3>7 DEF IInv
  <2> QED BY <2>2, <2>3
<1> QED BY <1>1, <1>2

\* New items, or the end of the list: search again, or later.
LEMMA ProgressFinishedStep ==
    ASSUME NEW due \in BOOLEAN
    PROVE  IInv /\ ProgressFinished(due) /\ UNCHANGED <<wpc, r, keymap>> => IInv'
<1> SUFFICES ASSUME IInv, ProgressFinished(due), UNCHANGED <<wpc, r, keymap>> PROVE IInv'
  OBVIOUS
<1>t. Typed /\ ui \in UI /\ TypeOK /\ finished[ui.display] \in BOOLEAN
  BY TypeFacts DEF IInv, TypeOK, Typed
<1> DEFINE f == finished[ui.display]
           news == c # ui.last_item_count \/ f # ui.last_finished
           u1 == [ui EXCEPT !.last_item_count = c, !.last_finished = f]
           u2 == IF f /\ u1.reading THEN Loaded(u1) ELSE u1
           u3 == IF f THEN u2 ELSE [u2 EXCEPT !.first_tick = FALSE]
           u == IF ~news THEN ui ELSE u3
           search == (news /\ (f \/ due)) \/ (ui.request_pending /\ ui.deadline_passed)
           later == [u EXCEPT !.request_pending = TRUE, !.deadline_passed = FALSE]
<1>u. /\ UNCHANGED <<gen, count, finished, failed, rpc, wpc, r, keymap, batches>>
      /\ UNCHANGED <<wake_pending, pipe, result, batch, c>>
      /\ upc = "progress_finished" /\ upc' = "take"
  BY DEF ProgressFinished, readerVars, ttyVars, searchSlot
<1>s. /\ search => Submit(u)
      /\ ~search => UNCHANGED <<req, has_req>> /\ ui' = IF news /\ ~u.request_pending THEN later ELSE u
  BY DEF ProgressFinished, searchSlot
<1>1. /\ u1 \in UI
      /\ Alike(ui, u1) /\ u1.last_item_count = c
      /\ u1.reading = ui.reading /\ u1.trigger_load = ui.trigger_load
  <2>1. c \in NoCount .. MaxItems
    BY <1>t DEF Typed, NoCount
  <2> QED BY <1>t, <2>1 DEF UI, Alike
<1> HIDE DEF u1
<1>2. /\ u2 \in UI
      /\ Alike(ui, u2) /\ u2.last_item_count = c
      /\ \/ u2.reading = ui.reading /\ u2.trigger_load = ui.trigger_load
         \/ ui.reading /\ ~u2.reading
  BY <1>1, <1>t, LoadedIs DEF Alike
<1> HIDE DEF u2
<1>3. /\ u3 \in UI
      /\ Alike(ui, u3) /\ u3.last_item_count = c
      /\ \/ u3.reading = ui.reading /\ u3.trigger_load = ui.trigger_load
         \/ ui.reading /\ ~u3.reading
  <2> DEFINE w == [u2 EXCEPT !.first_tick = FALSE]
  <2>1. w \in UI
    BY <1>2 DEF UI
  <2>2. Alike(u2, w) /\ w.last_item_count = c /\ w.reading = u2.reading /\ w.trigger_load = u2.trigger_load
    BY <1>2 DEF UI, Alike
  <2>3. u3 = u2 \/ u3 = w
    OBVIOUS
  <2> HIDE DEF u3, w
  <2>4. CASE u3 = u2
    BY <1>2, <2>4
  <2>5. CASE u3 = w
    BY <1>2, <2>1, <2>2, <2>5 DEF Alike
  <2> QED BY <2>3, <2>4, <2>5
<1> HIDE DEF u3
<1>4. /\ u \in UI
      /\ Alike(ui, u) /\ u.last_item_count = c
      /\ \/ u.reading = ui.reading /\ u.trigger_load = ui.trigger_load
         \/ ui.reading /\ ~u.reading
  BY <1>3, <1>t DEF Alike
<1>n. ~news => u = ui /\ c = ui.last_item_count
  OBVIOUS
<1>h. ~search => ~(news /\ f)
  OBVIOUS
<1> HIDE DEF u
\* The two outcomes, as far as the invariant is concerned.
<1>5. /\ ui' \in UI
      /\ ui'.display = ui.display /\ ui'.merger = ui.merger /\ ui'.sync_gens = ui.sync_gens
      /\ ui'.new_command = ui.new_command /\ ui'.loads = ui.loads /\ ui'.query = ui.query
      /\ ui'.changed = ui.changed /\ ui'.pending_change = ui.pending_change
      /\ ui'.edited = ui.edited /\ ui'.last_item_count = c
      /\ \/ ui'.reading = ui.reading /\ ui'.trigger_load = ui.trigger_load
         \/ ui.reading /\ ~ui'.reading
  <2>1. CASE search
    <3>1. ui' = Submitted(u)
      BY <1>s, <2>1 DEF Submit
    <3> HIDE DEF search
    <3>2. ui' \in UI /\ Same(u, ui')
      BY <1>4, <3>1, SubmittedIs
    <3>3. /\ ui'.display = u.display /\ ui'.last_item_count = u.last_item_count
          /\ ui'.changed = u.changed /\ ui'.pending_change = u.pending_change
          /\ ui'.edited = u.edited /\ ui'.sync_gens = u.sync_gens
          /\ ui'.new_command = u.new_command /\ ui'.reading = u.reading /\ ui'.loads = u.loads
          /\ ui'.query = u.query
      BY <1>4, <3>1, SubmittedIs
    <3> QED BY <1>4, <3>2, <3>3 DEF Same, Alike
  <2>2. CASE ~search
    <3>1. ui' = u \/ ui' = later
      BY <1>s, <2>2
    <3> HIDE DEF search, news
    <3>2. later \in UI
      BY <1>4 DEF UI
    <3>3. /\ later.display = u.display /\ later.merger = u.merger /\ later.sync_gens = u.sync_gens
          /\ later.new_command = u.new_command /\ later.loads = u.loads /\ later.query = u.query
          /\ later.changed = u.changed /\ later.pending_change = u.pending_change
          /\ later.edited = u.edited /\ later.last_item_count = u.last_item_count
          /\ later.reading = u.reading /\ later.trigger_load = u.trigger_load
      BY <1>4 DEF UI
    <3> HIDE DEF later
    <3>4. CASE ui' = u
      BY <1>4, <3>4 DEF Alike
    <3>5. CASE ui' = later
      BY <1>4, <3>2, <3>3, <3>5 DEF Alike
    <3> QED BY <3>1, <3>4, <3>5
  <2> QED BY <2>1, <2>2
<1>6. ~search => /\ ui'.synced = ui.synced /\ ui'.lapse = ui.lapse
                 /\ news => ui'.request_pending
                 /\ ~news => ui'.request_pending = ui.request_pending
  <2> SUFFICES ASSUME ~search
               PROVE  /\ ui'.synced = ui.synced /\ ui'.lapse = ui.lapse
                      /\ news => ui'.request_pending
                      /\ ~news => ui'.request_pending = ui.request_pending
    OBVIOUS
  <2>1. ui' = IF news /\ ~u.request_pending THEN later ELSE u
    BY <1>s
  <2> HIDE DEF search, news
  <2>2. later.synced = u.synced /\ later.lapse = u.lapse /\ later.request_pending = TRUE
    BY <1>4 DEF UI
  <2> HIDE DEF later
  <2> QED BY <1>4, <2>1, <2>2 DEF Alike
<1>q. /\ search => req' = Now(u, count)
      /\ ~search => UNCHANGED <<req, has_req>>
  <2> HIDE DEF search
  <2> QED BY <1>s DEF Submit
<1>d. ui.display = gen /\ c <= count[gen]
  BY <1>u DEF IInv, ListInv
<1>7. TypeOK'
  <2>1. req' \in Search /\ has_req' \in BOOLEAN
    <3>1. Now(u, count) \in Search
      BY <1>4, <1>t, SubmittedIs
    <3> HIDE DEF search
    <3> QED BY <1>s, <1>t, <3>1 DEF Submit, TypeOK
  <2> QED BY <1>u, <1>t, <1>5, <2>1 DEF TypeOK
<1>8. ListInv'
  <2>1. Known(req)'
    <3>1. CASE search
      <4>1. req'.gen = gen /\ req'.count = count[gen]
        BY <1>4, <1>q, <1>d, <3>1, SubmittedIs DEF Alike
      <4>2. count[gen] <= count[gen] /\ gen <= gen
        <5>1. count[gen] \in Nat /\ gen \in Nat
          BY <1>t DEF Typed
        <5> QED BY <5>1
      <4>3. gen \in ui.sync_gens => finished[gen]
        BY <1>d DEF IInv, ListInv
      <4> QED BY <1>u, <1>5, <4>1, <4>2, <4>3 DEF Known
    <3>2. CASE ~search
      <4>1. UNCHANGED req
        BY <1>q, <3>2
      <4> QED BY <1>u, <1>5, <4>1 DEF IInv, ListInv, Known
    <3> QED BY <3>1, <3>2
  <2>2. Known(r)' /\ Known(ui.merger)' /\ (\A m \in result : Known(m))'
    BY <1>u, <1>5 DEF IInv, ListInv, Known
  <2> QED BY <1>u, <1>5, <1>d, <2>1, <2>2 DEF IInv, ListInv
<1>9. KeyInv' /\ WakeInv'
  BY <1>u, <1>5 DEF IInv, KeyInv, WakeInv
<1>10. LoadInv'
  <2> DEFINE x == Flag(ui.trigger_load)
             y == Flag(ui.reading /\ ui.new_command = "none")
  <2>1. x \in {0, 1} /\ y \in {0, 1} /\ x' \in {0, 1} /\ y' \in {0, 1} /\ gen \in Nat /\ ui.loads \in Nat
    BY <1>t DEF Flag, Typed, UI
  <2>2. ui.new_command = "none" /\ ui.reading => y = 1
    BY DEF Flag
  <2>3. ~ui'.reading => y' = 0
    BY DEF Flag
  <2>4. (ui'.reading = ui.reading /\ ui'.trigger_load = ui.trigger_load) => x' = x /\ y' = y
    BY <1>5 DEF Flag
  <2>5. keymap["focus"] \notin {"reload", "reload_sync"} =>
           ui.loads + x + y <= gen /\ ui.new_command = "none"
    BY <1>u DEF IInv, LoadInv
  <2> HIDE DEF x, y
  <2>6. keymap["focus"] \notin {"reload", "reload_sync"} => (ui.loads + x + y <= gen)'
    BY <1>u, <1>5, <2>1, <2>2, <2>3, <2>4, <2>5
  <2> QED BY <1>u, <1>5, <2>5, <2>6 DEF LoadInv, x, y
<1>11. QueryInv' /\ CountInv' /\ ChainInv'
  <2>1. CASE search
    <3>1. Submit(u)
      BY <1>s, <2>1
    <3> HIDE DEF search
    <3> QED BY <1>u, <1>t, <1>4, <1>8, <3>1, Submits
  <2>2. CASE ~search
    <3>1. Latest' = Latest
      BY <1>5, <1>6, <1>q, <2>2 DEF Latest
    <3>2. ChainInv'
      BY <1>u, <1>5, <1>6, <1>q, <2>2 DEF IInv, ChainInv
    <3>3. news => ~f
      BY <1>h, <2>2
    <3>4. ~news => c = ui.last_item_count /\ c # NoCount
      BY <1>n, <1>t DEF NoCount, Typed
    <3>5. /\ ui'.synced = ui.synced /\ ui'.lapse = ui.lapse
          /\ news => ui'.request_pending
          /\ ~news => ui'.request_pending = ui.request_pending
      BY <1>6, <2>2
    <3> HIDE DEF search, news
    <3>6. QueryInv'
      BY <1>u, <1>5, <3>1, <3>3, <3>4, <3>5 DEF IInv, QueryInv, Booting
    <3>7. CountInv'
      <4>1. CASE news
        BY <1>u, <3>5, <4>1 DEF CountInv
      <4>2. CASE ~news
        <5>1. Latest.gen \in Gen /\ Latest.count \in Nat /\ Latest.count <= count[Latest.gen]
          BY <1>t DEF Typed, Latest, IInv, ListInv, Known
        <5>2. c # count[gen] => rpc \in {"wake", "write"} \/ pipe
          BY <1>u DEF IInv, CountInv
        <5> DEFINE n == Latest.count
                   k == count[gen]
        <5>3. (~ui.lapse /\ ~ui.request_pending /\ Latest.gen = gen) =>
                 c <= n /\ (k = n \/ rpc \in {"wake", "write"} \/ pipe \/ c # k)
          BY <1>u, <1>d, <3>4, <4>2 DEF IInv, CountInv, Booting, NewsComing
        <5>4. k \in Nat /\ c \in Nat /\ c <= k /\ (Latest.gen = gen => n <= k)
          BY <1>t, <1>d, <5>1 DEF Typed
        <5> HIDE DEF n, k
        <5>5. (~ui.lapse /\ ~ui.request_pending /\ Latest.gen = gen) =>
                 c <= n /\ (k = n \/ rpc \in {"wake", "write"} \/ pipe)
          BY <5>1, <5>2, <5>3, <5>4 DEF k, n
        <5> QED BY <1>u, <1>5, <1>d, <3>1, <3>5, <4>2, <5>5 DEF CountInv, NewsComing, n, k
      <4> QED BY <4>1, <4>2
    <3> QED BY <3>2, <3>6, <3>7
  <2> QED BY <2>1, <2>2
<1> QED BY <1>7, <1>8, <1>9, <1>10, <1>11 DEF IInv

\* The result of a search is installed, and the events it fires run.
LEMMA TakeStep ==
    IInv /\ Take /\ UNCHANGED <<wpc, r, keymap>> => IInv'
<1> SUFFICES ASSUME IInv, Take, UNCHANGED <<wpc, r, keymap>> PROVE IInv'
  OBVIOUS
<1>t. Typed /\ ui \in UI /\ TypeOK
  BY TypeFacts DEF IInv, TypeOK
<1>u. /\ UNCHANGED <<gen, count, finished, failed, rpc, req, has_req, wpc, r, keymap, batches>>
      /\ UNCHANGED <<wake_pending, pipe, batch, c>>
      /\ upc = "take" /\ upc' = "keys" /\ result' = {}
  BY DEF Take, readerVars, ttyVars, searchSlot
<1>1. CASE result = {}
  <2>1. UNCHANGED ui
    BY <1>1 DEF Take
  <2>2. TypeOK' /\ ListInv'
    BY <1>u, <1>t, <2>1 DEF IInv, TypeOK, ListInv, Known
  <2>3. KeyInv' /\ WakeInv' /\ LoadInv' /\ QueryInv'
    BY <1>u, <2>1 DEF IInv, KeyInv, WakeInv, LoadInv, QueryInv, Booting, Latest
  <2>4. CountInv' /\ ChainInv'
    BY <1>u, <1>1, <2>1 DEF IInv, CountInv, ChainInv, Booting, Latest, NewsComing
  <2> QED BY <2>2, <2>3, <2>4 DEF IInv
<1>2. CASE result # {}
  <2>1. PICK m \in Search : result = {m}
    BY <1>2, <1>t DEF TypeOK
  <2> DEFINE now == Now(ui, count)
             u == [ui EXCEPT !.lapse = @ \/ (ui.synced /\ m # now)]
  <2>2. (CHOOSE x \in result : TRUE) = m
    BY <2>1
  <2>3. ui' = Install(u, m)
    BY <1>2, <2>2 DEF Take
  <2>4. /\ now.gen = ui.display /\ now.count = count[ui.display] /\ now.query = ui.query
    BY <1>t, SubmittedIs
  <2> HIDE DEF now
  <2>5. /\ u \in UI /\ Acted(ui, u) /\ u.query = ui.query /\ u.trigger_load = ui.trigger_load
        /\ u.loads = ui.loads
        /\ ~u.lapse => ~ui.lapse /\ (ui.synced => m = now)
    <3>1. PICK p \in BOOLEAN : p = (ui.lapse \/ (ui.synced /\ m # now))
      OBVIOUS
    <3>2. u = [ui EXCEPT !.lapse = p]
      BY <3>1
    <3> DEFINE x == [ui EXCEPT !.lapse = p]
    <3>3. x \in UI /\ x.lapse = p
      BY <1>t DEF UI
    <3>4. Acted(ui, x) /\ x.query = ui.query /\ x.trigger_load = ui.trigger_load /\ x.loads = ui.loads
      BY <1>t DEF UI, Acted
    <3>5. u = x
      BY <3>2
    <3> HIDE DEF x, u
    <3> QED BY <3>1, <3>3, <3>4, <3>5
  <2> HIDE DEF u
  <2>k. keymap \in [Events -> BoundActions]
    BY <1>t DEF TypeOK
  <2>6. ui' \in UI /\ Acted(u, ui') /\ ui'.merger = m /\ ~ui'.trigger_load
    BY <2>3, <2>5, <2>k, InstallIs
  <2>7. ~ui'.lapse => ~u.lapse /\ ui'.query = u.query
    BY <2>3, <2>5, <2>k, InstallIs
  <2>8. ui'.loads <= u.loads + Flag(u.trigger_load)
    BY <2>3, <2>5, <2>k, InstallIs
  <2>9. Acted(ui, ui')
    BY <1>t, <2>5, <2>6, ActedOn
  <2>10. ~ui'.lapse => ~ui.lapse /\ ui'.query = ui.query /\ (ui.synced => m = now)
    BY <2>5, <2>7
  <2>11. TypeOK'
    BY <1>u, <1>t, <2>6 DEF TypeOK
  <2>12. ListInv'
    <3>1. Known(m)'
      BY <1>u, <2>1, <2>9 DEF IInv, ListInv, Known, Acted
    <3>2. Known(req)' /\ Known(r)'
      BY <1>u, <2>9 DEF IInv, ListInv, Known, Acted
    <3> QED BY <1>u, <2>6, <2>9, <3>1, <3>2 DEF IInv, ListInv, Known, Acted
  <2>13. KeyInv' /\ WakeInv'
    BY <1>u, <2>9 DEF IInv, KeyInv, WakeInv, Acted
  <2>14. LoadInv'
    <3> DEFINE x == Flag(ui.trigger_load)
               y == Flag(ui.reading /\ ui.new_command = "none")
    <3>1. /\ x \in {0, 1} /\ y \in {0, 1} /\ y' \in {0, 1} /\ gen \in Nat
          /\ ui.loads \in Nat /\ ui'.loads \in Nat
      BY <1>t, <2>6 DEF Flag, Typed, UI
    <3>2. x' = 0
      BY <2>6 DEF Flag
    <3>3. y' = 1 => y = 1
      BY <2>9 DEF Flag, Acted
    <3>4. ui'.loads <= ui.loads + x
      BY <2>5, <2>8
    <3>5. keymap["focus"] \notin {"reload", "reload_sync"} => ui.loads + x + y <= gen
      BY DEF IInv, LoadInv
    <3> HIDE DEF x, y
    <3>6. keymap["focus"] \notin {"reload", "reload_sync"} => (ui.loads + x + y <= gen)'
      BY <1>u, <3>1, <3>2, <3>3, <3>4, <3>5
    <3> QED BY <1>u, <3>6 DEF LoadInv, x, y
  <2>15. ChainInv'
    <3>1. ~ui.synced => \/ has_req
                        \/ wpc = "scan" /\ r = req
                        \/ wpc # "scan" /\ m = req /\ (wpc = "wake" => r = req)
      BY <2>1 DEF IInv, ChainInv
    <3> QED BY <1>u, <2>6, <2>9, <3>1 DEF ChainInv, Acted
  <2>16. QueryInv' /\ CountInv'
    <3>1. CASE ui.synced
      <4>1. Latest' = m
        BY <2>6, <2>9, <3>1 DEF Latest, Acted
      <4>2. ~ui'.lapse => Latest'.query = ui'.query /\ Latest'.gen = ui'.display
                             /\ Latest'.count = count[ui'.display]
        BY <2>4, <2>9, <2>10, <3>1, <4>1 DEF Acted
      <4>3. ui.last_item_count <= count[ui.display]
        BY DEF IInv, ListInv
      <4> QED BY <1>u, <2>9, <4>2, <4>3 DEF QueryInv, CountInv, Acted
    <3>2. CASE ~ui.synced
      <4>1. Latest' = Latest
        BY <1>u, <2>9, <3>2 DEF Latest, Acted
      <4>2. QueryInv'
        BY <1>u, <2>9, <2>10, <4>1 DEF IInv, QueryInv, Booting, Acted
      <4>3. CountInv'
        BY <1>u, <2>9, <2>10, <4>1 DEF IInv, CountInv, Booting, NewsComing, Acted
      <4> QED BY <4>2, <4>3
    <3> QED BY <3>1, <3>2
  <2> QED BY <2>11, <2>12, <2>13, <2>14, <2>15, <2>16 DEF IInv
<1> QED BY <1>1, <1>2

\* The focus event, after everything else.
LEMMA FocusStep ==
    IInv /\ Focus /\ UNCHANGED <<wpc, r, keymap>> => IInv'
<1> SUFFICES ASSUME IInv, Focus, UNCHANGED <<wpc, r, keymap>> PROVE IInv'
  OBVIOUS
<1>t. Typed /\ ui \in UI /\ TypeOK
  BY TypeFacts DEF IInv, TypeOK
<1>u. /\ UNCHANGED <<gen, count, finished, failed, rpc, req, has_req, wpc, r, keymap, batches>>
      /\ UNCHANGED <<wake_pending, pipe, batch, c, result>>
      /\ upc = "focus" /\ upc' \in {"select", "exit"}
  BY DEF Focus, readerVars, ttyVars, searchSlot
<1>1. /\ ui' \in UI /\ Acted(ui, ui') /\ Same(ui, ui') /\ ui'.loads = ui.loads
      /\ ~ui'.lapse => ~ui.lapse /\ ui'.query = ui.query
      /\ keymap["focus"] \notin {"reload", "reload_sync"} => ui'.new_command = ui.new_command
  <2> DEFINE x == [ui EXCEPT !.last_focus = Index(ui)]
  <2>1. CASE UNCHANGED ui
    BY <1>t, <2>1 DEF Acted, Same
  <2>2. CASE ui' = Fire(x, "focus")
    <3>1. x \in UI /\ Acted(ui, x) /\ Same(ui, x) /\ x.loads = ui.loads /\ x.lapse = ui.lapse
          /\ x.query = ui.query /\ x.new_command = ui.new_command
      <4>1. Index(ui) \in -1 .. MaxItems
        BY <1>t, IndexType
      <4> QED BY <1>t, <4>1 DEF UI, Acted, Same
    <3> HIDE DEF x
    <3>2. keymap \in [Events -> BoundActions] /\ "focus" \in Events
      BY <1>t DEF TypeOK, Events
    <3>3. ui' \in UI /\ Acted(x, ui') /\ Same(x, ui') /\ ui'.loads = x.loads
      BY <2>2, <3>1, <3>2, FireIs
    <3>4. ~ui'.lapse => ~x.lapse /\ ui'.query = x.query
      BY <2>2, <3>1, <3>2, FireIs
    <3>5. keymap["focus"] \notin {"reload", "reload_sync"} => ui'.new_command = x.new_command
      BY <2>2, <3>1, <3>2, FireIs
    <3>6. Acted(ui, ui')
      BY <1>t, <3>1, <3>3, ActedOn
    <3> QED BY <3>1, <3>3, <3>4, <3>5, <3>6 DEF Same
  <2> QED BY <2>1, <2>2 DEF Focus
<1>2. TypeOK'
  BY <1>u, <1>t, <1>1 DEF TypeOK
<1>3. ListInv'
  BY <1>u, <1>1 DEF IInv, ListInv, Known, Acted, Same
<1>4. KeyInv' /\ WakeInv' /\ ChainInv'
  BY <1>u, <1>1 DEF IInv, KeyInv, WakeInv, ChainInv, Acted, Same
<1>5. QueryInv' /\ CountInv'
  BY <1>u, <1>1 DEF IInv, QueryInv, CountInv, Booting, Latest, NewsComing, Acted, Same
<1>6. LoadInv'
  <2> DEFINE x == Flag(ui.trigger_load)
             y == Flag(ui.reading /\ ui.new_command = "none")
  <2>1. x \in {0, 1} /\ y \in {0, 1} /\ y' \in {0, 1} /\ gen \in Nat /\ ui.loads \in Nat
    BY <1>t DEF Flag, Typed, UI
  <2>2. x' = x
    BY <1>1 DEF Same
  <2>3. y' = 1 => y = 1
    BY <1>1 DEF Flag, Acted
  <2>4. keymap["focus"] \notin {"reload", "reload_sync"} => ui.loads + x + y <= gen /\ ui.new_command = "none"
    BY <1>u DEF IInv, LoadInv
  <2> HIDE DEF x, y
  <2>5. keymap["focus"] \notin {"reload", "reload_sync"} => (ui.loads + x + y <= gen)'
    BY <1>u, <1>1, <2>1, <2>2, <2>3, <2>4
  <2> QED BY <1>u, <1>1, <2>4, <2>5 DEF LoadInv, x, y
<1> QED BY <1>2, <1>3, <1>4, <1>5, <1>6 DEF IInv

\* A key.
LEMMA ProcessKeyStep ==
    IInv /\ ProcessKey /\ UNCHANGED <<wpc, r, keymap>> => IInv'
<1> SUFFICES ASSUME IInv, ProcessKey, UNCHANGED <<wpc, r, keymap>> PROVE IInv'
  OBVIOUS
<1>t. Typed /\ ui \in UI /\ TypeOK
  BY TypeFacts DEF IInv, TypeOK
<1>u. /\ UNCHANGED <<gen, count, finished, failed, rpc, req, has_req, wpc, r, keymap, batches>>
      /\ UNCHANGED <<wake_pending, pipe, result, c, upc>>
      /\ upc = "keys" /\ batch # <<>>
  BY DEF ProcessKey, readerVars, searchSlot
<1>b. Head(batch) \in Keys /\ batch' \in Seq(Keys)
  <2>1. Head(batch) \in Keys /\ Tail(batch) \in Seq(Keys) /\ <<>> \in Seq(Keys)
    BY <1>t, <1>u DEF TypeOK
  <2> QED BY <2>1 DEF ProcessKey
<1> DEFINE v == DoActions(ui, Head(batch))
           w == [v EXCEPT !.pending_change = TRUE, !.changed = TRUE, !.edited = TRUE]
<1>1. ui' = IF v.query # ui.query THEN w ELSE v
  BY DEF ProcessKey, Processed
<1>2. /\ v \in UI /\ Acted(ui, v) /\ Same(ui, v) /\ v.lapse = ui.lapse /\ v.loads = ui.loads
  <2>1. Head(batch) \in BoundActions \cup Keys /\ keymap \in [Events -> BoundActions]
    BY <1>b, <1>t DEF TypeOK
  <2> QED BY <1>t, <2>1, DoActionsIs
<1> HIDE DEF v
<1>3. /\ w \in UI /\ w.pending_change /\ w.changed /\ Same(v, w) /\ w.lapse = v.lapse /\ w.loads = v.loads
      /\ w.display = v.display /\ w.last_item_count = v.last_item_count
      /\ w.request_pending = v.request_pending /\ w.synced = v.synced /\ w.sync_gens = v.sync_gens
      /\ w.new_command = v.new_command /\ w.reading = v.reading
  BY <1>2 DEF UI, Same
<1> HIDE DEF w
<1>4. /\ ui' \in UI /\ Same(ui, ui') /\ ui'.lapse = ui.lapse /\ ui'.loads = ui.loads
      /\ ui'.display = ui.display /\ ui'.last_item_count = ui.last_item_count
      /\ ui'.request_pending = ui.request_pending /\ ui'.synced = ui.synced
      /\ ui'.sync_gens = ui.sync_gens
      /\ ui'.new_command # "none" => ui.new_command # "none" \/ gen < MaxGen
      /\ (ui'.reading /\ ui'.new_command = "none") => (ui.reading /\ ui.new_command = "none")
      /\ \/ ui'.pending_change /\ ui'.changed
         \/ /\ ui'.query = ui.query /\ ui'.pending_change = ui.pending_change
            /\ ui'.changed = ui.changed /\ ui'.edited = ui.edited
  <2>1. CASE v.query # ui.query
    <3>1. ui' = w
      BY <1>1, <2>1
    <3> QED BY <1>2, <1>3, <3>1 DEF Same, Acted
  <2>2. CASE v.query = ui.query
    <3>1. ui' = v
      BY <1>1, <2>2
    <3> QED BY <1>2, <2>2, <3>1 DEF Same, Acted
  <2> QED BY <2>1, <2>2
<1>5. TypeOK'
  BY <1>u, <1>t, <1>b, <1>4 DEF TypeOK
<1>6. ListInv'
  BY <1>u, <1>4 DEF IInv, ListInv, Known, Same
<1>7. KeyInv' /\ WakeInv' /\ ChainInv'
  BY <1>u, <1>4 DEF IInv, KeyInv, WakeInv, ChainInv, Same
<1>8. QueryInv'
  BY <1>u, <1>4 DEF IInv, QueryInv, Booting, Latest, Same
<1>9. CountInv'
  BY <1>u, <1>4 DEF IInv, CountInv, Booting, Latest, NewsComing, Same
<1>10. LoadInv'
  <2> DEFINE x == Flag(ui.trigger_load)
             y == Flag(ui.reading /\ ui.new_command = "none")
  <2>1. x \in {0, 1} /\ y \in {0, 1} /\ y' \in {0, 1} /\ gen \in Nat /\ ui.loads \in Nat
    BY <1>t DEF Flag, Typed, UI
  <2>2. x' = x
    BY <1>4 DEF Same
  <2>3. y' = 1 => y = 1
    BY <1>4 DEF Flag
  <2>4. keymap["focus"] \notin {"reload", "reload_sync"} => ui.loads + x + y <= gen
    BY DEF IInv, LoadInv
  <2> HIDE DEF x, y
  <2>5. keymap["focus"] \notin {"reload", "reload_sync"} => (ui.loads + x + y <= gen)'
    BY <1>u, <1>4, <2>1, <2>2, <2>3, <2>4
  <2> QED BY <1>u, <2>5 DEF LoadInv, x, y
<1> QED BY <1>5, <1>6, <1>7, <1>8, <1>9, <1>10 DEF IInv

\* What the end of a batch hands to a reload or to a search.
Served(u) ==
    /\ u \in UI /\ ~u.pending_change /\ ~u.changed
    /\ u.display = ui.display /\ u.merger = ui.merger /\ u.sync_gens = ui.sync_gens
    /\ u.last_item_count = ui.last_item_count /\ u.request_pending = ui.request_pending
    /\ u.edited = ui.edited /\ u.synced = ui.synced
    /\ u.loads = ui.loads /\ u.trigger_load = ui.trigger_load
    /\ ~u.lapse => ~ui.lapse /\ u.query = ui.query
    /\ u.new_command # "none" => ui.new_command # "none" \/ gen < MaxGen
    /\ (u.reading /\ u.new_command = "none") => (ui.reading /\ ui.new_command = "none")

\* The change event runs when the query was edited, then the flags are served.
LEMMA ChangeIsServed ==
    ASSUME IInv, NEW u1,
           u1 = IF ui.pending_change THEN Fire([ui EXCEPT !.pending_change = FALSE], "change") ELSE ui
    PROVE  /\ u1.changed = ui.changed
           /\ u1 \in UI
           /\ \A v \in {[u1 EXCEPT !.changed = FALSE]} : Served(v) /\ v.new_command = u1.new_command
<1> DEFINE x == [ui EXCEPT !.pending_change = FALSE]
           v == [u1 EXCEPT !.changed = FALSE]
<1>t. ui \in UI /\ TypeOK
  BY DEF IInv, TypeOK
<1>1. /\ u1 \in UI /\ ~u1.pending_change /\ u1.changed = ui.changed
      /\ u1.display = ui.display /\ Same(ui, u1) /\ u1.sync_gens = ui.sync_gens
      /\ u1.last_item_count = ui.last_item_count /\ u1.request_pending = ui.request_pending
      /\ u1.edited = ui.edited /\ u1.synced = ui.synced /\ u1.loads = ui.loads
      /\ ~u1.lapse => ~ui.lapse /\ u1.query = ui.query
      /\ u1.new_command # "none" => ui.new_command # "none" \/ gen < MaxGen
      /\ (u1.reading /\ u1.new_command = "none") => (ui.reading /\ ui.new_command = "none")
  <2>1. CASE ~ui.pending_change
    BY <1>t, <2>1 DEF Same, UI
  <2>2. CASE ui.pending_change
    <3>1. u1 = Fire(x, "change")
      BY <2>2
    <3>2. /\ x \in UI /\ ~x.pending_change /\ x.changed = ui.changed
          /\ x.display = ui.display /\ Same(ui, x) /\ x.sync_gens = ui.sync_gens
          /\ x.last_item_count = ui.last_item_count /\ x.request_pending = ui.request_pending
          /\ x.edited = ui.edited /\ x.synced = ui.synced /\ x.loads = ui.loads
          /\ x.lapse = ui.lapse /\ x.query = ui.query /\ x.new_command = ui.new_command
          /\ x.reading = ui.reading
      BY <1>t DEF UI, Same
    <3> HIDE DEF x
    <3>3. keymap \in [Events -> BoundActions] /\ "change" \in Events
      BY <1>t DEF TypeOK, Events
    <3>4. u1 \in UI /\ Acted(x, u1) /\ Same(x, u1) /\ u1.loads = x.loads
      BY <3>1, <3>2, <3>3, FireIs
    <3>5. ~u1.lapse => ~x.lapse /\ u1.query = x.query
      BY <3>1, <3>2, <3>3, FireIs
    <3> QED BY <3>2, <3>4, <3>5 DEF Acted, Same
  <2> QED BY <2>1, <2>2
<1>2. /\ v \in UI /\ ~v.changed /\ v.pending_change = u1.pending_change
      /\ v.display = u1.display /\ Same(u1, v) /\ v.sync_gens = u1.sync_gens
      /\ v.last_item_count = u1.last_item_count /\ v.request_pending = u1.request_pending
      /\ v.edited = u1.edited /\ v.synced = u1.synced /\ v.loads = u1.loads
      /\ v.lapse = u1.lapse /\ v.query = u1.query /\ v.new_command = u1.new_command
      /\ v.reading = u1.reading
  BY <1>1 DEF UI, Same
<1> HIDE DEF v
<1>3. Served(v)
  BY <1>1, <1>2 DEF Served, Same
<1> QED BY <1>1, <1>2, <1>3 DEF v

\* reload and reload-sync.
LEMMA StartReloadStep ==
    ASSUME NEW u, Served(u), u.new_command # "none"
    PROVE  (/\ IInv /\ StartReload(u) /\ UNCHANGED <<wpc, r, keymap, result, batch, batches, c>>
            /\ upc \in {"keys", "end"} /\ upc' \in {"keys", "focus"})
               => IInv'
<1> SUFFICES ASSUME IInv, StartReload(u), UNCHANGED <<wpc, r, keymap, result, batch, batches, c>>,
                    upc \in {"keys", "end"}, upc' \in {"keys", "focus"}
             PROVE  IInv'
  OBVIOUS
<1>t. Typed /\ ui \in UI /\ TypeOK
  BY TypeFacts DEF IInv, TypeOK
<1> DEFINE v == Reloading(u)
<1>g. gen < MaxGen /\ gen + 1 \in Gen /\ gen \in Nat
  <2>1. gen < MaxGen
    BY DEF Served, IInv, ListInv
  <2> QED BY <2>1, <1>t DEF Typed, Gen
<1>s. PICK spawned \in BOOLEAN :
        /\ gen' = gen + 1
        /\ finished' = [finished EXCEPT ![gen] = TRUE, ![gen + 1] = ~spawned]
        /\ failed' = ~spawned
        /\ rpc' = IF spawned THEN "feed" ELSE "done"
        /\ IF rpc = "done" THEN UNCHANGED <<wake_pending, pipe>>
           ELSE /\ wake_pending' = TRUE
                /\ pipe' = (pipe \/ ~wake_pending \/ rpc = "write")
        /\ Submit(v)
        /\ UNCHANGED count
  BY DEF StartReload
<1>1. /\ v \in UI /\ v.new_command = "none" /\ v.last_item_count = NoCount
      /\ v.merger = ui.merger /\ v.loads = ui.loads /\ v.trigger_load = ui.trigger_load
      /\ ~v.pending_change /\ ~v.changed
      /\ \/ v.display = ui.display /\ v.sync_gens = ui.sync_gens \cup {gen + 1}
         \/ v.display = gen + 1 /\ v.sync_gens = ui.sync_gens
  <2> DEFINE x == [u EXCEPT !.new_command = "none", !.reading = TRUE, !.first_tick = TRUE,
                            !.last_item_count = NoCount, !.last_finished = FALSE]
  <2>1. u \in UI
    BY DEF Served
  <2>2. NoCount \in NoCount .. MaxItems
    BY <1>t DEF Typed, NoCount
  <2>3. x \in UI
    BY <2>1, <2>2 DEF UI
  <2>4. /\ x.new_command = "none" /\ x.last_item_count = NoCount
        /\ x.merger = ui.merger /\ x.loads = ui.loads /\ x.trigger_load = ui.trigger_load
        /\ ~x.pending_change /\ ~x.changed /\ x.display = ui.display /\ x.sync_gens = ui.sync_gens
    BY <2>1 DEF UI, Served
  <2>5. v = IF u.new_command = "reload_sync" THEN [x EXCEPT !.sync_gens = @ \cup {gen + 1}]
            ELSE [x EXCEPT !.display = gen + 1, !.cy = 0]
    BY DEF Reloading
  <2> HIDE DEF x
  <2>6. CASE u.new_command = "reload_sync"
    <3>1. v = [x EXCEPT !.sync_gens = @ \cup {gen + 1}]
      BY <2>5, <2>6
    <3>2. x.sync_gens \cup {gen + 1} \in SUBSET Gen
      BY <1>g, <2>3 DEF UI
    <3> HIDE DEF v
    <3>3. v \in UI
      BY <2>3, <3>1, <3>2 DEF UI
    <3> QED BY <2>3, <2>4, <3>1, <3>3 DEF UI
  <2>7. CASE u.new_command # "reload_sync"
    <3>1. v = [x EXCEPT !.display = gen + 1, !.cy = 0]
      BY <2>5, <2>7
    <3>2. 0 \in 0 .. MaxItems
      BY <1>t DEF Typed
    <3> HIDE DEF v
    <3>3. v \in UI
      BY <1>g, <2>3, <3>1, <3>2 DEF UI
    <3> QED BY <2>3, <2>4, <3>1, <3>3 DEF UI
  <2> QED BY <2>6, <2>7
<1> HIDE DEF v
<1>2. /\ ui' \in UI /\ req' \in Search /\ has_req' = TRUE
      /\ req'.gen = v.display /\ req'.count = count[v.display]
      /\ Same(v, ui')
  BY <1>1, <1>s, <1>t, SubmittedIs DEF Submit
<1>3. /\ ui'.display = v.display /\ ui'.last_item_count = v.last_item_count
      /\ ui'.changed = v.changed /\ ui'.pending_change = v.pending_change
      /\ ui'.sync_gens = v.sync_gens /\ ui'.new_command = v.new_command /\ ui'.loads = v.loads
  BY <1>1, <1>s, SubmittedIs DEF Submit
<1>4. TypeOK'
  <2>1. finished' \in [Gen -> BOOLEAN] /\ gen' \in Gen /\ failed' \in BOOLEAN
    BY <1>g, <1>s, <1>t DEF Typed
  <2>2. wake_pending' \in BOOLEAN /\ pipe' \in BOOLEAN /\ rpc' \in {"feed", "done"}
    BY <1>s, <1>t DEF TypeOK
  <2> QED BY <1>t, <1>s, <1>2, <2>1, <2>2 DEF TypeOK
<1>5. /\ \A g \in Gen : g <= gen /\ finished[g] => finished'[g]
      /\ rpc' = "feed" => ~finished'[gen']
      /\ finished'[gen]
  <2>1. gen' \in Gen /\ gen \in Gen /\ gen' # gen /\ gen' = gen + 1 /\ Gen \subseteq Nat
    BY <1>g, <1>s, <1>t DEF Typed
  <2>2. \A g \in Gen : finished'[g] = IF g = gen' THEN ~spawned ELSE IF g = gen THEN TRUE ELSE finished[g]
    BY <1>s, <1>t, <2>1 DEF Typed
  <2>3. \A g \in Gen : g <= gen => g # gen'
    BY <1>g, <2>1
  <2>4. (\A g \in Gen : g <= gen /\ finished[g] => finished'[g]) /\ finished'[gen]
    BY <2>1, <2>2, <2>3
  <2>5. rpc' = "feed" => ~finished'[gen']
    BY <1>s, <2>1, <2>2
  <2> QED BY <2>4, <2>5
<1>6. ListInv'
  <2>1. \A s \in Search : s.gen \in Gen
    BY DEF Search
  <2>2. \A s \in Search : Known(s) => /\ s.gen <= gen'
                                      /\ s.count <= count'[s.gen]
                                      /\ s.gen \in ui'.sync_gens => finished'[s.gen] /\ s.count = count'[s.gen]
    <3> SUFFICES ASSUME NEW s \in Search, Known(s)
                 PROVE  /\ s.gen <= gen'
                        /\ s.count <= count'[s.gen]
                        /\ s.gen \in ui'.sync_gens => finished'[s.gen] /\ s.count = count'[s.gen]
      OBVIOUS
    <3>1. s.gen \in Gen /\ s.gen \in Nat /\ s.gen <= gen
      BY <1>t, <2>1 DEF Known, Typed
    <3>2. s.gen # gen + 1 /\ s.gen <= gen + 1
      BY <1>g, <3>1
    <3>3. s.gen \in ui'.sync_gens => s.gen \in ui.sync_gens
      BY <1>1, <1>3, <3>2
    <3> QED BY <1>s, <1>5, <3>1, <3>2, <3>3 DEF Known
  <2>3. r \in Search /\ ui.merger \in Search /\ \A m \in result : m \in Search
    BY <1>t DEF Typed, TypeOK
  <2>4. Known(r)' /\ Known(ui.merger)' /\ (\A m \in result : Known(m))'
    BY <1>1, <1>2, <2>2, <2>3 DEF IInv, ListInv, Known, Same
  <2>5. /\ ui'.display <= gen' /\ ui'.display \in Gen
        /\ ui'.display \in ui'.sync_gens => finished'[ui'.display]
        /\ \A g \in ui'.sync_gens : 1 < g /\ g <= gen'
    <3>1. \A g \in ui.sync_gens : 1 < g /\ g <= gen /\ g \in Nat
      BY <1>t DEF IInv, ListInv, Typed
    <3>2. ui.display <= gen /\ ui.display \in Nat /\ ui.display \in Gen
      BY <1>t DEF IInv, ListInv, Typed
    <3>3. ui.display \in ui.sync_gens => finished[ui.display]
      BY DEF IInv, ListInv
    <3>4. 1 <= gen
      BY <1>t DEF Typed, Gen
    <3>5. CASE v.display = ui.display /\ v.sync_gens = ui.sync_gens \cup {gen + 1}
      <4>1. ui'.display <= gen' /\ ui'.display \in Gen
        BY <1>g, <1>s, <1>3, <3>2, <3>5
      <4>2. ui.display # gen + 1
        BY <1>g, <3>2
      <4>3. ui'.display \in ui'.sync_gens => finished'[ui'.display]
        BY <1>3, <1>5, <3>2, <3>3, <3>5, <4>2
      <4>4. \A g \in ui'.sync_gens : 1 < g /\ g <= gen'
        BY <1>g, <1>s, <1>3, <3>1, <3>4, <3>5
      <4> QED BY <4>1, <4>3, <4>4
    <3>6. CASE v.display = gen + 1 /\ v.sync_gens = ui.sync_gens
      BY <1>g, <1>s, <1>3, <3>1, <3>6
    <3> QED BY <1>1, <3>5, <3>6
  <2>6. count[ui'.display] \in Nat
    BY <1>t, <2>5 DEF Typed
  <2>7. count'[ui'.display] <= count'[ui'.display] /\ NoCount <= count'[ui'.display]
    BY <1>s, <2>6 DEF NoCount
  <2>8. Known(req)'
    BY <1>s, <1>2, <1>3, <2>5, <2>7 DEF Known
  <2> QED BY <1>1, <1>3, <1>5, <2>4, <2>5, <2>7, <2>8 DEF ListInv
<1>7. KeyInv'
  BY <1>1, <1>3 DEF KeyInv
<1>8. WakeInv'
  BY <1>s, <1>t DEF IInv, WakeInv, TypeOK
<1>9. QueryInv' /\ CountInv' /\ ChainInv'
  BY <1>1, <1>6, <1>s, <1>t, Submits
<1>10. LoadInv'
  <2> DEFINE x == Flag(ui.trigger_load)
             y == Flag(ui.reading /\ ui.new_command = "none")
  <2>1. x \in {0, 1} /\ y \in {0, 1} /\ y' \in {0, 1} /\ ui.loads \in Nat
    BY <1>t DEF Flag, UI
  <2>2. x' = x
    BY <1>1, <1>2 DEF Same
  <2>4. keymap["focus"] \notin {"reload", "reload_sync"} => ui.loads + x + y <= gen
    BY DEF IInv, LoadInv
  <2> HIDE DEF x, y
  <2>5. keymap["focus"] \notin {"reload", "reload_sync"} => (ui.loads + x + y <= gen)'
    BY <1>g, <1>s, <1>1, <1>3, <2>1, <2>2, <2>4
  <2> QED BY <1>1, <1>3, <2>5 DEF LoadInv, x, y
<1> QED BY <1>4, <1>6, <1>7, <1>8, <1>9, <1>10 DEF IInv

\* A query edited in the same read is searched here and now.
LEMMA ResyncStep ==
    IInv /\ Resync /\ UNCHANGED <<wpc, r, keymap>> => IInv'
<1> SUFFICES ASSUME IInv, Resync, UNCHANGED <<wpc, r, keymap>> PROVE IInv'
  OBVIOUS
<1>t. Typed /\ ui \in UI /\ TypeOK
  BY TypeFacts DEF IInv, TypeOK
<1> DEFINE u == Fire([ui EXCEPT !.pending_change = FALSE], "change")
           v == [u EXCEPT !.changed = FALSE]
<1>u. UNCHANGED <<result, upc, batch, batches, c>> /\ upc = "keys" /\ ui.pending_change
  BY DEF Resync, ttyVars
<1>1. /\ u.new_command # "none" => StartReload(v)
      /\ u.new_command = "none" => /\ ui' = IF u.changed THEN SubmitSync(v) ELSE u
                                   /\ UNCHANGED <<gen, count, finished, failed, rpc>>
                                   /\ UNCHANGED <<wake_pending, pipe, req, has_req>>
  BY DEF Resync, readerVars, searchSlot
<1>2. u = IF ui.pending_change THEN u ELSE ui
  BY <1>u
<1> HIDE DEF u
<1>3. u.changed = ui.changed /\ Served(v) /\ v.new_command = u.new_command
  <2>1. u = IF ui.pending_change THEN Fire([ui EXCEPT !.pending_change = FALSE], "change") ELSE ui
    BY <1>2, <1>u DEF u
  <2>2. /\ u.changed = ui.changed
        /\ \A y \in {[u EXCEPT !.changed = FALSE]} : Served(y) /\ y.new_command = u.new_command
    BY <2>1, ChangeIsServed
  <2> QED BY <2>2
<1> HIDE DEF v
<1>4. CASE u.new_command # "none"
  <2>1. StartReload(v) /\ v.new_command # "none"
    BY <1>1, <1>3, <1>4
  <2> QED BY <1>u, <1>3, <2>1, StartReloadStep
<1>5. CASE u.new_command = "none"
  <2>c. ui.changed
    BY <1>u DEF IInv, KeyInv
  <2> DEFINE now == Now(v, count)
             x == [v EXCEPT !.request_pending = FALSE, !.synced = TRUE, !.lapse = FALSE]
  <2>1. ui' = Install(x, now)
    BY <1>1, <1>3, <1>5, <2>c DEF SubmitSync
  <2>2. /\ UNCHANGED <<gen, count, finished, failed, rpc, wake_pending, pipe, req, has_req, wpc, r, keymap>>
        /\ UNCHANGED <<result, upc, batch, batches, c>>
    BY <1>1, <1>5, <1>u
  <2>v. v \in UI
    BY <1>3 DEF Served
  <2>3. now.gen = ui.display /\ now.count = count[ui.display] /\ now.query = v.query /\ now \in Search
    <3>1. now.gen = v.display /\ now.count = count[v.display] /\ now.query = v.query /\ now \in Search
      BY <1>t, <2>v, SubmittedIs
    <3> QED BY <1>3, <3>1 DEF Served
  <2> HIDE DEF now
  <2>4. /\ x \in UI /\ x.synced /\ ~x.request_pending /\ ~x.pending_change /\ x.query = v.query
        /\ x.display = ui.display /\ x.sync_gens = ui.sync_gens
        /\ x.last_item_count = ui.last_item_count /\ x.edited = ui.edited
        /\ x.loads = ui.loads /\ x.trigger_load = ui.trigger_load
        /\ x.new_command # "none" => ui.new_command # "none" \/ gen < MaxGen
        /\ (x.reading /\ x.new_command = "none") => (ui.reading /\ ui.new_command = "none")
    <3>1. /\ x \in UI /\ x.synced /\ ~x.request_pending /\ x.pending_change = v.pending_change
          /\ x.query = v.query /\ x.display = v.display /\ x.sync_gens = v.sync_gens
          /\ x.last_item_count = v.last_item_count /\ x.edited = v.edited
          /\ x.loads = v.loads /\ x.trigger_load = v.trigger_load
          /\ x.new_command = v.new_command /\ x.reading = v.reading
      BY <2>v DEF UI
    <3> HIDE DEF x
    <3> QED BY <1>3, <3>1 DEF Served
  <2> HIDE DEF x
  <2>k. keymap \in [Events -> BoundActions]
    BY <1>t DEF TypeOK
  <2>5. ui' \in UI /\ Acted(x, ui') /\ ui'.merger = now /\ ~ui'.trigger_load
    BY <2>1, <2>3, <2>4, <2>k, InstallIs
  <2>6. ~ui'.lapse => ui'.query = x.query
    BY <2>1, <2>3, <2>4, <2>k, InstallIs
  <2>7. ui'.loads <= x.loads + Flag(x.trigger_load)
    BY <2>1, <2>3, <2>4, <2>k, InstallIs
  <2>8. /\ ui'.display = ui.display /\ ui'.sync_gens = ui.sync_gens
        /\ ui'.last_item_count = ui.last_item_count /\ ui'.edited = ui.edited
        /\ ui'.synced /\ ~ui'.request_pending /\ ~ui'.pending_change
        /\ ui'.new_command # "none" => ui.new_command # "none" \/ gen < MaxGen
        /\ (ui'.reading /\ ui'.new_command = "none") => (ui.reading /\ ui.new_command = "none")
    BY <2>4, <2>5 DEF Acted
  <2>9. ~ui'.lapse => ui'.merger.query = ui'.query
    BY <2>3, <2>4, <2>5, <2>6
  <2>10. TypeOK'
    BY <1>t, <2>2, <2>5 DEF TypeOK
  <2>11. ListInv'
    <3>1. Known(ui.merger)'
      <4>1. ui.display <= gen /\ (ui.display \in ui.sync_gens => finished[ui.display])
        BY DEF IInv, ListInv
      <4>2. count[ui.display] <= count[ui.display]
        <5>1. count[ui.display] \in Nat
          BY <1>t DEF Typed
        <5> QED BY <5>1
      <4> QED BY <2>2, <2>3, <2>5, <2>8, <4>1, <4>2 DEF Known
    <3>2. Known(req)' /\ Known(r)' /\ (\A m \in result : Known(m))'
      BY <2>2, <2>8 DEF IInv, ListInv, Known
    <3> QED BY <1>u, <2>2, <2>8, <3>1, <3>2 DEF IInv, ListInv
  <2>12. KeyInv' /\ WakeInv' /\ ChainInv'
    BY <1>u, <2>2, <2>8, <2>9 DEF IInv, KeyInv, WakeInv, ChainInv
  <2>13. QueryInv' /\ CountInv'
    <3>1. Latest' = now
      BY <2>5, <2>8 DEF Latest
    <3>2. ui.last_item_count <= count[ui.display]
      BY DEF IInv, ListInv
    <3> QED BY <1>u, <2>2, <2>3, <2>5, <2>8, <2>9, <3>1, <3>2 DEF QueryInv, CountInv
  <2>14. LoadInv'
    <3> DEFINE a == Flag(ui.trigger_load)
               b == Flag(ui.reading /\ ui.new_command = "none")
    <3>1. /\ a \in {0, 1} /\ b \in {0, 1} /\ b' \in {0, 1} /\ gen \in Nat
          /\ ui.loads \in Nat /\ ui'.loads \in Nat
      BY <1>t, <2>5 DEF Flag, Typed, UI
    <3>2. a' = 0
      BY <2>5 DEF Flag
    <3>3. b' = 1 => b = 1
      BY <2>8 DEF Flag
    <3>4. ui'.loads <= ui.loads + a
      BY <2>4, <2>7
    <3>5. keymap["focus"] \notin {"reload", "reload_sync"} => ui.loads + a + b <= gen
      BY DEF IInv, LoadInv
    <3> HIDE DEF a, b
    <3>6. keymap["focus"] \notin {"reload", "reload_sync"} => (ui.loads + a + b <= gen)'
      BY <2>2, <3>1, <3>2, <3>3, <3>4, <3>5
    <3> QED BY <1>u, <2>2, <3>6 DEF LoadInv, a, b
  <2> QED BY <2>10, <2>11, <2>12, <2>13, <2>14 DEF IInv
<1> QED BY <1>4, <1>5

\* The end of a batch: the change event, then the reload or the search.
LEMMA EndOfBatchStep ==
    IInv /\ EndOfBatch /\ UNCHANGED <<wpc, r, keymap>> => IInv'
<1> SUFFICES ASSUME IInv, EndOfBatch, UNCHANGED <<wpc, r, keymap>> PROVE IInv'
  OBVIOUS
<1>t. Typed /\ ui \in UI /\ TypeOK
  BY TypeFacts DEF IInv, TypeOK
<1> DEFINE u1 == IF ui.pending_change THEN Fire([ui EXCEPT !.pending_change = FALSE], "change") ELSE ui
           u == [u1 EXCEPT !.changed = FALSE]
<1>u. UNCHANGED <<result, batch, batches, c>> /\ upc = "end" /\ upc' = "focus"
  BY DEF EndOfBatch, ttyVars
<1>1. \/ u1.new_command # "none" /\ StartReload(u)
      \/ /\ u1.new_command = "none"
         /\ IF u1.changed THEN Submit(u) ELSE ui' = u /\ UNCHANGED <<req, has_req>>
         /\ UNCHANGED <<gen, count, finished, failed, rpc, wake_pending, pipe>>
  BY DEF EndOfBatch, readerVars, searchSlot
<1>2. u1.changed = ui.changed /\ Served(u) /\ u.new_command = u1.new_command
  <2> DEFINE z == u1
  <2>1. z = IF ui.pending_change THEN Fire([ui EXCEPT !.pending_change = FALSE], "change") ELSE ui
    OBVIOUS
  <2> HIDE DEF z
  <2>2. /\ z.changed = ui.changed
        /\ \A y \in {[z EXCEPT !.changed = FALSE]} : Served(y) /\ y.new_command = z.new_command
    BY <2>1, ChangeIsServed
  <2> QED BY <2>2 DEF z
<1>3. ~ui.changed => ~ui.pending_change /\ u1 = ui
  BY DEF IInv, KeyInv
<1>n. ~ui.changed => u.query = ui.query /\ u.lapse = ui.lapse
  BY <1>3, <1>t DEF UI
<1> HIDE DEF u, u1
<1>4. CASE u1.new_command # "none" /\ StartReload(u)
  <2>1. u.new_command # "none"
    BY <1>2, <1>4
  <2> QED BY <1>u, <1>2, <1>4, <2>1, StartReloadStep
<1>5. CASE /\ u1.new_command = "none"
           /\ IF u1.changed THEN Submit(u) ELSE ui' = u /\ UNCHANGED <<req, has_req>>
           /\ UNCHANGED <<gen, count, finished, failed, rpc, wake_pending, pipe>>
  <2>1. /\ UNCHANGED <<gen, count, finished, failed, rpc, wake_pending, pipe, wpc, r, keymap>>
        /\ UNCHANGED <<result, batch, batches, c>>
    BY <1>5, <1>u
  <2>v. u \in UI
    BY <1>2 DEF Served
  <2>2. /\ ui' \in UI /\ Same(u, ui')
        /\ ui'.display = u.display /\ ui'.last_item_count = u.last_item_count
        /\ ui'.pending_change = u.pending_change /\ ui'.sync_gens = u.sync_gens
        /\ ui'.new_command = u.new_command /\ ui'.reading = u.reading /\ ui'.loads = u.loads
    <3>1. CASE u1.changed
      <4>1. ui' = Submitted(u)
        BY <1>5, <3>1 DEF Submit
      <4> QED BY <2>v, <4>1, SubmittedIs
    <3>2. CASE ~u1.changed
      <4>1. ui' = u
        BY <1>5, <3>2
      <4> QED BY <2>v, <4>1 DEF Same
    <3> QED BY <3>1, <3>2
  <2>3. /\ ui'.display = ui.display /\ ui'.sync_gens = ui.sync_gens /\ ui'.loads = ui.loads
        /\ ui'.last_item_count = ui.last_item_count /\ Same(ui, ui')
        /\ ~ui'.pending_change /\ ui'.new_command = "none"
        /\ ui'.reading => ui.reading /\ ui.new_command = "none"
    BY <1>2, <1>5, <2>2 DEF Served, Same
  <2>4. TypeOK'
    <3>1. req' \in Search /\ has_req' \in BOOLEAN
      <4>1. Now(u, count) \in Search
        BY <1>t, <2>v, SubmittedIs
      <4> QED BY <1>5, <1>t, <4>1 DEF Submit, TypeOK
    <3> QED BY <1>t, <1>u, <2>1, <2>2, <3>1 DEF TypeOK
  <2>5. ListInv'
    <3>1. Known(req)'
      <4>1. CASE u1.changed
        <5>1. req'.gen = u.display /\ req'.count = count[u.display]
          BY <1>5, <2>v, <4>1, SubmittedIs DEF Submit
        <5>2. ui.display <= gen /\ (ui.display \in ui.sync_gens => finished[ui.display])
          BY DEF IInv, ListInv
        <5>3. count[ui.display] <= count[ui.display]
          <6>1. count[ui.display] \in Nat
            BY <1>t DEF Typed
          <6> QED BY <6>1
        <5> QED BY <2>1, <2>2, <2>3, <5>1, <5>2, <5>3 DEF Known
      <4>2. CASE ~u1.changed
        <5>1. UNCHANGED req
          BY <1>5, <4>2
        <5> QED BY <2>1, <2>3, <5>1 DEF IInv, ListInv, Known
      <4> QED BY <4>1, <4>2
    <3>2. Known(r)' /\ Known(ui.merger)' /\ (\A m \in result : Known(m))'
      BY <2>1, <2>3 DEF IInv, ListInv, Known, Same
    <3> QED BY <1>u, <2>1, <2>3, <3>1, <3>2 DEF IInv, ListInv
  <2>6. KeyInv' /\ WakeInv'
    BY <1>u, <2>1, <2>3 DEF IInv, KeyInv, WakeInv
  <2>7. QueryInv' /\ CountInv' /\ ChainInv'
    <3>1. CASE u1.changed
      <4>1. Submit(u) /\ UNCHANGED count /\ upc' # "progress_finished"
        BY <1>5, <1>u, <3>1
      <4> QED BY <1>t, <2>v, <2>5, <4>1, Submits
    <3>2. CASE ~u1.changed
      <4>1. ui' = u /\ UNCHANGED <<req, has_req>> /\ ~ui.changed
        BY <1>2, <1>5, <3>2
      <4>2. /\ ui'.query = ui.query /\ ui'.lapse = ui.lapse /\ ui'.synced = ui.synced
            /\ ui'.request_pending = ui.request_pending /\ ~ui.pending_change
        BY <1>2, <1>3, <1>n, <4>1 DEF Served
      <4>3. Latest' = Latest
        BY <2>3, <4>1, <4>2 DEF Latest, Same
      <4>4. QueryInv'
        BY <1>u, <2>1, <2>3, <4>2, <4>3 DEF IInv, QueryInv, Booting
      <4>5. CountInv'
        BY <1>u, <2>1, <2>3, <4>2, <4>3 DEF IInv, CountInv, Booting, NewsComing
      <4>6. ChainInv'
        BY <1>u, <2>1, <2>3, <4>1, <4>2 DEF IInv, ChainInv, Same
      <4> QED BY <4>4, <4>5, <4>6
    <3> QED BY <3>1, <3>2
  <2>8. LoadInv'
    <3> DEFINE a == Flag(ui.trigger_load)
               b == Flag(ui.reading /\ ui.new_command = "none")
    <3>1. /\ a \in {0, 1} /\ b \in {0, 1} /\ b' \in {0, 1} /\ gen \in Nat /\ ui.loads \in Nat
      BY <1>t DEF Flag, Typed, UI
    <3>2. a' = a
      BY <2>3 DEF Same
    <3>3. b' = 1 => b = 1
      BY <2>3 DEF Flag
    <3>4. keymap["focus"] \notin {"reload", "reload_sync"} => ui.loads + a + b <= gen
      BY DEF IInv, LoadInv
    <3> HIDE DEF a, b
    <3>5. keymap["focus"] \notin {"reload", "reload_sync"} => (ui.loads + a + b <= gen)'
      BY <2>1, <2>3, <3>1, <3>2, <3>3, <3>4
    <3> QED BY <1>u, <2>1, <2>3, <3>5 DEF LoadInv, a, b
  <2> QED BY <2>4, <2>5, <2>6, <2>7, <2>8 DEF IInv
<1> QED BY <1>1, <1>4, <1>5

LEMMA NextIInv ==
    IInv /\ [Next]_vars => IInv'
<1> SUFFICES ASSUME IInv, [Next]_vars PROVE IInv'
  OBVIOUS
<1>1. CASE Main
  <2> USE <1>1 DEF Main
  <2>1. CASE Boot \/ BootCount
    BY <2>1, BootStep
  <2>2. CASE BootSearch
    BY <2>2, BootSearchStep
  <2>3. CASE BootFinished
    BY <2>3, BootFinishedStep
  <2>4. ASSUME NEW keys \in Batches \cup {<<>>}, Select(keys) \/ Drain \/ Ack \/ KeysDone \/ Leave
        PROVE  IInv'
    BY <2>4, WakeUpStep
  <2>5. CASE Progress
    BY <2>5, ProgressStep
  <2>6. ASSUME NEW due \in BOOLEAN, ProgressFinished(due)
        PROVE  IInv'
    BY <2>6, ProgressFinishedStep
  <2>7. CASE Take
    BY <2>7, TakeStep
  <2>8. CASE Resync
    BY <2>8, ResyncStep
  <2>9. CASE ProcessKey
    BY <2>9, ProcessKeyStep
  <2>10. CASE EndOfBatch
    BY <2>10, EndOfBatchStep
  <2>11. CASE Focus
    BY <2>11, FocusStep
  <2>12. <<>> \in Batches \cup {<<>>}
    OBVIOUS
  <2> QED BY <2>1, <2>2, <2>3, <2>4, <2>5, <2>6, <2>7, <2>8, <2>9, <2>10, <2>11, <2>12
<1>2. CASE UNCHANGED vars
  <2>1. TypeOK' /\ ListInv' /\ KeyInv' /\ LoadInv'
    BY <1>2 DEF vars, IInv, TypeOK, ListInv, Known, KeyInv, LoadInv
  <2>2. WakeInv' /\ QueryInv' /\ CountInv' /\ ChainInv'
    BY <1>2 DEF vars, IInv, WakeInv, QueryInv, CountInv, ChainInv, Latest, Booting, NewsComing
  <2> QED BY <2>1, <2>2 DEF IInv
<1> QED BY <1>1, <1>2, ReaderStep, WorkerStep, TimerStep DEF Next

LEMMA Invariant ==
    Spec => []IInv
<1> QED BY InitIInv, NextIInv, PTL DEF Spec

-----------------------------------------------------------------------------
(* Theorems. *)

\* Every variable keeps its type: the actions that events run, one after the
\* other in one handler, never put the terminal's own state (terminal.cpp) out
\* of its range, and a reload never runs out of lists.
THEOREM TypeCorrect ==
    Spec => []TypeOK
<1>1. IInv => TypeOK
  BY DEF IInv
<1> QED BY <1>1, Invariant, PTL

\* A list made by reload-sync is shown whole or not at all
\* (on_reader_progress(), terminal.cpp), and load fires at most once for each
\* list as long as the focus event does not reload.
THEOREM Whole ==
    Spec => []ListsLoadWhole
<1>1. IInv => ListsLoadWhole
  <2> SUFFICES ASSUME IInv PROVE ListsLoadWhole
    OBVIOUS
  <2>1. SyncListIsComplete
    BY DEF IInv, ListInv, Known, SyncListIsComplete
  <2>2. LoadsOncePerList
    <3>1. Flag(ui.trigger_load) \in {0, 1} /\ Flag(ui.reading /\ ui.new_command = "none") \in {0, 1}
      BY DEF Flag
    <3>2. ui.loads \in Nat /\ gen \in Nat
      BY TypeFacts DEF IInv, TypeOK, UI, Typed
    <3> QED BY <3>1, <3>2 DEF IInv, LoadInv, LoadsOncePerList
  <2> QED BY <2>1, <2>2 DEF ListsLoadWhole
<1> QED BY <1>1, Invariant, PTL

\* A query edited in the same read of the tty was searched before accept takes
\* the item under the cursor (run(), terminal.cpp), unless a reload was just
\* started instead.
THEOREM Accept ==
    Spec => AcceptSeesQuery
<1> DEFINE Sees == (/\ upc = "keys" /\ batch # <<>> /\ Head(batch) = "accept"
                    /\ upc' = "keys" /\ Len(batch') < Len(batch)
                    /\ ui.edited /\ ~ui.lapse /\ ui.last_item_count # NoCount)
                        => ui.merger.query = ui.query
<1>1. IInv /\ [Next]_vars => [Sees]_vars
  <2> SUFFICES ASSUME IInv, Next, upc = "keys", batch # <<>>, Head(batch) = "accept",
                      upc' = "keys", Len(batch') < Len(batch), ui.edited, ~ui.lapse,
                      ui.last_item_count # NoCount
               PROVE  ui.merger.query = ui.query
    OBVIOUS
  <2>1. batch' # batch
    <3>1. Len(batch) \in Nat
      BY DEF IInv, TypeOK
    <3> QED BY <3>1
  <2>2. ~Reader /\ ~Worker /\ ~Timer
    BY <2>1 DEF Reader, Worker, Timer, ttyVars
  <2>3. ProcessKey
    BY <2>1, <2>2 DEF Next, Main, Boot, BootSearch, BootCount, BootFinished, Select, Drain, Ack, Progress,
                      ProgressFinished, Take, Resync, KeysDone, EndOfBatch, Focus, Leave, ttyVars
  <2>4. ~ui.pending_change
    BY <2>3 DEF ProcessKey
  <2> QED BY <2>4 DEF IInv, KeyInv
<1> QED BY <1>1, Invariant, PTL DEF Spec, AcceptSeesQuery

\* Once everything is at rest, the list on the screen is that of the current
\* query over every item published, unless one of the code's three gaps was met
\* since the last search (terminal.cpp, searcher.cpp and reader.cpp together):
\* no wake, throttled or cancelled search, reload or key loses an update.
THEOREM AtRest ==
    Spec => []NothingUnsearched
<1>1. IInv => NothingUnsearched
  <2> SUFFICES ASSUME IInv, Quiescent, ~ui.lapse PROVE Current
    BY DEF NothingUnsearched
  <2>1. Typed
    BY TypeFacts DEF IInv
  <2>2. ~ui.pending_change
    BY DEF IInv, KeyInv, Quiescent
  <2>3. Latest.query = ui.query /\ Latest.gen = ui.display
    BY <2>2 DEF IInv, QueryInv, Quiescent, Booting
  <2>4. count[ui.display] = Latest.count
    BY <2>3 DEF IInv, CountInv, Quiescent, Booting, NewsComing
  <2>5. ui.merger = Latest
    BY DEF IInv, ChainInv, Quiescent, Latest
  <2>6. ui.merger = [gen |-> ui.merger.gen, count |-> ui.merger.count, query |-> ui.merger.query]
    BY <2>1 DEF Typed, Search
  <2> QED BY <2>3, <2>4, <2>5, <2>6 DEF Current, Now
<1> QED BY <1>1, Invariant, PTL
=============================================================================
