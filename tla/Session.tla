------------------------------ MODULE Session ------------------------------
(***************************************************************************)
(* How the terminal keeps the list it shows up to date (terminal.cpp): the *)
(* main loop follows the reader thread, which publishes items and wakes it *)
(* through a pipe, posts searches to the worker thread, installs their     *)
(* results, and runs the actions bound to keys and to the events that all  *)
(* this fires; reload and reload-sync replace the list while it goes on.   *)
(*                                                                         *)
(* The reader's list is a count here (ChunkList has the detail) and the    *)
(* search worker takes, drops and publishes requests (Searcher has the     *)
(* detail).  Preview, selection and layout are left out; a clock is left   *)
(* out too: a deadline is in the future or in the past.                    *)
(***************************************************************************)
EXTENDS Integers, Sequences

CONSTANTS
    MaxItems,      \* bound: items per list
    MaxGen,        \* bound: lists, the first and one for each reload
    MaxEdits,      \* bound: queries, 0 .. MaxEdits; an edit types the next one
    MaxBatches,    \* bound: reads of the tty
    Sync,          \* --sync: the first list is complete before the loop starts
    Hits,          \* the queries that every item matches; the others match none
    Bindings,      \* keymaps: what is bound to each event
    Batches        \* the keys that one read of the tty may return

Events == {"start", "load", "zero", "one", "result", "result_final", "change", "focus"}
BoundActions == {"none", "edit", "reload", "reload_sync", "accept"}
Keys == {"edit", "move", "reload", "reload_sync", "accept"}

ASSUME SessionAssumption ==
    /\ {MaxItems, MaxGen} \subseteq Nat \ {0}
    /\ {MaxEdits, MaxBatches} \subseteq Nat
    /\ Sync \in BOOLEAN
    /\ Hits \subseteq 0 .. MaxEdits
    /\ 0 \in Hits
    /\ Bindings \subseteq [Events -> BoundActions]
    /\ Batches \subseteq Seq(Keys) \ {<<>>}

NoBinding == [e \in Events |-> "none"]

Gen == 1 .. MaxGen
Query == 0 .. MaxEdits

VARIABLES
    gen,           \* the reader's list
    count,         \* count of each list
    finished,      \* finished_ of each list
    failed,        \* failed_: the command of the reader's list failed
    rpc,           \* what the reader thread does next
    wake_pending,  \* wake_pending_ of the reader
    pipe,          \* a byte is in the wake pipe
    req, has_req,  \* the searcher's slot
    wpc, r,        \* the search worker and its request
    result,        \* result_: a set of at most one search
    keymap,        \* keymap_
    upc,           \* what the main loop does next
    batch,         \* keys that were read and not processed yet
    batches,       \* history: number of reads of the tty
    c,             \* on_reader_progress: the count it read
    ui             \* the terminal's own state

readerVars == <<gen, count, finished, failed, rpc>>
workerVars == <<req, has_req, wpc, r>>
ttyVars    == <<batch, batches>>
vars == <<gen, count, finished, failed, rpc, wake_pending, pipe, req, has_req, wpc, r, result,
          keymap, upc, batch, batches, c, ui>>

Search == [gen : Gen, count : 0 .. MaxItems, query : Query]

\* No count was seen yet: SIZE_MAX.
NoCount == -1

UI == [display : Gen,                     \* display_list_
       merger : Search,                   \* merger_
       query : Query,                     \* input_
       cy : 0 .. MaxItems,                \* cy_
       last_focus : -1 .. MaxItems,       \* last_focus_; -1 is kMinItemIndex
       reading : BOOLEAN, trigger_load : BOOLEAN, failed_command : BOOLEAN,
       last_item_count : NoCount .. MaxItems, last_finished : BOOLEAN,
       first_tick : BOOLEAN,              \* read_ticks_ = 0
       request_pending : BOOLEAN,
       deadline_passed : BOOLEAN,         \* request_deadline_ is over
       changed : BOOLEAN, pending_change : BOOLEAN,
       new_command : {"none", "reload", "reload_sync"},
       exit : BOOLEAN,                    \* exit_ # None
       \* Histories: a key of this read edited the query; the newest search was made
       \* on this thread; a stale display
       \* is owed to one of the code's gaps (see NothingUnsearched); loads fired;
       \* the lists made by reload-sync.
       edited : BOOLEAN, synced : BOOLEAN, lapse : BOOLEAN, loads : Nat,
       sync_gens : SUBSET Gen]

Empty == [gen |-> 1, count |-> 0, query |-> 0]

\* Merger::size()
Size(s) == IF s.query \in Hits THEN s.count ELSE 0
\* current_index()
Index(u) == IF u.cy < Size(u.merger) THEN u.cy ELSE -1

Init ==
    /\ gen = 1
    /\ count \in [Gen -> 0 .. MaxItems]
    /\ \A g \in Gen : (g > 1 \/ ~Sync) => count[g] = 0
    /\ finished = [g \in Gen |-> g = 1 /\ Sync]
    /\ failed \in BOOLEAN
    /\ failed => Sync
    /\ rpc = IF Sync THEN "done" ELSE "feed"
    /\ wake_pending = FALSE
    /\ pipe = FALSE
    /\ req = Empty /\ has_req = FALSE
    /\ wpc = "wait" /\ r = Empty
    /\ result = {}
    /\ keymap \in Bindings
    /\ upc = "boot"
    /\ batch = <<>> /\ batches = 0
    /\ c = 0
    /\ ui = [display |-> 1, merger |-> Empty, query |-> 0, cy |-> 0, last_focus |-> -1,
             reading |-> TRUE, trigger_load |-> FALSE, failed_command |-> FALSE,
             last_item_count |-> NoCount, last_finished |-> FALSE, first_tick |-> TRUE,
             request_pending |-> FALSE, deadline_passed |-> FALSE,
             changed |-> FALSE, pending_change |-> FALSE, new_command |-> "none",
             exit |-> FALSE, edited |-> FALSE, synced |-> FALSE, lapse |-> FALSE, loads |-> 0,
             sync_gens |-> {}]

-----------------------------------------------------------------------------
(* The reader thread: run(). *)

ReaderAppend ==
    /\ rpc = "feed"
    /\ count[gen] < MaxItems
    /\ count' = [count EXCEPT ![gen] = @ + 1]
    /\ rpc' = "wake"
    /\ UNCHANGED <<gen, finished, failed, wake_pending>>

ReaderFinish ==
    /\ rpc = "feed"
    /\ finished' = [finished EXCEPT ![gen] = TRUE]
    /\ rpc' = "reap"
    /\ UNCHANGED <<gen, count, failed, wake_pending>>

\* waitpid() returns after the list was finished; only then is failed_ set.
ReaderReap ==
    /\ rpc = "reap"
    /\ failed' \in BOOLEAN
    /\ rpc' = "wake"
    /\ UNCHANGED <<gen, count, finished, wake_pending>>

AfterWake == IF finished[gen] THEN "done" ELSE "feed"

\* wake(): nothing before the terminal has set the callback; then
\* wake_pending_.exchange(true), and a byte only if it was false.
ReaderWake ==
    /\ rpc = "wake"
    /\ IF upc = "boot" THEN rpc' = AfterWake /\ UNCHANGED wake_pending
       ELSE /\ wake_pending' = TRUE
            /\ rpc' = IF wake_pending THEN AfterWake ELSE "write"
    /\ UNCHANGED <<gen, count, finished, failed>>

ReaderWrite ==
    /\ rpc = "write"
    /\ pipe' = TRUE
    /\ rpc' = AfterWake
    /\ UNCHANGED <<gen, count, finished, failed, wake_pending>>

Reader ==
    /\ \/ /\ ReaderAppend \/ ReaderFinish \/ ReaderReap \/ ReaderWake
          /\ UNCHANGED pipe
       \/ ReaderWrite
    /\ UNCHANGED <<workerVars, result, keymap, upc, ttyVars, c, ui>>

-----------------------------------------------------------------------------
(* The search worker: Searcher::loop(). *)

WorkerTake ==
    /\ wpc = "wait"
    /\ has_req
    /\ r' = req
    /\ has_req' = FALSE
    /\ wpc' = "scan"
    /\ UNCHANGED <<req, result, pipe>>

\* A newer request cancels the scan.
WorkerDrop ==
    /\ wpc = "scan"
    /\ has_req
    /\ wpc' = "wait"
    /\ UNCHANGED <<req, has_req, r, result, pipe>>

WorkerPublish ==
    /\ wpc = "scan"
    /\ result' = {r}
    /\ wpc' = "wake"
    /\ UNCHANGED <<req, has_req, r, pipe>>

WorkerWake ==
    /\ wpc = "wake"
    /\ pipe' = TRUE
    /\ wpc' = "wait"
    /\ UNCHANGED <<req, has_req, r, result>>

Worker ==
    /\ WorkerTake \/ WorkerDrop \/ WorkerPublish \/ WorkerWake
    /\ UNCHANGED <<readerVars, wake_pending, keymap, upc, ttyVars, c, ui>>

-----------------------------------------------------------------------------
(* Actions and events.  They only touch the terminal's own state, so each is *)
(* an operator on it and a handler that runs several composes them.          *)

\* What one action does: do_action().
Do(u, a) ==
    CASE a = "edit" /\ u.query < MaxEdits -> [u EXCEPT !.query = @ + 1]
      [] a = "move" /\ u.cy + 1 < Size(u.merger) -> [u EXCEPT !.cy = @ + 1]
      [] a \in {"reload", "reload_sync"} /\ gen < MaxGen ->
            [u EXCEPT !.new_command = a, !.reading = TRUE, !.failed_command = FALSE]
      [] a = "accept" -> [u EXCEPT !.exit = TRUE]
      [] OTHER -> u

\* do_actions(): an action that moves to another item runs the focus actions.
DoActions(u, a) ==
    LET v == Do(u, a) IN
    IF keymap["focus"] # "none" /\ ~v.exit /\ Index(v) # Index(u)
      THEN Do([v EXCEPT !.last_focus = Index(v)], keymap["focus"])
      ELSE v

\* fire_event(): it does not compare the query before and after.
Fire(u, e) ==
    IF keymap[e] = "none" \/ u.exit THEN u
    ELSE LET v == DoActions(u, keymap[e]) IN
         [v EXCEPT !.lapse = u.lapse \/ v.query # u.query,
                   !.loads = u.loads + (IF e = "load" THEN 1 ELSE 0)]

Clamp(cy, size) == IF size = 0 THEN 0 ELSE IF cy >= size THEN size - 1 ELSE cy

\* install_merger(), with constrain() for the cursor.
Install(u, m) ==
    LET u1 == [u EXCEPT !.merger = m, !.cy = Clamp(@, Size(m))]
        u2 == IF u1.trigger_load THEN Fire([u1 EXCEPT !.trigger_load = FALSE], "load") ELSE u1
        u3 == IF u2.reading THEN u2
              ELSE IF Size(m) = 0 THEN Fire(u2, "zero")
              ELSE IF Size(m) = 1 THEN Fire(u2, "one")
              ELSE u2
        u4 == Fire(u3, "result")
    IN
    IF u4.reading THEN u4 ELSE Fire(u4, "result_final")

\* What a search made now is a search of.
Now(u, counts) == [gen |-> u.display, count |-> counts[u.display], query |-> u.query]

\* submit_search(): request() fills the slot.
Submitted(u) == [u EXCEPT !.request_pending = FALSE, !.synced = FALSE, !.lapse = FALSE]
Submit(u) ==
    /\ req' = Now(u, count)
    /\ has_req' = TRUE
    /\ ui' = Submitted(u)

\* submit_search_sync(): scanned and installed by this thread; what the worker
\* has in flight stays in flight.
SubmitSync(u) ==
    Install([u EXCEPT !.request_pending = FALSE, !.synced = TRUE, !.lapse = FALSE], Now(u, count))

\* The state in which start_reload() posts its search.
Reloading(u) ==
    LET v == [u EXCEPT !.new_command = "none", !.reading = TRUE, !.first_tick = TRUE,
                       !.last_item_count = NoCount, !.last_finished = FALSE]
    IN
    IF u.new_command = "reload_sync" THEN [v EXCEPT !.sync_gens = @ \cup {gen + 1}]
    ELSE [v EXCEPT !.display = gen + 1, !.cy = 0]

\* start_reload(): the reader thread is cancelled and joined (its list is
\* finished and it wakes us once more), then the command is spawned, or not.
StartReload(u) ==
    \E spawned \in BOOLEAN :
        /\ gen' = gen + 1
        /\ finished' = [finished EXCEPT ![gen] = TRUE, ![gen + 1] = ~spawned]
        /\ failed' = ~spawned
        /\ rpc' = IF spawned THEN "feed" ELSE "done"
        /\ IF rpc = "done" THEN UNCHANGED <<wake_pending, pipe>>
           ELSE /\ wake_pending' = TRUE
                /\ pipe' = (pipe \/ ~wake_pending \/ rpc = "write")
        /\ Submit(Reloading(u))
        /\ UNCHANGED count

-----------------------------------------------------------------------------
(* The main thread: run(). *)

searchSlot == <<req, has_req>>

\* The wake callbacks are set; reading_ is read from the reader.
Boot ==
    /\ upc = "boot"
    /\ ui' = [ui EXCEPT !.reading = ~finished[gen]]
    /\ upc' = "boot_search"
    /\ UNCHANGED <<readerVars, wake_pending, pipe, searchSlot, result, ttyVars, c>>

BootSearch ==
    /\ upc = "boot_search"
    /\ Submit(ui)
    /\ upc' = "boot_count"
    /\ UNCHANGED <<readerVars, wake_pending, pipe, result, ttyVars, c>>

\* The count is read again: what came after the search was posted counts as seen.
BootCount ==
    /\ upc = "boot_count"
    /\ ui' = [ui EXCEPT !.last_item_count = count[ui.display],
                        !.lapse = count[ui.display] # req.count]
    /\ upc' = "boot_finished"
    /\ UNCHANGED <<readerVars, wake_pending, pipe, searchSlot, result, ttyVars, c>>

\* The last bookkeeping of the start-up, then the start event.
Loaded(u) == [u EXCEPT !.reading = FALSE, !.trigger_load = keymap["load"] # "none",
                       !.failed_command = failed]
BootFinished ==
    /\ upc = "boot_finished"
    /\ LET u == [ui EXCEPT !.last_finished = finished[ui.display]] IN
       ui' = Fire(IF u.last_finished THEN Loaded(u) ELSE u, "start")
    /\ upc' = "end"
    /\ UNCHANGED <<readerVars, wake_pending, pipe, searchSlot, result, ttyVars, c>>

\* select() returns when the pipe or the tty is readable or the deadline of a
\* throttled search is over.
Select(keys) ==
    /\ upc = "select"
    /\ ~ui.exit
    /\ pipe \/ keys # <<>> \/ (ui.request_pending /\ ui.deadline_passed)
    /\ keys # <<>> => batches < MaxBatches
    /\ batch' = keys
    /\ batches' = IF keys = <<>> THEN batches ELSE batches + 1
    /\ upc' = IF pipe THEN "drain" ELSE "progress"
    /\ ui' = [ui EXCEPT !.edited = FALSE]
    /\ UNCHANGED <<readerVars, wake_pending, pipe, searchSlot, result, c>>

Drain ==
    /\ upc = "drain"
    /\ pipe' = FALSE
    /\ upc' = "ack"
    /\ UNCHANGED <<readerVars, wake_pending, searchSlot, result, ttyVars, c, ui>>

\* Mutant of Ack: the reader is not told that its wake arrived.
AckForgotten ==
    /\ upc = "ack"
    /\ upc' = "progress"
    /\ UNCHANGED <<readerVars, wake_pending, pipe, searchSlot, result, ttyVars, c, ui>>

Ack ==
    /\ upc = "ack"
    /\ wake_pending' = FALSE
    /\ upc' = "progress"
    /\ UNCHANGED <<readerVars, pipe, searchSlot, result, ttyVars, c, ui>>

\* Mutant of Progress: a list made by reload-sync is shown while it streams in.
ProgressAtOnce ==
    /\ upc = "progress"
    /\ upc' = "progress_finished"
    /\ c' = count[gen]
    /\ ui' = IF ui.display = gen THEN ui
             ELSE [ui EXCEPT !.display = gen, !.cy = 0, !.last_item_count = NoCount]
    /\ UNCHANGED <<readerVars, wake_pending, pipe, searchSlot, result, ttyVars>>

\* on_reader_progress(): a list made by reload-sync is shown once it is
\* finished, and nothing is done before; then the count is read.
Progress ==
    /\ upc = "progress"
    /\ IF ui.display # gen /\ ~finished[gen]
         THEN /\ upc' = "take"
              /\ UNCHANGED <<c, ui>>
         ELSE /\ upc' = "progress_finished"
              /\ c' = count[gen]
              /\ ui' = IF ui.display = gen THEN ui
                       ELSE [ui EXCEPT !.display = gen, !.cy = 0, !.last_item_count = NoCount]
    /\ UNCHANGED <<readerVars, wake_pending, pipe, searchSlot, result, ttyVars>>

\* Mutant of ProgressFinished: a search that was put off waits for the next news
\* instead of its deadline.
ProgressFinishedNoFlush(due) ==
    LET f == finished[ui.display]
        news == c # ui.last_item_count \/ f # ui.last_finished
        u1 == [ui EXCEPT !.last_item_count = c, !.last_finished = f]
        u == IF f THEN u1 ELSE [u1 EXCEPT !.first_tick = FALSE]
    IN
    /\ upc = "progress_finished"
    /\ ui.first_tick => due
    /\ IF news /\ (f \/ due) THEN Submit(u)
       ELSE ui' = (IF news THEN u ELSE ui) /\ UNCHANGED searchSlot
    /\ upc' = "take"
    /\ UNCHANGED <<readerVars, wake_pending, pipe, result, ttyVars, c>>

\* on_reader_progress(), after the finished flag is read: search again, or
\* later if items are streaming in and the last search is too recent (~due).
ProgressFinished(due) ==
    LET f == finished[ui.display]
        news == c # ui.last_item_count \/ f # ui.last_finished
        u1 == [ui EXCEPT !.last_item_count = c, !.last_finished = f]
        u2 == IF f /\ u1.reading THEN Loaded(u1) ELSE u1
        u3 == IF f THEN u2 ELSE [u2 EXCEPT !.first_tick = FALSE]
        u == IF ~news THEN ui ELSE u3
        search == (news /\ (f \/ due)) \/ (ui.request_pending /\ ui.deadline_passed)
    IN
    /\ upc = "progress_finished"
    /\ ui.first_tick => due
    /\ IF search THEN Submit(u)
       ELSE /\ ui' = IF news /\ ~u.request_pending
                       THEN [u EXCEPT !.request_pending = TRUE, !.deadline_passed = FALSE]
                       ELSE u
            /\ UNCHANGED searchSlot
    /\ upc' = "take"
    /\ UNCHANGED <<readerVars, wake_pending, pipe, result, ttyVars, c>>

\* take() and install_merger().
Take ==
    /\ upc = "take"
    /\ result' = {}
    /\ ui' = IF result = {} THEN ui
             ELSE LET m == CHOOSE m \in result : TRUE
                      u == [ui EXCEPT !.lapse = @ \/ (ui.synced /\ m # Now(ui, count))]
                  IN Install(u, m)
    /\ upc' = "keys"
    /\ UNCHANGED <<readerVars, wake_pending, pipe, searchSlot, ttyVars, c>>

\* Mutant of Resync: the search is left to the worker.
ResyncLater ==
    LET u == Fire([ui EXCEPT !.pending_change = FALSE], "change") IN
    /\ upc = "keys"
    /\ batch # <<>>
    /\ ui.pending_change
    /\ Head(batch) # "edit"
    /\ Submit([u EXCEPT !.changed = FALSE])
    /\ UNCHANGED <<readerVars, wake_pending, pipe, result, upc, ttyVars, c>>

\* Before a key that is not an edit, a query edited in the same read is
\* searched, here and now.
Resync ==
    LET u == Fire([ui EXCEPT !.pending_change = FALSE], "change") IN
    /\ upc = "keys"
    /\ batch # <<>>
    /\ ui.pending_change
    /\ Head(batch) # "edit"
    /\ IF u.new_command # "none"
         THEN StartReload([u EXCEPT !.changed = FALSE])
         ELSE /\ ui' = IF u.changed THEN SubmitSync([u EXCEPT !.changed = FALSE]) ELSE u
              /\ UNCHANGED <<readerVars, wake_pending, pipe, searchSlot>>
    /\ UNCHANGED <<result, upc, ttyVars, c>>

\* process_event(): an action list that changed the query asks for a search.
Processed(u, key) ==
    LET v == DoActions(u, key) IN
    IF v.query # u.query THEN [v EXCEPT !.pending_change = TRUE, !.changed = TRUE,
                                            !.edited = TRUE] ELSE v

ProcessKey ==
    /\ upc = "keys"
    /\ batch # <<>>
    /\ ui.pending_change => Head(batch) = "edit"
    /\ ui' = Processed(ui, Head(batch))
    /\ batch' = IF ui'.exit THEN <<>> ELSE Tail(batch)
    /\ UNCHANGED <<readerVars, wake_pending, pipe, searchSlot, result, upc, batches, c>>

KeysDone ==
    /\ upc = "keys"
    /\ batch = <<>>
    /\ upc' = "end"
    /\ UNCHANGED <<readerVars, wake_pending, pipe, searchSlot, result, ttyVars, c, ui>>

\* end_of_batch(), up to the exit test.
EndOfBatch ==
    LET u1 == IF ui.pending_change THEN Fire([ui EXCEPT !.pending_change = FALSE], "change") ELSE ui
        u == [u1 EXCEPT !.changed = FALSE]
    IN
    /\ upc = "end"
    /\ \/ /\ u1.new_command # "none"
          /\ StartReload(u)
       \/ /\ u1.new_command = "none"
          /\ IF u1.changed THEN Submit(u) ELSE ui' = u /\ UNCHANGED searchSlot
          /\ UNCHANGED <<readerVars, wake_pending, pipe>>
    /\ upc' = "focus"
    /\ UNCHANGED <<result, ttyVars, c>>

\* end_of_batch(), the focus event: it comes after the search and the reload.
Focus ==
    /\ upc = "focus"
    /\ ui' = IF ui.exit \/ keymap["focus"] = "none" \/ Index(ui) = ui.last_focus THEN ui
             ELSE Fire([ui EXCEPT !.last_focus = Index(ui)], "focus")
    /\ upc' = IF ui.exit THEN "exit" ELSE "select"
    /\ UNCHANGED <<readerVars, wake_pending, pipe, searchSlot, result, ttyVars, c>>

\* The focus event may have ended the loop.
Leave ==
    /\ upc = "select"
    /\ ui.exit
    /\ upc' = "exit"
    /\ UNCHANGED <<readerVars, wake_pending, pipe, searchSlot, result, ttyVars, c, ui>>

Main ==
    /\ \/ Boot \/ BootSearch \/ BootCount \/ BootFinished
       \/ \E keys \in Batches \cup {<<>>} : Select(keys)
       \/ Drain \/ Ack \/ Progress
       \/ \E due \in BOOLEAN : ProgressFinished(due)
       \/ Take \/ Resync \/ ProcessKey \/ KeysDone \/ EndOfBatch \/ Focus \/ Leave
    /\ UNCHANGED <<wpc, r, keymap>>

\* Time passes.
Timer ==
    /\ ui.request_pending
    /\ ~ui.deadline_passed
    /\ ui' = [ui EXCEPT !.deadline_passed = TRUE]
    /\ UNCHANGED <<readerVars, wake_pending, pipe, workerVars, result, keymap, upc, ttyVars, c>>

Next == Reader \/ Worker \/ Main \/ Timer

\* The threads run whenever they can and time passes.  Nobody has to type, and the
\* source may stall for ever; a wake that was begun is completed.  A command may
\* never end: neither the wait for it (ReaderReap) is fair, nor a reload, which joins
\* the reader (ReaderFeed has what ends that).
ReaderBusy == rpc \in {"wake", "write"} /\ Reader
MainBusy ==
    /\ upc # "select" \/ pipe \/ (ui.request_pending /\ ui.deadline_passed) \/ ui.exit
    /\ Main
    /\ gen' = gen
Spec == Init /\ [][Next]_vars
LiveSpec == Spec /\ WF_vars(Worker) /\ WF_vars(MainBusy) /\ WF_vars(Timer) /\ WF_vars(ReaderBusy)

-----------------------------------------------------------------------------
(* Properties. *)

\* Nothing moves unless somebody types or the source sends more.
Quiescent ==
    /\ upc = "select" /\ ~ui.exit
    /\ ~pipe /\ ~has_req /\ wpc = "wait" /\ ~ui.request_pending
    /\ rpc \in {"feed", "done"}

\* The list that is shown.
Current == ui.merger = Now(ui, count)

\* Once everything is at rest, the list on the screen is that of the current
\* query over every item published: however appends, wakes, throttled and
\* cancelled searches, reloads and keys interleave, no item and no query is
\* forgotten.  The code has three gaps, which ui.lapse marks until the next
\* search: an item that came between the first search and the first count, a
\* query changed by an event's actions, an older result after a synchronous one.
NothingUnsearched == Quiescent /\ ~ui.lapse => Current

\* The main thread is to start a reload.
ReloadDue ==
    /\ upc \in {"keys", "end"}
    /\ \/ ui.new_command # "none"
       \/ ui.pending_change /\ Fire(ui, "change").new_command # "none"

\* An item is shown (or searched, if the query excludes it) without anybody
\* typing, although the source may never send another or end, and its command may
\* run on with its output closed.  The list of a reload-sync is shown in whole, and
\* only once its command has ended.
ItemsAreSearched ==
    \A n \in 1 .. MaxItems, g \in Gen :
        (upc # "boot" /\ gen = g /\ count[g] >= n) ~>
            \/ ui.merger.gen = g /\ ui.merger.count >= n
            \/ gen # g \/ ReloadDue \/ ui.exit \/ ui.lapse
            \/ g \in ui.sync_gens /\ (~finished[g] \/ rpc = "reap")

\* "reload-sync keeps the old list on display until the new one is complete":
\* a list it made is never shown in part.
SyncListIsComplete ==
    ui.merger.gen \in ui.sync_gens =>
        finished[ui.merger.gen] /\ ui.merger.count = count[ui.merger.gen]

\* load fires at most once for each list, unless the focus event reloads: its
\* actions come after the reload flag was served, so the list that is about to be
\* replaced is being read again, for one turn of the loop, and may load again.
LoadsOncePerList == keymap["focus"] \notin {"reload", "reload_sync"} => ui.loads <= gen

\* What reload-sync and the load event promise of a list that is replaced while
\* its reader, its last search and the throttle are still under way.
ListsLoadWhole == SyncListIsComplete /\ LoadsOncePerList

\* "so accept sees the new list": a query edited in the same read of the tty
\* was searched before accept takes the item under the cursor, unless a reload
\* was just started instead.
AcceptSeesQuery ==
    [][(/\ upc = "keys" /\ batch # <<>> /\ Head(batch) = "accept"
        /\ upc' = "keys" /\ Len(batch') < Len(batch)
        /\ ui.edited /\ ~ui.lapse /\ ui.last_item_count # NoCount)
            => ui.merger.query = ui.query]_vars

\* "load:accept should fire once the initial item batch has loaded": load runs
\* on the list of everything that was read.
LoadSeesTheBatch ==
    [][ui'.loads > ui.loads => ui'.merger.count = count[ui'.merger.gen]]_vars

\* "zero:abort fires when the final result set is empty": when zero ends the
\* session, the empty list it saw was that of everything that was read.
ZeroIsFinal ==
    [][(upc = "take" /\ ~ui.exit /\ ui'.exit /\ keymap = [NoBinding EXCEPT !["zero"] = "accept"])
            => ui'.merger.count = count[ui'.merger.gen]]_vars

\* "[Command failed: ...]": a command that exited with an error is reported, once
\* everything is at rest.
FailureIsReported == Quiescent /\ rpc = "done" /\ failed => ui.failed_command

\* A reload starts although nobody types and the source may stall: "reload that
\* never waits for a streaming producer to finish".
ReloadStarts == (ui.new_command # "none") ~> (ui.new_command = "none" \/ ui.exit)
=============================================================================
