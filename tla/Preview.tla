------------------------------ MODULE Preview ------------------------------
(***************************************************************************)
(* The preview pane: the worker thread of preview.cpp, which runs one      *)
(* command at a time and streams its output, and the part of the UI thread *)
(* that asks for previews, caches them and paints them (terminal.cpp,      *)
(* refresh_preview, arm_prefetch, schedule_prefetch, paint_preview).  A    *)
(* prefetch runs the command of a neighbour of the cursor while nothing    *)
(* else is to do; a request for the same command adopts it.                *)
(*                                                                         *)
(* The preview command of an item is named by the item's position.  It     *)
(* prints its output in Parts pieces, each read on its own, and exits, or  *)
(* it prints nothing and never ends.  The output depends on the size of    *)
(* the pane when the command line was expanded.                            *)
(***************************************************************************)
EXTENDS Integers, Sequences, SequencesExt

CONSTANTS
    Items,        \* number of items listed
    Endless,      \* items whose command prints nothing and never ends
    Parts,        \* bound: pieces of a command's output
    CacheMax,     \* kPreviewCacheMax
    PrefetchN,    \* prefetch_n_: 0 or the distance prefetched around the cursor
    Started,      \* --preview was given: can_preview() when the session began
    Keys,         \* what the user may do
    MaxInputs,    \* bound: keys and resizes
    MishapSets    \* what may go wrong in the system together, see below

\* late_kill: the UI thread is preempted between the unlock and the kill.
\* late_group: fork() returns in the parent before the child has run setpgid().
\* spawn_fails: pipe() or fork() fails.
\* closes_output: a command that never ends closes its output first.
AllMishaps == {"late_kill", "late_group", "spawn_fails", "closes_output"}
AllKeys == {"move", "touch", "toggle", "refresh", "window", "preview", "resize", "result", "quit"}

ASSUME PreviewAssumption ==
    /\ {Items, Parts, CacheMax} \subseteq Nat \ {0}
    /\ Endless \subseteq 1 .. Items
    /\ {PrefetchN, MaxInputs} \subseteq Nat
    /\ Started \in BOOLEAN
    /\ Keys \subseteq AllKeys
    /\ MishapSets \subseteq SUBSET AllMishaps

VARIABLES
    mishaps,   \* what may go wrong in this session
    mpc,       \* what the UI thread does next
    ui,        \* the UI thread's state
    inputs,    \* history: number of keys and resizes
    q,         \* the worker's state under req_mu_
    version,   \* version_
    pid,       \* child_pid_ > 0
    content,   \* content_
    pipe,      \* a byte is in the wake pipe
    wpc,       \* what the worker does next
    w,         \* the locals of the worker's loop
    child      \* the process

uiVars == <<mpc, ui, inputs>>
workerVars == <<wpc, w>>
vars == <<mishaps, mpc, ui, inputs, q, version, pid, content, pipe, wpc, w, child>>

\* No item (the list is empty), and no command.
None == 0
Cmd == 1 .. Items
Size == 0 .. MaxInputs
Job == [cmd : 0 .. Items, size : Size]
NoJob == [cmd |-> None, size |-> 0]
Task == [cmd : Cmd, size : Size]

\* The first n pieces of a command's output; all empty texts are equal.
NoText == [cmd |-> None, parts |-> 0, size |-> 0]
FailText == [cmd |-> None, parts |-> 1, size |-> 0]
Text(job, n) ==
    IF n = 0 THEN NoText ELSE [cmd |-> job.cmd, parts |-> n, size |-> job.size]
Texts == [cmd : 0 .. Items, parts : 0 .. Parts, size : Size]

Versions == 0 .. 2 * MaxInputs + 2

UI == [cy : 0 .. Items,               \* the item under the cursor; 0: the list is empty
       focused : -1 .. Items,         \* focused_index_
       touched : BOOLEAN,             \* version_ # preview_version_ (of the terminal)
       can : BOOLEAN,                 \* can_preview()
       hidden : BOOLEAN,              \* ~has_preview_window()
       size : Size,                   \* the pane's size, a number for each change
       key : 0 .. Items,              \* preview_request_key_; 0: empty
       reqv : Versions,               \* preview_request_version_
       cache : Seq([key : Cmd, text : Texts]),  \* preview_cache_, in the order of preview_lru_
       dirty : BOOLEAN,               \* preview_dirty_
       shown : Texts,                 \* last_painted_preview_
       prefetch_pending : BOOLEAN,    \* prefetch_pending_
       plan : {"none", "request", "cached", "blank", "hide"},  \* what refresh_preview decided
       back : {"batch", "paint"}]     \* where it returns to

Queue == [has_request : BOOLEAN, pending : Job, stop : BOOLEAN,
          prefetch_queue : Seq(Task), prefetch_gen : 0 .. 3 * MaxInputs + 3,
          running_prefetch : BOOLEAN, running_command : 0 .. Items,
          promoted : Versions,        \* promoted_version_; 0: none
          prefetched : Seq([key : Cmd, text : Texts])]

Content == [text : Texts, version : Versions, complete : BOOLEAN]

Run == [job : Job, version : Versions, gen : 0 .. 3 * MaxInputs + 3,
        prefetch : BOOLEAN,        \* is_prefetch
        acc : 0 .. Parts,          \* accumulated
        left : BOOLEAN,            \* the read loop is over
        stale : BOOLEAN]

NoRun == [job |-> NoJob, version |-> 0, gen |-> 0, prefetch |-> FALSE, acc |-> 0,
          left |-> FALSE, stale |-> FALSE]

\* printed: pieces written into the pipe; read: pieces taken out of it.
Child == [state : {"none", "born", "run", "quiet", "dead"}, job : Job,
          printed : 0 .. Parts, read : 0 .. Parts]
NoChild == [state |-> "none", job |-> NoJob, printed |-> 0, read |-> 0]

Init ==
    /\ mishaps \in MishapSets
    /\ mpc = "batch"
    /\ ui = [cy |-> 1, focused |-> -1, touched |-> FALSE, can |-> Started,
             hidden |-> ~Started, size |-> 0,
             key |-> None, reqv |-> 0, cache |-> <<>>, dirty |-> TRUE, shown |-> NoText,
             prefetch_pending |-> FALSE, plan |-> "none", back |-> "batch"]
    /\ inputs = 0
    /\ q = [has_request |-> FALSE, pending |-> NoJob, stop |-> FALSE,
            prefetch_queue |-> <<>>, prefetch_gen |-> 0, running_prefetch |-> FALSE,
            running_command |-> None, promoted |-> 0, prefetched |-> <<>>]
    /\ version = 0
    /\ pid = FALSE
    /\ content = [text |-> NoText, version |-> 0, complete |-> FALSE]
    /\ pipe = FALSE
    /\ wpc = IF Started THEN "wait" ELSE "none"
    /\ w = NoRun
    /\ child = NoChild

-----------------------------------------------------------------------------
(* The process and its group. *)

\* kill(-pid): a child that has not made its group yet is not found.
Killed(p) == IF p.state \in {"run", "quiet"} THEN [p EXCEPT !.state = "dead"] ELSE p

\* shell_kill(child_pid_)
KillCurrent == IF pid THEN Killed(child) ELSE child

\* The child's own steps: setpgid and exec, output, exit.  Nobody reads any
\* more once the worker waits for the exit: what it prints then kills it.
ChildRuns ==
    /\ \/ child.state = "born" /\ child' = [child EXCEPT !.state = "run"]
       \/ /\ child.state = "run" /\ child.job.cmd \notin Endless
          /\ child' = IF child.printed < Parts /\ wpc \notin {"kill", "reap"}
                        THEN [child EXCEPT !.printed = @ + 1]
                        ELSE [child EXCEPT !.state = "dead"]
       \/ /\ child.state = "run" /\ child.job.cmd \in Endless
          /\ "closes_output" \in mishaps
          /\ child' = [child EXCEPT !.state = "quiet"]
    /\ UNCHANGED <<mishaps, uiVars, q, version, pid, content, pipe, workerVars>>

-----------------------------------------------------------------------------
(* The UI thread: the cache. *)

IsCached(cache, c) == \E e \in ToSet(cache) : e.key = c
Cached(cache, c) == (CHOOSE e \in ToSet(cache) : e.key = c).text
Others(cache, c) ==
    IF IsCached(cache, c)
      THEN RemoveAt(cache, CHOOSE i \in DOMAIN cache : cache[i].key = c)
      ELSE cache

\* cached_preview() moves what it finds to the front, cache_preview() puts an
\* entry there and drops the last one when there are too many.
Touched(cache, c) == <<[key |-> c, text |-> Cached(cache, c)]>> \o Others(cache, c)
Stored(cache, e) ==
    LET all == <<e>> \o Others(cache, e.key)
    IN  SubSeq(all, 1, IF Len(all) > CacheMax THEN CacheMax ELSE Len(all))

\* cache_preview() for each of several entries.
Merged(cache, entries) ==
    LET f[n \in 0 .. Len(entries)] ==
            IF n = 0 THEN cache ELSE Stored(f[n - 1], entries[n])
    IN  f[Len(entries)]

-----------------------------------------------------------------------------
(* The UI thread: asking for a preview. *)

\* What refresh_preview() will do for the item under the cursor.
Plan(u, bypass) ==
    IF u.cy = None THEN "blank"
    ELSE IF ~bypass /\ IsCached(u.cache, u.cy) THEN "cached" ELSE "request"

\* refresh_preview() up to its first call of the worker: arm_prefetch(false)
\* empties the queue and starts the idle timer, and the cache is looked up.
Refreshed(u, bypass, back) ==
    [u EXCEPT !.dirty = TRUE,
              !.prefetch_pending = PrefetchN > 0 \/ @,
              !.plan = Plan(u, bypass),
              !.back = back,
              !.cache = IF Plan(u, bypass) = "cached" THEN Touched(@, u.cy) ELSE @]
Armed(s) == IF PrefetchN > 0 THEN [s EXCEPT !.prefetch_queue = <<>>] ELSE s

\* Calls refresh_preview() on the state u, if the pane is open.
Refresh(u, s, bypass, back) ==
    IF u.hidden
      THEN ui' = u /\ q' = s /\ mpc' = back
      ELSE /\ ui' = Refreshed(u, bypass, back)
           /\ q' = Armed(s)
           /\ mpc' = IF Plan(u, bypass) = "request" THEN "request" ELSE "cancel"

\* PreviewWorker::cancel(), its locked part.
Cancel ==
    /\ mpc = "cancel"
    /\ q' = [q EXCEPT !.has_request = FALSE, !.prefetch_queue = <<>>, !.prefetch_gen = @ + 1]
    /\ version' = version + 1
    /\ IF "late_kill" \in mishaps
         THEN mpc' = "cancel_kill" /\ child' = child
         ELSE mpc' = "set" /\ child' = KillCurrent
    /\ UNCHANGED <<mishaps, ui, inputs, pid, content, pipe, workerVars>>

CancelKill ==
    /\ mpc = "cancel_kill"
    /\ child' = KillCurrent
    /\ mpc' = "set"
    /\ UNCHANGED <<mishaps, ui, inputs, q, version, pid, content, pipe, workerVars>>

\* set_content() with the cached or the empty text; cancel_preview() has none.
SetContent ==
    /\ mpc = "set"
    /\ content' =
          IF ui.plan = "hide" THEN content
          ELSE [text |-> IF ui.plan = "cached" THEN Cached(ui.cache, ui.cy) ELSE NoText,
                version |-> version, complete |-> TRUE]
    /\ ui' = [ui EXCEPT !.key = None, !.plan = "none",
                        !.prefetch_pending = @ /\ ui.plan # "hide"]
    /\ mpc' = ui.back
    /\ UNCHANGED <<mishaps, inputs, q, version, pid, pipe, workerVars, child>>

\* The command asked for is being prefetched.
Adoptable == q.running_prefetch /\ q.running_command = ui.cy

\* PreviewWorker::request(), its locked part: the running prefetch of this
\* command is adopted, or the command is left for the worker to take.
Request ==
    /\ mpc = "request"
    /\ version' = version + 1
    /\ ui' = [ui EXCEPT !.key = ui.cy, !.reqv = version + 1, !.plan = "none"]
    /\ IF Adoptable
         THEN /\ q' = [q EXCEPT !.has_request = FALSE, !.promoted = version + 1]
              /\ mpc' = ui.back
              /\ child' = child
         ELSE /\ q' = [q EXCEPT !.has_request = TRUE,
                                !.pending = [cmd |-> ui.cy, size |-> ui.size]]
              /\ IF "late_kill" \in mishaps
                   THEN mpc' = "request_kill" /\ child' = child
                   ELSE mpc' = ui.back /\ child' = KillCurrent
    /\ UNCHANGED <<mishaps, inputs, pid, content, pipe, workerVars>>

RequestKill ==
    /\ mpc = "request_kill"
    /\ child' = KillCurrent
    /\ mpc' = ui.back
    /\ UNCHANGED <<mishaps, ui, inputs, q, version, pid, content, pipe, workerVars>>

-----------------------------------------------------------------------------
(* The UI thread: the turns of the main loop.  Each serves one event; what   *)
(* several events of one turn do is done in as many turns.                   *)

Idle == mpc = "select"

\* arm_prefetch(true): a prefetch in flight is cancelled and killed.
Rearmed(u) == [u EXCEPT !.prefetch_pending = PrefetchN > 0 \/ @]
Interrupted == PrefetchN > 0 /\ q.running_prefetch
Quiet ==
    IF Interrupted THEN [Armed(q) EXCEPT !.prefetch_gen = @ + 1] ELSE Armed(q)

\* A key was read: the prefetch is stopped, then the action runs.
KeyRead(key) ==
    /\ Idle /\ key \in Keys /\ inputs < MaxInputs
    /\ inputs' = inputs + 1
    /\ child' = IF Interrupted THEN KillCurrent ELSE child
    /\ UNCHANGED <<mishaps, version, pid, content, pipe, workerVars>>

KeyMove ==
    /\ KeyRead("move") /\ ui.cy # None
    /\ \E cy \in Cmd : ui' = [Rearmed(ui) EXCEPT !.cy = cy]
    /\ q' = Quiet
    /\ mpc' = "batch"

\* The selection changed: the preview command may depend on it.
KeyTouch ==
    /\ KeyRead("touch")
    /\ ui' = [Rearmed(ui) EXCEPT !.touched = TRUE]
    /\ q' = Quiet
    /\ mpc' = "batch"

KeyRefresh ==
    /\ KeyRead("refresh")
    /\ Refresh(Rearmed(ui), Quiet, TRUE, "batch")

\* toggle-preview
KeyShow ==
    /\ KeyRead("toggle") /\ ui.hidden /\ ui.can
    /\ Refresh([Rearmed(ui) EXCEPT !.hidden = FALSE, !.dirty = TRUE], Quiet, FALSE, "batch")

KeyHide ==
    /\ KeyRead("toggle") /\ ~ui.hidden
    /\ ui' = [Rearmed(ui) EXCEPT !.hidden = TRUE, !.dirty = TRUE, !.plan = "hide", !.back = "batch"]
    /\ q' = Quiet
    /\ mpc' = "cancel"

\* change-preview-window with another size for an open or a hidden pane.
KeyWindow ==
    /\ KeyRead("window") /\ ui.can
    /\ LET u == [Rearmed(ui) EXCEPT !.hidden = FALSE, !.dirty = TRUE, !.size = @ + 1]
       IN  IF ui.hidden THEN Refresh(u, Quiet, FALSE, "batch")
           ELSE ui' = u /\ q' = Quiet /\ mpc' = "batch"

\* preview(...), bound with the command of --preview, or without --preview.
KeyPreview ==
    /\ KeyRead("preview")
    /\ Refresh([Rearmed(ui) EXCEPT !.can = TRUE, !.hidden = FALSE, !.dirty = TRUE],
               Quiet, FALSE, "batch")

KeyQuit ==
    /\ KeyRead("quit")
    /\ ui' = Rearmed(ui)
    /\ q' = Quiet
    /\ mpc' = "stop"

\* Mutant: the cache survives a resize.
WinchKeeps ==
    /\ Idle /\ "resize" \in Keys /\ inputs < MaxInputs
    /\ inputs' = inputs + 1
    /\ LET u == [ui EXCEPT !.size = @ + 1, !.dirty = TRUE]
       IN  IF ui.can THEN Refresh(u, q, TRUE, "batch")
           ELSE ui' = u /\ q' = q /\ mpc' = "batch"
    /\ UNCHANGED <<mishaps, version, pid, content, pipe, workerVars, child>>

\* SIGWINCH: the cache was rendered at the old size.
Winch ==
    /\ Idle /\ "resize" \in Keys /\ inputs < MaxInputs
    /\ inputs' = inputs + 1
    /\ LET u == [ui EXCEPT !.size = @ + 1, !.dirty = TRUE]
       IN  IF ui.can THEN Refresh([u EXCEPT !.cache = <<>>], q, TRUE, "batch")
           ELSE ui' = u /\ q' = q /\ mpc' = "batch"
    /\ UNCHANGED <<mishaps, version, pid, content, pipe, workerVars, child>>

\* A search result is installed: another item, or none, is under the cursor.
Result ==
    /\ Idle /\ "result" \in Keys /\ inputs < MaxInputs
    /\ inputs' = inputs + 1
    /\ \E cy \in 0 .. Items : ui' = [Rearmed(ui) EXCEPT !.cy = cy, !.dirty = TRUE]
    /\ q' = Armed(q)
    /\ mpc' = "batch"
    /\ UNCHANGED <<mishaps, version, pid, content, pipe, workerVars, child>>

\* Mutant: preview_dirty_ is not set.
WakeUpClean ==
    /\ Idle /\ pipe
    /\ pipe' = FALSE
    /\ ui' = [ui EXCEPT !.cache = Merged(@, q.prefetched)]
    /\ q' = [q EXCEPT !.prefetched = <<>>]
    /\ mpc' = "batch"
    /\ UNCHANGED <<mishaps, inputs, version, pid, content, workerVars, child>>

\* The wake pipe is drained and what was prefetched goes into the cache.
WakeUp ==
    /\ Idle /\ pipe
    /\ pipe' = FALSE
    /\ ui' = [ui EXCEPT !.dirty = TRUE, !.cache = Merged(@, q.prefetched)]
    /\ q' = [q EXCEPT !.prefetched = <<>>]
    /\ mpc' = "batch"
    /\ UNCHANGED <<mishaps, inputs, version, pid, content, workerVars, child>>

\* The neighbours of the cursor, nearest first, below before above.
Neighbour(cy, n) == IF n % 2 = 1 THEN cy + (n + 1) \div 2 ELSE cy - n \div 2

\* Those that are not cached yet are to be prefetched; the cached ones move to
\* the front of the cache.
Looked(u) ==
    LET f[n \in 0 .. 2 * PrefetchN] ==
            IF n = 0 THEN [cache |-> u.cache, jobs |-> <<>>]
            ELSE LET c == Neighbour(u.cy, n)
                 IN  IF c \notin Cmd \/ c = u.key THEN f[n - 1]
                     ELSE IF IsCached(f[n - 1].cache, c)
                     THEN [f[n - 1] EXCEPT !.cache = Touched(@, c)]
                     ELSE [f[n - 1] EXCEPT !.jobs = Append(@, [cmd |-> c, size |-> u.size])]
    IN  f[2 * PrefetchN]

\* The prefetch timer ran out: schedule_prefetch().
Timer ==
    /\ Idle /\ ui.prefetch_pending
    /\ IF ui.hidden \/ ui.cy = None
         THEN ui' = [ui EXCEPT !.prefetch_pending = FALSE] /\ q' = q
         ELSE LET looked == Looked(ui)
              IN  /\ ui' = [ui EXCEPT !.prefetch_pending = FALSE, !.cache = looked.cache]
                  /\ q' = IF looked.jobs = <<>> THEN q
                          ELSE [q EXCEPT !.prefetch_queue = looked.jobs]
    /\ mpc' = "batch"
    /\ UNCHANGED <<mishaps, inputs, version, pid, content, pipe, workerVars, child>>

\* end_of_batch(): another item or another version of the list is to be shown.
EndOfBatch ==
    /\ mpc = "batch"
    /\ IF ~ui.hidden /\ (ui.cy # ui.focused \/ ui.touched)
         THEN Refresh([ui EXCEPT !.focused = ui.cy, !.touched = FALSE], q, FALSE, "paint")
         ELSE ui' = ui /\ q' = q /\ mpc' = "paint"
    /\ UNCHANGED <<mishaps, inputs, version, pid, content, pipe, workerVars, child>>

\* The completed output for the current request goes into the cache.
Cacheable ==
    /\ content.complete /\ ui.key # None
    /\ content.version = ui.reqv
    /\ content.text # NoText

\* repaint(), paint_preview()
Paint ==
    /\ mpc = "paint"
    /\ ui' = IF ui.dirty /\ ~ui.hidden
                THEN [ui EXCEPT !.dirty = FALSE, !.shown = content.text,
                                !.cache = IF Cacheable
                                            THEN Stored(@, [key |-> ui.key, text |-> content.text])
                                            ELSE @,
                                !.key = IF Cacheable THEN None ELSE @]
                ELSE [ui EXCEPT !.dirty = FALSE]
    /\ mpc' = "select"
    /\ UNCHANGED <<mishaps, inputs, q, version, pid, content, pipe, workerVars, child>>

\* PreviewWorker::shutdown()
Stop ==
    /\ mpc = "stop"
    /\ q' = [q EXCEPT !.stop = TRUE, !.has_request = FALSE]
    /\ mpc' = "stop_version"
    /\ UNCHANGED <<mishaps, ui, inputs, version, pid, content, pipe, workerVars, child>>

StopVersion ==
    /\ mpc = "stop_version"
    /\ version' = version + 1
    /\ mpc' = "stop_kill"
    /\ UNCHANGED <<mishaps, ui, inputs, q, pid, content, pipe, workerVars, child>>

StopKill ==
    /\ mpc = "stop_kill"
    /\ child' = KillCurrent
    /\ mpc' = "join"
    /\ UNCHANGED <<mishaps, ui, inputs, q, version, pid, content, pipe, workerVars>>

Join ==
    /\ mpc = "join" /\ wpc \in {"none", "exit"}
    /\ mpc' = "exit"
    /\ UNCHANGED <<mishaps, ui, inputs, q, version, pid, content, pipe, workerVars, child>>

Input ==
    \/ KeyMove \/ KeyTouch \/ KeyRefresh \/ KeyShow \/ KeyHide \/ KeyWindow
    \/ KeyPreview \/ KeyQuit \/ Winch \/ Result

UITurns ==
    \/ WakeUp \/ EndOfBatch \/ Paint
    \/ Cancel \/ CancelKill \/ SetContent \/ Request \/ RequestKill
    \/ Stop \/ StopVersion \/ StopKill \/ Join

-----------------------------------------------------------------------------
(* The worker: loop().                                                       *)

uiIdle == UNCHANGED uiVars

\* The command to run next: the request, or the first one to prefetch.
NextJob == IF q.has_request THEN q.pending ELSE Head(q.prefetch_queue)

Take ==
    /\ wpc = "wait" /\ ~q.stop
    /\ q.has_request \/ q.prefetch_queue # <<>>
    /\ w' = [NoRun EXCEPT !.job = NextJob, !.version = version, !.gen = q.prefetch_gen,
                          !.prefetch = ~q.has_request]
    /\ q' = [q EXCEPT !.has_request = FALSE, !.pending = NoJob,
                      !.prefetch_queue = IF q.has_request THEN @ ELSE Tail(@),
                      !.running_prefetch = ~q.has_request,
                      !.running_command = NextJob.cmd,
                      !.promoted = 0]
    /\ wpc' = "spawn"
    /\ uiIdle /\ UNCHANGED <<mishaps, version, pid, content, pipe, child>>

Exit ==
    /\ wpc = "wait" /\ q.stop
    /\ wpc' = "exit"
    /\ uiIdle /\ UNCHANGED <<mishaps, w, q, version, pid, content, pipe, child>>

Superseded == version # w.version \/ (w.prefetch /\ q.prefetch_gen # w.gen)

Spawn ==
    /\ wpc = "spawn"
    /\ child' = [NoChild EXCEPT !.state = IF "late_group" \in mishaps THEN "born" ELSE "run",
                                !.job = w.job]
    /\ wpc' = "publish"
    /\ uiIdle /\ UNCHANGED <<mishaps, w, q, version, pid, content, pipe>>

SpawnFails ==
    /\ wpc = "spawn" /\ "spawn_fails" \in mishaps
    /\ content' = IF w.prefetch THEN content
                  ELSE [text |-> FailText, version |-> w.version, complete |-> TRUE]
    /\ q' = [q EXCEPT !.running_prefetch = FALSE]
    /\ w' = [w EXCEPT !.left = TRUE]
    /\ wpc' = "wake"
    /\ uiIdle /\ UNCHANGED <<mishaps, version, pid, pipe, child>>

\* The pid is published; a request may have come before that.
PublishPid ==
    /\ wpc = "publish"
    /\ pid' = TRUE
    /\ wpc' = "recheck"
    /\ uiIdle /\ UNCHANGED <<mishaps, w, q, version, content, pipe, child>>

\* Mutant: cancel_prefetch() is not looked at after the spawn.
RecheckVersion ==
    /\ wpc = "recheck"
    /\ child' = IF version # w.version THEN Killed(child) ELSE child
    /\ wpc' = IF w.prefetch THEN "read" ELSE "open"
    /\ uiIdle /\ UNCHANGED <<mishaps, w, q, version, pid, content, pipe>>

\* Mutant: nothing is looked at after the spawn.
RecheckNothing ==
    /\ wpc = "recheck"
    /\ child' = child
    /\ wpc' = IF w.prefetch THEN "read" ELSE "open"
    /\ uiIdle /\ UNCHANGED <<mishaps, w, q, version, pid, content, pipe>>

Recheck ==
    /\ wpc = "recheck"
    /\ child' = IF Superseded THEN Killed(child) ELSE child
    /\ wpc' = IF w.prefetch THEN "read" ELSE "open"
    /\ uiIdle /\ UNCHANGED <<mishaps, w, q, version, pid, content, pipe>>

\* The previous output stays until the command prints something.
Open ==
    /\ wpc = "open"
    /\ content' = [content EXCEPT !.version = w.version, !.complete = FALSE]
    /\ wpc' = "read"
    /\ uiIdle /\ UNCHANGED <<mishaps, w, q, version, pid, pipe, child>>

AfterRead == IF w.prefetch THEN "promote" ELSE "check"

\* read() returns some of what was printed, or nothing at the end.
ReadPiece ==
    /\ wpc = "read" /\ child.read < child.printed
    /\ \E n \in child.read + 1 .. child.printed : child' = [child EXCEPT !.read = n]
    /\ wpc' = AfterRead
    /\ uiIdle /\ UNCHANGED <<mishaps, w, q, version, pid, content, pipe>>

ReadEnd ==
    /\ wpc = "read" /\ child.read = child.printed
    /\ child.state \in {"quiet", "dead"}
    /\ w' = [w EXCEPT !.left = TRUE]
    /\ wpc' = AfterRead
    /\ uiIdle /\ UNCHANGED <<mishaps, q, version, pid, content, pipe, child>>

\* check_promotion(), its part under req_mu_: has the prefetch been adopted?
Promote ==
    /\ wpc = "promote"
    /\ IF q.promoted = 0
         THEN q' = q /\ w' = w /\ wpc' = "check"
         ELSE /\ q' = [q EXCEPT !.promoted = 0, !.running_prefetch = FALSE]
              /\ w' = [w EXCEPT !.prefetch = FALSE, !.version = q.promoted]
              /\ wpc' = "adopt"
    /\ uiIdle /\ UNCHANGED <<mishaps, version, pid, content, pipe, child>>

\* The rest of check_promotion(): what was read so far is shown.
Adopt ==
    /\ wpc = "adopt"
    /\ content' = [text |-> Text(w.job, w.acc), version |-> w.version, complete |-> FALSE]
    /\ pipe' = TRUE
    /\ wpc' = "check"
    /\ uiIdle /\ UNCHANGED <<mishaps, w, q, version, pid, child>>

\* Output of a superseded run ends the read loop; other output is kept.
Check ==
    /\ wpc = "check"
    /\ IF w.left
         THEN w' = [w EXCEPT !.stale = @ \/ Superseded] /\ wpc' = "close"
         ELSE IF Superseded
         THEN w' = [w EXCEPT !.left = TRUE, !.stale = TRUE] /\ wpc' = AfterRead
         ELSE w' = [w EXCEPT !.acc = child.read] /\ wpc' = IF w.prefetch THEN "read" ELSE "show"
    /\ uiIdle /\ UNCHANGED <<mishaps, q, version, pid, content, pipe, child>>

\* Mutant: the version is not compared.
ShowUnchecked ==
    /\ wpc = "show"
    /\ content' = [content EXCEPT !.text = Text(w.job, w.acc)]
    /\ wpc' = "wake"
    /\ uiIdle /\ UNCHANGED <<mishaps, w, q, version, pid, pipe, child>>

Show ==
    /\ wpc = "show"
    /\ content' = IF content.version = w.version
                    THEN [content EXCEPT !.text = Text(w.job, w.acc)] ELSE content
    /\ wpc' = "wake"
    /\ uiIdle /\ UNCHANGED <<mishaps, w, q, version, pid, pipe, child>>

\* wake_()
WakeUI ==
    /\ wpc = "wake"
    /\ pipe' = TRUE
    /\ IF w.left THEN wpc' = "wait" /\ w' = NoRun ELSE wpc' = "read" /\ w' = w
    /\ uiIdle /\ UNCHANGED <<mishaps, q, version, pid, content, child>>

Close ==
    /\ wpc = "close"
    /\ pid' = FALSE
    /\ wpc' = IF w.stale THEN "kill" ELSE "reap"
    /\ uiIdle /\ UNCHANGED <<mishaps, w, q, version, content, pipe, child>>

KillStale ==
    /\ wpc = "kill"
    /\ child' = Killed(child)
    /\ wpc' = "reap"
    /\ uiIdle /\ UNCHANGED <<mishaps, w, q, version, pid, content, pipe>>

Reap ==
    /\ wpc = "reap" /\ child.state = "dead"
    /\ child' = NoChild
    /\ wpc' = "finish"
    /\ uiIdle /\ UNCHANGED <<mishaps, w, q, version, pid, content, pipe>>

\* Mutant: a stopped prefetch is handed over as well.
FinishStale ==
    /\ wpc = "finish"
    /\ q' = [q EXCEPT !.running_prefetch = FALSE, !.running_command = None,
                      !.prefetched =
                          IF w.prefetch
                            THEN Append(@, [key |-> w.job.cmd, text |-> Text(w.job, w.acc)])
                            ELSE @]
    /\ wpc' = IF w.stale THEN "wait" ELSE IF w.prefetch THEN "wake" ELSE "final"
    /\ w' = IF w.stale THEN NoRun ELSE w
    /\ uiIdle /\ UNCHANGED <<mishaps, version, pid, content, pipe, child>>

\* What a prefetch printed is handed over.
Finish ==
    /\ wpc = "finish"
    /\ q' = [q EXCEPT !.running_prefetch = FALSE, !.running_command = None,
                      !.prefetched =
                          IF ~w.stale /\ w.prefetch
                            THEN Append(@, [key |-> w.job.cmd, text |-> Text(w.job, w.acc)])
                            ELSE @]
    /\ wpc' = IF w.stale THEN "wait" ELSE IF w.prefetch THEN "wake" ELSE "final"
    /\ w' = IF w.stale THEN NoRun ELSE w
    /\ uiIdle /\ UNCHANGED <<mishaps, version, pid, content, pipe, child>>

Final ==
    /\ wpc = "final"
    /\ content' = IF content.version = w.version
                    THEN [content EXCEPT !.text = Text(w.job, w.acc), !.complete = TRUE]
                    ELSE content
    /\ wpc' = "wake"
    /\ uiIdle /\ UNCHANGED <<mishaps, w, q, version, pid, pipe, child>>

Worker ==
    \/ Take \/ Exit \/ Spawn \/ SpawnFails \/ PublishPid \/ Recheck \/ Open
    \/ ReadPiece \/ ReadEnd \/ Promote \/ Adopt \/ Check \/ Show \/ WakeUI
    \/ Close \/ KillStale \/ Reap \/ Finish \/ Final

-----------------------------------------------------------------------------

Next == Input \/ Timer \/ UITurns \/ Worker \/ ChildRuns

Spec == Init /\ [][Next]_vars

\* The threads and the command are scheduled; the user owes nothing.
LiveSpec ==
    /\ Spec
    /\ WF_vars(UITurns)
    /\ WF_vars(Worker)
    /\ WF_vars(ChildRuns)

-----------------------------------------------------------------------------
(* Properties.                                                               *)

\* Nothing is under way and nobody waits for anything but the user.
AtRest ==
    /\ Idle /\ ~pipe
    /\ wpc \in {"wait", "none"}
    /\ (wpc = "wait" => ~q.has_request /\ q.prefetch_queue = <<>>)

WholeText(c) == Text([cmd |-> c, size |-> ui.size], Parts)

\* At rest an open pane shows the whole output of the command of the item
\* under the cursor, run for the pane's present size, or nothing if there is
\* no item: refresh_preview(), the worker and the wakes lose nothing.
PaneShowsTarget ==
    AtRest /\ ~ui.hidden =>
        ui.shown = IF ui.cy = None THEN NoText ELSE WholeText(ui.cy)

\* At rest no request is still unanswered.
RequestIsServed == AtRest => ui.key = None

\* At rest there is nothing the pane still waits for, and what it shows is right.
PaneIsCurrent == PaneShowsTarget /\ RequestIsServed

\* The text is all that the command of the entry ever prints.
IsWhole(e) ==
    IF e.key \in Endless THEN e.text = NoText
    ELSE e.text.cmd = e.key /\ e.text.parts = Parts

\* What is cached for a command is the whole of its own output, for the present
\* size of the pane: a command that was killed, another one's output, or one of
\* an old size, never gets there (preview.hpp: output of a superseded command
\* never reaches the cache).
CacheIsWhole == \A e \in ToSet(ui.cache) : IsWhole(e) /\ e.text.size = ui.size

\* The worker hands over whole outputs only, never those of a prefetch that
\* was stopped.
PrefetchedIsWhole == \A e \in ToSet(q.prefetched) : IsWhole(e)

\* While the pane shows what the last refresh wanted, the worker leaves the
\* text alone: output of a superseded command never reaches the screen.
SettledPane ==
    [][Idle /\ ~ui.hidden /\ ui.key = None => content'.text = content.text]_vars

\* A request that waits for the worker is answered and painted, unless another
\* one replaces it, the pane is closed, or the session ends; a kill that comes
\* late may hit it.
RequestIsAnswered ==
    \A v \in Versions :
        (q.has_request /\ ui.reqv = v /\ ui.key \in Cmd \ Endless /\ "late_kill" \notin mishaps)
            ~> (ui.reqv # v \/ ui.key = None \/ mpc = "exit")

\* A superseded command that nobody adopted does not hold the worker up, even
\* one that would never end by itself; and shutdown() returns: the worker is
\* woken, its command is killed.
CommandsEnd ==
    /\ (Superseded /\ q.promoted = 0 /\ wpc = "read") ~> wpc \in {"wait", "exit"}
    /\ mpc = "stop" ~> mpc = "exit"
=============================================================================
