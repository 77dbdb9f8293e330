----------------------------- MODULE ReaderFeed -----------------------------
(***************************************************************************)
(* The reader thread (reader.cpp), from the bytes of its source to the     *)
(* records of the list and of the header, with the processes it reads      *)
(* from; and the thread that starts it, cancels it for a reload, and       *)
(* copies the header lines (terminal.cpp).  A list is a sequence of        *)
(* records here; ChunkList has its storage and Session what its length     *)
(* sets off.                                                               *)
(***************************************************************************)
EXTENDS Integers, Sequences, SequencesExt

CONSTANTS
    Texts,        \* bound: what a source may write; characters, "nl" and "cr"
    HeaderLines,  \* --header-lines
    ReadZero,     \* --read0: the delimiter is "nul"
    MaxRead,      \* kReadBufferSize
    MaxGen        \* bound: lists, the first and one for each reload

ASSUME ReaderAssumption ==
    /\ HeaderLines \in Nat
    /\ ReadZero \in BOOLEAN
    /\ {MaxRead, MaxGen} \subseteq Nat \ {0}

Char == UNION {Range(s) : s \in Texts}
ASSUME TextsAssumption == Texts \subseteq Seq(Char)

Gen == 1 .. MaxGen

VARIABLES
    kind,          \* what each list is read from: "fd", "command", "walker" or "none"
    text,          \* what its source writes
    taken,         \* how much of it was read
    proc,          \* the process that writes: "none", "forked", "running", "failed", "succeeded", "reaped"
    list,          \* the records of each list
    finished,      \* finished_ of each list
    gen,           \* the newest list, list_
    header,        \* header_
    child_pid,     \* the list whose process it is, or 0
    temps,         \* temp_files_: the lists whose files are left; of one at most
    failed,        \* failed_
    cancel_byte,   \* a byte is in the cancel pipe
    walker_cancel, \* walker_cancel_
    t,             \* the reader thread
    wake_pending,  \* wake_pending_
    pipe,          \* a byte is in the wake pipe
    ui             \* the main loop

sourceVars == <<kind, text>>
sharedVars == <<header, child_pid, temps, failed>>
cancelVars == <<cancel_byte, walker_cancel>>
vars == <<kind, text, taken, proc, list, finished, gen, header, child_pid, temps, failed,
          cancel_byte, walker_cancel, t, wake_pending, pipe, ui>>

Delim == IF ReadZero THEN "nul" ELSE "nl"

\* A thread: buf is what was read and not split yet; missed is a history: its
\* kill found no group.
Thread(pc, g) == [pc |-> pc, gen |-> g, buf |-> <<>>, leftover |-> <<>>, seen |-> 0, cancelled |-> FALSE,
                  missed |-> FALSE]
First(k) == IF k = "walker" THEN "walk" ELSE "select"

\* The first list is started by main(); the terminal then runs.
Init ==
    /\ kind \in {[g \in Gen |-> IF g = 1 THEN k ELSE "none"] : k \in {"fd", "command", "walker"}}
    /\ text \in {[g \in Gen |-> IF g = 1 THEN s ELSE <<>>] : s \in Texts}
    /\ taken = [g \in Gen |-> 0]
    /\ proc = [g \in Gen |-> IF g > 1 \/ kind[1] = "walker" THEN "none"
                             ELSE IF kind[1] = "command" THEN "forked" ELSE "running"]
    /\ list = [g \in Gen |-> <<>>]
    /\ finished = [g \in Gen |-> FALSE]
    /\ gen = 1
    /\ header = <<>>
    /\ child_pid = IF kind[1] = "command" THEN 1 ELSE 0
    /\ temps = {}
    /\ failed = FALSE
    /\ cancel_byte = FALSE /\ walker_cancel = FALSE
    /\ t = Thread(First(kind[1]), 1)
    /\ wake_pending = FALSE /\ pipe = FALSE
    /\ ui = [pc |-> "boot", display |-> 1, header |-> <<>>, count |-> -1, fin |-> FALSE,
             last_count |-> -1, last_finished |-> FALSE, pid |-> 0, sync |-> FALSE, boot_gap |-> FALSE,
             missed |-> FALSE]

Exited(g) == proc[g] \in {"failed", "succeeded"}

-----------------------------------------------------------------------------
(* The sources. *)

\* shell_spawn: the child puts itself into a group of its own, after fork() has
\* returned in the parent, and before it runs the command.
SetGroup(g) ==
    /\ proc[g] = "forked"
    /\ proc' = [proc EXCEPT ![g] = "running"]
    /\ UNCHANGED <<sourceVars, taken, list, finished, gen, sharedVars, cancelVars, t, wake_pending, pipe, ui>>

\* A source ends when it likes, after it wrote everything or, when it fails,
\* before; what it wrote stays in the pipe.
Exit(g) ==
    /\ proc[g] = "running"
    /\ \/ proc' = [proc EXCEPT ![g] = "succeeded"] /\ UNCHANGED text
       \/ /\ proc' = [proc EXCEPT ![g] = "failed"]
          /\ \E n \in taken[g] .. Len(text[g]) : text' = [text EXCEPT ![g] = SubSeq(@, 1, n)]
    /\ UNCHANGED <<kind, taken, list, finished, gen, sharedVars, cancelVars, t, wake_pending, pipe, ui>>

Source(g) == SetGroup(g) \/ Exit(g)

\* kill(-pid, SIGKILL): it kills a group, and misses a child that has none yet.
Misses(g) == g # 0 /\ proc[g] = "forked"
Killed(g) == IF g # 0 /\ proc[g] = "running" THEN [proc EXCEPT ![g] = "failed"] ELSE proc

-----------------------------------------------------------------------------
(* run() and walk(). *)

\* A mutant: the carriage return is looked for in what the last read brought.
PushUntrimmed(rec, delimited) ==
    LET r == IF delimited /\ ~ReadZero /\ t.leftover = <<>> /\ rec # <<>> /\ Last(rec) = "cr" THEN Front(rec) ELSE rec
    IN  IF t.seen < HeaderLines THEN header' = Append(header, r) /\ UNCHANGED list
        ELSE list' = [list EXCEPT ![t.gen] = Append(@, r)] /\ UNCHANGED header

Push(rec, delimited) ==
    LET r == IF delimited /\ ~ReadZero /\ rec # <<>> /\ Last(rec) = "cr" THEN Front(rec) ELSE rec
    IN  IF t.seen < HeaderLines THEN header' = Append(header, r) /\ UNCHANGED list
        ELSE list' = [list EXCEPT ![t.gen] = Append(@, r)] /\ UNCHANGED header

\* select() and read().
ReaderRead ==
    /\ t.pc = "select" /\ ~cancel_byte /\ proc[t.gen] # "forked"
    /\ \E n \in 1 .. Min({MaxRead, Len(text[t.gen]) - taken[t.gen]}) :
         /\ t' = [t EXCEPT !.pc = "split", !.buf = SubSeq(text[t.gen], taken[t.gen] + 1, taken[t.gen] + n)]
         /\ taken' = [taken EXCEPT ![t.gen] = @ + n]
    /\ UNCHANGED <<sourceVars, proc, list, finished, gen, sharedVars, cancelVars, wake_pending, pipe, ui>>

ReaderCancelled ==
    /\ t.pc = "select" /\ cancel_byte
    /\ t' = [t EXCEPT !.pc = "finish", !.cancelled = TRUE]
    /\ UNCHANGED <<sourceVars, taken, proc, list, finished, gen, sharedVars, cancelVars, wake_pending, pipe, ui>>

\* The end of the input; a command may close its output and go on.  What is
\* left has no delimiter.
ReaderEof ==
    /\ t.pc = "select" /\ ~cancel_byte /\ proc[t.gen] # "forked"
    /\ taken[t.gen] = Len(text[t.gen])
    /\ kind[t.gen] = "fd" => Exited(t.gen)
    /\ IF t.leftover = <<>>
       THEN t' = [t EXCEPT !.pc = "finish"] /\ UNCHANGED <<list, header>>
       ELSE t' = [t EXCEPT !.pc = "wake_finish", !.leftover = <<>>, !.seen = @ + 1] /\ Push(t.leftover, FALSE)
    /\ UNCHANGED <<sourceVars, taken, proc, finished, gen, child_pid, temps, failed, cancelVars, wake_pending, pipe, ui>>

\* One turn of the loop over the buffer.
ReaderSplit ==
    /\ t.pc = "split"
    /\ LET end == SelectInSeq(t.buf, LAMBDA c : c = Delim)
       IN  IF end = 0
           THEN /\ t' = [t EXCEPT !.pc = "select", !.leftover = @ \o t.buf, !.buf = <<>>]
                /\ UNCHANGED <<list, header>>
           ELSE /\ Push(t.leftover \o SubSeq(t.buf, 1, end - 1), TRUE)
                /\ t' = [t EXCEPT !.pc = "wake_split", !.leftover = <<>>, !.seen = @ + 1,
                                  !.buf = SubSeq(@, end + 1, Len(@))]
    /\ UNCHANGED <<sourceVars, taken, proc, finished, gen, child_pid, temps, failed, cancelVars, wake_pending, pipe, ui>>

\* walk(): a file of the tree, unless it was cancelled.
ReaderWalk ==
    /\ t.pc = "walk"
    /\ LET left == Len(text[t.gen]) - taken[t.gen]
       IN  \/ /\ walker_cancel \/ left = 0
              /\ t' = [t EXCEPT !.pc = "finish", !.cancelled = walker_cancel]
              /\ UNCHANGED <<taken, list, header>>
           \/ /\ ~walker_cancel /\ left > 0
              /\ Push(<<text[t.gen][taken[t.gen] + 1]>>, FALSE)
              /\ t' = [t EXCEPT !.pc = "wake_walk", !.seen = @ + 1]
              /\ taken' = [taken EXCEPT ![t.gen] = @ + 1]
    /\ UNCHANGED <<sourceVars, proc, finished, gen, child_pid, temps, failed, cancelVars, wake_pending, pipe, ui>>

\* wake()
WakePcs == [wake_split |-> "split", wake_walk |-> "walk", wake_finish |-> "finish", wake_done |-> "done"]
ReaderWake ==
    /\ t.pc \in DOMAIN WakePcs
    /\ wake_pending' = TRUE
    /\ pipe' = (pipe \/ ~wake_pending)
    /\ t' = [t EXCEPT !.pc = WakePcs[@]]
    /\ UNCHANGED <<sourceVars, taken, proc, list, finished, gen, sharedVars, cancelVars, ui>>

ReaderFinish ==
    /\ t.pc = "finish"
    /\ finished' = [finished EXCEPT ![t.gen] = TRUE]
    /\ t' = [t EXCEPT !.pc = IF kind[t.gen] = "command" THEN "kill" ELSE "wake_done"]
    /\ UNCHANGED <<sourceVars, taken, proc, list, gen, sharedVars, cancelVars, wake_pending, pipe, ui>>

ReaderKill ==
    /\ t.pc = "kill"
    /\ proc' = IF t.cancelled THEN Killed(t.gen) ELSE proc
    /\ t' = [t EXCEPT !.pc = "reap", !.missed = t.cancelled /\ Misses(t.gen)]
    /\ UNCHANGED <<sourceVars, taken, list, finished, gen, sharedVars, cancelVars, wake_pending, pipe, ui>>

\* waitpid(); its status is kept in the thread.
ReaderReap ==
    /\ t.pc = "reap" /\ Exited(t.gen)
    /\ proc' = [proc EXCEPT ![t.gen] = "reaped"]
    /\ t' = [t EXCEPT !.pc = IF proc[t.gen] = "failed" THEN "store_failed" ELSE "store"]
    /\ UNCHANGED <<sourceVars, taken, list, finished, gen, sharedVars, cancelVars, wake_pending, pipe, ui>>

ReaderStore ==
    /\ t.pc \in {"store", "store_failed"}
    /\ child_pid' = 0
    /\ t' = [t EXCEPT !.pc = IF @ = "store" THEN "note" ELSE "note_failed"]
    /\ UNCHANGED <<sourceVars, taken, proc, list, finished, gen, header, temps, failed, cancelVars, wake_pending, pipe, ui>>

ReaderNote ==
    /\ t.pc \in {"note", "note_failed"}
    /\ failed' = (~t.cancelled /\ t.pc = "note_failed")
    /\ temps' = {}
    /\ t' = [t EXCEPT !.pc = "wake_done"]
    /\ UNCHANGED <<sourceVars, taken, proc, list, finished, gen, header, child_pid, cancelVars, wake_pending, pipe, ui>>

-----------------------------------------------------------------------------
(* The main loop. *)

Go(pc) == ui' = [ui EXCEPT !.pc = pc]
uiUnchanged == UNCHANGED <<sourceVars, taken, proc, list, finished, gen, sharedVars, cancelVars, t, wake_pending, pipe>>

\* run() copies the header lines first, and reads count and finished flag later.
UIBootHeader ==
    /\ ui.pc = "boot"
    /\ ui' = [ui EXCEPT !.pc = "boot_count", !.header = header]
    /\ uiUnchanged

UIBootCount ==
    /\ ui.pc = "boot_count"
    /\ ui' = [ui EXCEPT !.pc = "boot_finished", !.last_count = Len(list[1])]
    /\ uiUnchanged

UIBootFinished ==
    /\ ui.pc = "boot_finished"
    /\ ui' = [ui EXCEPT !.pc = "idle", !.last_finished = finished[1], !.boot_gap = (header # ui.header)]
    /\ uiUnchanged

\* A turn of the loop: drain_pipe and ack_wake.  Turns that keys and results
\* cause do the same, only sooner.
UIDrain ==
    /\ ui.pc = "idle" /\ pipe
    /\ pipe' = FALSE
    /\ Go("ack")
    /\ UNCHANGED <<sourceVars, taken, proc, list, finished, gen, sharedVars, cancelVars, t, wake_pending>>

UIAck ==
    /\ ui.pc = "ack"
    /\ wake_pending' = FALSE
    /\ Go("list")
    /\ UNCHANGED <<sourceVars, taken, proc, list, finished, gen, sharedVars, cancelVars, t, pipe>>

\* on_reader_progress: a list that is read for reload-sync is not shown before
\* it is complete.
UIList ==
    /\ ui.pc = "list"
    /\ ui' = IF gen = ui.display THEN [ui EXCEPT !.pc = "count"]
             ELSE IF finished[gen] THEN [ui EXCEPT !.pc = "count", !.display = gen, !.last_count = -1]
             ELSE [ui EXCEPT !.pc = "idle"]
    /\ uiUnchanged

UICount ==
    /\ ui.pc = "count"
    /\ ui' = [ui EXCEPT !.pc = "finished", !.count = Len(list[ui.display])]
    /\ uiUnchanged

UIFinished ==
    /\ ui.pc = "finished"
    /\ LET fin == finished[ui.display]
           new == ui.count # ui.last_count \/ fin # ui.last_finished
       IN  ui' = IF new THEN [ui EXCEPT !.pc = "copy", !.last_count = ui.count, !.last_finished = fin]
                 ELSE [ui EXCEPT !.pc = "idle"]
    /\ uiUnchanged

\* A mutant: the header is complete with the first item.
UICopyFirst ==
    /\ ui.pc = "copy"
    /\ ui' = [ui EXCEPT !.pc = "idle", !.boot_gap = FALSE,
                        !.header = IF ui.last_count = 1 THEN header ELSE @]
    /\ uiUnchanged

UICopy ==
    /\ ui.pc = "copy"
    /\ ui' = [ui EXCEPT !.pc = "idle", !.boot_gap = FALSE,
                        !.header = IF HeaderLines > 0 THEN header ELSE @]
    /\ uiUnchanged

\* start_reload: reload or reload-sync.  First cancel(), step by step.
UIReload(sync) ==
    /\ ui.pc = "idle" /\ gen < MaxGen
    /\ ui' = [ui EXCEPT !.pc = "cancel", !.sync = sync]
    /\ uiUnchanged

UICancel ==
    /\ ui.pc = "cancel"
    /\ cancel_byte' = TRUE /\ walker_cancel' = TRUE
    /\ ui' = [ui EXCEPT !.pc = "kill", !.missed = FALSE]
    /\ UNCHANGED <<sourceVars, taken, proc, list, finished, gen, sharedVars, t, wake_pending, pipe>>

\* A mutant: a list that is finished needs no kill.
UILoadPidUnfinished ==
    /\ ui.pc = "kill"
    /\ ui' = [ui EXCEPT !.pc = "send", !.pid = IF finished[gen] THEN 0 ELSE child_pid]
    /\ uiUnchanged

UILoadPid ==
    /\ ui.pc = "kill"
    /\ ui' = [ui EXCEPT !.pc = "send", !.pid = child_pid]
    /\ uiUnchanged

UIKill ==
    /\ ui.pc = "send"
    /\ proc' = Killed(ui.pid)
    /\ ui' = [ui EXCEPT !.pc = "join", !.missed = Misses(ui.pid)]
    /\ UNCHANGED <<sourceVars, taken, list, finished, gen, sharedVars, cancelVars, t, wake_pending, pipe>>

\* A mutant: a list that is finished has no thread to wait for.
UIJoinFinished ==
    /\ ui.pc = "join" /\ finished[gen]
    /\ cancel_byte' = FALSE /\ walker_cancel' = FALSE
    /\ Go("spawn")
    /\ UNCHANGED <<sourceVars, taken, proc, list, finished, gen, sharedVars, t, wake_pending, pipe>>

UIJoin ==
    /\ ui.pc = "join" /\ t.pc = "done"
    /\ cancel_byte' = FALSE /\ walker_cancel' = FALSE
    /\ Go("spawn")
    /\ UNCHANGED <<sourceVars, taken, proc, list, finished, gen, sharedVars, t, wake_pending, pipe>>

\* start_command: the command is spawned, or not, and the next list begins.
\* The search that the reload asks for wakes the loop again.
UISpawn ==
    /\ ui.pc = "spawn"
    /\ LET g == gen + 1
       IN  /\ \E ok \in BOOLEAN, s \in Texts :
                /\ kind' = [kind EXCEPT ![g] = "command"]
                /\ text' = [text EXCEPT ![g] = IF ok THEN s ELSE <<>>]
                /\ proc' = [proc EXCEPT ![g] = IF ok THEN "forked" ELSE "none"]
                /\ finished' = [finished EXCEPT ![g] = ~ok]
                /\ failed' = ~ok
                /\ temps' = IF ok THEN {g} ELSE {}
                /\ child_pid' = IF ok THEN g ELSE child_pid
                /\ t' = Thread(IF ok THEN "select" ELSE "done", g)
           /\ gen' = g
           /\ header' = <<>>
           /\ ui' = [ui EXCEPT !.pc = "idle", !.last_count = -1, !.last_finished = FALSE,
                               !.display = IF ui.sync THEN @ ELSE g, !.boot_gap = FALSE]
    /\ pipe' = TRUE
    /\ UNCHANGED <<taken, list, cancelVars, wake_pending>>

-----------------------------------------------------------------------------
Reader == ReaderRead \/ ReaderCancelled \/ ReaderEof \/ ReaderSplit \/ ReaderWalk \/ ReaderWake
          \/ ReaderFinish \/ ReaderKill \/ ReaderReap \/ ReaderStore \/ ReaderNote
Boot == UIBootHeader \/ UIBootCount \/ UIBootFinished
Progress == UIDrain \/ UIAck \/ UIList \/ UICount \/ UIFinished \/ UICopy
Cancel == UICancel \/ UILoadPid \/ UIKill \/ UIJoin \/ UISpawn

Next == Reader \/ Boot \/ Progress \/ Cancel
        \/ (\E sync \in BOOLEAN : UIReload(sync)) \/ (\E g \in Gen : Source(g))

Spec == Init /\ [][Next]_vars
\* The threads run; what the user does and when a command ends is not up to the code.
LiveSpec == Spec /\ WF_vars(Reader) /\ WF_vars(Boot) /\ WF_vars(Progress) /\ WF_vars(Cancel)

-----------------------------------------------------------------------------
(* Properties *)

\* What a text is cut into, character by character and without regard to reads:
\* the records that the first n characters complete, and the rest of them.
Line(rec) == IF ~ReadZero /\ rec # <<>> /\ Last(rec) = "cr" THEN Front(rec) ELSE rec
CutOne(p, c) == IF c = Delim THEN [lines |-> Append(p.lines, Line(p.rest)), rest |-> <<>>]
                ELSE [lines |-> p.lines, rest |-> Append(p.rest, c)]
Cut(s) ==
    LET f[n \in 0 .. Len(s)] == IF n = 0 THEN [lines |-> <<>>, rest |-> <<>>] ELSE CutOne(f[n - 1], s[n])
    IN  f

Records(g) ==
    LET s == text[g]
        end == Cut(s)[Len(s)]
    IN  IF kind[g] = "walker" THEN [i \in 1 .. Len(s) |-> <<s[i]>>]
        ELSE end.lines \o (IF end.rest = <<>> THEN <<>> ELSE <<end.rest>>)
HeaderOf(g) == SubSeq(Records(g), 1, Min({HeaderLines, Len(Records(g))}))
ItemsOf(g) == SubSeq(Records(g), HeaderLines + 1, Len(Records(g)))


\* However the bytes of a source are cut into reads, the list and the header are
\* made of its records, in order, and of all of them unless the reader was
\* cancelled (run() and walk() of reader.cpp).
RecordsAsSent ==
    /\ \A g \in Gen : IsPrefix(list[g], ItemsOf(g))
    /\ IsPrefix(header, HeaderOf(gen))
    /\ (finished[gen] /\ ~t.cancelled /\ taken[gen] = Len(text[gen])) =>
           list[gen] = ItemsOf(gen) /\ header = HeaderOf(gen)

\* When nothing is left to do, the newest list is shown with its own header
\* lines, although they are only copied when the count or the finished flag
\* moved; but for a source that ends within the start of the terminal, whose
\* last header lines may be missing (on_reader_progress and run()).
HeadersAreShown ==
    (ui.pc = "idle" /\ ~pipe /\ t.pc = "done" /\ ~ui.boot_gap) => ui.display = gen /\ ui.header = header

\* A list that was replaced has ended and its command is reaped, and the pid that
\* a cancel finds is never an older one (cancel, start_command and the end of
\* run()).
ReplacedIsGone ==
    /\ \A g \in Gen : g < gen => finished[g] /\ (kind[g] = "command" => proc[g] \in {"none", "reaped"})
    /\ child_pid \in {0, gen}

\* A reload starts, although the command before it may run forever, with its
\* output open or closed, and one of the two kills that it is sent may come before
\* it has a group (cancel: the pipe, the kill and the join; the end of run()).  If
\* both do, nothing ends the wait for it but the command.
BothMissed == ui.missed /\ t.missed
ReloadEnds == ui.pc = "cancel" ~> (ui.pc = "idle" \/ BothMissed)
=============================================================================
