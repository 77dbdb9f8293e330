---------------------------- MODULE StreamFilter ----------------------------
(***************************************************************************)
(* --filter with the output in input order (main.cpp streaming_filter):    *)
(* the main thread prints the matches of each snapshot while the reader    *)
(* thread (reader.cpp run) is still appending, and sleeps between two      *)
(* snapshots until the reader wakes it.  Wakes are coalesced: after one,   *)
(* none is sent until the consumer calls ack_wake().                       *)
(***************************************************************************)
EXTENDS ChunkList

CONSTANTS
    Main,        \* the main thread, the only consumer
    Matching     \* the records the pattern matches

ASSUME FilterAssumption ==
    /\ Consumers = {Main}
    /\ Matching \subseteq Specs

VARIABLES
    rpc,           \* the reader: feeding, waiting for its command, or inside wake()
    wake_cb,       \* wake_cb_ is set
    wake_pending,  \* wake_pending_
    woke,          \* the flag the callback sets under mu
    mu_held,       \* the main thread is past cv.wait and still holds mu
    mpc,           \* what the main thread does next
    chunk_i,       \* next chunk to print, counted from 0
    item_i,        \* next item of it to print, counted from 0
    out,           \* the matches of this snapshot, not written yet
    printed        \* everything written to stdout

filterVars == <<rpc, wake_cb, wake_pending, woke, mu_held, mpc, chunk_i, item_i, out, printed>>
mainVars == <<wake_cb, mpc, chunk_i, item_i, out, printed>>
allVars == <<vars, filterVars>>

FilterInit ==
    /\ Init
    /\ rpc = "feed"
    /\ wake_cb = FALSE
    /\ wake_pending = FALSE
    /\ woke = FALSE
    /\ mu_held = FALSE
    /\ mpc = "install"
    /\ chunk_i = 0
    /\ item_i = 0
    /\ out = <<>>
    /\ printed = <<>>

-----------------------------------------------------------------------------
(* The reader thread: append, wake, ..., finish, wake. *)

\* One step of append() or finish().  An append() is followed by a wake(), a
\* finish() too, but a command is waited for before.
ReaderFeed ==
    /\ rpc = "feed"
    /\ Producer
    /\ rpc' \in CASE ppc = "total"  -> {"copy"}
                 [] ppc = "finish" -> {"copy", "reap"}
                 [] OTHER          -> {"feed"}
    /\ UNCHANGED <<mainVars, wake_pending, woke, mu_held>>

\* close() and waitpid(), which lasts as long as the command: it may have closed
\* its output and run on.
ReaderReap ==
    /\ rpc = "reap"
    /\ rpc' = "copy"
    /\ UNCHANGED <<vars, mainVars, wake_pending, woke, mu_held>>

\* wake() copies the callback under wake_mu_; without one it returns.
WakeCopy ==
    /\ rpc = "copy"
    /\ rpc' = IF wake_cb THEN "exchange" ELSE "feed"
    /\ UNCHANGED <<vars, mainVars, wake_pending, woke, mu_held>>

\* wake_pending_.exchange(true): the callback is only called when it was false.
WakeExchange ==
    /\ rpc = "exchange"
    /\ wake_pending' = TRUE
    /\ rpc' = IF wake_pending THEN "feed" ELSE "call"
    /\ UNCHANGED <<vars, mainVars, woke, mu_held>>

\* The callback: woke = true under mu, notify.
WakeCall ==
    /\ rpc = "call"
    /\ ~mu_held
    /\ woke' = TRUE
    /\ rpc' = "feed"
    /\ UNCHANGED <<vars, mainVars, wake_pending, mu_held>>

Reader == ReaderFeed \/ ReaderReap \/ WakeCopy \/ WakeExchange \/ WakeCall

-----------------------------------------------------------------------------
(* The main thread. *)

readerVars == <<rpc, wake_pending, woke, mu_held>>

MainInstall ==
    /\ mpc = "install"
    /\ wake_cb' = TRUE
    /\ mpc' = "snapshot"
    /\ UNCHANGED <<vars, readerVars, chunk_i, item_i, out, printed>>

\* list->snapshot(), step by step.
MainSnapshot ==
    /\ mpc = "snapshot"
    /\ UNCHANGED producerVars
    /\ SnapshotCopy(Main) \/ SnapshotCount(Main) \/ SnapshotFinished(Main)
    /\ mpc' = IF cpc'[Main] = "idle" THEN "print" ELSE "snapshot"
    /\ UNCHANGED <<readerVars, wake_cb, chunk_i, item_i, out, printed>>

Matches(s) ==
    LET f[n \in 0 .. Len(s)] ==
            IF n = 0 THEN <<>> ELSE IF s[n] \in Matching THEN Append(f[n - 1], s[n]) ELSE f[n - 1]
    IN  f[Len(s)]

\* The records of chunk k at positions from + 1 .. to.
Records(k, from, to) == [j \in 1 .. to - from |-> chunk[k].items[from + j].spec]

\* Mutant of MainPrintChunk: the tail is read from its first item again.
MainPrintChunkAgain ==
    LET s == snap[Main]
        count_k == s.counts[chunk_i + 1]
    IN
    /\ mpc = "print"
    /\ chunk_i < s.n
    /\ out' = IF item_i < count_k
                THEN out \o Matches(Records(chunk_i + 1, item_i, count_k)) ELSE out
    /\ item_i' = 0
    /\ chunk_i' = chunk_i + 1
    /\ UNCHANGED <<vars, readerVars, wake_cb, mpc, printed>>

\* One turn of the loop over the chunks of the snapshot.
MainPrintChunk ==
    LET s == snap[Main]
        count_k == s.counts[chunk_i + 1]
    IN
    /\ mpc = "print"
    /\ chunk_i < s.n
    /\ out' = IF item_i < count_k
                THEN out \o Matches(Records(chunk_i + 1, item_i, count_k)) ELSE out
    /\ item_i' = IF chunk_i + 1 < s.n THEN 0
                 ELSE IF item_i < count_k THEN count_k ELSE item_i
    /\ chunk_i' = chunk_i + 1
    /\ UNCHANGED <<vars, readerVars, wake_cb, mpc, printed>>

\* After the loop: stay on the growing tail chunk, write, and stop if the
\* snapshot says that the list is finished.
MainWrite ==
    /\ mpc = "print"
    /\ ~(chunk_i < snap[Main].n)
    /\ chunk_i' = IF chunk_i > 0 /\ chunk_i = snap[Main].n THEN chunk_i - 1 ELSE chunk_i
    /\ printed' = printed \o out
    /\ out' = <<>>
    /\ mpc' = IF snap[Main].finished THEN "uninstall" ELSE "wait"
    /\ UNCHANGED <<vars, readerVars, wake_cb, item_i>>

\* cv.wait returns once woke is set; woke is reset and mu is still held.
MainWait ==
    /\ mpc = "wait"
    /\ woke
    /\ woke' = FALSE
    /\ mu_held' = TRUE
    /\ mpc' = "ack"
    /\ UNCHANGED <<vars, rpc, wake_pending, wake_cb, chunk_i, item_i, out, printed>>

\* Mutant of MainAck: the wake is not acknowledged.
MainAckForgotten ==
    /\ mpc = "ack"
    /\ mu_held' = FALSE
    /\ mpc' = "snapshot"
    /\ UNCHANGED <<vars, rpc, wake_pending, woke, wake_cb, chunk_i, item_i, out, printed>>

\* reader.ack_wake(); the end of the loop body releases mu.
MainAck ==
    /\ mpc = "ack"
    /\ wake_pending' = FALSE
    /\ mu_held' = FALSE
    /\ mpc' = "snapshot"
    /\ UNCHANGED <<vars, rpc, woke, wake_cb, chunk_i, item_i, out, printed>>

MainUninstall ==
    /\ mpc = "uninstall"
    /\ wake_cb' = FALSE
    /\ mpc' = "end"
    /\ UNCHANGED <<vars, readerVars, chunk_i, item_i, out, printed>>

MainThread ==
    MainInstall \/ MainSnapshot \/ MainPrintChunk \/ MainWrite \/ MainWait \/ MainAck
        \/ MainUninstall

FilterNext == Reader \/ MainThread

\* The source may stall for ever between two records: a new append() or the
\* EOF is never owed, nor the end of a command.  What else the reader has begun it
\* completes.
ReaderBusy ==
    /\ rpc # "reap"
    /\ ppc \in {"write", "publish", "total", "finish"} \/ rpc # "feed"
    /\ Reader

FilterSpec == FilterInit /\ [][FilterNext]_allVars
LiveSpec   == FilterSpec /\ WF_allVars(MainThread) /\ WF_allVars(ReaderBusy)

-----------------------------------------------------------------------------
(* Properties. *)

\* What was written is the matches of a prefix of the input, in order, none
\* twice and none left out between two that were: the print position chunk_i,
\* item_i survives chunks that fill up and chunks that are added between two
\* snapshots.
PrintedInOrder == IsPrefix(printed, Matches(input))

\* While the loop runs, every record that was published is looked at: its match is
\* printed although nothing more may ever arrive and the command may never end.
\* A wake that is lost between the snapshot and the wait would leave it unprinted.
PrintedAsItArrives ==
    \A i \in 1 .. MaxItems :
        (Published >= i) ~>
            \/ mpc = "end"
            \/ /\ Len(input) >= i
               /\ Len(printed) >= Len(Matches(SubSeq(input, 1, i)))

\* Once the list is marked finished and its command has ended, the loop ends: the
\* last wake is not lost.
Terminates == (finished /\ rpc # "reap") ~> mpc = "end"

\* Every wake() of the reader, exchanged away or not, leads to another turn of
\* the loop that sees what it was sent for.
WakesAreNotLost == PrintedAsItArrives /\ Terminates

\* "matches are printed as the input arrives instead of after EOF": when the
\* loop has ended, every match of the input has been printed.
AllMatchesPrinted == mpc = "end" => printed = Matches(input)
=============================================================================
