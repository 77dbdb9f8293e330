-------------------------- MODULE ReaderFeedProofs --------------------------
(***************************************************************************)
(* Theorems about the reader thread and the thread that starts, cancels    *)
(* and follows it: for all texts, however they are cut into reads, any     *)
(* number of reloads and of header lines.                                  *)
(***************************************************************************)
EXTENDS ReaderFeed, SequenceTheorems, WellFoundedInduction, TLAPS

-----------------------------------------------------------------------------
\* A set of naturals has a least member.
LEMMA NatLeast ==
    ASSUME NEW T, T \subseteq Nat, T # {}
    PROVE  \E m \in T : \A k \in T : m <= k
<1> DEFINE Less == {ss \in Nat \X Nat : ss[1] < ss[2]}
<1>1. IsWellFoundedOn(Less, Nat)
  BY NatLessThanWellFounded DEF OpToRel
<1>2. PICK m \in T : \A k \in T : ~ (<<k, m>> \in Less)
  BY <1>1, WFMin
<1>3. ASSUME NEW k \in T PROVE m <= k
  <2>1. m \in Nat /\ k \in Nat /\ ~ (<<k, m>> \in Less)
    BY <1>2
  <2> QED BY <2>1
<1> QED BY <1>3

-----------------------------------------------------------------------------
(* Types. *)

ReaderPcs == {"select", "split", "walk", "finish", "kill", "reap", "store", "store_failed",
              "note", "note_failed", "wake_split", "wake_walk", "wake_finish", "wake_done", "done"}
BootPcs == {"boot", "boot_count", "boot_finished"}
CancelPcs == {"cancel", "kill", "send", "join", "spawn"}
ProgressPcs == {"ack", "list", "count", "finished", "copy"}

Record == Seq(Char)
ReaderThread == [pc : ReaderPcs, gen : Gen, buf : Seq(Char), leftover : Seq(Char),
                 seen : Nat, cancelled : BOOLEAN, missed : BOOLEAN]
MainLoop == [pc : BootPcs \cup CancelPcs \cup ProgressPcs \cup {"idle"}, display : Gen,
             header : Seq(Record), count : Int, fin : BOOLEAN, last_count : Int,
             last_finished : BOOLEAN, pid : 0 .. MaxGen, sync : BOOLEAN, boot_gap : BOOLEAN,
             missed : BOOLEAN]

TypeOK ==
    /\ kind \in [Gen -> {"fd", "command", "walker", "none"}]
    /\ text \in [Gen -> Seq(Char)]
    /\ taken \in [Gen -> Nat]
    /\ \A g \in Gen : taken[g] <= Len(text[g])
    /\ proc \in [Gen -> {"none", "forked", "running", "failed", "succeeded", "reaped"}]
    /\ list \in [Gen -> Seq(Record)]
    /\ finished \in [Gen -> BOOLEAN]
    /\ gen \in Gen
    /\ header \in Seq(Record)
    /\ child_pid \in 0 .. MaxGen
    /\ temps \subseteq Gen
    /\ {failed, cancel_byte, walker_cancel, wake_pending, pipe} \subseteq BOOLEAN
    /\ t \in ReaderThread
    /\ t.gen = gen
    /\ ui \in MainLoop

-----------------------------------------------------------------------------
(* The inductive invariant. *)

\* Where the reader stands with its list and its child: the list is finished
\* before the child is waited for, and the pid is forgotten after.
PastFinish == {"kill", "reap", "store", "store_failed", "note", "note_failed", "wake_done", "done"}
PastReap == {"store", "store_failed", "note", "note_failed", "wake_done", "done"}
PastStore == {"note", "note_failed", "wake_done", "done"}

Ended(g) == kind[g] = "command" => proc[g] \in {"none", "reaped"}

ReaderAgrees ==
    /\ finished[gen] <=> t.pc \in PastFinish
    /\ t.pc \in PastReap => Ended(gen)
    /\ t.pc \in PastStore \/ kind[gen] # "command" => child_pid = 0
    /\ t.pc \in {"kill", "reap", "store", "store_failed"} => kind[gen] = "command"

\* Lists not started yet are empty.
FutureAgrees == \A g \in Gen : g > gen => taken[g] = 0 /\ list[g] = <<>>

\* A list is replaced by the last step of a cancel, with the thread joined.
CancelAgrees ==
    /\ ui.pc \in CancelPcs => gen < MaxGen
    /\ ui.pc = "spawn" => t.pc = "done"

IInv ==
    /\ TypeOK
    /\ ReaderAgrees
    /\ FutureAgrees
    /\ CancelAgrees
    /\ ReplacedIsGone

\* The wake handshake: a wake that left no byte in the pipe is one the loop has
\* drained already, and it did not read the list yet.
WakeAgrees == wake_pending /\ ~pipe => ui.pc = "ack"

\* What the loop copied of the header: all of it, once it saw the list finished.
CopyAgrees ==
    /\ ui.pc \in BootPcs => gen = 1 /\ ui.display = 1 /\ ~ui.last_finished
    /\ ui.pc \in {"count", "finished", "copy"} => ui.display = gen
    /\ ui.last_finished => ui.display = gen /\ finished[gen]
    /\ (ui.last_finished /\ ui.pc # "copy" /\ ~ui.boot_gap) => ui.header = header
    /\ (ui.pc \in CancelPcs \cup {"idle"} /\ t.pc = "done" /\ ~pipe /\ ~ui.boot_gap)
          => ui.display = gen /\ ui.header = header
    /\ HeaderLines = 0 => header = <<>> /\ ui.header = <<>>

-----------------------------------------------------------------------------
(* Helpers. *)

LEMMA MinIsLeast ==
    ASSUME NEW a \in Nat, NEW b \in Nat
    PROVE  Min({a, b}) \in {a, b} /\ Min({a, b}) <= a /\ Min({a, b}) <= b
<1>1. PICK m \in {a, b} : \A k \in {a, b} : m <= k
  BY NatLeast
<1> QED BY <1>1 DEF Min

LEMMA WakePcsIs ==
    /\ DOMAIN WakePcs = {"wake_split", "wake_walk", "wake_finish", "wake_done"}
    /\ WakePcs["wake_split"] = "split" /\ WakePcs["wake_walk"] = "walk"
    /\ WakePcs["wake_finish"] = "finish" /\ WakePcs["wake_done"] = "done"
BY DEF WakePcs

\* Where a character is found first.
FirstIn(s, c) == LET I == {i \in 1 .. Len(s) : s[i] = c} IN IF I # {} THEN Min(I) ELSE 0

LEMMA FirstAt ==
    ASSUME NEW s \in Seq(Char), NEW c
    PROVE  /\ FirstIn(s, c) \in 0 .. Len(s)
           /\ FirstIn(s, c) = 0 => \A i \in 1 .. Len(s) : s[i] # c
           /\ FirstIn(s, c) # 0 => s[FirstIn(s, c)] = c /\ \A i \in 1 .. FirstIn(s, c) - 1 : s[i] # c
<1> DEFINE end == FirstIn(s, c)
           I == {i \in 1 .. Len(s) : s[i] = c}
<1>0. Len(s) \in Nat
  OBVIOUS
<1>1. end = IF I # {} THEN Min(I) ELSE 0
  BY DEF FirstIn
<1> HIDE DEF end
<1>2. CASE I = {}
  <2>1. end = 0
    BY <1>1, <1>2
  <2> QED BY <1>0, <2>1, <1>2 DEF end
<1>3. CASE I # {}
  <2>0. I \subseteq Nat
    BY <1>0
  <2>1. PICK m \in I : \A k \in I : m <= k
    BY <1>3, <2>0, NatLeast
  <2>2. end \in I /\ \A k \in I : end <= k
    BY <1>1, <1>3, <2>1 DEF Min
  <2>3. ASSUME NEW i \in 1 .. end - 1 PROVE s[i] # c
    <3>1. i \in 1 .. Len(s) /\ ~(end <= i)
      BY <1>0, <2>2
    <3> QED BY <2>2, <3>1
  <2>4. end \in 1 .. Len(s) /\ s[end] = c
    BY <2>2
  <2> QED BY <1>0, <2>3, <2>4 DEF end
<1> QED BY <1>2, <1>3

\* A part of a sequence.
LEMMA PartOf ==
    ASSUME NEW S, NEW s \in Seq(S), NEW a \in Nat, NEW b \in Nat, a <= b, b <= Len(s)
    PROVE  /\ SubSeq(s, a + 1, b) \in Seq(S)
           /\ Len(SubSeq(s, a + 1, b)) = b - a
           /\ \A i \in 1 .. b - a : SubSeq(s, a + 1, b)[i] = s[a + i]
<1>1. Len(s) \in Nat /\ \A i \in a + 1 .. b : s[i] \in S
  OBVIOUS
<1>2. (IF a + 1 <= b THEN b - (a + 1) + 1 ELSE 0) = b - a /\ b - (a + 1) + 1 = b - a
  OBVIOUS
<1>3. \A i \in 1 .. b - a : (a + 1) + i - 1 = a + i
  OBVIOUS
<1>4. /\ SubSeq(s, a + 1, b) \in Seq(S)
      /\ Len(SubSeq(s, a + 1, b)) = IF a + 1 <= b THEN b - (a + 1) + 1 ELSE 0
      /\ \A i \in 1 .. b - (a + 1) + 1 : SubSeq(s, a + 1, b)[i] = s[(a + 1) + i - 1]
  BY <1>1, SubSeqProperties
<1> QED BY <1>2, <1>3, <1>4

\* What is appended to the end of a concatenation.
LEMMA AppendLast ==
    ASSUME NEW S, NEW s \in Seq(S), NEW u \in Seq(S), NEW e \in S
    PROVE  s \o Append(u, e) = Append(s \o u, e)
<1>1. Append(u, e) = u \o <<e>> /\ s \o u \in Seq(S) /\ <<e>> \in Seq(S)
  BY AppendIsConcat
<1>2. Append(s \o u, e) = (s \o u) \o <<e>>
  BY <1>1, AppendIsConcat
<1> QED BY <1>1, <1>2, ConcatAssociative

LEMMA CharAppendLast ==
    \A v, w \in Seq(Char) : \A d \in Char : v \o Append(w, d) = Append(v \o w, d)
BY AppendLast

LEMMA RecordsAssociate ==
    \A u, v, w \in Seq(Record) : (u \o v) \o w = u \o (v \o w) /\ v \o w \in Seq(Record)
BY ConcatAssociative

\* A record of characters stays one without its carriage return.
LEMMA LineType ==
    ASSUME NEW rec \in Record
    PROVE  Line(rec) \in Record
<1> USE DEF Record
<1>1. CASE rec # <<>>
  <2>1. Len(rec) \in Nat /\ Len(rec) # 0
    BY <1>1
  <2>2. Front(rec) = SubSeq(rec, 0 + 1, Len(rec) - 1) /\ Len(rec) - 1 \in Nat
        /\ 0 <= Len(rec) - 1 /\ Len(rec) - 1 <= Len(rec)
    BY <2>1 DEF Front
  <2>3. Front(rec) \in Seq(Char)
    BY <2>2, PartOf
  <2> QED BY <2>3 DEF Line
<1> QED BY <1>1 DEF Line

LEMMA PushIs ==
    ASSUME NEW rec, NEW delimited \in BOOLEAN, Push(rec, delimited)
    PROVE  LET r == IF delimited THEN Line(rec) ELSE rec IN
           IF t.seen < HeaderLines THEN header' = Append(header, r) /\ list' = list
           ELSE list' = [list EXCEPT ![t.gen] = Append(@, r)] /\ header' = header
BY DEF Push, Line

LEMMA PushType ==
    ASSUME TypeOK, NEW rec \in Record, NEW delimited \in BOOLEAN, Push(rec, delimited)
    PROVE  header' \in Seq(Record) /\ list' \in [Gen -> Seq(Record)]
<1>1. PICK r \in Record : IF t.seen < HeaderLines THEN header' = Append(header, r) /\ list' = list
           ELSE list' = [list EXCEPT ![t.gen] = Append(@, r)] /\ header' = header
  BY PushIs, LineType
<1>2. header \in Seq(Record) /\ list \in [Gen -> Seq(Record)] /\ t.gen \in Gen
  BY DEF TypeOK
<1>3. Append(header, r) \in Seq(Record) /\ Append(list[t.gen], r) \in Seq(Record)
  BY <1>1, <1>2
<1> QED BY <1>1, <1>2, <1>3

-----------------------------------------------------------------------------
(* Every step keeps the types. *)

LEMMA ReaderTypes ==
    ASSUME TypeOK, Reader
    PROVE  TypeOK'
<1> USE DEF sharedVars, sourceVars, cancelVars
<1>p. /\ {"select", "split", "walk", "finish", "kill", "reap", "store", "store_failed", "note"}
            \subseteq ReaderPcs
      /\ {"note_failed", "wake_split", "wake_walk", "wake_finish", "wake_done", "done"}
            \subseteq ReaderPcs
  BY DEF ReaderPcs
<1>t. /\ t \in ReaderThread /\ t.gen = gen /\ gen \in Gen
      /\ t.buf \in Seq(Char) /\ t.leftover \in Seq(Char) /\ t.seen \in Nat /\ t.seen + 1 \in Nat
      /\ <<>> \in Seq(Char)
  BY DEF TypeOK, ReaderThread
<1>x. /\ text \in [Gen -> Seq(Char)] /\ taken \in [Gen -> Nat]
      /\ \A g \in Gen : taken[g] <= Len(text[g]) /\ Len(text[g]) \in Nat
  BY DEF TypeOK
<1>1. CASE ReaderRead
  <2> DEFINE a == MaxRead
             b == Len(text[gen]) - taken[gen]
  <2>1. PICK n \in 1 .. Min({a, b}) :
             /\ t' = [t EXCEPT !.pc = "split", !.buf = SubSeq(text[gen], taken[gen] + 1, taken[gen] + n)]
             /\ taken' = [taken EXCEPT ![gen] = @ + n]
    BY <1>1, <1>t DEF ReaderRead
  <2>2. a \in Nat /\ b \in Nat /\ text[gen] \in Seq(Char) /\ taken[gen] \in Nat /\ Len(text[gen]) \in Nat
    BY <1>t, <1>x, ReaderAssumption
  <2>3. n \in Nat /\ n <= b
    <3> HIDE DEF a, b
    <3>1. Min({a, b}) \in Nat /\ Min({a, b}) <= b
      BY <2>2, MinIsLeast
    <3> QED BY <2>2, <3>1
  <2>4. taken[gen] + n \in Nat /\ taken[gen] <= taken[gen] + n /\ taken[gen] + n <= Len(text[gen])
    BY <2>2, <2>3
  <2>5. SubSeq(text[gen], taken[gen] + 1, taken[gen] + n) \in Seq(Char)
    BY <2>2, <2>4, PartOf
  <2>6. t' \in ReaderThread /\ t'.gen = gen
    BY <1>p, <1>t, <2>1, <2>5 DEF ReaderThread
  <2>7. taken' \in [Gen -> Nat] /\ \A g \in Gen : taken'[g] <= Len(text[g])
    BY <1>t, <1>x, <2>1, <2>4
  <2> QED BY <1>1, <2>6, <2>7 DEF ReaderRead, TypeOK
<1>2. CASE ReaderCancelled
  <2>1. t' \in ReaderThread /\ t'.gen = gen
    BY <1>2, <1>p, <1>t DEF ReaderCancelled, ReaderThread
  <2> QED BY <1>2, <2>1 DEF ReaderCancelled, TypeOK
<1>3. CASE ReaderEof
  <2>1. t' \in ReaderThread /\ t'.gen = gen
    BY <1>3, <1>p, <1>t DEF ReaderEof, ReaderThread
  <2>2. header' \in Seq(Record) /\ list' \in [Gen -> Seq(Record)]
    <3>1. t.leftover \in Record
      BY <1>t DEF Record
    <3>2. Push(t.leftover, FALSE) \/ UNCHANGED <<list, header>>
      BY <1>3 DEF ReaderEof
    <3>3. CASE Push(t.leftover, FALSE)
      BY <3>1, <3>3, PushType
    <3>4. CASE UNCHANGED <<list, header>>
      BY <3>4 DEF TypeOK
    <3> QED BY <3>2, <3>3, <3>4
  <2> QED BY <1>3, <2>1, <2>2 DEF ReaderEof, TypeOK
<1>4. CASE ReaderSplit
  <2> DEFINE end == SelectInSeq(t.buf, LAMBDA c : c = Delim)
  <2>0. end = FirstIn(t.buf, Delim)
    BY DEF SelectInSeq, FirstIn
  <2>1. t.buf \in Seq(Char) /\ t.leftover \in Seq(Char) /\ Len(t.buf) \in Nat
    BY <1>t
  <2>2. IF end = 0
        THEN /\ t' = [t EXCEPT !.pc = "select", !.leftover = @ \o t.buf, !.buf = <<>>]
             /\ UNCHANGED <<list, header>>
        ELSE /\ Push(t.leftover \o SubSeq(t.buf, 1, end - 1), TRUE)
             /\ t' = [t EXCEPT !.pc = "wake_split", !.leftover = <<>>, !.seen = @ + 1,
                               !.buf = SubSeq(@, end + 1, Len(@))]
    BY <1>4 DEF ReaderSplit
  <2> HIDE DEF end
  <2>3. end \in 0 .. Len(t.buf)
    BY <2>0, <2>1, FirstAt
  <2>4. CASE end = 0
    <3>0. t.leftover \o t.buf \in Seq(Char)
      BY <2>1
    <3>1. t' \in ReaderThread /\ t'.gen = gen /\ UNCHANGED <<list, header>>
      BY <3>0, <1>p, <1>t, <2>1, <2>2, <2>4 DEF ReaderThread
    <3> QED BY <1>4, <3>1 DEF ReaderSplit, TypeOK
  <2>5. CASE end # 0
    <3>1. end - 1 \in Nat /\ 0 <= end - 1 /\ end - 1 <= Len(t.buf) /\ end \in Nat /\ end <= Len(t.buf)
      BY <2>1, <2>3, <2>5
    <3>2. SubSeq(t.buf, 0 + 1, end - 1) \in Seq(Char) /\ SubSeq(t.buf, end + 1, Len(t.buf)) \in Seq(Char)
      BY <2>1, <3>1, PartOf
    <3>3. t.leftover \o SubSeq(t.buf, 1, end - 1) \in Record
      BY <2>1, <3>2 DEF Record
    <3>4. header' \in Seq(Record) /\ list' \in [Gen -> Seq(Record)]
      BY <2>2, <2>5, <3>3, PushType
    <3>5. t' \in ReaderThread /\ t'.gen = gen
      BY <1>p, <1>t, <2>2, <2>5, <3>2 DEF ReaderThread
    <3> QED BY <1>4, <3>4, <3>5 DEF ReaderSplit, TypeOK
  <2> QED BY <2>4, <2>5
<1>5. CASE ReaderWalk
  <2>0. Len(text[gen]) \in Nat /\ taken[gen] \in Nat /\ taken[gen] <= Len(text[gen]) /\ t.gen = gen
    BY <1>t, <1>x
  <2>1. CASE t' = [t EXCEPT !.pc = "finish", !.cancelled = walker_cancel]
             /\ UNCHANGED <<taken, list, header>>
    <3>0. walker_cancel \in BOOLEAN
      BY DEF TypeOK
    <3>1. t' \in ReaderThread /\ t'.gen = gen
      BY <2>1, <3>0, <1>p, <1>t DEF ReaderThread
    <3> QED BY <1>5, <2>1, <3>1 DEF ReaderWalk, TypeOK
  <2>2. CASE /\ Len(text[gen]) - taken[gen] > 0
             /\ Push(<<text[gen][taken[gen] + 1]>>, FALSE)
             /\ t' = [t EXCEPT !.pc = "wake_walk", !.seen = @ + 1]
             /\ taken' = [taken EXCEPT ![gen] = @ + 1]
    <3>2. taken[gen] + 1 \in 1 .. Len(text[gen])
      BY <2>0, <2>2
    <3>3. <<text[gen][taken[gen] + 1]>> \in Record
      BY <1>t, <1>x, <3>2 DEF Record
    <3>4. header' \in Seq(Record) /\ list' \in [Gen -> Seq(Record)]
      BY <2>2, <3>3, PushType
    <3>5. t' \in ReaderThread /\ t'.gen = gen
      BY <1>p, <1>t, <2>2 DEF ReaderThread
    <3>6. taken' \in [Gen -> Nat] /\ \A g \in Gen : taken'[g] <= Len(text[g])
      BY <1>t, <1>x, <2>0, <2>2, <3>2
    <3> QED BY <1>5, <3>4, <3>5, <3>6 DEF ReaderWalk, TypeOK
  <2> QED BY <1>5, <1>t, <2>1, <2>2 DEF ReaderWalk
<1>6. CASE ReaderWake
  <2>1. t' \in ReaderThread /\ t'.gen = gen
    BY <1>6, <1>p, <1>t, WakePcsIs DEF ReaderWake, ReaderThread
  <2> QED BY <1>6, <2>1 DEF ReaderWake, TypeOK
<1>7. CASE ReaderFinish
  <2>1. t' \in ReaderThread /\ t'.gen = gen
    BY <1>7, <1>p, <1>t DEF ReaderFinish, ReaderThread
  <2> QED BY <1>7, <2>1 DEF ReaderFinish, TypeOK
<1>8. CASE ReaderKill
  <2>1. t' \in ReaderThread /\ t'.gen = gen
    BY <1>8, <1>p, <1>t DEF ReaderKill, Misses, ReaderThread
  <2> QED BY <1>8, <2>1 DEF ReaderKill, Killed, TypeOK
<1>9. CASE ReaderReap
  <2>1. t' \in ReaderThread /\ t'.gen = gen
    BY <1>9, <1>p, <1>t DEF ReaderReap, ReaderThread
  <2> QED BY <1>9, <2>1 DEF ReaderReap, TypeOK
<1>10. CASE ReaderStore
  <2>1. t' \in ReaderThread /\ t'.gen = gen
    BY <1>10, <1>p, <1>t DEF ReaderStore, ReaderThread
  <2>2. 0 \in 0 .. MaxGen
    BY ReaderAssumption
  <2> QED BY <1>10, <2>1, <2>2 DEF ReaderStore, TypeOK
<1>11. CASE ReaderNote
  <2>1. t' \in ReaderThread /\ t'.gen = gen
    BY <1>11, <1>p, <1>t DEF ReaderNote, ReaderThread
  <2> QED BY <1>11, <2>1 DEF ReaderNote, TypeOK
<1> QED BY <1>1, <1>2, <1>3, <1>4, <1>5, <1>6, <1>7, <1>8, <1>9, <1>10, <1>11 DEF Reader

LEMMA LoopTypes ==
    ASSUME TypeOK, CancelAgrees, FutureAgrees,
           Boot \/ Progress \/ Cancel \/ (\E sync \in BOOLEAN : UIReload(sync))
    PROVE  TypeOK'
<1> USE DEF sharedVars, sourceVars, cancelVars, uiUnchanged, Go
<1> DEFINE Pcs == BootPcs \cup CancelPcs \cup ProgressPcs \cup {"idle"}
<1>p. /\ {"boot_count", "boot_finished", "idle", "ack", "list", "count", "finished"} \subseteq Pcs
      /\ {"copy", "cancel", "kill", "send", "join", "spawn"} \subseteq Pcs
  BY DEF BootPcs, CancelPcs, ProgressPcs
<1> HIDE DEF Pcs
<1>u. /\ ui \in [pc : Pcs, display : Gen, header : Seq(Record), count : Int, fin : BOOLEAN,
                 last_count : Int, last_finished : BOOLEAN, pid : 0 .. MaxGen, sync : BOOLEAN,
                 boot_gap : BOOLEAN, missed : BOOLEAN]
      /\ \A u : u \in MainLoop <=>
                u \in [pc : Pcs, display : Gen, header : Seq(Record), count : Int, fin : BOOLEAN,
                       last_count : Int, last_finished : BOOLEAN, pid : 0 .. MaxGen, sync : BOOLEAN,
                       boot_gap : BOOLEAN, missed : BOOLEAN]
  BY DEF TypeOK, MainLoop, Pcs
<1>t. /\ header \in Seq(Record) /\ finished \in [Gen -> BOOLEAN] /\ gen \in Gen
      /\ child_pid \in 0 .. MaxGen /\ -1 \in Int /\ 1 \in Gen
      /\ \A g \in Gen : Len(list[g]) \in Int
  BY ReaderAssumption DEF TypeOK, Gen
<1>1. CASE Boot \/ UIDrain \/ UIAck \/ UIList \/ UICount \/ UIFinished
           \/ UICancel \/ UILoadPid \/ UIKill \/ UIJoin \/ (\E sync \in BOOLEAN : UIReload(sync))
  <2>1. ui' \in MainLoop
    <3>1. CASE Boot
      BY <1>p, <1>u, <1>t, <3>1 DEF Boot, UIBootHeader, UIBootCount, UIBootFinished
    <3>2. CASE UIDrain \/ UIAck \/ UIList \/ UICount
      BY <1>p, <1>u, <1>t, <3>2 DEF UIDrain, UIAck, UIList, UICount
    <3>3. CASE UIFinished
      BY <1>p, <1>u, <1>t, <3>3 DEF UIFinished
    <3>4. CASE UICancel \/ UILoadPid \/ UIKill \/ UIJoin \/ (\E sync \in BOOLEAN : UIReload(sync))
      BY <1>p, <1>u, <1>t, <3>4 DEF UICancel, UILoadPid, UIKill, Misses, UIJoin, UIReload
    <3> QED BY <1>1, <3>1, <3>2, <3>3, <3>4
  <2>2. proc' \in [Gen -> {"none", "forked", "running", "failed", "succeeded", "reaped"}]
    <3>1. CASE UIKill
      BY <3>1 DEF TypeOK, UIKill, Killed
    <3>2. CASE ~UIKill
      <4>1. proc' = proc
        BY <1>1, <3>2 DEF Boot, UIBootHeader, UIBootCount, UIBootFinished, UIDrain, UIAck, UIList,
                          UICount, UIFinished, UICancel, UILoadPid, UIJoin, UIReload
      <4> QED BY <4>1 DEF TypeOK
    <3> QED BY <3>1, <3>2
  <2>3. /\ UNCHANGED <<sourceVars, taken, list, finished, gen, sharedVars, t>>
        /\ {cancel_byte', walker_cancel', wake_pending', pipe'} \subseteq BOOLEAN
    BY <1>1 DEF TypeOK, Boot, UIBootHeader, UIBootCount, UIBootFinished, UIDrain, UIAck, UIList,
                UICount, UIFinished, UICancel, UILoadPid, UIKill, UIJoin, UIReload
  <2> QED BY <2>1, <2>2, <2>3 DEF TypeOK
<1>2. CASE UICopy
  <2>1. ui' \in MainLoop
    BY <1>p, <1>u, <1>t, <1>2 DEF UICopy
  <2> QED BY <1>2, <2>1 DEF UICopy, TypeOK
<1>3. CASE UISpawn
  <2> DEFINE g == gen + 1
  <2>1. gen < MaxGen /\ g \in Gen /\ g \in 0 .. MaxGen
    BY <1>3, <1>t, ReaderAssumption DEF UISpawn, CancelAgrees, CancelPcs, Gen
  <2> HIDE DEF g
  <2>2. PICK ok \in BOOLEAN, s \in Texts :
                /\ kind' = [kind EXCEPT ![g] = "command"]
                /\ text' = [text EXCEPT ![g] = IF ok THEN s ELSE <<>>]
                /\ proc' = [proc EXCEPT ![g] = IF ok THEN "forked" ELSE "none"]
                /\ finished' = [finished EXCEPT ![g] = ~ok]
                /\ failed' = ~ok
                /\ temps' = IF ok THEN {g} ELSE {}
                /\ child_pid' = IF ok THEN g ELSE child_pid
                /\ t' = Thread(IF ok THEN "select" ELSE "done", g)
    BY <1>3 DEF UISpawn, g
  <2>3. /\ gen' = g /\ header' = <<>> /\ pipe' = TRUE
        /\ ui' = [ui EXCEPT !.pc = "idle", !.last_count = -1, !.last_finished = FALSE,
                            !.display = IF ui.sync THEN @ ELSE g, !.boot_gap = FALSE]
        /\ UNCHANGED <<taken, list, cancelVars, wake_pending>>
    BY <1>3 DEF UISpawn, g
  <2>4. ui' \in MainLoop
    BY <1>p, <1>u, <1>t, <2>1, <2>3
  <2>5. t' \in ReaderThread /\ t'.gen = g
    BY <2>1, <2>2 DEF Thread, ReaderThread, ReaderPcs
  <2>6. /\ text' \in [Gen -> Seq(Char)] /\ kind' \in [Gen -> {"fd", "command", "walker", "none"}]
        /\ proc' \in [Gen -> {"none", "forked", "running", "failed", "succeeded", "reaped"}]
        /\ finished' \in [Gen -> BOOLEAN] /\ child_pid' \in 0 .. MaxGen
        /\ temps' \subseteq Gen /\ failed' \in BOOLEAN
    BY <2>1, <2>2, TextsAssumption DEF TypeOK
  <2>8. g > gen
    BY <1>t DEF Gen, g
  <2>7. taken[g] = 0
    BY <2>1, <2>8 DEF FutureAgrees
  <2>9. \A h \in Gen : taken'[h] <= Len(text'[h])
    <3>1. \A h \in Gen : Len(text'[h]) \in Nat
      BY <2>6
    <3>2. \A h \in Gen : h # g => text'[h] = text[h]
      BY <2>2 DEF TypeOK
    <3>3. taken' = taken /\ \A h \in Gen : taken[h] <= Len(text[h])
      BY <2>3 DEF TypeOK
    <3>4. \A h \in Gen : h = g => taken[h] <= Len(text'[h])
      BY <2>7, <3>1
    <3> QED BY <3>2, <3>3, <3>4
  <2>10. {failed', cancel_byte', walker_cancel', wake_pending', pipe'} \subseteq BOOLEAN
    BY <2>3, <2>6 DEF TypeOK, cancelVars
  <2>11. taken' \in [Gen -> Nat] /\ list' \in [Gen -> Seq(Record)] /\ header' \in Seq(Record) /\ gen' \in Gen
    BY <2>1, <2>3 DEF TypeOK
  <2> QED BY <2>3, <2>4, <2>5, <2>6, <2>9, <2>10, <2>11 DEF TypeOK
<1> QED BY <1>1, <1>2, <1>3 DEF Progress, Cancel

LEMMA SourceTypes ==
    ASSUME TypeOK, NEW g \in Gen, Source(g)
    PROVE  TypeOK'
<1>x. /\ text \in [Gen -> Seq(Char)] /\ taken[g] \in Nat /\ Len(text[g]) \in Nat
      /\ proc \in [Gen -> {"none", "forked", "running", "failed", "succeeded", "reaped"}]
      /\ \A h \in Gen : taken[h] <= Len(text[h])
  BY DEF TypeOK
<1>1. proc' \in [Gen -> {"none", "forked", "running", "failed", "succeeded", "reaped"}]
  BY <1>x DEF Source, SetGroup, Exit
<1>2. text' \in [Gen -> Seq(Char)] /\ \A h \in Gen : taken[h] <= Len(text'[h])
  <2>1. CASE text' = text
    BY <1>x, <2>1
  <2>2. CASE text' # text
    <3>1. PICK n \in taken[g] .. Len(text[g]) : text' = [text EXCEPT ![g] = SubSeq(@, 1, n)]
      BY <2>2 DEF Source, SetGroup, Exit, sourceVars
    <3>2. n \in Nat /\ 0 <= n /\ n <= Len(text[g]) /\ taken[g] <= n /\ n - 0 = n
      BY <1>x
    <3>3. SubSeq(text[g], 0 + 1, n) \in Seq(Char) /\ Len(SubSeq(text[g], 0 + 1, n)) = n
      BY <1>x, <3>2, PartOf
    <3> QED BY <1>x, <3>1, <3>2, <3>3
  <2> QED BY <2>1, <2>2
<1> QED BY <1>1, <1>2 DEF Source, SetGroup, Exit, TypeOK, sourceVars, sharedVars, cancelVars

-----------------------------------------------------------------------------
(* Every step keeps the invariant. *)

LEMMA InitIInv == Init => IInv
<1> SUFFICES ASSUME Init PROVE IInv
  OBVIOUS
<1> USE DEF Init
<1>0. 1 \in Gen /\ 0 \in 0 .. MaxGen /\ 1 \in 0 .. MaxGen
  BY ReaderAssumption DEF Gen
<1>1. kind \in [Gen -> {"fd", "command", "walker", "none"}] /\ kind[1] \in {"fd", "command", "walker"}
  BY <1>0
<1>2. text \in [Gen -> Seq(Char)]
  <2>1. PICK s \in Texts : text = [g \in Gen |-> IF g = 1 THEN s ELSE <<>>]
    OBVIOUS
  <2>2. s \in Seq(Char)
    BY TextsAssumption
  <2> QED BY <2>1, <2>2
<1>3. \A g \in Gen : taken[g] <= Len(text[g]) /\ taken[g] \in Nat
  BY <1>2
<1>4. proc \in [Gen -> {"none", "forked", "running", "failed", "succeeded", "reaped"}]
  OBVIOUS
<1>5. t \in ReaderThread /\ t.gen = 1 /\ t.pc \in {"select", "walk"}
  BY <1>0, <1>1 DEF Thread, First, ReaderThread, ReaderPcs
<1>6. ui \in MainLoop /\ ui.pc = "boot"
  BY <1>0 DEF MainLoop, BootPcs
<1>7. list \in [Gen -> Seq(Record)] /\ header \in Seq(Record) /\ finished \in [Gen -> BOOLEAN]
      /\ child_pid \in 0 .. MaxGen /\ taken \in [Gen -> Nat]
  BY <1>0, <1>1
<1>8. TypeOK
  BY <1>0, <1>1, <1>2, <1>3, <1>4, <1>5, <1>6, <1>7 DEF TypeOK
<1>9. ReaderAgrees
  BY <1>0, <1>1, <1>5 DEF ReaderAgrees, PastFinish, PastReap, PastStore
<1>10. FutureAgrees /\ CancelAgrees
  BY <1>6 DEF FutureAgrees, CancelAgrees, CancelPcs
<1>11. ReplacedIsGone
  BY <1>0 DEF ReplacedIsGone, Gen
<1> QED BY <1>8, <1>9, <1>10, <1>11 DEF IInv

LEMMA ReaderInv ==
    ASSUME IInv, Reader
    PROVE  IInv'
<1> USE DEF sharedVars, sourceVars, cancelVars
<1>f. TypeOK /\ ReaderAgrees /\ FutureAgrees /\ CancelAgrees /\ ReplacedIsGone
  BY DEF IInv
<1>t. /\ t \in ReaderThread /\ t.gen = gen /\ gen \in Gen
      /\ finished \in [Gen -> BOOLEAN]
      /\ proc \in [Gen -> {"none", "forked", "running", "failed", "succeeded", "reaped"}]
      /\ list \in [Gen -> Seq(Record)] /\ taken \in [Gen -> Nat]
  BY <1>f DEF TypeOK
<1>1. TypeOK'
  BY <1>f, ReaderTypes
<1>2. /\ UNCHANGED <<sourceVars, gen, ui>> /\ t.pc # "done"
      /\ \A g \in Gen : g # gen => /\ finished'[g] = finished[g] /\ list'[g] = list[g]
                                   /\ taken'[g] = taken[g] /\ proc'[g] = proc[g]
  <2>1. ASSUME NEW rec, NEW delimited \in BOOLEAN, Push(rec, delimited)
        PROVE  \A g \in Gen : g # gen => list'[g] = list[g]
    BY <2>1, <1>t, PushIs
  <2>2. CASE ReaderRead \/ ReaderCancelled \/ ReaderFinish \/ ReaderKill \/ ReaderReap \/ ReaderStore
              \/ ReaderNote
    BY <2>2, <1>t DEF ReaderRead, ReaderCancelled, ReaderFinish, ReaderKill, ReaderReap, ReaderStore,
                      ReaderNote, Killed
  <2>3. CASE ReaderWake
    BY <2>3, <1>t, WakePcsIs DEF ReaderWake
  <2>4. CASE ReaderEof
    <3>1. list' = list \/ Push(t.leftover, FALSE)
      BY <2>4 DEF ReaderEof
    <3> QED BY <3>1, <2>1, <2>4 DEF ReaderEof
  <2>5. CASE ReaderSplit
    <3>1. list' = list \/ \E rec : Push(rec, TRUE)
      BY <2>5 DEF ReaderSplit
    <3> QED BY <3>1, <2>1, <2>5 DEF ReaderSplit
  <2>6. CASE ReaderWalk
    <3>1. list' = list \/ \E rec : Push(rec, FALSE)
      BY <2>6 DEF ReaderWalk
    <3>2. \A g \in Gen : g # gen => taken'[g] = taken[g]
      BY <2>6, <1>t DEF ReaderWalk
    <3> QED BY <3>1, <3>2, <2>1, <2>6 DEF ReaderWalk
  <2> QED BY <2>2, <2>3, <2>4, <2>5, <2>6 DEF Reader
<1>3. FutureAgrees'
  BY <1>2, <1>f, <1>t DEF FutureAgrees, Gen
<1>4. CancelAgrees'
  BY <1>2, <1>f DEF CancelAgrees
<1>5. ReaderAgrees' /\ child_pid' \in {0, child_pid}
  <2> USE DEF ReaderAgrees, PastFinish, PastReap, PastStore, ReaderThread, Ended
  <2>1. CASE ReaderRead
    BY <2>1, <1>f, <1>t DEF ReaderRead
  <2>2. CASE ReaderCancelled
    BY <2>2, <1>f, <1>t DEF ReaderCancelled
  <2>3. CASE ReaderEof
    <3>1. t'.pc \in {"finish", "wake_finish"}
      BY <2>3, <1>t DEF ReaderEof
    <3> QED BY <2>3, <3>1, <1>f, <1>t DEF ReaderEof
  <2>4. CASE ReaderSplit
    <3>1. t'.pc \in {"select", "wake_split"}
      BY <2>4, <1>t DEF ReaderSplit
    <3> QED BY <2>4, <3>1, <1>f, <1>t DEF ReaderSplit
  <2>5. CASE ReaderWalk
    <3>1. t'.pc \in {"finish", "wake_walk"}
      BY <2>5, <1>t DEF ReaderWalk
    <3> QED BY <2>5, <3>1, <1>f, <1>t DEF ReaderWalk
  <2>6. CASE ReaderWake
    <3>1. t'.pc = WakePcs[t.pc] /\ t.pc \in {"wake_split", "wake_walk", "wake_finish", "wake_done"}
      BY <2>6, <1>t, WakePcsIs DEF ReaderWake
    <3> QED BY <2>6, <3>1, <1>f, <1>t, WakePcsIs DEF ReaderWake
  <2>7. CASE ReaderFinish
    BY <2>7, <1>f, <1>t DEF ReaderFinish
  <2>8. CASE ReaderKill
    BY <2>8, <1>f, <1>t DEF ReaderKill, Killed
  <2>9. CASE ReaderReap
    BY <2>9, <1>f, <1>t DEF ReaderReap
  <2>10. CASE ReaderStore
    BY <2>10, <1>f, <1>t DEF ReaderStore
  <2>11. CASE ReaderNote
    BY <2>11, <1>f, <1>t DEF ReaderNote
  <2> QED BY <2>1, <2>2, <2>3, <2>4, <2>5, <2>6, <2>7, <2>8, <2>9, <2>10, <2>11 DEF Reader
<1>6. ReplacedIsGone'
  BY <1>2, <1>5, <1>f, <1>t DEF ReplacedIsGone, Gen
<1> QED BY <1>1, <1>3, <1>4, <1>5, <1>6 DEF IInv

LEMMA LoopInv ==
    ASSUME IInv, Boot \/ Progress \/ Cancel \/ (\E sync \in BOOLEAN : UIReload(sync))
    PROVE  IInv'
<1> USE DEF sharedVars, sourceVars, cancelVars, uiUnchanged, Go
<1>f. TypeOK /\ ReaderAgrees /\ FutureAgrees /\ CancelAgrees /\ ReplacedIsGone
  BY DEF IInv
<1>t. /\ ui \in MainLoop /\ t.gen = gen /\ gen \in Gen
      /\ finished \in [Gen -> BOOLEAN]
      /\ proc \in [Gen -> {"none", "forked", "running", "failed", "succeeded", "reaped"}]
      /\ list \in [Gen -> Seq(Record)] /\ taken \in [Gen -> Nat]
  BY <1>f DEF TypeOK
<1>1. TypeOK'
  BY <1>f, LoopTypes
<1>2. CASE ~UISpawn
  <2>1. /\ UNCHANGED <<kind, text, taken, list, finished, gen, header, child_pid, temps, failed, t>>
        /\ proc' = proc \/ proc' = Killed(ui.pid)
    BY <1>2 DEF Boot, UIBootHeader, UIBootCount, UIBootFinished, Progress, UIDrain, UIAck, UIList,
                UICount, UIFinished, UICopy, Cancel, UICancel, UILoadPid, UIKill, UIJoin, UIReload
  <2>2. \A g \in Gen : Ended(g) => Ended(g)'
    BY <2>1, <1>t DEF Ended, Killed
  <2>3. ReaderAgrees'
    BY <2>1, <2>2, <1>f, <1>t DEF ReaderAgrees
  <2>4. FutureAgrees'
    BY <2>1, <1>f DEF FutureAgrees
  <2>5. ReplacedIsGone'
    BY <2>1, <2>2, <1>f, <1>t DEF ReplacedIsGone, Ended
  <2>6. CancelAgrees'
    <3> USE DEF CancelAgrees, CancelPcs, BootPcs, ProgressPcs, MainLoop
    <3>1. CASE Boot
      BY <2>1, <3>1, <1>f, <1>t DEF Boot, UIBootHeader, UIBootCount, UIBootFinished
    <3>2. CASE Progress
      BY <2>1, <3>2, <1>f, <1>t DEF Progress, UIDrain, UIAck, UIList, UICount, UIFinished, UICopy
    <3>3. CASE Cancel
      BY <1>2, <2>1, <3>3, <1>f, <1>t DEF Cancel, UICancel, UILoadPid, UIKill, UIJoin
    <3>4. CASE \E sync \in BOOLEAN : UIReload(sync)
      BY <2>1, <3>4, <1>f, <1>t DEF UIReload
    <3> QED BY <3>1, <3>2, <3>3, <3>4
  <2> QED BY <1>1, <2>3, <2>4, <2>5, <2>6 DEF IInv
<1>3. CASE UISpawn
  <2> DEFINE g == gen + 1
  <2>0. ui.pc = "spawn" /\ gen < MaxGen /\ t.pc = "done"
    BY <1>3, <1>f DEF UISpawn, CancelAgrees, CancelPcs
  <2>1. /\ gen < MaxGen /\ g \in Gen /\ gen < g /\ t.pc = "done"
        /\ \A h \in Gen : h < g => h < gen \/ h = gen
        /\ \A h \in Gen : h > g => h > gen
        /\ 0 \in {0, g} /\ ~(gen = g) /\ ~(g < g)
        /\ \A h \in Gen : h < g => h # g
    BY <2>0, <1>t, ReaderAssumption DEF Gen
  <2> HIDE DEF g
  <2>2. PICK ok \in BOOLEAN, s \in Texts :
                /\ kind' = [kind EXCEPT ![g] = "command"]
                /\ text' = [text EXCEPT ![g] = IF ok THEN s ELSE <<>>]
                /\ proc' = [proc EXCEPT ![g] = IF ok THEN "forked" ELSE "none"]
                /\ finished' = [finished EXCEPT ![g] = ~ok]
                /\ failed' = ~ok
                /\ temps' = IF ok THEN {g} ELSE {}
                /\ child_pid' = IF ok THEN g ELSE child_pid
                /\ t' = Thread(IF ok THEN "select" ELSE "done", g)
    BY <1>3 DEF UISpawn, g
  <2>3. /\ gen' = g /\ ui'.pc = "idle"
        /\ UNCHANGED <<taken, list>>
    BY <1>3, <1>t DEF UISpawn, g, MainLoop
  <2>k. kind \in [Gen -> {"fd", "command", "walker", "none"}]
    BY <1>f DEF TypeOK
  <2>4. child_pid = 0 /\ Ended(gen) /\ finished[gen]
    BY <2>1, <1>f DEF ReaderAgrees, PastFinish, PastReap, PastStore
  <2>5. t'.pc = IF ok THEN "select" ELSE "done"
    BY <2>2 DEF Thread
  <2>6. kind'[g] = "command" /\ proc'[g] = (IF ok THEN "forked" ELSE "none") /\ finished'[g] = ~ok
    BY <2>1, <2>2, <2>k, <1>t
  <2>7. ReaderAgrees'
    BY <2>2, <2>3, <2>4, <2>5, <2>6 DEF ReaderAgrees, PastFinish, PastReap, PastStore, Ended
  <2>8. FutureAgrees'
    BY <2>1, <2>3, <1>f DEF FutureAgrees
  <2>9. CancelAgrees'
    BY <2>3 DEF CancelAgrees, CancelPcs
  <2>10. ReplacedIsGone'
    <3>1. ASSUME NEW h \in Gen, h < g
          PROVE  finished'[h] /\ (kind'[h] = "command" => proc'[h] \in {"none", "reaped"})
      <4>1. finished'[h] = finished[h] /\ kind'[h] = kind[h] /\ proc'[h] = proc[h]
        BY <2>1, <2>2, <2>k, <1>t, <3>1
      <4>2. h < gen \/ h = gen
        BY <2>1, <3>1
      <4> QED BY <4>1, <4>2, <2>4, <1>f DEF Ended, ReplacedIsGone
    <3>2. child_pid' \in {0, g}
      BY <2>2, <2>4
    <3> QED BY <2>3, <3>1, <3>2 DEF ReplacedIsGone
  <2> QED BY <1>1, <2>7, <2>8, <2>9, <2>10 DEF IInv
<1> QED BY <1>2, <1>3

LEMMA SourceInv ==
    ASSUME IInv, NEW g \in Gen, Source(g)
    PROVE  IInv'
<1>f. TypeOK /\ ReaderAgrees /\ FutureAgrees /\ CancelAgrees /\ ReplacedIsGone
  BY DEF IInv
<1>1. TypeOK'
  BY <1>f, SourceTypes
<1>2. /\ UNCHANGED <<kind, taken, list, finished, gen, header, child_pid, temps, failed, t, ui>>
      /\ \A h \in Gen : Ended(h) => Ended(h)'
  BY <1>f DEF Source, SetGroup, Exit, Ended, sourceVars, TypeOK, sharedVars, cancelVars
<1>3. ReaderAgrees' /\ FutureAgrees' /\ CancelAgrees'
  BY <1>2, <1>f DEF ReaderAgrees, FutureAgrees, CancelAgrees, TypeOK
<1>4. ReplacedIsGone'
  BY <1>2, <1>f DEF ReplacedIsGone, Ended
<1> QED BY <1>1, <1>3, <1>4 DEF IInv

LEMMA NextIInv == IInv /\ [Next]_vars => IInv'
<1> SUFFICES ASSUME IInv, [Next]_vars PROVE IInv'
  OBVIOUS
<1>1. CASE UNCHANGED vars
  BY <1>1 DEF vars, IInv, TypeOK, ReaderAgrees, FutureAgrees, CancelAgrees, ReplacedIsGone, Ended
<1> QED BY <1>1, ReaderInv, LoopInv, SourceInv DEF Next

LEMMA Inductive == Spec => []IInv
BY InitIInv, NextIInv, PTL DEF Spec

\* Every value the two threads keep is of its type.
THEOREM TypeCorrect == Spec => []TypeOK
<1>1. IInv => TypeOK
  BY DEF IInv
<1> QED BY <1>1, Inductive, PTL

\* A list that was replaced has ended, its command is reaped, and the pid that
\* a cancel loads is of the list it cancels or of none: whatever the reader
\* was doing when the reload came, for any number of reloads.
THEOREM Replaced == Spec => []ReplacedIsGone
<1>1. IInv => ReplacedIsGone
  BY DEF IInv
<1> QED BY <1>1, Inductive, PTL

-----------------------------------------------------------------------------
(* What the loop shows of the newest list. *)

LEMMA WakeInv ==
    ASSUME IInv, WakeAgrees, [Next]_vars
    PROVE  WakeAgrees'
<1> USE DEF WakeAgrees, sharedVars, sourceVars, cancelVars, uiUnchanged, Go
<1>f. ui \in MainLoop
  BY DEF IInv, TypeOK
<1>1. CASE Reader
  <2>1. ui' = ui
    BY <1>1 DEF Reader, ReaderRead, ReaderCancelled, ReaderEof, ReaderSplit, ReaderWalk, ReaderWake,
                ReaderFinish, ReaderKill, ReaderReap, ReaderStore, ReaderNote
  <2>2. CASE ReaderWake
    BY <2>1, <2>2 DEF ReaderWake
  <2>3. CASE ~ReaderWake
    BY <1>1, <2>1, <2>3 DEF Reader, ReaderRead, ReaderCancelled, ReaderEof, ReaderSplit, ReaderWalk,
                ReaderFinish, ReaderKill, ReaderReap, ReaderStore, ReaderNote
  <2> QED BY <2>2, <2>3
<1>2. CASE Boot
  BY <1>2, <1>f DEF Boot, UIBootHeader, UIBootCount, UIBootFinished, MainLoop
<1>3. CASE Progress
  BY <1>3, <1>f DEF Progress, UIDrain, UIAck, UIList, UICount, UIFinished, UICopy, MainLoop
<1>4. CASE Cancel
  BY <1>4, <1>f DEF Cancel, UICancel, UILoadPid, UIKill, UIJoin, UISpawn, MainLoop
<1>5. CASE \E sync \in BOOLEAN : UIReload(sync)
  BY <1>5, <1>f DEF UIReload, MainLoop
<1>6. CASE \E g \in Gen : Source(g)
  <2>1. UNCHANGED <<wake_pending, pipe, ui>>
    BY <1>6 DEF Source, SetGroup, Exit
  <2> QED BY <2>1
<1>7. CASE UNCHANGED vars
  BY <1>7 DEF vars
<1> QED BY <1>1, <1>2, <1>3, <1>4, <1>5, <1>6, <1>7 DEF Next

\* Header lines and the end of a list are the reader's; it tells them before it
\* is done.
LEMMA ReaderCopy ==
    ASSUME IInv, WakeAgrees, CopyAgrees, Reader
    PROVE  CopyAgrees'
<1> USE DEF sharedVars, sourceVars, cancelVars
<1>f. TypeOK /\ ReaderAgrees
  BY DEF IInv
<1>t. /\ ui \in MainLoop /\ t.gen = gen /\ gen \in Gen /\ t \in ReaderThread
      /\ finished \in [Gen -> BOOLEAN] /\ t.seen \in Nat
  BY <1>f DEF TypeOK, ReaderThread
<1>1. /\ UNCHANGED <<gen, ui>> /\ t.pc # "done"
      /\ finished[gen] => finished'[gen]
      /\ pipe => pipe'
  <2>1. CASE ReaderFinish
    BY <2>1, <1>t DEF ReaderFinish
  <2>2. CASE ReaderWake
    BY <2>2, <1>t, WakePcsIs DEF ReaderWake
  <2>3. CASE ~ReaderFinish /\ ~ReaderWake
    <3>1. UNCHANGED <<gen, ui, finished, pipe>>
      BY <2>3 DEF Reader, ReaderRead, ReaderCancelled, ReaderEof, ReaderSplit, ReaderWalk,
                  ReaderKill, ReaderReap, ReaderStore, ReaderNote
    <3>2. t.pc # "done"
      BY <2>3 DEF Reader, ReaderRead, ReaderCancelled, ReaderEof, ReaderSplit, ReaderWalk,
                  ReaderKill, ReaderReap, ReaderStore, ReaderNote
    <3> QED BY <3>1, <3>2
  <2> QED BY <2>1, <2>2, <2>3
<1>2. header' = header \/ (t.pc \in {"select", "split", "walk"} /\ HeaderLines > 0)
  <2>1. ASSUME NEW rec, NEW delimited \in BOOLEAN, Push(rec, delimited)
        PROVE  header' = header \/ HeaderLines > 0
    <3>1. t.seen < HeaderLines => HeaderLines > 0
      BY <1>t, ReaderAssumption
    <3> QED BY <2>1, <3>1, PushIs
  <2>2. CASE ReaderRead \/ ReaderCancelled \/ ReaderFinish \/ ReaderKill \/ ReaderReap \/ ReaderStore
              \/ ReaderNote \/ ReaderWake
    BY <2>2 DEF ReaderRead, ReaderCancelled, ReaderFinish, ReaderKill, ReaderReap, ReaderStore,
                ReaderNote, ReaderWake
  <2>3. CASE ReaderEof
    <3>1. t.pc = "select" /\ (header' = header \/ Push(t.leftover, FALSE))
      BY <2>3 DEF ReaderEof
    <3> QED BY <2>1, <3>1
  <2>4. CASE ReaderSplit
    <3>1. t.pc = "split" /\ (header' = header \/ \E rec : Push(rec, TRUE))
      BY <2>4 DEF ReaderSplit
    <3> QED BY <2>1, <3>1
  <2>5. CASE ReaderWalk
    <3>1. t.pc = "walk" /\ (header' = header \/ \E rec : Push(rec, FALSE))
      BY <2>5 DEF ReaderWalk
    <3> QED BY <2>1, <3>1
  <2> QED BY <2>2, <2>3, <2>4, <2>5 DEF Reader
<1>3. t.pc \in {"select", "split", "walk"} => ~finished[gen]
  BY <1>f DEF ReaderAgrees, PastFinish
<1>4. t'.pc = "done" => pipe' \/ ui.pc = "ack"
  <2>1. CASE ReaderWake
    BY <2>1 DEF ReaderWake, WakeAgrees
  <2>2. CASE ~ReaderWake
    <3>1. t'.pc # "done"
      BY <1>1, <2>2, <1>t DEF Reader, ReaderRead, ReaderCancelled, ReaderEof, ReaderSplit, ReaderWalk,
                ReaderFinish, ReaderKill, ReaderReap, ReaderStore, ReaderNote, ReaderThread
    <3> QED BY <3>1
  <2> QED BY <2>1, <2>2
<1>5. ~(0 > 0)
  OBVIOUS
<1> QED BY <1>1, <1>2, <1>3, <1>4, <1>5 DEF CopyAgrees, CancelPcs

LEMMA LoopCopy ==
    ASSUME IInv, WakeAgrees, CopyAgrees,
           Boot \/ Progress \/ Cancel \/ (\E sync \in BOOLEAN : UIReload(sync))
    PROVE  CopyAgrees'
<1> USE DEF sharedVars, sourceVars, cancelVars, uiUnchanged, Go
<1>f. TypeOK /\ ReaderAgrees
  BY DEF IInv
<1>t. /\ ui \in MainLoop /\ gen \in Gen /\ finished \in [Gen -> BOOLEAN]
      /\ t.pc = "done" => finished[gen]
  BY <1>f DEF TypeOK, ReaderAgrees, PastFinish
<1> USE DEF CopyAgrees, BootPcs, CancelPcs, MainLoop
<1>1. CASE UIBootHeader \/ UIBootCount
  <2>1. /\ ui.pc \in BootPcs /\ ui'.pc \in BootPcs
        /\ UNCHANGED <<gen, header, finished, t, pipe>>
        /\ ui'.display = ui.display /\ ui'.header \in {ui.header, header}
        /\ ui'.last_finished = ui.last_finished
    BY <1>1, <1>t DEF UIBootHeader, UIBootCount
  <2> QED BY <2>1
<1>2. CASE UIBootFinished
  BY <1>2, <1>t DEF UIBootFinished
<1>3. CASE UIDrain \/ UIAck
  BY <1>3, <1>t DEF UIDrain, UIAck
<1>4. CASE UIList
  BY <1>4, <1>t DEF UIList
<1>5. CASE UICount
  BY <1>5, <1>t DEF UICount
<1>6. CASE UIFinished
  BY <1>6, <1>t DEF UIFinished
<1>7. CASE UICopy
  <2>1. HeaderLines > 0 \/ HeaderLines = 0
    BY ReaderAssumption
  <2>2. UNCHANGED <<gen, header, finished, t, pipe>>
    BY <1>7 DEF UICopy
  <2>3. /\ ui.pc = "copy" /\ ui'.pc = "idle" /\ ui'.display = ui.display
        /\ ui'.last_finished = ui.last_finished
        /\ ui'.header = IF HeaderLines > 0 THEN header ELSE ui.header
    BY <1>7, <1>t DEF UICopy
  <2> QED BY <2>1, <2>2, <2>3
<1>8. CASE UICancel \/ UILoadPid \/ UIKill \/ UIJoin \/ (\E sync \in BOOLEAN : UIReload(sync))
  <2>1. UNCHANGED <<gen, header, finished, t, pipe>>
    BY <1>8 DEF UICancel, UILoadPid, UIKill, UIJoin, UIReload
  <2>2. /\ ui.pc \in CancelPcs \cup {"idle"} /\ ui'.pc \in CancelPcs
        /\ ui'.display = ui.display /\ ui'.header = ui.header
        /\ ui'.last_finished = ui.last_finished /\ ui'.boot_gap = ui.boot_gap
    BY <1>8, <1>t DEF UICancel, UILoadPid, UIKill, UIJoin, UIReload
  <2> QED BY <2>1, <2>2
<1>9. CASE UISpawn
  BY <1>9, <1>t DEF UISpawn
<1> QED BY <1>1, <1>2, <1>3, <1>4, <1>5, <1>6, <1>7, <1>8, <1>9 DEF Boot, Progress, Cancel

LEMMA ShownInductive == Spec => [](WakeAgrees /\ CopyAgrees)
<1>1. Init => WakeAgrees /\ CopyAgrees
  BY DEF Init, WakeAgrees, CopyAgrees, BootPcs, CancelPcs
<1>2. IInv /\ WakeAgrees /\ CopyAgrees /\ [Next]_vars => CopyAgrees'
  <2> SUFFICES ASSUME IInv, WakeAgrees, CopyAgrees, [Next]_vars PROVE CopyAgrees'
    OBVIOUS
  <2>1. CASE \E g \in Gen : Source(g)
    BY <2>1 DEF Source, SetGroup, Exit, CopyAgrees, sharedVars
  <2>2. CASE UNCHANGED vars
    BY <2>2 DEF vars, CopyAgrees
  <2> QED BY <2>1, <2>2, ReaderCopy, LoopCopy DEF Next
<1> QED BY <1>1, <1>2, WakeInv, Inductive, PTL DEF Spec

\* When the reader is done and no wake is on its way, the newest list is shown
\* with all of its own header lines, for any number of them and of reloads; but
\* for a source that ends within the start of the terminal.
THEOREM Headers == Spec => []HeadersAreShown
<1>1. CopyAgrees => HeadersAreShown
  BY DEF CopyAgrees, HeadersAreShown
<1> QED BY <1>1, ShownInductive, PTL

-----------------------------------------------------------------------------
(* However the bytes are cut into reads, the records are those of the text. *)

\* R is what a text may have been cut into while it is read: the records that the
\* characters taken so far complete, or all of them once it has ended.
Cutting(g, R) ==
    LET s == text[g] IN
    IF kind[g] = "walker" THEN R = [i \in 1 .. taken[g] |-> <<s[i]>>]
    ELSE \/ \E n \in 0 .. taken[g] : R = Cut(s)[n].lines
         \/ taken[g] = Len(s) /\ R = Records(g)

\* The lists that were started hold what follows the header lines.
ListIs(g, R) == Cutting(g, R) /\ list[g] = SubSeq(R, HeaderLines + 1, Len(R))

\* The reader between two steps: R was pushed; leftover and buf are the part of
\* what it took that is not in a record yet.
Unsplit(R) ==
    LET s == text[gen]
        n == taken[gen] - Len(t.buf)
    IN  /\ n \in Nat
        /\ R = Cut(s)[n].lines /\ t.leftover = Cut(s)[n].rest
        /\ t.buf = SubSeq(s, n + 1, taken[gen])

\* Before it has met the end of the source, or was cancelled.
Reading == {"select", "split", "wake_split", "walk", "wake_walk"}

ReaderIs(R) ==
    /\ t.seen = Len(R)
    /\ header = SubSeq(R, 1, Min({HeaderLines, Len(R)}))
    /\ ListIs(gen, R)
    /\ t.pc \in {"select", "split", "wake_split"} => Unsplit(R) /\ kind[gen] # "walker"
    /\ t.pc \in {"walk", "wake_walk"} => kind[gen] = "walker"
    /\ t.pc \notin {"split", "wake_split"} => t.buf = <<>>
    /\ t.pc \in Reading \cup {"wake_finish"} => ~t.cancelled
    /\ t.pc \notin Reading /\ ~t.cancelled => taken[gen] = Len(text[gen]) /\ R = Records(gen)

RecordsAgree ==
    /\ \A g \in Gen : g < gen => \E R \in Seq(Record) : ListIs(g, R)
    /\ \E R \in Seq(Record) : ReaderIs(R)

Half == [lines : Seq(Record), rest : Record]

LEMMA CutOneType ==
    ASSUME NEW p \in Half, NEW c \in Char
    PROVE  CutOne(p, c) \in Half
<1>1. p.lines \in Seq(Record) /\ p.rest \in Record
  BY DEF Half
<1>2. Append(p.lines, Line(p.rest)) \in Seq(Record)
  BY <1>1, LineType
<1>3. Append(p.rest, c) \in Record /\ <<>> \in Record
  BY <1>1 DEF Record
<1> QED BY <1>1, <1>2, <1>3 DEF CutOne, Half

\* h is what the first n characters of s are cut into, one after the other.
CutsTo(h, s, n) ==
    /\ h \in [0 .. n -> Half]
    /\ h[0] = [lines |-> <<>>, rest |-> <<>>]
    /\ \A i \in 1 .. n : h[i] = CutOne(h[i - 1], s[i])

\* Cut satisfies its recursion: a function that does exists for every length, by
\* induction, and there is only one.
LEMMA CutIs ==
    ASSUME NEW s \in Seq(Char)
    PROVE  CutsTo(Cut(s), s, Len(s))
<1> DEFINE N == Len(s)
           Empty == [lines |-> <<>>, rest |-> <<>>]
           Step(h) == [n \in 0 .. N |-> IF n = 0 THEN Empty ELSE CutOne(h[n - 1], s[n])]
           f == CHOOSE h : h = Step(h)
           D == {n \in 0 .. N : ~ \E h : CutsTo(h, s, n)}
<1>0. N \in Nat /\ Empty \in Half /\ \A i \in 1 .. N : s[i] \in Char
  BY DEF Half, Record
<1>1. D = {}
  <2> SUFFICES ASSUME D # {} PROVE FALSE
    OBVIOUS
  <2>0. D \subseteq Nat
    OBVIOUS
  <2>1. PICK m \in D : \A k \in D : m <= k
    BY <2>0, NatLeast
  <2>2. m \in 0 .. N /\ ~ \E h : CutsTo(h, s, m)
    OBVIOUS
  <2>3. CASE m = 0
    <3> DEFINE h == [i \in 0 .. 0 |-> Empty]
    <3>1. CutsTo(h, s, 0)
      BY <1>0 DEF CutsTo
    <3> QED BY <2>2, <2>3, <3>1
  <2>4. CASE m # 0
    <3>1. m - 1 \in 0 .. N /\ ~(m <= m - 1) /\ m \in 1 .. N
      BY <1>0, <2>2, <2>4
    <3>2. PICK h : CutsTo(h, s, m - 1)
      BY <2>1, <3>1
    <3> DEFINE e == [i \in 0 .. m |-> IF i = m THEN CutOne(h[m - 1], s[m]) ELSE h[i]]
    <3>3. CutOne(h[m - 1], s[m]) \in Half
      BY <1>0, <3>1, <3>2, CutOneType DEF CutsTo
    <3>4. e \in [0 .. m -> Half]
      <4>1. ASSUME NEW i \in 0 .. m PROVE e[i] \in Half
        <5>1. i = m \/ i \in 0 .. m - 1
          BY <3>1
        <5> QED BY <5>1, <3>2, <3>3 DEF CutsTo
      <4> QED BY <4>1
    <3>5. e[0] = Empty
      BY <2>4, <3>1, <3>2 DEF CutsTo
    <3>6. ASSUME NEW i \in 1 .. m PROVE e[i] = CutOne(e[i - 1], s[i])
      <4>1. i - 1 \in 0 .. m - 1 /\ i - 1 # m /\ i - 1 \in 0 .. m
        BY <3>1
      <4>2. e[i - 1] = h[i - 1]
        BY <4>1
      <4>3. CASE i = m
        BY <4>2, <4>3
      <4>4. CASE i # m
        <5>1. i \in 1 .. m - 1
          BY <3>1, <4>4
        <5>2. e[i] = h[i] /\ h[i] = CutOne(h[i - 1], s[i])
          BY <5>1, <3>2, <4>4 DEF CutsTo
        <5> QED BY <5>2, <4>2
      <4> QED BY <4>3, <4>4
    <3>7. CutsTo(e, s, m)
      <4> HIDE DEF e
      <4> QED BY <3>4, <3>5, <3>6 DEF CutsTo
    <3> QED BY <2>2, <3>7
  <2> QED BY <2>3, <2>4
<1>2. PICK H : CutsTo(H, s, N)
  BY <1>0, <1>1
<1>3. H = Step(H)
  <2>1. ASSUME NEW n \in 0 .. N PROVE H[n] = IF n = 0 THEN Empty ELSE CutOne(H[n - 1], s[n])
    <3>1. n # 0 => n \in 1 .. N
      BY <1>0
    <3> QED BY <1>2, <3>1 DEF CutsTo
  <2>2. H = [n \in 0 .. N |-> H[n]]
    BY <1>2 DEF CutsTo
  <2> QED BY <2>1, <2>2
<1>4. f = Step(f)
  BY <1>3
<1>5. Cut(s) = f
  BY DEF Cut
<1> HIDE DEF f
<1>6. {n \in 0 .. N : f[n] # H[n]} = {}
  <2> DEFINE B == {n \in 0 .. N : f[n] # H[n]}
  <2> SUFFICES ASSUME B # {} PROVE FALSE
    OBVIOUS
  <2>0. B \subseteq Nat
    OBVIOUS
  <2>1. PICK m \in B : \A k \in B : m <= k
    BY <2>0, NatLeast
  <2>2. m \in 0 .. N /\ f[m] # H[m]
    OBVIOUS
  <2>3. CASE m = 0
    BY <1>3, <1>4, <2>2, <2>3
  <2>4. CASE m # 0
    <3>1. m - 1 \in 0 .. N /\ ~(m <= m - 1)
      BY <1>0, <2>2, <2>4
    <3>2. f[m - 1] = H[m - 1]
      BY <2>1, <3>1
    <3>3. f[m] = CutOne(f[m - 1], s[m]) /\ H[m] = CutOne(H[m - 1], s[m])
      BY <1>3, <1>4, <2>2, <2>4
    <3> QED BY <2>2, <3>2, <3>3
  <2> QED BY <2>3, <2>4
<1>7. f = H
  <2>1. \A n \in 0 .. N : f[n] = H[n]
    BY <1>6
  <2>2. f = [n \in 0 .. N |-> f[n]] /\ H = [n \in 0 .. N |-> H[n]]
    BY <1>2, <1>4 DEF CutsTo
  <2> QED BY <2>1, <2>2
<1> QED BY <1>2, <1>5, <1>7

\* A text that was cut short is cut like the whole, as far as it goes.
LEMMA CutKept ==
    ASSUME NEW s \in Seq(Char), NEW m \in 0 .. Len(s), NEW n \in 0 .. m
    PROVE  /\ SubSeq(s, 1, m) \in Seq(Char) /\ Len(SubSeq(s, 1, m)) = m
           /\ Cut(SubSeq(s, 1, m))[n] = Cut(s)[n]
<1> DEFINE r == SubSeq(s, 1, m)
           D == {k \in 0 .. m : Cut(r)[k] # Cut(s)[k]}
<1>0. m \in Nat /\ m <= Len(s) /\ Len(s) \in Nat /\ 0 <= m /\ m - 0 = m
  OBVIOUS
<1>1. r \in Seq(Char) /\ Len(r) = m /\ \A i \in 1 .. m : r[i] = s[i]
  <2>1. /\ SubSeq(s, 0 + 1, m) \in Seq(Char) /\ Len(SubSeq(s, 0 + 1, m)) = m - 0
        /\ \A i \in 1 .. m - 0 : SubSeq(s, 0 + 1, m)[i] = s[0 + i]
    BY <1>0, PartOf
  <2> QED BY <2>1, <1>0
<1> HIDE DEF r
<1>2. CutsTo(Cut(r), r, m) /\ CutsTo(Cut(s), s, Len(s))
  BY <1>1, CutIs
<1>3. D = {}
  <2> SUFFICES ASSUME D # {} PROVE FALSE
    OBVIOUS
  <2>0. D \subseteq Nat
    BY <1>0
  <2>1. PICK k \in D : \A j \in D : k <= j
    BY <2>0, NatLeast
  <2>2. k \in 0 .. m /\ Cut(r)[k] # Cut(s)[k]
    OBVIOUS
  <2>3. CASE k = 0
    BY <2>2, <2>3, <1>2 DEF CutsTo
  <2>4. CASE k # 0
    <3>1. k - 1 \in 0 .. m /\ ~(k <= k - 1) /\ k \in 1 .. m /\ k \in 1 .. Len(s)
      BY <1>0, <2>2, <2>4
    <3>2. Cut(r)[k - 1] = Cut(s)[k - 1]
      BY <2>1, <3>1
    <3>3. Cut(r)[k] = CutOne(Cut(r)[k - 1], r[k]) /\ Cut(s)[k] = CutOne(Cut(s)[k - 1], s[k])
      BY <1>2, <3>1 DEF CutsTo
    <3> QED BY <1>1, <2>2, <3>1, <3>2, <3>3
  <2> QED BY <2>3, <2>4
<1> QED BY <1>1, <1>3 DEF r

\* The records only grow while more characters are cut.
LEMMA CutGrows ==
    ASSUME NEW s \in Seq(Char), NEW m \in 0 .. Len(s), NEW n \in m .. Len(s)
    PROVE  \E X \in Seq(Record) : Cut(s)[n].lines = Cut(s)[m].lines \o X
<1> DEFINE L(k) == Cut(s)[k].lines
           D == {k \in m .. Len(s) : ~ \E X \in Seq(Record) : L(k) = L(m) \o X}
<1>0. m \in Nat /\ n \in Nat /\ Len(s) \in Nat /\ n \in m .. Len(s)
  OBVIOUS
<1>1. CutsTo(Cut(s), s, Len(s))
  BY CutIs
<1>2. \A k \in 0 .. Len(s) : Cut(s)[k] \in Half /\ L(k) \in Seq(Record)
  BY <1>1 DEF CutsTo, Half
<1>3. D = {}
  <2> SUFFICES ASSUME D # {} PROVE FALSE
    OBVIOUS
  <2>0. D \subseteq Nat
    BY <1>0
  <2>1. PICK k \in D : \A j \in D : k <= j
    BY <2>0, NatLeast
  <2>2. k \in m .. Len(s) /\ ~ \E X \in Seq(Record) : L(k) = L(m) \o X
    OBVIOUS
  <2>3. CASE k = m
    <3>1. L(k) = L(m) \o <<>> /\ <<>> \in Seq(Record)
      BY <1>2, <2>3
    <3> QED BY <2>2, <3>1
  <2>4. CASE k # m
    <3>1. k - 1 \in m .. Len(s) /\ ~(k <= k - 1) /\ k \in 1 .. Len(s) /\ k - 1 \in 0 .. Len(s)
      BY <1>0, <2>2, <2>4
    <3>2. PICK X \in Seq(Record) : L(k - 1) = L(m) \o X
      BY <2>1, <3>1
    <3> DEFINE p == Cut(s)[k - 1]
               e == Line(p.rest)
    <3>3. Cut(s)[k] = CutOne(p, s[k]) /\ p \in Half
      BY <1>1, <1>2, <3>1 DEF CutsTo
    <3>4. L(k) = L(k - 1) \/ L(k) = Append(L(k - 1), e)
      BY <3>3 DEF CutOne
    <3>5. e \in Record
      BY <3>3, LineType DEF Half
    <3>6. L(m) \in Seq(Record) /\ Append(X, e) \in Seq(Record)
      BY <1>0, <1>2, <3>5
    <3> HIDE DEF L, e
    <3>7. Append(L(m) \o X, e) = L(m) \o Append(X, e)
      <4>1. \A v, u \in Seq(Record) : \A d \in Record : v \o Append(u, d) = Append(v \o u, d)
        BY AppendLast
      <4> QED BY <3>5, <3>6, <4>1
    <3> QED BY <2>2, <3>2, <3>4, <3>6, <3>7
  <2> QED BY <2>3, <2>4
<1> QED BY <1>0, <1>3

\* Characters that are no delimiter only make the rest longer.
LEMMA CutPlain ==
    ASSUME NEW s \in Seq(Char), NEW n \in Nat, NEW k \in Nat, n + k <= Len(s),
           \A i \in 1 .. k : s[n + i] # Delim
    PROVE  Cut(s)[n + k] = [lines |-> Cut(s)[n].lines, rest |-> Cut(s)[n].rest \o SubSeq(s, n + 1, n + k)]
<1> DEFINE p == Cut(s)[n]
           Q(j) == [lines |-> p.lines, rest |-> p.rest \o SubSeq(s, n + 1, n + j)]
           D == {j \in 0 .. k : Cut(s)[n + j] # Q(j)}
<1>0. Len(s) \in Nat /\ n \in 0 .. Len(s) /\ \A j \in 0 .. k : n + j \in Nat /\ n <= n + j /\ n + j <= Len(s)
  OBVIOUS
<1>1. CutsTo(Cut(s), s, Len(s))
  BY CutIs
<1>2. p \in Half /\ p.rest \in Seq(Char)
  BY <1>0, <1>1 DEF CutsTo, Half, Record
<1>3. \A j \in 0 .. k : SubSeq(s, n + 1, n + j) \in Seq(Char) /\ Len(SubSeq(s, n + 1, n + j)) = j
  <2> SUFFICES ASSUME NEW j \in 0 .. k
               PROVE  SubSeq(s, n + 1, n + j) \in Seq(Char) /\ Len(SubSeq(s, n + 1, n + j)) = j
    OBVIOUS
  <2> DEFINE b == n + j
  <2>1. b \in Nat /\ n <= b /\ b <= Len(s) /\ b - n = j
    BY <1>0
  <2> HIDE DEF b
  <2>2. SubSeq(s, n + 1, b) \in Seq(Char) /\ Len(SubSeq(s, n + 1, b)) = b - n
    BY <2>1, PartOf
  <2> QED BY <2>1, <2>2 DEF b
<1>4. D = {}
  <2> SUFFICES ASSUME D # {} PROVE FALSE
    OBVIOUS
  <2>0. D \subseteq Nat
    <3> HIDE DEF Q
    <3> QED OBVIOUS
  <2>1. PICK j \in D : \A i \in D : j <= i
    BY <2>0, NatLeast
  <2>2. j \in 0 .. k /\ Cut(s)[n + j] # Q(j)
    OBVIOUS
  <2>3. CASE j = 0
    <3>1. n + 0 = n /\ SubSeq(s, n + 1, n + 0) = <<>>
      <4>1. SubSeq(s, n + 1, n + 0) \in Seq(Char) /\ Len(SubSeq(s, n + 1, n + 0)) = 0
        BY <1>3
      <4> QED BY <4>1
    <3>2. p.rest \o <<>> = p.rest
      BY <1>2
    <3>3. Q(0) = [lines |-> p.lines, rest |-> p.rest]
      BY <3>1, <3>2
    <3>4. Q(0) = p
      BY <3>3, <1>2 DEF Half
    <3> HIDE DEF Q
    <3> QED BY <2>2, <2>3, <3>1, <3>4
  <2>4. CASE j # 0
    <3>1. j - 1 \in 0 .. k /\ ~(j <= j - 1) /\ j \in 1 .. k /\ n + j \in 1 .. Len(s)
          /\ (n + j) - 1 = n + (j - 1)
      BY <1>0, <2>2, <2>4
    <3>2. Cut(s)[n + (j - 1)] = Q(j - 1)
      BY <2>1, <3>1
    <3>3. Cut(s)[n + j] = CutOne(Cut(s)[(n + j) - 1], s[n + j])
      BY <1>1, <3>1 DEF CutsTo
    <3>4. Cut(s)[n + j] = CutOne(Q(j - 1), s[n + j]) /\ s[n + j] # Delim
      BY <3>1, <3>2, <3>3
    <3>5. SubSeq(s, n + 1, n + j) = Append(SubSeq(s, n + 1, n + (j - 1)), s[n + j])
      <4> DEFINE a == n + 1
                 b == n + j
      <4>1. a \in 1 .. Len(s) /\ b \in a .. Len(s) /\ b - 1 = n + (j - 1) /\ s[b] \in Char
        BY <1>0, <3>1
      <4> HIDE DEF a, b
      <4>2. SubSeq(s, a, b) = SubSeq(s, a, b - 1) \o << s[b] >>
        BY <4>1, SubSeqRecursiveSecond
      <4>3. SubSeq(s, a, b - 1) \in Seq(Char)
        BY <1>3, <3>1, <4>1 DEF a
      <4>4. SubSeq(s, a, b) = Append(SubSeq(s, a, b - 1), s[b])
        BY <4>1, <4>2, <4>3, AppendIsConcat
      <4> QED BY <4>1, <4>4 DEF a, b
    <3>6. p.rest \o Append(SubSeq(s, n + 1, n + (j - 1)), s[n + j])
             = Append(p.rest \o SubSeq(s, n + 1, n + (j - 1)), s[n + j])
      <4> DEFINE u == SubSeq(s, n + 1, n + (j - 1))
                 c == s[n + j]
      <4>1. u \in Seq(Char) /\ c \in Char /\ p.rest \in Seq(Char)
        BY <1>0, <1>2, <1>3, <3>1
      <4> HIDE DEF u, c, p
      <4>2. p.rest \o Append(u, c) = Append(p.rest \o u, c)
        BY <4>1, CharAppendLast
      <4> QED BY <4>2 DEF u, c
    <3>7. CutOne(Q(j - 1), s[n + j]) = Q(j)
      BY <3>4, <3>5, <3>6 DEF CutOne
    <3> HIDE DEF Q
    <3> QED BY <2>2, <3>4, <3>7
  <2> QED BY <2>3, <2>4
<1>5. k \in 0 .. k
  OBVIOUS
<1> QED BY <1>4, <1>5

-----------------------------------------------------------------------------
(* The header lines and the items of a sequence of records. *)

HeadOf(R) == SubSeq(R, 1, Min({HeaderLines, Len(R)}))
TailOf(R) == SubSeq(R, HeaderLines + 1, Len(R))

LEMMA HeadIs ==
    ASSUME NEW R \in Seq(Record)
    PROVE  LET k == Min({HeaderLines, Len(R)}) IN
           /\ k \in Nat /\ k <= Len(R) /\ k <= HeaderLines /\ k \in {HeaderLines, Len(R)}
           /\ HeadOf(R) \in Seq(Record) /\ Len(HeadOf(R)) = k
           /\ \A i \in 1 .. k : HeadOf(R)[i] = R[i]
<1> DEFINE k == Min({HeaderLines, Len(R)})
<1>1. Len(R) \in Nat /\ HeaderLines \in Nat
  BY ReaderAssumption
<1>2. k \in Nat /\ k <= Len(R) /\ k <= HeaderLines /\ k \in {HeaderLines, Len(R)}
  <2> DEFINE n == Len(R)
  <2> HIDE DEF n
  <2>1. Min({HeaderLines, n}) \in {HeaderLines, n} /\ Min({HeaderLines, n}) <= HeaderLines
        /\ Min({HeaderLines, n}) <= n
    BY <1>1, MinIsLeast DEF n
  <2> QED BY <2>1, <1>1 DEF n
<1>3. HeadOf(R) = SubSeq(R, 0 + 1, k)
  BY DEF HeadOf
<1> HIDE DEF k
<1>4. 0 <= k /\ k - 0 = k /\ \A i : 0 + i = i \/ i \notin 1 .. k
  BY <1>2
<1>5. /\ SubSeq(R, 0 + 1, k) \in Seq(Record) /\ Len(SubSeq(R, 0 + 1, k)) = k - 0
      /\ \A i \in 1 .. k - 0 : SubSeq(R, 0 + 1, k)[i] = R[0 + i]
  BY <1>1, <1>2, <1>4, PartOf
<1>6. /\ HeadOf(R) \in Seq(Record) /\ Len(HeadOf(R)) = k
      /\ \A i \in 1 .. k : HeadOf(R)[i] = R[i]
  BY <1>3, <1>4, <1>5
<1> QED BY <1>2, <1>6 DEF k

LEMMA TailIs ==
    ASSUME NEW R \in Seq(Record)
    PROVE  /\ TailOf(R) \in Seq(Record)
           /\ Len(TailOf(R)) = IF HeaderLines <= Len(R) THEN Len(R) - HeaderLines ELSE 0
           /\ \A i \in 1 .. Len(TailOf(R)) : TailOf(R)[i] = R[HeaderLines + i]
<1>1. Len(R) \in Nat /\ HeaderLines \in Nat
  BY ReaderAssumption
<1>2. CASE HeaderLines <= Len(R)
  BY <1>1, <1>2, PartOf DEF TailOf
<1>3. CASE ~(HeaderLines <= Len(R))
  <2>1. ~(HeaderLines + 1 <= Len(R)) /\ HeaderLines + 1 \in Int /\ Len(R) \in Int
        /\ \A i \in HeaderLines + 1 .. Len(R) : R[i] \in Record
    BY <1>1, <1>3
  <2>2. TailOf(R) \in Seq(Record) /\ Len(TailOf(R)) = 0
    BY <2>1, SubSeqProperties DEF TailOf
  <2> QED BY <1>3, <2>2
<1> QED BY <1>2, <1>3

\* A sequence of records that another one begins with.
LEMMA PrefixIf ==
    ASSUME NEW a \in Seq(Record), NEW b \in Seq(Record), Len(a) <= Len(b),
           \A i \in 1 .. Len(a) : a[i] = b[i]
    PROVE  IsPrefix(a, b)
<1> DEFINE n == Len(a)
<1>0. n \in Nat /\ Len(b) \in Nat /\ 0 <= n /\ n <= Len(a) /\ n <= Len(b) /\ n - 0 = n
  OBVIOUS
<1>1. /\ SubSeq(a, 0 + 1, n) \in Seq(Record) /\ Len(SubSeq(a, 0 + 1, n)) = n
      /\ \A i \in 1 .. n : SubSeq(a, 0 + 1, n)[i] = a[0 + i]
  <2> HIDE DEF n
  <2> QED BY <1>0, PartOf
<1>2. /\ SubSeq(b, 0 + 1, n) \in Seq(Record) /\ Len(SubSeq(b, 0 + 1, n)) = n
      /\ \A i \in 1 .. n : SubSeq(b, 0 + 1, n)[i] = b[0 + i]
  <2> HIDE DEF n
  <2> QED BY <1>0, PartOf
<1>3. \A i \in 1 .. n : 0 + i = i /\ a[i] = b[i]
  BY <1>0
<1>4. SubSeq(a, 0 + 1, n) = SubSeq(b, 0 + 1, n)
  <2> HIDE DEF n
  <2>1. \A i \in 1 .. n : SubSeq(a, 0 + 1, n)[i] = SubSeq(b, 0 + 1, n)[i]
    BY <1>1, <1>2, <1>3
  <2> QED BY <1>1, <1>2, <2>1, SeqEqual
<1> QED BY <1>0, <1>4 DEF IsPrefix

\* What was pushed is a beginning of all the records: so are the header lines, and
\* the items.
LEMMA PartsBegin ==
    ASSUME NEW R \in Seq(Record), NEW X \in Seq(Record)
    PROVE  IsPrefix(HeadOf(R), HeadOf(R \o X)) /\ IsPrefix(TailOf(R), TailOf(R \o X))
<1> DEFINE Q == R \o X
           n == Len(R)
           m == Len(Q)
<1>1. /\ Q \in Seq(Record) /\ n \in Nat /\ m \in Nat /\ n <= m /\ HeaderLines \in Nat
      /\ \A i \in 1 .. n : Q[i] = R[i]
  BY ReaderAssumption
<1> HIDE DEF Q
<1>2. IsPrefix(HeadOf(R), HeadOf(Q))
  <2> DEFINE j == Min({HeaderLines, n})
             k == Min({HeaderLines, m})
  <2>1. /\ j \in Nat /\ j <= n /\ j <= HeaderLines /\ HeadOf(R) \in Seq(Record) /\ Len(HeadOf(R)) = j
        /\ \A i \in 1 .. j : HeadOf(R)[i] = R[i]
    BY HeadIs
  <2>2. /\ k \in Nat /\ k \in {HeaderLines, m} /\ HeadOf(Q) \in Seq(Record) /\ Len(HeadOf(Q)) = k
        /\ \A i \in 1 .. k : HeadOf(Q)[i] = Q[i]
    BY <1>1, HeadIs
  <2> HIDE DEF j, k, n, m
  <2>3. j <= k /\ \A i \in 1 .. j : i \in 1 .. n /\ i \in 1 .. k
    BY <1>1, <2>1, <2>2
  <2> QED BY <1>1, <2>1, <2>2, <2>3, PrefixIf
<1>3. IsPrefix(TailOf(R), TailOf(Q))
  <2>1. /\ TailOf(R) \in Seq(Record)
        /\ Len(TailOf(R)) = IF HeaderLines <= n THEN n - HeaderLines ELSE 0
        /\ \A i \in 1 .. Len(TailOf(R)) : TailOf(R)[i] = R[HeaderLines + i]
    BY TailIs
  <2>2. /\ TailOf(Q) \in Seq(Record)
        /\ Len(TailOf(Q)) = IF HeaderLines <= m THEN m - HeaderLines ELSE 0
        /\ \A i \in 1 .. Len(TailOf(Q)) : TailOf(Q)[i] = Q[HeaderLines + i]
    BY <1>1, TailIs
  <2> HIDE DEF n, m
  <2>3. Len(TailOf(R)) <= Len(TailOf(Q)) /\ Len(TailOf(R)) \in Nat /\ Len(TailOf(Q)) \in Nat
    BY <1>1, <2>1, <2>2
  <2>4. \A i \in 1 .. Len(TailOf(R)) : HeaderLines + i \in 1 .. n /\ i \in 1 .. Len(TailOf(Q))
    BY <1>1, <2>1, <2>3
  <2> QED BY <1>1, <2>1, <2>2, <2>3, <2>4, PrefixIf
<1> QED BY <1>2, <1>3 DEF Q

\* push_record() adds a record to the header lines or, when they are complete, to
\* the items.
LEMMA PushParts ==
    ASSUME NEW R \in Seq(Record), NEW r \in Record
    PROVE  /\ Len(R) < HeaderLines => HeadOf(Append(R, r)) = Append(HeadOf(R), r)
                                       /\ TailOf(Append(R, r)) = TailOf(R)
           /\ ~(Len(R) < HeaderLines) => HeadOf(Append(R, r)) = HeadOf(R)
                                       /\ TailOf(Append(R, r)) = Append(TailOf(R), r)
<1> DEFINE Q == Append(R, r)
           n == Len(R)
           m == Len(Q)
           j == Min({HeaderLines, n})
           k == Min({HeaderLines, m})
<1>1. /\ Q \in Seq(Record) /\ n \in Nat /\ m = n + 1 /\ HeaderLines \in Nat
      /\ (\A i \in 1 .. n : Q[i] = R[i]) /\ Q[m] = r
  BY ReaderAssumption
<1> HIDE DEF Q
<1>2. /\ j \in Nat /\ j <= n /\ j <= HeaderLines /\ j \in {HeaderLines, n}
      /\ HeadOf(R) \in Seq(Record) /\ Len(HeadOf(R)) = j
      /\ \A i \in 1 .. j : HeadOf(R)[i] = R[i]
  BY HeadIs
<1>3. /\ k \in Nat /\ k <= m /\ k <= HeaderLines /\ k \in {HeaderLines, m}
      /\ HeadOf(Q) \in Seq(Record) /\ Len(HeadOf(Q)) = k
      /\ \A i \in 1 .. k : HeadOf(Q)[i] = Q[i]
  BY <1>1, HeadIs
<1>4. /\ TailOf(R) \in Seq(Record)
      /\ Len(TailOf(R)) = IF HeaderLines <= n THEN n - HeaderLines ELSE 0
      /\ \A i \in 1 .. Len(TailOf(R)) : TailOf(R)[i] = R[HeaderLines + i]
  BY TailIs
<1>5. /\ TailOf(Q) \in Seq(Record)
      /\ Len(TailOf(Q)) = IF HeaderLines <= m THEN m - HeaderLines ELSE 0
      /\ \A i \in 1 .. Len(TailOf(Q)) : TailOf(Q)[i] = Q[HeaderLines + i]
  BY <1>1, TailIs
<1> HIDE DEF n, m, j, k
<1>6. CASE n < HeaderLines
  <2>1. j = n /\ k = n + 1 /\ Len(TailOf(R)) = 0 /\ Len(TailOf(Q)) = 0
    BY <1>1, <1>2, <1>3, <1>4, <1>5, <1>6
  <2>2. TailOf(Q) = TailOf(R)
    BY <1>4, <1>5, <2>1
  <2>3. HeadOf(Q) = Append(HeadOf(R), r)
    <3> DEFINE a == Append(HeadOf(R), r)
    <3>1. a \in Seq(Record) /\ Len(a) = n + 1 /\ a[n + 1] = r /\ \A i \in 1 .. n : a[i] = HeadOf(R)[i]
      BY <1>1, <1>2, <2>1
    <3> HIDE DEF a
    <3>2. ASSUME NEW i \in 1 .. n + 1 PROVE HeadOf(Q)[i] = a[i]
      <4>1. i \in 1 .. n \/ i = n + 1
        BY <1>1
      <4> QED BY <1>1, <1>2, <1>3, <2>1, <3>1, <4>1
    <3> QED BY <1>3, <2>1, <3>1, <3>2, SeqEqual DEF a
  <2> QED BY <1>6, <2>2, <2>3 DEF Q, n
<1>7. CASE ~(n < HeaderLines)
  <2>1. j = HeaderLines /\ k = HeaderLines /\ Len(TailOf(R)) = n - HeaderLines
        /\ Len(TailOf(Q)) = (n - HeaderLines) + 1 /\ n - HeaderLines \in Nat
    BY <1>1, <1>2, <1>3, <1>4, <1>5, <1>7
  <2>2. HeadOf(Q) = HeadOf(R)
    <3>1. \A i \in 1 .. j : HeadOf(Q)[i] = HeadOf(R)[i]
      <4>1. \A i \in 1 .. j : i \in 1 .. n
        BY <1>1, <1>2
      <4> QED BY <1>1, <1>2, <1>3, <2>1, <4>1
    <3> QED BY <1>2, <1>3, <2>1, <3>1, SeqEqual
  <2>3. TailOf(Q) = Append(TailOf(R), r)
    <3> DEFINE a == Append(TailOf(R), r)
               l == n - HeaderLines
    <3>1. a \in Seq(Record) /\ Len(a) = l + 1 /\ a[l + 1] = r /\ \A i \in 1 .. l : a[i] = TailOf(R)[i]
      BY <1>4, <2>1
    <3> HIDE DEF a
    <3>2. ASSUME NEW i \in 1 .. l + 1 PROVE TailOf(Q)[i] = a[i]
      <4>1. CASE i \in 1 .. l
        <5>1. HeaderLines + i \in 1 .. n
          BY <1>1, <2>1, <4>1
        <5>2. i \in 1 .. Len(TailOf(Q)) /\ i \in 1 .. Len(TailOf(R))
          BY <2>1, <4>1
        <5> QED BY <1>1, <1>4, <1>5, <3>1, <4>1, <5>1, <5>2
      <4>2. CASE i = l + 1
        <5>1. HeaderLines + i = m /\ i \in 1 .. Len(TailOf(Q))
          BY <1>1, <2>1, <4>2
        <5> QED BY <1>1, <1>5, <3>1, <4>2, <5>1
      <4> QED BY <2>1, <4>1, <4>2
    <3>3. Len(TailOf(Q)) = l + 1
      BY <2>1
    <3> HIDE DEF l
    <3> QED BY <1>5, <3>1, <3>2, <3>3, SeqEqual DEF a
  <2> QED BY <1>7, <2>2, <2>3 DEF Q, n
<1> QED BY <1>6, <1>7

-----------------------------------------------------------------------------
(* What a text was cut into while it was read is a beginning of its records. *)

LEMMA RecordsType ==
    ASSUME NEW g \in Gen, text[g] \in Seq(Char)
    PROVE  /\ Records(g) \in Seq(Record)
           /\ \A n \in 0 .. Len(text[g]) : Cut(text[g])[n].lines \in Seq(Record)
                                           /\ Cut(text[g])[n].rest \in Record
<1> DEFINE s == text[g]
           end == Cut(s)[Len(s)]
<1>1. CutsTo(Cut(s), s, Len(s)) /\ Len(s) \in Nat
  BY CutIs
<1>2. \A n \in 0 .. Len(s) : Cut(s)[n].lines \in Seq(Record) /\ Cut(s)[n].rest \in Record
  BY <1>1 DEF CutsTo, Half
<1>3. CASE kind[g] = "walker"
  <2>1. \A i \in 1 .. Len(s) : <<s[i]>> \in Record
    BY DEF Record
  <2> QED BY <1>1, <1>2, <1>3, <2>1 DEF Records
<1>4. CASE kind[g] # "walker"
  <2>1. Records(g) = end.lines \o (IF end.rest = <<>> THEN <<>> ELSE <<end.rest>>)
    BY <1>4 DEF Records
  <2>2. end.lines \in Seq(Record) /\ end.rest \in Record
    BY <1>1, <1>2
  <2> HIDE DEF end
  <2>3. (IF end.rest = <<>> THEN <<>> ELSE <<end.rest>>) \in Seq(Record)
    BY <2>2
  <2>4. end.lines \o (IF end.rest = <<>> THEN <<>> ELSE <<end.rest>>) \in Seq(Record)
    BY <2>2, <2>3
  <2> QED BY <1>2, <2>1, <2>4
<1> QED BY <1>3, <1>4

LEMMA CuttingBegins ==
    ASSUME NEW g \in Gen, text[g] \in Seq(Char), taken[g] \in Nat, taken[g] <= Len(text[g]),
           NEW R \in Seq(Record), Cutting(g, R)
    PROVE  \E X \in Seq(Record) : Records(g) = R \o X
<1> DEFINE s == text[g]
           end == Cut(s)[Len(s)]
<1>0. Len(s) \in Nat /\ taken[g] \in Nat /\ taken[g] <= Len(s) /\ Len(s) - taken[g] \in Nat
      /\ Len(s) \in 0 .. Len(s)
  OBVIOUS
<1>r. /\ Records(g) \in Seq(Record)
      /\ \A n \in 0 .. Len(s) : Cut(s)[n].lines \in Seq(Record) /\ Cut(s)[n].rest \in Record
  BY RecordsType
<1>1. CASE R = Records(g)
  <2>1. Records(g) = R \o <<>> /\ <<>> \in Seq(Record)
    BY <1>1, <1>r
  <2> QED BY <2>1
<1>2. CASE kind[g] = "walker"
  <2> DEFINE X == [i \in 1 .. Len(s) - taken[g] |-> <<s[taken[g] + i]>>]
             l == Len(s)
             k == taken[g]
  <2>1. \A i \in 1 .. l : <<s[i]>> \in Record
    BY DEF Record
  <2>2. \A i \in 1 .. l - k : k + i \in 1 .. l
    BY <1>0
  <2>3. X \in Seq(Record) /\ Len(X) = l - k
    <3> HIDE DEF l, k
    <3> QED BY <1>0, <2>1, <2>2 DEF l, k
  <2>4. R = [i \in 1 .. k |-> <<s[i]>>] /\ Records(g) = [i \in 1 .. l |-> <<s[i]>>]
    BY <1>2 DEF Cutting, Records
  <2>5. Len(R) = k /\ Len(Records(g)) = l
    BY <1>0, <2>4
  <2>6. R \o X \in Seq(Record) /\ Len(R \o X) = l
    BY <1>0, <2>3, <2>5
  <2>7. ASSUME NEW i \in 1 .. l PROVE Records(g)[i] = (R \o X)[i]
    <3>1. CASE i \in 1 .. k
      <4>1. (R \o X)[i] = R[i]
        BY <2>3, <2>5, <3>1
      <4> QED BY <2>4, <3>1, <4>1
    <3>2. CASE i \notin 1 .. k
      <4>1. i - k \in 1 .. l - k /\ k + (i - k) = i /\ i > k
        BY <1>0, <3>2
      <4>2. (R \o X)[i] = X[i - k]
        BY <1>0, <2>3, <2>5, <3>2, <4>1
      <4> QED BY <2>4, <4>1, <4>2
    <3> QED BY <3>1, <3>2
  <2>8. Records(g) = R \o X
    <3> HIDE DEF X, l
    <3> QED BY <1>r, <2>5, <2>6, <2>7, SeqEqual
  <2> QED BY <2>3, <2>8
<1>3. CASE kind[g] # "walker" /\ R # Records(g)
  <2>1. PICK n \in 0 .. taken[g] : R = Cut(s)[n].lines
    BY <1>3 DEF Cutting
  <2>2. n \in 0 .. Len(s) /\ Len(s) \in n .. Len(s)
    BY <1>0
  <2>3. PICK X \in Seq(Record) : end.lines = R \o X
    BY <2>1, <2>2, CutGrows
  <2> DEFINE Y == IF end.rest = <<>> THEN <<>> ELSE <<end.rest>>
  <2>4. Records(g) = end.lines \o Y
    BY <1>3 DEF Records
  <2>5. Y \in Seq(Record)
    <3>1. end.rest \in Record
      BY <1>0, <1>r
    <3> HIDE DEF end
    <3> QED BY <3>1
  <2> HIDE DEF Y, end
  <2>6. (R \o X) \o Y = R \o (X \o Y) /\ X \o Y \in Seq(Record)
    BY <2>3, <2>5, RecordsAssociate
  <2> QED BY <2>3, <2>4, <2>6
<1> QED BY <1>1, <1>2, <1>3

\* A source that fails does not change what was cut from it so far.
LEMMA SourceKeepsCuts ==
    ASSUME TypeOK, NEW g \in Gen, Source(g), NEW h \in Gen
    PROVE  /\ taken'[h] = taken[h] /\ list'[h] = list[h] /\ kind' = kind
           /\ text'[h] \in Seq(Char) /\ taken[h] <= Len(text'[h]) /\ Len(text'[h]) <= Len(text[h])
           /\ \A n \in 0 .. taken[h] : Cut(text'[h])[n] = Cut(text[h])[n]
           /\ \A i \in 1 .. taken[h] : text'[h][i] = text[h][i]
           /\ taken[h] = Len(text[h]) => text'[h] = text[h]
<1>x. /\ text \in [Gen -> Seq(Char)] /\ text[h] \in Seq(Char) /\ taken[h] \in Nat /\ Len(text[h]) \in Nat
      /\ taken[h] <= Len(text[h])
  BY DEF TypeOK
<1>u. taken' = taken /\ list' = list /\ kind' = kind
  BY DEF Source, SetGroup, Exit, sourceVars
<1>1. CASE text'[h] = text[h]
  BY <1>x, <1>u, <1>1
<1>2. CASE text'[h] # text[h]
  <2>1. h = g /\ \E n \in taken[g] .. Len(text[g]) : text' = [text EXCEPT ![g] = SubSeq(@, 1, n)]
    BY <1>x, <1>2 DEF Source, SetGroup, Exit, sourceVars
  <2>2. PICK m \in taken[g] .. Len(text[g]) : text' = [text EXCEPT ![g] = SubSeq(@, 1, m)]
    BY <2>1
  <2>3. text'[h] = SubSeq(text[h], 1, m) /\ m \in 0 .. Len(text[h]) /\ taken[h] <= m /\ m \in Nat
    BY <1>x, <2>1, <2>2
  <2>4. /\ text'[h] \in Seq(Char) /\ Len(text'[h]) = m
        /\ \A n \in 0 .. m : Cut(text'[h])[n] = Cut(text[h])[n]
    <3> DEFINE s == text[h]
    <3>1. s \in Seq(Char) /\ m \in 0 .. Len(s) /\ 0 \in 0 .. m
      BY <1>x, <2>3
    <3> HIDE DEF s
    <3>2. SubSeq(s, 1, m) \in Seq(Char) /\ Len(SubSeq(s, 1, m)) = m
      BY <3>1, CutKept
    <3>3. \A n \in 0 .. m : Cut(SubSeq(s, 1, m))[n] = Cut(s)[n]
      BY <3>1, CutKept
    <3> QED BY <2>3, <3>2, <3>3 DEF s
  <2>5. \A i \in 1 .. m : text'[h][i] = text[h][i]
    <3> DEFINE s == text[h]
    <3>1. s \in Seq(Char) /\ m \in Nat /\ 0 <= m /\ m <= Len(s) /\ m - 0 = m
      BY <1>x, <2>3
    <3> HIDE DEF s
    <3>2. \A i \in 1 .. m - 0 : SubSeq(s, 0 + 1, m)[i] = s[0 + i]
      BY <3>1, PartOf
    <3>3. \A i \in 1 .. m : 0 + i = i
      BY <3>1
    <3> QED BY <2>3, <3>1, <3>2, <3>3 DEF s
  <2>6. taken[h] # Len(text[h])
    <3> SUFFICES ASSUME taken[h] = Len(text[h]) PROVE FALSE
      OBVIOUS
    <3>1. m = Len(text[h])
      BY <1>x, <2>3
    <3>2. SubSeq(text[h], 1, Len(text[h])) = text[h]
      BY <1>x, SubSeqFull
    <3> QED BY <1>2, <2>3, <3>1, <3>2
  <2>7. \A n \in 0 .. taken[h] : n \in 0 .. m
    BY <1>x, <2>3
  <2>8. \A i \in 1 .. taken[h] : i \in 1 .. m
    BY <1>x, <2>3
  <2>9. taken[h] <= Len(text'[h]) /\ Len(text'[h]) <= Len(text[h])
    BY <1>x, <2>3, <2>4
  <2> QED BY <1>u, <2>4, <2>5, <2>6, <2>7, <2>8, <2>9
<1> QED BY <1>1, <1>2

LEMMA CuttingKept ==
    ASSUME TypeOK, NEW g \in Gen, Source(g), NEW h \in Gen, NEW R, Cutting(h, R)
    PROVE  Cutting(h, R)'
<1>1. /\ taken'[h] = taken[h] /\ list'[h] = list[h] /\ kind' = kind
      /\ text'[h] \in Seq(Char) /\ taken[h] <= Len(text'[h]) /\ Len(text'[h]) <= Len(text[h])
      /\ \A n \in 0 .. taken[h] : Cut(text'[h])[n] = Cut(text[h])[n]
      /\ \A i \in 1 .. taken[h] : text'[h][i] = text[h][i]
      /\ taken[h] = Len(text[h]) => text'[h] = text[h]
  BY SourceKeepsCuts
<1>2. CASE kind[h] = "walker"
  BY <1>1, <1>2 DEF Cutting
<1>3. CASE kind[h] # "walker" /\ \E n \in 0 .. taken[h] : R = Cut(text[h])[n].lines
  BY <1>1, <1>3 DEF Cutting
<1>4. CASE taken[h] = Len(text[h]) /\ R = Records(h)
  <2>1. Records(h)' = Records(h)
    BY <1>1, <1>4 DEF Records
  <2> QED BY <1>1, <1>2, <1>4, <2>1 DEF Cutting
<1> QED BY <1>2, <1>3, <1>4 DEF Cutting

-----------------------------------------------------------------------------
(* One turn of the loop over the buffer. *)

LEMMA Empties ==
    /\ <<>> \in Seq(Record) /\ HeadOf(<<>>) = <<>> /\ TailOf(<<>>) = <<>>
    /\ \A s \in Seq(Char) : Cut(s)[0].lines = <<>> /\ Cut(s)[0].rest = <<>>
<1>1. <<>> \in Seq(Record) /\ Len(<<>>) = 0
  OBVIOUS
<1>2. HeadOf(<<>>) \in Seq(Record) /\ Len(HeadOf(<<>>)) = 0
  <2>1. /\ Min({HeaderLines, Len(<<>>)}) \in Nat /\ Min({HeaderLines, Len(<<>>)}) <= Len(<<>>)
        /\ HeadOf(<<>>) \in Seq(Record) /\ Len(HeadOf(<<>>)) = Min({HeaderLines, Len(<<>>)})
    BY <1>1, HeadIs
  <2> QED BY <1>1, <2>1
<1>3. TailOf(<<>>) \in Seq(Record) /\ Len(TailOf(<<>>)) = 0
  <2>1. /\ TailOf(<<>>) \in Seq(Record)
        /\ Len(TailOf(<<>>)) = IF HeaderLines <= Len(<<>>) THEN Len(<<>>) - HeaderLines ELSE 0
    BY <1>1, TailIs
  <2>2. HeaderLines \in Nat
    BY ReaderAssumption
  <2>3. Len(TailOf(<<>>)) = 0
    BY <1>1, <2>1, <2>2
  <2> QED BY <2>1, <2>3
<1>4. \A s \in Seq(Char) : Cut(s)[0] = [lines |-> <<>>, rest |-> <<>>]
  BY CutIs DEF CutsTo
<1> QED BY <1>1, <1>2, <1>3, <1>4

\* A buffer cut in two is two parts of the text.
LEMMA BufferParts ==
    ASSUME NEW s \in Seq(Char), NEW n \in Nat, NEW m \in Nat, n <= m, m <= Len(s),
           NEW e \in 0 .. m - n, NEW b, b = SubSeq(s, n + 1, m)
    PROVE  /\ b \in Seq(Char) /\ Len(b) = m - n /\ \A i \in 1 .. m - n : b[i] = s[n + i]
           /\ SubSeq(b, 1, e) = SubSeq(s, n + 1, n + e)
           /\ SubSeq(b, e + 1, Len(b)) = SubSeq(s, n + e + 1, m)
           /\ Len(SubSeq(b, e + 1, Len(b))) = m - (n + e)
<1>1. b \in Seq(Char) /\ Len(b) = m - n /\ \A i \in 1 .. m - n : b[i] = s[n + i]
  BY PartOf
<1>2. m - n \in Nat /\ e \in Nat /\ 0 <= e /\ e <= m - n /\ e - 0 = e
      /\ n + e \in Nat /\ n <= n + e /\ n + e <= m /\ n + e <= Len(s) /\ (n + e) - n = e
      /\ (m - n) - e = m - (n + e) /\ Len(s) \in Nat
  OBVIOUS
<1> DEFINE ne == n + e
<1>3. /\ SubSeq(b, 1, e) \in Seq(Char) /\ Len(SubSeq(b, 1, e)) = e
      /\ \A i \in 1 .. e : SubSeq(b, 1, e)[i] = b[i]
  <2>1. /\ SubSeq(b, 0 + 1, e) \in Seq(Char) /\ Len(SubSeq(b, 0 + 1, e)) = e - 0
        /\ \A i \in 1 .. e - 0 : SubSeq(b, 0 + 1, e)[i] = b[0 + i]
    BY <1>1, <1>2, PartOf
  <2>2. 0 + 1 = 1 /\ \A i \in 1 .. e : 0 + i = i
    BY <1>2
  <2> QED BY <1>2, <2>1, <2>2
<1>4. /\ SubSeq(s, n + 1, ne) \in Seq(Char) /\ Len(SubSeq(s, n + 1, ne)) = e
      /\ \A i \in 1 .. e : SubSeq(s, n + 1, ne)[i] = s[n + i]
  <2>1. /\ SubSeq(s, n + 1, ne) \in Seq(Char) /\ Len(SubSeq(s, n + 1, ne)) = ne - n
        /\ \A i \in 1 .. ne - n : SubSeq(s, n + 1, ne)[i] = s[n + i]
    <3>1. ne \in Nat /\ n <= ne /\ ne <= Len(s)
      BY <1>2
    <3> HIDE DEF ne
    <3> QED BY <3>1, PartOf
  <2> QED BY <1>2, <2>1
<1>5. SubSeq(b, 1, e) = SubSeq(s, n + 1, n + e)
  <2>1. \A i \in 1 .. e : i \in 1 .. m - n
    BY <1>2
  <2>2. \A i \in 1 .. e : SubSeq(b, 1, e)[i] = SubSeq(s, n + 1, ne)[i]
    BY <1>1, <1>3, <1>4, <2>1
  <2>3. SubSeq(b, 1, e) = SubSeq(s, n + 1, ne)
    <3> HIDE DEF ne
    <3> QED BY <1>3, <1>4, <2>2, SeqEqual
  <2> QED BY <2>3
<1>6. /\ SubSeq(b, e + 1, Len(b)) \in Seq(Char) /\ Len(SubSeq(b, e + 1, Len(b))) = m - ne
      /\ \A i \in 1 .. m - ne : SubSeq(b, e + 1, Len(b))[i] = b[e + i]
  <2> DEFINE l == Len(b)
  <2>1. l \in Nat /\ e <= l /\ l - e = m - ne
    BY <1>1, <1>2
  <2>2. /\ SubSeq(b, e + 1, l) \in Seq(Char) /\ Len(SubSeq(b, e + 1, l)) = l - e
        /\ \A i \in 1 .. l - e : SubSeq(b, e + 1, l)[i] = b[e + i]
    <3>1. l <= Len(b)
      BY <2>1
    <3> HIDE DEF l
    <3> QED BY <1>1, <1>2, <2>1, <3>1, PartOf
  <2> QED BY <2>1, <2>2
<1>7. /\ SubSeq(s, ne + 1, m) \in Seq(Char) /\ Len(SubSeq(s, ne + 1, m)) = m - ne
      /\ \A i \in 1 .. m - ne : SubSeq(s, ne + 1, m)[i] = s[ne + i]
  <2>1. ne \in Nat /\ ne <= m
    BY <1>2
  <2> HIDE DEF ne
  <2> QED BY <2>1, PartOf
<1>8. SubSeq(b, e + 1, Len(b)) = SubSeq(s, n + e + 1, m)
  <2>1. \A i \in 1 .. m - ne : e + i \in 1 .. m - n /\ n + (e + i) = ne + i
    BY <1>2
  <2>2. \A i \in 1 .. m - ne : SubSeq(b, e + 1, Len(b))[i] = SubSeq(s, ne + 1, m)[i]
    BY <1>1, <1>6, <1>7, <2>1
  <2>3. SubSeq(b, e + 1, Len(b)) = SubSeq(s, ne + 1, m)
    <3> HIDE DEF ne
    <3> QED BY <1>6, <1>7, <2>2, SeqEqual
  <2> QED BY <2>3
<1> QED BY <1>1, <1>5, <1>6, <1>8

\* Without a delimiter the buffer is more of the last record; with one, the record
\* is complete.
LEMMA CutSplit ==
    ASSUME NEW s \in Seq(Char), NEW n \in Nat, NEW m \in Nat, n <= m, m <= Len(s),
           NEW b, b = SubSeq(s, n + 1, m)
    PROVE  LET end == FirstIn(b, Delim) IN
           /\ end \in 0 .. m - n
           /\ end = 0 => Cut(s)[m] = [lines |-> Cut(s)[n].lines, rest |-> Cut(s)[n].rest \o b]
           /\ end # 0 => Cut(s)[n + end] =
                            [lines |-> Append(Cut(s)[n].lines, Line(Cut(s)[n].rest \o SubSeq(b, 1, end - 1))),
                             rest |-> <<>>]
<1> DEFINE end == FirstIn(b, Delim)
<1>0. Len(s) \in Nat /\ m - n \in Nat /\ 0 \in 0 .. m - n /\ n + (m - n) = m
  OBVIOUS
<1>1. b \in Seq(Char) /\ Len(b) = m - n /\ \A i \in 1 .. m - n : b[i] = s[n + i]
  BY PartOf
<1>2. /\ end \in 0 .. m - n
      /\ end = 0 => \A i \in 1 .. m - n : b[i] # Delim
      /\ end # 0 => b[end] = Delim /\ \A i \in 1 .. end - 1 : b[i] # Delim
  <2>1. end = 0 => \A i \in 1 .. Len(b) : b[i] # Delim
    BY <1>1, FirstAt
  <2>2. end # 0 => b[end] = Delim /\ \A i \in 1 .. end - 1 : b[i] # Delim
    BY <1>1, FirstAt
  <2>3. end \in 0 .. Len(b)
    BY <1>1, FirstAt
  <2> QED BY <1>1, <2>1, <2>2, <2>3
<1> HIDE DEF end
<1>3. CASE end = 0
  <2> DEFINE k == m - n
  <2>1. k \in Nat /\ n + k <= Len(s) /\ n + k = m /\ \A i \in 1 .. k : s[n + i] # Delim
    BY <1>0, <1>1, <1>2, <1>3
  <2> HIDE DEF k
  <2>2. Cut(s)[n + k] = [lines |-> Cut(s)[n].lines, rest |-> Cut(s)[n].rest \o SubSeq(s, n + 1, n + k)]
    BY <2>1, CutPlain
  <2> QED BY <1>2, <1>3, <2>1, <2>2 DEF end
<1>4. CASE end # 0
  <2> DEFINE k == end - 1
             p == Cut(s)[n]
  <2>1. /\ k \in Nat /\ n + k <= Len(s) /\ n + end \in 1 .. Len(s) /\ (n + end) - 1 = n + k
        /\ k \in 0 .. m - n /\ end \in 1 .. m - n
    BY <1>0, <1>2, <1>4
  <2>2. \A i \in 1 .. k : i \in 1 .. m - n
    BY <1>0, <2>1
  <2>3. s[n + end] = Delim /\ \A i \in 1 .. k : s[n + i] # Delim
    BY <1>1, <1>2, <1>4, <2>1, <2>2
  <2>4. SubSeq(b, 1, k) = SubSeq(s, n + 1, n + k)
    <3> HIDE DEF k
    <3> QED BY <2>1, BufferParts
  <2>5. Cut(s)[n + k] = [lines |-> p.lines, rest |-> p.rest \o SubSeq(s, n + 1, n + k)]
    <3> HIDE DEF k
    <3> QED BY <2>1, <2>3, CutPlain
  <2>6. Cut(s)[n + end] = CutOne(Cut(s)[n + k], s[n + end])
    BY <2>1, CutIs DEF CutsTo
  <2>7. Cut(s)[n + end] = CutOne([lines |-> p.lines, rest |-> p.rest \o SubSeq(b, 1, k)], Delim)
    <3> HIDE DEF k, p
    <3> QED BY <2>3, <2>4, <2>5, <2>6
  <2> HIDE DEF p
  <2>8. Cut(s)[n + end] = [lines |-> Append(p.lines, Line(p.rest \o SubSeq(b, 1, k))), rest |-> <<>>]
    BY <2>7 DEF CutOne
  <2> QED BY <1>2, <1>4, <2>8 DEF p, end
<1> QED BY <1>3, <1>4 DEF end

\* What a push adds to the records pushed.
LEMMA PushKeeps ==
    ASSUME TypeOK, NEW R \in Seq(Record), t.seen = Len(R), header = HeadOf(R), list[gen] = TailOf(R),
           NEW rec \in Record, NEW delimited \in BOOLEAN, Push(rec, delimited)
    PROVE  LET Q == Append(R, IF delimited THEN Line(rec) ELSE rec) IN
           Q \in Seq(Record) /\ Len(Q) = t.seen + 1 /\ header' = HeadOf(Q) /\ list'[gen] = TailOf(Q)
<1> DEFINE r == IF delimited THEN Line(rec) ELSE rec
           Q == Append(R, r)
<1>1. r \in Record
  BY LineType
<1>2. IF t.seen < HeaderLines THEN header' = Append(header, r) /\ list' = list
      ELSE list' = [list EXCEPT ![t.gen] = Append(@, r)] /\ header' = header
  BY PushIs
<1>3. t.gen = gen /\ gen \in Gen /\ list \in [Gen -> Seq(Record)]
  BY DEF TypeOK
<1> HIDE DEF r
<1>4. /\ Len(R) < HeaderLines => HeadOf(Q) = Append(HeadOf(R), r) /\ TailOf(Q) = TailOf(R)
      /\ ~(Len(R) < HeaderLines) => HeadOf(Q) = HeadOf(R) /\ TailOf(Q) = Append(TailOf(R), r)
  BY <1>1, PushParts
<1>5. Q \in Seq(Record) /\ Len(Q) = t.seen + 1
  BY <1>1
<1>6. header' = HeadOf(Q) /\ list'[gen] = TailOf(Q)
  <2> HIDE DEF Q
  <2> QED BY <1>2, <1>3, <1>4
<1> QED BY <1>5, <1>6 DEF r

-----------------------------------------------------------------------------
(* Every step keeps RecordsAgree. *)

\* A step that leaves the lists, the texts and what was taken of them alone.
LEMMA SameCuts ==
    ASSUME UNCHANGED <<text, taken, kind, list, gen>>, NEW R
    PROVE  /\ \A g \in Gen : (Cutting(g, R) => Cutting(g, R)') /\ (ListIs(g, R) => ListIs(g, R)')
           /\ ListIs(gen, R) => ListIs(gen, R)'
           /\ Records(gen)' = Records(gen)
           /\ t'.buf = t.buf /\ t'.leftover = t.leftover => (Unsplit(R) => Unsplit(R)')
<1>1. \A g \in Gen : Records(g)' = Records(g)
  BY DEF Records
<1>2. \A g \in Gen : Cutting(g, R) => Cutting(g, R)'
  BY <1>1 DEF Cutting
<1>3. \A g \in Gen : ListIs(g, R) => ListIs(g, R)'
  BY <1>2 DEF ListIs
<1>4. t'.buf = t.buf /\ t'.leftover = t.leftover => (Unsplit(R) => Unsplit(R)')
  BY DEF Unsplit
<1>5. Records(gen)' = Records(gen)
  BY DEF Records
<1>6. ListIs(gen, R) => ListIs(gen, R)'
  BY <1>5 DEF ListIs, Cutting
<1> QED BY <1>2, <1>3, <1>4, <1>5, <1>6

LEMMA ReaderCutsOn ==
    ASSUME IInv, NEW R \in Seq(Record), ReaderIs(R), ReaderRead
    PROVE  ReaderIs(R)'
<1> USE DEF sharedVars, sourceVars, cancelVars
<1> DEFINE s == text[gen]
           m == taken[gen]
           a == MaxRead
           b == Len(s) - m
<1>t. /\ t \in ReaderThread /\ t.gen = gen /\ gen \in Gen /\ taken \in [Gen -> Nat]
      /\ s \in Seq(Char) /\ Len(s) \in Nat /\ m \in Nat /\ m <= Len(s)
  BY DEF IInv, TypeOK
<1>1. PICK n \in 1 .. Min({a, b}) :
           /\ t' = [t EXCEPT !.pc = "split", !.buf = SubSeq(s, m + 1, m + n)]
           /\ taken' = [taken EXCEPT ![gen] = @ + n]
  BY <1>t DEF ReaderRead
<1>2. t.pc = "select" /\ UNCHANGED <<kind, text, list, gen, header>>
  BY DEF ReaderRead
<1>3. n \in Nat /\ n <= b
  <2>1. a \in Nat /\ b \in Nat
    BY <1>t, ReaderAssumption
  <2> HIDE DEF a, b
  <2>2. Min({a, b}) \in Nat /\ Min({a, b}) <= b
    BY <2>1, MinIsLeast
  <2> QED BY <2>1, <2>2
<1>4. /\ taken'[gen] = m + n /\ m + n \in Nat /\ m <= m + n /\ m + n <= Len(s) /\ (m + n) - n = m
      /\ m \in 0 .. m + n /\ (m + n) - m = n
  BY <1>t, <1>1, <1>3
<1>5. /\ t'.pc = "split" /\ t'.buf = SubSeq(s, m + 1, m + n) /\ t'.seen = t.seen
      /\ t'.leftover = t.leftover /\ t'.cancelled = t.cancelled
  BY <1>t, <1>1 DEF ReaderThread
<1>6. Len(SubSeq(s, m + 1, m + n)) = n
  <2> DEFINE e == m + n
  <2>1. e \in Nat /\ m <= e /\ e <= Len(s) /\ e - m = n
    BY <1>4
  <2> HIDE DEF e, s, m
  <2>2. Len(SubSeq(s, m + 1, e)) = e - m
    BY <1>t, <2>1, PartOf
  <2> QED BY <2>1, <2>2 DEF e
<1>7. t.buf = <<>> /\ ~t.cancelled /\ Unsplit(R) /\ kind[gen] # "walker"
  BY <1>2 DEF ReaderIs, Reading
<1>8. R = Cut(s)[m].lines /\ t.leftover = Cut(s)[m].rest
  <2>1. Len(t.buf) = 0 /\ m - 0 = m
    BY <1>t, <1>7
  <2> QED BY <1>7, <2>1 DEF Unsplit
<1>9. Unsplit(R)'
  <2>1. taken'[gen'] - Len(t'.buf) = m /\ text'[gen'] = s
    BY <1>2, <1>4, <1>5, <1>6
  <2> HIDE DEF s, m
  <2> QED BY <1>t, <1>2, <1>4, <1>5, <1>8, <2>1 DEF Unsplit
<1>10. ListIs(gen, R)'
  <2>1. Cutting(gen, R)'
    BY <1>2, <1>4, <1>7, <1>8 DEF Cutting
  <2> QED BY <1>2, <2>1 DEF ListIs, ReaderIs
<1> HIDE DEF s, m, a, b
<1>11. t'.seen = Len(R) /\ header' = HeadOf(R)
  BY <1>2, <1>5 DEF ReaderIs, HeadOf
<1> QED BY <1>2, <1>5, <1>7, <1>9, <1>10, <1>11 DEF ReaderIs, Reading, HeadOf

LEMMA ReaderSplitsOn ==
    ASSUME IInv, NEW R \in Seq(Record), ReaderIs(R), ReaderSplit
    PROVE  \E Q \in Seq(Record) : ReaderIs(Q)'
<1> USE DEF sharedVars, sourceVars, cancelVars
<1> DEFINE s == text[gen]
           m == taken[gen]
           b == t.buf
           n == m - Len(b)
           l == t.leftover
           end == SelectInSeq(b, LAMBDA c : c = Delim)
<1>t. /\ t \in ReaderThread /\ t.gen = gen /\ gen \in Gen /\ TypeOK
      /\ s \in Seq(Char) /\ Len(s) \in Nat /\ m \in Nat /\ m <= Len(s)
      /\ b \in Seq(Char) /\ Len(b) \in Nat /\ l \in Seq(Char)
  BY DEF IInv, TypeOK, ReaderThread
<1>0. end = FirstIn(b, Delim)
  BY DEF SelectInSeq, FirstIn
<1>1. /\ t.pc = "split" /\ UNCHANGED <<kind, text, taken, gen>>
      /\ IF end = 0
         THEN /\ t' = [t EXCEPT !.pc = "select", !.leftover = @ \o t.buf, !.buf = <<>>]
              /\ UNCHANGED <<list, header>>
         ELSE /\ Push(l \o SubSeq(b, 1, end - 1), TRUE)
              /\ t' = [t EXCEPT !.pc = "wake_split", !.leftover = <<>>, !.seen = @ + 1,
                                !.buf = SubSeq(@, end + 1, Len(@))]
  BY DEF ReaderSplit
<1> HIDE DEF end
<1>2. Unsplit(R) /\ kind[gen] # "walker" /\ ~t.cancelled
  BY <1>1 DEF ReaderIs, Reading
<1>3. /\ n \in Nat /\ n <= m /\ n \in 0 .. m /\ m - n = Len(b)
      /\ R = Cut(s)[n].lines /\ l = Cut(s)[n].rest /\ b = SubSeq(s, n + 1, m)
  BY <1>t, <1>2 DEF Unsplit
<1>4. /\ t.seen = Len(R) /\ header = HeadOf(R) /\ list[gen] = TailOf(R) /\ Cutting(gen, R)
  BY DEF ReaderIs, ListIs, HeadOf, TailOf
<1>5. /\ end \in 0 .. m - n
      /\ end = 0 => Cut(s)[m] = [lines |-> R, rest |-> l \o b]
      /\ end # 0 => Cut(s)[n + end] =
                       [lines |-> Append(R, Line(l \o SubSeq(b, 1, end - 1))), rest |-> <<>>]
  <2> HIDE DEF n, m, s, b, l
  <2>0. m <= Len(s) /\ n <= m
    BY <1>t, <1>3
  <2>1. n \in Nat /\ m \in Nat /\ s \in Seq(Char) /\ b = SubSeq(s, n + 1, m)
    BY <1>t, <1>3
  <2>2. end \in 0 .. m - n
    BY <1>0, <2>0, <2>1, CutSplit
  <2>3. end = 0 => Cut(s)[m] = [lines |-> Cut(s)[n].lines, rest |-> Cut(s)[n].rest \o b]
    BY <1>0, <2>0, <2>1, CutSplit
  <2>4. end # 0 => Cut(s)[n + end] =
             [lines |-> Append(Cut(s)[n].lines, Line(Cut(s)[n].rest \o SubSeq(b, 1, end - 1))), rest |-> <<>>]
    BY <1>0, <2>0, <2>1, CutSplit
  <2> QED BY <1>3, <2>2, <2>3, <2>4
<1>6. CASE end = 0
  <2>1. /\ t'.pc = "select" /\ t'.buf = <<>> /\ t'.seen = t.seen /\ t'.leftover = l \o b
        /\ t'.cancelled = t.cancelled /\ UNCHANGED <<list, header>>
    BY <1>t, <1>1, <1>6 DEF ReaderThread
  <2>2. ListIs(gen, R)'
    BY <1>1, <2>1, SameCuts DEF ReaderIs
  <2>3. Unsplit(R)'
    <3>1. SubSeq(s, m + 1, m) = <<>>
      <4>0. m <= m
        BY <1>t
      <4> HIDE DEF s, m
      <4>1. SubSeq(s, m + 1, m) \in Seq(Char) /\ Len(SubSeq(s, m + 1, m)) = m - m
        BY <1>t, <4>0, PartOf
      <4>2. m - m = 0
        BY <1>t
      <4> QED BY <4>1, <4>2
    <3>2. taken'[gen'] - Len(t'.buf) = m /\ text'[gen'] = s /\ taken'[gen'] = m
      <4>1. Len(t'.buf) = 0 /\ m - 0 = m
        BY <1>t, <2>1
      <4> QED BY <1>1, <2>1, <4>1
    <3>3. R = Cut(s)[m].lines /\ l \o b = Cut(s)[m].rest
      <4> HIDE DEF s, m, b, l
      <4> QED BY <1>5, <1>6
    <3> HIDE DEF s, m
    <3> QED BY <1>t, <2>1, <3>1, <3>2, <3>3 DEF Unsplit
  <2>4. t'.seen = Len(R) /\ header' = HeadOf(R)
    BY <1>4, <2>1
  <2>5. ReaderIs(R)'
    BY <1>1, <1>2, <2>1, <2>2, <2>3, <2>4 DEF ReaderIs, Reading, HeadOf
  <2> QED BY <2>5
<1>7. CASE end # 0
  <2> DEFINE rec == l \o SubSeq(b, 1, end - 1)
             k == n + end
  <2>1. /\ t'.pc = "wake_split" /\ t'.buf = SubSeq(b, end + 1, Len(b)) /\ t'.seen = t.seen + 1
        /\ t'.leftover = <<>> /\ t'.cancelled = t.cancelled /\ Push(rec, TRUE)
    BY <1>t, <1>1, <1>7 DEF ReaderThread
  <2>2. /\ end \in 1 .. m - n /\ end - 1 \in Nat /\ 0 <= end - 1 /\ end - 1 <= Len(b)
        /\ k \in 0 .. m /\ m - (m - k) = k /\ k \in Nat /\ k <= m
    <3>1. end \in 1 .. m - n /\ n \in Nat /\ n <= m /\ m - n = Len(b) /\ m \in Nat /\ Len(b) \in Nat
      BY <1>3, <1>5, <1>7, <1>t
    <3> HIDE DEF n, m, b
    <3> QED BY <3>1
  <2>3. rec \in Record
    <3> DEFINE e == end - 1
    <3>1. SubSeq(b, 0 + 1, e) \in Seq(Char)
      <4> HIDE DEF e, b
      <4>1. e \in Nat /\ 0 <= e /\ e <= Len(b)
        BY <2>2 DEF e
      <4> QED BY <1>t, <4>1, PartOf
    <3> QED BY <1>t, <3>1 DEF Record
  <2> DEFINE P == Append(R, Line(rec))
  <2>p. P \in Seq(Record) /\ Len(P) = t.seen + 1 /\ header' = HeadOf(P) /\ list'[gen] = TailOf(P)
    <3> HIDE DEF rec
    <3> QED BY <1>t, <1>4, <2>1, <2>3, PushKeeps
  <2>4. PICK Q \in Seq(Record) : /\ Q = P /\ Len(Q) = t.seen + 1
                                /\ header' = HeadOf(Q) /\ list'[gen] = TailOf(Q)
    <3> HIDE DEF P
    <3> QED BY <2>p
  <2>5. Cut(s)[k] = [lines |-> Q, rest |-> <<>>]
    BY <1>5, <1>7, <2>4
  <2>6. t'.buf = SubSeq(s, k + 1, m) /\ Len(t'.buf) = m - k
    <3>1. end \in 0 .. m - n
      BY <2>2
    <3>2. SubSeq(b, end + 1, Len(b)) = SubSeq(s, n + end + 1, m)
          /\ Len(SubSeq(b, end + 1, Len(b))) = m - (n + end)
      <4> HIDE DEF s, m, n, b
      <4> QED BY <1>t, <1>3, <3>1, BufferParts
    <3> QED BY <2>1, <3>2
  <2> HIDE DEF rec, P, k
  <2>7. Unsplit(Q)'
    <3>1. taken'[gen'] - Len(t'.buf) = k /\ text'[gen'] = s /\ taken'[gen'] = m
      BY <1>1, <2>2, <2>6
    <3>2. Q = Cut(s)[k].lines /\ <<>> = Cut(s)[k].rest
      <4> HIDE DEF s
      <4> QED BY <2>5
    <3> HIDE DEF s, m
    <3> QED BY <2>1, <2>2, <2>6, <3>1, <3>2 DEF Unsplit
  <2>8. ListIs(gen, Q)'
    <3>1. Q = Cut(s)[k].lines
      <4> HIDE DEF s
      <4> QED BY <2>5
    <3>2. Cutting(gen, Q)'
      BY <1>1, <1>2, <2>2, <3>1 DEF Cutting
    <3> QED BY <1>1, <2>4, <3>2 DEF ListIs, TailOf
  <2>9. t'.seen = Len(Q) /\ header' = HeadOf(Q)
    BY <2>1, <2>4
  <2>10. ReaderIs(Q)'
    BY <1>1, <1>2, <2>1, <2>7, <2>8, <2>9 DEF ReaderIs, Reading, HeadOf
  <2> QED BY <2>4, <2>10
<1> QED BY <1>6, <1>7

LEMMA ReaderEofOn ==
    ASSUME IInv, NEW R \in Seq(Record), ReaderIs(R), ReaderEof
    PROVE  \E Q \in Seq(Record) : ReaderIs(Q)'
<1> USE DEF sharedVars, sourceVars, cancelVars
<1> DEFINE s == text[gen]
           l == t.leftover
<1>t. /\ t \in ReaderThread /\ t.gen = gen /\ gen \in Gen /\ TypeOK
      /\ s \in Seq(Char) /\ Len(s) \in Nat /\ l \in Record
  BY DEF IInv, TypeOK, ReaderThread, Record
<1>1. /\ t.pc = "select" /\ taken[gen] = Len(s) /\ UNCHANGED <<kind, text, taken, gen>>
      /\ IF l = <<>>
         THEN t' = [t EXCEPT !.pc = "finish"] /\ UNCHANGED <<list, header>>
         ELSE t' = [t EXCEPT !.pc = "wake_finish", !.leftover = <<>>, !.seen = @ + 1] /\ Push(l, FALSE)
  BY <1>t DEF ReaderEof
<1>2. Unsplit(R) /\ kind[gen] # "walker" /\ ~t.cancelled /\ t.buf = <<>>
  BY <1>1 DEF ReaderIs, Reading
<1>3. R = Cut(s)[Len(s)].lines /\ l = Cut(s)[Len(s)].rest
  <2>1. Len(t.buf) = 0 /\ Len(s) - 0 = Len(s)
    BY <1>t, <1>2
  <2> QED BY <1>1, <1>2, <2>1 DEF Unsplit
<1>4. /\ t.seen = Len(R) /\ header = HeadOf(R) /\ list[gen] = TailOf(R) /\ Cutting(gen, R)
  BY DEF ReaderIs, ListIs, HeadOf, TailOf
<1>5. Records(gen) = R \o (IF l = <<>> THEN <<>> ELSE <<l>>)
  BY <1>2, <1>3 DEF Records
<1>6. Records(gen)' = Records(gen)
  BY <1>1 DEF Records
<1>7. CASE l = <<>>
  <2>1. /\ t'.pc = "finish" /\ t'.buf = <<>> /\ t'.seen = t.seen /\ t'.cancelled = t.cancelled
        /\ UNCHANGED <<list, header>>
    BY <1>t, <1>1, <1>2, <1>7 DEF ReaderThread
  <2>2. R = Records(gen)
    BY <1>5, <1>7
  <2>3. ListIs(gen, R)'
    BY <1>1, <2>1, SameCuts DEF ReaderIs
  <2>4. taken'[gen'] = Len(text'[gen']) /\ R = Records(gen)'
    BY <1>1, <1>6, <2>2
  <2>5. t'.seen = Len(R) /\ header' = HeadOf(R)
    BY <1>4, <2>1
  <2> HIDE DEF s, l
  <2>6. ReaderIs(R)'
    BY <1>1, <1>2, <2>1, <2>3, <2>4, <2>5 DEF ReaderIs, Reading, HeadOf
  <2> QED BY <2>6
<1>8. CASE l # <<>>
  <2>1. /\ t'.pc = "wake_finish" /\ t'.buf = <<>> /\ t'.seen = t.seen + 1 /\ t'.cancelled = t.cancelled
        /\ Push(l, FALSE)
    BY <1>t, <1>1, <1>2, <1>8 DEF ReaderThread
  <2> DEFINE P == Append(R, l)
  <2>2. P \in Seq(Record) /\ Len(P) = t.seen + 1 /\ header' = HeadOf(P) /\ list'[gen] = TailOf(P)
    <3> HIDE DEF l
    <3> QED BY <1>t, <1>4, <2>1, PushKeeps
  <2>3. P = Records(gen)
    <3>1. P = R \o <<l>>
      BY <1>t, AppendIsConcat
    <3> QED BY <1>5, <1>8, <3>1
  <2> HIDE DEF P
  <2>4. PICK Q \in Seq(Record) : Q = P
    BY <2>2
  <2>5. taken'[gen'] = Len(text'[gen']) /\ Q = Records(gen)'
    BY <1>1, <1>6, <2>3, <2>4
  <2>6. ListIs(gen, Q)'
    BY <1>1, <1>2, <2>2, <2>4, <2>5 DEF ListIs, Cutting, TailOf
  <2>7. t'.seen = Len(Q) /\ header' = HeadOf(Q)
    BY <2>1, <2>2, <2>4
  <2> HIDE DEF s, l
  <2>8. ReaderIs(Q)'
    BY <1>1, <1>2, <2>1, <2>5, <2>6, <2>7 DEF ReaderIs, Reading, HeadOf
  <2> QED BY <2>8
<1> QED BY <1>7, <1>8

LEMMA ReaderWalksOn ==
    ASSUME IInv, NEW R \in Seq(Record), ReaderIs(R), ReaderWalk
    PROVE  \E Q \in Seq(Record) : ReaderIs(Q)'
<1> USE DEF sharedVars, sourceVars, cancelVars
<1> DEFINE s == text[gen]
           m == taken[gen]
<1>t. /\ t \in ReaderThread /\ t.gen = gen /\ gen \in Gen /\ TypeOK
      /\ s \in Seq(Char) /\ Len(s) \in Nat /\ m \in Nat /\ m <= Len(s)
      /\ taken \in [Gen -> Nat] /\ walker_cancel \in BOOLEAN
  BY DEF IInv, TypeOK
<1>1. t.pc = "walk" /\ UNCHANGED <<kind, text, gen>>
  BY DEF ReaderWalk
<1>2. kind[gen] = "walker" /\ ~t.cancelled /\ t.buf = <<>>
  BY <1>1 DEF ReaderIs, Reading
<1>3. /\ t.seen = Len(R) /\ header = HeadOf(R) /\ list[gen] = TailOf(R)
      /\ R = [i \in 1 .. m |-> <<s[i]>>]
  BY <1>2 DEF ReaderIs, ListIs, Cutting, HeadOf, TailOf
<1>6. Records(gen)' = Records(gen)
  BY <1>1 DEF Records
<1>7. CASE /\ walker_cancel \/ Len(s) - m = 0
           /\ t' = [t EXCEPT !.pc = "finish", !.cancelled = walker_cancel]
           /\ UNCHANGED <<taken, list, header>>
  <2>1. /\ t'.pc = "finish" /\ t'.buf = <<>> /\ t'.seen = t.seen /\ t'.cancelled = walker_cancel
    BY <1>t, <1>2, <1>7 DEF ReaderThread
  <2>2. ~walker_cancel => m = Len(s) /\ R = Records(gen)
    <3>1. ~walker_cancel => m = Len(s)
      <4> HIDE DEF s, m
      <4> QED BY <1>t, <1>7
    <3> QED BY <1>2, <1>3, <3>1 DEF Records
  <2>3. ListIs(gen, R)'
    BY <1>1, <1>7, SameCuts DEF ReaderIs
  <2>4. ~walker_cancel => taken'[gen'] = Len(text'[gen']) /\ R = Records(gen)'
    BY <1>1, <1>6, <1>7, <2>2
  <2>5. t'.seen = Len(R) /\ header' = HeadOf(R)
    BY <1>3, <1>7, <2>1
  <2> HIDE DEF s, m
  <2>6. ReaderIs(R)'
    BY <1>1, <1>2, <2>1, <2>3, <2>4, <2>5 DEF ReaderIs, Reading, HeadOf
  <2> QED BY <2>6
<1>8. CASE /\ Len(s) - m > 0
           /\ Push(<<s[m + 1]>>, FALSE)
           /\ t' = [t EXCEPT !.pc = "wake_walk", !.seen = @ + 1]
           /\ taken' = [taken EXCEPT ![gen] = @ + 1]
  <2>1. /\ t'.pc = "wake_walk" /\ t'.buf = <<>> /\ t'.seen = t.seen + 1 /\ t'.cancelled = t.cancelled
    BY <1>t, <1>2, <1>8 DEF ReaderThread
  <2>2. m + 1 \in 1 .. Len(s) /\ taken'[gen] = m + 1 /\ <<s[m + 1]>> \in Record
    <3>1. m + 1 \in 1 .. Len(s)
      <4> HIDE DEF s, m
      <4> QED BY <1>t, <1>8
    <3>2. taken'[gen] = m + 1
      BY <1>t, <1>8
    <3> QED BY <1>t, <3>1, <3>2 DEF Record
  <2> DEFINE r == <<s[m + 1]>>
             P == Append(R, r)
  <2>3. P \in Seq(Record) /\ Len(P) = t.seen + 1 /\ header' = HeadOf(P) /\ list'[gen] = TailOf(P)
    <3>1. Push(r, FALSE) /\ r \in Record
      BY <1>8, <2>2
    <3> HIDE DEF r
    <3> QED BY <1>t, <1>3, <3>1, PushKeeps
  <2>4. P = [i \in 1 .. m + 1 |-> <<s[i]>>]
    <3> DEFINE F == [i \in 1 .. m + 1 |-> <<s[i]>>]
    <3>1. Len(R) = m /\ \A i \in 1 .. m : R[i] = <<s[i]>>
      <4> HIDE DEF s, m
      <4> QED BY <1>t, <1>3
    <3>2. F \in Seq(Record) /\ Len(F) = m + 1
      <4>1. \A i \in 1 .. m + 1 : <<s[i]>> \in Record
        <5>1. \A i \in 1 .. m + 1 : i \in 1 .. Len(s)
          <6> HIDE DEF s, m
          <6> QED BY <1>t, <2>2
        <5> QED BY <1>t, <5>1 DEF Record
      <4> HIDE DEF s, m
      <4> QED BY <1>t, <4>1
    <3>3. Len(P) = m + 1 /\ P[m + 1] = r /\ \A i \in 1 .. m : P[i] = R[i]
      <4>1. r \in Record
        BY <2>2
      <4> HIDE DEF r, m
      <4> QED BY <3>1, <4>1
    <3>4. \A i \in 1 .. m + 1 : P[i] = F[i]
      <4>1. \A i \in 1 .. m + 1 : i \in 1 .. m \/ i = m + 1
        <5> HIDE DEF m
        <5> QED BY <1>t
      <4> HIDE DEF P, m, s
      <4> QED BY <3>1, <3>3, <4>1 DEF r
    <3> HIDE DEF P, F
    <3>5. P = F
      BY <2>3, <3>2, <3>3, <3>4, SeqEqual
    <3> QED BY <3>5 DEF F
  <2> HIDE DEF P, r
  <2>5. PICK Q \in Seq(Record) : Q = P
    BY <2>3
  <2>6. ListIs(gen, Q)'
    <3>1. Cutting(gen, Q)'
      <4>1. kind'[gen'] = "walker" /\ text'[gen'] = s /\ taken'[gen'] = m + 1
        BY <1>1, <1>2, <2>2
      <4> HIDE DEF s, m
      <4> QED BY <2>4, <2>5, <4>1 DEF Cutting
    <3> QED BY <1>1, <2>3, <2>5, <3>1 DEF ListIs, TailOf
  <2>7. t'.seen = Len(Q) /\ header' = HeadOf(Q) /\ kind'[gen'] = "walker"
    BY <1>1, <1>2, <2>1, <2>3, <2>5
  <2> HIDE DEF s, m
  <2>8. ReaderIs(Q)'
    BY <1>2, <2>1, <2>6, <2>7 DEF ReaderIs, Reading, HeadOf
  <2> QED BY <2>8
<1> QED BY <1>t, <1>7, <1>8 DEF ReaderWalk

\* The steps of the reader that push nothing.
LEMMA ReaderRestKeeps ==
    ASSUME IInv, NEW R \in Seq(Record), ReaderIs(R),
           ReaderCancelled \/ ReaderWake \/ ReaderFinish \/ ReaderKill \/ ReaderReap \/ ReaderStore \/ ReaderNote
    PROVE  ReaderIs(R)'
<1> USE DEF sharedVars, sourceVars, cancelVars
<1>t. t \in ReaderThread /\ t.gen = gen /\ gen \in Gen
  BY DEF IInv, TypeOK
<1>1. UNCHANGED <<text, taken, kind, list, gen, header>>
  BY DEF ReaderCancelled, ReaderWake, ReaderFinish, ReaderKill, ReaderReap, ReaderStore, ReaderNote
<1>2. t'.buf = t.buf /\ t'.leftover = t.leftover /\ t'.seen = t.seen
  BY <1>t DEF ReaderCancelled, ReaderWake, ReaderFinish, ReaderKill, ReaderReap, ReaderStore, ReaderNote,
              ReaderThread
<1>3. /\ t'.pc \in Reading => t.pc \in Reading /\ t'.cancelled = t.cancelled
      /\ t'.pc \in {"select", "split", "wake_split"} <=> t'.pc = "split" /\ t.pc = "wake_split"
      /\ t'.pc \in {"walk", "wake_walk"} => t'.pc = "walk" /\ t.pc = "wake_walk"
      /\ t'.pc \in {"split", "wake_split"} \/ t.pc \notin {"split", "wake_split"}
      /\ t'.pc # "wake_finish"
      /\ t'.pc \notin Reading /\ ~t'.cancelled => t.pc \notin Reading /\ ~t.cancelled
  <2>1. CASE ReaderCancelled
    BY <1>t, <2>1 DEF ReaderCancelled, ReaderThread, Reading
  <2>2. CASE ReaderWake
    <3>1. t'.pc = WakePcs[t.pc] /\ t.pc \in {"wake_split", "wake_walk", "wake_finish", "wake_done"}
          /\ t'.cancelled = t.cancelled
      BY <2>2, <1>t, WakePcsIs DEF ReaderWake, ReaderThread
    <3> QED BY <3>1, WakePcsIs DEF Reading
  <2>3. CASE ReaderFinish
    BY <1>t, <2>3 DEF ReaderFinish, ReaderThread, Reading
  <2>4. CASE ReaderKill \/ ReaderReap \/ ReaderStore \/ ReaderNote
    <3>1. t.pc \in {"kill", "reap", "store", "store_failed", "note", "note_failed"}
          /\ t'.pc \in {"reap", "store", "store_failed", "note", "note_failed", "wake_done"}
          /\ t'.cancelled = t.cancelled
      BY <1>t, <2>4 DEF ReaderKill, ReaderReap, ReaderStore, ReaderNote, ReaderThread
    <3> QED BY <3>1 DEF Reading
  <2> QED BY <2>1, <2>2, <2>3, <2>4
<1>4. ListIs(gen, R)' /\ (Unsplit(R) => Unsplit(R)') /\ Records(gen)' = Records(gen)
  BY <1>1, <1>2, SameCuts DEF ReaderIs
<1>5. t'.seen = Len(R) /\ header' = HeadOf(R)
  BY <1>1, <1>2 DEF ReaderIs, HeadOf
<1>6. t'.pc \in {"select", "split", "wake_split"} => Unsplit(R)' /\ kind'[gen'] # "walker"
  BY <1>1, <1>3, <1>4 DEF ReaderIs
<1>7. t'.pc \in {"walk", "wake_walk"} => kind'[gen'] = "walker"
  BY <1>1, <1>3 DEF ReaderIs
<1>8. t'.pc \notin {"split", "wake_split"} => t'.buf = <<>>
  BY <1>2, <1>3 DEF ReaderIs
<1>9. t'.pc \in Reading \cup {"wake_finish"} => ~t'.cancelled
  BY <1>3 DEF ReaderIs
<1>10. t'.pc \notin Reading /\ ~t'.cancelled => taken'[gen'] = Len(text'[gen']) /\ R = Records(gen)'
  BY <1>1, <1>3, <1>4 DEF ReaderIs
<1> QED BY <1>4, <1>5, <1>6, <1>7, <1>8, <1>9, <1>10 DEF ReaderIs, HeadOf

LEMMA ReaderKeepsRecords ==
    ASSUME IInv, RecordsAgree, Reader
    PROVE  RecordsAgree'
<1> USE DEF sharedVars, sourceVars, cancelVars
<1>t. /\ t \in ReaderThread /\ t.gen = gen /\ gen \in Gen
      /\ list \in [Gen -> Seq(Record)] /\ taken \in [Gen -> Nat]
  BY DEF IInv, TypeOK
<1>1. PICK R \in Seq(Record) : ReaderIs(R)
  BY DEF RecordsAgree
<1>2. \E Q \in Seq(Record) : ReaderIs(Q)'
  BY <1>1, ReaderCutsOn, ReaderSplitsOn, ReaderEofOn, ReaderWalksOn, ReaderRestKeeps DEF Reader
<1>3. /\ UNCHANGED <<text, kind, gen>>
      /\ \A g \in Gen : g < gen => list'[g] = list[g] /\ taken'[g] = taken[g]
  <2>0. \A g \in Gen : g < gen => g # gen
    BY <1>t DEF Gen
  <2>1. ASSUME NEW rec, NEW delimited \in BOOLEAN, Push(rec, delimited)
        PROVE  \A g \in Gen : g # gen => list'[g] = list[g]
    BY <2>1, <1>t, PushIs
  <2>2. CASE ReaderRead \/ ReaderCancelled \/ ReaderFinish \/ ReaderKill \/ ReaderReap \/ ReaderStore
              \/ ReaderNote \/ ReaderWake
    BY <2>0, <2>2, <1>t DEF ReaderRead, ReaderCancelled, ReaderFinish, ReaderKill, ReaderReap, ReaderStore,
                      ReaderNote, ReaderWake
  <2>3. CASE ReaderEof
    <3>1. list' = list \/ Push(t.leftover, FALSE)
      BY <2>3 DEF ReaderEof
    <3> QED BY <3>1, <2>0, <2>1, <2>3 DEF ReaderEof
  <2>4. CASE ReaderSplit
    <3>1. list' = list \/ \E rec : Push(rec, TRUE)
      BY <2>4 DEF ReaderSplit
    <3> QED BY <3>1, <2>0, <2>1, <2>4 DEF ReaderSplit
  <2>5. CASE ReaderWalk
    <3>1. list' = list \/ \E rec : Push(rec, FALSE)
      BY <2>5 DEF ReaderWalk
    <3>2. \A g \in Gen : g # gen => taken'[g] = taken[g]
      BY <2>5, <1>t DEF ReaderWalk
    <3> QED BY <3>1, <3>2, <2>0, <2>1, <2>5 DEF ReaderWalk
  <2> QED BY <2>2, <2>3, <2>4, <2>5 DEF Reader
<1>4. \A g \in Gen : g < gen' => \E Q \in Seq(Record) : ListIs(g, Q)'
  <2> SUFFICES ASSUME NEW g \in Gen, g < gen PROVE \E Q \in Seq(Record) : ListIs(g, Q)'
    BY <1>3
  <2>1. PICK Q \in Seq(Record) : ListIs(g, Q)
    BY DEF RecordsAgree
  <2>2. Records(g)' = Records(g)
    BY <1>3 DEF Records
  <2>3. ListIs(g, Q)'
    BY <1>3, <2>1, <2>2 DEF ListIs, Cutting
  <2> QED BY <2>3
<1> QED BY <1>2, <1>4 DEF RecordsAgree

\* A source that fails changes no record made so far.
LEMMA SourceKeepsRecords ==
    ASSUME IInv, RecordsAgree, NEW g \in Gen, Source(g)
    PROVE  RecordsAgree'
<1> USE DEF sharedVars, sourceVars, cancelVars
<1>f. TypeOK
  BY DEF IInv
<1>t. gen \in Gen /\ t.gen = gen /\ t.buf \in Seq(Char) /\ taken[gen] \in Nat /\ Len(t.buf) \in Nat
      /\ text[gen] \in Seq(Char) /\ taken[gen] <= Len(text[gen]) /\ Len(text[gen]) \in Nat
  BY <1>f DEF TypeOK, ReaderThread
<1>1. taken' = taken /\ list' = list /\ kind' = kind /\ gen' = gen /\ t' = t /\ header' = header
  BY DEF Source, SetGroup, Exit
<1>2. ASSUME NEW h \in Gen, NEW R \in Seq(Record), ListIs(h, R) PROVE ListIs(h, R)'
  BY <1>1, <1>2, <1>f, CuttingKept DEF ListIs
<1>3. PICK R \in Seq(Record) : ReaderIs(R)
  BY DEF RecordsAgree
<1>4. PICK h \in Gen : h = gen
  BY <1>t
<1>5. /\ text'[h] \in Seq(Char) /\ taken[h] <= Len(text'[h])
      /\ \A n \in 0 .. taken[h] : Cut(text'[h])[n] = Cut(text[h])[n]
      /\ \A i \in 1 .. taken[h] : text'[h][i] = text[h][i]
      /\ taken[h] = Len(text[h]) => text'[h] = text[h]
  BY <1>f, SourceKeepsCuts
<1>6. ListIs(gen, R)'
  <2>1. ListIs(h, R)'
    BY <1>2, <1>3, <1>4 DEF ReaderIs
  <2> QED BY <1>1, <1>4, <2>1 DEF ListIs, Cutting, Records
<1>7. Unsplit(R) => Unsplit(R)'
  <2> SUFFICES ASSUME Unsplit(R) PROVE Unsplit(R)'
    OBVIOUS
  <2> DEFINE s == text[h]
             u == text'[h]
             m == taken[h]
             n == m - Len(t.buf)
  <2>1. /\ n \in Nat /\ n <= m /\ m \in Nat /\ n \in 0 .. m
        /\ R = Cut(s)[n].lines /\ t.leftover = Cut(s)[n].rest /\ t.buf = SubSeq(s, n + 1, m)
    BY <1>4, <1>t DEF Unsplit
  <2>2. R = Cut(u)[n].lines /\ t.leftover = Cut(u)[n].rest
    BY <1>5, <2>1
  <2>3. SubSeq(u, n + 1, m) = SubSeq(s, n + 1, m)
    <3>0. s \in Seq(Char) /\ u \in Seq(Char) /\ m <= Len(s) /\ m <= Len(u)
          /\ \A i \in 1 .. m : u[i] = s[i]
      BY <1>4, <1>5, <1>t
    <3>3. n \in Nat /\ m \in Nat /\ n <= m
      BY <2>1
    <3> HIDE DEF s, u, n, m
    <3>1. /\ SubSeq(s, n + 1, m) \in Seq(Char) /\ Len(SubSeq(s, n + 1, m)) = m - n
          /\ \A i \in 1 .. m - n : SubSeq(s, n + 1, m)[i] = s[n + i]
      BY <3>0, <3>3, PartOf
    <3>2. /\ SubSeq(u, n + 1, m) \in Seq(Char) /\ Len(SubSeq(u, n + 1, m)) = m - n
          /\ \A i \in 1 .. m - n : SubSeq(u, n + 1, m)[i] = u[n + i]
      BY <3>0, <3>3, PartOf
    <3>4. \A i \in 1 .. m - n : n + i \in 1 .. m
      BY <3>3
    <3>5. \A i \in 1 .. m - n : SubSeq(u, n + 1, m)[i] = SubSeq(s, n + 1, m)[i]
      BY <3>0, <3>1, <3>2, <3>4
    <3> QED BY <3>1, <3>2, <3>5, SeqEqual
  <2>4. text'[gen'] = u /\ taken'[gen'] = m /\ taken'[gen'] - Len(t'.buf) = n
    BY <1>1, <1>4
  <2> HIDE DEF s, u, n, m
  <2> QED BY <1>1, <2>1, <2>2, <2>3, <2>4 DEF Unsplit
<1>8. taken[gen] = Len(text[gen]) => taken'[gen'] = Len(text'[gen']) /\ Records(gen)' = Records(gen)
  BY <1>1, <1>4, <1>5 DEF Records
<1>9. ReaderIs(R)'
  BY <1>1, <1>3, <1>6, <1>7, <1>8 DEF ReaderIs
<1>10. \A k \in Gen : k < gen' => \E Q \in Seq(Record) : ListIs(k, Q)'
  BY <1>1, <1>2 DEF RecordsAgree
<1> QED BY <1>9, <1>10 DEF RecordsAgree

\* The main loop leaves the records alone, but for a reload: what the list before
\* it holds stays, and the next one begins with nothing.
LEMMA LoopKeepsRecords ==
    ASSUME IInv, RecordsAgree,
           Boot \/ Progress \/ Cancel \/ (\E sync \in BOOLEAN : UIReload(sync))
    PROVE  RecordsAgree'
<1> USE DEF sharedVars, sourceVars, cancelVars, uiUnchanged, Go
<1>1. CASE ~UISpawn
  <2>1. UNCHANGED <<text, taken, kind, list, gen, header, t>>
    BY <1>1 DEF Boot, UIBootHeader, UIBootCount, UIBootFinished, Progress, UIDrain, UIAck, UIList,
                UICount, UIFinished, UICopy, Cancel, UICancel, UILoadPid, UIKill, UIJoin, UIReload
  <2>2. PICK R \in Seq(Record) : ReaderIs(R)
    BY DEF RecordsAgree
  <2>3. ListIs(gen, R)' /\ (Unsplit(R) => Unsplit(R)') /\ Records(gen)' = Records(gen)
    BY <2>1, <2>2, SameCuts DEF ReaderIs
  <2>4. ReaderIs(R)'
    BY <2>1, <2>2, <2>3 DEF ReaderIs
  <2>5. \A g \in Gen : g < gen' => \E Q \in Seq(Record) : ListIs(g, Q)'
    BY <2>1, SameCuts DEF RecordsAgree
  <2> QED BY <2>4, <2>5 DEF RecordsAgree
<1>2. CASE UISpawn
  <2>t. /\ gen \in Gen /\ kind \in [Gen -> {"fd", "command", "walker", "none"}]
        /\ text \in [Gen -> Seq(Char)] /\ FutureAgrees /\ CancelAgrees
    BY DEF IInv, TypeOK
  <2>1. PICK g \in Gen : g = gen + 1
    BY <1>2, <2>t, ReaderAssumption DEF UISpawn, CancelAgrees, CancelPcs, Gen
  <2>2. PICK ok \in BOOLEAN, s \in Texts :
             /\ kind' = [kind EXCEPT ![g] = "command"]
             /\ text' = [text EXCEPT ![g] = IF ok THEN s ELSE <<>>]
             /\ t' = Thread(IF ok THEN "select" ELSE "done", g)
    BY <1>2, <2>1 DEF UISpawn
  <2>3. gen' = g /\ header' = <<>> /\ UNCHANGED <<taken, list>>
    BY <1>2, <2>1 DEF UISpawn
  <2>4. /\ text'[g] \in Seq(Char) /\ kind'[g] = "command" /\ taken'[g] = 0 /\ list'[g] = <<>>
        /\ ~ok => text'[g] = <<>>
    <3>1. g > gen
      BY <2>t, <2>1 DEF Gen
    <3>2. s \in Seq(Char) /\ <<>> \in Seq(Char)
      BY TextsAssumption
    <3> QED BY <2>t, <2>2, <2>3, <3>1, <3>2 DEF FutureAgrees
  <2>5. t' = Thread(IF ok THEN "select" ELSE "done", g)
    BY <2>2
  <2>6. ListIs(gen, <<>>)'
    <3>1. Cut(text'[g])[0].lines = <<>> /\ 0 \in 0 .. 0
      BY <2>4, Empties
    <3>2. Cutting(gen, <<>>)'
      BY <2>3, <2>4, <3>1 DEF Cutting
    <3> QED BY <2>3, <2>4, <3>2, Empties DEF ListIs, TailOf
  <2>7. Unsplit(<<>>)'
    <3>1. t'.buf = <<>> /\ t'.leftover = <<>> /\ Len(t'.buf) = 0
      BY <2>5 DEF Thread
    <3>2. taken'[gen'] - Len(t'.buf) = 0 /\ text'[gen'] = text'[g] /\ taken'[gen'] = 0
      <4>1. taken'[gen'] = 0 /\ text'[gen'] = text'[g]
        BY <2>3, <2>4
      <4>2. taken'[gen'] - Len(t'.buf) = 0 - 0
        BY <3>1, <4>1
      <4> QED BY <4>1, <4>2
    <3>3. SubSeq(text'[g], 0 + 1, 0) = <<>>
      <4> DEFINE u == text'[g]
      <4>1. u \in Seq(Char)
        BY <2>4
      <4> HIDE DEF u
      <4>2. SubSeq(u, 0 + 1, 0) \in Seq(Char) /\ Len(SubSeq(u, 0 + 1, 0)) = 0 - 0
        BY <4>1, PartOf
      <4> QED BY <4>2 DEF u
    <3> QED BY <2>4, <3>1, <3>2, <3>3, Empties DEF Unsplit
  <2>8. ~ok => Records(gen)' = <<>> /\ Len(text'[gen']) = 0
    <3> SUFFICES ASSUME ~ok PROVE Records(gen)' = <<>> /\ Len(text'[gen']) = 0
      OBVIOUS
    <3>1. text'[gen'] = <<>> /\ kind'[gen'] # "walker" /\ Len(text'[gen']) = 0
      BY <2>3, <2>4
    <3>2. Cut(text'[gen'])[0].lines = <<>> /\ Cut(text'[gen'])[0].rest = <<>>
      BY <2>3, <2>4, Empties
    <3>3. <<>> \o <<>> = <<>>
      OBVIOUS
    <3> QED BY <3>1, <3>2, <3>3 DEF Records
  <2>9. ReaderIs(<<>>)'
    <3>1. t'.seen = Len(<<>>) /\ header' = HeadOf(<<>>) /\ t'.buf = <<>> /\ ~t'.cancelled
      BY <2>3, <2>5, Empties DEF Thread
    <3>2. CASE ok
      <4>1. t'.pc = "select"
        BY <2>5, <3>2 DEF Thread
      <4> QED BY <2>3, <2>4, <2>6, <2>7, <3>1, <4>1 DEF ReaderIs, Reading, HeadOf
    <3>3. CASE ~ok
      <4>1. t'.pc = "done"
        BY <2>5, <3>3 DEF Thread
      <4> QED BY <2>3, <2>4, <2>6, <2>8, <3>1, <3>3, <4>1 DEF ReaderIs, Reading, HeadOf
    <3> QED BY <3>2, <3>3
  <2>10. \A h \in Gen : h < gen' => \E Q \in Seq(Record) : ListIs(h, Q)'
    <3> SUFFICES ASSUME NEW h \in Gen, h < g PROVE \E Q \in Seq(Record) : ListIs(h, Q)'
      BY <2>3
    <3>1. h < gen \/ h = gen
      BY <2>t, <2>1 DEF Gen
    <3>2. PICK Q \in Seq(Record) : ListIs(h, Q)
      BY <3>1 DEF RecordsAgree, ReaderIs
    <3>3. kind'[h] = kind[h] /\ text'[h] = text[h] /\ taken'[h] = taken[h] /\ list'[h] = list[h]
      <4>1. h # g
        BY DEF Gen
      <4> QED BY <2>t, <2>2, <2>3, <4>1
    <3>4. Records(h)' = Records(h)
      BY <3>3 DEF Records
    <3>5. ListIs(h, Q)'
      BY <3>2, <3>3, <3>4 DEF ListIs, Cutting
    <3> QED BY <3>5
  <2> QED BY <2>9, <2>10, Empties DEF RecordsAgree
<1> QED BY <1>1, <1>2

LEMMA InitRecords == Init => RecordsAgree
<1> SUFFICES ASSUME Init PROVE RecordsAgree
  OBVIOUS
<1> USE DEF sourceVars
<1>0. IInv /\ TypeOK
  BY InitIInv DEF IInv
<1>1. /\ gen = 1 /\ gen \in Gen /\ taken[gen] = 0 /\ list[gen] = <<>> /\ header = <<>>
      /\ text[gen] \in Seq(Char) /\ Len(text[gen]) \in Nat
  BY <1>0 DEF Init, TypeOK
<1>2. /\ t.seen = 0 /\ t.buf = <<>> /\ t.leftover = <<>> /\ ~t.cancelled /\ t.gen = 1
      /\ t.pc = IF kind[1] = "walker" THEN "walk" ELSE "select"
  <2>1. t = Thread(First(kind[1]), 1)
    BY DEF Init
  <2> QED BY <2>1 DEF Thread, First
<1>3. Cut(text[gen])[0].lines = <<>> /\ Cut(text[gen])[0].rest = <<>>
  BY <1>1, Empties
<1>4. ListIs(gen, <<>>)
  <2>1. [i \in 1 .. 0 |-> <<text[gen][i]>>] = <<>> /\ 0 \in 0 .. 0
    OBVIOUS
  <2>2. Cutting(gen, <<>>)
    BY <1>1, <1>3, <2>1 DEF Cutting
  <2> QED BY <1>1, <2>2, Empties DEF ListIs, TailOf
<1>5. Unsplit(<<>>)
  <2>1. SubSeq(text[gen], 0 + 1, 0) = <<>>
    <3>1. SubSeq(text[gen], 0 + 1, 0) \in Seq(Char) /\ Len(SubSeq(text[gen], 0 + 1, 0)) = 0 - 0
      BY <1>1, PartOf
    <3> QED BY <3>1
  <2>2. taken[gen] - Len(t.buf) = 0
    <3>1. Len(t.buf) = 0
      BY <1>2
    <3>2. taken[gen] - Len(t.buf) = 0 - 0
      BY <1>1, <3>1
    <3> QED BY <3>2
  <2> QED BY <1>1, <1>2, <1>3, <2>1, <2>2 DEF Unsplit
<1>6. t.seen = Len(<<>>) /\ header = HeadOf(<<>>)
  BY <1>1, <1>2, Empties
<1>7. ReaderIs(<<>>)
  BY <1>1, <1>2, <1>4, <1>5, <1>6 DEF ReaderIs, Reading, HeadOf
<1>8. \A g \in Gen : ~(g < gen)
  BY <1>1 DEF Gen
<1> QED BY <1>7, <1>8, Empties DEF RecordsAgree

LEMMA RecordsInductive == Spec => []RecordsAgree
<1>1. IInv /\ RecordsAgree /\ [Next]_vars => RecordsAgree'
  <2> SUFFICES ASSUME IInv, RecordsAgree, [Next]_vars PROVE RecordsAgree'
    OBVIOUS
  <2>1. CASE UNCHANGED vars
    <3>1. UNCHANGED <<text, taken, kind, list, gen, header, t>>
      BY <2>1 DEF vars
    <3>2. PICK R \in Seq(Record) : ReaderIs(R)
      BY DEF RecordsAgree
    <3>3. ListIs(gen, R)' /\ (Unsplit(R) => Unsplit(R)') /\ Records(gen)' = Records(gen)
      BY <3>1, <3>2, SameCuts DEF ReaderIs
    <3>4. ReaderIs(R)'
      BY <3>1, <3>2, <3>3 DEF ReaderIs
    <3>5. \A g \in Gen : g < gen' => \E Q \in Seq(Record) : ListIs(g, Q)'
      BY <3>1, SameCuts DEF RecordsAgree
    <3> QED BY <3>4, <3>5 DEF RecordsAgree
  <2> QED BY <2>1, ReaderKeepsRecords, SourceKeepsRecords, LoopKeepsRecords DEF Next
<1> QED BY <1>1, InitRecords, Inductive, PTL DEF Spec

\* However the bytes of a source are cut into reads, wherever a delimiter or a
\* carriage return falls, whenever the source ends, fails or is killed, and after
\* any number of reloads: a list and the header are a beginning of the records of
\* the text, in order, and all of them unless the reader was cancelled.
THEOREM AsSent == Spec => []RecordsAsSent
<1>1. IInv /\ RecordsAgree => RecordsAsSent
  <2> SUFFICES ASSUME IInv, RecordsAgree PROVE RecordsAsSent
    OBVIOUS
  <2>t. /\ gen \in Gen /\ TypeOK /\ ReaderAgrees /\ FutureAgrees
        /\ \A g \in Gen : text[g] \in Seq(Char) /\ taken[g] \in Nat /\ taken[g] <= Len(text[g])
                          /\ list[g] \in Seq(Record)
    BY DEF IInv, TypeOK
  <2>i. \A g \in Gen : ItemsOf(g) = TailOf(Records(g)) /\ HeaderOf(g) = HeadOf(Records(g))
    BY DEF ItemsOf, HeaderOf, TailOf, HeadOf
  <2>1. PICK R \in Seq(Record) : ReaderIs(R)
    BY DEF RecordsAgree
  <2>2. ASSUME NEW g \in Gen, NEW Q \in Seq(Record), ListIs(g, Q)
        PROVE  IsPrefix(TailOf(Q), ItemsOf(g)) /\ IsPrefix(HeadOf(Q), HeaderOf(g))
    <3>1. PICK X \in Seq(Record) : Records(g) = Q \o X
      BY <2>t, <2>2, CuttingBegins DEF ListIs
    <3> QED BY <2>i, <3>1, PartsBegin
  <2>3. ASSUME NEW g \in Gen PROVE IsPrefix(list[g], ItemsOf(g))
    <3>1. CASE g <= gen
      <4>1. g < gen \/ g = gen
        BY <2>t, <3>1 DEF Gen
      <4>2. PICK Q \in Seq(Record) : ListIs(g, Q)
        BY <2>1, <4>1 DEF RecordsAgree, ReaderIs
      <4> QED BY <2>2, <4>2 DEF ListIs, TailOf
    <3>2. CASE ~(g <= gen)
      <4>1. g > gen
        BY <2>t, <3>2 DEF Gen
      <4>2. list[g] = <<>>
        BY <4>1 DEF IInv, FutureAgrees
      <4>3. ItemsOf(g) \in Seq(Record)
        <5>1. Records(g) \in Seq(Record)
          BY <2>t, RecordsType
        <5> QED BY <2>i, <5>1, TailIs
      <4>4. IsPrefix(<<>>, ItemsOf(g))
        <5>1. Len(<<>>) = 0 /\ <<>> \in Seq(Record) /\ Len(ItemsOf(g)) \in Nat
          BY <4>3
        <5>2. Len(<<>>) <= Len(ItemsOf(g)) /\ \A i \in 1 .. Len(<<>>) : FALSE
          BY <5>1
        <5> QED BY <4>3, <5>1, <5>2, PrefixIf
      <4> QED BY <4>2, <4>4
    <3> QED BY <3>1, <3>2
  <2>4. IsPrefix(header, HeaderOf(gen))
    <3>1. ListIs(gen, R) /\ header = HeadOf(R)
      BY <2>1 DEF ReaderIs, HeadOf
    <3> QED BY <2>2, <2>t, <3>1
  <2>5. ASSUME finished[gen], ~t.cancelled PROVE list[gen] = ItemsOf(gen) /\ header = HeaderOf(gen)
    <3>1. t.pc \in PastFinish
      BY <2>t, <2>5 DEF ReaderAgrees
    <3>2. t.pc \notin Reading
      BY <3>1 DEF PastFinish, Reading
    <3>3. R = Records(gen) /\ list[gen] = TailOf(R) /\ header = HeadOf(R)
      BY <2>1, <2>5, <3>2 DEF ReaderIs, ListIs, TailOf, HeadOf
    <3> QED BY <2>i, <2>t, <3>3
  <2> QED BY <2>3, <2>4, <2>5 DEF RecordsAsSent
<1> QED BY <1>1, RecordsInductive, Inductive, PTL
=============================================================================
