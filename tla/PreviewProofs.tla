--------------------------- MODULE PreviewProofs ---------------------------
(***************************************************************************)
(* Theorems about the preview pane and its worker: for any number of       *)
(* items, pieces and inputs, what is handed over from a prefetch, and,     *)
(* without prefetching, what is cached and shown.                          *)
(***************************************************************************)
EXTENDS Preview, SequenceTheorems, WellFoundedInduction, TLAPS

-----------------------------------------------------------------------------
\* A set of naturals has a least member.
LEMMA NatLeast ==
    ASSUME NEW T, T \subseteq Nat, T # {}
    PROVE  \E m \in T : \A k \in T : m <= k
<1> DEFINE Less == {ss \in Nat \X Nat : ss[1] < ss[2]}
<1>1. IsWellFoundedOn(Less, Nat)
  BY NatLessThanWellFounded DEF OpToRel
<1>2. PICK m \in T : \A k \in T : ~ (<<k, m>> \in Less)
  BY <1>1, WFMin
<1>3. ASSUME NEW k \in T PROVE m <= k
  <2>1. m \in Nat /\ k \in Nat /\ ~ (<<k, m>> \in Less)
    BY <1>2
  <2> QED BY <2>1
<1> QED BY <1>3

-----------------------------------------------------------------------------
(* The cache is a sequence of entries of some set E, such as the whole ones; *)
(* what the UI thread does to it puts nothing else there.                    *)

Entry == [key : Cmd, text : Texts]

LEMMA CachedIs ==
    ASSUME NEW E, E \subseteq Entry, NEW s \in Seq(E), NEW k, IsCached(s, k)
    PROVE  /\ [key |-> k, text |-> Cached(s, k)] \in E
           /\ \E e \in ToSet(s) : e \in E /\ e.key = k /\ e.text = Cached(s, k)
<1> DEFINE found == CHOOSE e \in ToSet(s) : e.key = k
<1>1. found \in ToSet(s) /\ found.key = k
  BY DEF IsCached
<1>3. found.text = Cached(s, k)
  BY DEF Cached
<1> HIDE DEF found
<1>2. found \in E
  BY <1>1 DEF ToSet
<1>4. [key |-> k, text |-> found.text] = found
  BY <1>1, <1>2 DEF Entry
<1> QED BY <1>1, <1>2, <1>3, <1>4

LEMMA OthersType ==
    ASSUME NEW E, NEW s \in Seq(E), NEW k
    PROVE  Others(s, k) \in Seq(E)
<1>1. CASE IsCached(s, k)
  <2> DEFINE i == CHOOSE n \in DOMAIN s : s[n].key = k
  <2>1. \E n \in DOMAIN s : s[n].key = k
    BY <1>1 DEF IsCached, ToSet
  <2>2. i \in 1 .. Len(s)
    BY <2>1
  <2>3. Others(s, k) = RemoveAt(s, i)
    BY <1>1 DEF Others
  <2> HIDE DEF i
  <2>4. SubSeq(s, 1, i - 1) \in Seq(E) /\ SubSeq(s, i + 1, Len(s)) \in Seq(E)
    BY <2>2
  <2> QED BY <2>3, <2>4 DEF RemoveAt
<1>2. CASE ~IsCached(s, k)
  BY <1>2 DEF Others
<1> QED BY <1>1, <1>2

LEMMA TouchedType ==
    ASSUME NEW E, E \subseteq Entry, NEW s \in Seq(E), NEW k, IsCached(s, k)
    PROVE  Touched(s, k) \in Seq(E)
<1>1. [key |-> k, text |-> Cached(s, k)] \in E
  BY CachedIs
<1>2. Others(s, k) \in Seq(E)
  BY OthersType
<1> QED BY <1>1, <1>2 DEF Touched

LEMMA StoredType ==
    ASSUME NEW E, NEW s \in Seq(E), NEW e \in E
    PROVE  Stored(s, e) \in Seq(E)
<1> DEFINE all == <<e>> \o Others(s, e.key)
           n == IF Len(all) > CacheMax THEN CacheMax ELSE Len(all)
<1>1. all \in Seq(E) /\ n \in Nat /\ n <= Len(all)
  BY OthersType, PreviewAssumption
<1>2. Stored(s, e) = SubSeq(all, 1, n)
  BY DEF Stored
<1> HIDE DEF all, n
<1>3. SubSeq(all, 1, n) \in Seq(E)
  BY <1>1
<1> QED BY <1>2, <1>3

\* Moving an entry to the front keeps it.
LEMMA StillCached ==
    ASSUME NEW E, E \subseteq Entry, NEW s \in Seq(E), NEW k, IsCached(s, k)
    PROVE  IsCached(Touched(s, k), k)
<1> DEFINE e == [key |-> k, text |-> Cached(s, k)]
           rest == Others(s, k)
<1>1. e \in E /\ rest \in Seq(E)
  BY CachedIs, OthersType
<1>2. Touched(s, k) = <<e>> \o rest
  BY DEF Touched
<1>3. e.key = k
  OBVIOUS
<1> HIDE DEF e, rest
<1>4. Len(<<e>> \o rest) = 1 + Len(rest) /\ (<<e>> \o rest)[1] = e
  BY <1>1
<1>5. 1 \in DOMAIN (<<e>> \o rest)
  BY <1>1, <1>4
<1> QED BY <1>2, <1>3, <1>4, <1>5 DEF IsCached, ToSet

\* What a recursive function on 0 .. N computes exists.
FoldsTo(S, base, step, h, m) ==
    h \in [0 .. m -> S] /\ h[0] = base /\ \A n \in 1 .. m : h[n] = step[<<h[n - 1], n>>]

LEMMA FoldsOn ==
    ASSUME NEW S, NEW N \in Nat, NEW base \in S, NEW step \in [S \X (1 .. N) -> S],
           NEW k \in Nat, k + 1 \in 1 .. N, NEW g, FoldsTo(S, base, step, g, k)
    PROVE  FoldsTo(S, base, step,
                   [i \in 0 .. k + 1 |-> IF i = k + 1 THEN step[<<g[k], k + 1>>] ELSE g[i]], k + 1)
<1> DEFINE h == [i \in 0 .. k + 1 |-> IF i = k + 1 THEN step[<<g[k], k + 1>>] ELSE g[i]]
<1>1. k \in 0 .. k /\ g \in [0 .. k -> S] /\ g[0] = base
  BY DEF FoldsTo
<1>2. g[k] \in S /\ step[<<g[k], k + 1>>] \in S
  BY <1>1
<1>3. h \in [0 .. k + 1 -> S]
  BY <1>1, <1>2
<1>4. \A i \in 0 .. k : h[i] = g[i]
  OBVIOUS
<1>5. h[k + 1] = step[<<g[k], k + 1>>]
  OBVIOUS
<1> HIDE DEF h
<1>6. ASSUME NEW n \in 1 .. k + 1 PROVE h[n] = step[<<h[n - 1], n>>]
  <2>1. CASE n = k + 1
    BY <1>1, <1>4, <1>5, <2>1
  <2>2. CASE n # k + 1
    <3>1. n \in 1 .. k /\ n \in 0 .. k /\ n - 1 \in 0 .. k
      BY <2>2
    <3> QED BY <1>4, <3>1 DEF FoldsTo
  <2> QED BY <2>1, <2>2
<1>7. h[0] = base
  BY <1>1, <1>4
<1> QED BY <1>3, <1>6, <1>7 DEF FoldsTo, h

LEMMA FoldExists ==
    ASSUME NEW S, NEW N \in Nat, NEW base \in S, NEW step \in [S \X (1 .. N) -> S]
    PROVE  \E h : FoldsTo(S, base, step, h, N)
<1> DEFINE D == {m \in 0 .. N : ~ \E h : FoldsTo(S, base, step, h, m)}
<1>1. D = {}
  <2> SUFFICES ASSUME D # {} PROVE FALSE
    OBVIOUS
  <2>0. D \subseteq Nat
    OBVIOUS
  <2>1. PICK m \in D : \A k \in D : m <= k
    BY <2>0, NatLeast
  <2>2. m \in 0 .. N /\ ~ \E h : FoldsTo(S, base, step, h, m)
    OBVIOUS
  <2>3. CASE m = 0
    <3> DEFINE h == [i \in 0 .. 0 |-> base]
    <3>1. FoldsTo(S, base, step, h, 0)
      BY DEF FoldsTo
    <3> QED BY <2>2, <2>3, <3>1
  <2>4. CASE m # 0
    <3> DEFINE k == m - 1
    <3>1. k \in Nat /\ k \in 0 .. N /\ ~(m <= k) /\ k + 1 \in 1 .. N /\ k + 1 = m
      BY <2>2, <2>4
    <3>2. PICK g : FoldsTo(S, base, step, g, k)
      BY <2>1, <3>1
    <3> HIDE DEF k
    <3>3. \E h : FoldsTo(S, base, step, h, k + 1)
      BY <3>1, <3>2, FoldsOn
    <3> QED BY <2>2, <3>1, <3>3
  <2> QED BY <2>3, <2>4
<1> QED BY <1>1

LEMMA MergedType ==
    ASSUME NEW E, NEW s \in Seq(E), NEW entries \in Seq(E)
    PROVE  Merged(s, entries) \in Seq(E)
<1> DEFINE N == Len(entries)
           Step(h) == [n \in 0 .. N |-> IF n = 0 THEN s ELSE Stored(h[n - 1], entries[n])]
           f == CHOOSE h : h = Step(h)
           step == [x \in Seq(E) \X (1 .. N) |-> Stored(x[1], entries[x[2]])]
<1>0. N \in Nat /\ \A n \in 1 .. N : entries[n] \in E
  OBVIOUS
<1>1. \A x \in Seq(E) : \A n \in 1 .. N : Stored(x, entries[n]) \in Seq(E)
  BY <1>0, StoredType
<1>2. step \in [Seq(E) \X (1 .. N) -> Seq(E)]
  <2>1. ASSUME NEW x \in Seq(E) \X (1 .. N) PROVE Stored(x[1], entries[x[2]]) \in Seq(E)
    <3>1. x[1] \in Seq(E) /\ x[2] \in 1 .. N
      OBVIOUS
    <3> QED BY <1>1, <3>1
  <2> QED BY <2>1
<1>3. \A x \in Seq(E) : \A n \in 1 .. N : step[<<x, n>>] = Stored(x, entries[n])
  OBVIOUS
<1> HIDE DEF step, N
<1>4. PICK h : FoldsTo(Seq(E), s, step, h, N)
  BY <1>0, <1>2, FoldExists
<1>5. h = Step(h)
  <2>1. ASSUME NEW n \in 0 .. N
        PROVE  h[n] = IF n = 0 THEN s ELSE Stored(h[n - 1], entries[n])
    <3>1. CASE n = 0
      BY <1>4, <3>1 DEF FoldsTo
    <3>2. CASE n # 0
      <4>1. n \in 1 .. N /\ n - 1 \in 0 .. N
        BY <1>0, <3>2
      <4>2. h[n - 1] \in Seq(E)
        BY <1>4, <4>1 DEF FoldsTo
      <4> QED BY <1>3, <1>4, <3>2, <4>1, <4>2 DEF FoldsTo
    <3> QED BY <3>1, <3>2
  <2>2. h = [n \in 0 .. N |-> h[n]]
    BY <1>4 DEF FoldsTo
  <2> QED BY <2>1, <2>2
<1>6. f = Step(f)
  BY <1>5
<1>7. Merged(s, entries) = f[N]
  BY DEF Merged, N
<1> HIDE DEF f
<1>8. \A n \in 0 .. N : f[n] \in Seq(E)
  <2> DEFINE B == {n \in 0 .. N : f[n] \notin Seq(E)}
  <2> SUFFICES ASSUME B # {} PROVE FALSE
    OBVIOUS
  <2>0. B \subseteq Nat
    OBVIOUS
  <2>1. PICK m \in B : \A k \in B : m <= k
    BY <2>0, NatLeast
  <2>2. m \in 0 .. N /\ f[m] \notin Seq(E)
    OBVIOUS
  <2>3. CASE m = 0
    BY <1>6, <2>2, <2>3
  <2>4. CASE m # 0
    <3>1. m - 1 \in 0 .. N /\ ~(m <= m - 1) /\ m \in 1 .. N
      BY <1>0, <2>2, <2>4
    <3>2. f[m - 1] \in Seq(E)
      BY <2>1, <3>1
    <3> QED BY <1>1, <1>6, <2>2, <2>4, <3>1, <3>2
  <2> QED BY <2>3, <2>4
<1> QED BY <1>0, <1>7, <1>8

\* What schedule_prefetch() leaves.
Around(E) == [cache : Seq(E), jobs : Seq(Task)]

\* It looks at one neighbour.
LookAt(u, s, n) ==
    LET c == Neighbour(u.cy, n)
    IN  IF c \notin Cmd \/ c = u.key THEN s
        ELSE IF IsCached(s.cache, c)
        THEN [s EXCEPT !.cache = Touched(@, c)]
        ELSE [s EXCEPT !.jobs = Append(@, [cmd |-> c, size |-> u.size])]

LEMMA LookAtType ==
    ASSUME NEW E, E \subseteq Entry, NEW u, u.size \in Size, NEW n, NEW s \in Around(E)
    PROVE  LookAt(u, s, n) \in Around(E)
<1> DEFINE c == Neighbour(u.cy, n)
<1>1. CASE c \notin Cmd \/ c = u.key
  BY <1>1 DEF LookAt
<1>2. CASE c \in Cmd /\ c # u.key /\ IsCached(s.cache, c)
  <2> HIDE DEF c
  <2>1. s.cache \in Seq(E)
    BY DEF Around
  <2>2. Touched(s.cache, c) \in Seq(E)
    BY <1>2, <2>1, TouchedType
  <2>3. LookAt(u, s, n) = [s EXCEPT !.cache = Touched(s.cache, c)]
    BY <1>2 DEF LookAt, c
  <2> QED BY <2>2, <2>3 DEF Around
<1>3. CASE c \in Cmd /\ c # u.key /\ ~IsCached(s.cache, c)
  <2> HIDE DEF c
  <2>1. [cmd |-> c, size |-> u.size] \in Task
    BY <1>3 DEF Task
  <2>2. s.jobs \in Seq(Task)
    BY DEF Around
  <2>3. Append(s.jobs, [cmd |-> c, size |-> u.size]) \in Seq(Task)
    BY <2>1, <2>2
  <2>4. LookAt(u, s, n) = [s EXCEPT !.jobs = Append(s.jobs, [cmd |-> c, size |-> u.size])]
    BY <1>3 DEF LookAt, c
  <2> QED BY <2>3, <2>4 DEF Around
<1> QED BY <1>1, <1>2, <1>3

LEMMA LookedType ==
    ASSUME NEW E, E \subseteq Entry, NEW u, u.size \in Size, u.cache \in Seq(E)
    PROVE  Looked(u) \in Around(E)
<1> DEFINE N == 2 * PrefetchN
           base == [cache |-> u.cache, jobs |-> <<>>]
           Step(h) == [n \in 0 .. N |->
                          IF n = 0 THEN base
                          ELSE LET c == Neighbour(u.cy, n)
                               IN  IF c \notin Cmd \/ c = u.key THEN h[n - 1]
                                   ELSE IF IsCached(h[n - 1].cache, c)
                                   THEN [h[n - 1] EXCEPT !.cache = Touched(@, c)]
                                   ELSE [h[n - 1] EXCEPT !.jobs = Append(@, [cmd |-> c, size |-> u.size])]]
           f == CHOOSE h : h = Step(h)
           step == [x \in Around(E) \X (1 .. N) |-> LookAt(u, x[1], x[2])]
<1>0. N \in Nat
  BY PreviewAssumption
<1>a. base \in Around(E)
  <2>1. <<>> \in Seq(Task)
    OBVIOUS
  <2> QED BY <2>1 DEF Around
<1>b. Looked(u) = f[N]
  BY DEF Looked
<1>c. \A h : Step(h) = [n \in 0 .. N |-> IF n = 0 THEN base ELSE LookAt(u, h[n - 1], n)]
  BY DEF LookAt
<1> HIDE DEF N, base
<1>1. \A x \in Around(E) : \A n \in 1 .. N : LookAt(u, x, n) \in Around(E)
  BY LookAtType
<1>2. step \in [Around(E) \X (1 .. N) -> Around(E)]
  <2>1. ASSUME NEW x \in Around(E) \X (1 .. N) PROVE LookAt(u, x[1], x[2]) \in Around(E)
    <3>1. x[1] \in Around(E) /\ x[2] \in 1 .. N
      OBVIOUS
    <3> QED BY <1>1, <3>1
  <2> QED BY <2>1
<1>3. \A x \in Around(E) : \A n \in 1 .. N : step[<<x, n>>] = LookAt(u, x, n)
  OBVIOUS
<1> HIDE DEF step, Step
<1>4. PICK h : FoldsTo(Around(E), base, step, h, N)
  BY <1>0, <1>a, <1>2, FoldExists
<1>5. h = Step(h)
  <2>1. ASSUME NEW n \in 0 .. N
        PROVE  h[n] = IF n = 0 THEN base ELSE LookAt(u, h[n - 1], n)
    <3>1. CASE n = 0
      BY <1>4, <3>1 DEF FoldsTo
    <3>2. CASE n # 0
      <4>1. n \in 1 .. N /\ n - 1 \in 0 .. N
        BY <1>0, <3>2
      <4>2. h[n - 1] \in Around(E)
        BY <1>4, <4>1 DEF FoldsTo
      <4> QED BY <1>3, <1>4, <3>2, <4>1, <4>2 DEF FoldsTo
    <3> QED BY <3>1, <3>2
  <2>2. h = [n \in 0 .. N |-> h[n]]
    BY <1>4 DEF FoldsTo
  <2> QED BY <1>c, <2>1, <2>2
<1>6. f = Step(f)
  BY <1>5
<1> HIDE DEF f
<1>7. f = [n \in 0 .. N |-> IF n = 0 THEN base ELSE LookAt(u, f[n - 1], n)]
  BY <1>c, <1>6
<1>8. \A n \in 0 .. N : f[n] \in Around(E)
  <2> DEFINE B == {n \in 0 .. N : f[n] \notin Around(E)}
  <2> SUFFICES ASSUME B # {} PROVE FALSE
    OBVIOUS
  <2>0. B \subseteq Nat
    OBVIOUS
  <2>1. PICK m \in B : \A k \in B : m <= k
    BY <2>0, NatLeast
  <2>2. m \in 0 .. N /\ f[m] \notin Around(E)
    OBVIOUS
  <2>3. CASE m = 0
    BY <1>7, <1>a, <2>2, <2>3
  <2>4. CASE m # 0
    <3>1. m - 1 \in 0 .. N /\ ~(m <= m - 1) /\ m \in 1 .. N
      BY <1>0, <2>2, <2>4
    <3>2. f[m - 1] \in Around(E)
      BY <2>1, <3>1
    <3> QED BY <1>1, <1>7, <2>2, <2>4, <3>1, <3>2
  <2> QED BY <2>3, <2>4
<1> QED BY <1>0, <1>8, <1>b

-----------------------------------------------------------------------------
(* The inductive invariant. *)

UIPcs == {"batch", "paint", "select", "request", "request_kill", "cancel", "cancel_kill", "set",
          "stop", "stop_version", "stop_kill", "join", "exit"}
WorkerPcs == {"none", "wait", "spawn", "publish", "recheck", "open", "read", "promote", "adopt",
              "check", "show", "wake", "close", "kill", "reap", "finish", "final", "exit"}

TypeOK ==
    /\ mishaps \in MishapSets
    /\ mpc \in UIPcs /\ ui \in UI /\ inputs \in 0 .. MaxInputs
    /\ q \in Queue /\ version \in Versions /\ pid \in BOOLEAN /\ pipe \in BOOLEAN
    /\ content \in Content
    /\ wpc \in WorkerPcs /\ w \in Run /\ child \in Child

Flag(b) == IF b THEN 1 ELSE 0

\* The new versions that are due: the next one, and that of the refresh that the
\* end of the batch will find necessary.
Coming == mpc \in {"request", "cancel", "stop", "stop_version"}
Away == ui.cy # ui.focused \/ ui.touched
Due == Flag(Coming) + Flag(Away)

\* What only grows.
Bounds ==
    /\ version + Due <= inputs + 1
    /\ q.prefetch_gen <= version + inputs
    /\ ui.size <= inputs
    /\ w.version <= version /\ w.gen <= q.prefetch_gen
    /\ q.promoted <= version /\ content.version <= version

\* A run is under way; while it is, the worker takes no other.
Busy == wpc \notin {"none", "wait", "exit"} /\ ~(wpc = "wake" /\ w.left)

\* A kill that comes late hits no prefetch but one that is superseded: from the
\* lock to the kill there is nothing to prefetch.
QueueInv ==
    /\ PrefetchN = 0 => q.prefetch_queue = <<>> /\ ~w.prefetch /\ ~ui.prefetch_pending
    /\ mpc \in {"request", "request_kill", "cancel", "cancel_kill", "set"} => q.prefetch_queue = <<>>
    /\ mpc \in {"cancel_kill", "set"} => ~q.has_request
    /\ mpc \in {"stop_version", "stop_kill", "join", "exit"} <=> q.stop
    /\ mpc \in {"request_kill", "cancel_kill"} => "late_kill" \in mishaps
    /\ mpc \in {"cancel_kill", "set", "stop_kill"} => q.promoted < version
    /\ (Busy /\ mpc \in {"cancel_kill", "set", "stop_kill"}) => w.version # version
    /\ (Busy /\ w.prefetch /\ mpc = "request_kill") => w.version # version
    /\ (mpc \in {"cancel", "cancel_kill", "set"} /\ ui.plan = "cached") => IsCached(ui.cache, ui.cy)

\* The worker has a process.
HasChild ==
    Busy /\ wpc \notin {"spawn", "finish", "final"}

\* Where the worker stands with its process and the text it has read.
RunInv ==
    /\ IF HasChild THEN child.state # "none" /\ child.job = w.job ELSE child = NoChild
    /\ child.read <= child.printed
    /\ child.state = "quiet" => child.job.cmd \in Endless
    /\ child.job.cmd \in Endless => child.printed = 0
    /\ w.stale => w.left
    /\ w.left => wpc \in {"promote", "adopt", "check", "close", "kill", "reap", "finish", "final", "wake"}
    /\ wpc \in {"close", "kill", "reap", "finish", "final"} => w.left
    /\ wpc \in {"open", "adopt", "show", "final"} => ~w.prefetch
    /\ wpc = "promote" => w.prefetch
    /\ w.prefetch => w.job.cmd \in Cmd
    /\ wpc = "kill" => w.stale
    /\ wpc = "spawn" => w.acc = 0
    /\ (HasChild /\ ~w.stale /\ (w.left \/ wpc \notin {"promote", "adopt", "check"})) => w.acc = child.read
    /\ (HasChild /\ w.left /\ ~w.stale) =>
           child.state \in {"quiet", "dead"} /\ child.read = child.printed

\* Runs that nobody kills by mistake: those of a prefetch, until it is adopted, and
\* all of them if there is no prefetching and no late kill.
Spared == w.prefetch \/ (PrefetchN = 0 /\ "late_kill" \notin mishaps)

\* The process was killed before it had printed everything.
Hit == child.state = "dead" /\ (child.job.cmd \in Endless \/ child.printed < Parts)

WholeRun == w.acc = IF w.job.cmd \in Endless THEN 0 ELSE Parts

KillInv ==
    Spared /\ ~w.stale =>
        /\ HasChild /\ Hit => Superseded
        /\ wpc \in {"finish", "final"} /\ w.job.cmd \in Endless => Superseded
        /\ wpc \in {"close", "reap", "finish", "final"} => WholeRun

IInv == TypeOK /\ Bounds /\ QueueInv /\ RunInv /\ KillInv /\ PrefetchedIsWhole

-----------------------------------------------------------------------------
(* Types of what the actions compute. *)

LEMMA FlagIs == \A b : Flag(b) \in {0, 1}
BY DEF Flag

LEMMA TextType ==
    ASSUME NEW job \in Job, NEW n \in 0 .. Parts
    PROVE  Text(job, n) \in Texts /\ NoText \in Texts /\ FailText \in Texts
<1>1. NoText \in Texts /\ FailText \in Texts
  BY PreviewAssumption DEF NoText, FailText, Texts, None, Size
<1>2. CASE n = 0
  BY <1>1, <1>2 DEF Text
<1>3. CASE n # 0
  BY <1>1, <1>3 DEF Text, Texts, Job
<1> QED BY <1>1, <1>2, <1>3

\* What a step may assume of the values it starts from.
Typed ==
    /\ ui \in UI /\ ui.cache \in Seq(Entry) /\ ui.cy \in 0 .. Items /\ ui.size \in Size
    /\ ui.size \in Nat /\ ui.reqv \in Versions
    /\ q \in Queue /\ q.prefetched \in Seq(Entry) /\ q.prefetch_queue \in Seq(Task) /\ q.pending \in Job
    /\ q.prefetch_gen \in Nat /\ q.promoted \in Nat
    /\ version \in Nat /\ inputs \in Nat /\ inputs <= MaxInputs /\ MaxInputs \in Nat
    /\ content \in Content /\ content.version \in Nat /\ content.text \in Texts
    /\ w \in Run /\ w.version \in Nat /\ w.gen \in Nat /\ w.job \in Job /\ w.acc \in 0 .. Parts
    /\ child \in Child /\ child.printed \in 0 .. Parts /\ child.read \in 0 .. Parts /\ child.job \in Job
    /\ mpc \in UIPcs /\ wpc \in WorkerPcs /\ pid \in BOOLEAN /\ pipe \in BOOLEAN
    /\ Parts \in Nat \ {0} /\ Items \in Nat \ {0}

LEMMA TypeFacts == TypeOK => Typed
<1> SUFFICES ASSUME TypeOK PROVE Typed
  OBVIOUS
<1>1. MaxInputs \in Nat /\ Parts \in Nat \ {0} /\ Items \in Nat \ {0}
  BY PreviewAssumption
<1>2. version \in Nat /\ inputs \in Nat /\ inputs <= MaxInputs
  BY <1>1 DEF TypeOK, Versions
<1>3. ui.cache \in Seq(Entry) /\ ui.cy \in 0 .. Items /\ ui.size \in Size /\ ui.size \in Nat /\ ui.reqv \in Versions
  BY <1>1 DEF TypeOK, UI, Entry, Size
<1>4. /\ q.prefetched \in Seq(Entry) /\ q.prefetch_queue \in Seq(Task) /\ q.pending \in Job
      /\ q.prefetch_gen \in Nat /\ q.promoted \in Nat
  BY <1>1 DEF TypeOK, Queue, Entry, Versions
<1>5. content.version \in Nat /\ content.text \in Texts
  BY <1>1 DEF TypeOK, Content, Versions
<1>6. w.version \in Nat /\ w.gen \in Nat /\ w.job \in Job /\ w.acc \in 0 .. Parts
  BY <1>1 DEF TypeOK, Run, Versions
<1>7. child.printed \in 0 .. Parts /\ child.read \in 0 .. Parts /\ child.job \in Job
  BY DEF TypeOK, Child
<1> QED BY <1>1, <1>2, <1>3, <1>4, <1>5, <1>6, <1>7 DEF TypeOK, Typed

LEMMA BoundFacts ==
    ASSUME TypeOK, Bounds
    PROVE  /\ Flag(Coming) \in {0, 1} /\ Flag(Away) \in {0, 1}
           /\ version + Flag(Coming) + Flag(Away) <= inputs + 1
           /\ version <= inputs + 1 /\ q.prefetch_gen <= 2 * inputs + 1
           /\ inputs \in Nat /\ version \in Nat /\ q.prefetch_gen \in Nat
<1> DEFINE a == Flag(Coming)
           b == Flag(Away)
<1>1. a \in {0, 1} /\ b \in {0, 1}
  BY FlagIs
<1>2. version \in Nat /\ inputs \in Nat /\ q.prefetch_gen \in Nat
  BY TypeFacts DEF Typed
<1>3. version + (a + b) <= inputs + 1 /\ q.prefetch_gen <= version + inputs
  BY DEF Bounds, Due
<1> HIDE DEF a, b
<1>4. version + a + b <= inputs + 1 /\ version <= inputs + 1 /\ q.prefetch_gen <= 2 * inputs + 1
  BY <1>1, <1>2, <1>3
<1> QED BY <1>1, <1>2, <1>4 DEF a, b

\* What stays in the queue when a prefetch is stopped or planned.
SameRequest(s, t) ==
    /\ t.has_request = s.has_request /\ t.pending = s.pending /\ t.stop = s.stop
    /\ t.running_prefetch = s.running_prefetch /\ t.running_command = s.running_command
    /\ t.promoted = s.promoted

LEMMA ArmedIs ==
    ASSUME NEW s \in Queue
    PROVE  /\ Armed(s) \in Queue /\ SameRequest(s, Armed(s))
           /\ Armed(s).prefetched = s.prefetched /\ Armed(s).prefetch_gen = s.prefetch_gen
           /\ PrefetchN = 0 => Armed(s) = s
           /\ (PrefetchN = 0 => s.prefetch_queue = <<>>) => Armed(s).prefetch_queue = <<>>
<1>1. <<>> \in Seq(Task) /\ PrefetchN \in Nat
  BY PreviewAssumption
<1>2. CASE PrefetchN > 0
  <2>1. Armed(s) = [s EXCEPT !.prefetch_queue = <<>>]
    BY <1>2 DEF Armed
  <2>2. PrefetchN # 0
    BY <1>1, <1>2
  <2> QED BY <1>1, <2>1, <2>2 DEF Queue, SameRequest
<1>3. CASE ~(PrefetchN > 0)
  <2>1. Armed(s) = s /\ PrefetchN = 0
    BY <1>1, <1>3 DEF Armed
  <2> QED BY <2>1 DEF SameRequest
<1> QED BY <1>2, <1>3

LEMMA QuietIs ==
    ASSUME TypeOK, Bounds, inputs < MaxInputs
    PROVE  /\ Quiet \in Queue /\ SameRequest(q, Quiet)
           /\ Quiet.prefetched = q.prefetched
           /\ Quiet.prefetch_gen = IF Interrupted THEN q.prefetch_gen + 1 ELSE q.prefetch_gen
           /\ PrefetchN = 0 => Quiet = q
           /\ (PrefetchN = 0 => q.prefetch_queue = <<>>) => Quiet.prefetch_queue = <<>>
<1> DEFINE s == Armed(q)
<1>1. Typed
  BY TypeFacts
<1>2. s \in Queue /\ SameRequest(q, s) /\ s.prefetched = q.prefetched /\ s.prefetch_gen = q.prefetch_gen
      /\ (PrefetchN = 0 => s = q)
      /\ ((PrefetchN = 0 => q.prefetch_queue = <<>>) => s.prefetch_queue = <<>>)
  BY <1>1, ArmedIs DEF Typed
<1>3. CASE Interrupted
  <2>1. Quiet = [s EXCEPT !.prefetch_gen = s.prefetch_gen + 1]
    BY <1>3 DEF Quiet
  <2>2. s.prefetch_gen + 1 \in 0 .. 3 * MaxInputs + 3
    <3>1. q.prefetch_gen <= 2 * inputs + 1 /\ inputs \in Nat /\ q.prefetch_gen \in Nat /\ MaxInputs \in Nat
      BY BoundFacts, PreviewAssumption
    <3>2. s.prefetch_gen = q.prefetch_gen
      BY <1>2
    <3> HIDE DEF s
    <3> QED BY <3>1, <3>2
  <2>3. PrefetchN # 0
    BY <1>3, PreviewAssumption DEF Interrupted
  <2> HIDE DEF s
  <2> QED BY <1>2, <1>3, <2>1, <2>2, <2>3 DEF Queue, SameRequest
<1>4. CASE ~Interrupted
  <2>1. Quiet = s
    BY <1>4 DEF Quiet
  <2> QED BY <1>2, <1>4, <2>1
<1> QED BY <1>3, <1>4

\* What refresh_preview() does on the UI thread.
SamePane(u, v) ==
    /\ v.cy = u.cy /\ v.focused = u.focused /\ v.touched = u.touched /\ v.can = u.can
    /\ v.hidden = u.hidden /\ v.size = u.size /\ v.key = u.key /\ v.reqv = u.reqv
    /\ v.shown = u.shown

LEMMA RefreshedIs ==
    ASSUME NEW u \in UI, NEW bypass, NEW back \in {"batch", "paint"}
    PROVE  /\ Refreshed(u, bypass, back) \in UI /\ SamePane(u, Refreshed(u, bypass, back))
           /\ Refreshed(u, bypass, back).dirty = TRUE /\ Refreshed(u, bypass, back).back = back
           /\ Refreshed(u, bypass, back).plan = Plan(u, bypass)
           /\ PrefetchN = 0 => Refreshed(u, bypass, back).prefetch_pending = u.prefetch_pending
           /\ Plan(u, bypass) = "cached" => IsCached(Refreshed(u, bypass, back).cache, u.cy)
           /\ \A E \in SUBSET Entry : u.cache \in Seq(E) => Refreshed(u, bypass, back).cache \in Seq(E)
           /\ u.cache = <<>> => Refreshed(u, bypass, back).cache = <<>>
<1> DEFINE cache == IF Plan(u, bypass) = "cached" THEN Touched(u.cache, u.cy) ELSE u.cache
           pending == PrefetchN > 0 \/ u.prefetch_pending
           v == [u EXCEPT !.dirty = TRUE, !.prefetch_pending = pending,
                          !.plan = Plan(u, bypass), !.back = back, !.cache = cache]
<1>1. Refreshed(u, bypass, back) = v
  BY DEF Refreshed
<1>2. u.cache \in Seq(Entry) /\ u.prefetch_pending \in BOOLEAN
  BY DEF UI, Entry
<1>3. Plan(u, bypass) = "cached" => IsCached(u.cache, u.cy)
  BY DEF Plan
<1>4. \A E \in SUBSET Entry : u.cache \in Seq(E) => cache \in Seq(E)
  BY <1>3, TouchedType
<1>5. Plan(u, bypass) = "cached" => IsCached(cache, u.cy)
  BY <1>2, <1>3, StillCached
<1>6. u.cache = <<>> => cache = <<>>
  <2>1. u.cache = <<>> => ~IsCached(u.cache, u.cy)
    BY DEF IsCached, ToSet
  <2> QED BY <1>3, <2>1
<1>7. cache \in Seq(Entry)
  BY <1>2, <1>4
<1>8. pending \in BOOLEAN /\ (PrefetchN = 0 => pending = u.prefetch_pending)
  BY <1>2
<1>9. Plan(u, bypass) \in {"none", "request", "cached", "blank", "hide"}
  BY DEF Plan
<1> HIDE DEF cache, pending
<1>10. v \in UI
  BY <1>7, <1>8, <1>9 DEF UI, Entry
<1> QED BY <1>1, <1>4, <1>5, <1>6, <1>8, <1>10 DEF UI, SamePane

\* A kill leaves the rest of the process as it is.
LEMMA KilledIs ==
    ASSUME NEW p \in Child
    PROVE  /\ Killed(p) \in Child
           /\ Killed(p).job = p.job /\ Killed(p).printed = p.printed /\ Killed(p).read = p.read
           /\ Killed(p).state = IF p.state \in {"run", "quiet"} THEN "dead" ELSE p.state
           /\ p.state \notin {"run", "quiet"} => Killed(p) = p
BY DEF Killed, Child

\* What a step that calls refresh_preview() on u and s leaves, until the worker
\* is called.
Refreshes(u, s, back) ==
    /\ ui' \in UI /\ SamePane(u, ui')
    /\ q' \in Queue /\ SameRequest(s, q')
    /\ q'.prefetched = s.prefetched /\ q'.prefetch_gen = s.prefetch_gen
    /\ PrefetchN = 0 => q' = s /\ ui'.prefetch_pending = u.prefetch_pending
    /\ u.hidden => ui' = u /\ mpc' = back
    /\ ~u.hidden =>
          /\ ui'.dirty /\ ui'.back = back /\ q'.prefetch_queue = <<>>
          /\ \/ mpc' = "request" /\ u.cy # None
             \/ mpc' = "cancel" /\ ui'.plan = "cached" /\ u.cy # None /\ IsCached(ui'.cache, u.cy)
             \/ mpc' = "cancel" /\ ui'.plan = "blank" /\ u.cy = None
    /\ \A E \in SUBSET Entry : u.cache \in Seq(E) => ui'.cache \in Seq(E)
    /\ u.cache = <<>> => ui'.cache = <<>>

LEMMA RefreshIs ==
    ASSUME NEW u \in UI, NEW s \in Queue, NEW bypass \in BOOLEAN, NEW back \in {"batch", "paint"},
           PrefetchN = 0 => s.prefetch_queue = <<>>, Refresh(u, s, bypass, back)
    PROVE  Refreshes(u, s, back)
<1>1. CASE u.hidden
  <2>1. ui' = u /\ q' = s /\ mpc' = back
    BY <1>1 DEF Refresh
  <2> QED BY <1>1, <2>1 DEF Refreshes, SamePane, SameRequest
<1>2. CASE ~u.hidden
  <2>1. ui' = Refreshed(u, bypass, back) /\ q' = Armed(s)
        /\ mpc' = IF Plan(u, bypass) = "request" THEN "request" ELSE "cancel"
    BY <1>2 DEF Refresh
  <2>2. /\ ui' \in UI /\ SamePane(u, ui') /\ ui'.dirty = TRUE /\ ui'.back = back
        /\ ui'.plan = Plan(u, bypass)
        /\ PrefetchN = 0 => ui'.prefetch_pending = u.prefetch_pending
        /\ Plan(u, bypass) = "cached" => IsCached(ui'.cache, u.cy)
        /\ \A E \in SUBSET Entry : u.cache \in Seq(E) => ui'.cache \in Seq(E)
        /\ u.cache = <<>> => ui'.cache = <<>>
    BY <2>1, RefreshedIs
  <2>3. /\ q' \in Queue /\ SameRequest(s, q')
        /\ q'.prefetched = s.prefetched /\ q'.prefetch_gen = s.prefetch_gen
        /\ PrefetchN = 0 => q' = s
        /\ q'.prefetch_queue = <<>>
    BY <2>1, ArmedIs
  <2>4. CASE Plan(u, bypass) = "request"
    <3>1. u.cy # None /\ mpc' = "request"
      BY <2>1, <2>4 DEF Plan
    <3> QED BY <1>2, <2>2, <2>3, <3>1 DEF Refreshes
  <2>5. CASE Plan(u, bypass) = "cached"
    <3>1. u.cy # None /\ mpc' = "cancel"
      BY <2>1, <2>5 DEF Plan
    <3> QED BY <1>2, <2>2, <2>3, <2>5, <3>1 DEF Refreshes
  <2>6. CASE Plan(u, bypass) = "blank"
    <3>1. u.cy = None /\ mpc' = "cancel"
      BY <2>1, <2>6 DEF Plan
    <3> QED BY <1>2, <2>2, <2>3, <2>6, <3>1 DEF Refreshes
  <2>7. Plan(u, bypass) \in {"request", "cached", "blank"}
    BY DEF Plan
  <2> QED BY <2>4, <2>5, <2>6, <2>7
<1> QED BY <1>1, <1>2

LEMMA RearmedIs ==
    ASSUME NEW u \in UI
    PROVE  /\ Rearmed(u) \in UI /\ SamePane(u, Rearmed(u))
           /\ Rearmed(u).dirty = u.dirty /\ Rearmed(u).cache = u.cache /\ Rearmed(u).back = u.back
           /\ Rearmed(u).plan = u.plan
           /\ PrefetchN = 0 => Rearmed(u).prefetch_pending = u.prefetch_pending
<1> DEFINE p == PrefetchN > 0 \/ u.prefetch_pending
<1>1. Rearmed(u) = [u EXCEPT !.prefetch_pending = p]
  BY DEF Rearmed
<1>2. u.prefetch_pending \in BOOLEAN
  BY DEF UI
<1>3. p \in BOOLEAN /\ (PrefetchN = 0 => p = u.prefetch_pending)
  BY <1>2
<1> HIDE DEF p
<1> QED BY <1>1, <1>3 DEF UI, SamePane

\* What every input has in common.
Serves ==
    /\ UNCHANGED <<mishaps, version, pid, content, pipe, workerVars>>
    /\ mpc = "select" /\ inputs < MaxInputs /\ inputs' = inputs + 1
    /\ ui' \in UI /\ ui'.size \in {ui.size, ui.size + 1}
    /\ q' \in Queue /\ SameRequest(q, q') /\ q'.prefetched = q.prefetched
    /\ PrefetchN = 0 => q' = q /\ ui'.prefetch_pending = ui.prefetch_pending /\ child' = child
    /\ \/ child' = child /\ q'.prefetch_gen \in {q.prefetch_gen, q.prefetch_gen + 1}
       \/ child' = KillCurrent /\ Interrupted /\ q'.prefetch_gen = q.prefetch_gen + 1
    /\ mpc' \in {"batch", "request", "cancel", "stop"}
    /\ mpc' \in {"request", "cancel"} => q'.prefetch_queue = <<>>
    /\ (Away' <=> Away) \/ mpc' = "batch"
    /\ (mpc' = "cancel" /\ ui'.plan = "cached") => IsCached(ui'.cache, ui'.cy)

LEMMA InputServes ==
    ASSUME IInv, Input
    PROVE  Serves
<1>0. TypeOK /\ Bounds /\ Typed /\ (PrefetchN = 0 => q.prefetch_queue = <<>>)
  BY TypeFacts DEF IInv, QueueInv
<1>1. mpc = "select" /\ inputs < MaxInputs /\ inputs' = inputs + 1
      /\ UNCHANGED <<mishaps, version, pid, content, pipe, workerVars>>
  BY DEF Input, KeyMove, KeyTouch, KeyRefresh, KeyShow, KeyHide, KeyWindow, KeyPreview, KeyQuit,
         Winch, Result, KeyRead, Idle
<1>2. /\ Quiet \in Queue /\ SameRequest(q, Quiet)
      /\ Quiet.prefetched = q.prefetched
      /\ Quiet.prefetch_gen = IF Interrupted THEN q.prefetch_gen + 1 ELSE q.prefetch_gen
      /\ PrefetchN = 0 => Quiet = q
      /\ Quiet.prefetch_queue = <<>>
  BY <1>0, <1>1, QuietIs
<1>3. ui \in UI /\ q \in Queue /\ ui.size + 1 \in Size /\ ui.size \in Nat
  <2> DEFINE n == ui.size
  <2>1. n <= inputs
    BY <1>0 DEF Bounds
  <2>2. n \in Nat /\ inputs \in Nat /\ MaxInputs \in Nat
    BY <1>0 DEF Typed
  <2> HIDE DEF n
  <2>3. n + 1 \in 0 .. MaxInputs
    BY <1>1, <2>1, <2>2
  <2> QED BY <1>0, <2>2, <2>3 DEF Typed, Size, n
<1> DEFINE u == Rearmed(ui)
<1>4. /\ u \in UI /\ SamePane(ui, u) /\ u.dirty = ui.dirty /\ u.cache = ui.cache
      /\ PrefetchN = 0 => u.prefetch_pending = ui.prefetch_pending
  BY <1>3, RearmedIs
<1>5. ASSUME NEW key, KeyRead(key)
      PROVE  /\ PrefetchN = 0 => child' = child
             /\ \/ child' = child /\ Quiet.prefetch_gen \in {q.prefetch_gen, q.prefetch_gen + 1}
                \/ child' = KillCurrent /\ Interrupted /\ Quiet.prefetch_gen = q.prefetch_gen + 1
  BY <1>2, <1>5 DEF KeyRead, Interrupted
<1> HIDE DEF u
<1> USE <1>1
<1>6. CASE KeyMove
  <2>1. PICK cy \in Cmd : ui' = [u EXCEPT !.cy = cy]
    BY <1>6 DEF KeyMove, u
  <2>2. q' = Quiet /\ mpc' = "batch" /\ KeyRead("move")
    BY <1>6 DEF KeyMove
  <2>3. cy \in 0 .. Items
    BY PreviewAssumption DEF Cmd
  <2>4. ui' \in UI /\ ui'.size = ui.size /\ ui'.prefetch_pending = u.prefetch_pending
    BY <1>4, <2>1, <2>3 DEF UI, SamePane
  <2> QED BY <1>2, <1>4, <1>5, <2>2, <2>4 DEF Serves
<1>7. CASE KeyTouch
  <2>1. ui' = [u EXCEPT !.touched = TRUE] /\ q' = Quiet /\ mpc' = "batch" /\ KeyRead("touch")
    BY <1>7 DEF KeyTouch, u
  <2>4. ui' \in UI /\ ui'.size = ui.size /\ ui'.prefetch_pending = u.prefetch_pending
    BY <1>4, <2>1 DEF UI, SamePane
  <2> QED BY <1>2, <1>4, <1>5, <2>1, <2>4 DEF Serves
<1>8. ASSUME NEW v \in UI, NEW bypass \in BOOLEAN, NEW key, KeyRead(key), Refresh(v, Quiet, bypass, "batch"),
             v.size \in {ui.size, ui.size + 1}, v.cy = ui.cy, v.focused = ui.focused, v.touched = ui.touched,
             v.prefetch_pending = u.prefetch_pending
      PROVE  Serves
  <2>1. Refreshes(v, Quiet, "batch")
    BY <1>2, <1>8, RefreshIs
  <2>2. ui'.size \in {ui.size, ui.size + 1} /\ (Away' <=> Away) /\ mpc' \in {"batch", "request", "cancel"}
        /\ (mpc' \in {"request", "cancel"} => q'.prefetch_queue = <<>>)
        /\ (mpc' = "cancel" /\ ui'.plan = "cached" => IsCached(ui'.cache, ui'.cy))
    BY <1>8, <2>1 DEF Refreshes, SamePane, Away
  <2>3. SameRequest(q, q') /\ q'.prefetched = q.prefetched /\ q'.prefetch_gen = Quiet.prefetch_gen
    BY <1>2, <2>1 DEF Refreshes, SameRequest
  <2>4. ui' \in UI /\ q' \in Queue
        /\ (PrefetchN = 0 => q' = q /\ ui'.prefetch_pending = ui.prefetch_pending)
    BY <1>2, <1>4, <1>8, <2>1 DEF Refreshes
  <2>5. /\ PrefetchN = 0 => child' = child
        /\ \/ child' = child /\ q'.prefetch_gen \in {q.prefetch_gen, q.prefetch_gen + 1}
           \/ child' = KillCurrent /\ Interrupted /\ q'.prefetch_gen = q.prefetch_gen + 1
    BY <1>5, <1>8, <2>3
  <2> QED BY <2>2, <2>3, <2>4, <2>5 DEF Serves
<1>9. CASE KeyRefresh
  BY <1>4, <1>8, <1>9 DEF KeyRefresh, u, SamePane
<1>10. CASE KeyShow
  <2> DEFINE v == [u EXCEPT !.hidden = FALSE, !.dirty = TRUE]
  <2>1. KeyRead("toggle") /\ Refresh(v, Quiet, FALSE, "batch")
    BY <1>10 DEF KeyShow, u
  <2>2. /\ v \in UI /\ v.size = ui.size /\ v.cy = ui.cy /\ v.focused = ui.focused /\ v.touched = ui.touched
        /\ v.prefetch_pending = u.prefetch_pending
    BY <1>4 DEF UI, SamePane
  <2> HIDE DEF v
  <2> QED BY <1>8, <2>1, <2>2
<1>11. CASE KeyHide
  <2>1. /\ ui' = [u EXCEPT !.hidden = TRUE, !.dirty = TRUE, !.plan = "hide", !.back = "batch"]
        /\ q' = Quiet /\ mpc' = "cancel" /\ KeyRead("toggle")
    BY <1>11 DEF KeyHide, u
  <2>4. ui' \in UI /\ ui'.size = ui.size /\ ui'.prefetch_pending = u.prefetch_pending
        /\ ui'.cy = ui.cy /\ ui'.focused = ui.focused /\ ui'.touched = ui.touched
        /\ ui'.plan = "hide"
    BY <1>4, <2>1 DEF UI, SamePane
  <2> QED BY <1>2, <1>4, <1>5, <2>1, <2>4 DEF Serves, Away
<1>12. CASE KeyWindow
  <2> DEFINE v == [u EXCEPT !.hidden = FALSE, !.dirty = TRUE, !.size = u.size + 1]
  <2>1. KeyRead("window") /\ IF ui.hidden THEN Refresh(v, Quiet, FALSE, "batch")
                             ELSE ui' = v /\ q' = Quiet /\ mpc' = "batch"
    BY <1>12 DEF KeyWindow, u
  <2>2. /\ v \in UI /\ v.size = ui.size + 1 /\ v.cy = ui.cy /\ v.focused = ui.focused /\ v.touched = ui.touched
        /\ v.prefetch_pending = u.prefetch_pending
    BY <1>3, <1>4 DEF UI, SamePane
  <2> HIDE DEF v
  <2>3. CASE ui.hidden
    BY <1>8, <2>1, <2>2, <2>3
  <2>4. CASE ~ui.hidden
    BY <1>2, <1>4, <1>5, <2>1, <2>2, <2>4 DEF Serves
  <2> QED BY <2>3, <2>4
<1>13. CASE KeyPreview
  <2> DEFINE v == [u EXCEPT !.can = TRUE, !.hidden = FALSE, !.dirty = TRUE]
  <2>1. KeyRead("preview") /\ Refresh(v, Quiet, FALSE, "batch")
    BY <1>13 DEF KeyPreview, u
  <2>2. /\ v \in UI /\ v.size = ui.size /\ v.cy = ui.cy /\ v.focused = ui.focused /\ v.touched = ui.touched
        /\ v.prefetch_pending = u.prefetch_pending
    BY <1>4 DEF UI, SamePane
  <2> HIDE DEF v
  <2> QED BY <1>8, <2>1, <2>2
<1>14. CASE KeyQuit
  <2>1. ui' = u /\ q' = Quiet /\ mpc' = "stop" /\ KeyRead("quit")
    BY <1>14 DEF KeyQuit, u
  <2> QED BY <1>2, <1>4, <1>5, <2>1 DEF Serves, Away, SamePane
<1>15. CASE Winch
  <2> DEFINE v == [ui EXCEPT !.size = ui.size + 1, !.dirty = TRUE]
             x == [v EXCEPT !.cache = <<>>]
  <2>1. /\ child' = child
        /\ IF ui.can THEN Refresh(x, q, TRUE, "batch") ELSE ui' = v /\ q' = q /\ mpc' = "batch"
    BY <1>15 DEF Winch
  <2>2. <<>> \in Seq([key : Cmd, text : Texts])
    OBVIOUS
  <2>3. v \in UI /\ v.size = ui.size + 1 /\ v.prefetch_pending = ui.prefetch_pending
    BY <1>3 DEF UI
  <2>4. /\ x \in UI /\ x.size = ui.size + 1 /\ x.prefetch_pending = ui.prefetch_pending
        /\ x.cy = ui.cy /\ x.focused = ui.focused /\ x.touched = ui.touched
    BY <1>3, <2>2 DEF UI
  <2> HIDE DEF v, x
  <2>5. CASE ui.can
    <3>1. Refreshes(x, q, "batch")
      BY <1>0, <1>3, <2>1, <2>4, <2>5, RefreshIs
    <3>2. ui'.size = ui.size + 1 /\ (Away' <=> Away) /\ mpc' \in {"batch", "request", "cancel"}
          /\ (mpc' \in {"request", "cancel"} => q'.prefetch_queue = <<>>)
          /\ (mpc' = "cancel" /\ ui'.plan = "cached" => IsCached(ui'.cache, ui'.cy))
      BY <2>4, <3>1 DEF Refreshes, SamePane, Away
    <3>3. ui' \in UI /\ q' \in Queue /\ SameRequest(q, q') /\ q'.prefetched = q.prefetched
          /\ q'.prefetch_gen = q.prefetch_gen
          /\ (PrefetchN = 0 => q' = q /\ ui'.prefetch_pending = ui.prefetch_pending)
      BY <2>4, <3>1 DEF Refreshes
    <3> QED BY <2>1, <3>2, <3>3 DEF Serves
  <2>6. CASE ~ui.can
    BY <1>3, <2>1, <2>3, <2>6 DEF Serves, SameRequest
  <2> QED BY <2>5, <2>6
<1>16. CASE Result
  <2>1. PICK cy \in 0 .. Items : ui' = [u EXCEPT !.cy = cy, !.dirty = TRUE]
    BY <1>16 DEF Result, u
  <2>2. q' = Armed(q) /\ mpc' = "batch" /\ child' = child
    BY <1>16 DEF Result
  <2>3. ui' \in UI /\ ui'.size = ui.size /\ ui'.prefetch_pending = u.prefetch_pending
    BY <1>4, <2>1 DEF UI, SamePane
  <2>4. Armed(q) \in Queue /\ SameRequest(q, Armed(q)) /\ Armed(q).prefetched = q.prefetched
        /\ Armed(q).prefetch_gen = q.prefetch_gen /\ (PrefetchN = 0 => Armed(q) = q)
    BY <1>3, ArmedIs
  <2> QED BY <1>4, <2>2, <2>3, <2>4 DEF Serves
<1> QED BY <1>6, <1>7, <1>9, <1>10, <1>11, <1>12, <1>13, <1>14, <1>15, <1>16 DEF Input

-----------------------------------------------------------------------------
(* Every step keeps the invariant. *)

\* Steps of the UI thread: what they do to the process.
LEMMA KillKeeps ==
    ASSUME TypeOK, RunInv, KillInv, UNCHANGED <<mishaps, workerVars>>,
           child' \in {child, Killed(child)},
           Busy /\ Superseded => Superseded',
           Busy /\ Spared /\ child' # child => Superseded'
    PROVE  RunInv' /\ KillInv' /\ child' \in Child
<1>1. child \in Child
  BY DEF TypeOK
<1>2. /\ child' \in Child /\ child'.job = child.job /\ child'.printed = child.printed
      /\ child'.read = child.read
      /\ child'.state \in {child.state, "dead"}
      /\ child.state \notin {"run", "quiet"} => child' = child
  BY <1>1, KilledIs
<1>3. wpc' = wpc /\ w' = w /\ mishaps' = mishaps
  BY DEF workerVars
<1>4. (Busy' <=> Busy) /\ (HasChild' <=> HasChild) /\ (Spared' <=> Spared) /\ (WholeRun' <=> WholeRun)
  BY <1>3 DEF Busy, HasChild, Spared, WholeRun
<1>5. child = NoChild => child' = NoChild
  BY <1>2 DEF NoChild
<1>6. child.state # "none" => child'.state # "none"
  BY <1>2
<1>7. RunInv'
  BY <1>2, <1>3, <1>4, <1>5, <1>6 DEF RunInv
<1>8. KillInv'
  <2> SUFFICES ASSUME Spared, ~w.stale
               PROVE  /\ HasChild /\ Hit' => Superseded'
                      /\ wpc \in {"finish", "final"} /\ w.job.cmd \in Endless => Superseded'
                      /\ wpc \in {"close", "reap", "finish", "final"} => WholeRun
    BY <1>3, <1>4 DEF KillInv
  <2>1. HasChild => Busy
    BY DEF HasChild
  <2>2. wpc \in {"finish", "final"} => Busy
    BY DEF Busy
  <2>3. child' = child => (Hit' <=> Hit)
    BY DEF Hit
  <2> QED BY <2>1, <2>2, <2>3 DEF KillInv
<1> QED BY <1>2, <1>7, <1>8

\* An input starts at most one refresh, or leaves one to the end of the batch.
LEMMA InputInv ==
    ASSUME IInv, Input
    PROVE  IInv'
<1>1. Serves
  BY InputServes
<1>2. TypeOK /\ Bounds /\ QueueInv /\ RunInv /\ KillInv /\ Typed
  BY TypeFacts DEF IInv
<1>3. wpc' = wpc /\ w' = w /\ mishaps' = mishaps /\ version' = version /\ content' = content
      /\ pid' = pid /\ pipe' = pipe
  BY <1>1 DEF Serves, workerVars
<1>4. q'.prefetch_gen \in {q.prefetch_gen, q.prefetch_gen + 1} /\ q.prefetch_gen \in Nat /\ w.gen \in Nat
  BY <1>1, <1>2 DEF Serves, Typed
<1>5. child' \in {child, Killed(child)}
  BY <1>1 DEF Serves, KillCurrent
<1>6. w.gen <= q.prefetch_gen
  BY <1>2 DEF Bounds
<1>7. w.prefetch /\ q.prefetch_gen # w.gen => q'.prefetch_gen # w.gen
  BY <1>4, <1>6
<1>8. q'.prefetch_gen = q.prefetch_gen + 1 => q'.prefetch_gen # w.gen
  BY <1>4, <1>6
<1>9. Superseded => Superseded'
  BY <1>3, <1>7 DEF Superseded
<1>10. Spared /\ child' # child => Superseded'
  <2> SUFFICES ASSUME Spared, child' # child PROVE Superseded'
    OBVIOUS
  <2>1. Interrupted /\ q'.prefetch_gen = q.prefetch_gen + 1
    BY <1>1 DEF Serves
  <2>2. w.prefetch
    BY <2>1, PreviewAssumption DEF Spared, Interrupted
  <2> QED BY <1>3, <1>8, <2>1, <2>2 DEF Superseded
<1>11. RunInv' /\ KillInv' /\ child' \in Child
  BY <1>2, <1>3, <1>5, <1>9, <1>10, KillKeeps DEF workerVars
<1>12. inputs \in Nat /\ inputs' = inputs + 1 /\ inputs' \in 0 .. MaxInputs
  <2>1. MaxInputs \in Nat
    BY PreviewAssumption
  <2> QED BY <1>1, <1>2, <2>1 DEF Serves, Typed
<1>13. TypeOK'
  <2>1. mpc' \in UIPcs
    BY <1>1 DEF Serves, UIPcs
  <2> QED BY <1>1, <1>2, <1>3, <1>11, <1>12, <2>1 DEF Serves, TypeOK
<1>14. Bounds'
  <2> DEFINE a == Flag(Coming)
             b == Flag(Away)
             x == Flag(Coming')
             y == Flag(Away')
  <2>1. a \in {0, 1} /\ b \in {0, 1} /\ x \in {0, 1} /\ y \in {0, 1}
    BY FlagIs
  <2>2. version + a + b <= inputs + 1 /\ version \in Nat /\ q.prefetch_gen <= version + inputs
    BY <1>2, BoundFacts DEF Bounds
  <2>3. a = 0
    BY <1>1 DEF Serves, Coming, Flag
  <2>4. mpc' = "batch" => x = 0
    BY DEF Coming, Flag
  <2>5. mpc' # "batch" => y = b
    BY <1>1 DEF Serves, Flag
  <2>6. Due' = x + y
    BY DEF Due, Flag
  <2> HIDE DEF a, b, x, y
  <2>7. version + (x + y) <= (inputs + 1) + 1
    BY <1>12, <2>1, <2>2, <2>3, <2>4, <2>5
  <2>8. q'.prefetch_gen <= version + (inputs + 1)
    BY <1>4, <1>12, <2>2
  <2>9. ui'.size <= inputs + 1
    <3> DEFINE n == ui.size
               m == ui'.size
    <3>1. m \in {n, n + 1} /\ n <= inputs /\ n \in Nat
      BY <1>1, <1>2 DEF Serves, Bounds, Typed
    <3> HIDE DEF n, m
    <3>2. m <= inputs + 1
      BY <1>12, <3>1
    <3> QED BY <3>2 DEF m
  <2>10. w.gen <= q'.prefetch_gen
    BY <1>4, <1>6
  <2>11. q'.promoted = q.promoted
    BY <1>1 DEF Serves, SameRequest
  <2> QED BY <1>2, <1>3, <1>12, <2>6, <2>7, <2>8, <2>9, <2>10, <2>11 DEF Bounds
<1>15. QueueInv'
  <2>1. mpc' \in {"batch", "request", "cancel", "stop"} /\ mpc = "select"
        /\ (mpc' \in {"request", "cancel"} => q'.prefetch_queue = <<>>)
        /\ (mpc' = "cancel" /\ ui'.plan = "cached" => IsCached(ui'.cache, ui'.cy))
        /\ (PrefetchN = 0 => q' = q /\ ui'.prefetch_pending = ui.prefetch_pending) /\ q'.stop = q.stop
    BY <1>1 DEF Serves, SameRequest
  <2> QED BY <1>2, <1>3, <2>1 DEF QueueInv
<1>16. PrefetchedIsWhole'
  <2>1. q'.prefetched = q.prefetched
    BY <1>1 DEF Serves
  <2> QED BY <2>1 DEF IInv, PrefetchedIsWhole, IsWhole
<1> QED BY <1>11, <1>13, <1>14, <1>15, <1>16 DEF IInv

\* Steps of the UI thread that start nothing and stop nothing.
LEMMA StillInv ==
    ASSUME IInv, TypeOK', UNCHANGED <<mishaps, inputs, version, child, workerVars>>,
           q'.prefetch_gen = q.prefetch_gen, q'.promoted = q.promoted,
           q'.prefetched \in {q.prefetched, <<>>},
           content'.version <= version, ui'.size = ui.size,
           \/ (Coming' => Coming) /\ (Away' => Away)
           \/ ~Coming /\ Away /\ ~Away',
           QueueInv'
    PROVE  IInv'
<1>1. TypeOK /\ Bounds /\ RunInv /\ KillInv
  BY DEF IInv
<1>2. wpc' = wpc /\ w' = w
  BY DEF workerVars
<1>3. Superseded => Superseded'
  BY <1>2 DEF Superseded
<1>4. RunInv' /\ KillInv'
  BY <1>1, <1>3, KillKeeps DEF workerVars
<1>5. Bounds'
  <2> DEFINE a == Flag(Coming)
             b == Flag(Away)
             x == Flag(Coming')
             y == Flag(Away')
  <2>1. a \in {0, 1} /\ b \in {0, 1} /\ x \in {0, 1} /\ y \in {0, 1}
    BY FlagIs
  <2>2. version + a + b <= inputs + 1 /\ version \in Nat /\ inputs \in Nat
    BY <1>1, BoundFacts
  <2>3. (x <= a /\ y <= b) \/ (a = 0 /\ b = 1 /\ y = 0)
    BY DEF Flag
  <2>4. Due' = x + y
    BY DEF Due, Flag
  <2> HIDE DEF a, b, x, y
  <2>5. version + (x + y) <= inputs + 1
    BY <2>1, <2>2, <2>3
  <2> QED BY <1>1, <1>2, <2>4, <2>5 DEF Bounds
<1>6. PrefetchedIsWhole'
  <2>1. ToSet(<<>>) = {}
    BY DEF ToSet
  <2> QED BY <2>1 DEF IInv, PrefetchedIsWhole, IsWhole
<1> QED BY <1>4, <1>5, <1>6 DEF IInv

LEMMA WakeUpInv ==
    ASSUME IInv, WakeUp
    PROVE  IInv'
<1>1. TypeOK /\ Bounds /\ QueueInv /\ Typed
  BY TypeFacts DEF IInv
<1> DEFINE cache == Merged(ui.cache, q.prefetched)
<1>2. cache \in Seq(Entry)
  BY <1>1, MergedType DEF Typed
<1>3. /\ ui' = [ui EXCEPT !.dirty = TRUE, !.cache = cache]
      /\ q' = [q EXCEPT !.prefetched = <<>>]
      /\ pipe' = FALSE /\ mpc = "select" /\ mpc' = "batch"
      /\ UNCHANGED <<mishaps, inputs, version, pid, content, workerVars, child>>
  BY DEF WakeUp, Idle
<1> HIDE DEF cache
<1>4. ui' \in UI
  BY <1>1, <1>2, <1>3 DEF Typed, UI, Entry
<1>5. q' \in Queue
  <2>1. <<>> \in Seq([key : Cmd, text : Texts])
    OBVIOUS
  <2> QED BY <1>1, <1>3, <2>1 DEF Typed, Queue
<1>6. TypeOK'
  BY <1>1, <1>3, <1>4, <1>5 DEF TypeOK, UIPcs, workerVars
<1>7. /\ q'.prefetch_gen = q.prefetch_gen /\ q'.promoted = q.promoted /\ q'.prefetched = <<>>
      /\ q'.prefetch_queue = q.prefetch_queue /\ q'.stop = q.stop
      /\ ui'.size = ui.size /\ ui'.cy = ui.cy /\ ui'.focused = ui.focused /\ ui'.touched = ui.touched
      /\ ui'.prefetch_pending = ui.prefetch_pending
  BY <1>1, <1>3 DEF Typed, UI, Queue
<1>8. QueueInv'
  BY <1>1, <1>3, <1>7 DEF QueueInv, workerVars
<1>9. (Coming' => Coming) /\ (Away' => Away)
  BY <1>3, <1>7 DEF Coming, Away
<1>10. content'.version <= version
  BY <1>1, <1>3 DEF Bounds
<1> QED BY <1>3, <1>6, <1>7, <1>8, <1>9, <1>10, StillInv

LEMMA TimerInv ==
    ASSUME IInv, Timer
    PROVE  IInv'
<1>1. TypeOK /\ Bounds /\ QueueInv /\ Typed
  BY TypeFacts DEF IInv
<1>2. mpc = "select" /\ mpc' = "batch"
      /\ UNCHANGED <<mishaps, inputs, version, pid, content, pipe, workerVars, child>>
  BY DEF Timer, Idle
<1>3. \/ ui' = [ui EXCEPT !.prefetch_pending = FALSE] /\ q' = q
      \/ /\ ui' = [ui EXCEPT !.prefetch_pending = FALSE, !.cache = Looked(ui).cache]
         /\ q' = IF Looked(ui).jobs = <<>> THEN q ELSE [q EXCEPT !.prefetch_queue = Looked(ui).jobs]
  BY DEF Timer
<1>4. Looked(ui).cache \in Seq(Entry) /\ Looked(ui).jobs \in Seq(Task)
  BY <1>1, LookedType DEF Typed, Around
<1>5. ui' \in UI
  BY <1>1, <1>3, <1>4 DEF Typed, UI, Entry
<1>6. q' \in Queue
  BY <1>1, <1>3, <1>4 DEF Typed, Queue
<1>7. /\ q'.prefetch_gen = q.prefetch_gen /\ q'.promoted = q.promoted /\ q'.prefetched = q.prefetched
      /\ q'.stop = q.stop
      /\ ui'.size = ui.size /\ ui'.cy = ui.cy /\ ui'.focused = ui.focused /\ ui'.touched = ui.touched
  BY <1>1, <1>3 DEF Typed, UI, Queue
<1>8. TypeOK'
  BY <1>1, <1>2, <1>5, <1>6 DEF TypeOK, UIPcs, workerVars
<1>9. PrefetchN # 0
  BY <1>1 DEF QueueInv, Timer
<1>10. QueueInv'
  BY <1>1, <1>2, <1>7, <1>9 DEF QueueInv, workerVars
<1>11. (Coming' => Coming) /\ (Away' => Away) /\ content'.version <= version
  BY <1>1, <1>2, <1>7 DEF Coming, Away, Bounds
<1> QED BY <1>2, <1>7, <1>8, <1>10, <1>11, StillInv

\* refresh_preview() is called for what the end of the batch finds.
LEMMA EndOfBatchInv ==
    ASSUME IInv, EndOfBatch
    PROVE  IInv'
<1>1. TypeOK /\ Bounds /\ QueueInv /\ Typed
  BY TypeFacts DEF IInv
<1>2. mpc = "batch" /\ UNCHANGED <<mishaps, inputs, version, pid, content, pipe, workerVars, child>>
  BY DEF EndOfBatch
<1>3. content'.version <= version
  BY <1>1, <1>2 DEF Bounds
<1>4. CASE ~ui.hidden /\ (ui.cy # ui.focused \/ ui.touched)
  <2> DEFINE u == [ui EXCEPT !.focused = ui.cy, !.touched = FALSE]
  <2>1. Refresh(u, q, FALSE, "paint")
    BY <1>4 DEF EndOfBatch
  <2>2. u \in UI /\ u.cy = ui.cy /\ u.focused = ui.cy /\ u.touched = FALSE /\ u.size = ui.size
        /\ u.prefetch_pending = ui.prefetch_pending
    <3>1. ui.cy \in -1 .. Items
      BY <1>1 DEF Typed
    <3> QED BY <1>1, <3>1 DEF Typed, UI
  <2> HIDE DEF u
  <2>3. Refreshes(u, q, "paint")
    BY <1>1, <2>1, <2>2, RefreshIs DEF QueueInv, Typed
  <2>4. ui' \in UI /\ q' \in Queue /\ mpc' \in {"paint", "request", "cancel"} /\ ui'.size = ui.size
        /\ SameRequest(q, q') /\ q'.prefetched = q.prefetched /\ q'.prefetch_gen = q.prefetch_gen
        /\ (PrefetchN = 0 => q' = q /\ ui'.prefetch_pending = ui.prefetch_pending)
    BY <2>2, <2>3 DEF Refreshes, SamePane
  <2>5. ~Away' /\ (mpc' \in {"request", "cancel"} => q'.prefetch_queue = <<>>)
        /\ (mpc' = "cancel" /\ ui'.plan = "cached" => IsCached(ui'.cache, ui'.cy))
    BY <2>2, <2>3 DEF Refreshes, SamePane, Away
  <2>6. TypeOK'
    BY <1>1, <1>2, <2>4 DEF TypeOK, UIPcs, workerVars
  <2>7. QueueInv'
    BY <1>1, <1>2, <2>4, <2>5 DEF QueueInv, workerVars, SameRequest
  <2>8. ~Coming /\ Away
    BY <1>2, <1>4 DEF Coming, Away
  <2>9. q'.prefetch_gen = q.prefetch_gen /\ q'.promoted = q.promoted
    BY <2>4 DEF SameRequest
  <2> QED BY <1>2, <1>3, <2>4, <2>5, <2>6, <2>7, <2>8, <2>9, StillInv
<1>5. CASE ~(~ui.hidden /\ (ui.cy # ui.focused \/ ui.touched))
  <2>1. ui' = ui /\ q' = q /\ mpc' = "paint"
    BY <1>5 DEF EndOfBatch
  <2>2. TypeOK' /\ QueueInv'
    BY <1>1, <1>2, <2>1 DEF TypeOK, QueueInv, UIPcs, workerVars
  <2>3. (Coming' => Coming) /\ (Away' => Away)
    BY <2>1 DEF Coming, Away
  <2> QED BY <1>2, <1>3, <2>1, <2>2, <2>3, StillInv
<1> QED BY <1>4, <1>5

\* What paint_preview() puts into the cache.
LEMMA PaintIs ==
    ASSUME TypeOK, Paint
    PROVE  /\ ui' \in UI
           /\ ui'.cy = ui.cy /\ ui'.focused = ui.focused /\ ui'.touched = ui.touched
           /\ ui'.can = ui.can /\ ui'.hidden = ui.hidden /\ ui'.size = ui.size
           /\ ui'.prefetch_pending = ui.prefetch_pending /\ ui'.plan = ui.plan /\ ui'.dirty = FALSE
           /\ IF ui.dirty /\ ~ui.hidden
                THEN /\ ui'.shown = content.text
                     /\ IF Cacheable
                          THEN /\ ui'.key = None
                               /\ ui.key # None
                               /\ ui'.cache = Stored(ui.cache, [key |-> ui.key, text |-> content.text])
                               /\ [key |-> ui.key, text |-> content.text] \in Entry
                          ELSE ui'.key = ui.key /\ ui'.cache = ui.cache
                ELSE ui'.shown = ui.shown /\ ui'.key = ui.key /\ ui'.cache = ui.cache
           /\ ui'.reqv = ui.reqv
<1>1. Typed
  BY TypeFacts
<1>2. CASE ui.dirty /\ ~ui.hidden /\ Cacheable
  <2> DEFINE e == [key |-> ui.key, text |-> content.text]
             cache == Stored(ui.cache, e)
  <2>1. ui' = [ui EXCEPT !.dirty = FALSE, !.shown = content.text, !.cache = cache, !.key = None]
    BY <1>2 DEF Paint
  <2>2. ui.key \in Cmd /\ ui.key # None /\ content.text \in Texts
    <3>1. ui.key \in 0 .. Items /\ ui.key # None
      BY <1>1, <1>2 DEF Typed, UI, Cacheable
    <3> QED BY <1>1, <3>1 DEF Typed, Cmd, None
  <2>3. e \in Entry
    BY <2>2 DEF Entry
  <2>4. cache \in Seq(Entry)
    BY <1>1, <2>3, StoredType DEF Typed
  <2>5. None \in 0 .. Items
    BY <1>1 DEF Typed, None
  <2> HIDE DEF e, cache
  <2>6. cache \in Seq([key : Cmd, text : Texts])
    BY <2>4 DEF Entry
  <2>7. ui' \in UI
    BY <1>1, <2>1, <2>2, <2>5, <2>6 DEF Typed, UI
  <2> QED BY <1>1, <1>2, <2>1, <2>2, <2>3, <2>7 DEF Typed, UI, e, cache
<1>3. CASE ui.dirty /\ ~ui.hidden /\ ~Cacheable
  <2>1. ui' = [ui EXCEPT !.dirty = FALSE, !.shown = content.text, !.cache = ui.cache, !.key = ui.key]
    BY <1>3 DEF Paint
  <2> QED BY <1>1, <1>3, <2>1 DEF Typed, UI
<1>4. CASE ~(ui.dirty /\ ~ui.hidden)
  <2>1. ui' = [ui EXCEPT !.dirty = FALSE]
    BY <1>4 DEF Paint
  <2> QED BY <1>1, <1>4, <2>1 DEF Typed, UI
<1> QED BY <1>2, <1>3, <1>4

LEMMA PaintInv ==
    ASSUME IInv, Paint
    PROVE  IInv'
<1>1. TypeOK /\ Bounds /\ QueueInv /\ Typed
  BY TypeFacts DEF IInv
<1>2. mpc = "paint" /\ mpc' = "select"
      /\ UNCHANGED <<mishaps, inputs, q, version, pid, content, pipe, workerVars, child>>
  BY DEF Paint
<1>3. ui' \in UI /\ ui'.cy = ui.cy /\ ui'.focused = ui.focused /\ ui'.touched = ui.touched
      /\ ui'.size = ui.size /\ ui'.prefetch_pending = ui.prefetch_pending
  BY <1>1, PaintIs
<1>4. TypeOK' /\ QueueInv'
  BY <1>1, <1>2, <1>3 DEF TypeOK, QueueInv, UIPcs, workerVars
<1>5. (Coming' => Coming) /\ (Away' => Away) /\ content'.version <= version
  BY <1>1, <1>2, <1>3 DEF Coming, Away, Bounds
<1> QED BY <1>2, <1>3, <1>4, <1>5, StillInv

LEMMA SetContentIs ==
    ASSUME TypeOK, QueueInv, SetContent
    PROVE  /\ ui' \in UI /\ content' \in Content
           /\ ui'.cy = ui.cy /\ ui'.focused = ui.focused /\ ui'.touched = ui.touched
           /\ ui'.can = ui.can /\ ui'.hidden = ui.hidden /\ ui'.size = ui.size
           /\ ui'.cache = ui.cache /\ ui'.dirty = ui.dirty /\ ui'.shown = ui.shown
           /\ ui'.key = None /\ ui'.prefetch_pending = (ui.prefetch_pending /\ ui.plan # "hide")
           /\ content'.version \in {content.version, version}
           /\ mpc' = ui.back /\ ui.back \in {"batch", "paint"}
           /\ IF ui.plan = "hide" THEN content' = content
              ELSE /\ content'.text = IF ui.plan = "cached" THEN Cached(ui.cache, ui.cy) ELSE NoText
                   /\ content'.version = version /\ content'.complete
<1>1. Typed
  BY TypeFacts
<1> DEFINE text == IF ui.plan = "cached" THEN Cached(ui.cache, ui.cy) ELSE NoText
           p == ui.prefetch_pending /\ ui.plan # "hide"
<1>2. text \in Texts
  <2>1. CASE ui.plan = "cached"
    <3>1. IsCached(ui.cache, ui.cy)
      BY <2>1 DEF QueueInv, SetContent
    <3>2. [key |-> ui.cy, text |-> Cached(ui.cache, ui.cy)] \in Entry
      BY <1>1, <3>1, CachedIs DEF Typed
    <3> QED BY <2>1, <3>2 DEF Entry
  <2>2. CASE ui.plan # "cached"
    BY <1>1, <2>2, TextType DEF Typed
  <2> QED BY <2>1, <2>2
<1>3. p \in BOOLEAN
  OBVIOUS
<1>4. ui' = [ui EXCEPT !.key = None, !.plan = "none", !.prefetch_pending = p]
  BY DEF SetContent
<1>5. content' = IF ui.plan = "hide" THEN content
                 ELSE [text |-> text, version |-> version, complete |-> TRUE]
  BY DEF SetContent
<1> HIDE DEF text, p
<1>6. None \in 0 .. Items
  BY <1>1 DEF Typed, None
<1>7. ui' \in UI
  BY <1>1, <1>3, <1>4, <1>6 DEF Typed, UI
<1>8. content' \in Content
  BY <1>2, <1>5 DEF Content, TypeOK
<1>9. mpc' = ui.back /\ ui.back \in {"batch", "paint"}
  BY <1>1 DEF SetContent, Typed, UI
<1> QED BY <1>1, <1>4, <1>5, <1>7, <1>8, <1>9 DEF Typed, UI, text, p

LEMMA SetContentInv ==
    ASSUME IInv, SetContent
    PROVE  IInv'
<1>1. TypeOK /\ Bounds /\ QueueInv /\ Typed
  BY TypeFacts DEF IInv
<1>2. mpc = "set" /\ UNCHANGED <<mishaps, inputs, q, version, pid, pipe, workerVars, child>>
  BY DEF SetContent
<1>3. ui' \in UI /\ content' \in Content /\ ui'.cy = ui.cy /\ ui'.focused = ui.focused
      /\ ui'.touched = ui.touched /\ ui'.size = ui.size
      /\ ui'.prefetch_pending = (ui.prefetch_pending /\ ui.plan # "hide")
      /\ content'.version \in {content.version, version}
      /\ mpc' = ui.back /\ ui.back \in {"batch", "paint"}
  BY <1>1, SetContentIs
<1>4. TypeOK'
  BY <1>1, <1>2, <1>3 DEF TypeOK, UIPcs, workerVars
<1>5. QueueInv'
  BY <1>1, <1>2, <1>3 DEF QueueInv, workerVars
<1>6. (Coming' => Coming) /\ (Away' => Away)
  BY <1>2, <1>3 DEF Coming, Away
<1>7. content'.version <= version
  BY <1>1, <1>3 DEF Bounds, Typed
<1> QED BY <1>2, <1>3, <1>4, <1>5, <1>6, <1>7, StillInv

LEMMA StopInv ==
    ASSUME IInv, Stop
    PROVE  IInv'
<1>1. TypeOK /\ Bounds /\ QueueInv /\ Typed
  BY TypeFacts DEF IInv
<1>2. /\ mpc = "stop" /\ mpc' = "stop_version" /\ q' = [q EXCEPT !.stop = TRUE, !.has_request = FALSE]
      /\ UNCHANGED <<mishaps, ui, inputs, version, pid, content, pipe, workerVars, child>>
  BY DEF Stop
<1>3. /\ q' \in Queue /\ q'.prefetch_queue = q.prefetch_queue /\ q'.prefetch_gen = q.prefetch_gen
      /\ q'.promoted = q.promoted /\ q'.prefetched = q.prefetched /\ q'.stop
  BY <1>1, <1>2 DEF Typed, Queue
<1>4. TypeOK' /\ QueueInv'
  BY <1>1, <1>2, <1>3 DEF TypeOK, QueueInv, UIPcs, workerVars
<1>5. (Coming' => Coming) /\ (Away' => Away) /\ content'.version <= version
  BY <1>1, <1>2 DEF Coming, Away, Bounds
<1> QED BY <1>2, <1>3, <1>4, <1>5, StillInv

\* Steps of the UI thread that kill, but supersede nothing.
LEMMA KillInvStep ==
    ASSUME IInv, UNCHANGED <<mishaps, ui, inputs, q, version, pid, content, pipe, workerVars>>,
           child' \in {child, KillCurrent}, mpc' \in UIPcs, ~Coming', QueueInv',
           (Busy /\ Spared /\ child' # child) => Superseded
    PROVE  IInv'
<1>1. TypeOK /\ Bounds /\ RunInv /\ KillInv /\ Typed
  BY TypeFacts DEF IInv
<1>2. wpc' = wpc /\ w' = w /\ (Superseded' <=> Superseded)
  BY DEF workerVars, Superseded
<1>3. child' \in {child, Killed(child)}
  BY DEF KillCurrent
<1>4. RunInv' /\ KillInv' /\ child' \in Child
  BY <1>1, <1>2, <1>3, KillKeeps DEF workerVars
<1>5. TypeOK'
  BY <1>1, <1>2, <1>4 DEF TypeOK
<1>6. Bounds'
  <2> DEFINE a == Flag(Coming)
             b == Flag(Away)
  <2>1. a \in {0, 1} /\ b \in {0, 1}
    BY FlagIs
  <2>2. version + a + b <= inputs + 1 /\ version \in Nat /\ inputs \in Nat
    BY <1>1, BoundFacts
  <2>3. Due' = 0 + b
    BY DEF Due, Flag, Away
  <2> HIDE DEF a, b
  <2>4. version + (0 + b) <= inputs + 1
    BY <2>1, <2>2
  <2> QED BY <1>1, <1>2, <2>3, <2>4 DEF Bounds
<1>7. PrefetchedIsWhole'
  BY DEF IInv, PrefetchedIsWhole, IsWhole
<1> QED BY <1>4, <1>5, <1>6, <1>7 DEF IInv

LEMMA CancelKillInv ==
    ASSUME IInv, CancelKill
    PROVE  IInv'
<1>1. QueueInv
  BY DEF IInv
<1>2. /\ mpc = "cancel_kill" /\ mpc' = "set" /\ child' = KillCurrent
      /\ UNCHANGED <<mishaps, ui, inputs, q, version, pid, content, pipe, workerVars>>
  BY DEF CancelKill
<1>3. QueueInv'
  BY <1>1, <1>2 DEF QueueInv, workerVars, Busy
<1>4. Busy => Superseded
  BY <1>1, <1>2 DEF QueueInv, Superseded
<1> QED BY <1>2, <1>3, <1>4, KillInvStep DEF Coming, UIPcs

\* Only a late kill comes here, and then no run is spared but a prefetch.
LEMMA RequestKillInv ==
    ASSUME IInv, RequestKill
    PROVE  IInv'
<1>1. QueueInv /\ ui.back \in {"batch", "paint"}
  BY TypeFacts DEF IInv, Typed, UI
<1>2. /\ mpc = "request_kill" /\ mpc' = ui.back /\ child' = KillCurrent
      /\ UNCHANGED <<mishaps, ui, inputs, q, version, pid, content, pipe, workerVars>>
  BY DEF RequestKill
<1>3. QueueInv'
  BY <1>1, <1>2 DEF QueueInv, workerVars
<1>4. Busy /\ Spared => Superseded
  BY <1>1, <1>2 DEF QueueInv, Superseded, Spared
<1> QED BY <1>1, <1>2, <1>3, <1>4, KillInvStep DEF Coming, UIPcs

LEMMA StopKillInv ==
    ASSUME IInv, StopKill
    PROVE  IInv'
<1>1. QueueInv
  BY DEF IInv
<1>2. /\ mpc = "stop_kill" /\ mpc' = "join" /\ child' = KillCurrent
      /\ UNCHANGED <<mishaps, ui, inputs, q, version, pid, content, pipe, workerVars>>
  BY DEF StopKill
<1>3. QueueInv'
  BY <1>1, <1>2 DEF QueueInv, workerVars
<1>4. Busy => Superseded
  BY <1>1, <1>2 DEF QueueInv, Superseded
<1> QED BY <1>2, <1>3, <1>4, KillInvStep DEF Coming, UIPcs

LEMMA JoinInv ==
    ASSUME IInv, Join
    PROVE  IInv'
<1>1. /\ mpc = "join" /\ mpc' = "exit"
      /\ UNCHANGED <<mishaps, ui, inputs, q, version, pid, content, pipe, workerVars, child>>
  BY DEF Join
<1>2. QueueInv'
  BY <1>1 DEF IInv, QueueInv, workerVars
<1> QED BY <1>1, <1>2, KillInvStep DEF Coming, UIPcs

\* Nobody has the next version yet.
LEMMA NextVersion ==
    ASSUME TypeOK, Bounds
    PROVE  q.promoted < version + 1 /\ w.version # version + 1 /\ content.version # version + 1
<1> DEFINE v == version
           a == q.promoted
           b == w.version
           c == content.version
<1>1. a \in Nat /\ b \in Nat /\ c \in Nat /\ v \in Nat
  BY TypeFacts DEF Typed
<1>2. a <= v /\ b <= v /\ c <= v
  BY DEF Bounds
<1> HIDE DEF v, a, b, c
<1>3. a < v + 1 /\ b # v + 1 /\ c # v + 1
  BY <1>1, <1>2
<1> QED BY <1>3 DEF v, a, b, c

\* Steps that supersede the current run.
LEMMA BumpInv ==
    ASSUME IInv, Coming, ~Coming', version' = version + 1,
           UNCHANGED <<mishaps, inputs, pid, content, pipe, workerVars>>,
           child' \in {child, KillCurrent}, mpc' \in UIPcs,
           ui' \in UI, ui'.size = ui.size, Away' <=> Away,
           q' \in Queue, q'.prefetched = q.prefetched,
           q'.prefetch_gen \in {q.prefetch_gen, q.prefetch_gen + 1},
           q'.promoted \in {q.promoted, version + 1},
           QueueInv'
    PROVE  IInv'
<1>1. TypeOK /\ Bounds /\ RunInv /\ KillInv /\ Typed
  BY TypeFacts DEF IInv
<1>2. wpc' = wpc /\ w' = w
  BY DEF workerVars
<1>3. version \in Nat /\ w.version \in Nat /\ w.version <= version
  BY <1>1 DEF Typed, Bounds
<1>4. version + 1 # w.version
  BY <1>3
<1>5. Superseded'
  BY <1>2, <1>4 DEF Superseded
<1>6. child' \in {child, Killed(child)}
  BY DEF KillCurrent
<1>7. RunInv' /\ KillInv' /\ child' \in Child
  BY <1>1, <1>2, <1>5, <1>6, KillKeeps DEF workerVars
<1>8. /\ version + 1 \in Versions
      /\ \E n : n = Due' /\ (version + 1) + n <= inputs + 1
  <2> DEFINE a == Flag(Coming)
             b == Flag(Away)
  <2>1. a = 1 /\ b \in {0, 1}
    BY FlagIs DEF Flag
  <2>2. version + a + b <= inputs + 1 /\ version \in Nat /\ inputs \in Nat /\ inputs <= MaxInputs
        /\ MaxInputs \in Nat
    BY <1>1, BoundFacts DEF Typed
  <2>3. Due' = 0 + b
    BY DEF Due, Flag
  <2> HIDE DEF a, b
  <2>4. (version + 1) + (0 + b) <= inputs + 1 /\ version + 1 \in 0 .. 2 * MaxInputs + 2
    BY <2>1, <2>2
  <2> QED BY <2>3, <2>4 DEF Versions
<1>9. TypeOK'
  BY <1>1, <1>2, <1>7, <1>8 DEF TypeOK
<1>10. Bounds'
  <2> DEFINE g == q.prefetch_gen
             h == q'.prefetch_gen
             p == q'.promoted
  <2>1. g \in Nat /\ inputs \in Nat /\ g <= version + inputs /\ h \in {g, g + 1} /\ w.gen \in Nat /\ w.gen <= g
    BY <1>1 DEF Typed, Bounds
  <2>2. q.promoted \in Nat /\ q.promoted <= version /\ p \in {q.promoted, version + 1}
        /\ content.version <= version /\ content.version \in Nat
    BY <1>1 DEF Typed, Bounds
  <2> HIDE DEF g, h, p
  <2>3. h <= (version + 1) + inputs /\ w.gen <= h /\ w.version <= version + 1
        /\ content.version <= version + 1
    BY <1>3, <2>1, <2>2
  <2>4. p <= version + 1
    BY <1>3, <2>2
  <2> QED BY <1>1, <1>2, <1>8, <2>3, <2>4 DEF Bounds, g, h, p
<1>11. PrefetchedIsWhole'
  BY DEF IInv, PrefetchedIsWhole, IsWhole
<1> QED BY <1>7, <1>9, <1>10, <1>11 DEF IInv

LEMMA CancelInv ==
    ASSUME IInv, Cancel
    PROVE  IInv'
<1>1. TypeOK /\ Bounds /\ QueueInv /\ Typed
  BY TypeFacts DEF IInv
<1> DEFINE gen == q.prefetch_gen + 1
<1>2. /\ mpc = "cancel" /\ version' = version + 1
      /\ q' = [q EXCEPT !.has_request = FALSE, !.prefetch_queue = <<>>, !.prefetch_gen = gen]
      /\ \/ "late_kill" \in mishaps /\ mpc' = "cancel_kill" /\ child' = child
         \/ mpc' = "set" /\ child' = KillCurrent
      /\ UNCHANGED <<mishaps, ui, inputs, pid, content, pipe, workerVars>>
  BY DEF Cancel
<1>3. gen \in 0 .. 3 * MaxInputs + 3
  <2>1. q.prefetch_gen <= 2 * inputs + 1 /\ inputs \in Nat /\ q.prefetch_gen \in Nat
        /\ inputs <= MaxInputs /\ MaxInputs \in Nat
    BY <1>1, BoundFacts DEF Typed
  <2> QED BY <2>1
<1>g. gen = q.prefetch_gen + 1
  OBVIOUS
<1> HIDE DEF gen
<1>4. <<>> \in Seq(Task)
  OBVIOUS
<1>5. /\ q' \in Queue /\ ~q'.has_request /\ q'.prefetch_queue = <<>> /\ q'.prefetch_gen = gen
      /\ q'.promoted = q.promoted /\ q'.prefetched = q.prefetched /\ q'.stop = q.stop
  BY <1>1, <1>2, <1>3, <1>4 DEF Typed, Queue
<1>6. q.promoted < version + 1 /\ w.version # version + 1
  BY <1>1, NextVersion
<1>7. QueueInv'
  BY <1>1, <1>2, <1>5, <1>6 DEF QueueInv, workerVars
<1>8. Coming /\ ~Coming' /\ mpc' \in UIPcs /\ (Away' <=> Away)
  BY <1>2 DEF Coming, UIPcs, Away
<1> QED BY <1>1, <1>2, <1>5, <1>7, <1>8, <1>g, BumpInv DEF Typed

LEMMA RequestIs ==
    ASSUME TypeOK, Bounds, QueueInv, Request
    PROVE  /\ ui' \in UI /\ q' \in Queue /\ version + 1 \in Versions
           /\ ui'.cy = ui.cy /\ ui'.focused = ui.focused /\ ui'.touched = ui.touched
           /\ ui'.can = ui.can /\ ui'.hidden = ui.hidden /\ ui'.size = ui.size
           /\ ui'.cache = ui.cache /\ ui'.dirty = ui.dirty /\ ui'.shown = ui.shown
           /\ ui'.key = ui.cy /\ ui'.reqv = version + 1
           /\ ui'.prefetch_pending = ui.prefetch_pending /\ ui'.plan = "none"
           /\ q'.prefetch_gen = q.prefetch_gen /\ q'.prefetched = q.prefetched
           /\ q'.prefetch_queue = q.prefetch_queue /\ q'.stop = q.stop
           /\ q'.running_prefetch = q.running_prefetch
           /\ q'.promoted \in {q.promoted, version + 1}
           /\ ~Adoptable => /\ q'.promoted = q.promoted /\ q'.has_request
                            /\ q'.pending = [cmd |-> ui.cy, size |-> ui.size]
           /\ \/ mpc' = ui.back /\ child' \in {child, KillCurrent}
              \/ "late_kill" \in mishaps /\ mpc' = "request_kill" /\ child' = child
           /\ ui.back \in {"batch", "paint"}
<1>1. Typed
  BY TypeFacts
<1> DEFINE v == version + 1
           job == [cmd |-> ui.cy, size |-> ui.size]
<1>2. v \in Versions
  <2>1. version <= inputs + 1 /\ version \in Nat /\ inputs \in Nat /\ inputs <= MaxInputs /\ MaxInputs \in Nat
    BY <1>1, BoundFacts DEF Typed
  <2>2. mpc = "request"
    BY DEF Request
  <2>3. Flag(Coming) = 1
    BY <2>2 DEF Flag, Coming
  <2>4. v <= inputs + 1
    <3> DEFINE b == Flag(Away)
    <3>1. b \in {0, 1} /\ version + 1 + b <= inputs + 1
      BY <2>3, BoundFacts
    <3> HIDE DEF b
    <3> QED BY <2>1, <3>1
  <2> QED BY <2>1, <2>4 DEF Versions
<1>3. job \in Job
  BY <1>1 DEF Typed, Job
<1>4. ui' = [ui EXCEPT !.key = ui.cy, !.reqv = v, !.plan = "none"]
  BY DEF Request
<1>5. IF Adoptable
      THEN q' = [q EXCEPT !.has_request = FALSE, !.promoted = v] /\ mpc' = ui.back /\ child' = child
      ELSE /\ q' = [q EXCEPT !.has_request = TRUE, !.pending = job]
           /\ IF "late_kill" \in mishaps THEN mpc' = "request_kill" /\ child' = child
              ELSE mpc' = ui.back /\ child' = KillCurrent
  BY DEF Request
<1> HIDE DEF v, job
<1>6. ui' \in UI /\ q' \in Queue
  <2>1. ui' \in UI
    BY <1>1, <1>2, <1>4 DEF Typed, UI
  <2>2. q' \in Queue
    BY <1>1, <1>2, <1>3, <1>5 DEF Typed, Queue
  <2> QED BY <2>1, <2>2
<1>7. ui.back \in {"batch", "paint"}
  BY <1>1 DEF Typed, UI
<1>8. /\ q'.prefetch_gen = q.prefetch_gen /\ q'.prefetched = q.prefetched
      /\ q'.prefetch_queue = q.prefetch_queue /\ q'.stop = q.stop
      /\ q'.running_prefetch = q.running_prefetch
      /\ q'.promoted \in {q.promoted, v}
      /\ ~Adoptable => q'.promoted = q.promoted /\ q'.has_request /\ q'.pending = job
  BY <1>1, <1>5 DEF Typed, Queue
<1>9. /\ ui'.cy = ui.cy /\ ui'.focused = ui.focused /\ ui'.touched = ui.touched
      /\ ui'.can = ui.can /\ ui'.hidden = ui.hidden /\ ui'.size = ui.size
      /\ ui'.cache = ui.cache /\ ui'.dirty = ui.dirty /\ ui'.shown = ui.shown
      /\ ui'.key = ui.cy /\ ui'.reqv = v
      /\ ui'.prefetch_pending = ui.prefetch_pending /\ ui'.plan = "none"
  BY <1>1, <1>4 DEF Typed, UI
<1> QED BY <1>2, <1>5, <1>6, <1>7, <1>8, <1>9 DEF v, job

LEMMA RequestInv ==
    ASSUME IInv, Request
    PROVE  IInv'
<1>1. TypeOK /\ Bounds /\ QueueInv /\ Typed
  BY TypeFacts DEF IInv
<1>2. /\ mpc = "request" /\ version' = version + 1
      /\ UNCHANGED <<mishaps, inputs, pid, content, pipe, workerVars>>
  BY DEF Request
<1>3. /\ ui' \in UI /\ q' \in Queue
      /\ ui'.cy = ui.cy /\ ui'.focused = ui.focused /\ ui'.touched = ui.touched /\ ui'.size = ui.size
      /\ ui'.prefetch_pending = ui.prefetch_pending
      /\ q'.prefetch_gen = q.prefetch_gen /\ q'.prefetched = q.prefetched
      /\ q'.prefetch_queue = q.prefetch_queue /\ q'.stop = q.stop
      /\ q'.promoted \in {q.promoted, version + 1}
      /\ \/ mpc' = ui.back /\ child' \in {child, KillCurrent}
         \/ "late_kill" \in mishaps /\ mpc' = "request_kill" /\ child' = child
      /\ ui.back \in {"batch", "paint"}
  BY <1>1, RequestIs
<1>4. w.version # version + 1
  BY <1>1, NextVersion
<1>5. QueueInv'
  BY <1>1, <1>2, <1>3, <1>4 DEF QueueInv, workerVars
<1>6. Coming /\ ~Coming' /\ mpc' \in UIPcs /\ (Away' <=> Away)
  BY <1>2, <1>3 DEF Coming, UIPcs, Away
<1> QED BY <1>2, <1>3, <1>5, <1>6, BumpInv

LEMMA StopVersionInv ==
    ASSUME IInv, StopVersion
    PROVE  IInv'
<1>1. TypeOK /\ Bounds /\ QueueInv /\ Typed
  BY TypeFacts DEF IInv
<1>2. /\ mpc = "stop_version" /\ mpc' = "stop_kill" /\ version' = version + 1
      /\ UNCHANGED <<mishaps, ui, inputs, q, pid, content, pipe, workerVars, child>>
  BY DEF StopVersion
<1>3. q.promoted < version + 1 /\ w.version # version + 1
  BY <1>1, NextVersion
<1>4. QueueInv'
  BY <1>1, <1>2, <1>3 DEF QueueInv, workerVars
<1>5. Coming /\ ~Coming' /\ mpc' \in UIPcs /\ (Away' <=> Away)
  BY <1>2 DEF Coming, UIPcs, Away
<1> QED BY <1>1, <1>2, <1>4, <1>5, BumpInv DEF Typed

\* Steps of the worker: what they may do to the versions and to the queue.
WorkerStep ==
    /\ uiIdle /\ mishaps' = mishaps /\ version' = version
    /\ q'.prefetch_gen = q.prefetch_gen /\ q'.stop = q.stop
    /\ q'.promoted \in {q.promoted, 0}
    /\ q'.has_request => q.has_request
    /\ q.prefetch_queue = <<>> => q'.prefetch_queue = <<>>
    /\ content'.version <= version

LEMMA WorkerFrame ==
    ASSUME IInv, TypeOK', WorkerStep, RunInv', KillInv', PrefetchedIsWhole',
           w'.version <= version, w'.gen <= q.prefetch_gen,
           PrefetchN = 0 => ~w'.prefetch,
           (Busy' /\ mpc \in {"cancel_kill", "set", "stop_kill"}) => w'.version # version,
           (Busy' /\ w'.prefetch /\ mpc = "request_kill") => w'.version # version
    PROVE  IInv'
<1>1. Bounds /\ QueueInv /\ q.promoted \in Nat /\ version \in Nat
  BY TypeFacts DEF IInv, Typed
<1>2. UNCHANGED uiVars /\ mpc' = mpc /\ ui' = ui /\ inputs' = inputs /\ version' = version
  BY DEF WorkerStep, uiIdle, uiVars
<1>3. Due' = Due
  BY <1>2 DEF Due, Flag, Coming, Away
<1>4. q'.promoted <= version
  <2>1. 0 <= version
    BY <1>1
  <2> QED BY <1>1, <2>1 DEF WorkerStep, Bounds
<1>5. Bounds'
  <2>1. /\ version' + Due' <= inputs' + 1
        /\ q'.prefetch_gen <= version' + inputs' /\ ui'.size <= inputs'
    BY <1>1, <1>2, <1>3 DEF Bounds, WorkerStep
  <2>2. /\ w'.version <= version' /\ w'.gen <= q'.prefetch_gen
        /\ q'.promoted <= version' /\ content'.version <= version'
    BY <1>2, <1>4 DEF WorkerStep
  <2> QED BY <2>1, <2>2 DEF Bounds
<1>6. q.promoted < version => q'.promoted < version
  <2>1. q.promoted < version => 0 < version
    BY <1>1
  <2> QED BY <2>1 DEF WorkerStep
<1>7. QueueInv'
  BY <1>1, <1>2, <1>6 DEF QueueInv, WorkerStep
<1> QED BY <1>5, <1>7 DEF IInv

\* A step that keeps the run, or forgets it.
LEMMA SameRun ==
    ASSUME IInv, TypeOK', WorkerStep, RunInv', KillInv', PrefetchedIsWhole', Busy' => Busy,
           \/ w'.version = w.version /\ w'.gen = w.gen /\ w'.prefetch = w.prefetch
           \/ w' = NoRun /\ ~Busy'
    PROVE  IInv'
<1>1. Bounds /\ QueueInv /\ version \in Nat /\ q.prefetch_gen \in Nat
  BY TypeFacts DEF IInv, Typed
<1>2. CASE w'.version = w.version /\ w'.gen = w.gen /\ w'.prefetch = w.prefetch
  BY <1>1, <1>2, WorkerFrame DEF Bounds, QueueInv
<1>3. CASE w' = NoRun /\ ~Busy'
  <2>1. w'.version = 0 /\ w'.gen = 0 /\ ~w'.prefetch
    BY <1>3 DEF NoRun
  <2>2. w'.version <= version /\ w'.gen <= q.prefetch_gen
    BY <1>1, <2>1
  <2> QED BY <1>3, <2>1, <2>2, WorkerFrame
<1> QED BY <1>2, <1>3

\* Such a step leaves the queue alone as well.
LEMMA QuietStep ==
    ASSUME IInv, uiIdle, UNCHANGED <<mishaps, q, version>>, content'.version <= version
    PROVE  WorkerStep /\ PrefetchedIsWhole'
<1>1. q' = q
  OBVIOUS
<1> QED BY <1>1 DEF IInv, WorkerStep, PrefetchedIsWhole, IsWhole

LEMMA TakeInv ==
    ASSUME IInv, Take
    PROVE  IInv'
<1>1. TypeOK /\ Bounds /\ QueueInv /\ RunInv /\ Typed
  BY TypeFacts DEF IInv
<1> DEFINE job == NextJob
           fetch == ~q.has_request
           rest == IF q.has_request THEN q.prefetch_queue ELSE Tail(q.prefetch_queue)
<1>2. /\ wpc = "wait" /\ ~q.stop /\ (q.has_request \/ q.prefetch_queue # <<>>)
      /\ w' = [NoRun EXCEPT !.job = job, !.version = version, !.gen = q.prefetch_gen, !.prefetch = fetch]
      /\ q' = [q EXCEPT !.has_request = FALSE, !.pending = NoJob, !.prefetch_queue = rest,
                        !.running_prefetch = fetch, !.running_command = job.cmd, !.promoted = 0]
      /\ wpc' = "spawn" /\ UNCHANGED <<mishaps, version, pid, content, pipe, child>> /\ uiIdle
  BY DEF Take
<1>3. job \in Job /\ (fetch => job.cmd \in Cmd)
  <2>1. CASE q.has_request
    BY <1>1, <2>1 DEF NextJob, Typed
  <2>2. CASE ~q.has_request
    <3>1. Head(q.prefetch_queue) \in Task
      BY <1>1, <1>2, <2>2 DEF Typed
    <3>2. Task \subseteq Job
      BY PreviewAssumption DEF Task, Job, Cmd
    <3> QED BY <2>2, <3>1, <3>2 DEF NextJob, Task
  <2> QED BY <2>1, <2>2
<1>4. rest \in Seq(Task) /\ (q.prefetch_queue = <<>> => rest = <<>>)
  BY <1>1, <1>2 DEF Typed
<1>5. fetch \in BOOLEAN /\ (PrefetchN = 0 => ~fetch) /\ (fetch => q.prefetch_queue # <<>>)
  BY <1>1, <1>2 DEF QueueInv
<1>6. NoJob \in Job /\ 0 \in Versions /\ 0 \in 0 .. Parts
  BY <1>1 DEF NoJob, Job, None, Size, Versions, Typed
<1>7. q.prefetch_gen \in 0 .. 3 * MaxInputs + 3 /\ version \in Versions
  BY <1>1 DEF TypeOK, Queue
<1>h. fetch <=> ~q.has_request
  OBVIOUS
<1> HIDE DEF job, fetch, rest
<1>8. /\ w' \in Run /\ w'.job = job /\ w'.version = version /\ w'.gen = q.prefetch_gen
      /\ w'.prefetch = fetch /\ w'.acc = 0 /\ ~w'.left /\ ~w'.stale
  BY <1>2, <1>3, <1>5, <1>6, <1>7 DEF Run, NoRun
<1>9. /\ q' \in Queue /\ ~q'.has_request /\ q'.prefetch_queue = rest /\ q'.promoted = 0
      /\ q'.prefetched = q.prefetched /\ q'.stop = q.stop /\ q'.prefetch_gen = q.prefetch_gen
  <2>1. job.cmd \in 0 .. Items
    BY <1>3 DEF Job
  <2> QED BY <1>1, <1>2, <1>4, <1>5, <1>6, <2>1 DEF Typed, Queue
<1>10. TypeOK'
  BY <1>1, <1>2, <1>8, <1>9 DEF TypeOK, uiIdle, uiVars, WorkerPcs
<1>11. RunInv'
  <2>1. child' = NoChild /\ ~HasChild'
    BY <1>1, <1>2 DEF RunInv, HasChild, Busy
  <2>2. NoChild.read = 0 /\ NoChild.printed = 0 /\ NoChild.state = "none"
    BY DEF NoChild
  <2> QED BY <1>2, <1>3, <1>8, <2>1, <2>2 DEF RunInv
<1>12. KillInv'
  BY <1>2 DEF KillInv, HasChild
<1>13. WorkerStep
  BY <1>1, <1>2, <1>4, <1>9 DEF WorkerStep, Bounds
<1>14. PrefetchedIsWhole'
  BY <1>9 DEF IInv, PrefetchedIsWhole, IsWhole
<1>15. mpc \notin {"cancel_kill", "set", "stop_kill"}
  <2>1. mpc \in {"cancel_kill", "set"} => ~q.has_request /\ q.prefetch_queue = <<>>
    BY <1>1 DEF QueueInv
  <2>2. mpc = "stop_kill" => q.stop
    BY <1>1 DEF QueueInv
  <2> QED BY <1>2, <2>1, <2>2
<1>16. mpc = "request_kill" => ~fetch
  BY <1>1, <1>5 DEF QueueInv
<1>17. w'.version <= version /\ w'.gen <= q.prefetch_gen
  BY <1>1, <1>8 DEF Typed
<1> QED BY <1>5, <1>8, <1>10, <1>11, <1>12, <1>13, <1>14, <1>15, <1>16, <1>17, WorkerFrame

LEMMA ExitInv ==
    ASSUME IInv, Exit
    PROVE  IInv'
<1>1. TypeOK /\ Bounds /\ RunInv
  BY DEF IInv
<1>2. /\ wpc = "wait" /\ wpc' = "exit" /\ uiIdle
      /\ UNCHANGED <<mishaps, w, q, version, pid, content, pipe, child>>
  BY DEF Exit
<1>3. TypeOK'
  BY <1>1, <1>2 DEF TypeOK, uiIdle, uiVars, WorkerPcs
<1>4. ~Busy /\ ~Busy' /\ ~HasChild /\ ~HasChild'
  BY <1>2 DEF Busy, HasChild
<1>5. RunInv'
  BY <1>1, <1>2, <1>4 DEF RunInv
<1>6. KillInv'
  BY <1>2, <1>4 DEF KillInv
<1>7. WorkerStep /\ PrefetchedIsWhole'
  BY <1>1, <1>2, QuietStep DEF Bounds
<1> QED BY <1>2, <1>3, <1>4, <1>5, <1>6, <1>7, SameRun

\* The process is the worker's own while it has one.
LEMMA ChildFacts ==
    ASSUME TypeOK, RunInv
    PROVE  /\ child.read \in Nat /\ child.printed \in Nat /\ child.printed <= Parts /\ Parts \in Nat \ {0}
           /\ child \in Child /\ w \in Run
           /\ HasChild => child.job = w.job
<1>1. child \in Child /\ w \in Run /\ child.printed \in 0 .. Parts /\ child.read \in 0 .. Parts
      /\ Parts \in Nat \ {0}
  BY TypeFacts DEF Typed
<1>2. HasChild => child.job = w.job
  BY DEF RunInv
<1> QED BY <1>1, <1>2

LEMMA SpawnInv ==
    ASSUME IInv, Spawn
    PROVE  IInv'
<1>1. TypeOK /\ Bounds /\ RunInv /\ Typed
  BY TypeFacts DEF IInv
<1> DEFINE s == IF "late_group" \in mishaps THEN "born" ELSE "run"
<1>2. /\ wpc = "spawn" /\ wpc' = "publish" /\ uiIdle
      /\ child' = [NoChild EXCEPT !.state = s, !.job = w.job]
      /\ UNCHANGED <<mishaps, w, q, version, pid, content, pipe>>
  BY DEF Spawn
<1>3. s \in {"born", "run"}
  OBVIOUS
<1> HIDE DEF s
<1>4. child' = [state |-> s, job |-> w.job, printed |-> 0, read |-> 0]
  BY <1>2 DEF NoChild
<1>5. 0 \in 0 .. Parts /\ w.job \in Job
  BY <1>1 DEF Typed
<1>6. child' \in Child
  BY <1>3, <1>4, <1>5 DEF Child
<1>7. TypeOK'
  BY <1>1, <1>2, <1>6 DEF TypeOK, uiIdle, uiVars, WorkerPcs
<1>8. Busy /\ Busy' /\ HasChild'
  BY <1>2 DEF Busy, HasChild
<1>9. RunInv'
  <2>1. /\ child'.state \in {"born", "run"} /\ child'.job = w.job
        /\ child'.printed = 0 /\ child'.read = 0
    BY <1>3, <1>4
  <2>2. ~w.left /\ ~w.stale /\ w.acc = 0 /\ w' = w
    BY <1>1, <1>2 DEF RunInv
  <2>3. w.prefetch => w.job.cmd \in Cmd
    BY <1>1 DEF RunInv
  <2> QED BY <1>2, <1>8, <2>1, <2>2, <2>3 DEF RunInv
<1>10. KillInv'
  BY <1>2, <1>3, <1>4 DEF KillInv, Hit
<1>11. WorkerStep /\ PrefetchedIsWhole'
  BY <1>1, <1>2, QuietStep DEF Bounds
<1> QED BY <1>2, <1>7, <1>8, <1>9, <1>10, <1>11, SameRun

LEMMA SpawnFailsInv ==
    ASSUME IInv, SpawnFails
    PROVE  IInv'
<1>1. TypeOK /\ Bounds /\ RunInv /\ Typed
  BY TypeFacts DEF IInv
<1>2. /\ wpc = "spawn" /\ wpc' = "wake" /\ uiIdle
      /\ content' = IF w.prefetch THEN content
                    ELSE [text |-> FailText, version |-> w.version, complete |-> TRUE]
      /\ q' = [q EXCEPT !.running_prefetch = FALSE]
      /\ w' = [w EXCEPT !.left = TRUE]
      /\ UNCHANGED <<mishaps, version, pid, pipe, child>>
  BY DEF SpawnFails
<1>3. /\ w' \in Run /\ w'.job = w.job /\ w'.version = w.version /\ w'.gen = w.gen
      /\ w'.prefetch = w.prefetch /\ w'.acc = w.acc /\ w'.left /\ w'.stale = w.stale
  BY <1>1, <1>2 DEF Typed, Run
<1>4. /\ q' \in Queue /\ q'.prefetch_gen = q.prefetch_gen /\ q'.stop = q.stop /\ q'.promoted = q.promoted
      /\ q'.has_request = q.has_request /\ q'.prefetch_queue = q.prefetch_queue
      /\ q'.prefetched = q.prefetched
  BY <1>1, <1>2 DEF Typed, Queue
<1>5. w.version \in Versions
  BY <1>1 DEF Typed, Run
<1>6. FailText \in Texts
  BY <1>1, TextType DEF Typed
<1>7. content' \in Content /\ content'.version \in {content.version, w.version}
  BY <1>1, <1>2, <1>5, <1>6 DEF Typed, Content
<1>8. TypeOK'
  BY <1>1, <1>2, <1>3, <1>4, <1>7 DEF TypeOK, uiIdle, uiVars, WorkerPcs
<1>9. Busy /\ ~Busy' /\ ~HasChild /\ ~HasChild'
  BY <1>2, <1>3 DEF Busy, HasChild
<1>10. RunInv'
  BY <1>1, <1>2, <1>3, <1>9 DEF RunInv
<1>11. KillInv'
  BY <1>2, <1>9 DEF KillInv
<1>12. content'.version <= version
  BY <1>1, <1>7 DEF Bounds
<1>13. WorkerStep
  BY <1>2, <1>4, <1>12 DEF WorkerStep
<1>14. PrefetchedIsWhole'
  BY <1>4 DEF IInv, PrefetchedIsWhole, IsWhole
<1> QED BY <1>3, <1>8, <1>9, <1>10, <1>11, <1>13, <1>14, SameRun

LEMMA PublishPidInv ==
    ASSUME IInv, PublishPid
    PROVE  IInv'
<1>1. TypeOK /\ Bounds /\ RunInv /\ KillInv
  BY DEF IInv
<1>2. /\ wpc = "publish" /\ wpc' = "recheck" /\ uiIdle /\ pid' = TRUE
      /\ UNCHANGED <<mishaps, w, q, version, content, pipe, child>>
  BY DEF PublishPid
<1>3. TypeOK'
  BY <1>1, <1>2 DEF TypeOK, uiIdle, uiVars, WorkerPcs
<1>4. Busy /\ Busy' /\ HasChild /\ HasChild'
  BY <1>2 DEF Busy, HasChild
<1>5. RunInv'
  BY <1>1, <1>2, <1>4 DEF RunInv
<1>6. KillInv'
  BY <1>1, <1>2, <1>4 DEF KillInv, Spared, Hit, Superseded
<1>7. WorkerStep /\ PrefetchedIsWhole'
  BY <1>1, <1>2, QuietStep DEF Bounds
<1> QED BY <1>2, <1>3, <1>4, <1>5, <1>6, <1>7, SameRun

LEMMA RecheckInv ==
    ASSUME IInv, Recheck
    PROVE  IInv'
<1>1. TypeOK /\ Bounds /\ RunInv /\ KillInv /\ Typed
  BY TypeFacts DEF IInv
<1>2. /\ wpc = "recheck" /\ wpc' = (IF w.prefetch THEN "read" ELSE "open") /\ uiIdle
      /\ child' = IF Superseded THEN Killed(child) ELSE child
      /\ UNCHANGED <<mishaps, w, q, version, pid, content, pipe>>
  BY DEF Recheck
<1>3. /\ child' \in Child /\ child'.job = child.job /\ child'.printed = child.printed
      /\ child'.read = child.read
      /\ child'.state \in {child.state, "dead"} /\ (child.state # "none" => child'.state # "none")
      /\ ~Superseded => child' = child
  BY <1>1, <1>2, KilledIs DEF Typed
<1>4. TypeOK'
  BY <1>1, <1>2, <1>3 DEF TypeOK, uiIdle, uiVars, WorkerPcs
<1>5. Busy /\ Busy' /\ HasChild /\ HasChild'
  BY <1>2 DEF Busy, HasChild
<1>6. RunInv'
  BY <1>1, <1>2, <1>3, <1>5 DEF RunInv
<1>7. KillInv'
  BY <1>1, <1>2, <1>3, <1>5 DEF KillInv, Spared, Hit, Superseded
<1>8. WorkerStep /\ PrefetchedIsWhole'
  BY <1>1, <1>2, QuietStep DEF Bounds
<1> QED BY <1>2, <1>4, <1>5, <1>6, <1>7, <1>8, SameRun

LEMMA OpenInv ==
    ASSUME IInv, Open
    PROVE  IInv'
<1>1. TypeOK /\ Bounds /\ RunInv /\ KillInv /\ Typed
  BY TypeFacts DEF IInv
<1>2. /\ wpc = "open" /\ wpc' = "read" /\ uiIdle
      /\ content' = [content EXCEPT !.version = w.version, !.complete = FALSE]
      /\ UNCHANGED <<mishaps, w, q, version, pid, pipe, child>>
  BY DEF Open
<1>3. w.version \in Versions
  BY <1>1 DEF Typed, Run
<1>4. content' \in Content /\ content'.version = w.version
  BY <1>1, <1>2, <1>3 DEF Typed, Content
<1>5. TypeOK'
  BY <1>1, <1>2, <1>4 DEF TypeOK, uiIdle, uiVars, WorkerPcs
<1>6. Busy /\ Busy' /\ HasChild /\ HasChild'
  BY <1>2 DEF Busy, HasChild
<1>7. RunInv'
  BY <1>1, <1>2, <1>6 DEF RunInv
<1>8. KillInv'
  BY <1>1, <1>2, <1>6 DEF KillInv, Spared, Hit, Superseded
<1>9. content'.version <= version
  BY <1>1, <1>4 DEF Bounds
<1>10. WorkerStep /\ PrefetchedIsWhole'
  BY <1>2, <1>9, QuietStep
<1> QED BY <1>2, <1>5, <1>6, <1>7, <1>8, <1>10, SameRun

LEMMA ReadPieceInv ==
    ASSUME IInv, ReadPiece
    PROVE  IInv'
<1>1. TypeOK /\ Bounds /\ RunInv /\ KillInv /\ Typed
  BY TypeFacts DEF IInv
<1>2. /\ wpc = "read" /\ wpc' = AfterRead /\ uiIdle
      /\ UNCHANGED <<mishaps, w, q, version, pid, content, pipe>>
  BY DEF ReadPiece
<1>3. PICK n \in child.read + 1 .. child.printed : child' = [child EXCEPT !.read = n]
  BY DEF ReadPiece
<1>4. n \in 0 .. Parts /\ n <= child.printed
  <2> DEFINE a == child.read
             b == child.printed
  <2>1. a \in Nat /\ b \in Nat /\ b <= Parts /\ Parts \in Nat /\ n \in a + 1 .. b
    BY <1>1, ChildFacts
  <2> HIDE DEF a, b
  <2>2. n \in 0 .. Parts /\ n <= b
    BY <2>1
  <2> QED BY <2>2 DEF b
<1>5. /\ child' \in Child /\ child'.job = child.job /\ child'.printed = child.printed
      /\ child'.read = n /\ child'.state = child.state
  BY <1>1, <1>3, <1>4 DEF Typed, Child
<1>6. wpc' = (IF w.prefetch THEN "promote" ELSE "check")
  BY <1>2 DEF AfterRead
<1>7. TypeOK'
  BY <1>1, <1>2, <1>5, <1>6 DEF TypeOK, uiIdle, uiVars, WorkerPcs
<1>8. Busy /\ Busy' /\ HasChild /\ HasChild'
  BY <1>2, <1>6 DEF Busy, HasChild
<1>9. RunInv'
  BY <1>1, <1>2, <1>4, <1>5, <1>6, <1>8 DEF RunInv
<1>10. KillInv'
  BY <1>1, <1>2, <1>5, <1>6, <1>8 DEF KillInv, Spared, Hit, Superseded
<1>11. WorkerStep /\ PrefetchedIsWhole'
  BY <1>1, <1>2, QuietStep DEF Bounds
<1> QED BY <1>2, <1>7, <1>8, <1>9, <1>10, <1>11, SameRun

LEMMA ReadEndInv ==
    ASSUME IInv, ReadEnd
    PROVE  IInv'
<1>1. TypeOK /\ Bounds /\ RunInv /\ KillInv /\ Typed
  BY TypeFacts DEF IInv
<1>2. /\ wpc = "read" /\ wpc' = AfterRead /\ uiIdle /\ w' = [w EXCEPT !.left = TRUE]
      /\ child.read = child.printed /\ child.state \in {"quiet", "dead"}
      /\ UNCHANGED <<mishaps, q, version, pid, content, pipe, child>>
  BY DEF ReadEnd
<1>3. /\ w' \in Run /\ w'.job = w.job /\ w'.version = w.version /\ w'.gen = w.gen
      /\ w'.prefetch = w.prefetch /\ w'.acc = w.acc /\ w'.left /\ w'.stale = w.stale
  BY <1>1, <1>2 DEF Typed, Run
<1>4. wpc' = (IF w.prefetch THEN "promote" ELSE "check")
  BY <1>2 DEF AfterRead
<1>5. TypeOK'
  BY <1>1, <1>2, <1>3, <1>4 DEF TypeOK, uiIdle, uiVars, WorkerPcs
<1>6. Busy /\ Busy' /\ HasChild /\ HasChild'
  BY <1>2, <1>4 DEF Busy, HasChild
<1>7. RunInv'
  BY <1>1, <1>2, <1>3, <1>4, <1>6 DEF RunInv
<1>8. KillInv'
  BY <1>1, <1>2, <1>3, <1>4, <1>6 DEF KillInv, Spared, Hit, Superseded
<1>9. WorkerStep /\ PrefetchedIsWhole'
  BY <1>1, <1>2, QuietStep DEF Bounds
<1> QED BY <1>2, <1>3, <1>5, <1>6, <1>7, <1>8, <1>9, SameRun

\* An adopted prefetch is not spared any more.
LEMMA PromoteInv ==
    ASSUME IInv, Promote
    PROVE  IInv'
<1>1. TypeOK /\ Bounds /\ QueueInv /\ RunInv /\ KillInv /\ Typed
  BY TypeFacts DEF IInv
<1>2. wpc = "promote" /\ uiIdle /\ UNCHANGED <<mishaps, version, pid, content, pipe, child>>
  BY DEF Promote
<1>3. Busy /\ HasChild
  BY <1>2 DEF Busy, HasChild
<1>4. CASE q.promoted = 0
  <2>1. q' = q /\ w' = w /\ wpc' = "check"
    BY <1>4 DEF Promote
  <2>2. TypeOK'
    BY <1>1, <1>2, <2>1 DEF TypeOK, uiIdle, uiVars, WorkerPcs
  <2>3. Busy' /\ HasChild'
    BY <2>1 DEF Busy, HasChild
  <2>4. RunInv'
    BY <1>1, <1>2, <1>3, <2>1, <2>3 DEF RunInv
  <2>5. KillInv'
    BY <1>1, <1>2, <1>3, <2>1, <2>3 DEF KillInv, Spared, Hit, Superseded
  <2>6. WorkerStep /\ PrefetchedIsWhole'
    BY <1>1, <1>2, <2>1, QuietStep DEF Bounds
  <2> QED BY <1>3, <2>1, <2>2, <2>4, <2>5, <2>6, SameRun
<1>5. CASE q.promoted # 0
  <2>1. /\ q' = [q EXCEPT !.promoted = 0, !.running_prefetch = FALSE]
        /\ w' = [w EXCEPT !.prefetch = FALSE, !.version = q.promoted]
        /\ wpc' = "adopt"
    BY <1>5 DEF Promote
  <2>2. q.promoted \in Versions /\ 0 \in Versions
    BY <1>1 DEF Typed, Queue, Versions
  <2>3. /\ w' \in Run /\ w'.job = w.job /\ w'.version = q.promoted /\ w'.gen = w.gen
        /\ ~w'.prefetch /\ w'.acc = w.acc /\ w'.left = w.left /\ w'.stale = w.stale
    BY <1>1, <2>1, <2>2 DEF Typed, Run
  <2>4. /\ q' \in Queue /\ q'.prefetch_gen = q.prefetch_gen /\ q'.stop = q.stop /\ q'.promoted = 0
        /\ q'.has_request = q.has_request /\ q'.prefetch_queue = q.prefetch_queue
        /\ q'.prefetched = q.prefetched
    BY <1>1, <2>1, <2>2 DEF Typed, Queue
  <2>5. TypeOK'
    BY <1>1, <1>2, <2>1, <2>3, <2>4 DEF TypeOK, uiIdle, uiVars, WorkerPcs
  <2>6. Busy' /\ HasChild'
    BY <2>1 DEF Busy, HasChild
  <2>7. RunInv'
    BY <1>1, <1>2, <1>3, <2>1, <2>3, <2>6 DEF RunInv
  <2>8. KillInv'
    <3>1. w.prefetch
      BY <1>1, <1>2 DEF RunInv
    <3>2. PrefetchN # 0
      BY <1>1, <3>1 DEF QueueInv
    <3> QED BY <2>3, <3>2 DEF KillInv, Spared
  <2>9. content'.version <= version
    BY <1>1, <1>2 DEF Bounds
  <2>10. WorkerStep
    BY <1>2, <2>4, <2>9 DEF WorkerStep
  <2>11. PrefetchedIsWhole'
    BY <2>4 DEF IInv, PrefetchedIsWhole, IsWhole
  <2>12. w'.version <= version /\ w'.gen <= q.prefetch_gen
    BY <1>1, <2>3 DEF Bounds
  <2>13. mpc \in {"cancel_kill", "set", "stop_kill"} => w'.version # version
    BY <1>1, <2>3 DEF QueueInv, Typed
  <2> QED BY <2>3, <2>5, <2>7, <2>8, <2>10, <2>11, <2>12, <2>13, WorkerFrame
<1> QED BY <1>4, <1>5

LEMMA AdoptInv ==
    ASSUME IInv, Adopt
    PROVE  IInv'
<1>1. TypeOK /\ Bounds /\ RunInv /\ KillInv /\ Typed
  BY TypeFacts DEF IInv
<1>2. /\ wpc = "adopt" /\ wpc' = "check" /\ uiIdle /\ pipe' = TRUE
      /\ content' = [text |-> Text(w.job, w.acc), version |-> w.version, complete |-> FALSE]
      /\ UNCHANGED <<mishaps, w, q, version, pid, child>>
  BY DEF Adopt
<1>3. w.version \in Versions /\ Text(w.job, w.acc) \in Texts
  BY <1>1, TextType DEF Typed, Run
<1>4. content' \in Content /\ content'.version = w.version
  BY <1>2, <1>3 DEF Content
<1>5. TypeOK'
  BY <1>1, <1>2, <1>4 DEF TypeOK, uiIdle, uiVars, WorkerPcs
<1>6. Busy /\ Busy' /\ HasChild /\ HasChild'
  BY <1>2 DEF Busy, HasChild
<1>7. RunInv'
  BY <1>1, <1>2, <1>6 DEF RunInv
<1>8. KillInv'
  BY <1>1, <1>2, <1>6 DEF KillInv, Spared, Hit, Superseded
<1>9. content'.version <= version
  BY <1>1, <1>4 DEF Bounds
<1>10. WorkerStep /\ PrefetchedIsWhole'
  BY <1>2, <1>9, QuietStep
<1> QED BY <1>2, <1>5, <1>6, <1>7, <1>8, <1>10, SameRun

\* A run that is still current when its output has ended has been read whole.
LEMMA WholeAtEnd ==
    ASSUME TypeOK, RunInv, KillInv, Spared, ~w.stale, HasChild, w.left, ~Superseded
    PROVE  WholeRun
<1>1. ~Hit
  BY DEF KillInv
<1>2. child.state \in {"quiet", "dead"} /\ child.read = child.printed /\ w.acc = child.read
      /\ child.job = w.job
  BY DEF RunInv
<1>3. child.read \in Nat /\ child.printed <= Parts /\ Parts \in Nat
  BY ChildFacts
<1>4. CASE w.job.cmd \in Endless
  BY <1>2, <1>4 DEF RunInv, WholeRun
<1>5. CASE w.job.cmd \notin Endless
  <2>1. child.state = "dead" /\ ~(child.printed < Parts)
    BY <1>1, <1>2, <1>5 DEF RunInv, Hit
  <2> DEFINE n == child.printed
  <2>2. n \in Nat /\ n <= Parts /\ ~(n < Parts) /\ w.acc = n
    BY <1>2, <1>3, <2>1
  <2> HIDE DEF n
  <2>3. n = Parts
    BY <1>3, <2>2
  <2> QED BY <1>5, <2>2, <2>3 DEF WholeRun
<1> QED BY <1>4, <1>5

LEMMA CheckInv ==
    ASSUME IInv, Check
    PROVE  IInv'
<1>1. TypeOK /\ Bounds /\ RunInv /\ KillInv /\ Typed
  BY TypeFacts DEF IInv
<1>2. /\ wpc = "check" /\ uiIdle /\ UNCHANGED <<mishaps, q, version, pid, content, pipe, child>>
  BY DEF Check
<1>3. Busy /\ HasChild
  BY <1>2 DEF Busy, HasChild
<1>4. WorkerStep /\ PrefetchedIsWhole'
  BY <1>1, <1>2, QuietStep DEF Bounds
<1>5. CASE w.left
  <2> DEFINE s == w.stale \/ Superseded
  <2>1. w' = [w EXCEPT !.stale = s] /\ wpc' = "close"
    BY <1>5 DEF Check
  <2>2. s \in BOOLEAN
    BY <1>1 DEF Typed, Run, Superseded
  <2>3. s <=> (w.stale \/ Superseded)
    OBVIOUS
  <2> HIDE DEF s
  <2>4. /\ w' \in Run /\ w'.job = w.job /\ w'.version = w.version /\ w'.gen = w.gen
        /\ w'.prefetch = w.prefetch /\ w'.acc = w.acc /\ w'.left /\ w'.stale = s
    BY <1>1, <1>5, <2>1, <2>2 DEF Typed, Run
  <2>5. TypeOK'
    BY <1>1, <1>2, <2>1, <2>4 DEF TypeOK, uiIdle, uiVars, WorkerPcs
  <2>6. Busy' /\ HasChild'
    BY <2>1 DEF Busy, HasChild
  <2>7. RunInv'
    BY <1>1, <1>2, <1>3, <1>5, <2>1, <2>3, <2>4, <2>6 DEF RunInv
  <2>8. KillInv'
    <3> SUFFICES ASSUME Spared', ~s PROVE ~Hit /\ WholeRun
      BY <1>2, <2>1, <2>4 DEF KillInv, Hit, WholeRun
    <3>1. Spared
      BY <1>2, <2>4 DEF Spared
    <3>2. ~w.stale /\ ~Superseded
      BY <2>3
    <3>3. WholeRun
      BY <1>1, <1>3, <1>5, <3>1, <3>2, WholeAtEnd
    <3> QED BY <1>1, <1>3, <3>1, <3>2, <3>3 DEF KillInv
  <2> QED BY <1>3, <1>4, <2>4, <2>5, <2>7, <2>8, SameRun
<1>6. CASE ~w.left /\ Superseded
  <2>1. w' = [w EXCEPT !.left = TRUE, !.stale = TRUE] /\ wpc' = (IF w.prefetch THEN "promote" ELSE "check")
    BY <1>6 DEF Check, AfterRead
  <2>4. /\ w' \in Run /\ w'.job = w.job /\ w'.version = w.version /\ w'.gen = w.gen
        /\ w'.prefetch = w.prefetch /\ w'.acc = w.acc /\ w'.left /\ w'.stale
    BY <1>1, <2>1 DEF Typed, Run
  <2>5. TypeOK'
    BY <1>1, <1>2, <2>1, <2>4 DEF TypeOK, uiIdle, uiVars, WorkerPcs
  <2>6. Busy' /\ HasChild'
    BY <2>1 DEF Busy, HasChild
  <2>7. RunInv'
    BY <1>1, <1>2, <1>3, <2>1, <2>4, <2>6 DEF RunInv
  <2>8. KillInv'
    BY <2>4 DEF KillInv
  <2> QED BY <1>3, <1>4, <2>4, <2>5, <2>7, <2>8, SameRun
<1>7. CASE ~w.left /\ ~Superseded
  <2>1. w' = [w EXCEPT !.acc = child.read] /\ wpc' = (IF w.prefetch THEN "read" ELSE "show")
    BY <1>7 DEF Check
  <2>4. /\ w' \in Run /\ w'.job = w.job /\ w'.version = w.version /\ w'.gen = w.gen
        /\ w'.prefetch = w.prefetch /\ w'.acc = child.read /\ ~w'.left /\ w'.stale = w.stale
    BY <1>1, <1>7, <2>1 DEF Typed, Run
  <2>5. TypeOK'
    BY <1>1, <1>2, <2>1, <2>4 DEF TypeOK, uiIdle, uiVars, WorkerPcs
  <2>6. Busy' /\ HasChild'
    BY <2>1 DEF Busy, HasChild
  <2>7. RunInv'
    BY <1>1, <1>2, <1>3, <1>7, <2>1, <2>4, <2>6 DEF RunInv
  <2>8. KillInv'
    BY <1>1, <1>2, <1>3, <2>1, <2>4 DEF KillInv, Spared, Hit, Superseded
  <2> QED BY <1>3, <1>4, <2>4, <2>5, <2>7, <2>8, SameRun
<1> QED BY <1>5, <1>6, <1>7

LEMMA ShowInv ==
    ASSUME IInv, Show
    PROVE  IInv'
<1>1. TypeOK /\ Bounds /\ RunInv /\ KillInv /\ Typed
  BY TypeFacts DEF IInv
<1>2. /\ wpc = "show" /\ wpc' = "wake" /\ uiIdle
      /\ content' = IF content.version = w.version
                      THEN [content EXCEPT !.text = Text(w.job, w.acc)] ELSE content
      /\ UNCHANGED <<mishaps, w, q, version, pid, pipe, child>>
  BY DEF Show
<1>3. Text(w.job, w.acc) \in Texts
  BY <1>1, TextType DEF Typed
<1>4. content' \in Content /\ content'.version = content.version
  BY <1>1, <1>2, <1>3 DEF Typed, Content
<1>5. TypeOK'
  BY <1>1, <1>2, <1>4 DEF TypeOK, uiIdle, uiVars, WorkerPcs
<1>6. ~w.left
  BY <1>1, <1>2 DEF RunInv
<1>7. Busy /\ Busy' /\ HasChild /\ HasChild'
  BY <1>2, <1>6 DEF Busy, HasChild
<1>8. RunInv'
  BY <1>1, <1>2, <1>6, <1>7 DEF RunInv
<1>9. KillInv'
  BY <1>1, <1>2, <1>7 DEF KillInv, Spared, Hit, Superseded
<1>10. content'.version <= version
  BY <1>1, <1>4 DEF Bounds
<1>11. WorkerStep /\ PrefetchedIsWhole'
  BY <1>2, <1>10, QuietStep
<1> QED BY <1>2, <1>5, <1>7, <1>8, <1>9, <1>11, SameRun

LEMMA NoRunType == NoRun \in Run
<1>1. MaxInputs \in Nat /\ Parts \in Nat /\ Items \in Nat
  BY PreviewAssumption
<1>2. 0 \in Versions /\ 0 \in 0 .. Parts /\ 0 \in Size /\ 0 \in 0 .. Items /\ 0 \in 0 .. 3 * MaxInputs + 3
  BY <1>1 DEF Versions, Size
<1> QED BY <1>2 DEF NoRun, Run, NoJob, Job, None

\* What holds of the worker without a run.
LEMMA NoRunInv ==
    ASSUME child' = NoChild, w' = NoRun, wpc' = "wait"
    PROVE  RunInv' /\ KillInv' /\ ~Busy'
<1>1. ~HasChild' /\ ~Busy'
  BY DEF HasChild, Busy
<1>2. NoChild.read = 0 /\ NoChild.printed = 0 /\ NoChild.state = "none"
  BY DEF NoChild
<1>3. ~w'.left /\ ~w'.stale /\ ~w'.prefetch
  BY DEF NoRun
<1>4. RunInv'
  BY <1>1, <1>2, <1>3 DEF RunInv
<1>5. KillInv'
  BY <1>1 DEF KillInv
<1> QED BY <1>1, <1>4, <1>5

LEMMA WakeUIInv ==
    ASSUME IInv, WakeUI
    PROVE  IInv'
<1>1. TypeOK /\ Bounds /\ RunInv /\ KillInv /\ Typed
  BY TypeFacts DEF IInv
<1>2. /\ wpc = "wake" /\ uiIdle /\ pipe' = TRUE
      /\ UNCHANGED <<mishaps, q, version, pid, content, child>>
  BY DEF WakeUI
<1>3. WorkerStep /\ PrefetchedIsWhole'
  BY <1>1, <1>2, QuietStep DEF Bounds
<1>4. CASE w.left
  <2>1. wpc' = "wait" /\ w' = NoRun
    BY <1>4 DEF WakeUI
  <2>2. TypeOK'
    BY <1>1, <1>2, <2>1, NoRunType DEF TypeOK, uiIdle, uiVars, WorkerPcs
  <2>3. child' = NoChild
    BY <1>1, <1>2, <1>4 DEF RunInv, HasChild, Busy
  <2>4. RunInv' /\ KillInv' /\ ~Busy'
    BY <2>1, <2>3, NoRunInv
  <2> QED BY <1>3, <2>1, <2>2, <2>4, SameRun
<1>5. CASE ~w.left
  <2>1. wpc' = "read" /\ w' = w
    BY <1>5 DEF WakeUI
  <2>2. TypeOK'
    BY <1>1, <1>2, <2>1 DEF TypeOK, uiIdle, uiVars, WorkerPcs
  <2>3. Busy /\ Busy' /\ HasChild /\ HasChild'
    BY <1>2, <1>5, <2>1 DEF HasChild, Busy
  <2>4. RunInv'
    BY <1>1, <1>2, <1>5, <2>1, <2>3 DEF RunInv
  <2>5. KillInv'
    BY <1>1, <1>2, <2>1, <2>3 DEF KillInv, Spared, Hit, Superseded
  <2> QED BY <1>3, <2>1, <2>2, <2>3, <2>4, <2>5, SameRun
<1> QED BY <1>4, <1>5

LEMMA CloseInv ==
    ASSUME IInv, Close
    PROVE  IInv'
<1>1. TypeOK /\ Bounds /\ RunInv /\ KillInv /\ Typed
  BY TypeFacts DEF IInv
<1>2. /\ wpc = "close" /\ wpc' = (IF w.stale THEN "kill" ELSE "reap") /\ uiIdle /\ pid' = FALSE
      /\ UNCHANGED <<mishaps, w, q, version, content, pipe, child>>
  BY DEF Close
<1>3. TypeOK'
  BY <1>1, <1>2 DEF TypeOK, uiIdle, uiVars, WorkerPcs
<1>4. Busy /\ Busy' /\ HasChild /\ HasChild'
  BY <1>2 DEF Busy, HasChild
<1>5. RunInv'
  BY <1>1, <1>2, <1>4 DEF RunInv
<1>6. KillInv'
  BY <1>1, <1>2, <1>4 DEF KillInv, Spared, Hit, Superseded, WholeRun
<1>7. WorkerStep /\ PrefetchedIsWhole'
  BY <1>1, <1>2, QuietStep DEF Bounds
<1> QED BY <1>2, <1>3, <1>4, <1>5, <1>6, <1>7, SameRun

LEMMA KillStaleInv ==
    ASSUME IInv, KillStale
    PROVE  IInv'
<1>1. TypeOK /\ Bounds /\ RunInv /\ KillInv /\ Typed
  BY TypeFacts DEF IInv
<1>2. /\ wpc = "kill" /\ wpc' = "reap" /\ uiIdle /\ child' = Killed(child)
      /\ UNCHANGED <<mishaps, w, q, version, pid, content, pipe>>
  BY DEF KillStale
<1>3. /\ child' \in Child /\ child'.job = child.job /\ child'.printed = child.printed
      /\ child'.read = child.read
      /\ child'.state \in {child.state, "dead"} /\ (child.state # "none" => child'.state # "none")
  BY <1>1, <1>2, KilledIs DEF Typed
<1>4. TypeOK'
  BY <1>1, <1>2, <1>3 DEF TypeOK, uiIdle, uiVars, WorkerPcs
<1>5. Busy /\ Busy' /\ HasChild /\ HasChild' /\ w.stale
  BY <1>1, <1>2 DEF Busy, HasChild, RunInv
<1>6. RunInv'
  BY <1>1, <1>2, <1>3, <1>5 DEF RunInv
<1>7. KillInv'
  BY <1>2, <1>5 DEF KillInv
<1>8. WorkerStep /\ PrefetchedIsWhole'
  BY <1>1, <1>2, QuietStep DEF Bounds
<1> QED BY <1>2, <1>4, <1>5, <1>6, <1>7, <1>8, SameRun

LEMMA ReapInv ==
    ASSUME IInv, Reap
    PROVE  IInv'
<1>1. TypeOK /\ Bounds /\ RunInv /\ KillInv /\ Typed
  BY TypeFacts DEF IInv
<1>2. /\ wpc = "reap" /\ wpc' = "finish" /\ uiIdle /\ child.state = "dead" /\ child' = NoChild
      /\ UNCHANGED <<mishaps, w, q, version, pid, content, pipe>>
  BY DEF Reap
<1>3. child' \in Child
  <2>1. 0 \in 0 .. Parts /\ 0 \in Size /\ 0 \in 0 .. Items
    BY <1>1 DEF Typed, Size
  <2> QED BY <1>2, <2>1 DEF NoChild, Child, NoJob, Job, None
<1>4. TypeOK'
  BY <1>1, <1>2, <1>3 DEF TypeOK, uiIdle, uiVars, WorkerPcs
<1>5. Busy /\ Busy' /\ HasChild /\ ~HasChild'
  BY <1>2 DEF Busy, HasChild
<1>6. RunInv'
  <2>1. NoChild.read = 0 /\ NoChild.printed = 0 /\ NoChild.state = "none"
    BY DEF NoChild
  <2>2. w.left /\ w' = w /\ (w.prefetch => w.job.cmd \in Cmd)
    BY <1>1, <1>2 DEF RunInv
  <2> QED BY <1>2, <1>5, <2>1, <2>2 DEF RunInv
<1>7. KillInv'
  <2> SUFFICES ASSUME Spared, ~w.stale
               PROVE  (w.job.cmd \in Endless => Superseded) /\ WholeRun
    BY <1>2, <1>5 DEF KillInv, Spared, Superseded, WholeRun
  <2>1. WholeRun /\ (Hit => Superseded)
    BY <1>1, <1>2, <1>5 DEF KillInv
  <2>2. w.job.cmd \in Endless => Hit
    BY <1>1, <1>2, <1>5 DEF RunInv, Hit
  <2> QED BY <2>1, <2>2
<1>8. WorkerStep /\ PrefetchedIsWhole'
  BY <1>1, <1>2, QuietStep DEF Bounds
<1> QED BY <1>2, <1>4, <1>5, <1>6, <1>7, <1>8, SameRun

\* A prefetch that is not stale was read whole.
LEMMA FinishInv ==
    ASSUME IInv, Finish
    PROVE  IInv'
<1>1. TypeOK /\ Bounds /\ RunInv /\ KillInv /\ Typed
  BY TypeFacts DEF IInv
<1> DEFINE e == [key |-> w.job.cmd, text |-> Text(w.job, w.acc)]
           all == IF ~w.stale /\ w.prefetch THEN Append(q.prefetched, e) ELSE q.prefetched
<1>2. /\ wpc = "finish" /\ uiIdle /\ UNCHANGED <<mishaps, version, pid, content, pipe, child>>
      /\ q' = [q EXCEPT !.running_prefetch = FALSE, !.running_command = None, !.prefetched = all]
      /\ wpc' = (IF w.stale THEN "wait" ELSE IF w.prefetch THEN "wake" ELSE "final")
      /\ w' = IF w.stale THEN NoRun ELSE w
  BY DEF Finish
<1>3. ~w.stale /\ w.prefetch => e \in Entry /\ IsWhole(e)
  <2> SUFFICES ASSUME ~w.stale, w.prefetch PROVE e \in Entry /\ IsWhole(e)
    OBVIOUS
  <2>1. w.job.cmd \in Cmd /\ Text(w.job, w.acc) \in Texts
    BY <1>1, TextType DEF Typed, RunInv
  <2>2. WholeRun
    BY <1>1, <1>2 DEF KillInv, Spared
  <2>3. e \in Entry
    BY <2>1 DEF Entry
  <2>4. CASE w.job.cmd \in Endless
    BY <2>2, <2>3, <2>4 DEF WholeRun, IsWhole, Text
  <2>5. CASE w.job.cmd \notin Endless
    <3>1. w.acc = Parts /\ Parts # 0
      BY <1>1, <2>2, <2>5 DEF WholeRun, Typed
    <3> QED BY <2>3, <2>5, <3>1 DEF IsWhole, Text
  <2> QED BY <2>3, <2>4, <2>5
<1>4. all \in Seq(Entry) /\ \A x \in ToSet(all) : IsWhole(x)
  <2>1. q.prefetched \in Seq(Entry) /\ \A x \in ToSet(q.prefetched) : IsWhole(x)
    BY <1>1 DEF IInv, PrefetchedIsWhole, Typed
  <2>2. CASE ~w.stale /\ w.prefetch
    <3> HIDE DEF e
    <3>1. all = Append(q.prefetched, e) /\ e \in Entry /\ IsWhole(e)
      BY <1>3, <2>2
    <3> DEFINE s == q.prefetched
    <3> HIDE DEF s
    <3>2. s \in Seq(Entry) /\ \A x \in ToSet(s) : IsWhole(x)
      BY <2>1 DEF s
    <3>3. Append(s, e) \in Seq(Entry) /\ ToSet(Append(s, e)) \subseteq ToSet(s) \cup {e}
      BY <3>1, <3>2 DEF ToSet
    <3>4. all = Append(s, e)
      BY <3>1 DEF s
    <3> HIDE DEF all
    <3> QED BY <3>1, <3>2, <3>3, <3>4
  <2>3. CASE ~(~w.stale /\ w.prefetch)
    BY <2>1, <2>3
  <2> QED BY <2>2, <2>3
<1> HIDE DEF all, e
<1>5. /\ q' \in Queue /\ q'.prefetch_gen = q.prefetch_gen /\ q'.stop = q.stop /\ q'.promoted = q.promoted
      /\ q'.has_request = q.has_request /\ q'.prefetch_queue = q.prefetch_queue
      /\ q'.prefetched = all
  <2>1. None \in 0 .. Items
    BY <1>1 DEF Typed, None
  <2>2. all \in Seq([key : Cmd, text : Texts])
    BY <1>4 DEF Entry
  <2> QED BY <1>1, <1>2, <2>1, <2>2 DEF Typed, Queue
<1>6. w' \in Run
  BY <1>1, <1>2, NoRunType DEF Typed
<1>7. TypeOK'
  BY <1>1, <1>2, <1>5, <1>6 DEF TypeOK, uiIdle, uiVars, WorkerPcs
<1>8. content'.version <= version
  BY <1>1, <1>2 DEF Bounds
<1>9. WorkerStep
  BY <1>2, <1>5, <1>8 DEF WorkerStep
<1>10. PrefetchedIsWhole'
  BY <1>4, <1>5 DEF PrefetchedIsWhole, IsWhole
<1>11. w.left /\ child = NoChild /\ Busy
  BY <1>1, <1>2 DEF RunInv, HasChild, Busy
<1>12. CASE w.stale
  <2>1. w' = NoRun /\ wpc' = "wait" /\ child' = NoChild
    BY <1>2, <1>11, <1>12
  <2>2. RunInv' /\ KillInv' /\ ~Busy'
    BY <2>1, NoRunInv
  <2> QED BY <1>7, <1>9, <1>10, <2>1, <2>2, SameRun
<1>13. CASE ~w.stale
  <2>1. w' = w /\ wpc' = (IF w.prefetch THEN "wake" ELSE "final") /\ child' = NoChild
    BY <1>2, <1>11, <1>13
  <2>2. ~HasChild'
    BY <1>11, <2>1 DEF HasChild, Busy
  <2>3. RunInv'
    <3>1. NoChild.read = 0 /\ NoChild.printed = 0 /\ NoChild.state = "none"
      BY DEF NoChild
    <3>2. w.prefetch => w.job.cmd \in Cmd
      BY <1>1 DEF RunInv
    <3> QED BY <1>11, <1>13, <2>1, <2>2, <3>1, <3>2 DEF RunInv
  <2>4. KillInv'
    BY <1>1, <1>2, <2>1, <2>2 DEF KillInv, Spared, Superseded, WholeRun
  <2> QED BY <1>7, <1>9, <1>10, <1>11, <2>1, <2>3, <2>4, SameRun
<1> QED BY <1>12, <1>13

LEMMA FinalInv ==
    ASSUME IInv, Final
    PROVE  IInv'
<1>1. TypeOK /\ Bounds /\ RunInv /\ KillInv /\ Typed
  BY TypeFacts DEF IInv
<1>2. /\ wpc = "final" /\ wpc' = "wake" /\ uiIdle
      /\ content' = IF content.version = w.version
                      THEN [content EXCEPT !.text = Text(w.job, w.acc), !.complete = TRUE]
                      ELSE content
      /\ UNCHANGED <<mishaps, w, q, version, pid, pipe, child>>
  BY DEF Final
<1>3. Text(w.job, w.acc) \in Texts
  BY <1>1, TextType DEF Typed
<1>4. content' \in Content /\ content'.version = content.version
  BY <1>1, <1>2, <1>3 DEF Typed, Content
<1>5. TypeOK'
  BY <1>1, <1>2, <1>4 DEF TypeOK, uiIdle, uiVars, WorkerPcs
<1>6. w.left /\ Busy /\ ~Busy' /\ ~HasChild /\ ~HasChild'
  BY <1>1, <1>2 DEF RunInv, Busy, HasChild
<1>7. RunInv'
  BY <1>1, <1>2, <1>6 DEF RunInv
<1>8. KillInv'
  BY <1>2, <1>6 DEF KillInv
<1>9. content'.version <= version
  BY <1>1, <1>4 DEF Bounds
<1>10. WorkerStep /\ PrefetchedIsWhole'
  BY <1>2, <1>9, QuietStep
<1> QED BY <1>2, <1>5, <1>6, <1>7, <1>8, <1>10, SameRun

\* The process runs: only a run that is over loses its process before the end.
LEMMA ChildRunsInv ==
    ASSUME IInv, ChildRuns
    PROVE  IInv'
<1>1. TypeOK /\ Bounds /\ RunInv /\ KillInv /\ Typed
  BY TypeFacts DEF IInv
<1>2. UNCHANGED <<mishaps, uiVars, q, version, pid, content, pipe, workerVars>> /\ wpc' = wpc /\ w' = w
  BY DEF ChildRuns, workerVars
<1>3. /\ child' \in Child /\ child'.job = child.job /\ child'.read = child.read
      /\ child.state \in {"born", "run"} /\ child'.state \in {"run", "quiet", "dead"}
      /\ child'.state = "quiet" => child.job.cmd \in Endless
      /\ child.job.cmd \in Endless => child'.printed = child.printed
      /\ child.read <= child'.printed
      /\ child'.state = "dead" =>
            /\ child.job.cmd \notin Endless /\ child.state = "run"
            /\ child'.printed < Parts => wpc \in {"kill", "reap"}
  <2> DEFINE n == child.printed
             r == child.read
  <2>1. n \in 0 .. Parts /\ r \in 0 .. Parts /\ r <= n /\ Parts \in Nat /\ child \in Child
    BY <1>1 DEF Typed, RunInv
  <2>2. CASE child.state = "born" /\ child' = [child EXCEPT !.state = "run"]
    BY <2>1, <2>2 DEF Child
  <2>3. CASE child.state = "run" /\ child' = [child EXCEPT !.state = "quiet"] /\ child.job.cmd \in Endless
    BY <2>1, <2>3 DEF Child
  <2>4. CASE /\ child.state = "run" /\ child' = [child EXCEPT !.printed = n + 1] /\ n < Parts
             /\ child.job.cmd \notin Endless
    <3> DEFINE m == n + 1
    <3> HIDE DEF n, r
    <3>1. m \in 0 .. Parts /\ r <= m
      BY <2>1, <2>4
    <3> HIDE DEF m
    <3>2. child' = [child EXCEPT !.printed = m]
      BY <2>4 DEF m
    <3> QED BY <2>1, <2>4, <3>1, <3>2 DEF Child, r
  <2>5. CASE /\ child.state = "run" /\ child' = [child EXCEPT !.state = "dead"]
             /\ child.job.cmd \notin Endless /\ (~(n < Parts) \/ wpc \in {"kill", "reap"})
    BY <2>1, <2>5 DEF Child
  <2> QED BY <2>2, <2>3, <2>4, <2>5 DEF ChildRuns
<1>4. TypeOK'
  BY <1>1, <1>2, <1>3 DEF TypeOK, uiVars, workerVars
<1>5. HasChild /\ HasChild' /\ Busy /\ Busy'
  <2>1. child # NoChild
    BY <1>3 DEF NoChild
  <2>2. HasChild
    BY <1>1, <2>1 DEF RunInv
  <2> QED BY <1>2, <2>2 DEF HasChild, Busy
<1>6. w.left => w.stale
  BY <1>1, <1>3, <1>5 DEF RunInv
<1>7. RunInv'
  BY <1>1, <1>2, <1>3, <1>5, <1>6 DEF RunInv
<1>8. KillInv'
  <2>1. wpc \in {"kill", "reap", "close", "finish", "final"} => w.stale
    BY <1>1, <1>6 DEF RunInv
  <2> QED BY <1>2, <1>3, <2>1 DEF KillInv, Hit
<1>9. uiIdle /\ content'.version <= version
  BY <1>1, <1>2 DEF uiIdle, Bounds
<1>10. WorkerStep /\ PrefetchedIsWhole'
  BY <1>2, <1>9, QuietStep
<1> QED BY <1>2, <1>4, <1>5, <1>7, <1>8, <1>10, SameRun

LEMMA InitInv == Init => IInv
<1> SUFFICES ASSUME Init PROVE IInv
  OBVIOUS
<1>1. /\ MaxInputs \in Nat /\ Parts \in Nat \ {0} /\ Items \in Nat \ {0} /\ Started \in BOOLEAN
  BY PreviewAssumption
<1>2. /\ 0 \in Versions /\ 0 \in 0 .. Parts /\ 0 \in Size /\ 0 \in 0 .. Items /\ 1 \in 0 .. Items
      /\ 0 \in 0 .. 3 * MaxInputs + 3 /\ -1 \in -1 .. Items /\ 0 \in 0 .. MaxInputs
  BY <1>1 DEF Versions, Size
<1>3. NoText \in Texts /\ NoJob \in Job
  BY <1>2 DEF NoText, Texts, NoJob, Job, None
<1>4. /\ <<>> \in Seq([key : Cmd, text : Texts]) /\ <<>> \in Seq(Task)
  OBVIOUS
<1>5. ui \in UI
  BY <1>1, <1>2, <1>3, <1>4 DEF Init, UI, None
<1>6. q \in Queue
  BY <1>2, <1>3, <1>4 DEF Init, Queue, None
<1>7. content \in Content /\ child \in Child
  BY <1>2, <1>3 DEF Init, Content, NoChild, Child
<1>8. mpc \in UIPcs /\ wpc \in WorkerPcs
  BY DEF Init, UIPcs, WorkerPcs
<1>9. TypeOK
  BY <1>2, <1>5, <1>6, <1>7, <1>8, NoRunType DEF Init, TypeOK
<1>10. Bounds
  <2>1. ~Coming
    BY DEF Init, Coming
  <2> DEFINE a == Flag(Away)
  <2>2. a \in {0, 1} /\ Due = 0 + a
    BY <2>1, FlagIs DEF Due, Flag
  <2> HIDE DEF a
  <2>3. 0 + Due <= 0 + 1
    BY <2>2
  <2>4. /\ ui.size = 0 /\ q.prefetch_gen = 0 /\ q.promoted = 0 /\ content.version = 0
        /\ w.version = 0 /\ w.gen = 0 /\ version = 0 /\ inputs = 0
    BY DEF Init, NoRun
  <2> QED BY <2>3, <2>4 DEF Bounds
<1>11. QueueInv
  BY DEF Init, QueueInv, NoRun
<1>12. ~Busy /\ ~HasChild
  BY DEF Init, Busy, HasChild
<1>13. RunInv
  BY <1>12 DEF Init, RunInv, NoRun, NoChild
<1>14. KillInv
  BY <1>12 DEF Init, KillInv
<1>15. PrefetchedIsWhole
  <2>1. ToSet(<<>>) = {}
    BY DEF ToSet
  <2> QED BY <2>1 DEF Init, PrefetchedIsWhole
<1> QED BY <1>9, <1>10, <1>11, <1>13, <1>14, <1>15 DEF IInv

LEMMA NextInv == IInv /\ [Next]_vars => IInv'
<1> SUFFICES ASSUME IInv, [Next]_vars PROVE IInv'
  OBVIOUS
<1>1. CASE Input
  BY <1>1, InputInv
<1>2. CASE Timer
  BY <1>2, TimerInv
<1>3. CASE UITurns
  BY <1>3, WakeUpInv, EndOfBatchInv, PaintInv, CancelInv, CancelKillInv, SetContentInv, RequestInv,
     RequestKillInv, StopInv, StopVersionInv, StopKillInv, JoinInv DEF UITurns
<1>4. CASE Worker
  BY <1>4, TakeInv, ExitInv, SpawnInv, SpawnFailsInv, PublishPidInv, RecheckInv, OpenInv, ReadPieceInv,
     ReadEndInv, PromoteInv, AdoptInv, CheckInv, ShowInv, WakeUIInv, CloseInv, KillStaleInv, ReapInv,
     FinishInv, FinalInv DEF Worker
<1>5. CASE ChildRuns
  BY <1>5, ChildRunsInv
<1>6. CASE UNCHANGED vars
  BY <1>6 DEF vars, uiVars, workerVars, IInv, TypeOK, Bounds, Due, Flag, Coming, Away, QueueInv, Busy,
     RunInv, HasChild, KillInv, Spared, Hit, WholeRun, Superseded, PrefetchedIsWhole, IsWhole
<1> QED BY <1>1, <1>2, <1>3, <1>4, <1>5, <1>6 DEF Next

LEMMA AlwaysInv == Spec => []IInv
<1>1. Init => IInv
  BY InitInv
<1>2. IInv /\ [Next]_vars => IInv'
  BY NextInv
<1> QED BY <1>1, <1>2, PTL DEF Spec

-----------------------------------------------------------------------------

\* The state of the pane, of the worker and of its process has its type: a
\* version is never beyond what the inputs can have asked for, and a cached
\* entry is never looked up when it is not there.
THEOREM TypeCorrect == Spec => []TypeOK
<1>1. IInv => TypeOK
  BY DEF IInv
<1> QED BY <1>1, AlwaysInv, PTL

\* Whatever the user does and whatever goes wrong, a prefetch that was stopped,
\* killed or adopted hands nothing over; one that ended by itself hands over all
\* that its command printed.
THEOREM Handed == Spec => []PrefetchedIsWhole
<1>1. IInv => PrefetchedIsWhole
  BY DEF IInv
<1> QED BY <1>1, AlwaysInv, PTL

-----------------------------------------------------------------------------
(* Without prefetching. *)

\* What the properties of the pane need: no prefetching, no change of the size that
\* keeps the cache, no late kill and no failing spawn, and a worker that was started
\* if a preview can be asked for.
Plain ==
    /\ PrefetchN = 0 /\ "window" \notin Keys
    /\ Started \/ "preview" \notin Keys
    /\ \A s \in MishapSets : "late_kill" \notin s /\ "spawn_fails" \notin s

Refreshing == mpc \in {"request", "cancel", "set"}

\* What refresh_preview() decided, and where it is on its way.
PaneInv ==
    /\ q.prefetched = <<>> /\ q.promoted = 0 /\ ~q.running_prefetch
    /\ wpc \notin {"promote", "adopt"}
    /\ wpc = "final" => ~w.stale
    /\ wpc = "none" <=> ~Started
    /\ ~Started => ~ui.can
    /\ ~ui.can => ui.hidden /\ ui.cache = <<>>
    /\ (ui.hidden /\ mpc \notin {"cancel", "set"}) => ui.key = None
    /\ mpc = "request" => ~ui.hidden /\ ui.cy # None
    /\ mpc \in {"cancel", "set"} =>
          \/ ui.plan = "cached" /\ ~ui.hidden /\ ui.cy # None
          \/ ui.plan = "blank" /\ ~ui.hidden /\ ui.cy = None
          \/ ui.plan = "hide" /\ ui.hidden
    /\ Refreshing => ui.dirty
    /\ (~ui.hidden /\ (mpc \in {"paint", "select"} \/ (Refreshing /\ ui.back = "paint"))) =>
          ui.cy = ui.focused /\ ~ui.touched
    /\ mpc = "select" => ~ui.dirty

\* Entries with the whole output for a pane of some size.
Wholes(size) ==
    {e \in Entry : e.key \notin Endless /\ e.text = Text([cmd |-> e.key, size |-> size], Parts)}

WholeCache == ui.cache \in Seq(Wholes(ui.size))

\* The last refresh was for what is under the cursor.
OnTarget == ~ui.hidden /\ mpc \in {"batch", "paint", "select"} /\ ui.cy = ui.focused /\ ~ui.touched

\* The worker found its run current and has not written yet what it read.
Passed == wpc = "show" \/ (wpc \in {"close", "reap", "finish", "final"} /\ ~w.stale)

\* The pane has what it asked for, and no run will write to it.
Settled ==
    /\ content.text = IF ui.cy = None THEN NoText ELSE WholeText(ui.cy)
    /\ ~q.has_request
    /\ Busy => w.version # version
    /\ Passed => content.version # w.version
    /\ ui.dirty \/ ui.shown = content.text

Asked == [cmd |-> ui.key, size |-> ui.size]

\* The request is in the slot,
Waiting ==
    /\ q.has_request /\ q.pending = Asked
    /\ content.version # version
    /\ Busy => w.version # version

\* or it runs,
Underway ==
    /\ ~q.has_request
    /\ Busy /\ w.version = version /\ w.job = Asked /\ ~w.stale
    /\ IF wpc \in {"spawn", "publish", "recheck", "open"} THEN content.version # version
       ELSE content.version = version /\ ~content.complete

\* or its whole output is there, and the UI thread will be told.
Answered ==
    /\ ~q.has_request /\ ~Busy
    /\ content.version = version /\ content.complete
    /\ ui.key \notin Endless /\ content.text = WholeText(ui.key)
    /\ wpc = "wake" \/ pipe \/ (mpc \in {"batch", "paint"} /\ ui.dirty)

Pending == ui.key = ui.cy /\ ui.reqv = version /\ (Waiting \/ Underway \/ Answered)

TargetInv == OnTarget => IF ui.key = None THEN Settled ELSE Pending

PInv == PaneInv /\ WholeCache /\ TargetInv

\* Neither a late kill nor a failing spawn happens.
LEMMA PlainFacts ==
    ASSUME Plain, IInv
    PROVE  /\ PrefetchN = 0 /\ "late_kill" \notin mishaps /\ "spawn_fails" \notin mishaps
           /\ ~w.prefetch /\ q.prefetch_queue = <<>> /\ ~ui.prefetch_pending
           /\ mpc \notin {"request_kill", "cancel_kill"}
           /\ TypeOK /\ Bounds /\ QueueInv /\ RunInv /\ KillInv /\ Typed /\ ui \in UI /\ q \in Queue
           /\ Superseded <=> version # w.version
<1>1. TypeOK /\ Bounds /\ QueueInv /\ RunInv /\ KillInv /\ Typed
  BY TypeFacts DEF IInv
<1>2. PrefetchN = 0 /\ "late_kill" \notin mishaps /\ "spawn_fails" \notin mishaps
  BY <1>1 DEF Plain, TypeOK
<1>3. ~w.prefetch /\ q.prefetch_queue = <<>> /\ ~ui.prefetch_pending
      /\ mpc \notin {"request_kill", "cancel_kill"}
  BY <1>1, <1>2 DEF QueueInv
<1>4. Superseded <=> version # w.version
  BY <1>3 DEF Superseded
<1> QED BY <1>1, <1>2, <1>3, <1>4 DEF Typed

LEMMA WholesIs ==
    ASSUME NEW size
    PROVE  Wholes(size) \in SUBSET Entry /\ Wholes(size) \subseteq Entry
BY DEF Wholes

LEMMA EmptyIsWhole ==
    ASSUME NEW size
    PROVE  <<>> \in Seq(Wholes(size))
OBVIOUS

\* What an input may do to the pane: nothing that the end of the batch would not
\* notice, a refresh, its end, or the end of the session.
InputKeeps ==
    /\ mpc' = "batch" /\ ui'.can = ui.can /\ ui'.hidden = ui.hidden /\ ui'.key = ui.key
    /\ ui'.cache \in Seq(Wholes(ui'.size)) /\ (~ui.can => ui'.cache = <<>>)
    /\ ~ui.hidden => /\ ui'.focused = ui.focused /\ ui'.size = ui.size
                     /\ ui'.reqv = ui.reqv /\ ui'.shown = ui.shown

InputRefreshes(v) ==
    /\ v.can /\ v.cache \in Seq(Wholes(v.size)) /\ (v.hidden => v.key = None)
    /\ Refreshes(v, q, "batch") /\ (ui.can \/ Started)

InputHides ==
    /\ mpc' = "cancel" /\ ~ui.hidden /\ ui'.hidden /\ ui'.plan = "hide" /\ ui'.dirty
    /\ ui'.can = ui.can /\ ui'.cache = ui.cache /\ ui'.size = ui.size

InputQuits == mpc' = "stop" /\ ui' = Rearmed(ui)

\* Inputs of the user and of the searcher.
LEMMA InputPane ==
    ASSUME Plain, IInv, PInv, Input
    PROVE  PInv'
<1>1. Serves
  BY InputServes
<1>2. PrefetchN = 0 /\ Typed /\ ui \in UI /\ q \in Queue /\ ~ui.prefetch_pending /\ Bounds /\ TypeOK
      /\ q.prefetch_queue = <<>> /\ QueueInv
  BY PlainFacts
<1>3. /\ UNCHANGED <<mishaps, version, pid, content, pipe, workerVars, child>> /\ wpc' = wpc /\ w' = w
      /\ mpc = "select" /\ q' = q /\ ui'.prefetch_pending = ui.prefetch_pending /\ ui' \in UI
  BY <1>1, <1>2 DEF Serves, workerVars
<1>4. PaneInv /\ WholeCache /\ TargetInv
  BY DEF PInv
<1>5. ~ui.dirty /\ (~ui.hidden => ui.cy = ui.focused /\ ~ui.touched) /\ (ui.hidden => ui.key = None)
  BY <1>3, <1>4 DEF PaneInv
<1> DEFINE u == Rearmed(ui)
<1>6. u \in UI /\ SamePane(ui, u) /\ u.dirty = ui.dirty /\ u.cache = ui.cache /\ u.plan = ui.plan
  BY <1>2, RearmedIs
<1> HIDE DEF u
<1>7. Quiet = q
  BY <1>2, <1>3, <1>1, QuietIs DEF Serves
<1>8a. ui.cache \in Seq(Wholes(ui.size)) /\ (~ui.can => ui.cache = <<>>)
  BY <1>4 DEF WholeCache, PaneInv
<1>8. \/ InputKeeps \/ InputHides \/ InputQuits
      \/ \E v \in UI : InputRefreshes(v)
  <2>1. CASE KeyMove
    <3>1. PICK cy \in Cmd : ui' = [u EXCEPT !.cy = cy]
      BY <2>1 DEF KeyMove, u
    <3>2. mpc' = "batch"
      BY <2>1 DEF KeyMove
    <3> QED BY <1>6, <1>8a, <3>1, <3>2 DEF InputKeeps, UI, SamePane
  <2>2. CASE KeyTouch
    <3>1. ui' = [u EXCEPT !.touched = TRUE] /\ mpc' = "batch"
      BY <2>2 DEF KeyTouch, u
    <3> QED BY <1>6, <1>8a, <3>1 DEF InputKeeps, UI, SamePane
  <2>3. CASE KeyRefresh
    <3>1. Refresh(u, q, TRUE, "batch")
      BY <1>7, <2>3 DEF KeyRefresh, u
    <3>2. Refreshes(u, q, "batch")
      BY <1>2, <1>6, <3>1, RefreshIs
    <3>3. CASE u.can
      <4>1. u.cache \in Seq(Wholes(u.size)) /\ (u.hidden => u.key = None) /\ ui.can
        BY <1>4, <1>5, <1>6, <3>3 DEF WholeCache, SamePane
      <4> QED BY <1>6, <3>2, <3>3, <4>1 DEF InputRefreshes
    <3>4. CASE ~u.can
      <4>1. u.hidden
        BY <1>4, <1>6, <3>4 DEF PaneInv, SamePane
      <4>2. ui' = u /\ mpc' = "batch"
        BY <3>2, <4>1 DEF Refreshes
      <4> QED BY <1>6, <1>8a, <4>2 DEF InputKeeps, SamePane
    <3> QED BY <3>3, <3>4
  <2>4. CASE KeyShow
    <3> DEFINE v == [u EXCEPT !.hidden = FALSE, !.dirty = TRUE]
    <3>1. Refresh(v, q, FALSE, "batch") /\ ui.can
      BY <1>7, <2>4 DEF KeyShow, u
    <3>2. v \in UI /\ v.can /\ ~v.hidden /\ v.cache = ui.cache /\ v.size = ui.size
      BY <1>6, <3>1 DEF UI, SamePane
    <3> HIDE DEF v
    <3>3. Refreshes(v, q, "batch")
      BY <1>2, <3>1, <3>2, RefreshIs
    <3> QED BY <1>4, <3>1, <3>2, <3>3 DEF InputRefreshes, WholeCache
  <2>5. CASE KeyHide
    <3>1. /\ ui' = [u EXCEPT !.hidden = TRUE, !.dirty = TRUE, !.plan = "hide", !.back = "batch"]
          /\ mpc' = "cancel" /\ ~ui.hidden
      BY <2>5 DEF KeyHide, u
    <3> QED BY <1>6, <3>1 DEF InputHides, UI, SamePane
  <2>6. CASE KeyWindow
    BY <2>6 DEF KeyWindow, KeyRead, Plain
  <2>7. CASE KeyPreview
    <3> DEFINE v == [u EXCEPT !.can = TRUE, !.hidden = FALSE, !.dirty = TRUE]
    <3>1. Refresh(v, q, FALSE, "batch") /\ Started
      BY <1>7, <2>7 DEF KeyPreview, KeyRead, Plain, u
    <3>2. v \in UI /\ v.can /\ ~v.hidden /\ v.cache = ui.cache /\ v.size = ui.size
      BY <1>6, <3>1 DEF UI, SamePane
    <3> HIDE DEF v
    <3>3. Refreshes(v, q, "batch")
      BY <1>2, <3>1, <3>2, RefreshIs
    <3> QED BY <1>4, <3>1, <3>2, <3>3 DEF InputRefreshes, WholeCache
  <2>8. CASE KeyQuit
    BY <2>8 DEF KeyQuit, InputQuits, u
  <2>9. CASE Winch
    <3> DEFINE v == [ui EXCEPT !.size = ui.size + 1, !.dirty = TRUE]
               x == [v EXCEPT !.cache = <<>>]
    <3>1. IF ui.can THEN Refresh(x, q, TRUE, "batch") ELSE ui' = v /\ q' = q /\ mpc' = "batch"
      BY <2>9 DEF Winch
    <3>2. ui.size + 1 \in Size
      <4> DEFINE n == ui.size
      <4>1. n \in Nat /\ n <= inputs /\ inputs < MaxInputs /\ inputs \in Nat /\ MaxInputs \in Nat
        BY <1>1, <1>2 DEF Typed, Bounds, Serves
      <4> HIDE DEF n
      <4>2. n + 1 \in 0 .. MaxInputs
        BY <4>1
      <4> QED BY <4>2 DEF n, Size
    <3>3. CASE ui.can
      <4>1. <<>> \in Seq([key : Cmd, text : Texts])
        OBVIOUS
      <4>2. x \in UI /\ x.cache = <<>> /\ x.can /\ x.hidden = ui.hidden /\ x.key = ui.key
        BY <1>2, <3>2, <3>3, <4>1 DEF UI
      <4> HIDE DEF x
      <4>3. Refreshes(x, q, "batch")
        BY <1>2, <3>1, <3>3, <4>2, RefreshIs
      <4>4. x.cache \in Seq(Wholes(x.size))
        BY <4>2, EmptyIsWhole
      <4> QED BY <1>5, <3>3, <4>2, <4>3, <4>4 DEF InputRefreshes
    <3>4. CASE ~ui.can
      <4>1. ui.hidden /\ ui.cache = <<>>
        BY <1>4, <3>4 DEF PaneInv
      <4>2. v \in UI /\ v.cache = <<>> /\ v.can = ui.can /\ v.hidden
        BY <1>2, <3>2, <4>1 DEF UI
      <4>3. ui' = v /\ mpc' = "batch"
        BY <3>1, <3>4
      <4>5. v.cache \in Seq(Wholes(v.size)) /\ v.key = ui.key
        BY <1>2, <4>2, EmptyIsWhole DEF UI
      <4> HIDE DEF v
      <4> QED BY <4>1, <4>2, <4>3, <4>5 DEF InputKeeps
    <3> QED BY <3>3, <3>4
  <2>10. CASE Result
    <3>1. PICK cy \in 0 .. Items : ui' = [u EXCEPT !.cy = cy, !.dirty = TRUE]
      BY <2>10 DEF Result, u
    <3>2. mpc' = "batch"
      BY <2>10 DEF Result
    <3> QED BY <1>6, <1>8a, <3>1, <3>2 DEF InputKeeps, UI, SamePane
  <2> QED BY <2>1, <2>2, <2>3, <2>4, <2>5, <2>6, <2>7, <2>8, <2>9, <2>10 DEF Input
<1>9. UNCHANGED <<version, pid, content, pipe, wpc, w, q>>
  BY <1>3
<1>10. CASE InputKeeps
  <2>1. PaneInv'
    BY <1>4, <1>5, <1>9, <1>10 DEF InputKeeps, PaneInv, Refreshing
  <2>2. WholeCache'
    BY <1>10 DEF InputKeeps, WholeCache
  <2>3. TargetInv'
    <3> SUFFICES ASSUME OnTarget' PROVE (IF ui.key = None THEN Settled ELSE Pending)'
      BY DEF TargetInv
    <3>1. /\ ~ui.hidden /\ ui'.cy = ui.cy /\ ui'.size = ui.size /\ ui'.reqv = ui.reqv
          /\ ui'.shown = ui.shown /\ ui'.key = ui.key
      BY <1>5, <1>10 DEF OnTarget, InputKeeps
    <3>2. IF ui.key = None THEN Settled ELSE Pending
      BY <1>3, <1>4, <1>5, <3>1 DEF TargetInv, OnTarget
    <3>3. (Busy' <=> Busy) /\ (Passed' <=> Passed)
      BY <1>9 DEF Busy, Passed
    <3>4. CASE ui.key = None
      BY <1>5, <1>9, <3>1, <3>2, <3>3, <3>4 DEF Settled, WholeText
    <3>5. CASE ui.key # None
      <4>1. Asked' = Asked /\ WholeText(ui.key)' = WholeText(ui.key)
        BY <3>1 DEF Asked, WholeText
      <4>2. Waiting => Waiting'
        BY <1>9, <3>3, <4>1 DEF Waiting
      <4>3. Underway => Underway'
        BY <1>9, <3>3, <4>1 DEF Underway
      <4>4. Answered => Answered'
        BY <1>3, <1>9, <3>1, <3>3, <4>1 DEF Answered
      <4> QED BY <1>9, <3>1, <3>2, <3>5, <4>2, <4>3, <4>4 DEF Pending
    <3> QED BY <3>4, <3>5, <3>1
  <2> QED BY <2>1, <2>2, <2>3 DEF PInv
<1>11. CASE InputHides
  <2>1. PaneInv'
    BY <1>4, <1>9, <1>11 DEF InputHides, PaneInv, Refreshing
  <2>2. WholeCache' /\ ~OnTarget'
    BY <1>4, <1>11 DEF InputHides, WholeCache, OnTarget
  <2> QED BY <2>1, <2>2 DEF PInv, TargetInv
<1>12. CASE InputQuits
  <2>1. mpc' = "stop" /\ ui' = u
    BY <1>12 DEF InputQuits, u
  <2>2. PaneInv'
    BY <1>4, <1>5, <1>6, <1>9, <2>1 DEF PaneInv, Refreshing, SamePane
  <2>3. WholeCache' /\ ~OnTarget'
    BY <1>4, <1>6, <2>1 DEF WholeCache, OnTarget, SamePane
  <2> QED BY <2>2, <2>3 DEF PInv, TargetInv
<1>13. CASE \E v \in UI : InputRefreshes(v)
  <2>1. PICK v \in UI : InputRefreshes(v)
    BY <1>13
  <2>2. v.can /\ (v.hidden => v.key = None) /\ Refreshes(v, q, "batch") /\ Started
    BY <1>4, <2>1 DEF InputRefreshes, PaneInv
  <2>3. ui'.can /\ ui'.hidden = v.hidden /\ ui'.key = v.key /\ ui'.cy = v.cy /\ ui'.size = v.size
    BY <2>2 DEF Refreshes, SamePane
  <2>4. PaneInv'
    BY <1>4, <1>9, <2>2, <2>3 DEF PaneInv, Refreshing, Refreshes
  <2>5. WholeCache'
    BY <2>1, <2>2, <2>3, WholesIs DEF WholeCache, InputRefreshes, Refreshes
  <2>6. ~OnTarget'
    BY <2>2, <2>3 DEF OnTarget, Refreshes
  <2> QED BY <2>4, <2>5, <2>6 DEF PInv, TargetInv
<1> QED BY <1>8, <1>10, <1>11, <1>12, <1>13

\* There is nothing of a prefetch to cache.
LEMMA WakeUpPane ==
    ASSUME Plain, IInv, PInv, WakeUp
    PROVE  PInv'
<1>1. PaneInv /\ WholeCache /\ TargetInv /\ ui \in UI /\ q \in Queue
  BY PlainFacts DEF PInv
<1> DEFINE cache == Merged(ui.cache, q.prefetched)
<1>2. cache \in Seq(Wholes(ui.size)) /\ (ui.cache = <<>> => cache = <<>>)
  <2>1. q.prefetched = <<>>
    BY <1>1 DEF PaneInv
  <2>2. cache = ui.cache
    <3> DEFINE f == CHOOSE h : h = [n \in 0 .. 0 |-> IF n = 0 THEN ui.cache ELSE Stored(h[n - 1], <<>>[n])]
               g == [n \in 0 .. 0 |-> ui.cache]
    <3>1. g = [n \in 0 .. 0 |-> IF n = 0 THEN ui.cache ELSE Stored(g[n - 1], <<>>[n])]
      OBVIOUS
    <3>2. f = [n \in 0 .. 0 |-> IF n = 0 THEN ui.cache ELSE Stored(f[n - 1], <<>>[n])]
      BY <3>1
    <3>3. Len(<<>>) = 0
      OBVIOUS
    <3>4. Merged(ui.cache, <<>>) = f[Len(<<>>)]
      BY <3>3 DEF Merged
    <3> HIDE DEF f
    <3>5. f[0] = ui.cache
      BY <3>2
    <3> QED BY <2>1, <3>3, <3>4, <3>5
  <2> QED BY <1>1, <2>2 DEF WholeCache
<1>3. /\ ui' = [ui EXCEPT !.dirty = TRUE, !.cache = cache]
      /\ q' = [q EXCEPT !.prefetched = <<>>]
      /\ pipe' = FALSE /\ mpc = "select" /\ mpc' = "batch"
      /\ UNCHANGED <<mishaps, inputs, version, pid, content, workerVars, child>>
      /\ wpc' = wpc /\ w' = w
  BY DEF WakeUp, Idle, workerVars
<1> HIDE DEF cache
<1>4. /\ q'.prefetched = <<>> /\ q'.promoted = q.promoted /\ q'.running_prefetch = q.running_prefetch
      /\ q'.has_request = q.has_request /\ q'.pending = q.pending
  BY <1>1, <1>3 DEF Queue
<1>5. /\ ui'.dirty /\ ui'.cache = cache /\ ui'.can = ui.can /\ ui'.hidden = ui.hidden
      /\ ui'.key = ui.key /\ ui'.cy = ui.cy /\ ui'.focused = ui.focused /\ ui'.touched = ui.touched
      /\ ui'.size = ui.size /\ ui'.reqv = ui.reqv /\ ui'.shown = ui.shown
  BY <1>1, <1>3 DEF UI
<1>6. PaneInv'
  BY <1>1, <1>2, <1>3, <1>4, <1>5 DEF PaneInv, Refreshing
<1>7. WholeCache'
  BY <1>2, <1>5 DEF WholeCache
<1>8. TargetInv'
  <2> SUFFICES ASSUME OnTarget' PROVE (IF ui.key = None THEN Settled ELSE Pending)'
    BY DEF TargetInv
  <2>1. IF ui.key = None THEN Settled ELSE Pending
    BY <1>1, <1>3, <1>5 DEF TargetInv, OnTarget
  <2>2. (Busy' <=> Busy) /\ (Passed' <=> Passed) /\ Asked' = Asked /\ WholeText(ui.key)' = WholeText(ui.key)
        /\ WholeText(ui.cy)' = WholeText(ui.cy)
    BY <1>3, <1>5 DEF Busy, Passed, Asked, WholeText
  <2>3. Settled => Settled'
    BY <1>3, <1>4, <1>5, <2>2 DEF Settled
  <2>4. Waiting => Waiting'
    BY <1>3, <1>4, <2>2 DEF Waiting
  <2>5. Underway => Underway'
    BY <1>3, <1>4, <2>2 DEF Underway
  <2>6. Answered => Answered'
    BY <1>3, <1>4, <1>5, <2>2 DEF Answered
  <2> QED BY <1>3, <1>5, <2>1, <2>3, <2>4, <2>5, <2>6 DEF Pending
<1> QED BY <1>6, <1>7, <1>8 DEF PInv

LEMMA EndOfBatchPane ==
    ASSUME Plain, IInv, PInv, EndOfBatch
    PROVE  PInv'
<1>1. PaneInv /\ WholeCache /\ TargetInv /\ ui \in UI /\ q \in Queue /\ Typed /\ PrefetchN = 0
      /\ q.prefetch_queue = <<>>
  BY PlainFacts DEF PInv
<1>2. mpc = "batch" /\ UNCHANGED <<mishaps, inputs, version, pid, content, pipe, workerVars, child>>
      /\ wpc' = wpc /\ w' = w
  BY DEF EndOfBatch, workerVars
<1>3. CASE ~ui.hidden /\ Away
  <2> DEFINE u == [ui EXCEPT !.focused = ui.cy, !.touched = FALSE]
  <2>1. Refresh(u, q, FALSE, "paint")
    BY <1>3 DEF EndOfBatch, Away
  <2>2. u \in UI /\ u.cy = ui.cy /\ u.focused = ui.cy /\ ~u.touched /\ u.size = ui.size
        /\ u.cache = ui.cache /\ ~u.hidden /\ u.can = ui.can
    <3>1. ui.cy \in -1 .. Items
      BY <1>1 DEF Typed
    <3> QED BY <1>1, <1>3, <3>1 DEF UI
  <2> HIDE DEF u
  <2>3. Refreshes(u, q, "paint")
    BY <1>1, <2>1, <2>2, RefreshIs
  <2>4. q' = q
    BY <1>1, <2>3 DEF Refreshes
  <2>5. ui'.can = ui.can /\ ~ui'.hidden /\ ui'.cy = ui'.focused /\ ~ui'.touched /\ ui'.size = ui.size
        /\ ui'.cy = u.cy
    BY <2>2, <2>3 DEF Refreshes, SamePane
  <2>6. ui.can
    BY <1>1, <1>3 DEF PaneInv
  <2>7. PaneInv'
    BY <1>1, <1>2, <2>2, <2>3, <2>4, <2>5, <2>6 DEF PaneInv, Refreshing, Refreshes
  <2>8. WholeCache'
    BY <1>1, <2>2, <2>3, <2>5, WholesIs DEF WholeCache, Refreshes
  <2>9. ~OnTarget'
    BY <2>2, <2>3 DEF OnTarget, Refreshes
  <2> QED BY <2>7, <2>8, <2>9 DEF PInv, TargetInv
<1>4. CASE ~(~ui.hidden /\ Away)
  <2>1. ui' = ui /\ q' = q /\ mpc' = "paint"
    BY <1>4 DEF EndOfBatch, Away
  <2>2. PaneInv'
    BY <1>1, <1>2, <1>4, <2>1 DEF PaneInv, Refreshing, Away
  <2>3. WholeCache'
    BY <1>1, <2>1 DEF WholeCache
  <2>4. TargetInv'
    <3> SUFFICES ASSUME OnTarget' PROVE (IF ui.key = None THEN Settled ELSE Pending)'
      BY DEF TargetInv
    <3>1. IF ui.key = None THEN Settled ELSE Pending
      BY <1>1, <1>2, <2>1 DEF TargetInv, OnTarget
    <3>2. (Busy' <=> Busy) /\ (Passed' <=> Passed) /\ Asked' = Asked
      BY <1>2, <2>1 DEF Busy, Passed, Asked
    <3>3. (Settled => Settled') /\ (Waiting => Waiting') /\ (Underway => Underway')
      BY <1>2, <2>1, <3>2 DEF Settled, Waiting, Underway, WholeText
    <3>4. Answered => Answered'
      BY <1>2, <2>1, <3>2 DEF Answered, WholeText
    <3> QED BY <1>2, <2>1, <3>1, <3>3, <3>4 DEF Pending
  <2> QED BY <2>2, <2>3, <2>4 DEF PInv
<1> QED BY <1>3, <1>4

\* What is painted and complete is the whole output of what was asked for.
LEMMA PaintPane ==
    ASSUME Plain, IInv, PInv, Paint
    PROVE  PInv'
<1>1. PaneInv /\ WholeCache /\ TargetInv /\ ui \in UI /\ q \in Queue /\ Typed /\ TypeOK
  BY PlainFacts DEF PInv
<1>2. mpc = "paint" /\ mpc' = "select" /\ wpc' = wpc /\ w' = w
      /\ UNCHANGED <<mishaps, inputs, q, version, pid, content, pipe, workerVars, child>>
  BY DEF Paint, workerVars
<1>3. /\ ui' \in UI
      /\ ui'.cy = ui.cy /\ ui'.focused = ui.focused /\ ui'.touched = ui.touched
      /\ ui'.can = ui.can /\ ui'.hidden = ui.hidden /\ ui'.size = ui.size
      /\ ui'.dirty = FALSE /\ ui'.reqv = ui.reqv
      /\ IF ui.dirty /\ ~ui.hidden
           THEN /\ ui'.shown = content.text
                /\ IF Cacheable
                     THEN /\ ui'.key = None /\ ui.key # None
                          /\ ui'.cache = Stored(ui.cache, [key |-> ui.key, text |-> content.text])
                          /\ [key |-> ui.key, text |-> content.text] \in Entry
                     ELSE ui'.key = ui.key /\ ui'.cache = ui.cache
           ELSE ui'.shown = ui.shown /\ ui'.key = ui.key /\ ui'.cache = ui.cache
  BY <1>1, PaintIs
<1>4. ~ui.hidden => OnTarget
  BY <1>1, <1>2 DEF PaneInv, OnTarget
<1>5. ASSUME ~ui.hidden, Cacheable
      PROVE  Answered /\ ui.key = ui.cy /\ ui.key # None /\ ui.reqv = version
  <2>1. Pending /\ ui.key # None
    BY <1>1, <1>4, <1>5 DEF TargetInv, Cacheable
  <2>2. ~Waiting /\ ~Underway
    BY <1>5, <2>1 DEF Pending, Waiting, Underway, Cacheable
  <2> QED BY <2>1, <2>2 DEF Pending
<1>6. PaneInv'
  <2>1. ui'.hidden => ui'.key = None
    BY <1>1, <1>2, <1>3 DEF PaneInv
  <2>2. ~ui'.can => ui'.cache = <<>>
    BY <1>1, <1>3 DEF PaneInv
  <2> QED BY <1>1, <1>2, <1>3, <2>1, <2>2 DEF PaneInv, Refreshing
<1>7. WholeCache'
  <2>1. CASE ui.dirty /\ ~ui.hidden /\ Cacheable
    <3> DEFINE e == [key |-> ui.key, text |-> content.text]
    <3>1. e \in Entry /\ ui'.cache = Stored(ui.cache, e)
      BY <1>3, <2>1
    <3>2. e.key \notin Endless /\ e.text = Text([cmd |-> e.key, size |-> ui.size], Parts)
      BY <1>5, <2>1 DEF Answered, WholeText
    <3> HIDE DEF e
    <3>3. e \in Wholes(ui.size)
      BY <3>1, <3>2 DEF Wholes
    <3> QED BY <1>1, <1>3, <3>1, <3>3, StoredType DEF WholeCache
  <2>2. CASE ~(ui.dirty /\ ~ui.hidden /\ Cacheable)
    BY <1>1, <1>3, <2>2 DEF WholeCache
  <2> QED BY <2>1, <2>2
<1>8. TargetInv'
  <2> SUFFICES ASSUME OnTarget' PROVE (IF ui.key = None THEN Settled ELSE Pending)'
    BY DEF TargetInv
  <2>1. ~ui.hidden
    BY <1>3 DEF OnTarget
  <2>2. IF ui.key = None THEN Settled ELSE Pending
    BY <1>1, <1>4, <2>1 DEF TargetInv
  <2>3. (Busy' <=> Busy) /\ (Passed' <=> Passed) /\ WholeText(ui.cy)' = WholeText(ui.cy)
    BY <1>2, <1>3 DEF Busy, Passed, WholeText
  <2>4. CASE ui.key = None
    <3>1. ui'.key = None /\ Settled
      BY <1>3, <2>2, <2>4 DEF Cacheable
    <3>2. ui'.shown = content.text
      BY <1>3, <2>1, <3>1 DEF Settled
    <3> QED BY <1>2, <1>3, <2>3, <3>1, <3>2 DEF Settled
  <2>5. CASE ui.key # None /\ ui.dirty /\ Cacheable
    <3>1. Answered /\ ui.key = ui.cy
      BY <1>5, <2>1, <2>5
    <3>2. ui'.key = None /\ ui'.shown = content.text
      BY <1>3, <2>1, <2>5
    <3>3. ~Passed
      BY <3>1 DEF Answered, Passed, Busy
    <3> QED BY <1>2, <1>3, <2>3, <2>5, <3>1, <3>2, <3>3 DEF Settled, Answered
  <2>6. CASE ui.key # None /\ ~(ui.dirty /\ Cacheable)
    <3>1. ui'.key = ui.key /\ Pending
      BY <1>3, <2>1, <2>2, <2>6
    <3>2. Asked' = Asked /\ WholeText(ui.key)' = WholeText(ui.key)
      BY <1>3, <3>1 DEF Asked, WholeText
    <3>3. (Waiting => Waiting') /\ (Underway => Underway')
      BY <1>2, <2>3, <3>2 DEF Waiting, Underway
    <3>4. Answered => Answered'
      <4> SUFFICES ASSUME Answered PROVE Answered'
        OBVIOUS
      <4>1. ~ui.dirty
        <5>1. content.text # NoText
          BY <1>1 DEF Answered, WholeText, Text, NoText, Typed
        <5>2. Cacheable
          BY <2>6, <3>1, <5>1 DEF Cacheable, Answered, Pending
        <5> QED BY <2>6, <5>2
      <4> QED BY <1>2, <1>3, <2>3, <3>1, <3>2, <4>1 DEF Answered
    <3> QED BY <1>2, <1>3, <2>6, <3>1, <3>3, <3>4 DEF Pending
  <2> QED BY <2>4, <2>5, <2>6
<1> QED BY <1>6, <1>7, <1>8 DEF PInv

LEMMA CancelPane ==
    ASSUME Plain, IInv, PInv, Cancel
    PROVE  PInv'
<1>1. PaneInv /\ WholeCache /\ q \in Queue /\ "late_kill" \notin mishaps
  BY PlainFacts DEF PInv
<1>2. /\ mpc = "cancel" /\ mpc' = "set" /\ ui' = ui /\ wpc' = wpc /\ w' = w
      /\ q' = [q EXCEPT !.has_request = FALSE, !.prefetch_queue = <<>>, !.prefetch_gen = q.prefetch_gen + 1]
  BY <1>1 DEF Cancel, workerVars
<1>3. q'.prefetched = q.prefetched /\ q'.promoted = q.promoted /\ q'.running_prefetch = q.running_prefetch
  BY <1>1, <1>2 DEF Queue
<1>4. PaneInv'
  BY <1>1, <1>2, <1>3 DEF PaneInv, Refreshing
<1>5. WholeCache' /\ ~OnTarget'
  BY <1>1, <1>2 DEF WholeCache, OnTarget
<1> QED BY <1>4, <1>5 DEF PInv, TargetInv

\* A cached or an empty preview settles the pane: whatever runs is superseded.
LEMMA SetContentPane ==
    ASSUME Plain, IInv, PInv, SetContent
    PROVE  PInv'
<1>1. PaneInv /\ WholeCache /\ TypeOK /\ Bounds /\ QueueInv /\ Typed
  BY PlainFacts DEF PInv
<1>2. mpc = "set" /\ wpc' = wpc /\ w' = w
      /\ UNCHANGED <<mishaps, inputs, q, version, pid, pipe, workerVars, child>>
  BY DEF SetContent, workerVars
<1>3. /\ ui'.cy = ui.cy /\ ui'.focused = ui.focused /\ ui'.touched = ui.touched
      /\ ui'.can = ui.can /\ ui'.hidden = ui.hidden /\ ui'.size = ui.size
      /\ ui'.cache = ui.cache /\ ui'.dirty = ui.dirty /\ ui'.key = None
      /\ mpc' = ui.back /\ ui.back \in {"batch", "paint"}
      /\ IF ui.plan = "hide" THEN content' = content
         ELSE /\ content'.text = IF ui.plan = "cached" THEN Cached(ui.cache, ui.cy) ELSE NoText
              /\ content'.version = version /\ content'.complete
  BY <1>1, SetContentIs
<1>4. PaneInv'
  BY <1>1, <1>2, <1>3 DEF PaneInv, Refreshing
<1>5. WholeCache'
  BY <1>1, <1>3 DEF WholeCache
<1>6. OnTarget' => Settled'
  <2> SUFFICES ASSUME OnTarget' PROVE Settled'
    OBVIOUS
  <2>1. ~ui.hidden /\ ui.plan # "hide" /\ ui.dirty
    BY <1>1, <1>2, <1>3 DEF OnTarget, PaneInv, Refreshing
  <2>2. ~q.has_request /\ (Busy => w.version # version)
    BY <1>1, <1>2 DEF QueueInv
  <2>3. (Busy' <=> Busy) /\ (Passed' <=> Passed) /\ (Passed => Busy)
    BY <1>2 DEF Busy, Passed
  <2>4. content'.text = IF ui.cy = None THEN NoText ELSE WholeText(ui.cy)
    <3>1. CASE ui.plan = "cached"
      <4>1. ui.cy # None /\ IsCached(ui.cache, ui.cy)
        BY <1>1, <1>2, <3>1 DEF PaneInv, QueueInv
      <4>2. [key |-> ui.cy, text |-> Cached(ui.cache, ui.cy)] \in Wholes(ui.size)
        BY <1>1, <4>1, WholesIs, CachedIs DEF WholeCache
      <4>3. Cached(ui.cache, ui.cy) = WholeText(ui.cy)
        BY <4>2 DEF Wholes, WholeText
      <4> QED BY <1>3, <3>1, <4>1, <4>3
    <3>2. CASE ui.plan # "cached"
      <4>1. ui.cy = None
        BY <1>1, <1>2, <2>1, <3>2 DEF PaneInv
      <4> QED BY <1>3, <2>1, <3>2, <4>1
    <3> QED BY <3>1, <3>2
  <2>5. WholeText(ui.cy)' = WholeText(ui.cy)
    BY <1>3 DEF WholeText
  <2> QED BY <1>2, <1>3, <2>1, <2>2, <2>3, <2>4, <2>5 DEF Settled
<1> QED BY <1>3, <1>4, <1>5, <1>6 DEF PInv, TargetInv

\* A request supersedes whatever runs.
LEMMA RequestPane ==
    ASSUME Plain, IInv, PInv, Request
    PROVE  PInv'
<1>1. PaneInv /\ WholeCache /\ TypeOK /\ Bounds /\ QueueInv /\ Typed /\ "late_kill" \notin mishaps
  BY PlainFacts DEF PInv
<1>2. mpc = "request" /\ version' = version + 1 /\ wpc' = wpc /\ w' = w
      /\ UNCHANGED <<mishaps, inputs, pid, content, pipe, workerVars>>
  BY DEF Request, workerVars
<1>3. ~Adoptable
  BY <1>1 DEF PaneInv, Adoptable
<1>4. /\ ui'.cy = ui.cy /\ ui'.focused = ui.focused /\ ui'.touched = ui.touched
      /\ ui'.can = ui.can /\ ui'.hidden = ui.hidden /\ ui'.size = ui.size
      /\ ui'.cache = ui.cache /\ ui'.dirty = ui.dirty /\ ui'.shown = ui.shown
      /\ ui'.key = ui.cy /\ ui'.reqv = version + 1
      /\ q'.prefetched = q.prefetched /\ q'.running_prefetch = q.running_prefetch
      /\ q'.promoted = q.promoted /\ q'.has_request /\ q'.pending = [cmd |-> ui.cy, size |-> ui.size]
      /\ mpc' = ui.back /\ ui.back \in {"batch", "paint"}
  BY <1>1, <1>3, RequestIs
<1>5. PaneInv'
  BY <1>1, <1>2, <1>4 DEF PaneInv, Refreshing
<1>6. WholeCache'
  BY <1>1, <1>4 DEF WholeCache
<1>7. Waiting'
  <2>1. content.version # version + 1 /\ w.version # version + 1
    BY <1>1, NextVersion
  <2> QED BY <1>2, <1>4, <2>1 DEF Waiting, Asked
<1>8. ui.cy # None
  BY <1>1, <1>2 DEF PaneInv
<1> QED BY <1>2, <1>4, <1>5, <1>6, <1>7, <1>8 DEF PInv, TargetInv, Pending

\* The end of the session leaves the pane alone.
LEMMA StopPane ==
    ASSUME Plain, IInv, PInv, Stop \/ StopVersion \/ StopKill \/ Join
    PROVE  PInv'
<1>1. PaneInv /\ WholeCache /\ q \in Queue
  BY PlainFacts DEF PInv
<1>2. /\ mpc \in {"stop", "stop_version", "stop_kill", "join"}
      /\ mpc' \in {"stop_version", "stop_kill", "join", "exit"}
      /\ ui' = ui /\ wpc' = wpc /\ w' = w
      /\ q' = q \/ q' = [q EXCEPT !.stop = TRUE, !.has_request = FALSE]
  BY DEF Stop, StopVersion, StopKill, Join, workerVars
<1>3. q'.prefetched = q.prefetched /\ q'.promoted = q.promoted /\ q'.running_prefetch = q.running_prefetch
  BY <1>1, <1>2 DEF Queue
<1>4. PaneInv'
  BY <1>1, <1>2, <1>3 DEF PaneInv, Refreshing
<1>5. WholeCache' /\ ~OnTarget'
  BY <1>1, <1>2 DEF WholeCache, OnTarget
<1> QED BY <1>4, <1>5 DEF PInv, TargetInv

\* What the worker leaves of the pane.
LEMMA WorkerPane ==
    ASSUME PaneInv, WholeCache, uiIdle, version' = version,
           q'.prefetched = <<>>, q'.promoted = 0, ~q'.running_prefetch,
           wpc' = "none" <=> wpc = "none", wpc' \notin {"promote", "adopt"},
           wpc' = "final" => ~w'.stale
    PROVE  /\ PaneInv' /\ WholeCache' /\ (OnTarget' <=> OnTarget) /\ Asked' = Asked
           /\ ui' = ui /\ mpc' = mpc
           /\ \A c : WholeText(c)' = WholeText(c)
<1>1. ui' = ui /\ mpc' = mpc
  BY DEF uiIdle, uiVars
<1> QED BY <1>1 DEF PaneInv, WholeCache, OnTarget, Asked, Refreshing, WholeText

\* It is enough to follow what the pane waits for.
LEMMA Followed ==
    ASSUME PInv, PaneInv', WholeCache', OnTarget' => OnTarget, ui' = ui, version' = version,
           Settled => Settled', Waiting => Waiting' \/ Underway', Underway => Underway' \/ Answered',
           Answered => Answered'
    PROVE  PInv'
<1>1. Pending => Pending'
  BY DEF Pending
<1>2. TargetInv'
  BY <1>1 DEF PInv, TargetInv
<1> QED BY <1>2 DEF PInv

\* A step of a run that leaves the content, the queue and the run alone.
Early == {"spawn", "publish", "recheck", "open"}

LEMMA SilentStep ==
    ASSUME Plain, IInv, PInv, uiIdle, UNCHANGED <<q, version, content, pipe, w>>,
           Busy, Busy', wpc' \notin {"none", "promote", "adopt", "final"},
           Passed' => Passed, wpc' \in Early <=> wpc \in Early
    PROVE  PInv'
<1>1. wpc \notin {"none", "wait", "exit"} /\ PaneInv /\ WholeCache
  BY DEF Busy, PInv
<1>2. /\ PaneInv' /\ WholeCache' /\ (OnTarget' <=> OnTarget) /\ Asked' = Asked
      /\ ui' = ui /\ mpc' = mpc
      /\ \A c : WholeText(c)' = WholeText(c)
  BY <1>1, WorkerPane DEF PaneInv
<1>3. Settled => Settled'
  BY <1>2 DEF Settled
<1>4. Waiting => Waiting'
  BY <1>2 DEF Waiting
<1>5. Underway => Underway'
  BY <1>2 DEF Underway, Early
<1>6. ~Answered
  BY DEF Answered
<1> QED BY <1>2, <1>3, <1>4, <1>5, <1>6, Followed

LEMMA SilentSteps ==
    ASSUME Plain, IInv, PInv, Spawn \/ PublishPid \/ Recheck \/ ReadPiece \/ Close \/ KillStale \/ Reap
    PROVE  PInv'
<1>1. ~w.prefetch /\ RunInv
  BY PlainFacts
<1>2. uiIdle /\ UNCHANGED <<q, version, content, pipe, w>>
  BY DEF Spawn, PublishPid, Recheck, ReadPiece, Close, KillStale, Reap
<1>3. \/ wpc = "spawn" /\ wpc' = "publish"
      \/ wpc = "publish" /\ wpc' = "recheck"
      \/ wpc = "recheck" /\ wpc' = "open"
      \/ wpc = "read" /\ wpc' = "check"
      \/ wpc = "close" /\ (wpc' = IF w.stale THEN "kill" ELSE "reap")
      \/ wpc = "kill" /\ wpc' = "reap"
      \/ wpc = "reap" /\ wpc' = "finish"
  BY <1>1 DEF Spawn, PublishPid, Recheck, ReadPiece, Close, KillStale, Reap, AfterRead
<1>4. wpc = "kill" => w.stale
  BY <1>1 DEF RunInv
<1>5. Busy /\ Busy'
  BY <1>3 DEF Busy
<1>6. Passed' => Passed
  BY <1>2, <1>3, <1>4 DEF Passed
<1>7. wpc' \in Early <=> wpc \in Early
  BY <1>3 DEF Early
<1> QED BY <1>2, <1>3, <1>5, <1>6, <1>7, SilentStep

\* The request in the slot is what the worker takes.
LEMMA TakePane ==
    ASSUME Plain, IInv, PInv, Take
    PROVE  PInv'
<1>1. PaneInv /\ WholeCache /\ q \in Queue /\ q.prefetch_queue = <<>>
  BY PlainFacts DEF PInv
<1> DEFINE job == q.pending
<1>2. /\ wpc = "wait" /\ wpc' = "spawn" /\ uiIdle /\ q.has_request
      /\ w' = [NoRun EXCEPT !.job = job, !.version = version, !.gen = q.prefetch_gen, !.prefetch = FALSE]
      /\ q' = [q EXCEPT !.has_request = FALSE, !.pending = NoJob, !.prefetch_queue = q.prefetch_queue,
                        !.running_prefetch = FALSE, !.running_command = job.cmd, !.promoted = 0]
      /\ version' = version /\ content' = content /\ pipe' = pipe
  BY <1>1 DEF Take, NextJob
<1> HIDE DEF job
<1>3. w'.job = job /\ w'.version = version /\ ~w'.stale
  BY <1>2 DEF NoRun
<1>4. ~q'.has_request /\ q'.prefetched = q.prefetched /\ q'.promoted = 0 /\ ~q'.running_prefetch
  BY <1>1, <1>2 DEF Queue
<1>5. /\ PaneInv' /\ WholeCache' /\ (OnTarget' <=> OnTarget) /\ Asked' = Asked
      /\ ui' = ui /\ mpc' = mpc
      /\ \A c : WholeText(c)' = WholeText(c)
  BY <1>1, <1>2, <1>4, WorkerPane DEF PaneInv
<1>6. ~Settled /\ ~Underway /\ ~Answered
  BY <1>2 DEF Settled, Underway, Answered
<1>7. Waiting => Underway'
  BY <1>2, <1>3, <1>4, <1>5 DEF Waiting, Underway, Busy, job
<1> QED BY <1>2, <1>5, <1>6, <1>7, Followed

LEMMA ExitPane ==
    ASSUME Plain, IInv, PInv, Exit
    PROVE  PInv'
<1>1. PaneInv /\ WholeCache /\ QueueInv
  BY PlainFacts DEF PInv
<1>2. wpc = "wait" /\ wpc' = "exit" /\ q.stop /\ uiIdle /\ UNCHANGED <<w, q, version, content, pipe>>
  BY DEF Exit
<1>3. PaneInv' /\ WholeCache' /\ (OnTarget' <=> OnTarget) /\ ui' = ui
  BY <1>1, <1>2, WorkerPane DEF PaneInv
<1>4. ~OnTarget
  BY <1>1, <1>2 DEF QueueInv, OnTarget
<1> QED BY <1>3, <1>4 DEF PInv, TargetInv

\* The content is the run's from here on, but keeps its text.
LEMMA OpenPane ==
    ASSUME Plain, IInv, PInv, Open
    PROVE  PInv'
<1>1. PaneInv /\ WholeCache /\ Typed
  BY PlainFacts DEF PInv
<1>2. /\ wpc = "open" /\ wpc' = "read" /\ uiIdle /\ UNCHANGED <<w, q, version, pipe>>
      /\ content' = [content EXCEPT !.version = w.version, !.complete = FALSE]
  BY DEF Open
<1>3. content'.text = content.text /\ content'.version = w.version /\ ~content'.complete
  BY <1>1, <1>2 DEF Typed, Content
<1>4. /\ PaneInv' /\ WholeCache' /\ (OnTarget' <=> OnTarget) /\ Asked' = Asked
      /\ ui' = ui /\ mpc' = mpc
      /\ \A c : WholeText(c)' = WholeText(c)
  BY <1>1, <1>2, WorkerPane DEF PaneInv
<1>5. Busy /\ Busy' /\ ~Passed'
  BY <1>2 DEF Busy, Passed
<1>6. Settled => Settled'
  BY <1>2, <1>3, <1>4, <1>5 DEF Settled
<1>7. Waiting => Waiting'
  BY <1>2, <1>3, <1>4, <1>5 DEF Waiting
<1>8. Underway => Underway'
  BY <1>2, <1>3, <1>4, <1>5 DEF Underway
<1>9. ~Answered
  BY <1>5 DEF Answered
<1> QED BY <1>2, <1>4, <1>6, <1>7, <1>8, <1>9, Followed

\* A step of a run that changes only the run: it stays the same run, and passes
\* its check only if it is current.
LEMMA RunStep ==
    ASSUME Plain, IInv, PInv, uiIdle, UNCHANGED <<q, version, content, pipe>>,
           wpc \in {"read", "check"}, wpc' \in {"read", "check", "show", "close"},
           w'.version = w.version, w'.job = w.job, w'.stale => w.stale \/ Superseded,
           Passed' => ~Superseded
    PROVE  PInv'
<1>1. PaneInv /\ WholeCache /\ (Superseded <=> version # w.version)
  BY PlainFacts DEF PInv
<1>2. /\ PaneInv' /\ WholeCache' /\ (OnTarget' <=> OnTarget) /\ Asked' = Asked
      /\ ui' = ui /\ mpc' = mpc
      /\ \A c : WholeText(c)' = WholeText(c)
  BY <1>1, WorkerPane DEF PaneInv
<1>3. Busy /\ Busy'
  BY DEF Busy
<1>4. Settled => Settled'
  BY <1>1, <1>2, <1>3 DEF Settled
<1>5. Waiting => Waiting'
  BY <1>2, <1>3 DEF Waiting
<1>6. Underway => Underway'
  BY <1>1, <1>2, <1>3 DEF Underway
<1>7. ~Answered
  BY <1>3 DEF Answered
<1> QED BY <1>2, <1>4, <1>5, <1>6, <1>7, Followed

LEMMA ReadEndPane ==
    ASSUME Plain, IInv, PInv, ReadEnd
    PROVE  PInv'
<1>1. w \in Run /\ ~w.prefetch
  BY PlainFacts DEF Typed
<1>2. wpc = "read" /\ wpc' = "check" /\ uiIdle /\ UNCHANGED <<q, version, content, pipe>>
      /\ w' = [w EXCEPT !.left = TRUE]
  BY <1>1 DEF ReadEnd, AfterRead
<1>3. w'.version = w.version /\ w'.job = w.job /\ w'.stale = w.stale
  BY <1>1, <1>2 DEF Run
<1>4. ~Passed'
  BY <1>2 DEF Passed
<1> QED BY <1>2, <1>3, <1>4, RunStep

LEMMA CheckPane ==
    ASSUME Plain, IInv, PInv, Check
    PROVE  PInv'
<1>1. w \in Run /\ ~w.prefetch
  BY PlainFacts DEF Typed
<1>2. wpc = "check" /\ uiIdle /\ UNCHANGED <<q, version, content, pipe>>
  BY DEF Check
<1>3. CASE w.left
  <2> DEFINE s == w.stale \/ Superseded
  <2>1. w' = [w EXCEPT !.stale = s] /\ wpc' = "close"
    BY <1>3 DEF Check
  <2>2. w'.version = w.version /\ w'.job = w.job /\ w'.stale = s
    BY <1>1, <2>1 DEF Run
  <2>3. Passed' => ~Superseded
    BY <2>1, <2>2 DEF Passed
  <2> QED BY <1>2, <2>1, <2>2, <2>3, RunStep
<1>4. CASE ~w.left /\ Superseded
  <2>1. w' = [w EXCEPT !.left = TRUE, !.stale = TRUE] /\ wpc' = "check"
    BY <1>1, <1>4 DEF Check, AfterRead
  <2>2. w'.version = w.version /\ w'.job = w.job
    BY <1>1, <2>1 DEF Run
  <2>3. ~Passed'
    BY <2>1 DEF Passed
  <2> QED BY <1>2, <1>4, <2>1, <2>2, <2>3, RunStep
<1>5. CASE ~w.left /\ ~Superseded
  <2>1. w' = [w EXCEPT !.acc = child.read] /\ wpc' = "show"
    BY <1>1, <1>5 DEF Check
  <2>2. w'.version = w.version /\ w'.job = w.job /\ w'.stale = w.stale
    BY <1>1, <2>1 DEF Run
  <2> QED BY <1>2, <1>5, <2>1, <2>2, RunStep
<1> QED BY <1>3, <1>4, <1>5

LEMMA ShowPane ==
    ASSUME Plain, IInv, PInv, Show
    PROVE  PInv'
<1>1. PaneInv /\ WholeCache /\ Typed /\ RunInv
  BY PlainFacts DEF PInv
<1>2. /\ wpc = "show" /\ wpc' = "wake" /\ uiIdle /\ UNCHANGED <<w, q, version, pipe>>
      /\ content' = IF content.version = w.version
                      THEN [content EXCEPT !.text = Text(w.job, w.acc)] ELSE content
  BY DEF Show
<1>3. /\ content'.version = content.version /\ content'.complete = content.complete
      /\ content.version # w.version => content' = content
  BY <1>1, <1>2 DEF Typed, Content
<1>4. /\ PaneInv' /\ WholeCache' /\ (OnTarget' <=> OnTarget) /\ Asked' = Asked
      /\ ui' = ui /\ mpc' = mpc
      /\ \A c : WholeText(c)' = WholeText(c)
  BY <1>1, <1>2, WorkerPane DEF PaneInv
<1>5. Passed /\ ~Passed' /\ ~w.left
  BY <1>1, <1>2 DEF Passed, RunInv
<1>6. Busy /\ Busy'
  BY <1>2, <1>5 DEF Busy
<1>7. Settled => Settled'
  BY <1>2, <1>3, <1>4, <1>5, <1>6 DEF Settled
<1>8. Waiting => Waiting'
  BY <1>2, <1>3, <1>4, <1>6 DEF Waiting
<1>9. Underway => Underway'
  BY <1>2, <1>3, <1>4, <1>6 DEF Underway
<1>10. ~Answered
  BY <1>6 DEF Answered
<1> QED BY <1>2, <1>4, <1>7, <1>8, <1>9, <1>10, Followed

LEMMA WakeUIPane ==
    ASSUME Plain, IInv, PInv, WakeUI
    PROVE  PInv'
<1>1. PaneInv /\ WholeCache /\ ~w.prefetch
  BY PlainFacts DEF PInv
<1>2. wpc = "wake" /\ uiIdle /\ pipe' = TRUE /\ UNCHANGED <<q, version, content>>
      /\ IF w.left THEN wpc' = "wait" /\ w' = NoRun ELSE wpc' = "read" /\ w' = w
  BY DEF WakeUI
<1>3. /\ PaneInv' /\ WholeCache' /\ (OnTarget' <=> OnTarget) /\ Asked' = Asked
      /\ ui' = ui /\ mpc' = mpc
      /\ \A c : WholeText(c)' = WholeText(c)
  BY <1>1, <1>2, WorkerPane DEF PaneInv
<1>4. (Busy' <=> Busy) /\ (Busy => w' = w /\ wpc' = "read") /\ ~Passed'
  BY <1>2 DEF Busy, Passed
<1>5. Settled => Settled'
  BY <1>2, <1>3, <1>4 DEF Settled
<1>6. Waiting => Waiting'
  BY <1>2, <1>3, <1>4 DEF Waiting
<1>7. Underway => Underway'
  BY <1>2, <1>3, <1>4 DEF Underway
<1>8. Answered => Answered'
  BY <1>2, <1>3, <1>4 DEF Answered
<1> QED BY <1>2, <1>3, <1>5, <1>6, <1>7, <1>8, Followed

LEMMA FinishPane ==
    ASSUME Plain, IInv, PInv, Finish
    PROVE  PInv'
<1>1. PaneInv /\ WholeCache /\ ~w.prefetch /\ q \in Queue
  BY PlainFacts DEF PInv
<1>2. /\ wpc = "finish" /\ uiIdle /\ UNCHANGED <<version, content, pipe>>
      /\ q' = [q EXCEPT !.running_prefetch = FALSE, !.running_command = None, !.prefetched = q.prefetched]
      /\ IF w.stale THEN wpc' = "wait" /\ w' = NoRun ELSE wpc' = "final" /\ w' = w
  BY <1>1 DEF Finish
<1>3. q'.prefetched = q.prefetched /\ q'.promoted = q.promoted /\ ~q'.running_prefetch
      /\ q'.has_request = q.has_request /\ q'.pending = q.pending
  BY <1>1, <1>2 DEF Queue
<1>4. /\ PaneInv' /\ WholeCache' /\ (OnTarget' <=> OnTarget) /\ Asked' = Asked
      /\ ui' = ui /\ mpc' = mpc
      /\ \A c : WholeText(c)' = WholeText(c)
  BY <1>1, <1>2, <1>3, WorkerPane DEF PaneInv
<1>5. Busy /\ (Busy' => w' = w) /\ (Passed' => Passed /\ w' = w) /\ (~w.stale => Busy' /\ w' = w /\ wpc' = "final")
  BY <1>2 DEF Busy, Passed
<1>6. Settled => Settled'
  BY <1>2, <1>3, <1>4, <1>5 DEF Settled
<1>7. Waiting => Waiting'
  BY <1>2, <1>3, <1>4, <1>5 DEF Waiting
<1>8. Underway => Underway'
  BY <1>2, <1>3, <1>4, <1>5 DEF Underway
<1>9. ~Answered
  BY <1>5 DEF Answered
<1> QED BY <1>2, <1>4, <1>6, <1>7, <1>8, <1>9, Followed

\* The run that is current was read whole.
LEMMA FinalPane ==
    ASSUME Plain, IInv, PInv, Final
    PROVE  PInv'
<1>1. PaneInv /\ WholeCache /\ Typed /\ RunInv /\ KillInv /\ PrefetchN = 0 /\ "late_kill" \notin mishaps
      /\ (Superseded <=> version # w.version)
  BY PlainFacts DEF PInv
<1>2. /\ wpc = "final" /\ wpc' = "wake" /\ uiIdle /\ UNCHANGED <<w, q, version, pipe>>
      /\ content' = IF content.version = w.version
                      THEN [content EXCEPT !.text = Text(w.job, w.acc), !.complete = TRUE]
                      ELSE content
  BY DEF Final
<1>3. /\ content'.version = content.version
      /\ content.version # w.version => content' = content
      /\ content.version = w.version => content'.text = Text(w.job, w.acc) /\ content'.complete
  BY <1>1, <1>2 DEF Typed, Content
<1>4. /\ PaneInv' /\ WholeCache' /\ (OnTarget' <=> OnTarget) /\ Asked' = Asked
      /\ ui' = ui /\ mpc' = mpc
      /\ \A c : WholeText(c)' = WholeText(c)
  BY <1>1, <1>2, WorkerPane DEF PaneInv
<1>5. ~w.stale /\ w.left /\ Passed /\ ~Passed' /\ Busy /\ ~Busy'
  BY <1>1, <1>2 DEF PaneInv, RunInv, Passed, Busy
<1>6. Settled => Settled'
  BY <1>2, <1>3, <1>4, <1>5 DEF Settled
<1>7. Waiting => Waiting'
  BY <1>2, <1>3, <1>4, <1>5 DEF Waiting
<1>8. Underway => Answered'
  <2> SUFFICES ASSUME Underway PROVE Answered'
    OBVIOUS
  <2>1. content.version = version /\ w.version = version /\ w.job = Asked /\ ~q.has_request
    BY <1>2 DEF Underway
  <2>2. ~Superseded
    BY <1>1, <2>1
  <2>3. WholeRun /\ w.job.cmd \notin Endless
    BY <1>1, <1>2, <1>5, <2>2 DEF KillInv, Spared
  <2>4. w.job.cmd = ui.key /\ w.acc = Parts
    BY <2>1, <2>3 DEF Asked, WholeRun
  <2>5. Text(w.job, w.acc) = WholeText(ui.key)
    BY <2>1, <2>4 DEF Asked, WholeText, Text
  <2> QED BY <1>2, <1>3, <1>4, <1>5, <2>1, <2>3, <2>4, <2>5 DEF Answered
<1>9. ~Answered
  BY <1>5 DEF Answered
<1> QED BY <1>2, <1>4, <1>6, <1>7, <1>8, <1>9, Followed

LEMMA ChildRunsPane ==
    ASSUME PInv, ChildRuns
    PROVE  PInv'
<1>1. /\ mpc' = mpc /\ ui' = ui /\ q' = q /\ version' = version /\ content' = content /\ pipe' = pipe
      /\ wpc' = wpc /\ w' = w
  BY DEF ChildRuns, uiVars, workerVars
<1> QED BY <1>1 DEF PInv, PaneInv, WholeCache, TargetInv, OnTarget, Settled, Pending, Waiting, Underway,
         Answered, Asked, Busy, Passed, Refreshing, WholeText

LEMMA InitPane == Plain /\ Init => PInv
<1> SUFFICES ASSUME Plain, Init PROVE PInv
  OBVIOUS
<1>1. /\ mpc = "batch" /\ wpc = (IF Started THEN "wait" ELSE "none") /\ Started \in BOOLEAN
      /\ ui.can = Started /\ ui.hidden = ~Started /\ ui.cache = <<>> /\ ui.key = None /\ ui.cy = 1
      /\ ui.focused = -1
      /\ q.prefetched = <<>> /\ q.promoted = 0 /\ ~q.running_prefetch
  BY PreviewAssumption DEF Init
<1>2. PaneInv
  BY <1>1 DEF PaneInv, Refreshing
<1>3. WholeCache
  BY <1>1, EmptyIsWhole DEF WholeCache
<1>4. ~OnTarget
  BY <1>1 DEF OnTarget
<1> QED BY <1>2, <1>3, <1>4 DEF PInv, TargetInv

LEMMA NextPane ==
    ASSUME Plain, IInv, PInv, Next
    PROVE  PInv'
<1>1. ~ui.prefetch_pending /\ "spawn_fails" \notin mishaps /\ mpc \notin {"request_kill", "cancel_kill"}
      /\ wpc \notin {"promote", "adopt"}
  BY PlainFacts DEF PInv, PaneInv
<1>2. CASE Input
  BY <1>2, InputPane
<1>3. CASE Timer
  BY <1>1, <1>3 DEF Timer
<1>4. CASE UITurns
  <2>1. ~CancelKill /\ ~RequestKill
    BY <1>1 DEF CancelKill, RequestKill
  <2> QED BY <1>4, <2>1, WakeUpPane, EndOfBatchPane, PaintPane, CancelPane, SetContentPane, RequestPane,
       StopPane DEF UITurns
<1>5. CASE Worker
  <2>1. ~SpawnFails /\ ~Promote /\ ~Adopt
    BY <1>1 DEF SpawnFails, Promote, Adopt
  <2> QED BY <1>5, <2>1, SilentSteps, TakePane, ExitPane, OpenPane, ReadEndPane, CheckPane, ShowPane,
       WakeUIPane, FinishPane, FinalPane DEF Worker
<1>6. CASE ChildRuns
  BY <1>6, ChildRunsPane
<1> QED BY <1>2, <1>3, <1>4, <1>5, <1>6 DEF Next

PlainInv == Plain /\ IInv /\ PInv

LEMMA AlwaysPlain == Plain /\ Spec => []PlainInv
<1>1. Plain /\ Init => PlainInv
  BY InitInv, InitPane DEF PlainInv
<1>2. PlainInv /\ [Next]_vars => PlainInv'
  <2> SUFFICES ASSUME PlainInv, [Next]_vars PROVE PlainInv'
    OBVIOUS
  <2>1. IInv'
    BY NextInv DEF PlainInv
  <2>2. CASE Next
    BY <2>1, <2>2, NextPane DEF PlainInv, Plain
  <2>3. CASE UNCHANGED vars
    <3>1. /\ mpc' = mpc /\ ui' = ui /\ q' = q /\ version' = version /\ content' = content /\ pipe' = pipe
          /\ wpc' = wpc /\ w' = w
      BY <2>3 DEF vars, uiVars, workerVars
    <3> QED BY <2>1, <3>1 DEF PlainInv, Plain, PInv, PaneInv, WholeCache, TargetInv, OnTarget, Settled, Pending,
         Waiting, Underway, Answered, Asked, Busy, Passed, Refreshing, WholeText
  <2> QED BY <2>2, <2>3
<1> QED BY <1>1, <1>2, PTL DEF Spec

-----------------------------------------------------------------------------

\* Without prefetching and the other things that Plain excludes, what is cached
\* for a command is the whole of its own output for the present size of the pane.
THEOREM CacheRight == Plain /\ Spec => []CacheIsWhole
<1>1. PlainInv => CacheIsWhole
  <2> SUFFICES ASSUME PlainInv, NEW e \in ToSet(ui.cache) PROVE IsWhole(e) /\ e.text.size = ui.size
    BY DEF CacheIsWhole
  <2>1. ui.cache \in Seq(Wholes(ui.size)) /\ Parts # 0
    BY PreviewAssumption DEF PlainInv, PInv, WholeCache
  <2>2. e \in Wholes(ui.size)
    BY <2>1 DEF ToSet
  <2>3. e.key \notin Endless /\ e.text = [cmd |-> e.key, parts |-> Parts, size |-> ui.size]
    BY <2>1, <2>2 DEF Wholes, Text
  <2> QED BY <2>3 DEF IsWhole
<1> QED BY <1>1, AlwaysPlain, PTL

\* An open pane at rest waits for the user only with its target.
LEMMA SelectSettled ==
    ASSUME PlainInv, mpc = "select", ~ui.hidden
    PROVE  OnTarget /\ ui.can /\ Started /\ (ui.key = None => Settled) /\ (ui.key # None => Pending)
BY DEF PlainInv, PInv, PaneInv, OnTarget, TargetInv

\* At rest an open pane shows the whole output of the command of the item under
\* the cursor, for its present size, and no request is unanswered.
THEOREM Current == Plain /\ Spec => []PaneIsCurrent
<1>1. PlainInv => PaneIsCurrent
  <2> SUFFICES ASSUME PlainInv, AtRest
               PROVE  /\ ~ui.hidden => ui.shown = IF ui.cy = None THEN NoText ELSE WholeText(ui.cy)
                      /\ ui.key = None
    BY DEF PaneIsCurrent, PaneShowsTarget, RequestIsServed
  <2>1. mpc = "select" /\ ~pipe /\ wpc \in {"wait", "none"} /\ (wpc = "wait" => ~q.has_request)
    BY DEF AtRest, Idle
  <2>2. PaneInv
    BY DEF PlainInv, PInv
  <2>3. CASE ui.hidden
    BY <2>1, <2>2, <2>3 DEF PaneInv
  <2>4. CASE ~ui.hidden
    <3>1. wpc = "wait" /\ ~Busy /\ ~ui.dirty
      BY <2>1, <2>2, <2>4 DEF PaneInv, Busy
    <3>2. ui.key = None
      <4> SUFFICES ASSUME ui.key # None PROVE FALSE
        OBVIOUS
      <4>1. Waiting \/ Underway \/ Answered
        BY <2>1, <2>4, SelectSettled DEF Pending
      <4> QED BY <2>1, <3>1, <4>1 DEF Waiting, Underway, Answered
    <3>3. Settled
      BY <2>1, <2>4, <3>2, SelectSettled
    <3> QED BY <3>1, <3>2, <3>3 DEF Settled
  <2> QED BY <2>3, <2>4
<1> QED BY <1>1, AlwaysPlain, PTL

\* While the pane shows what the last refresh wanted, no step of the worker
\* writes to the content: a superseded run never reaches the screen.
THEOREM Unwritten == Plain /\ Spec => SettledPane
<1>1. PlainInv /\ [Next]_vars => [Idle /\ ~ui.hidden /\ ui.key = None => content'.text = content.text]_vars
  <2> SUFFICES ASSUME PlainInv, Next, mpc = "select", ~ui.hidden, ui.key = None
               PROVE  content'.text = content.text
    BY DEF Idle
  <2>1. Settled /\ PaneInv /\ IInv /\ Plain
    BY SelectSettled DEF PlainInv, PInv
  <2>2. "spawn_fails" \notin mishaps /\ wpc \notin {"promote", "adopt"} /\ content \in Content
    BY <2>1, PlainFacts DEF PaneInv, Typed
  <2>3. CASE Input
    BY <2>1, <2>3, InputServes DEF Serves
  <2>4. CASE Timer
    BY <2>4 DEF Timer
  <2>5. CASE UITurns
    BY <2>5 DEF UITurns, WakeUp, EndOfBatch, Paint, Cancel, CancelKill, SetContent, Request, RequestKill,
       Stop, StopVersion, StopKill, Join
  <2>6. CASE Worker
    <3>1. CASE Open
      BY <2>2, <3>1 DEF Open, Content
    <3>2. CASE Show
      BY <2>1, <3>2 DEF Show, Settled, Passed
    <3>3. CASE Final
      BY <2>1, <3>3 DEF Final, Settled, Passed, PaneInv
    <3>4. ~SpawnFails /\ ~Adopt
      BY <2>2 DEF SpawnFails, Adopt
    <3> QED BY <2>6, <3>1, <3>2, <3>3, <3>4 DEF Worker, Take, Exit, Spawn, PublishPid, Recheck, ReadPiece,
         ReadEnd, Promote, Check, WakeUI, Close, KillStale, Reap, Finish
  <2>7. CASE ChildRuns
    BY <2>7 DEF ChildRuns
  <2> QED BY <2>3, <2>4, <2>5, <2>6, <2>7 DEF Next
<1> QED BY <1>1, AlwaysPlain, PTL DEF Spec, SettledPane
=============================================================================
