--------------------------- MODULE SearcherProofs ---------------------------
(***************************************************************************)
(* Theorems about the search service, for every set of lists, counts and   *)
(* queries, every size of the merger cache and any number of requests.     *)
(***************************************************************************)
EXTENDS Searcher, TLAPS

-----------------------------------------------------------------------------
(* The inductive invariant. *)

\* The worker has a request it has not published yet.
Serving == wpc \in {"lookup", "scan", "scanned", "publish"}

\* How the numbers of the requests in the slot, with the worker, published and
\* shown compare.
Numbered ==
    /\ req.seq <= seq
    /\ r.seq <= seq
    /\ has_req => req.seq = seq /\ r.seq < seq
    /\ merger.seq <= r.seq
    /\ result.seq <= r.seq
    /\ Serving => merger.seq < r.seq /\ result.seq < r.seq
    /\ result # NoMerger => result.seq > merger.seq
    /\ wpc = "wake" => result.seq = r.seq \/ merger.seq = r.seq

\* All cached mergers have the key of the cache, and while the worker scans it
\* is the key of its request.
CacheAgrees ==
    /\ \A x \in merger_cache : KeyOf(x) = cache_key
    /\ wpc \in {"scan", "scanned"} => cache_key = KeyOf(r)

\* The scan does not run past the last chunk.
InBounds == wpc = "scan" => ci <= r.count

IInv ==
    /\ TypeOK
    /\ InBounds
    /\ CancelMeansNewer
    /\ Numbered
    /\ NewestIsSomewhere
    /\ CacheAgrees
    /\ AnswersItsRequest

-----------------------------------------------------------------------------
(* Facts used by several actions. *)

LEMMA SeqTypes ==
    ASSUME TypeOK
    PROVE  /\ seq \in Nat /\ req.seq \in Nat /\ r.seq \in Nat
           /\ result.seq \in Nat /\ merger.seq \in Nat
BY SearcherAssumption DEF TypeOK, Request

\* Two searches with the same key and the same query are the same search.
LEMMA SameKey ==
    ASSUME NEW a, NEW b, KeyOf(a) = KeyOf(b), a.query = b.query
    PROVE  SameSearch(a, b)
<1>1. KeyOf(a).list = KeyOf(b).list /\ KeyOf(a).count = KeyOf(b).count /\ KeyOf(a).sort = KeyOf(b).sort
  OBVIOUS
<1>2. a.list = b.list /\ a.count = b.count /\ a.sort = b.sort
  BY <1>1 DEF KeyOf
<1> QED BY <1>2 DEF SameSearch

LEMMA KeyType ==
    ASSUME NEW x \in Request
    PROVE  KeyOf(x) \in [list : Lists \cup {0}, count : 0 .. MaxCount, sort : BOOLEAN]
BY DEF Request, KeyOf

\* A step that leaves the worker and its cache alone.
LEMMA WorkerKept ==
    ASSUME CacheAgrees, AnswersItsRequest, InBounds, wpc' = wpc, r' = r, ci' = ci, m' = m,
           merger_cache' = merger_cache, cache_key' = cache_key
    PROVE  CacheAgrees' /\ AnswersItsRequest' /\ InBounds'
BY DEF InBounds, CacheAgrees, AnswersItsRequest, KeyOf, SameSearch

LEMMA InitIInv == Init => IInv
<1> SUFFICES ASSUME Init PROVE IInv
  OBVIOUS
<1>0. NoMerger \in Request
  BY SearcherAssumption DEF NoMerger, Request
<1>1. NoMerger.seq = 0
  BY DEF NoMerger
<1>2. TypeOK
  <2>1. seq \in 0 .. MaxRequests /\ ci \in 0 .. MaxCount
    BY SearcherAssumption DEF Init
  <2>2. {req, r, m, result, merger} \subseteq Request /\ merger_cache \subseteq Request
    BY <1>0 DEF Init
  <2>3. cache_key \in [list : Lists \cup {0}, count : 0 .. MaxCount, sort : BOOLEAN]
    BY SearcherAssumption DEF Init
  <2>4. /\ {has_req, cancel, stop, pipe} \subseteq BOOLEAN
        /\ wpc \in {"wait", "lookup", "scan", "scanned", "publish", "wake", "exit"}
        /\ upc \in {"select", "take", "act", "join"}
    BY DEF Init
  <2> QED BY <2>1, <2>2, <2>3, <2>4 DEF TypeOK
<1>3. CancelMeansNewer /\ NewestIsSomewhere /\ CacheAgrees /\ AnswersItsRequest /\ InBounds
  BY DEF Init, CancelMeansNewer, NewestIsSomewhere, CacheAgrees, AnswersItsRequest, InBounds
<1>4. Numbered
  BY <1>1 DEF Init, Numbered, Serving
<1> QED BY <1>2, <1>3, <1>4 DEF IInv

-----------------------------------------------------------------------------
(* The UI thread's steps. *)

\* A request replaces the slot: it is newer than everything else.
LEMMA PostRequestInv ==
    ASSUME IInv, NEW x \in Request, PostRequest(x)
    PROVE  IInv'
<1>f. /\ TypeOK /\ InBounds /\ CancelMeansNewer /\ Numbered /\ NewestIsSomewhere
      /\ CacheAgrees /\ AnswersItsRequest
  BY DEF IInv
<1>1. /\ seq < MaxRequests /\ x.seq = seq + 1 /\ seq' = seq + 1 /\ req' = x
      /\ has_req' = TRUE /\ cancel' = TRUE /\ upc' = "select"
  BY DEF PostRequest
<1>2. /\ stop' = stop /\ wpc' = wpc /\ r' = r /\ ci' = ci /\ m' = m
      /\ merger_cache' = merger_cache /\ cache_key' = cache_key
      /\ result' = result /\ pipe' = pipe /\ merger' = merger
  BY DEF PostRequest, workerVars, resultVars
<1>3. TypeOK'
  <2>1. seq' \in 0 .. MaxRequests
    BY <1>f, <1>1, SearcherAssumption DEF TypeOK
  <2> QED BY <1>f, <1>1, <1>2, <2>1 DEF TypeOK
<1>4. Numbered'
  <2>1. req'.seq = seq' /\ r'.seq < seq' /\ req'.seq <= seq' /\ r'.seq <= seq'
    BY <1>f, <1>1, <1>2, SeqTypes DEF Numbered
  <2> QED BY <1>f, <1>2, <2>1 DEF Numbered, Serving, NoMerger
<1>5. NewestIsSomewhere' /\ CancelMeansNewer'
  BY <1>1 DEF NewestIsSomewhere, CancelMeansNewer
<1> QED BY <1>f, <1>2, <1>3, <1>4, <1>5, WorkerKept DEF IInv

\* select() returning, the end of a turn and the destructor move no request.
LEMMA IdleInv ==
    ASSUME IInv, NothingToPost \/ Wake \/ OtherInput \/ Stop
    PROVE  IInv'
<1>f. /\ TypeOK /\ InBounds /\ CancelMeansNewer /\ Numbered /\ NewestIsSomewhere
      /\ CacheAgrees /\ AnswersItsRequest
  BY DEF IInv
<1>1. /\ seq' = seq /\ req' = req /\ has_req' = has_req /\ wpc' = wpc /\ r' = r /\ ci' = ci /\ m' = m
      /\ merger_cache' = merger_cache /\ cache_key' = cache_key
      /\ result' = result /\ merger' = merger
  BY DEF NothingToPost, Wake, OtherInput, Stop, slotVars, workerVars, resultVars
<1>2. (cancel' = cancel /\ stop' = stop) \/ (cancel' = TRUE /\ stop' = TRUE)
  BY DEF NothingToPost, Wake, OtherInput, Stop, slotVars
<1>3. pipe' \in BOOLEAN /\ upc' \in {"select", "take", "act", "join"}
  BY <1>f DEF TypeOK, NothingToPost, Wake, OtherInput, Stop, resultVars
<1>4. TypeOK'
  BY <1>f, <1>1, <1>2, <1>3 DEF TypeOK
<1>5. Numbered'
  BY <1>f, <1>1 DEF Numbered, Serving, NoMerger
<1>6. NewestIsSomewhere' /\ CancelMeansNewer'
  BY <1>f, <1>1, <1>2 DEF NewestIsSomewhere, CancelMeansNewer
<1> QED BY <1>f, <1>1, <1>4, <1>5, <1>6, WorkerKept DEF IInv

\* A result is installed; it is newer than the one shown before.
LEMMA TakeInv ==
    ASSUME IInv, Take
    PROVE  IInv'
<1>f. /\ TypeOK /\ InBounds /\ CancelMeansNewer /\ Numbered /\ NewestIsSomewhere
      /\ CacheAgrees /\ AnswersItsRequest
  BY DEF IInv
<1>1. /\ seq' = seq /\ req' = req /\ has_req' = has_req /\ cancel' = cancel /\ stop' = stop
      /\ wpc' = wpc /\ r' = r /\ ci' = ci /\ m' = m
      /\ merger_cache' = merger_cache /\ cache_key' = cache_key /\ pipe' = pipe
      /\ upc' = "act" /\ result' = NoMerger
  BY DEF Take, slotVars, workerVars
<1>2. merger' = IF result = NoMerger THEN merger ELSE result
  BY DEF Take
<1>3. NoMerger \in Request /\ NoMerger.seq = 0
  BY SearcherAssumption DEF NoMerger, Request
<1>4. TypeOK'
  BY <1>f, <1>1, <1>2, <1>3 DEF TypeOK
<1>5. /\ merger'.seq <= r.seq
      /\ Serving => merger'.seq < r.seq
      /\ merger.seq <= merger'.seq /\ result.seq <= merger'.seq
  <2>1. CASE result = NoMerger
    BY <2>1, <1>2, <1>3, <1>f, SeqTypes DEF Numbered
  <2>2. CASE result # NoMerger
    BY <2>2, <1>2, <1>f, SeqTypes DEF Numbered
  <2> QED BY <2>1, <2>2
<1>6. Numbered'
  <2>1. merger'.seq \in Nat
    BY <1>4, SeqTypes, SearcherAssumption DEF TypeOK, Request
  <2>2. wpc = "wake" => merger'.seq = r.seq
    BY <1>f, <1>5, <2>1, SeqTypes DEF Numbered
  <2>3. Serving => 0 < r.seq
    BY <1>5, <1>f, <2>1, SeqTypes
  <2>4. 0 <= r.seq
    BY <1>f, SeqTypes
  <2>5. Serving' <=> Serving
    BY <1>1 DEF Serving
  <2> QED BY <1>f, <1>1, <1>3, <1>5, <2>2, <2>3, <2>4, <2>5 DEF Numbered
<1>7. NewestIsSomewhere'
  <2>1. merger'.seq \in Nat
    BY <1>4, SearcherAssumption DEF TypeOK, Request
  <2>2. merger'.seq <= seq
    BY <1>5, <1>f, <2>1, SeqTypes DEF Numbered
  <2>3. merger.seq = seq \/ result.seq = seq => merger'.seq = seq
    BY <1>5, <2>1, <2>2, <1>f, SeqTypes
  <2> QED BY <1>f, <1>1, <2>3 DEF NewestIsSomewhere
<1>8. CancelMeansNewer'
  BY <1>f, <1>1 DEF CancelMeansNewer
<1> QED BY <1>f, <1>1, <1>4, <1>6, <1>7, <1>8, WorkerKept DEF IInv

-----------------------------------------------------------------------------
(* The worker's steps. *)

\* The slot is emptied: what was in it is newer than all that was published.
LEMMA TakeRequestInv ==
    ASSUME IInv, TakeRequest
    PROVE  IInv'
<1>f. /\ TypeOK /\ InBounds /\ CancelMeansNewer /\ Numbered /\ NewestIsSomewhere
      /\ CacheAgrees /\ AnswersItsRequest
  BY DEF IInv
<1>1. /\ wpc = "wait" /\ has_req /\ r' = req /\ has_req' = FALSE /\ cancel' = FALSE /\ wpc' = "lookup"
      /\ ~stop
  BY DEF TakeRequest
<1>2. /\ seq' = seq /\ req' = req /\ stop' = stop /\ ci' = ci /\ m' = m
      /\ merger_cache' = merger_cache /\ cache_key' = cache_key
      /\ result' = result /\ merger' = merger /\ pipe' = pipe /\ upc' = upc
  BY DEF TakeRequest, uiVars, resultVars
<1>3. TypeOK'
  BY <1>f, <1>1, <1>2 DEF TypeOK
<1>4. Numbered'
  <2>1. r'.seq = seq /\ merger.seq < r'.seq /\ result.seq < r'.seq /\ seq \in Nat
    BY <1>f, <1>1, SeqTypes DEF Numbered
  <2>2. merger.seq \in Nat /\ result.seq \in Nat /\ r'.seq \in Nat
    BY <1>f, <2>1, SeqTypes
  <2>3. merger.seq <= r'.seq /\ result.seq <= r'.seq /\ r'.seq <= seq
    BY <2>1, <2>2
  <2> QED BY <1>f, <1>1, <1>2, <2>1, <2>3 DEF Numbered, NoMerger
<1>5. NewestIsSomewhere' /\ CancelMeansNewer'
  BY <1>f, <1>1, <1>2 DEF NewestIsSomewhere, CancelMeansNewer, Numbered
<1>6. CacheAgrees' /\ AnswersItsRequest' /\ InBounds'
  BY <1>f, <1>1, <1>2 DEF CacheAgrees, AnswersItsRequest, KeyOf, InBounds
<1> QED BY <1>3, <1>4, <1>5, <1>6 DEF IInv

LEMMA ExitInv ==
    ASSUME IInv, Exit
    PROVE  IInv'
<1>f. /\ TypeOK /\ InBounds /\ CancelMeansNewer /\ Numbered /\ NewestIsSomewhere
      /\ CacheAgrees /\ AnswersItsRequest
  BY DEF IInv
<1>1. /\ stop /\ wpc' = "exit" /\ seq' = seq /\ req' = req /\ has_req' = has_req
      /\ cancel' = cancel /\ stop' = stop /\ r' = r /\ ci' = ci /\ m' = m
      /\ merger_cache' = merger_cache /\ cache_key' = cache_key
      /\ result' = result /\ merger' = merger /\ pipe' = pipe /\ upc' = upc
  BY DEF Exit, uiVars, slotVars, resultVars
<1>2. TypeOK'
  BY <1>f, <1>1 DEF TypeOK
<1>3. Numbered'
  BY <1>f, <1>1 DEF Numbered, Serving, NoMerger
<1>4. NewestIsSomewhere' /\ CancelMeansNewer'
  BY <1>1 DEF NewestIsSomewhere, CancelMeansNewer
<1>5. CacheAgrees' /\ AnswersItsRequest' /\ InBounds'
  BY <1>f, <1>1 DEF CacheAgrees, AnswersItsRequest, KeyOf, InBounds
<1> QED BY <1>2, <1>3, <1>4, <1>5 DEF IInv

\* A cached merger is only used when key and query are those of the request.
LEMMA LookupInv ==
    ASSUME IInv, Lookup
    PROVE  IInv'
<1>f. /\ TypeOK /\ InBounds /\ CancelMeansNewer /\ Numbered /\ NewestIsSomewhere
      /\ CacheAgrees /\ AnswersItsRequest
  BY DEF IInv
<1>1. /\ seq' = seq /\ req' = req /\ has_req' = has_req /\ cancel' = cancel /\ stop' = stop
      /\ r' = r /\ result' = result /\ merger' = merger /\ pipe' = pipe /\ upc' = upc /\ ci' = 0
      /\ wpc = "lookup" /\ merger_cache' = ValidCache /\ cache_key' = KeyOf(r)
  BY DEF Lookup, uiVars, slotVars, resultVars
<1>2. ValidCache \subseteq Request /\ \A x \in ValidCache : KeyOf(x) = KeyOf(r)
  BY <1>f DEF ValidCache, TypeOK, CacheAgrees
<1>3. r \in Request /\ KeyOf(r) \in [list : Lists \cup {0}, count : 0 .. MaxCount, sort : BOOLEAN]
  BY <1>f, KeyType DEF TypeOK
<1>4. \/ m' \in ValidCache /\ m'.query = r.query /\ wpc' = "publish"
      \/ m' = m /\ wpc' \in {"scan", "scanned"}
  BY DEF Lookup
<1>5. TypeOK'
  <2>1. m' \in Request /\ wpc' \in {"wait", "lookup", "scan", "scanned", "publish", "wake", "exit"}
    BY <1>f, <1>2, <1>4 DEF TypeOK
  <2>2. 0 \in 0 .. MaxCount
    BY SearcherAssumption
  <2> QED BY <1>f, <1>1, <1>2, <1>3, <2>1, <2>2 DEF TypeOK
<1>6. Numbered'
  <2>1. Serving /\ Serving' /\ wpc' # "wake"
    BY <1>1, <1>4 DEF Serving
  <2> QED BY <1>f, <1>1, <2>1 DEF Numbered, NoMerger
<1>7. NewestIsSomewhere' /\ CancelMeansNewer'
  BY <1>f, <1>1, <1>4 DEF NewestIsSomewhere, CancelMeansNewer
<1>8. CacheAgrees' /\ InBounds'
  <2>1. 0 <= r.count
    BY <1>3, SearcherAssumption DEF Request
  <2> QED BY <1>1, <1>2, <2>1 DEF CacheAgrees, KeyOf, InBounds
<1>9. AnswersItsRequest'
  <2>1. CASE m' \in ValidCache /\ m'.query = r.query
    <3>1. KeyOf(m') = KeyOf(r)
      BY <2>1, <1>2
    <3>2. SameSearch(m', r)
      BY <2>1, <3>1, SameKey
    <3> QED BY <3>2, <1>1 DEF AnswersItsRequest, SameSearch
  <2>2. CASE wpc' \in {"scan", "scanned"}
    BY <2>2 DEF AnswersItsRequest
  <2> QED BY <1>4, <2>1, <2>2
<1> QED BY <1>5, <1>6, <1>7, <1>8, <1>9 DEF IInv

\* A scan that is cancelled leaves a newer request in the slot.
LEMMA ScanChunkInv ==
    ASSUME IInv, ScanChunk
    PROVE  IInv'
<1>f. /\ TypeOK /\ InBounds /\ CancelMeansNewer /\ Numbered /\ NewestIsSomewhere
      /\ CacheAgrees /\ AnswersItsRequest
  BY DEF IInv
<1>1. /\ seq' = seq /\ req' = req /\ has_req' = has_req /\ cancel' = cancel /\ stop' = stop
      /\ r' = r /\ m' = m /\ merger_cache' = merger_cache /\ cache_key' = cache_key
      /\ result' = result /\ merger' = merger /\ pipe' = pipe /\ upc' = upc /\ wpc = "scan"
  BY DEF ScanChunk, uiVars, slotVars, resultVars
<1>2. ci \in Nat /\ r.count \in 0 .. MaxCount /\ r.count \in Nat /\ ci <= r.count
  BY <1>f, <1>1, SearcherAssumption DEF TypeOK, Request, InBounds
<1>3. \/ cancel /\ wpc' = "wait" /\ ci' = ci
      \/ ci = r.count /\ wpc' = "scanned" /\ ci' = ci
      \/ ci < r.count /\ wpc' = "scan" /\ ci' = ci + 1
  BY <1>2 DEF ScanChunk
<1>4. TypeOK'
  <2>1. ci' \in 0 .. MaxCount
    BY <1>2, <1>3, SearcherAssumption
  <2>2. wpc' \in {"wait", "scanned", "scan"}
    BY <1>3
  <2> QED BY <1>f, <1>1, <2>1, <2>2 DEF TypeOK
<1>5. Numbered'
  <2>1. Serving /\ wpc' # "wake"
    BY <1>1, <1>3 DEF Serving
  <2> QED BY <1>f, <1>1, <2>1 DEF Numbered, NoMerger
<1>6. CancelMeansNewer' /\ InBounds'
  BY <1>f, <1>1, <1>2, <1>3 DEF CancelMeansNewer, InBounds
<1>7. NewestIsSomewhere'
  <2>1. CASE cancel
    <3>1. stop \/ (has_req /\ req.seq = seq)
      BY <2>1, <1>f DEF CancelMeansNewer, Numbered
    <3> QED BY <3>1, <1>1 DEF NewestIsSomewhere
  <2>2. CASE wpc' # "wait"
    BY <2>2, <1>f, <1>1 DEF NewestIsSomewhere
  <2> QED BY <1>3, <2>1, <2>2
<1>8. CacheAgrees' /\ AnswersItsRequest'
  BY <1>f, <1>1, <1>3 DEF CacheAgrees, AnswersItsRequest, KeyOf
<1> QED BY <1>4, <1>5, <1>6, <1>7, <1>8 DEF IInv

\* The merger built answers the request, and what is cached has its key.
LEMMA BuildInv ==
    ASSUME IInv, NEW small \in BOOLEAN, Build(small)
    PROVE  IInv'
<1>f. /\ TypeOK /\ InBounds /\ CancelMeansNewer /\ Numbered /\ NewestIsSomewhere
      /\ CacheAgrees /\ AnswersItsRequest
  BY DEF IInv
<1>1. /\ seq' = seq /\ req' = req /\ has_req' = has_req /\ cancel' = cancel /\ stop' = stop
      /\ r' = r /\ m' = r /\ ci' = ci /\ cache_key' = cache_key /\ wpc = "scanned" /\ wpc' = "publish"
      /\ result' = result /\ merger' = merger /\ pipe' = pipe /\ upc' = upc
  BY DEF Build, uiVars, slotVars, resultVars
<1>2. merger_cache' \subseteq merger_cache \cup {r}
  BY DEF Build
<1>3. TypeOK'
  BY <1>f, <1>1, <1>2 DEF TypeOK
<1>4. Numbered'
  BY <1>f, <1>1 DEF Numbered, Serving, NoMerger
<1>5. CancelMeansNewer' /\ NewestIsSomewhere' /\ InBounds'
  BY <1>f, <1>1 DEF CancelMeansNewer, NewestIsSomewhere, InBounds
<1>6. CacheAgrees'
  <2>1. cache_key = KeyOf(r)
    BY <1>f, <1>1 DEF CacheAgrees
  <2> QED BY <1>f, <1>1, <1>2, <2>1 DEF CacheAgrees, KeyOf
<1>7. AnswersItsRequest'
  BY <1>1 DEF AnswersItsRequest, SameSearch
<1> QED BY <1>3, <1>4, <1>5, <1>6, <1>7 DEF IInv

\* What is published is newer than what is shown or was published before.
LEMMA PublishInv ==
    ASSUME IInv, Publish
    PROVE  IInv'
<1>f. /\ TypeOK /\ InBounds /\ CancelMeansNewer /\ Numbered /\ NewestIsSomewhere
      /\ CacheAgrees /\ AnswersItsRequest
  BY DEF IInv
<1>1. /\ seq' = seq /\ req' = req /\ has_req' = has_req /\ cancel' = cancel /\ stop' = stop
      /\ r' = r /\ m' = m /\ ci' = ci /\ merger_cache' = merger_cache /\ cache_key' = cache_key
      /\ merger' = merger /\ pipe' = pipe /\ upc' = upc /\ wpc = "publish" /\ wpc' = "wake"
  BY DEF Publish, uiVars, slotVars
<1>2. result' \in Request /\ result'.seq = r.seq
  <2>1. m \in Request /\ r.seq \in 0 .. MaxRequests
    BY <1>f DEF TypeOK, Request
  <2> QED BY <2>1 DEF Publish, Request
<1>3. TypeOK'
  BY <1>f, <1>1, <1>2 DEF TypeOK
<1>4. Numbered'
  <2>1. merger.seq < r.seq /\ r.seq \in Nat /\ merger.seq \in Nat
    BY <1>f, <1>1, SeqTypes DEF Numbered, Serving
  <2>2. ~Serving'
    BY <1>1 DEF Serving
  <2> QED BY <1>f, <1>1, <1>2, <2>1, <2>2 DEF Numbered, NoMerger
<1>5. NewestIsSomewhere'
  <2>1. result.seq = seq => r.seq = seq
    BY <1>f, SeqTypes DEF Numbered
  <2> QED BY <1>f, <1>1, <1>2, <2>1 DEF NewestIsSomewhere
<1>6. CancelMeansNewer' /\ InBounds' /\ CacheAgrees' /\ AnswersItsRequest'
  BY <1>f, <1>1 DEF CancelMeansNewer, InBounds, CacheAgrees, AnswersItsRequest, KeyOf, SameSearch
<1> QED BY <1>3, <1>4, <1>5, <1>6 DEF IInv

\* The worker waits again: its result is published or already shown.
LEMMA WakeUIInv ==
    ASSUME IInv, WakeUI
    PROVE  IInv'
<1>f. /\ TypeOK /\ InBounds /\ CancelMeansNewer /\ Numbered /\ NewestIsSomewhere
      /\ CacheAgrees /\ AnswersItsRequest
  BY DEF IInv
<1>1. /\ seq' = seq /\ req' = req /\ has_req' = has_req /\ cancel' = cancel /\ stop' = stop
      /\ r' = r /\ m' = m /\ ci' = ci /\ merger_cache' = merger_cache /\ cache_key' = cache_key
      /\ result' = result /\ merger' = merger /\ pipe' = TRUE /\ upc' = upc
      /\ wpc = "wake" /\ wpc' = "wait"
  BY DEF WakeUI, uiVars, slotVars
<1>2. TypeOK'
  BY <1>f, <1>1 DEF TypeOK
<1>3. Numbered'
  BY <1>f, <1>1 DEF Numbered, Serving, NoMerger
<1>4. NewestIsSomewhere'
  BY <1>f, <1>1 DEF NewestIsSomewhere, Numbered
<1>5. CancelMeansNewer' /\ InBounds' /\ CacheAgrees' /\ AnswersItsRequest'
  BY <1>f, <1>1 DEF CancelMeansNewer, InBounds, CacheAgrees, AnswersItsRequest, KeyOf
<1> QED BY <1>2, <1>3, <1>4, <1>5 DEF IInv

-----------------------------------------------------------------------------
(* The theorems. *)

LEMMA NextIInv == IInv /\ [Next]_vars => IInv'
<1> SUFFICES ASSUME IInv, [Next]_vars PROVE IInv'
  OBVIOUS
<1>1. CASE UI
  BY <1>1, PostRequestInv, IdleInv, TakeInv DEF UI
<1>2. CASE Worker
  BY <1>2, TakeRequestInv, ExitInv, LookupInv, ScanChunkInv, BuildInv, PublishInv, WakeUIInv DEF Worker
<1>3. CASE UNCHANGED vars
  <2>1. /\ seq' = seq /\ req' = req /\ has_req' = has_req /\ cancel' = cancel /\ stop' = stop
        /\ r' = r /\ m' = m /\ ci' = ci /\ merger_cache' = merger_cache /\ cache_key' = cache_key
        /\ result' = result /\ merger' = merger /\ pipe' = pipe /\ upc' = upc /\ wpc' = wpc
    BY <1>3 DEF vars
  <2>2. TypeOK' /\ CancelMeansNewer' /\ NewestIsSomewhere'
    BY <2>1 DEF IInv, TypeOK, CancelMeansNewer, NewestIsSomewhere
  <2>3. Numbered'
    BY <2>1 DEF IInv, Numbered, Serving, NoMerger
  <2> QED BY <2>1, <2>2, <2>3, WorkerKept DEF IInv
<1> QED BY <1>1, <1>2, <1>3 DEF Next

LEMMA Inductive == Spec => []IInv
BY InitIInv, NextIInv, PTL DEF Spec

\* The variables keep their types.
THEOREM TypeCorrect == Spec => []TypeOK
<1>1. IInv => TypeOK
  BY DEF IInv
<1> QED BY <1>1, Inductive, PTL

\* The merger cache never answers with the matches of another search, whatever
\* its size and whatever was cached.
THEOREM Answers == Spec => []AnswersItsRequest
<1>1. IInv => AnswersItsRequest
  BY DEF IInv
<1> QED BY <1>1, Inductive, PTL

\* No scan is abandoned without a request to replace it.
THEOREM Cancelled == Spec => []CancelMeansNewer
<1>1. IInv => CancelMeansNewer
  BY DEF IInv
<1> QED BY <1>1, Inductive, PTL

\* The newest request is never dropped, for any number of requests.
THEOREM Newest == Spec => []NewestIsSomewhere
<1>1. IInv => NewestIsSomewhere
  BY DEF IInv
<1> QED BY <1>1, Inductive, PTL

\* No search is abandoned or lost without one that replaces it.
THEOREM NotDropped == Spec => []NothingIsDropped
<1>1. IInv => NothingIsDropped
  BY DEF IInv, NothingIsDropped
<1> QED BY <1>1, Inductive, PTL

\* The search service implements its abstract specification: what is shown
\* only moves on to newer requests that were posted.
THEOREM Implements == Spec => ImplementsLatestWins
<1>1. Init => Service!Init
  BY DEF Init, Service!Init, NoMerger
<1>2. IInv /\ [Next]_vars => [Service!Next]_Service!vars
  <2> SUFFICES ASSUME IInv, [Next]_vars PROVE [Service!Next]_Service!vars
    OBVIOUS
  <2>1. CASE \E x \in Request : PostRequest(x)
    <3>1. seq' = seq + 1 /\ merger' = merger /\ stop' = stop
      BY <2>1 DEF PostRequest
    <3> QED BY <3>1 DEF Service!Next, Service!Post
  <2>2. CASE Stop
    <3>1. seq' = seq /\ merger' = merger /\ stop' = TRUE
      BY <2>2 DEF Stop
    <3> QED BY <3>1 DEF Service!Next, Service!Close
  <2>3. CASE Take
    <3>1. seq' = seq /\ stop' = stop
      BY <2>3 DEF Take, slotVars
    <3>2. CASE result = NoMerger
      BY <2>3, <3>1, <3>2 DEF Take, Service!vars
    <3>3. CASE result # NoMerger
      <4>1. merger' = result
        BY <2>3, <3>3 DEF Take
      <4>2. result.seq > merger.seq /\ result.seq <= seq
        BY <3>3, SeqTypes DEF IInv, Numbered
      <4> QED BY <3>1, <4>1, <4>2 DEF Service!Next, Service!Show
    <3> QED BY <3>2, <3>3
  <2>4. CASE NothingToPost \/ Wake \/ OtherInput \/ Worker \/ UNCHANGED vars
    <3>1. seq' = seq /\ merger' = merger /\ stop' = stop
      BY <2>4 DEF NothingToPost, Wake, OtherInput, Worker, TakeRequest, Exit, Lookup, ScanChunk,
                  Build, Publish, WakeUI, uiVars, slotVars, vars
    <3> QED BY <3>1 DEF Service!vars
  <2> QED BY <2>1, <2>2, <2>3, <2>4 DEF Next, UI
<1> QED BY <1>1, <1>2, Inductive, PTL DEF Spec, Service!Spec, ImplementsLatestWins
=============================================================================
