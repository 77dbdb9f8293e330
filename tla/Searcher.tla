------------------------------ MODULE Searcher ------------------------------
(***************************************************************************)
(* The search service (search.cpp, Searcher; fzf's Matcher).  The UI       *)
(* thread posts requests into a slot that holds only the newest one; one   *)
(* worker thread takes the slot, scans the chunks of the snapshot unless a *)
(* cached merger answers, and publishes a merger the UI takes when it is   *)
(* woken through a self-pipe.  A request raises cancel_, which the worker  *)
(* polls before each chunk and before it sorts.                            *)
(*                                                                         *)
(* A snapshot is abstracted to the list it was taken of and its count (the *)
(* list only grows, so they determine the items; see ChunkList), a chunk   *)
(* holds one item, and a merger is the description of the request whose    *)
(* matches it holds.                                                       *)
(***************************************************************************)
EXTENDS Integers, FiniteSets

CONSTANTS
    Lists,                \* list ids, 1 .. n: a reload replaces the list by the next
    MaxCount,             \* bound: items per list
    Queries,              \* the queries typed
    EmptyQuery,           \* the query whose pattern is empty
    MergerCacheEntries,   \* kMergerCacheEntries
    MaxRequests           \* bound: requests the UI posts

ASSUME SearcherAssumption ==
    /\ Lists \subseteq Nat \ {0}
    /\ 1 \in Lists
    /\ MaxCount \in Nat
    /\ EmptyQuery \in Queries
    /\ MergerCacheEntries \in Nat \ {0}
    /\ MaxRequests \in Nat

VARIABLES
    seq,          \* history: number of requests posted
    req,          \* req_: the newest request
    has_req,      \* has_req_
    cancel,       \* cancel_
    stop,         \* stop_
    wpc,          \* what the worker does next
    r,            \* the worker's request
    ci,           \* next chunk to scan
    m,            \* the worker's merger
    merger_cache, \* merger_cache_: the cached mergers
    cache_key,    \* cache_list_id_, cache_count_, cache_sort_
    result,       \* result_
    pipe,         \* a byte is in the self-pipe
    upc,          \* what the UI loop does next
    merger        \* the merger the UI took last

uiVars     == <<seq, upc, merger>>
slotVars   == <<req, has_req, cancel, stop>>
workerVars == <<wpc, r, ci, m, merger_cache, cache_key>>
resultVars == <<result, pipe>>
vars == <<seq, req, has_req, cancel, stop, wpc, r, ci, m,
          merger_cache, cache_key, result, pipe, upc, merger>>

\* A request, and the merger it asks for; seq is a history.
Request == [list : Lists, count : 0 .. MaxCount, query : Queries, sort : BOOLEAN,
            seq : 0 .. MaxRequests]
NoMerger == [list |-> 1, count |-> 0, query |-> EmptyQuery, sort |-> TRUE, seq |-> 0]
SameSearch(a, b) ==
    a.list = b.list /\ a.count = b.count /\ a.query = b.query /\ a.sort = b.sort

Init ==
    /\ seq = 0
    /\ req = NoMerger
    /\ has_req = FALSE
    /\ cancel = FALSE
    /\ stop = FALSE
    /\ wpc = "wait"
    /\ r = NoMerger
    /\ ci = 0
    /\ m = NoMerger
    /\ merger_cache = {}
    /\ cache_key = [list |-> 0, count |-> 0, sort |-> TRUE]
    /\ result = NoMerger
    /\ pipe = FALSE
    /\ upc = "select"
    /\ merger = NoMerger

-----------------------------------------------------------------------------
(* The UI thread. *)

\* What the UI may ask for after x: the list only grows and a reload replaces
\* it by a newer one, the query and the sort order are whatever the user typed.
Follows(y, x) == y.list > x.list \/ (y.list = x.list /\ y.count >= x.count)

\* Mutant of PostRequest: a request that still waits is not replaced.
PostRequestKeepsOld(x) ==
    /\ upc = "act"
    /\ seq < MaxRequests
    /\ x.seq = seq + 1
    /\ Follows(x, req)
    /\ seq' = seq + 1
    /\ req' = IF has_req THEN req ELSE x
    /\ has_req' = TRUE
    /\ cancel' = TRUE
    /\ upc' = "select"
    /\ UNCHANGED <<stop, workerVars, resultVars, merger>>

\* request(): replaces the slot and cancels the scan in flight.
PostRequest(x) ==
    /\ upc = "act"
    /\ seq < MaxRequests
    /\ x.seq = seq + 1
    /\ Follows(x, req)
    /\ seq' = seq + 1
    /\ req' = x
    /\ has_req' = TRUE
    /\ cancel' = TRUE
    /\ upc' = "select"
    /\ UNCHANGED <<stop, workerVars, resultVars, merger>>

NothingToPost ==
    /\ upc = "act"
    /\ upc' = "select"
    /\ UNCHANGED <<seq, merger, slotVars, workerVars, resultVars>>

\* select() returns for the wake pipe, which is drained, or for other input.
Wake ==
    /\ upc = "select"
    /\ pipe
    /\ pipe' = FALSE
    /\ upc' = "take"
    /\ UNCHANGED <<seq, merger, slotVars, workerVars, result>>

OtherInput ==
    /\ upc = "select"
    /\ upc' = "take"
    /\ UNCHANGED <<seq, merger, slotVars, workerVars, resultVars>>

\* take(), once per turn of the loop; a result is installed.
Take ==
    /\ upc = "take"
    /\ merger' = IF result = NoMerger THEN merger ELSE result
    /\ result' = NoMerger
    /\ upc' = "act"
    /\ UNCHANGED <<seq, slotVars, workerVars, pipe>>

\* ~Searcher(): stop_ and cancel_ under req_mu_, then join.
Stop ==
    /\ upc = "act"
    /\ stop' = TRUE
    /\ cancel' = TRUE
    /\ upc' = "join"
    /\ UNCHANGED <<seq, merger, req, has_req, workerVars, resultVars>>

UI == (\E x \in Request : PostRequest(x)) \/ NothingToPost \/ Wake \/ OtherInput \/ Take \/ Stop

-----------------------------------------------------------------------------
(* The worker thread: loop(). *)

\* The slot is emptied and cancel_ lowered under the same lock.
TakeRequest ==
    /\ wpc = "wait"
    /\ ~stop
    /\ has_req
    /\ r' = req
    /\ has_req' = FALSE
    /\ cancel' = FALSE
    /\ wpc' = "lookup"
    /\ UNCHANGED <<uiVars, req, stop, ci, m, merger_cache, cache_key, resultVars>>

\* Mutant of Exit: a waiting request is looked at before stop_.
ExitIdle ==
    /\ wpc = "wait"
    /\ stop /\ ~has_req
    /\ wpc' = "exit"
    /\ UNCHANGED <<uiVars, slotVars, r, ci, m, merger_cache, cache_key, resultVars>>

Exit ==
    /\ wpc = "wait"
    /\ stop
    /\ wpc' = "exit"
    /\ UNCHANGED <<uiVars, slotVars, r, ci, m, merger_cache, cache_key, resultVars>>

\* Mutant of KeyOf: the sort order is not part of the key.
KeyOfUnsorted(x) == [list |-> x.list, count |-> x.count, sort |-> TRUE]

KeyOf(x) == [list |-> x.list, count |-> x.count, sort |-> x.sort]

\* The cached mergers that are still valid for the worker's request.
ValidCache == IF KeyOf(r) = cache_key THEN merger_cache ELSE {}

\* An empty list or pattern needs no scan: the merger passes every item.
Lookup ==
    /\ wpc = "lookup"
    /\ merger_cache' = ValidCache
    /\ cache_key' = KeyOf(r)
    /\ IF \E x \in ValidCache : x.query = r.query
         THEN /\ m' = CHOOSE x \in ValidCache : x.query = r.query
              /\ wpc' = "publish"
         ELSE /\ m' = m
              /\ wpc' = IF r.count = 0 \/ r.query = EmptyQuery THEN "scanned" ELSE "scan"
    /\ ci' = 0
    /\ UNCHANGED <<uiVars, slotVars, r, resultVars>>

\* Before each chunk, and once more after the last, cancel_ is polled.
ScanChunk ==
    /\ wpc = "scan"
    /\ wpc' = IF cancel THEN "wait" ELSE IF ci = r.count THEN "scanned" ELSE "scan"
    /\ ci' = IF ~cancel /\ ci < r.count THEN ci + 1 ELSE ci
    /\ UNCHANGED <<uiVars, slotVars, r, m, merger_cache, cache_key, resultVars>>

\* The merger is built, and cached unless it has too many matches (small says).
Build(small) ==
    /\ wpc = "scanned"
    /\ m' = r
    /\ merger_cache' =
          IF ~small THEN merger_cache
          ELSE IF Cardinality(merger_cache) >= MergerCacheEntries THEN {r}
          ELSE merger_cache \cup {r}
    /\ wpc' = "publish"
    /\ UNCHANGED <<uiVars, slotVars, r, ci, cache_key, resultVars>>

\* Mutant of Publish: a cached merger still belongs to the request it was built for.
PublishStale ==
    /\ wpc = "publish"
    /\ result' = m
    /\ wpc' = "wake"
    /\ UNCHANGED <<uiVars, slotVars, r, ci, m, merger_cache, cache_key, pipe>>

\* result_ = m; a merger that came from the cache answers this request now.
Publish ==
    /\ wpc = "publish"
    /\ result' = [m EXCEPT !.seq = r.seq]
    /\ wpc' = "wake"
    /\ UNCHANGED <<uiVars, slotVars, r, ci, m, merger_cache, cache_key, pipe>>

\* Mutant of WakeUI: only a UI that sleeps in select() is woken.
WakeSleepingUI ==
    /\ wpc = "wake"
    /\ pipe' = (upc = "select")
    /\ wpc' = "wait"
    /\ UNCHANGED <<uiVars, slotVars, r, ci, m, merger_cache, cache_key, result>>

WakeUI ==
    /\ wpc = "wake"
    /\ pipe' = TRUE
    /\ wpc' = "wait"
    /\ UNCHANGED <<uiVars, slotVars, r, ci, m, merger_cache, cache_key, result>>

Worker ==
    \/ TakeRequest \/ Exit \/ Lookup \/ ScanChunk
    \/ \E small \in BOOLEAN : Build(small)
    \/ Publish \/ WakeUI

Next == UI \/ Worker

\* The worker runs whenever it can; the UI loop serves the wake pipe and ends
\* its turns.  Nobody has to type.
UITurn == Wake \/ Take \/ NothingToPost
Fairness == WF_vars(Worker) /\ WF_vars(UITurn)
Spec == Init /\ [][Next]_vars /\ Fairness

-----------------------------------------------------------------------------
(* Properties. *)

TypeOK ==
    /\ seq \in 0 .. MaxRequests
    /\ {req, r, m, result, merger} \subseteq Request
    /\ {has_req, cancel, stop, pipe} \subseteq BOOLEAN
    /\ wpc \in {"wait", "lookup", "scan", "scanned", "publish", "wake", "exit"}
    /\ ci \in 0 .. MaxCount
    /\ merger_cache \subseteq Request
    /\ cache_key \in [list : Lists \cup {0}, count : 0 .. MaxCount, sort : BOOLEAN]
    /\ upc \in {"select", "take", "act", "join"}

\* A merger on its way to the UI holds what its request asked for: the merger
\* cache never answers with the matches of another list, another length of the
\* list, another sort order or another query, whatever was cached before.
AnswersItsRequest == wpc \in {"publish", "wake"} => SameSearch(m, r)

\* cancel_ is only up while something newer waits (or the worker must stop): a
\* scan is never abandoned without a request that replaces it.
CancelMeansNewer == cancel => has_req \/ stop

\* Each request is either pending, with the worker, published, shown, or
\* superseded by a newer one: the newest is never dropped on the way.
NewestIsSomewhere ==
    (seq > 0 /\ ~stop) =>
        \/ has_req /\ req.seq = seq
        \/ wpc # "wait" /\ r.seq = seq
        \/ result.seq = seq
        \/ merger.seq = seq

\* No search is lost: an abandoned scan is replaced, and the newest request is
\* with one of the two threads or between them.
NothingIsDropped == CancelMeansNewer /\ NewestIsSomewhere

\* The UI shows the newest request's result in the end, even if nothing else
\* ever happens: no wake is lost between publication and take().
NewestIsShown ==
    \A n \in 1 .. MaxRequests : (seq = n) ~> (merger.seq = n \/ seq > n \/ stop)

\* The destructor's join returns.
StopEnds == stop ~> (wpc = "exit")

Service == INSTANCE LatestWins WITH posted <- seq, shown <- merger.seq, closed <- stop

\* The searcher implements the service it promises.
ImplementsLatestWins == Service!Spec

\* "Only the latest request is ever served": what the UI takes answers the
\* newest request it has posted.
OnlyLatestServed == [][merger' # merger => merger'.seq = seq]_vars
=============================================================================
