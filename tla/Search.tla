------------------------------- MODULE Search -------------------------------
(***************************************************************************)
(* A search through the chunks of the item list, with the cache of         *)
(* matching items per chunk and query: Pattern, ChunkCache, Merger and     *)
(* Searcher::scan / match_chunk (search.cpp), on the texts and queries of  *)
(* Matcher.  The reader appends while the worker scans.                    *)
(***************************************************************************)
EXTENDS Integers, Sequences, FiniteSets, SequencesExt

CONSTANTS Settings,     \* option records
          Feed,         \* the lines the reader delivers, in order
          Queries,      \* queries the user asks
          ChunkSize,    \* kChunkSize
          CacheEntries, \* kChunkCacheEntries
          MaxScans,     \* bound of the model: searches
          MaxReloads    \* bound of the model: reloads

ASSUME SearchAssumption == {ChunkSize, CacheEntries} \subseteq Nat \ {0} /\ MaxScans \in Nat /\ MaxReloads \in Nat

Criteria == {"Score", "Length", "Chunk", "Pathname", "Begin", "End"}

ASSUME InputsAssumption ==
    /\ \A opt \in Settings : /\ {opt.interactive, opt.sort, opt.tac} \subseteq BOOLEAN
                            /\ opt.criteria \in Seq(Criteria)
    /\ Feed \in Seq(Seq(STRING))

M == INSTANCE Matcher

VARIABLES o,        \* the options
          patterns, \* the pattern of every query, what it answers for every line
          store,    \* every chunk allocated: store[id] = [first, items, sealed]
          list,     \* the item list: the ids of its chunks
          fed,      \* lines read so far from Feed
          finished, \* the list has been finished
          cache,    \* ChunkCache: a set of [id, key, hits]
          scan,     \* the search in progress, or Idle
          merger,   \* the result published last, or Idle
          scans, reloads

vars == <<o, patterns, store, list, fed, finished, cache, scan, merger, scans, reloads>>

Idle == [on |-> FALSE]
QueryCacheMax == ChunkSize \div 2

-----------------------------------------------------------------------------
(* Pattern *)

\* Without --extended the whole query is one term, spaces included.
WholeTerm(opt, q) ==
    LET cs == M!TermCaseSensitive(opt.mode, q)
    IN  [type |-> IF opt.exact THEN "Exact" ELSE "Fuzzy", inverse |-> FALSE, cs |-> cs,
         text |-> IF cs THEN q ELSE M!LowerAll(q)]

Sets(opt, q) == IF opt.extended THEN M!ParseTerms(opt, q)
                ELSE IF q = <<>> THEN <<>> ELSE << <<WholeTerm(opt, q)>> >>

\* Inverse terms, alternatives and terms of another type keep a query from
\* leaving its matches in the cache ...
Native(opt) == IF opt.exact THEN "Exact" ELSE "Fuzzy"
IsCacheable(opt, q) ==
    opt.interactive /\ (opt.extended => \A set \in Range(Sets(opt, q)) :
                            Len(set) = 1 /\ ~set[1].inverse /\ set[1].type = Native(opt))

\* ... but its key, for looking narrower ones up, leaves out only some of them.
KeyOf(opt, q) ==
    LET keyed == SelectSeq(Sets(opt, q), LAMBDA set :
                     Len(set) = 1 /\ ~set[1].inverse /\ (~opt.exact \/ set[1].type = "Exact"))
    IN  IF ~opt.extended THEN q
        ELSE FlattenSeq([i \in DOMAIN keyed |->
                 IF i = 1 THEN keyed[i][1].text ELSE <<"\t">> \o keyed[i][1].text])

\* Patterns are built once per query and immutable.
BuildPattern(opt, q) ==
    [empty     |-> Sets(opt, q) = <<>>,
     sortable  |-> ~opt.extended \/ M!Sortable(Sets(opt, q)),
     cacheable |-> IsCacheable(opt, q),
     key       |-> KeyOf(opt, q),
     match     |-> [t \in Range(Feed) |-> M!Match(opt, t, Sets(opt, q), <<>>)]]

\* A mutant: the type of the terms is not looked at.
CacheableAnyType(q) ==
    o.interactive /\ (o.extended => \A set \in Range(Sets(o, q)) : Len(set) = 1 /\ ~set[1].inverse)

Cacheable(q) == patterns[q].cacheable
CacheKey(q) == patterns[q].key
PatternMatch(q, text) == patterns[q].match[text]

\* What ChunkCache::search relies on: an item that matches a query matches every
\* cacheable query whose key is its key, or a prefix or a suffix of it.
ASSUME MatcherAssumption ==
    \A opt \in Settings, q \in Queries :
      LET key    == KeyOf(opt, q)
          match  == BuildPattern(opt, q).match
          shorter == {key} \cup UNION {{SubSeq(key, 1, n), SubSeq(key, Len(key) - n + 1, Len(key))}
                                          : n \in 1 .. Len(key) - 1}
      IN  /\ Len(key) \in Nat
          /\ \A t \in Range(Feed) :
                /\ match[t].matched \in BOOLEAN
                /\ {match[t].score, match[t].begin, match[t].end, match[t].min_end} \subseteq Int
          /\ \A r \in Queries :
                IsCacheable(opt, r) /\ KeyOf(opt, r) \in shorter =>
                  \A t \in Range(Feed) : match[t].matched => BuildPattern(opt, r).match[t].matched

-----------------------------------------------------------------------------
(* ChunkCache *)

Full(id) == Len(store[id].items) = ChunkSize
Sealed(id) == store[id].sealed

\* A mutant: the snapshot may be older than the end of the chunk.
CompleteWhenSealed(id, n) == Sealed(id)

\* A snapshot that counted n items of the chunk has seen all it will ever hold.
Complete(id, n) == Sealed(id) /\ n = Len(store[id].items)

Entries(id, key) == {e \in cache : e.id = id /\ e.key = key}

Keys(id) == {e \in cache : e.id = id}

\* The matches kept for the longest proper prefix or suffix of the key; a prefix
\* before a suffix of the same length.
Narrower(id, key) ==
    LET Pre(n) == Entries(id, SubSeq(key, 1, n))
        Suf(n) == Entries(id, SubSeq(key, Len(key) - n + 1, Len(key)))
        found  == {n \in 1 .. Len(key) - 1 : Pre(n) \cup Suf(n) # {}}
        n      == Max(found)
    IN  IF found = {} THEN {} ELSE IF Pre(n) # {} THEN Pre(n) ELSE Suf(n)

Added(id, key, hits) ==
    IF key = <<>> \/ ~Sealed(id) \/ Cardinality(hits) > QueryCacheMax THEN cache
    ELSE (cache \ IF Cardinality(Keys(id)) >= CacheEntries THEN Keys(id) ELSE Entries(id, key))
         \cup {[id |-> id, key |-> key, hits |-> hits]}

-----------------------------------------------------------------------------
(* compute_rank: the points of an item, the most significant first. *)

U16(v) == Max({0, Min({v, 65535})})
Lead(text)  == M!LeadingSpaces(text)
TrimLength(text) == Max({0, Len(text) - Lead(text) - M!TrailingSpaces(text)})

Point(criterion, r, text) ==
    LET valid   == r.begin >= 0 /\ r.begin < r.end
        spaces  == {i \in DOMAIN text : text[i] \in M!Spaces}
        b       == Max({0} \cup {i \in spaces : i <= r.begin})
        e       == Min({Len(text) + 1} \cup {i \in spaces : i > r.end}) - 1
        delim   == Max({-1} \cup {i - 1 : i \in {i \in DOMAIN text : text[i] \in {"/", "\\"}}})
        white   == Min({Lead(text), r.begin})
    IN  CASE criterion = "Score"  -> 65535 - U16(r.score)
          [] criterion = "Length" -> U16(TrimLength(text))
          [] criterion = "Chunk" /\ valid -> U16(e - b)
          [] criterion = "Pathname" /\ valid /\ delim <= r.begin -> U16(r.begin - delim)
          [] criterion = "Begin" /\ valid -> U16(r.min_end - white)
          [] criterion = "End" /\ valid ->
               U16(65535 - ((65535 * (r.end - white)) \div (TrimLength(text) + 1)))
          [] OTHER -> 65535

Rank(r, text) == [k \in DOMAIN o.criteria |-> Point(o.criteria[k], r, text)]

RankLess(x, y) ==
    \E k \in DOMAIN x : x[k] < y[k] /\ \A i \in 1 .. k - 1 : x[i] = y[i]

\* The members of a finite set, each after those that come before it.
InOrder(S, Before(_, _)) ==
    [i \in 1 .. Cardinality(S) |-> CHOOSE x \in S : Cardinality({y \in S : Before(y, x)}) = i - 1]

\* A stable sort; with --tac runs of equal rank are reversed.
SortResults(rs) ==
    InOrder(Range(rs), LAMBDA x, y :
        RankLess(x.rank, y.rank)
        \/ (x.rank = y.rank /\ IF o.tac THEN x.index > y.index ELSE x.index < y.index))

-----------------------------------------------------------------------------
(* Merger: results are numbered from 0. *)

Offset(m, k) ==
    LET f[n \in 1 .. Len(m.counts) + 1] == IF n = 1 THEN 0 ELSE f[n - 1] + m.counts[n - 1] IN f[k]
Count(m) == IF m.pass THEN Offset(m, Len(m.counts) + 1) ELSE Len(m.found)

\* The item at place i, and the place of the item with an index (or -1).
At(m, i) == m.found[1 + IF ~m.sorted /\ o.tac THEN Len(m.found) - 1 - i ELSE i]
Get(m, i) ==
    LET p == IF o.tac THEN Count(m) - 1 - i ELSE i
        k == Max({k \in DOMAIN m.ids : Offset(m, k) <= p})
    IN  IF m.pass THEN store[m.ids[k]].first + p - Offset(m, k) ELSE At(m, i).index

Find(m, index) ==
    LET holds == {k \in DOMAIN m.ids : index - store[m.ids[k]].first \in 0 .. m.counts[k] - 1}
        k     == Min(holds)
        p     == Offset(m, k) + index - store[m.ids[k]].first
        at    == {i \in 0 .. Count(m) - 1 : At(m, i).index = index}
    IN  IF m.pass THEN IF holds = {} THEN -1 ELSE IF o.tac THEN Count(m) - 1 - p ELSE p
        ELSE IF at = {} THEN -1 ELSE Min(at)

-----------------------------------------------------------------------------
Init ==
    /\ o \in Settings
    /\ patterns = [q \in Queries |-> BuildPattern(o, q)]
    /\ store = <<>> /\ list = <<>> /\ fed = 0 /\ finished = FALSE /\ cache = {}
    /\ scan = Idle /\ merger = Idle
    /\ scans = 0 /\ reloads = 0

\* The tail stays as it is from now on.
SealedTail == IF list = <<>> THEN store ELSE [store EXCEPT ![Last(list)].sealed = TRUE]

\* The reader appends a line to the last chunk, or seals it and starts another.
Read ==
    LET line == Feed[fed + 1]
        open == list # <<>> /\ ~Full(Last(list))
    IN  /\ fed < Len(Feed) /\ ~finished
        /\ fed' = fed + 1
        /\ store' = IF open THEN [store EXCEPT ![Last(list)].items = Append(@, line)]
                    ELSE Append(SealedTail, [first |-> fed, items |-> <<line>>, sealed |-> FALSE])
        /\ list' = IF open THEN list ELSE Append(list, Len(store'))
        /\ UNCHANGED <<o, patterns, finished, cache, scan, merger, scans, reloads>>

\* The source may end anywhere.
Finish ==
    /\ ~finished /\ finished' = TRUE
    /\ store' = SealedTail
    /\ UNCHANGED <<o, patterns, list, fed, cache, scan, merger, scans, reloads>>

\* A reload starts an empty list; clear_cache does not wait for the worker.
Reload ==
    /\ reloads < MaxReloads /\ reloads' = reloads + 1
    /\ list' = <<>> /\ fed' = 0 /\ finished' = FALSE /\ cache' = {}
    /\ UNCHANGED <<o, patterns, store, scan, merger, scans>>

\* scan: the snapshot and the pattern; nothing to look for passes everything.
Ask(q) ==
    LET counts == [k \in DOMAIN list |-> Len(store[list[k]].items)]
    IN  /\ ~scan.on /\ scans < MaxScans /\ scans' = scans + 1
        /\ IF list = <<>> \/ patterns[q].empty
             THEN /\ merger' = [on |-> TRUE, pass |-> TRUE, query |-> q, ids |-> list,
                                counts |-> counts, found |-> <<>>, sorted |-> FALSE]
                  /\ UNCHANGED scan
             ELSE /\ scan' = [on |-> TRUE, query |-> q, ids |-> list, counts |-> counts,
                              at |-> 1, step |-> "look", complete |-> FALSE, left |-> {}, found |-> <<>>]
                  /\ UNCHANGED merger
        /\ UNCHANGED <<o, patterns, store, list, fed, finished, cache, reloads>>

\* match_chunk, before its loop: the items the cache leaves to be tried.
LookUp ==
    LET id       == scan.ids[scan.at]
        n        == scan.counts[scan.at]
        key      == CacheKey(scan.query)
        complete == Complete(id, n)
        exact    == IF Cacheable(scan.query) THEN Entries(id, key) ELSE {}
        usable   == IF ~o.interactive \/ ~complete THEN {}
                    ELSE IF exact # {} THEN exact ELSE Narrower(id, key)
    IN  /\ scan.on /\ scan.step = "look" /\ scan.at <= Len(scan.ids)
        /\ scan' = [scan EXCEPT !.step = "match", !.complete = complete,
                       !.left = IF usable = {} THEN 1 .. n ELSE UNION {e.hits : e \in usable}]
        /\ UNCHANGED <<o, patterns, store, list, fed, finished, cache, merger, scans, reloads>>

\* match_chunk, its loop and what it keeps in the cache.
MatchChunk ==
    LET id   == scan.ids[scan.at]
        r(i) == PatternMatch(scan.query, store[id].items[i])
        hits == {i \in scan.left : i <= scan.counts[scan.at] /\ r(i).matched}
        at   == InOrder(hits, <)
    IN  /\ scan.on /\ scan.step = "match"
        /\ scan' = [scan EXCEPT !.step = "look", !.at = @ + 1,
                       !.found = @ \o [k \in DOMAIN at |->
                           [index |-> store[id].first + at[k] - 1,
                            rank  |-> Rank(r(at[k]), store[id].items[at[k]])]]]
        /\ cache' = IF o.interactive /\ scan.complete /\ Cacheable(scan.query)
                      THEN Added(id, CacheKey(scan.query), hits) ELSE cache
        /\ UNCHANGED <<o, patterns, store, list, fed, finished, merger, scans, reloads>>

Publish ==
    LET sorted == o.sort /\ patterns[scan.query].sortable
    IN  /\ scan.on /\ scan.step = "look" /\ scan.at > Len(scan.ids)
        /\ merger' = [on |-> TRUE, pass |-> FALSE, query |-> scan.query, ids |-> scan.ids,
                      counts |-> scan.counts, sorted |-> sorted,
                      found |-> IF sorted THEN SortResults(scan.found) ELSE scan.found]
        /\ scan' = Idle
        /\ UNCHANGED <<o, patterns, store, list, fed, finished, cache, scans, reloads>>

\* A newer request cancels the scan between two chunks.
Abandon ==
    /\ scan.on /\ scan.step = "look" /\ scan' = Idle
    /\ UNCHANGED <<o, patterns, store, list, fed, finished, cache, merger, scans, reloads>>

Next ==
    \/ Read \/ Finish \/ Reload \/ LookUp \/ MatchChunk \/ Publish \/ Abandon
    \/ \E q \in Queries : Ask(q)

Spec == Init /\ [][Next]_vars

-----------------------------------------------------------------------------
\* What a plain walk over the items of a result's snapshot finds, in order.
Walked(m) ==
    LET text(id, k) == store[id].items[k]
        items == UNION {{[index |-> store[m.ids[c]].first + k - 1, text |-> text(m.ids[c], k)]
                            : k \in 1 .. m.counts[c]} : c \in DOMAIN m.ids}
        hits  == {x \in items : PatternMatch(m.query, x.text).matched}
        rank(x) == Rank(PatternMatch(m.query, x.text), x.text)
        ranked == ~patterns[m.query].empty /\ o.sort /\ patterns[m.query].sortable
        before(x, y) == IF ranked /\ rank(x) # rank(y) THEN RankLess(rank(x), rank(y))
                        ELSE IF o.tac THEN x.index > y.index ELSE x.index < y.index
        seq   == InOrder(hits, before)
    IN  [i \in DOMAIN seq |-> seq[i].index]

\* A result is what a search without the cache finds, in its order: a bitmap of
\* another query never hides an item (match_chunk, ChunkCache::search).
ResultIsTheWalk ==
    merger.on => [i \in 1 .. Count(merger) |-> Get(merger, i - 1)] = Walked(merger)

\* find is the inverse of get: the cursor that follows an item lands on it.
FindInvertsGet ==
    merger.on => \A i \in 0 .. Count(merger) - 1 : Find(merger, Get(merger, i)) = i

\* What the terminal lists, looks up and follows the cursor in is what a search
\* of every item of the snapshot would find.
MergerIsTheWalk == ResultIsTheWalk /\ FindInvertsGet

\* A cached bitmap describes every item of a sealed chunk, for every query with
\* its key, and there is one per chunk and key.
CacheHoldsTheMatches ==
    \A e \in cache :
      /\ Sealed(e.id) /\ \A x \in cache : x.id = e.id /\ x.key = e.key => x = e
      /\ \A q \in Queries : Cacheable(q) /\ CacheKey(q) = e.key =>
           e.hits = {i \in DOMAIN store[e.id].items : PatternMatch(q, store[e.id].items[i]).matched}
=============================================================================
