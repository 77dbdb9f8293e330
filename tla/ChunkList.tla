----------------------------- MODULE ChunkList -----------------------------
(***************************************************************************)
(* The append-only item store of fzf++ (chunklist.cpp).  One producer, the *)
(* reader thread, appends items; any number of consumers (the search       *)
(* worker, the UI thread) take snapshots and look items up by ordinal      *)
(* while it grows.  Only the vector of chunks is behind the mutex mu_:     *)
(* the published count of each chunk, the total count, and the finished    *)
(* flag are separate atomics that the two sides write and read one by one. *)
(*                                                                         *)
(* An item's bytes are abstracted to the record it was built from (its     *)
(* spec): the arena bytes it needs and how many color runs and --nth       *)
(* ranges it carries.                                                      *)
(***************************************************************************)
EXTENDS Integers, Sequences, FiniteSets, SequencesExt

CONSTANTS
    Consumers,     \* threads that read the list
    Specs,         \* the records the reader may append
    WithAux,       \* with_aux_: colors and --nth ranges are kept
    FirstIndex,    \* first_index_: ordinal of the first item
    ChunkSize,     \* kChunkSize
    ArenaBytes,    \* kChunkArenaBytes
    ColorRuns,     \* kChunkColorRuns
    NthRanges,     \* kChunkNthRanges
    MaxItems       \* bound: items the producer may append

ASSUME ConstantsAssumption ==
    /\ FirstIndex \in Nat
    /\ ChunkSize \in Nat \ {0}
    /\ ArenaBytes \in Nat
    /\ ColorRuns \in Nat
    /\ NthRanges \in Nat
    /\ MaxItems \in Nat
    /\ WithAux \in BOOLEAN

\* A record costs arena bytes (its text and, with --with-nth, its original),
\* color runs and --nth ranges.
ASSUME SpecsAssumption ==
    Specs \subseteq [need : Nat, colors : Nat, nth : Nat]

\* Chunks are named by the order in which start_chunk makes them.  A chunk is
\* only made for an item that is then appended, so MaxItems of them suffice.
ChunkId == 1 .. MaxItems

\* An Item with its aux: its ordinal, its record, and whether the color runs
\* (kItemHasColors) and the ranges (kItemHasNth) were kept.
Item == [index : Nat, spec : Specs, hasColors : BOOLEAN, hasNth : BOOLEAN]

Chunk == [first_index : Nat, arena_cap : Nat, arena_used : Nat,
          items : Seq(Item), colors : Nat, nth : Nat,
          count : Nat, sealed : BOOLEAN]

VARIABLES
    chunk,      \* the chunks by id; only 1 .. nchunks exist
    nchunks,    \* chunks_ = <<1, ..., nchunks>>; tail_ = nchunks (0: null)
    count,      \* count_
    finished,   \* finished_
    ppc,        \* what the producer does next
    spec,       \* the record append() was called with
    input,      \* history: the records written so far, in order
    cpc,        \* what each consumer does next
    cur,        \* the snapshot a consumer is filling
    snap,       \* the last snapshot() a consumer got
    look        \* the item_at() a consumer makes, or made last

producerVars == <<chunk, nchunks, count, finished, ppc, spec, input>>
consumerVars == <<cpc, cur, snap, look>>
vars == <<chunk, nchunks, count, finished, ppc, spec, input, cpc, cur, snap, look>>

EmptyChunk == [first_index |-> 0, arena_cap |-> 0, arena_used |-> 0,
               items |-> <<>>, colors |-> 0, nth |-> 0,
               count |-> 0, sealed |-> FALSE]

\* Where the items of chunk k begin in the input.
Base(k) == chunk[k].first_index - FirstIndex

\* How many items the producer has published: all that the counts show.
Published == IF nchunks = 0 THEN 0 ELSE Base(nchunks) + chunk[nchunks].count

\* Snapshot: the chunks copied (the first n), the counts read so far, their
\* sum, the finished flag; low is a history of Published when the call began.
Snapshot == [n : 0 .. MaxItems, counts : Seq(Nat), count : Nat, finished : BOOLEAN, low : Nat]
EmptySnapshot == [n |-> 0, counts |-> <<>>, count |-> 0, finished |-> FALSE, low |-> 0]

\* A look-up: the ordinal asked for, the chunk found (0: none) and the local
\* index; found says that it returned a reference, low is as above.
Look == [index : Nat, chunk : 0 .. MaxItems, local : Nat, found : BOOLEAN, low : Nat]
NoLook == [index |-> 0, chunk |-> 0, local |-> 0, found |-> TRUE, low |-> 0]

Init ==
    /\ chunk = [k \in ChunkId |-> EmptyChunk]
    /\ nchunks = 0
    /\ count = 0
    /\ finished = FALSE
    /\ ppc = "idle"
    /\ spec \in Specs
    /\ input = <<>>
    /\ cpc = [c \in Consumers |-> "idle"]
    /\ cur = [c \in Consumers |-> EmptySnapshot]
    /\ snap = [c \in Consumers |-> EmptySnapshot]
    /\ look = [c \in Consumers |-> NoLook]

-----------------------------------------------------------------------------
(* Producer: append() and finish(). *)

\* Mutant of Fits: one item more than the chunk reserved.
FitsOneMore(s) ==
    /\ nchunks > 0
    /\ Len(chunk[nchunks].items) <= ChunkSize
    /\ chunk[nchunks].arena_used + s.need <= chunk[nchunks].arena_cap
    /\ WithAux => /\ chunk[nchunks].colors + s.colors <= ColorRuns
                  /\ chunk[nchunks].nth + s.nth <= NthRanges

Fits(s) ==
    /\ nchunks > 0
    /\ Len(chunk[nchunks].items) < ChunkSize
    /\ chunk[nchunks].arena_used + s.need <= chunk[nchunks].arena_cap
    /\ WithAux => /\ chunk[nchunks].colors + s.colors <= ColorRuns
                  /\ chunk[nchunks].nth + s.nth <= NthRanges

ArenaCap(min_arena) == IF ArenaBytes >= min_arena THEN ArenaBytes ELSE min_arena

\* Mutant of NewChunk: every chunk begins at the first ordinal.
NewChunkAtFirst(min_arena) ==
    [first_index |-> FirstIndex, arena_cap |-> ArenaCap(min_arena),
     arena_used |-> 0, items |-> <<>>, colors |-> 0, nth |-> 0,
     count |-> 0, sealed |-> FALSE]

NewChunk(min_arena) ==
    [first_index |-> FirstIndex + count, arena_cap |-> ArenaCap(min_arena),
     arena_used |-> 0, items |-> <<>>, colors |-> 0, nth |-> 0,
     count |-> 0, sealed |-> FALSE]

\* Seals the old tail and links the new one, both under mu_.
StartChunk(min_arena) ==
    /\ nchunks' = nchunks + 1
    /\ chunk' = [k \in ChunkId |->
                    IF k = nchunks + 1 THEN NewChunk(min_arena)
                    ELSE IF k = nchunks THEN [chunk[k] EXCEPT !.sealed = TRUE]
                    ELSE chunk[k]]

\* append() begins: a record that does not fit in the tail starts a chunk.
AppendBegin(s) ==
    /\ ppc = "idle"
    /\ Len(input) < MaxItems
    /\ spec' = s
    /\ IF Fits(s) THEN UNCHANGED <<chunk, nchunks>> ELSE StartChunk(s.need)
    /\ ppc' = "write"
    /\ UNCHANGED <<count, finished, input>>

KeepsColors(s) == WithAux /\ s.colors > 0 /\ s.colors <= ColorRuns
KeepsNth(s) == WithAux /\ s.nth > 0 /\ s.nth <= NthRanges

NewItem(s) == [index |-> FirstIndex + count, spec |-> s,
               hasColors |-> KeepsColors(s), hasNth |-> KeepsNth(s)]

\* Mutant of WithItem: the chunk is sealed by the item that fills it, before
\* that item is published.
WithItemSealed(t, s) ==
    [t EXCEPT !.arena_used = @ + s.need, !.items = Append(@, NewItem(s)),
              !.sealed = Len(t.items) + 1 = ChunkSize]

\* The tail after the item's bytes, aux and Item were written; count is not
\* moved yet, so no consumer looks at them.
WithItem(t, s) ==
    [first_index |-> t.first_index, arena_cap |-> t.arena_cap,
     arena_used |-> t.arena_used + s.need,
     items |-> Append(t.items, NewItem(s)),
     colors |-> IF KeepsColors(s) THEN t.colors + s.colors ELSE t.colors,
     nth |-> IF KeepsNth(s) THEN t.nth + s.nth ELSE t.nth,
     count |-> t.count, sealed |-> t.sealed]

AppendWrite ==
    /\ ppc = "write"
    /\ chunk' = [chunk EXCEPT ![nchunks] = WithItem(@, spec)]
    /\ input' = Append(input, spec)
    /\ ppc' = "publish"
    /\ UNCHANGED <<nchunks, count, finished, spec>>

\* c.count.store(items.size(), release)
AppendPublish ==
    /\ ppc = "publish"
    /\ chunk' = [chunk EXCEPT ![nchunks].count = Len(chunk[nchunks].items)]
    /\ ppc' = "total"
    /\ UNCHANGED <<nchunks, count, finished, spec, input>>

\* count_.store(ordinal + 1, release)
AppendTotal ==
    /\ ppc = "total"
    /\ count' = count + 1
    /\ ppc' = "idle"
    /\ UNCHANGED <<chunk, nchunks, finished, spec, input>>

\* finish() seals the tail under mu_, then sets finished_.
FinishSeal ==
    /\ ppc = "idle"
    /\ chunk' = IF nchunks = 0 THEN chunk ELSE [chunk EXCEPT ![nchunks].sealed = TRUE]
    /\ ppc' = "finish"
    /\ UNCHANGED <<nchunks, count, finished, spec, input>>

FinishStore ==
    /\ ppc = "finish"
    /\ finished' = TRUE
    /\ ppc' = "done"
    /\ UNCHANGED <<chunk, nchunks, count, spec, input>>

Producer ==
    /\ \/ \E s \in Specs : AppendBegin(s)
       \/ AppendWrite
       \/ AppendPublish
       \/ AppendTotal
       \/ FinishSeal
       \/ FinishStore
    /\ UNCHANGED consumerVars

-----------------------------------------------------------------------------
(* Consumers: snapshot() and item_at(). *)

\* The copy of chunks_ under mu_.
SnapshotCopy(c) ==
    /\ cpc[c] = "idle"
    /\ cur' = [cur EXCEPT ![c] = [n |-> nchunks, counts |-> <<>>, count |-> 0,
                                  finished |-> FALSE, low |-> Published]]
    /\ cpc' = [cpc EXCEPT ![c] = "counts"]
    /\ UNCHANGED <<snap, look>>

WithCount(s, cnt) == [n |-> s.n, counts |-> Append(s.counts, cnt),
                      count |-> s.count + cnt, finished |-> s.finished, low |-> s.low]

\* Mutant of SnapshotCount: items are counted before they are published.
SnapshotCountItems(c) ==
    LET k == Len(cur[c].counts) + 1 IN
    /\ cpc[c] = "counts"
    /\ k <= cur[c].n
    /\ cur' = [cur EXCEPT ![c] = WithCount(@, Len(chunk[k].items))]
    /\ UNCHANGED <<cpc, snap, look>>

\* One turn of the loop over the copied chunks: c->size().
SnapshotCount(c) ==
    LET k == Len(cur[c].counts) + 1 IN
    /\ cpc[c] = "counts"
    /\ k <= cur[c].n
    /\ cur' = [cur EXCEPT ![c] = WithCount(@, chunk[k].count)]
    /\ UNCHANGED <<cpc, snap, look>>

\* The finished flag is read last, then the snapshot is returned.
SnapshotFinished(c) ==
    /\ cpc[c] = "counts"
    /\ Len(cur[c].counts) = cur[c].n
    /\ snap' = [snap EXCEPT ![c] = [cur[c] EXCEPT !.finished = finished]]
    /\ cpc' = [cpc EXCEPT ![c] = "idle"]
    /\ UNCHANGED <<cur, look>>

\* upper_bound over chunks_ under mu_, minus one: the last chunk that begins
\* at or before the ordinal.
ChunkOf(index) ==
    CHOOSE k \in 1 .. nchunks :
        /\ chunk[k].first_index <= index
        /\ \A j \in 1 .. nchunks : chunk[j].first_index <= index => j <= k

\* What item_at(index) returns when it finds no chunk, and what it works with
\* when it finds one.
NoCall(index) ==
    [index |-> index, chunk |-> 0, local |-> 0, found |-> FALSE, low |-> Published]
HitCall(index) ==
    [index |-> index, chunk |-> ChunkOf(index),
     local |-> index - chunk[ChunkOf(index)].first_index, found |-> TRUE, low |-> Published]

ItemAtFind(c, index) ==
    /\ cpc[c] = "idle"
    /\ IF index < FirstIndex \/ ~\E k \in 1 .. nchunks : chunk[k].first_index <= index
         THEN /\ look' = [look EXCEPT ![c] = NoCall(index)]
              /\ UNCHANGED cpc
         ELSE /\ look' = [look EXCEPT ![c] = HitCall(index)]
              /\ cpc' = [cpc EXCEPT ![c] = "size"]
    /\ UNCHANGED <<cur, snap>>

\* Mutant of ItemAtSize: one ordinal too many is answered.
ItemAtSizeOneMore(c) ==
    /\ cpc[c] = "size"
    /\ look' = [look EXCEPT ![c].found = look[c].local <= chunk[look[c].chunk].count]
    /\ cpc' = [cpc EXCEPT ![c] = "idle"]
    /\ UNCHANGED <<cur, snap>>

\* local >= found->size() after mu_ was released.
ItemAtSize(c) ==
    /\ cpc[c] = "size"
    /\ look' = [look EXCEPT ![c].found = look[c].local < chunk[look[c].chunk].count]
    /\ cpc' = [cpc EXCEPT ![c] = "idle"]
    /\ UNCHANGED <<cur, snap>>

Consumer(c) ==
    /\ \/ SnapshotCopy(c)
       \/ SnapshotCount(c)
       \/ SnapshotFinished(c)
       \/ \E index \in 0 .. FirstIndex + MaxItems : ItemAtFind(c, index)
       \/ ItemAtSize(c)
    /\ UNCHANGED producerVars

Next == Producer \/ \E c \in Consumers : Consumer(c)

Spec == Init /\ [][Next]_vars

-----------------------------------------------------------------------------
(* Properties. *)

TypeOK ==
    /\ chunk \in [ChunkId -> Chunk]
    /\ nchunks \in 0 .. MaxItems
    /\ count \in 0 .. MaxItems
    /\ finished \in BOOLEAN
    /\ ppc \in {"idle", "write", "publish", "total", "finish", "done"}
    /\ spec \in Specs
    /\ input \in Seq(Specs)
    /\ cpc \in [Consumers -> {"idle", "counts", "size"}]
    /\ cur \in [Consumers -> Snapshot]
    /\ snap \in [Consumers -> Snapshot]
    /\ look \in [Consumers -> Look]

\* "reserved to kChunkSize, never reallocates": no vector or arena of a chunk
\* outgrows what the constructor reserved, so a consumer's reference into it
\* stays good while the producer writes.
NeverReallocates ==
    \A k \in 1 .. nchunks :
        /\ Len(chunk[k].items) <= ChunkSize
        /\ chunk[k].arena_used <= chunk[k].arena_cap
        /\ chunk[k].colors <= ColorRuns
        /\ chunk[k].nth <= NthRanges

\* A snapshot s is a prefix of the input with no hole: its chunks follow each
\* other without a gap, its total is where the last one ends, and every item
\* it shows is the one the reader wrote at that ordinal.
ShowsPrefix(s) ==
    /\ s.n > 0 => s.count = Base(s.n) + s.counts[s.n]
    /\ s.n = 0 => s.count = 0
    /\ \A k \in 1 .. s.n :
          /\ k < s.n => Base(k + 1) = Base(k) + s.counts[k]
          /\ s.counts[k] <= Len(chunk[k].items)
          /\ \A j \in 1 .. s.counts[k] :
                /\ chunk[k].items[j].index = chunk[k].first_index + (j - 1)
                /\ chunk[k].items[j].spec = input[Base(k) + j]

\* Every snapshot a consumer holds is a prefix of the input, although chunks_
\* is copied under the mutex and the counts are read after it is released.
SnapshotIsPrefix == \A c \in Consumers : ShowsPrefix(snap[c])

\* A snapshot holds at least what was published when the call was made.
SnapshotIsFresh == \A c \in Consumers : snap[c].low <= snap[c].count

\* item_at() finds exactly the right item: what it returns has the ordinal
\* asked for, and an ordinal that was already published when the call was made is
\* never answered with a null reference.
ItemAtCorrect ==
    \A c \in Consumers :
        (cpc[c] = "idle" /\ look[c] # NoLook) =>
            IF look[c].found
              THEN /\ look[c].local < Len(chunk[look[c].chunk].items)
                   /\ chunk[look[c].chunk].items[look[c].local + 1].index = look[c].index
              ELSE ~(FirstIndex <= look[c].index /\ look[c].index < FirstIndex + look[c].low)

\* A reader of the store misses nothing that was published when it called, and
\* is given nothing else.
PublishedIsSeen == SnapshotIsFresh /\ ItemAtCorrect

\* "A sealed chunk never changes again": what the chunk cache relies on to keep
\* the matches of a sealed chunk.  A step may never write, publish into, or
\* unseal a chunk that was sealed before it.
SealedNeverChanges ==
    [][\A k \in ChunkId : chunk[k].sealed => chunk'[k] = chunk[k]]_vars

\* The records that a snapshot shows, chunk after chunk.
Contents(s) ==
    FlattenSeq([k \in 1 .. s.n |->
        [j \in 1 .. s.counts[k] |-> chunk[k].items[j].spec]])

Log == INSTANCE ItemLog WITH
    log    <- SubSeq(input, 1, Published),
    closed <- finished,
    low    <- [c \in Consumers |-> cur[c].low],
    view   <- [c \in Consumers |-> Contents(snap[c])]

\* The chunk list implements the log: whatever the interleaving of append()'s
\* two publications with a snapshot's copy and counts, each snapshot is a read
\* of the log.
ImplementsItemLog == Log!Spec
=============================================================================
