---------------------------- MODULE StoreProofs ----------------------------
(***************************************************************************)
(* Theorems about the item store, for every chunk size, capacity, set of   *)
(* records and number of consumers, and about --filter, which walks it     *)
(* while it grows: for every pattern, chunk size and number of records,    *)
(* what is printed and when the main thread sleeps.                        *)
(***************************************************************************)
EXTENDS StreamFilter, SequenceTheorems, WellFoundedInduction, TLAPS

-----------------------------------------------------------------------------
\* A set of naturals has a least member.
LEMMA NatLeast ==
    ASSUME NEW T, T \subseteq Nat, T # {}
    PROVE  \E m \in T : \A k \in T : m <= k
<1> DEFINE Less == {ss \in Nat \X Nat : ss[1] < ss[2]}
<1>1. IsWellFoundedOn(Less, Nat)
  BY NatLessThanWellFounded DEF OpToRel
<1>2. PICK m \in T : \A k \in T : ~ (<<k, m>> \in Less)
  BY <1>1, WFMin
<1>3. ASSUME NEW k \in T PROVE m <= k
  <2>1. m \in Nat /\ k \in Nat /\ ~ (<<k, m>> \in Less)
    BY <1>2
  <2> QED BY <2>1
<1> QED BY <1>3

\* A set of naturals that has a bound has a greatest member.
LEMMA NatGreatest ==
    ASSUME NEW n \in Nat, NEW T, T \subseteq 1 .. n, T # {}
    PROVE  \E m \in T : \A k \in T : k <= m
<1> DEFINE D == {d \in Nat : n - d \in T}
<1>1. PICK k0 \in T : TRUE
  OBVIOUS
<1>2. n - k0 \in Nat /\ n - (n - k0) = k0
  OBVIOUS
<1>3. D # {}
  BY <1>2
<1>4. PICK d \in D : \A e \in D : d <= e
  BY <1>3, NatLeast
<1>5. ASSUME NEW k \in T PROVE k <= n - d
  <2>1. k \in 1 .. n /\ n - k \in Nat /\ n - (n - k) = k
    OBVIOUS
  <2>2. n - k \in D
    BY <2>1
  <2>3. d <= n - k /\ d \in Nat
    BY <1>4, <2>2
  <2> QED BY <2>1, <2>3
<1> QED BY <1>4, <1>5

-----------------------------------------------------------------------------
(* The item store: the inductive invariant. *)

\* The chunks below the tail are full of published items and sealed, and each
\* begins where the one before it ends; chunks not made yet are empty.
ChunksFollow ==
    /\ nchunks > 0 => chunk[1].first_index = FirstIndex
    /\ \A k \in 1 .. nchunks :
          k < nchunks => /\ chunk[k + 1].first_index = chunk[k].first_index + Len(chunk[k].items)
                         /\ chunk[k].count = Len(chunk[k].items)
                         /\ chunk[k].sealed
    /\ \A k \in ChunkId : k > nchunks => chunk[k] = EmptyChunk

\* How the tail, the counts and the producer's position agree.
TailAgrees ==
    /\ ppc \in {"write", "publish", "total"} => nchunks > 0
    /\ nchunks > 0 =>
          /\ Len(input) = Base(nchunks) + Len(chunk[nchunks].items)
          /\ chunk[nchunks].count =
                Len(chunk[nchunks].items) - (IF ppc = "publish" THEN 1 ELSE 0)
          /\ chunk[nchunks].sealed <=> ppc \in {"finish", "done"}
    /\ nchunks = 0 => input = <<>>
    /\ count = Len(input) - (IF ppc \in {"publish", "total"} THEN 1 ELSE 0)
    /\ Len(input) <= MaxItems
    /\ ppc = "write" => Len(input) < MaxItems
    /\ nchunks <= Len(input) + (IF ppc = "write" THEN 1 ELSE 0)

\* Before an item is written, the tail has room for it.
HasRoom ==
    ppc = "write" =>
        /\ Len(chunk[nchunks].items) < ChunkSize
        /\ chunk[nchunks].arena_used + spec.need <= chunk[nchunks].arena_cap
        /\ KeepsColors(spec) => chunk[nchunks].colors + spec.colors <= ColorRuns
        /\ KeepsNth(spec) => chunk[nchunks].nth + spec.nth <= NthRanges

\* Every item is the record read at its ordinal.
ItemsAreInput ==
    \A k \in 1 .. nchunks :
        /\ chunk[k].first_index >= FirstIndex
        /\ Base(k) + Len(chunk[k].items) <= Len(input)
        /\ \A j \in 1 .. Len(chunk[k].items) :
              /\ chunk[k].items[j].index = chunk[k].first_index + (j - 1)
              /\ chunk[k].items[j].spec = input[Base(k) + j]

\* A snapshot being filled: m counts read, all but the tail's complete.
Filling(s) ==
    LET m == Len(s.counts) IN
    /\ m <= s.n
    /\ s.n <= nchunks
    /\ s.count = IF m = 0 THEN 0 ELSE Base(m) + s.counts[m]
    /\ \A k \in 1 .. m : /\ s.counts[k] <= Len(chunk[k].items)
                         /\ k < s.n => s.counts[k] = Len(chunk[k].items)

ConsumersAgree ==
    \A c \in Consumers :
        /\ cpc[c] = "counts" => Filling(cur[c])
        /\ Filling(snap[c])
        /\ Len(snap[c].counts) = snap[c].n
        /\ cpc[c] = "size" => look[c].chunk \in 1 .. nchunks

IInv ==
    /\ TypeOK
    /\ ChunksFollow
    /\ TailAgrees
    /\ HasRoom
    /\ NeverReallocates
    /\ ItemsAreInput
    /\ ConsumersAgree

-----------------------------------------------------------------------------
(* Values the actions build have the right type. *)

LEMMA ChunkTypes ==
    ASSUME TypeOK
    PROVE  /\ EmptyChunk \in Chunk
           /\ \A m \in Nat : NewChunk(m) \in Chunk
           /\ \A t \in Chunk : \A s \in Specs : WithItem(t, s) \in Chunk
<1>1. EmptyChunk \in Chunk
  BY DEF EmptyChunk, Chunk, Item
<1>2. ASSUME NEW m \in Nat PROVE NewChunk(m) \in Chunk
  <2>1. ArenaCap(m) \in Nat /\ FirstIndex + count \in Nat
    BY ConstantsAssumption DEF ArenaCap, TypeOK
  <2> QED BY <2>1 DEF NewChunk, EmptyChunk, Chunk, Item
<1>3. ASSUME NEW t \in Chunk, NEW s \in Specs PROVE WithItem(t, s) \in Chunk
  <2>1. /\ s.need \in Nat /\ s.colors \in Nat /\ s.nth \in Nat
    BY SpecsAssumption
  <2>2. NewItem(s) \in Item
    BY ConstantsAssumption, <2>1 DEF NewItem, TypeOK, KeepsColors, KeepsNth, Item
  <2>3. Append(t.items, NewItem(s)) \in Seq(Item)
    BY <2>2 DEF Chunk
  <2>a. t.colors \in Nat /\ t.nth \in Nat /\ t.arena_used \in Nat
    BY DEF Chunk
  <2>4. /\ t.colors \in Nat /\ t.colors + s.colors \in Nat
        /\ t.nth \in Nat /\ t.nth + s.nth \in Nat
        /\ t.arena_used + s.need \in Nat
    BY <2>1, <2>a
  <2>5. /\ t.first_index \in Nat /\ t.arena_cap \in Nat /\ t.count \in Nat
        /\ t.sealed \in BOOLEAN
    BY DEF Chunk
  <2> HIDE DEF Item
  <2> QED BY <2>3, <2>4, <2>5 DEF WithItem, Chunk
<1> QED BY <1>1, <1>2, <1>3

\* The fields of the chunks that exist, and the bounds on their ids.
LEMMA ChunkFacts ==
    ASSUME TypeOK
    PROVE  /\ nchunks \in Nat /\ nchunks <= MaxItems /\ MaxItems \in Nat
           /\ count \in Nat /\ Len(input) \in Nat
           /\ \A k \in 1 .. nchunks :
                 /\ k \in ChunkId /\ k \in Nat
                 /\ chunk[k] \in Chunk
                 /\ chunk[k].items \in Seq(Item) /\ Len(chunk[k].items) \in Nat
                 /\ chunk[k].first_index \in Nat /\ chunk[k].count \in Nat
                 /\ chunk[k].arena_cap \in Nat /\ chunk[k].arena_used \in Nat
                 /\ chunk[k].colors \in Nat /\ chunk[k].nth \in Nat
                 /\ chunk[k].sealed \in BOOLEAN
<1>1. nchunks \in Nat /\ nchunks <= MaxItems /\ MaxItems \in Nat /\ count \in Nat
  BY ConstantsAssumption DEF TypeOK
<1>2. Len(input) \in Nat
  BY DEF TypeOK
<1>3. ASSUME NEW k \in 1 .. nchunks
      PROVE  /\ k \in ChunkId /\ k \in Nat
             /\ chunk[k] \in Chunk
  BY <1>1 DEF ChunkId, TypeOK
<1>4. ASSUME NEW t \in Chunk
      PROVE  /\ t.items \in Seq(Item) /\ Len(t.items) \in Nat
             /\ t.first_index \in Nat /\ t.count \in Nat
             /\ t.arena_cap \in Nat /\ t.arena_used \in Nat
             /\ t.colors \in Nat /\ t.nth \in Nat
             /\ t.sealed \in BOOLEAN
  BY DEF Chunk
<1> QED BY <1>1, <1>2, <1>3, <1>4

\* A chunk begins at its base, counted from the first ordinal.
LEMMA BaseFacts ==
    ASSUME TypeOK, ItemsAreInput
    PROVE  \A k \in 1 .. nchunks :
              Base(k) \in Nat /\ chunk[k].first_index = FirstIndex + Base(k)
BY ChunkFacts, ConstantsAssumption DEF ItemsAreInput, Base

\* The next chunk begins where this one ends.
LEMMA BaseFollows ==
    ASSUME TypeOK, ChunksFollow
    PROVE  \A k \in 1 .. nchunks :
              k < nchunks => Base(k + 1) = Base(k) + Len(chunk[k].items)
<1>1. \A f, a, l \in Nat : (a + l) - f = (a - f) + l
  OBVIOUS
<1>2. ASSUME NEW k \in 1 .. nchunks, k < nchunks
      PROVE  Base(k + 1) = Base(k) + Len(chunk[k].items)
  <2>1. chunk[k + 1].first_index = chunk[k].first_index + Len(chunk[k].items)
    BY <1>2 DEF ChunksFollow
  <2>2. chunk[k].first_index \in Nat /\ Len(chunk[k].items) \in Nat /\ FirstIndex \in Nat
    BY ChunkFacts, ConstantsAssumption
  <2> QED BY <1>1, <2>1, <2>2 DEF Base
<1> QED BY <1>2

\* What the counts show is a number.
LEMMA PublishedType ==
    ASSUME TypeOK, ItemsAreInput
    PROVE  Published \in Nat
<1>1. CASE nchunks = 0
  BY <1>1 DEF Published
<1>2. CASE nchunks # 0
  <2>1. nchunks \in 1 .. nchunks /\ chunk[nchunks].count \in Nat
    BY <1>2, ChunkFacts
  <2>2. Base(nchunks) \in Nat
    BY <2>1, BaseFacts
  <2> QED BY <1>2, <2>1, <2>2 DEF Published
<1> QED BY <1>1, <1>2

\* upper_bound finds a chunk when one begins at or before the ordinal.
LEMMA ChunkOfFound ==
    ASSUME TypeOK, NEW index \in Nat,
           \E k \in 1 .. nchunks : chunk[k].first_index <= index
    PROVE  /\ ChunkOf(index) \in 1 .. nchunks
           /\ chunk[ChunkOf(index)].first_index <= index
           /\ \A j \in 1 .. nchunks : chunk[j].first_index <= index => j <= ChunkOf(index)
<1> DEFINE S == {k \in 1 .. nchunks : chunk[k].first_index <= index}
<1>1. S # {} /\ S \in SUBSET (1 .. nchunks) /\ nchunks \in Nat
  BY ChunkFacts
<1>2. \E k \in S : \A j \in S : j <= k
  BY <1>1, NatGreatest
<1> QED BY <1>2 DEF ChunkOf

LEMMA EmptyTypes ==
    /\ EmptyChunk \in Chunk
    /\ EmptySnapshot \in Snapshot
    /\ NoLook \in Look
<1>1. EmptyChunk \in Chunk
  BY DEF EmptyChunk, Chunk, Item
<1>2. EmptySnapshot \in Snapshot
  BY ConstantsAssumption DEF EmptySnapshot, Snapshot
<1>3. NoLook \in Look
  BY ConstantsAssumption DEF NoLook, Look
<1> QED BY <1>1, <1>2, <1>3

-----------------------------------------------------------------------------
(* The initial states. *)

LEMMA InitIInv == Init => IInv
<1> SUFFICES ASSUME Init PROVE IInv
  OBVIOUS
<1> USE ConstantsAssumption DEF Init
<1>1. TypeOK
  <2>1. chunk \in [ChunkId -> Chunk]
    BY EmptyTypes
  <2>2. cur \in [Consumers -> Snapshot] /\ snap \in [Consumers -> Snapshot]
    BY EmptyTypes
  <2>3. look \in [Consumers -> Look]
    BY EmptyTypes
  <2>4. input \in Seq(Specs)
    OBVIOUS
  <2>5. cpc \in [Consumers -> {"idle", "counts", "size"}]
    OBVIOUS
  <2>6. nchunks \in 0 .. MaxItems /\ count \in 0 .. MaxItems
    OBVIOUS
  <2>7. finished \in BOOLEAN /\ ppc = "idle" /\ spec \in Specs
    OBVIOUS
  <2> QED BY <2>1, <2>2, <2>3, <2>4, <2>5, <2>6, <2>7 DEF TypeOK
<1>2. ChunksFollow
  BY DEF ChunksFollow
<1>3. TailAgrees /\ HasRoom
  BY DEF TailAgrees, HasRoom
<1>4. NeverReallocates /\ ItemsAreInput
  BY DEF NeverReallocates, ItemsAreInput
<1>5. ConsumersAgree
  BY DEF ConsumersAgree, Filling, EmptySnapshot
<1> QED BY <1>1, <1>2, <1>3, <1>4, <1>5 DEF IInv

-----------------------------------------------------------------------------
(* The producer's steps. *)

\* What every step of the producer does to the chunks a consumer may hold:
\* it moves none, shortens none, and lengthens none below the tail.
Grows ==
    /\ nchunks <= nchunks'
    /\ \A k \in 1 .. nchunks :
          /\ chunk'[k].first_index = chunk[k].first_index
          /\ Len(chunk[k].items) <= Len(chunk'[k].items)
          /\ k < nchunks => Len(chunk'[k].items) = Len(chunk[k].items)

\* A consumer that sits still while the chunks grow keeps its part of IInv.
LEMMA ConsumersKept ==
    ASSUME IInv, Grows, UNCHANGED consumerVars, TypeOK'
    PROVE  ConsumersAgree'
<1>1. ASSUME NEW CONSTANT s \in Snapshot, Filling(s) PROVE Filling(s)'
  <2> DEFINE m == Len(s.counts)
  <2>1. /\ m \in Nat /\ m <= s.n /\ s.n <= nchunks /\ s.n \in Nat
    BY <1>1 DEF Filling, Snapshot
  <2>2. nchunks \in Nat /\ nchunks' \in Nat /\ nchunks <= MaxItems
    BY ConstantsAssumption DEF IInv, TypeOK
  <2>3. \A k \in 1 .. nchunks : /\ Len(chunk[k].items) \in Nat /\ Len(chunk'[k].items) \in Nat
    <3> SUFFICES ASSUME NEW k \in 1 .. nchunks
                 PROVE  Len(chunk[k].items) \in Nat /\ Len(chunk'[k].items) \in Nat
      OBVIOUS
    <3>1. k \in ChunkId
      BY <2>2, ConstantsAssumption DEF ChunkId
    <3>2. chunk[k] \in Chunk /\ chunk'[k] \in Chunk
      BY <3>1 DEF IInv, TypeOK
    <3>3. chunk[k].items \in Seq(Item) /\ chunk'[k].items \in Seq(Item)
      BY <3>2 DEF Chunk
    <3> QED BY <3>3
  <2>4. \A k \in 1 .. m : s.counts[k] \in Nat
    BY DEF Snapshot
  <2>5. s.count = IF m = 0 THEN 0 ELSE Base(m)' + s.counts[m]
    BY <1>1, <2>1, <2>2 DEF Filling, Base, Grows
  <2>6. ASSUME NEW k \in 1 .. m
        PROVE  /\ s.counts[k] <= Len(chunk'[k].items)
               /\ k < s.n => s.counts[k] = Len(chunk'[k].items)
    <3>1. /\ s.counts[k] <= Len(chunk[k].items)
          /\ k < s.n => s.counts[k] = Len(chunk[k].items)
      BY <1>1 DEF Filling
    <3>2. /\ Len(chunk[k].items) <= Len(chunk'[k].items)
          /\ k < nchunks => Len(chunk'[k].items) = Len(chunk[k].items)
      <4>1. k \in 1 .. nchunks
        BY <2>1, <2>2
      <4> QED BY <4>1 DEF Grows
    <3>3. k < s.n => k < nchunks
      <4> HIDE DEF m
      <4> QED BY <2>1, <2>2
    <3>4. s.counts[k] \in Nat /\ Len(chunk[k].items) \in Nat /\ Len(chunk'[k].items) \in Nat
      BY <2>1, <2>2, <2>3, <2>4
    <3> QED BY <3>1, <3>2, <3>3, <3>4
  <2>7. s.n <= nchunks'
    BY <2>1, <2>2 DEF Grows
  <2> QED BY <2>1, <2>5, <2>6, <2>7 DEF Filling
<1>2. ASSUME NEW c \in Consumers
      PROVE  /\ cpc'[c] = "counts" => Filling(cur[c])'
             /\ Filling(snap[c])'
             /\ Len(snap'[c].counts) = snap'[c].n
             /\ cpc'[c] = "size" => look'[c].chunk \in 1 .. nchunks'
  <2>1. cur[c] \in Snapshot /\ snap[c] \in Snapshot
    BY DEF IInv, TypeOK
  <2>2. cur'[c] = cur[c] /\ snap'[c] = snap[c] /\ cpc'[c] = cpc[c] /\ look'[c] = look[c]
    BY DEF consumerVars
  <2>a. Filling(snap[c]) /\ (cpc[c] = "counts" => Filling(cur[c]))
    BY DEF IInv, ConsumersAgree
  <2>3. cpc[c] = "counts" => Filling(cur[c])'
    BY <1>1, <2>1, <2>2, <2>a DEF Filling
  <2>4. Filling(snap[c])'
    BY <1>1, <2>1, <2>2, <2>a DEF Filling
  <2>5. cpc[c] = "size" => look[c].chunk \in 1 .. nchunks'
    BY ConstantsAssumption DEF IInv, ConsumersAgree, Grows, TypeOK
  <2>6. Len(snap[c].counts) = snap[c].n
    BY DEF IInv, ConsumersAgree
  <2> QED BY <2>2, <2>3, <2>4, <2>5, <2>6
<1> QED BY <1>2 DEF ConsumersAgree

\* append() begins.
LEMMA AppendBeginInv ==
    ASSUME IInv, NEW s \in Specs, AppendBegin(s), UNCHANGED consumerVars
    PROVE  IInv'
<1> USE DEF AppendBegin, consumerVars
<1>0. /\ s.need \in Nat /\ s.colors \in Nat /\ s.nth \in Nat
  BY SpecsAssumption
<1>f. TypeOK /\ ChunksFollow /\ TailAgrees /\ NeverReallocates /\ ItemsAreInput
  BY DEF IInv
<1>1. CASE Fits(s)
  <2>0. UNCHANGED <<chunk, nchunks, count, input>> /\ ppc' = "write" /\ spec' = s
    BY <1>1
  <2>1. TypeOK'
    BY <1>f, <2>0 DEF TypeOK
  <2>2. ChunksFollow' /\ NeverReallocates' /\ ItemsAreInput'
    BY <1>f, <2>0 DEF ChunksFollow, NeverReallocates, ItemsAreInput, Base
  <2>3. TailAgrees'
    BY <1>f, <1>1, <2>0, ChunkFacts DEF TailAgrees, Base, Fits
  <2>4. HasRoom'
    BY <1>1, <2>0 DEF HasRoom, Fits, KeepsColors, KeepsNth
  <2>5. Grows
    BY <1>f, <2>0, ChunkFacts DEF Grows
  <2> QED BY <2>1, <2>2, <2>3, <2>4, <2>5, ConsumersKept DEF IInv
<1>2. CASE ~Fits(s)
  <2> DEFINE n == nchunks + 1
  <2>0. /\ StartChunk(s.need) /\ UNCHANGED <<count, input>>
        /\ ppc = "idle" /\ ppc' = "write" /\ spec' = s /\ Len(input) < MaxItems
    BY <1>2
  <2>1. n \in ChunkId /\ nchunks' = n /\ n \in Nat
    BY <1>f, <2>0, ChunkFacts DEF TailAgrees, StartChunk, ChunkId
  <2>2. chunk'[n] = NewChunk(s.need)
    BY <2>0, <2>1 DEF StartChunk
  <2>3. \A k \in 1 .. nchunks :
           chunk'[k] = IF k = nchunks THEN [chunk[k] EXCEPT !.sealed = TRUE] ELSE chunk[k]
    BY <1>f, <2>0, ChunkFacts DEF StartChunk
  <2>4. \A k \in ChunkId : k > n => chunk'[k] = EmptyChunk
    BY <1>f, <2>0, <2>1, ChunkFacts DEF StartChunk, ChunksFollow, ChunkId
  <2>5. \A k \in 1 .. nchunks :
           /\ chunk'[k].first_index = chunk[k].first_index
           /\ chunk'[k].items = chunk[k].items
           /\ chunk'[k].count = chunk[k].count
           /\ chunk'[k].arena_used = chunk[k].arena_used
           /\ chunk'[k].arena_cap = chunk[k].arena_cap
           /\ chunk'[k].colors = chunk[k].colors
           /\ chunk'[k].nth = chunk[k].nth
           /\ k = nchunks => chunk'[k].sealed
           /\ k # nchunks => chunk'[k].sealed = chunk[k].sealed
    BY <1>f, <2>3, ChunkFacts DEF Chunk
  <2>6. /\ chunk'[n].first_index = FirstIndex + count /\ chunk'[n].items = <<>>
        /\ chunk'[n].arena_used = 0 /\ chunk'[n].arena_cap >= s.need
        /\ chunk'[n].arena_cap \in Nat
        /\ chunk'[n].colors = 0 /\ chunk'[n].nth = 0
        /\ chunk'[n].count = 0 /\ chunk'[n].sealed = FALSE
    BY <2>2, <1>0, ConstantsAssumption DEF NewChunk, ArenaCap
  <2>7. TypeOK'
    <3>1. NewChunk(s.need) \in Chunk
      BY <1>0, <1>f, ChunkTypes
    <3>2. \A k \in ChunkId : [chunk[k] EXCEPT !.sealed = TRUE] \in Chunk
      BY <1>f DEF TypeOK, Chunk
    <3>3. chunk' \in [ChunkId -> Chunk]
      BY <1>f, <2>0, <3>1, <3>2 DEF StartChunk, TypeOK
    <3> QED BY <1>f, <2>0, <2>1, <3>3 DEF TypeOK, ChunkId
  <2>8. count = Len(input) /\ (nchunks > 0 => Len(input) = Base(nchunks) + Len(chunk[nchunks].items))
        /\ (nchunks > 0 => chunk[nchunks].count = Len(chunk[nchunks].items))
        /\ (nchunks = 0 => Len(input) = 0)
    BY <1>f, <2>0, ChunkFacts DEF TailAgrees
  <2>9. ChunksFollow'
    <3>1. nchunks' > 0 => chunk'[1].first_index = FirstIndex
      BY <1>f, <2>1, <2>5, <2>6, <2>8, ChunkFacts, ConstantsAssumption DEF ChunksFollow
    <3>2. ASSUME NEW k \in 1 .. nchunks', k < nchunks'
          PROVE  /\ chunk'[k + 1].first_index = chunk'[k].first_index + Len(chunk'[k].items)
                 /\ chunk'[k].count = Len(chunk'[k].items)
                 /\ chunk'[k].sealed
      <4>1. k \in 1 .. nchunks
        BY <3>2, <2>1, <1>f, ChunkFacts
      <4>2. CASE k < nchunks
        <5>1. k + 1 \in 1 .. nchunks
          BY <4>1, <4>2, <1>f, ChunkFacts
        <5> QED BY <1>f, <4>1, <4>2, <5>1, <2>5 DEF ChunksFollow
      <4>3. CASE k = nchunks
        <5>1. /\ chunk[k].first_index \in Nat /\ Len(chunk[k].items) \in Nat
              /\ nchunks > 0 /\ k + 1 = n
          BY <1>f, <4>1, <4>3, ChunkFacts
        <5> HIDE DEF AppendBegin
        <5>2. FirstIndex + count = chunk[k].first_index + Len(chunk[k].items)
          <6>1. count = chunk[k].first_index - FirstIndex + Len(chunk[k].items)
            BY <5>1, <4>3, <2>8 DEF Base
          <6> HIDE DEF AppendBegin
          <6> QED BY <5>1, <6>1, ConstantsAssumption
        <5> QED BY <4>1, <4>3, <5>1, <5>2, <2>5, <2>6, <2>8
      <4> QED BY <4>1, <4>2, <4>3, <1>f, ChunkFacts
    <3> QED BY <3>1, <3>2, <2>1, <2>4 DEF ChunksFollow
  <2>10. TailAgrees'
    BY <1>f, <2>0, <2>1, <2>6, <2>8, ChunkFacts, ConstantsAssumption DEF TailAgrees, Base
  <2>11. HasRoom'
    BY <1>0, <2>0, <2>1, <2>6, ConstantsAssumption DEF HasRoom, KeepsColors, KeepsNth
  <2>12. NeverReallocates'
    <3> SUFFICES ASSUME NEW k \in 1 .. nchunks'
                 PROVE  /\ Len(chunk'[k].items) <= ChunkSize
                        /\ chunk'[k].arena_used <= chunk'[k].arena_cap
                        /\ chunk'[k].colors <= ColorRuns
                        /\ chunk'[k].nth <= NthRanges
      BY DEF NeverReallocates
    <3>1. CASE k = n
      BY <3>1, <2>6, ConstantsAssumption
    <3>2. CASE k # n
      <4>1. k \in 1 .. nchunks
        BY <3>2, <2>1, <1>f, ChunkFacts
      <4> QED BY <1>f, <4>1, <2>5 DEF NeverReallocates
    <3> QED BY <3>1, <3>2
  <2>13. ItemsAreInput'
    <3> SUFFICES ASSUME NEW k \in 1 .. nchunks'
                 PROVE  /\ chunk'[k].first_index >= FirstIndex
                        /\ chunk'[k].first_index - FirstIndex + Len(chunk'[k].items) <= Len(input)
                        /\ \A j \in 1 .. Len(chunk'[k].items) :
                              /\ chunk'[k].items[j].index = chunk'[k].first_index + (j - 1)
                              /\ chunk'[k].items[j].spec =
                                    input[chunk'[k].first_index - FirstIndex + j]
      BY <2>0 DEF ItemsAreInput, Base
    <3>1. CASE k = n
      BY <1>f, <3>1, <2>6, <2>8, ChunkFacts, ConstantsAssumption
    <3>2. CASE k # n
      <4>1. k \in 1 .. nchunks
        BY <3>2, <2>1, <1>f, ChunkFacts
      <4>2. chunk'[k].first_index = chunk[k].first_index /\ chunk'[k].items = chunk[k].items
        BY <4>1, <2>5
      <4>3. /\ chunk[k].first_index >= FirstIndex
            /\ Base(k) + Len(chunk[k].items) <= Len(input)
            /\ \A j \in 1 .. Len(chunk[k].items) :
                  /\ chunk[k].items[j].index = chunk[k].first_index + (j - 1)
                  /\ chunk[k].items[j].spec = input[Base(k) + j]
        BY <1>f, <4>1 DEF ItemsAreInput
      <4> QED BY <4>2, <4>3 DEF Base
    <3> QED BY <3>1, <3>2
  <2>14. Grows
    BY <1>f, <2>1, <2>5, ChunkFacts DEF Grows
  <2> QED BY <2>7, <2>9, <2>10, <2>11, <2>12, <2>13, <2>14, ConsumersKept DEF IInv
<1> QED BY <1>1, <1>2

\* The item is written into the tail.
LEMMA AppendWriteInv ==
    ASSUME IInv, AppendWrite, UNCHANGED consumerVars
    PROVE  IInv'
<1> DEFINE n == nchunks
           t == chunk[n]
<1>f. TypeOK /\ ChunksFollow /\ TailAgrees /\ HasRoom /\ NeverReallocates /\ ItemsAreInput
  BY DEF IInv
<1>p. /\ ppc = "write" /\ ppc' = "publish"
      /\ nchunks' = nchunks /\ count' = count
  BY DEF AppendWrite
<1>u. /\ finished' = finished /\ spec' = spec
      /\ cpc' = cpc /\ cur' = cur /\ snap' = snap /\ look' = look
  BY DEF AppendWrite, consumerVars
<1>0. /\ chunk' = [chunk EXCEPT ![n] = WithItem(t, spec)]
      /\ input' = Append(input, spec)
  BY DEF AppendWrite
<1>n. nchunks > 0
  BY <1>f, <1>p DEF TailAgrees
<1>c. /\ FirstIndex \in Nat /\ ChunkSize \in Nat /\ ColorRuns \in Nat /\ NthRanges \in Nat /\ MaxItems \in Nat
  BY ConstantsAssumption
<1>1. /\ n \in 1 .. nchunks /\ n \in Nat /\ n \in ChunkId
      /\ t \in Chunk /\ t.items \in Seq(Item) /\ Len(t.items) \in Nat
      /\ t.first_index \in Nat /\ t.count \in Nat /\ t.arena_used \in Nat
      /\ t.arena_cap \in Nat /\ t.colors \in Nat /\ t.nth \in Nat
  <2>1. n \in 1 .. nchunks /\ n \in Nat /\ n \in ChunkId
    BY <1>f, <1>n, ChunkFacts
  <2>2. t \in Chunk
    BY <2>1, <1>f DEF TypeOK
  <2>3. t.items \in Seq(Item)
    BY <2>2 DEF Chunk
  <2>4. Len(t.items) \in Nat
    BY <2>3
  <2>5. /\ t.first_index \in Nat /\ t.count \in Nat /\ t.arena_used \in Nat
        /\ t.arena_cap \in Nat /\ t.colors \in Nat /\ t.nth \in Nat
    BY <2>2 DEF Chunk
  <2> QED BY <2>1, <2>2, <2>3, <2>4, <2>5
<1>2. /\ spec \in Specs /\ spec.need \in Nat /\ spec.colors \in Nat /\ spec.nth \in Nat
      /\ input \in Seq(Specs) /\ Len(input) \in Nat /\ count \in Nat
  BY <1>f, SpecsAssumption, ConstantsAssumption DEF TypeOK
<1>b. \A k \in 1 .. nchunks :
         Base(k) \in Nat /\ chunk[k].first_index = FirstIndex + Base(k)
  BY <1>f, BaseFacts
<1>3. /\ count = Len(input) /\ Len(input) = Base(n) + Len(t.items)
      /\ t.count = Len(t.items) /\ ~t.sealed /\ Len(input) < MaxItems
      /\ n <= Len(input) + 1
  BY <1>f, <1>p, <1>1, <1>2 DEF TailAgrees
<1>4. chunk'[n] = WithItem(t, spec) /\ \A k \in ChunkId : k # n => chunk'[k] = chunk[k]
  BY <1>f, <1>0, <1>1 DEF TypeOK
<1>5. NewItem(spec) \in Item /\ NewItem(spec).index = FirstIndex + count /\ NewItem(spec).spec = spec
  BY <1>2, ConstantsAssumption DEF NewItem, Item, KeepsColors, KeepsNth
<1>6. /\ chunk'[n].first_index = t.first_index /\ chunk'[n].arena_cap = t.arena_cap
      /\ chunk'[n].arena_used = t.arena_used + spec.need
      /\ chunk'[n].items = Append(t.items, NewItem(spec))
      /\ chunk'[n].colors = IF KeepsColors(spec) THEN t.colors + spec.colors ELSE t.colors
      /\ chunk'[n].nth = IF KeepsNth(spec) THEN t.nth + spec.nth ELSE t.nth
      /\ chunk'[n].count = t.count /\ chunk'[n].sealed = t.sealed
  BY <1>4 DEF WithItem
<1>7. /\ Len(chunk'[n].items) = Len(t.items) + 1
      /\ \A j \in 1 .. Len(t.items) : chunk'[n].items[j] = t.items[j]
      /\ chunk'[n].items[Len(t.items) + 1] = NewItem(spec)
  BY <1>1, <1>5, <1>6
<1>8. /\ Len(input') = Len(input) + 1
      /\ \A j \in 1 .. Len(input) : input'[j] = input[j]
      /\ input'[Len(input) + 1] = spec
  BY <1>0, <1>2
<1>9. \A k \in 1 .. nchunks : k # n => k \in ChunkId /\ chunk'[k] = chunk[k]
  BY <1>f, <1>4, ChunkFacts
<1>d. \A k \in 1 .. nchunks : /\ chunk'[k].first_index = chunk[k].first_index
                             /\ Base(k)' = Base(k)
  BY <1>6, <1>9 DEF Base
<1>10. TypeOK'
  <2>1. WithItem(t, spec) \in Chunk
    BY <1>f, <1>1, <1>2, ChunkTypes
  <2>2. chunk' \in [ChunkId -> Chunk]
    BY <1>f, <1>0, <2>1 DEF TypeOK
  <2>3. input' \in Seq(Specs)
    BY <1>0, <1>2
  <2> QED BY <1>f, <1>p, <1>u, <2>2, <2>3 DEF TypeOK
<1>11. ChunksFollow'
  <2>1. ASSUME NEW k \in 1 .. nchunks, k < nchunks
        PROVE  /\ chunk'[k + 1].first_index = chunk[k].first_index + Len(chunk[k].items)
               /\ chunk'[k] = chunk[k] /\ chunk[k].count = Len(chunk[k].items) /\ chunk[k].sealed
    <3>1. k + 1 \in 1 .. nchunks /\ k # n
      BY <1>1, <2>1
    <3>2. chunk'[k + 1].first_index = chunk[k + 1].first_index
      BY <3>1, <1>6, <1>9
    <3> QED BY <1>f, <2>1, <3>1, <3>2, <1>9 DEF ChunksFollow
  <2>2. chunk'[1].first_index = chunk[1].first_index
    BY <1>1, <1>6, <1>9
  <2>3. ASSUME NEW k \in ChunkId, k > nchunks PROVE chunk'[k] = EmptyChunk
    BY <1>f, <1>1, <1>4, <2>3 DEF ChunksFollow, ChunkId
  <2> QED BY <1>f, <1>p, <1>1, <2>1, <2>2, <2>3 DEF ChunksFollow
<1>12. TailAgrees'
  <2>1. Len(input') = Base(n)' + Len(chunk'[n].items)
    <3>0. Base(n)' = Base(n)
      BY <1>p, <1>6 DEF Base
    <3>1. Base(n)' = Base(n) /\ Base(n) \in Nat /\ Len(t.items) \in Nat
      BY <3>0, <1>1, <1>b
    <3>2. Len(input') = Base(n) + Len(t.items) + 1
      BY <1>3, <1>8
    <3>3. Len(chunk'[n].items) = Len(t.items) + 1
      BY <1>7
    <3> QED BY <3>1, <3>2, <3>3
  <2>2. chunk'[n].count = Len(chunk'[n].items) - 1
    BY <1>1, <1>3, <1>6, <1>7
  <2>3. ~chunk'[n].sealed
    BY <1>3, <1>6
  <2>4. count = Len(input') - 1 /\ Len(input') <= MaxItems /\ n <= Len(input')
    <3> DEFINE i == Len(input)
    <3>1. Len(input') = i + 1 /\ i \in Nat
      BY <1>2, <1>8
    <3>2. count = i /\ i < MaxItems /\ n <= i + 1
      BY <1>3
    <3>3. n \in Nat /\ MaxItems \in Nat
      BY <1>1, <1>c
    <3> HIDE DEF i, n
    <3>4. i = i + 1 - 1 /\ i + 1 <= MaxItems
      BY <3>1, <3>2, <3>3
    <3> QED BY <3>1, <3>2, <3>4
  <2> QED BY <1>p, <1>n, <2>1, <2>2, <2>3, <2>4 DEF TailAgrees
<1>13. HasRoom'
  BY <1>p DEF HasRoom
<1>14. NeverReallocates'
  <2> SUFFICES ASSUME NEW k \in 1 .. nchunks
               PROVE  /\ Len(chunk'[k].items) <= ChunkSize
                      /\ chunk'[k].arena_used <= chunk'[k].arena_cap
                      /\ chunk'[k].colors <= ColorRuns
                      /\ chunk'[k].nth <= NthRanges
    BY <1>p DEF NeverReallocates
  <2>1. CASE k = n
    <3>1. /\ Len(t.items) < ChunkSize /\ t.arena_used + spec.need <= t.arena_cap
          /\ KeepsColors(spec) => t.colors + spec.colors <= ColorRuns
          /\ KeepsNth(spec) => t.nth + spec.nth <= NthRanges
          /\ t.colors <= ColorRuns /\ t.nth <= NthRanges
      BY <1>f, <1>p, <1>1 DEF HasRoom, NeverReallocates
    <3>2. Len(chunk'[k].items) <= ChunkSize
      BY <2>1, <3>1, <1>1, <1>7, <1>c
    <3> QED BY <2>1, <3>1, <3>2, <1>6
  <2>2. CASE k # n
    BY <2>2, <1>f, <1>9 DEF NeverReallocates
  <2> QED BY <2>1, <2>2
<1>15. ItemsAreInput'
  <2> SUFFICES ASSUME NEW k \in 1 .. nchunks
               PROVE  /\ chunk[k].first_index >= FirstIndex
                      /\ Base(k) + Len(chunk'[k].items) <= Len(input')
                      /\ \A j \in 1 .. Len(chunk'[k].items) :
                            /\ chunk'[k].items[j].index = chunk[k].first_index + (j - 1)
                            /\ chunk'[k].items[j].spec = input'[Base(k) + j]
    BY <1>p, <1>d DEF ItemsAreInput
  <2>a. /\ chunk[k].first_index >= FirstIndex /\ Base(k) \in Nat
        /\ Len(chunk[k].items) \in Nat
        /\ Base(k) + Len(chunk[k].items) <= Len(input)
        /\ \A j \in 1 .. Len(chunk[k].items) :
              /\ chunk[k].items[j].index = chunk[k].first_index + (j - 1)
              /\ chunk[k].items[j].spec = input[Base(k) + j]
    BY <1>f, <1>b, ChunkFacts DEF ItemsAreInput
  <2>b. ASSUME NEW j \in 1 .. Len(chunk[k].items)
        PROVE  input'[Base(k) + j] = input[Base(k) + j]
    <3>1. Base(k) + j \in 1 .. Len(input)
      BY <2>a, <1>2
    <3> QED BY <3>1, <1>8
  <2>1. CASE k = n
    <3>1. t.first_index + Len(t.items) = FirstIndex + count
      BY <1>1, <1>2, <1>3, <1>b, <1>c
    <3>2. ASSUME NEW j \in 1 .. Len(t.items) + 1
          PROVE  /\ chunk'[k].items[j].index = t.first_index + (j - 1)
                 /\ chunk'[k].items[j].spec = input'[Base(n) + j]
      <4>1. CASE j = Len(t.items) + 1
        <5>1. Base(n) + j = Len(input) + 1
          <6>1. Len(input) = Base(n) + Len(t.items)
            BY <1>3
          <6>2. Base(n) \in Nat /\ Len(t.items) \in Nat
            BY <1>1, <1>b
          <6> DEFINE b == Base(n)
                     l == Len(t.items)
          <6> HIDE DEF b, l
          <6> QED BY <4>1, <6>1, <6>2 DEF b, l
        <5>2. t.first_index + (j - 1) = FirstIndex + count
          <6>1. j - 1 = Len(t.items)
            <7>1. Len(t.items) \in Nat
              BY <1>1
            <7> QED BY <4>1, <7>1
          <6> QED BY <6>1, <3>1
        <5> QED BY <2>1, <4>1, <5>1, <5>2, <1>5, <1>7, <1>8
      <4>2. CASE j # Len(t.items) + 1
        <5>1. j \in 1 .. Len(t.items)
          BY <4>2, <1>1
        <5> QED BY <5>1, <2>1, <2>a, <2>b, <1>7
      <4> QED BY <4>1, <4>2
    <3>3. Base(n) + Len(chunk'[n].items) <= Len(input')
      <4>1. Len(input') = Base(n) + Len(t.items) + 1 /\ Len(chunk'[n].items) = Len(t.items) + 1
        BY <1>3, <1>7, <1>8
      <4>2. Base(n) \in Nat /\ Len(t.items) \in Nat
        BY <1>1, <1>b
      <4> HIDE DEF n, t
      <4> QED BY <4>1, <4>2
    <3> QED BY <2>1, <2>a, <3>2, <3>3, <1>7
  <2>2. CASE k # n
    <3>1. chunk'[k] = chunk[k]
      BY <2>2, <1>9
    <3>2. Base(k) + Len(chunk[k].items) <= Len(input')
      BY <2>a, <1>2, <1>8
    <3> QED BY <3>1, <3>2, <2>a, <2>b
  <2> QED BY <2>1, <2>2
<1>16. Grows
  <2>1. ASSUME NEW k \in 1 .. nchunks
        PROVE  /\ chunk'[k].first_index = chunk[k].first_index
               /\ Len(chunk[k].items) <= Len(chunk'[k].items)
               /\ k < nchunks => Len(chunk'[k].items) = Len(chunk[k].items)
    <3>1. CASE k = n
      BY <3>1, <1>1, <1>6, <1>7
    <3>2. CASE k # n
      BY <3>2, <1>9, <1>f, ChunkFacts
    <3> QED BY <3>1, <3>2
  <2> QED BY <2>1, <1>p, <1>1 DEF Grows
<1> QED BY <1>10, <1>11, <1>12, <1>13, <1>14, <1>15, <1>16, ConsumersKept DEF IInv, consumerVars, AppendWrite

\* A step that at most moves the tail's count or seals it.
OnlyMarks ==
    /\ nchunks' = nchunks
    /\ input' = input
    /\ chunk' \in [ChunkId -> Chunk]
    /\ \A k \in ChunkId :
          /\ k # nchunks => chunk'[k] = chunk[k]
          /\ chunk'[k].first_index = chunk[k].first_index
          /\ chunk'[k].items = chunk[k].items
          /\ chunk'[k].arena_used = chunk[k].arena_used
          /\ chunk'[k].arena_cap = chunk[k].arena_cap
          /\ chunk'[k].colors = chunk[k].colors
          /\ chunk'[k].nth = chunk[k].nth

\* Such a step keeps what IInv says of the items.
LEMMA MarkedInv ==
    ASSUME IInv, OnlyMarks
    PROVE  ChunksFollow' /\ NeverReallocates' /\ ItemsAreInput' /\ Grows
<1>f. TypeOK /\ ChunksFollow /\ NeverReallocates /\ ItemsAreInput
  BY DEF IInv
<1>n. nchunks' = nchunks /\ input' = input
  BY DEF OnlyMarks
<1>c. nchunks \in Nat /\ \A k \in 1 .. nchunks : k \in ChunkId /\ Len(chunk[k].items) \in Nat
  BY <1>f, ChunkFacts
<1>1. \A k \in 1 .. nchunks :
         /\ k # nchunks => chunk'[k] = chunk[k]
         /\ chunk'[k].first_index = chunk[k].first_index
         /\ chunk'[k].items = chunk[k].items
         /\ chunk'[k].arena_used = chunk[k].arena_used
         /\ chunk'[k].arena_cap = chunk[k].arena_cap
         /\ chunk'[k].colors = chunk[k].colors
         /\ chunk'[k].nth = chunk[k].nth
  BY <1>c DEF OnlyMarks
<1>2. ChunksFollow'
  <2>1. nchunks > 0 => chunk'[1].first_index = FirstIndex
    BY <1>f, <1>1, <1>c DEF ChunksFollow
  <2>2. ASSUME NEW k \in 1 .. nchunks, k < nchunks
        PROVE  /\ chunk'[k + 1].first_index = chunk'[k].first_index + Len(chunk'[k].items)
               /\ chunk'[k].count = Len(chunk'[k].items)
               /\ chunk'[k].sealed
    <3>1. k + 1 \in 1 .. nchunks /\ k # nchunks
      BY <1>c, <2>2
    <3>2. chunk'[k + 1].first_index = chunk[k + 1].first_index /\ chunk'[k] = chunk[k]
      BY <1>1, <3>1
    <3> QED BY <1>f, <2>2, <3>2 DEF ChunksFollow
  <2>3. ASSUME NEW k \in ChunkId, k > nchunks PROVE chunk'[k] = EmptyChunk
    <3>1. k # nchunks
      BY <2>3, <1>c DEF ChunkId
    <3>2. chunk'[k] = chunk[k]
      BY <3>1 DEF OnlyMarks
    <3> QED BY <3>2, <2>3, <1>f DEF ChunksFollow
  <2> QED BY <1>n, <2>1, <2>2, <2>3 DEF ChunksFollow
<1>3. NeverReallocates'
  BY <1>f, <1>n, <1>1 DEF NeverReallocates
<1>4. ItemsAreInput'
  <2>1. ASSUME NEW k \in 1 .. nchunks
        PROVE  Base(k)' = Base(k) /\ chunk'[k].items = chunk[k].items
               /\ chunk'[k].first_index = chunk[k].first_index
    BY <1>1 DEF Base
  <2> QED BY <1>f, <1>n, <2>1 DEF ItemsAreInput
<1>5. Grows
  <2>1. ASSUME NEW k \in 1 .. nchunks
        PROVE  /\ chunk'[k].first_index = chunk[k].first_index
               /\ Len(chunk'[k].items) = Len(chunk[k].items)
               /\ Len(chunk[k].items) <= Len(chunk'[k].items)
    BY <1>1, <1>c
  <2> QED BY <1>n, <1>c, <2>1 DEF Grows
<1> QED BY <1>2, <1>3, <1>4, <1>5

\* The item is published.
LEMMA AppendPublishInv ==
    ASSUME IInv, AppendPublish, UNCHANGED consumerVars
    PROVE  IInv'
<1>f. TypeOK /\ TailAgrees
  BY DEF IInv
<1>p. /\ ppc = "publish" /\ ppc' = "total"
      /\ nchunks' = nchunks /\ count' = count /\ input' = input
  BY DEF AppendPublish
<1>u. /\ finished' = finished /\ spec' = spec
      /\ cpc' = cpc /\ cur' = cur /\ snap' = snap /\ look' = look
  BY DEF AppendPublish, consumerVars
<1>0. chunk' = [chunk EXCEPT ![nchunks].count = Len(chunk[nchunks].items)]
  BY DEF AppendPublish
<1>n. nchunks > 0
  BY <1>f, <1>p DEF TailAgrees
<1>1. /\ nchunks \in ChunkId /\ chunk[nchunks] \in Chunk
      /\ nchunks \in Nat /\ Len(chunk[nchunks].items) \in Nat
  BY <1>f, <1>n, ChunkFacts
<1>2. [chunk[nchunks] EXCEPT !.count = Len(chunk[nchunks].items)] \in Chunk
  BY <1>1 DEF Chunk
<1>3. chunk' \in [ChunkId -> Chunk]
  BY <1>f, <1>0, <1>1, <1>2 DEF TypeOK
<1>4. TypeOK'
  BY <1>f, <1>p, <1>u, <1>3 DEF TypeOK
<1>5. /\ \A k \in ChunkId : k # nchunks => chunk'[k] = chunk[k]
      /\ chunk'[nchunks] = [chunk[nchunks] EXCEPT !.count = Len(chunk[nchunks].items)]
  BY <1>f, <1>0, <1>1 DEF TypeOK
<1>6. /\ chunk'[nchunks].items = chunk[nchunks].items
      /\ chunk'[nchunks].first_index = chunk[nchunks].first_index
      /\ chunk'[nchunks].arena_used = chunk[nchunks].arena_used
      /\ chunk'[nchunks].arena_cap = chunk[nchunks].arena_cap
      /\ chunk'[nchunks].colors = chunk[nchunks].colors
      /\ chunk'[nchunks].nth = chunk[nchunks].nth
      /\ chunk'[nchunks].sealed = chunk[nchunks].sealed
      /\ chunk'[nchunks].count = Len(chunk[nchunks].items)
  BY <1>1, <1>5 DEF Chunk
<1>7. OnlyMarks
  BY <1>p, <1>3, <1>5, <1>6 DEF OnlyMarks
<1>8. TailAgrees'
  BY <1>f, <1>p, <1>n, <1>1, <1>6 DEF TailAgrees, Base
<1>9. HasRoom'
  BY <1>p DEF HasRoom
<1> QED BY <1>4, <1>7, <1>8, <1>9, MarkedInv, ConsumersKept DEF IInv

\* The total moves.
LEMMA AppendTotalInv ==
    ASSUME IInv, AppendTotal, UNCHANGED consumerVars
    PROVE  IInv'
<1>f. TypeOK /\ TailAgrees
  BY DEF IInv
<1>p. /\ ppc = "total" /\ ppc' = "idle"
      /\ nchunks' = nchunks /\ count' = count + 1 /\ input' = input
      /\ chunk' = chunk /\ finished' = finished /\ spec' = spec
  BY DEF AppendTotal
<1>u. cpc' = cpc /\ cur' = cur /\ snap' = snap /\ look' = look
  BY DEF consumerVars
<1>1. count = Len(input) - 1 /\ Len(input) <= MaxItems /\ Len(input) \in Nat /\ MaxItems \in Nat
  BY <1>f, <1>p, ChunkFacts DEF TailAgrees
<1>2. TypeOK'
  BY <1>f, <1>p, <1>u, <1>1 DEF TypeOK
<1>3. OnlyMarks
  BY <1>f, <1>p DEF OnlyMarks, TypeOK
<1>4. TailAgrees'
  BY <1>f, <1>p, <1>1 DEF TailAgrees, Base
<1>5. HasRoom'
  BY <1>p DEF HasRoom
<1> QED BY <1>2, <1>3, <1>4, <1>5, MarkedInv, ConsumersKept DEF IInv

\* finish() seals the tail.
LEMMA FinishSealInv ==
    ASSUME IInv, FinishSeal, UNCHANGED consumerVars
    PROVE  IInv'
<1>f. TypeOK /\ TailAgrees
  BY DEF IInv
<1>p. /\ ppc = "idle" /\ ppc' = "finish"
      /\ nchunks' = nchunks /\ count' = count /\ input' = input
      /\ finished' = finished /\ spec' = spec
  BY DEF FinishSeal
<1>u. cpc' = cpc /\ cur' = cur /\ snap' = snap /\ look' = look
  BY DEF consumerVars
<1>h. HasRoom'
  BY <1>p DEF HasRoom
<1>1. CASE nchunks = 0
  <2>0. chunk' = chunk
    BY <1>1 DEF FinishSeal
  <2>1. TypeOK'
    BY <1>f, <1>p, <1>u, <2>0 DEF TypeOK
  <2>2. OnlyMarks
    BY <1>f, <1>p, <2>0 DEF OnlyMarks, TypeOK
  <2>3. TailAgrees'
    BY <1>1, <1>f, <1>p, <2>0 DEF TailAgrees
  <2> QED BY <1>h, <2>1, <2>2, <2>3, MarkedInv, ConsumersKept DEF IInv
<1>2. CASE nchunks # 0
  <2>0. chunk' = [chunk EXCEPT ![nchunks].sealed = TRUE]
    BY <1>2 DEF FinishSeal
  <2>1. /\ nchunks \in ChunkId /\ chunk[nchunks] \in Chunk /\ nchunks > 0
    BY <1>f, <1>2, ChunkFacts
  <2>2. [chunk[nchunks] EXCEPT !.sealed = TRUE] \in Chunk
    BY <2>1 DEF Chunk
  <2>3. chunk' \in [ChunkId -> Chunk]
    BY <1>f, <2>0, <2>1, <2>2 DEF TypeOK
  <2>4. TypeOK'
    BY <1>f, <1>p, <1>u, <2>3 DEF TypeOK
  <2>5. /\ \A k \in ChunkId : k # nchunks => chunk'[k] = chunk[k]
        /\ chunk'[nchunks] = [chunk[nchunks] EXCEPT !.sealed = TRUE]
    BY <1>f, <2>0, <2>1 DEF TypeOK
  <2>6. /\ chunk'[nchunks].items = chunk[nchunks].items
        /\ chunk'[nchunks].first_index = chunk[nchunks].first_index
        /\ chunk'[nchunks].arena_used = chunk[nchunks].arena_used
        /\ chunk'[nchunks].arena_cap = chunk[nchunks].arena_cap
        /\ chunk'[nchunks].colors = chunk[nchunks].colors
        /\ chunk'[nchunks].nth = chunk[nchunks].nth
        /\ chunk'[nchunks].count = chunk[nchunks].count
        /\ chunk'[nchunks].sealed
    BY <2>1, <2>5 DEF Chunk
  <2>7. OnlyMarks
    BY <1>p, <2>3, <2>5, <2>6 DEF OnlyMarks
  <2>8. TailAgrees'
    BY <1>f, <1>p, <2>1, <2>6 DEF TailAgrees, Base
  <2> QED BY <1>h, <2>4, <2>7, <2>8, MarkedInv, ConsumersKept DEF IInv
<1> QED BY <1>1, <1>2

\* finish() stores the flag.
LEMMA FinishStoreInv ==
    ASSUME IInv, FinishStore, UNCHANGED consumerVars
    PROVE  IInv'
<1>f. TypeOK /\ TailAgrees
  BY DEF IInv
<1>p. /\ ppc = "finish" /\ ppc' = "done" /\ finished' = TRUE
      /\ nchunks' = nchunks /\ count' = count /\ input' = input
      /\ chunk' = chunk /\ spec' = spec
  BY DEF FinishStore
<1>u. cpc' = cpc /\ cur' = cur /\ snap' = snap /\ look' = look
  BY DEF consumerVars
<1>1. TypeOK'
  BY <1>f, <1>p, <1>u DEF TypeOK
<1>2. OnlyMarks
  BY <1>f, <1>p DEF OnlyMarks, TypeOK
<1>3. TailAgrees'
  BY <1>f, <1>p DEF TailAgrees, Base
<1>4. HasRoom'
  BY <1>p DEF HasRoom
<1> QED BY <1>1, <1>2, <1>3, <1>4, MarkedInv, ConsumersKept DEF IInv

-----------------------------------------------------------------------------
(* The consumers' steps. *)

\* A step of consumer c leaves the list and the other consumers alone: IInv
\* needs only the new type, and c's own part of ConsumersAgree.
OwnPart(c) ==
    /\ cpc[c] = "counts" => Filling(cur[c])
    /\ Filling(snap[c])
    /\ Len(snap[c].counts) = snap[c].n
    /\ cpc[c] = "size" => look[c].chunk \in 1 .. nchunks

LEMMA ConsumerInv ==
    ASSUME IInv, NEW c \in Consumers, UNCHANGED producerVars,
           cpc' \in [Consumers -> {"idle", "counts", "size"}],
           cur' \in [Consumers -> Snapshot], snap' \in [Consumers -> Snapshot],
           look' \in [Consumers -> Look],
           \A d \in Consumers : d # c => /\ cpc'[d] = cpc[d] /\ cur'[d] = cur[d]
                                        /\ snap'[d] = snap[d] /\ look'[d] = look[d],
           OwnPart(c)'
    PROVE  IInv'
<1>p. /\ chunk' = chunk /\ nchunks' = nchunks /\ count' = count /\ finished' = finished
      /\ ppc' = ppc /\ spec' = spec /\ input' = input
  BY DEF producerVars
<1>1. TypeOK'
  BY <1>p DEF IInv, TypeOK
<1>2. ChunksFollow' /\ NeverReallocates' /\ ItemsAreInput' /\ TailAgrees' /\ HasRoom'
  <2>1. ChunksFollow' /\ NeverReallocates'
    BY <1>p DEF IInv, ChunksFollow, NeverReallocates
  <2>2. ItemsAreInput'
    BY <1>p DEF IInv, ItemsAreInput, Base
  <2>3. TailAgrees'
    BY <1>p DEF IInv, TailAgrees, Base
  <2>4. HasRoom'
    BY <1>p DEF IInv, HasRoom, KeepsColors, KeepsNth
  <2> QED BY <2>1, <2>2, <2>3, <2>4
<1>3. ASSUME NEW d \in Consumers PROVE OwnPart(d)'
  <2>1. CASE d = c
    BY <2>1
  <2>2. CASE d # c
    <3>1. OwnPart(d)
      BY DEF IInv, ConsumersAgree, OwnPart
    <3>2. cpc'[d] = cpc[d] /\ cur'[d] = cur[d] /\ snap'[d] = snap[d] /\ look'[d] = look[d]
      BY <2>2
    <3> QED BY <1>p, <3>1, <3>2 DEF OwnPart, Filling, Base
  <2> QED BY <2>1, <2>2
<1>4. ConsumersAgree'
  BY <1>3 DEF ConsumersAgree, OwnPart
<1> QED BY <1>1, <1>2, <1>4 DEF IInv

\* The chunks are copied.
LEMMA SnapshotCopyInv ==
    ASSUME IInv, NEW c \in Consumers, SnapshotCopy(c), UNCHANGED producerVars
    PROVE  IInv'
<1> DEFINE s == [n |-> nchunks, counts |-> <<>>, count |-> 0,
                 finished |-> FALSE, low |-> Published]
<1>f. TypeOK /\ ChunksFollow /\ TailAgrees /\ ItemsAreInput /\ ConsumersAgree
  BY DEF IInv
<1>p. /\ cpc' = [cpc EXCEPT ![c] = "counts"] /\ cur' = [cur EXCEPT ![c] = s]
      /\ snap' = snap /\ look' = look
  BY DEF SnapshotCopy
<1>u. nchunks' = nchunks /\ chunk' = chunk
  BY DEF producerVars
<1>1. Published \in Nat
  BY <1>f, PublishedType
<1>2. nchunks \in 0 .. MaxItems
  BY <1>f DEF TypeOK
<1>3. s \in Snapshot
  BY <1>1, <1>2 DEF Snapshot
<1>4. /\ cpc' \in [Consumers -> {"idle", "counts", "size"}]
      /\ cur' \in [Consumers -> Snapshot] /\ snap' \in [Consumers -> Snapshot]
      /\ look' \in [Consumers -> Look]
  BY <1>f, <1>p, <1>3 DEF TypeOK
<1>5. /\ cpc'[c] = "counts" /\ cur'[c] = s /\ snap'[c] = snap[c] /\ look'[c] = look[c]
      /\ \A d \in Consumers : d # c => /\ cpc'[d] = cpc[d] /\ cur'[d] = cur[d]
                                      /\ snap'[d] = snap[d] /\ look'[d] = look[d]
  BY <1>f, <1>p DEF TypeOK
<1>6. nchunks \in Nat
  BY <1>f, ChunkFacts
<1>7. Filling(cur[c])'
  <2>1. cur'[c].n = nchunks /\ cur'[c].counts = <<>> /\ cur'[c].count = 0
    BY <1>5
  <2>2. Len(cur'[c].counts) = 0
    BY <2>1
  <2> QED BY <1>6, <1>u, <2>1, <2>2 DEF Filling
<1>8. Filling(snap[c])'
  BY <1>f, <1>u, <1>p DEF ConsumersAgree, Filling, Base
<1>9. OwnPart(c)'
  BY <1>f, <1>5, <1>7, <1>8, <1>u DEF OwnPart, ConsumersAgree, Filling, Base
<1> QED BY <1>4, <1>5, <1>9, ConsumerInv

\* One count is read: all chunks but the snapshot's last are complete by now.
LEMMA SnapshotCountInv ==
    ASSUME IInv, NEW c \in Consumers, SnapshotCount(c), UNCHANGED producerVars
    PROVE  IInv'
<1> DEFINE s == cur[c]
           m == Len(s.counts)
           k == m + 1
           x == chunk[k].count
           r == WithCount(s, x)
<1>f. TypeOK /\ ChunksFollow /\ TailAgrees /\ ItemsAreInput /\ ConsumersAgree
  BY DEF IInv
<1>p. /\ cpc[c] = "counts" /\ k <= s.n
      /\ cpc' = cpc /\ snap' = snap /\ look' = look
  BY DEF SnapshotCount
<1>q. cur' = [cur EXCEPT ![c] = r]
  BY DEF SnapshotCount
<1>u. nchunks' = nchunks /\ chunk' = chunk
  BY DEF producerVars
<1>1. /\ s \in Snapshot /\ s.counts \in Seq(Nat) /\ m \in Nat /\ s.n \in Nat /\ s.count \in Nat
  BY <1>f, ConstantsAssumption DEF TypeOK, Snapshot
<1>2. Filling(s)
  BY <1>f, <1>p DEF ConsumersAgree
<1>3. /\ s.n <= nchunks /\ nchunks \in Nat /\ k \in 1 .. nchunks
  <2>1. s.n <= nchunks
    BY <1>2 DEF Filling
  <2>2. nchunks \in Nat
    BY <1>f, ConstantsAssumption DEF TypeOK
  <2>3. k <= nchunks
    <3> HIDE DEF m, s
    <3> QED BY <1>1, <1>p, <2>1, <2>2
  <2> QED BY <1>1, <2>1, <2>2, <2>3
<1>4. x \in Nat /\ Len(chunk[k].items) \in Nat /\ Base(k) \in Nat
  BY <1>3, <1>f, ChunkFacts, BaseFacts
<1>5. x <= Len(chunk[k].items) /\ (k < s.n => x = Len(chunk[k].items))
  <2>1. CASE k < nchunks
    BY <2>1, <1>3, <1>4, <1>f DEF ChunksFollow
  <2>2. CASE k = nchunks
    <3>0. nchunks > 0 /\ chunk[k] = chunk[nchunks]
      BY <2>2, <1>3
    <3>1. chunk[nchunks].count = Len(chunk[nchunks].items) - (IF ppc = "publish" THEN 1 ELSE 0)
      BY <3>0, <1>f DEF TailAgrees
    <3>2. Len(chunk[nchunks].items) \in Nat
      BY <3>0, <1>4
    <3>3. chunk[nchunks].count <= Len(chunk[nchunks].items)
      <4>1. CASE ppc = "publish"
        <5>1. chunk[nchunks].count = Len(chunk[nchunks].items) - 1
          BY <3>1, <4>1
        <5> QED BY <3>2, <5>1
      <4>2. CASE ppc # "publish"
        <5>1. chunk[nchunks].count = Len(chunk[nchunks].items) - 0
          BY <3>1, <4>2
        <5> QED BY <3>2, <5>1
      <4> QED BY <4>1, <4>2
    <3>4. ~(k < s.n)
      BY <2>2, <1>1, <1>3
    <3> QED BY <3>0, <3>3, <3>4
  <2> QED BY <2>1, <2>2, <1>3
<1>6. s.count + x = Base(k) + x
  <2>1. CASE m = 0
    <3>1. s.count = 0
      BY <2>1, <1>2 DEF Filling
    <3>2. chunk[1].first_index = FirstIndex
      BY <1>3, <1>f DEF ChunksFollow
    <3> QED BY <2>1, <3>1, <3>2, ConstantsAssumption DEF Base
  <2>2. CASE m # 0
    <3>1. m \in 1 .. nchunks /\ m < nchunks /\ m < s.n /\ m \in 1 .. m
      BY <2>2, <1>1, <1>3, <1>p
    <3>2. s.count = Base(m) + s.counts[m] /\ s.counts[m] = Len(chunk[m].items)
      BY <2>2, <3>1, <1>2 DEF Filling
    <3>5. Base(k) = Base(m) + Len(chunk[m].items)
      BY <3>1, <1>f, BaseFollows
    <3> QED BY <3>2, <3>5
  <2> QED BY <2>1, <2>2
<1>7. /\ r \in Snapshot /\ r.n = s.n /\ r.counts = Append(s.counts, x) /\ r.count = s.count + x
  <2>1. Append(s.counts, x) \in Seq(Nat) /\ s.count + x \in Nat
    <3> HIDE DEF s, x
    <3> QED BY <1>1, <1>4
  <2> QED BY <1>1, <2>1 DEF Snapshot, WithCount
<1>8. /\ Len(r.counts) = k /\ r.counts[k] = x
      /\ \A j \in 1 .. m : r.counts[j] = s.counts[j]
  <2> HIDE DEF s, x, r
  <2> QED BY <1>1, <1>4, <1>7
<1>9. /\ cpc' \in [Consumers -> {"idle", "counts", "size"}]
      /\ cur' \in [Consumers -> Snapshot] /\ snap' \in [Consumers -> Snapshot]
      /\ look' \in [Consumers -> Look]
  <2> HIDE DEF r
  <2> QED BY <1>f, <1>p, <1>q, <1>7 DEF TypeOK
<1>10. /\ cur'[c] = r
       /\ \A d \in Consumers : d # c => cur'[d] = cur[d]
  <2> HIDE DEF r
  <2> QED BY <1>f, <1>q DEF TypeOK
<1> HIDE DEF r, x
<1>11. Filling(r)
  <2>1. ASSUME NEW j \in 1 .. k
        PROVE  /\ r.counts[j] <= Len(chunk[j].items)
               /\ j < r.n => r.counts[j] = Len(chunk[j].items)
    <3>1. CASE j = k
      <4> HIDE DEF s, m
      <4> QED BY <3>1, <1>5, <1>7, <1>8
    <3>2. CASE j # k
      <4>1. j \in 1 .. m
        <5> HIDE DEF s, m
        <5> QED BY <3>2, <1>1
      <4>2. /\ s.counts[j] <= Len(chunk[j].items)
            /\ j < s.n => s.counts[j] = Len(chunk[j].items)
        BY <4>1, <1>2 DEF Filling
      <4> QED BY <4>1, <4>2, <1>7, <1>8
    <3> QED BY <3>1, <3>2
  <2>2. r.count = Base(k) + r.counts[k]
    BY <1>6, <1>7, <1>8
  <2>3. k # 0 /\ k <= r.n /\ r.n <= nchunks
    <3> HIDE DEF s, m
    <3> QED BY <1>1, <1>3, <1>7, <1>p
  <2> HIDE DEF s, m
  <2>4. Len(r.counts) = k
    BY <1>8
  <2> QED BY <2>1, <2>2, <2>3, <2>4 DEF Filling
<1>12. OwnPart(c)'
  <2>1. Filling(cur[c])'
    <3>1. cur'[c] = r
      BY <1>10
    <3> HIDE DEF s, m
    <3> QED BY <3>1, <1>11, <1>u DEF Filling, Base
  <2>2. /\ Filling(snap[c])' /\ Len(snap'[c].counts) = snap'[c].n
    BY <1>f, <1>u, <1>p DEF ConsumersAgree, Filling, Base
  <2>3. cpc'[c] # "size"
    BY <1>p
  <2> QED BY <2>1, <2>2, <2>3 DEF OwnPart
<1> QED BY <1>p, <1>9, <1>10, <1>12, ConsumerInv

\* The snapshot is returned.
LEMMA SnapshotFinishedInv ==
    ASSUME IInv, NEW c \in Consumers, SnapshotFinished(c), UNCHANGED producerVars
    PROVE  IInv'
<1> DEFINE s == cur[c]
           r == [s EXCEPT !.finished = finished]
<1>f. TypeOK /\ ConsumersAgree
  BY DEF IInv
<1>p. /\ cpc[c] = "counts" /\ Len(s.counts) = s.n
      /\ cpc' = [cpc EXCEPT ![c] = "idle"] /\ snap' = [snap EXCEPT ![c] = r]
      /\ cur' = cur /\ look' = look
  BY DEF SnapshotFinished
<1>u. nchunks' = nchunks /\ chunk' = chunk
  BY DEF producerVars
<1>1. s \in Snapshot /\ finished \in BOOLEAN
  BY <1>f DEF TypeOK
<1>2. /\ r \in Snapshot /\ r.n = s.n /\ r.counts = s.counts /\ r.count = s.count
  BY <1>1 DEF Snapshot
<1>3. /\ cpc' \in [Consumers -> {"idle", "counts", "size"}]
      /\ cur' \in [Consumers -> Snapshot] /\ snap' \in [Consumers -> Snapshot]
      /\ look' \in [Consumers -> Look]
  BY <1>f, <1>p, <1>2 DEF TypeOK
<1>4. /\ cpc'[c] = "idle" /\ snap'[c] = r
      /\ \A d \in Consumers : d # c => cpc'[d] = cpc[d] /\ snap'[d] = snap[d]
  BY <1>f, <1>p DEF TypeOK
<1>5. Filling(snap[c])'
  BY <1>f, <1>p, <1>u, <1>2, <1>4 DEF ConsumersAgree, Filling, Base
<1>6. OwnPart(c)'
  BY <1>p, <1>2, <1>4, <1>5 DEF OwnPart
<1> QED BY <1>p, <1>3, <1>4, <1>6, ConsumerInv

\* item_at() finds a chunk, or returns a null reference.
LEMMA ItemAtFindInv ==
    ASSUME IInv, NEW c \in Consumers, NEW index \in Nat, ItemAtFind(c, index),
           UNCHANGED producerVars
    PROVE  IInv'
<1> DEFINE call == NoCall(index)
           any == \E k \in 1 .. nchunks : chunk[k].first_index <= index
           hit == HitCall(index)
<1>f. TypeOK /\ ConsumersAgree /\ ItemsAreInput
  BY DEF IInv
<1>p. cpc[c] = "idle" /\ cur' = cur /\ snap' = snap
  BY DEF ItemAtFind
<1>u. nchunks' = nchunks /\ chunk' = chunk
  BY DEF producerVars
<1>c. nchunks \in Nat /\ \A k \in 1 .. nchunks : chunk[k].first_index \in Nat
  BY <1>f, ChunkFacts
<1>1. Published \in Nat
  BY <1>f, PublishedType
<1>2. call \in Look
  BY <1>1, ConstantsAssumption DEF Look, NoCall
<1>3. /\ \A d \in Consumers : d # c => cpc'[d] = cpc[d] /\ look'[d] = look[d]
  BY <1>f DEF ItemAtFind, TypeOK
<1>4. CASE index < FirstIndex \/ ~any
  <2>1. cpc' = cpc /\ look' = [look EXCEPT ![c] = call]
    BY <1>4 DEF ItemAtFind
  <2>2. /\ cpc' \in [Consumers -> {"idle", "counts", "size"}]
        /\ cur' \in [Consumers -> Snapshot] /\ snap' \in [Consumers -> Snapshot]
        /\ look' \in [Consumers -> Look]
    BY <1>f, <1>p, <1>2, <2>1 DEF TypeOK
  <2>3. Filling(snap[c])' /\ Len(snap'[c].counts) = snap'[c].n
    BY <1>f, <1>p, <1>u DEF ConsumersAgree, Filling, Base
  <2>4. OwnPart(c)'
    BY <1>p, <2>1, <2>3 DEF OwnPart
  <2> QED BY <1>p, <1>3, <2>2, <2>4, ConsumerInv
<1>5. CASE ~(index < FirstIndex \/ ~any)
  <2>1. cpc' = [cpc EXCEPT ![c] = "size"] /\ look' = [look EXCEPT ![c] = hit]
    BY <1>5 DEF ItemAtFind
  <2>2. /\ ChunkOf(index) \in 1 .. nchunks
        /\ chunk[ChunkOf(index)].first_index <= index
    BY <1>5, <1>f, ChunkOfFound
  <2>3. /\ ChunkOf(index) \in 0 .. MaxItems
        /\ index - chunk[ChunkOf(index)].first_index \in Nat
    BY <2>2, <1>c, <1>f, ChunkFacts
  <2>4. hit \in Look /\ hit.chunk = ChunkOf(index)
    BY <1>1, <2>3 DEF Look, HitCall
  <2>5. /\ cpc' \in [Consumers -> {"idle", "counts", "size"}]
        /\ cur' \in [Consumers -> Snapshot] /\ snap' \in [Consumers -> Snapshot]
        /\ look' \in [Consumers -> Look]
    BY <1>f, <1>p, <2>1, <2>4 DEF TypeOK
  <2>6. cpc'[c] = "size" /\ look'[c] = hit
    BY <1>f, <2>1 DEF TypeOK
  <2>7. Filling(snap[c])' /\ Len(snap'[c].counts) = snap'[c].n
    BY <1>f, <1>p, <1>u DEF ConsumersAgree, Filling, Base
  <2>8. OwnPart(c)'
    BY <1>u, <2>2, <2>4, <2>6, <2>7 DEF OwnPart
  <2> QED BY <1>p, <1>3, <2>5, <2>8, ConsumerInv
<1> QED BY <1>4, <1>5

\* item_at() reads the chunk's count.
LEMMA ItemAtSizeInv ==
    ASSUME IInv, NEW c \in Consumers, ItemAtSize(c), UNCHANGED producerVars
    PROVE  IInv'
<1> DEFINE b == look[c].local < chunk[look[c].chunk].count
           r == [look[c] EXCEPT !.found = b]
<1>f. TypeOK /\ ConsumersAgree
  BY DEF IInv
<1>p. /\ cpc' = [cpc EXCEPT ![c] = "idle"] /\ look' = [look EXCEPT ![c] = r]
      /\ cur' = cur /\ snap' = snap
  BY DEF ItemAtSize
<1>u. nchunks' = nchunks /\ chunk' = chunk
  BY DEF producerVars
<1>1. r \in Look
  <2>1. b \in BOOLEAN /\ look[c] \in Look
    BY <1>f DEF TypeOK
  <2>2. \A q \in Look : \A v \in BOOLEAN : [q EXCEPT !.found = v] \in Look
    BY DEF Look
  <2> QED BY <2>1, <2>2
<1>2. /\ cpc' \in [Consumers -> {"idle", "counts", "size"}]
      /\ cur' \in [Consumers -> Snapshot] /\ snap' \in [Consumers -> Snapshot]
      /\ look' \in [Consumers -> Look]
  BY <1>f, <1>p, <1>1 DEF TypeOK
<1>3. /\ cpc'[c] = "idle"
      /\ \A d \in Consumers : d # c => cpc'[d] = cpc[d] /\ look'[d] = look[d]
  BY <1>f, <1>p DEF TypeOK
<1>4. Filling(snap[c])' /\ Len(snap'[c].counts) = snap'[c].n
  BY <1>f, <1>p, <1>u DEF ConsumersAgree, Filling, Base
<1>5. OwnPart(c)'
  BY <1>3, <1>4 DEF OwnPart
<1> QED BY <1>p, <1>2, <1>3, <1>5, ConsumerInv

-----------------------------------------------------------------------------
(* The theorems. *)

\* Every step keeps the invariant.
LEMMA NextIInv == IInv /\ [Next]_vars => IInv'
<1> SUFFICES ASSUME IInv, [Next]_vars PROVE IInv'
  OBVIOUS
<1>1. CASE Producer
  <2>0. UNCHANGED consumerVars
    BY <1>1 DEF Producer
  <2>1. CASE \E s \in Specs : AppendBegin(s)
    BY <2>0, <2>1, AppendBeginInv
  <2>2. CASE AppendWrite
    BY <2>0, <2>2, AppendWriteInv
  <2>3. CASE AppendPublish
    BY <2>0, <2>3, AppendPublishInv
  <2>4. CASE AppendTotal
    BY <2>0, <2>4, AppendTotalInv
  <2>5. CASE FinishSeal
    BY <2>0, <2>5, FinishSealInv
  <2>6. CASE FinishStore
    BY <2>0, <2>6, FinishStoreInv
  <2> QED BY <1>1, <2>1, <2>2, <2>3, <2>4, <2>5, <2>6 DEF Producer
<1>2. ASSUME NEW c \in Consumers, Consumer(c) PROVE IInv'
  <2>0. UNCHANGED producerVars
    BY <1>2 DEF Consumer
  <2>1. CASE SnapshotCopy(c)
    BY <2>0, <2>1, SnapshotCopyInv
  <2>2. CASE SnapshotCount(c)
    BY <2>0, <2>2, SnapshotCountInv
  <2>3. CASE SnapshotFinished(c)
    BY <2>0, <2>3, SnapshotFinishedInv
  <2>4. ASSUME NEW index \in 0 .. FirstIndex + MaxItems, ItemAtFind(c, index) PROVE IInv'
    <3>1. index \in Nat
      BY ConstantsAssumption
    <3> QED BY <2>0, <2>4, <3>1, ItemAtFindInv
  <2>5. CASE ItemAtSize(c)
    BY <2>0, <2>5, ItemAtSizeInv
  <2> QED BY <1>2, <2>1, <2>2, <2>3, <2>4, <2>5 DEF Consumer
<1>3. CASE UNCHANGED vars
  <2>1. UNCHANGED consumerVars
    BY <1>3 DEF vars, consumerVars
  <2>2. /\ chunk' = chunk /\ nchunks' = nchunks /\ count' = count /\ finished' = finished
        /\ ppc' = ppc /\ spec' = spec /\ input' = input
        /\ cpc' = cpc /\ cur' = cur /\ snap' = snap /\ look' = look
    BY <1>3 DEF vars
  <2>3. TypeOK'
    BY <2>2 DEF IInv, TypeOK
  <2>4. ChunksFollow' /\ NeverReallocates' /\ ItemsAreInput'
    BY <2>2 DEF IInv, ChunksFollow, NeverReallocates, ItemsAreInput, Base
  <2>5. TailAgrees' /\ HasRoom'
    BY <2>2 DEF IInv, TailAgrees, HasRoom, Base
  <2>6. ConsumersAgree'
    BY <2>2 DEF IInv, ConsumersAgree, Filling, Base
  <2> QED BY <2>3, <2>4, <2>5, <2>6 DEF IInv
<1> QED BY <1>1, <1>2, <1>3 DEF Next

LEMMA Inductive == Spec => []IInv
BY InitIInv, NextIInv, PTL DEF Spec

\* The variables keep their types.
THEOREM TypeCorrect == Spec => []TypeOK
<1>1. IInv => TypeOK
  BY DEF IInv
<1> QED BY <1>1, Inductive, PTL

\* A chunk never outgrows its reserve, whatever the capacities and the records.
THEOREM Reserved == Spec => []NeverReallocates
<1>1. IInv => NeverReallocates
  BY DEF IInv
<1> QED BY <1>1, Inductive, PTL

\* Every snapshot is a prefix of the input, in every interleaving of the
\* producer with any number of consumers.
THEOREM Prefix == Spec => []SnapshotIsPrefix
<1>1. IInv => SnapshotIsPrefix
  <2> SUFFICES ASSUME IInv, NEW c \in Consumers PROVE ShowsPrefix(snap[c])
    BY DEF SnapshotIsPrefix
  <2> DEFINE s == snap[c]
  <2>1. /\ Filling(s) /\ Len(s.counts) = s.n /\ s \in Snapshot
        /\ ChunksFollow /\ ItemsAreInput /\ TypeOK
    BY DEF IInv, ConsumersAgree, TypeOK
  <2>2. s.n \in Nat /\ s.n <= nchunks /\ nchunks \in Nat
    BY <2>1, ChunkFacts, ConstantsAssumption DEF Filling, Snapshot
  <2>3. (s.n > 0 => s.count = Base(s.n) + s.counts[s.n]) /\ (s.n = 0 => s.count = 0)
    BY <2>1, <2>2 DEF Filling
  <2>4. ASSUME NEW k \in 1 .. s.n
        PROVE  /\ k < s.n => Base(k + 1) = Base(k) + s.counts[k]
               /\ s.counts[k] <= Len(chunk[k].items)
               /\ \A j \in 1 .. s.counts[k] :
                     /\ chunk[k].items[j].index = chunk[k].first_index + (j - 1)
                     /\ chunk[k].items[j].spec = input[Base(k) + j]
    <3>1. k \in 1 .. nchunks
      BY <2>2
    <3>2. s.counts[k] <= Len(chunk[k].items) /\ (k < s.n => s.counts[k] = Len(chunk[k].items))
      BY <2>1 DEF Filling
    <3>3. s.counts[k] \in Nat /\ Len(chunk[k].items) \in Nat
      BY <2>1, <3>1, ChunkFacts DEF Snapshot
    <3>4. \A j \in 1 .. s.counts[k] : j \in 1 .. Len(chunk[k].items)
      BY <3>2, <3>3
    <3>5. k < s.n => Base(k + 1) = Base(k) + s.counts[k]
      BY <3>1, <3>2, <2>1, <2>2, BaseFollows
    <3> QED BY <3>1, <3>2, <3>4, <3>5, <2>1 DEF ItemsAreInput
  <2> QED BY <2>3, <2>4 DEF ShowsPrefix
<1> QED BY <1>1, Inductive, PTL

\* No step writes into a sealed chunk: only the tail is written, and it is
\* sealed only by start_chunk, which then moves it out of the way, or by finish.
THEOREM SealedForever == Spec => SealedNeverChanges
<1>1. ASSUME IInv, [Next]_vars, NEW k \in ChunkId, chunk[k].sealed
      PROVE  chunk'[k] = chunk[k]
  <2>f. TypeOK /\ ChunksFollow /\ TailAgrees /\ nchunks \in Nat /\ k \in Nat
    BY <1>1, ChunkFacts DEF IInv, ChunkId
  <2>1. k <= nchunks
    BY <1>1, <2>f DEF ChunksFollow, EmptyChunk
  <2>2. k # nchunks \/ ppc \in {"finish", "done"}
    <3>1. CASE k = nchunks
      <4>1. nchunks > 0 /\ chunk[nchunks].sealed
        BY <3>1, <1>1 DEF ChunkId
      <4> QED BY <4>1, <2>f DEF TailAgrees
    <3> QED BY <3>1
  <2>3. CASE Producer
    <3>1. ASSUME NEW s \in Specs, AppendBegin(s) PROVE chunk'[k] = chunk[k]
      <4>1. k # nchunks /\ k # nchunks + 1
        BY <2>1, <2>2, <2>f, <3>1 DEF AppendBegin
      <4> QED BY <3>1, <4>1 DEF AppendBegin, StartChunk
    <3>2. CASE AppendWrite
      BY <3>2, <2>2, <2>f DEF AppendWrite, TypeOK
    <3>3. CASE AppendPublish
      BY <3>3, <2>2, <2>f DEF AppendPublish, TypeOK
    <3>4. CASE AppendTotal
      BY <3>4 DEF AppendTotal
    <3>5. CASE FinishSeal
      BY <3>5, <2>2, <2>f DEF FinishSeal, TypeOK
    <3>6. CASE FinishStore
      BY <3>6 DEF FinishStore
    <3> QED BY <2>3, <3>1, <3>2, <3>3, <3>4, <3>5, <3>6 DEF Producer
  <2>4. CASE \E c \in Consumers : Consumer(c)
    BY <2>4 DEF Consumer, producerVars
  <2>5. CASE UNCHANGED vars
    BY <2>5 DEF vars
  <2> QED BY <1>1, <2>3, <2>4, <2>5 DEF Next
<1>2. IInv /\ [Next]_vars =>
         [\A k \in ChunkId : chunk[k].sealed => chunk'[k] = chunk[k]]_vars
  BY <1>1
<1> QED BY <1>2, Inductive, PTL DEF Spec, SealedNeverChanges

-----------------------------------------------------------------------------
(* What was published before a read began is seen by it. *)

\* A snapshot being filled will show all that was published when it began: its
\* last chunk had that many items then, and has no fewer now.
Reaches(s) ==
    IF s.n = 0 THEN s.low = 0
    ELSE s.low <= Base(s.n) + (IF Len(s.counts) = s.n THEN s.counts[s.n] ELSE chunk[s.n].count)

\* An item_at() under way works in the chunk of the ordinal, and finds the item
\* there if it was published when the call began.
Asked(l) ==
    /\ l.index = chunk[l.chunk].first_index + l.local
    /\ l.index < FirstIndex + l.low => l.local < chunk[l.chunk].count

\* What item_at() returned: the item of that ordinal, or that it was not
\* published when the call began.
Answered(l) ==
    IF l.found
      THEN /\ l.chunk \in 1 .. nchunks
           /\ l.index = chunk[l.chunk].first_index + l.local
           /\ l.local < Len(chunk[l.chunk].items)
      ELSE ~(FirstIndex <= l.index /\ l.index < FirstIndex + l.low)

ReadsFresh(c) ==
    /\ cpc[c] = "counts" => Reaches(cur[c])
    /\ snap[c].low <= snap[c].count
    /\ cpc[c] = "size" => Asked(look[c])
    /\ (cpc[c] # "size" /\ look[c] # NoLook) => Answered(look[c])

FreshInv == \A c \in Consumers : ReadsFresh(c)

\* A step that moves no chunk, and takes back neither an item nor a count.
Advances ==
    /\ nchunks <= nchunks'
    /\ \A k \in 1 .. nchunks :
          /\ chunk'[k].first_index = chunk[k].first_index
          /\ Len(chunk[k].items) <= Len(chunk'[k].items)
          /\ chunk[k].count <= chunk'[k].count

\* A published item is in the chunk.
LEMMA CountFits ==
    ASSUME IInv
    PROVE  \A k \in 1 .. nchunks : chunk[k].count <= Len(chunk[k].items)
<1> SUFFICES ASSUME NEW k \in 1 .. nchunks PROVE chunk[k].count <= Len(chunk[k].items)
  OBVIOUS
<1>f. TypeOK /\ ChunksFollow /\ TailAgrees
  BY DEF IInv
<1>1. nchunks \in Nat /\ chunk[k].count \in Nat /\ Len(chunk[k].items) \in Nat /\ k \in Nat
  BY <1>f, ChunkFacts
<1>2. CASE k < nchunks
  BY <1>f, <1>1, <1>2 DEF ChunksFollow
<1>3. CASE k = nchunks
  <2> DEFINE x == chunk[k].count
             l == Len(chunk[k].items)
  <2>0. nchunks > 0
    BY <1>1, <1>3
  <2>1. x = l - (IF ppc = "publish" THEN 1 ELSE 0)
    BY <1>f, <1>3, <2>0 DEF TailAgrees
  <2>2. x \in Nat /\ l \in Nat
    BY <1>1
  <2> HIDE DEF x, l
  <2>3. x <= l
    BY <2>1, <2>2
  <2> QED BY <2>3 DEF x, l
<1> QED BY <1>1, <1>2, <1>3

\* Every step of the producer only advances.
LEMMA ProducerAdvances ==
    ASSUME IInv, Producer
    PROVE  Advances
<1>f. TypeOK /\ ChunksFollow /\ TailAgrees
  BY DEF IInv
<1>n. nchunks \in Nat /\ MaxItems \in Nat
  BY <1>f, ChunkFacts
<1>t. \A k \in 1 .. nchunks :
         /\ k \in ChunkId /\ chunk[k] \in Chunk /\ k \in Nat
         /\ chunk[k].items \in Seq(Item)
         /\ chunk[k].first_index \in Nat /\ Len(chunk[k].items) \in Nat /\ chunk[k].count \in Nat
  BY <1>f, ChunkFacts
<1>s. ASSUME nchunks' = nchunks, chunk' = chunk PROVE Advances
  BY <1>s, <1>n, <1>t DEF Advances
<1>1. ASSUME NEW s \in Specs, AppendBegin(s) PROVE Advances
  <2>1. CASE UNCHANGED <<chunk, nchunks>>
    BY <2>1, <1>s
  <2>2. CASE StartChunk(s.need)
    <3>1. nchunks' = nchunks + 1
      BY <2>2 DEF StartChunk
    <3>2. ASSUME NEW k \in 1 .. nchunks
          PROVE  chunk'[k] = chunk[k] \/ chunk'[k] = [chunk[k] EXCEPT !.sealed = TRUE]
      BY <2>2, <1>n, <1>t DEF StartChunk
    <3>3. ASSUME NEW k \in 1 .. nchunks
          PROVE  /\ chunk'[k].first_index = chunk[k].first_index
                 /\ chunk'[k].items = chunk[k].items
                 /\ chunk'[k].count = chunk[k].count
      <4>1. chunk[k] \in Chunk
        BY <1>t
      <4> QED BY <3>2, <4>1 DEF Chunk
    <3> QED BY <3>1, <3>3, <1>n, <1>t DEF Advances
  <2> QED BY <1>1, <2>1, <2>2 DEF AppendBegin
<1>2. CASE AppendWrite
  <2>0. nchunks' = nchunks /\ nchunks > 0
    BY <1>2, <1>f DEF AppendWrite, TailAgrees
  <2>1. \A k \in 1 .. nchunks : k # nchunks => chunk'[k] = chunk[k]
    BY <1>2, <1>f, <1>t DEF AppendWrite, TypeOK
  <2>2. chunk'[nchunks] = WithItem(chunk[nchunks], spec)
    BY <1>2, <1>f, <1>t, <1>n, <2>0 DEF AppendWrite, TypeOK
  <2>3. /\ chunk'[nchunks].first_index = chunk[nchunks].first_index
        /\ chunk'[nchunks].items = Append(chunk[nchunks].items, NewItem(spec))
        /\ chunk'[nchunks].count = chunk[nchunks].count
    BY <2>2 DEF WithItem
  <2>4. chunk[nchunks].items \in Seq(Item) /\ NewItem(spec) \in Item
    <3>1. /\ spec \in Specs /\ spec.colors \in Nat /\ spec.nth \in Nat /\ count \in Nat
      BY <1>f, SpecsAssumption, ConstantsAssumption DEF TypeOK
    <3>2. NewItem(spec) \in Item
      BY <3>1, ConstantsAssumption DEF NewItem, Item, KeepsColors, KeepsNth
    <3> QED BY <1>t, <1>n, <2>0, <3>2
  <2>5. Len(chunk'[nchunks].items) = Len(chunk[nchunks].items) + 1
    BY <2>3, <2>4
  <2> QED BY <1>n, <1>t, <2>0, <2>1, <2>3, <2>5 DEF Advances
<1>3. CASE AppendPublish
  <2>0. nchunks' = nchunks /\ nchunks > 0
    BY <1>3, <1>f DEF AppendPublish, TailAgrees
  <2>1. \A k \in 1 .. nchunks : k # nchunks => chunk'[k] = chunk[k]
    BY <1>3, <1>f, <1>t DEF AppendPublish, TypeOK
  <2>a. chunk' = [chunk EXCEPT ![nchunks].count = Len(chunk[nchunks].items)]
    BY <1>3 DEF AppendPublish
  <2>b. nchunks \in ChunkId /\ chunk \in [ChunkId -> Chunk]
    BY <1>f, <1>t, <1>n, <2>0 DEF TypeOK
  <2>2. chunk'[nchunks] = [chunk[nchunks] EXCEPT !.count = Len(chunk[nchunks].items)]
    BY <2>a, <2>b
  <2>3. /\ chunk'[nchunks].first_index = chunk[nchunks].first_index
        /\ chunk'[nchunks].items = chunk[nchunks].items
        /\ chunk'[nchunks].count = Len(chunk[nchunks].items)
    BY <2>2, <1>t, <1>n, <2>0 DEF Chunk
  <2> QED BY <1>n, <1>t, <2>0, <2>1, <2>3, CountFits DEF Advances
<1>4. CASE AppendTotal
  BY <1>4, <1>s DEF AppendTotal
<1>5. CASE FinishSeal
  <2>1. CASE nchunks = 0
    BY <1>5, <2>1, <1>s DEF FinishSeal
  <2>2. CASE nchunks # 0
    <3>0. nchunks' = nchunks /\ chunk' = [chunk EXCEPT ![nchunks].sealed = TRUE]
      BY <1>5, <2>2 DEF FinishSeal
    <3>1. ASSUME NEW k \in 1 .. nchunks
          PROVE  chunk'[k] = chunk[k] \/ chunk'[k] = [chunk[k] EXCEPT !.sealed = TRUE]
      BY <1>f, <3>0, <1>t DEF TypeOK
    <3>2. ASSUME NEW k \in 1 .. nchunks
          PROVE  /\ chunk'[k].first_index = chunk[k].first_index
                 /\ chunk'[k].items = chunk[k].items
                 /\ chunk'[k].count = chunk[k].count
      <4>1. chunk[k] \in Chunk
        BY <1>t
      <4> QED BY <3>1, <4>1 DEF Chunk
    <3> QED BY <3>0, <3>2, <1>n, <1>t DEF Advances
  <2> QED BY <2>1, <2>2
<1>6. CASE FinishStore
  BY <1>6, <1>s DEF FinishStore
<1> QED BY <1>1, <1>2, <1>3, <1>4, <1>5, <1>6 DEF Producer

\* What holds of a read that is under way, or was answered, still holds when
\* the chunks have advanced.
LEMMA FreshKept ==
    ASSUME IInv, FreshInv, Advances, UNCHANGED consumerVars, TypeOK'
    PROVE  FreshInv'
<1>f. TypeOK /\ ConsumersAgree /\ ItemsAreInput
  BY DEF IInv
<1>p. cpc' = cpc /\ cur' = cur /\ snap' = snap /\ look' = look
  BY DEF consumerVars
<1>n. nchunks \in Nat /\ nchunks' \in Nat /\ nchunks <= nchunks' /\ FirstIndex \in Nat
  BY <1>f, ChunkFacts, ConstantsAssumption DEF TypeOK, Advances
<1>t. \A k \in 1 .. nchunks :
         /\ k \in ChunkId /\ k \in 1 .. nchunks'
         /\ chunk[k].first_index \in Nat /\ Len(chunk[k].items) \in Nat /\ chunk[k].count \in Nat
         /\ Base(k) \in Nat
  <2>1. \A k \in 1 .. nchunks : k \in 1 .. nchunks'
    BY <1>n
  <2>2. \A k \in 1 .. nchunks : Base(k) \in Nat
    BY <1>f, BaseFacts
  <2> QED BY <2>1, <2>2, <1>f, ChunkFacts
<1>u. \A k \in 1 .. nchunks :
         /\ chunk'[k].first_index = chunk[k].first_index
         /\ Base(k)' = Base(k)
         /\ chunk'[k].count \in Nat /\ chunk[k].count <= chunk'[k].count
         /\ Len(chunk'[k].items) \in Nat /\ Len(chunk[k].items) <= Len(chunk'[k].items)
  <2> SUFFICES ASSUME NEW k \in 1 .. nchunks
               PROVE  /\ chunk'[k].first_index = chunk[k].first_index
                      /\ Base(k)' = Base(k)
                      /\ chunk'[k].count \in Nat /\ chunk[k].count <= chunk'[k].count
                      /\ Len(chunk'[k].items) \in Nat
                      /\ Len(chunk[k].items) <= Len(chunk'[k].items)
    OBVIOUS
  <2>1. chunk'[k] \in Chunk
    BY <1>t DEF TypeOK
  <2>2. chunk'[k].items \in Seq(Item) /\ chunk'[k].count \in Nat
    BY <2>1 DEF Chunk
  <2>3. Len(chunk'[k].items) \in Nat
    BY <2>2
  <2> QED BY <2>2, <2>3 DEF Advances, Base
<1>1. ASSUME NEW c \in Consumers PROVE ReadsFresh(c)'
  <2>0. ReadsFresh(c)
    BY DEF FreshInv
  <2>t. cur[c] \in Snapshot /\ look[c] \in Look
    BY <1>f DEF TypeOK
  <2>1. ASSUME cpc[c] = "counts" PROVE Reaches(cur[c])'
    <3> DEFINE s == cur[c]
    <3>1. Reaches(s) /\ s.n <= nchunks /\ s.n \in Nat /\ s.low \in Nat
      BY <2>0, <2>1, <2>t, <1>f, ConstantsAssumption DEF ReadsFresh, ConsumersAgree, Filling, Snapshot
    <3>2. CASE s.n = 0
      BY <3>1, <3>2, <1>p DEF Reaches
    <3>3. CASE s.n # 0
      <4>1. s.n \in 1 .. nchunks
        BY <3>1, <3>3, <1>n
      <4>2. CASE Len(s.counts) = s.n
        BY <4>1, <4>2, <3>1, <3>3, <1>p, <1>u DEF Reaches
      <4>3. CASE Len(s.counts) # s.n
        <5>1. s.low <= Base(s.n) + chunk[s.n].count
          BY <3>1, <3>3, <4>3 DEF Reaches
        <5>2. s.low <= Base(s.n)' + chunk'[s.n].count
          <6> DEFINE b == Base(s.n)
                     x == chunk[s.n].count
                     y == chunk'[s.n].count
          <6>1. b \in Nat /\ x \in Nat /\ y \in Nat /\ x <= y /\ Base(s.n)' = b
            BY <4>1, <1>p, <1>t, <1>u
          <6>2. s.low <= b + x
            BY <5>1
          <6> HIDE DEF b, x, y, s
          <6>3. s.low <= b + y
            BY <6>1, <6>2, <3>1
          <6> QED BY <6>1, <6>3 DEF b, y
        <5> QED BY <3>3, <4>3, <5>2, <1>p DEF Reaches
      <4> QED BY <4>2, <4>3
    <3> QED BY <3>2, <3>3
  <2>2. ASSUME cpc[c] = "size" PROVE Asked(look[c])'
    <3> DEFINE l == look[c]
    <3>1. Asked(l) /\ l.chunk \in 1 .. nchunks /\ l.local \in Nat
      BY <2>0, <2>2, <2>t, <1>f DEF ReadsFresh, ConsumersAgree, Look
    <3>2. /\ chunk'[l.chunk].first_index = chunk[l.chunk].first_index
          /\ chunk[l.chunk].count <= chunk'[l.chunk].count
          /\ chunk[l.chunk].count \in Nat /\ chunk'[l.chunk].count \in Nat
      BY <3>1, <1>t, <1>u
    <3>3. l.index < FirstIndex + l.low => l.local < chunk'[l.chunk].count
      <4> DEFINE x == chunk[l.chunk].count
                 y == chunk'[l.chunk].count
      <4>1. l.index < FirstIndex + l.low => l.local < x
        BY <3>1 DEF Asked
      <4>2. x \in Nat /\ y \in Nat /\ x <= y /\ l.local \in Nat
        BY <3>1, <3>2
      <4> HIDE DEF x, y
      <4>3. l.local < x => l.local < y
        BY <4>2
      <4> QED BY <4>1, <4>3 DEF y
    <3>4. l.index = chunk'[l.chunk].first_index + l.local
      BY <3>1, <3>2 DEF Asked
    <3> QED BY <3>3, <3>4, <1>p DEF Asked
  <2>3. ASSUME Answered(look[c]) PROVE Answered(look[c])'
    <3> DEFINE l == look[c]
    <3>1. CASE l.found
      <4>1. l.chunk \in 1 .. nchunks /\ l.index = chunk[l.chunk].first_index + l.local
            /\ l.local < Len(chunk[l.chunk].items) /\ l.local \in Nat
        BY <2>3, <2>t, <3>1 DEF Answered, Look
      <4>2. l.chunk \in 1 .. nchunks'
        BY <4>1, <1>t
      <4>3. l.index = chunk'[l.chunk].first_index + l.local
        BY <4>1, <1>u
      <4>4. l.local < Len(chunk'[l.chunk].items)
        <5> DEFINE x == Len(chunk[l.chunk].items)
                   y == Len(chunk'[l.chunk].items)
        <5>1. x \in Nat /\ y \in Nat /\ x <= y /\ l.local \in Nat /\ l.local < x
          BY <4>1, <1>t, <1>u
        <5> HIDE DEF x, y
        <5>2. l.local < y
          BY <5>1
        <5> QED BY <5>2 DEF y
      <4> QED BY <3>1, <4>2, <4>3, <4>4, <1>p DEF Answered
    <3>2. CASE ~l.found
      BY <2>3, <3>2, <1>p DEF Answered
    <3> QED BY <3>1, <3>2
  <2> QED BY <2>0, <2>1, <2>2, <2>3, <1>p DEF ReadsFresh
<1> QED BY <1>1 DEF FreshInv

\* A step of consumer c leaves what the others read alone.
LEMMA ConsumerFresh ==
    ASSUME FreshInv, NEW c \in Consumers, UNCHANGED producerVars,
           \A d \in Consumers : d # c => /\ cpc'[d] = cpc[d] /\ cur'[d] = cur[d]
                                        /\ snap'[d] = snap[d] /\ look'[d] = look[d],
           ReadsFresh(c)'
    PROVE  FreshInv'
<1>p. chunk' = chunk /\ nchunks' = nchunks
  BY DEF producerVars
<1>1. ASSUME NEW d \in Consumers PROVE ReadsFresh(d)'
  <2>1. CASE d = c
    BY <2>1
  <2>2. CASE d # c
    <3>1. cpc'[d] = cpc[d] /\ cur'[d] = cur[d] /\ snap'[d] = snap[d] /\ look'[d] = look[d]
      BY <2>2
    <3>2. ReadsFresh(d)
      BY DEF FreshInv
    <3> QED BY <3>1, <3>2, <1>p DEF ReadsFresh, Reaches, Asked, Answered, Base
  <2> QED BY <2>1, <2>2
<1> QED BY <1>1 DEF FreshInv

\* The counts show all of the input but an item that is being appended.
LEMMA PublishedIs ==
    ASSUME IInv
    PROVE  /\ Published = Len(input) - (IF ppc = "publish" THEN 1 ELSE 0)
           /\ Published \in Nat /\ Published <= Len(input)
<1>f. TypeOK /\ TailAgrees /\ ItemsAreInput
  BY DEF IInv
<1>1. Published \in Nat /\ Len(input) \in Nat
  BY <1>f, PublishedType, ChunkFacts
<1>2. Published = Len(input) - (IF ppc = "publish" THEN 1 ELSE 0)
  <2>1. CASE nchunks = 0
    BY <1>f, <2>1 DEF TailAgrees, Published
  <2>2. CASE nchunks # 0
    <3>0. nchunks > 0 /\ nchunks \in 1 .. nchunks
      BY <2>2, <1>f, ChunkFacts
    <3>1. Base(nchunks) \in Nat /\ Len(chunk[nchunks].items) \in Nat
      BY <3>0, <1>f, ChunkFacts, BaseFacts
    <3>2. /\ Len(input) = Base(nchunks) + Len(chunk[nchunks].items)
          /\ chunk[nchunks].count =
                Len(chunk[nchunks].items) - (IF ppc = "publish" THEN 1 ELSE 0)
      BY <1>f, <3>0 DEF TailAgrees
    <3>3. Published = Base(nchunks) + chunk[nchunks].count
      BY <2>2 DEF Published
    <3> DEFINE b == Base(nchunks)
               l == Len(chunk[nchunks].items)
               x == chunk[nchunks].count
    <3> HIDE DEF b, l, x
    <3>4. /\ b \in Nat /\ l \in Nat /\ Len(input) = b + l /\ Published = b + x
          /\ x = l - (IF ppc = "publish" THEN 1 ELSE 0)
      BY <3>1, <3>2, <3>3 DEF b, l, x
    <3>5. CASE ppc = "publish"
      BY <3>4, <3>5
    <3>6. CASE ppc # "publish"
      BY <3>4, <3>6
    <3> QED BY <3>5, <3>6
  <2> QED BY <2>1, <2>2
<1>3. Published <= Len(input)
  <2> DEFINE x == Published
             y == Len(input)
  <2>1. x = y \/ x = y - 1
    BY <1>1, <1>2
  <2> HIDE DEF x, y
  <2>2. x \in Nat /\ y \in Nat => x <= y
    BY <2>1
  <2> QED BY <1>1, <2>2 DEF x, y
<1> QED BY <1>1, <1>2, <1>3

\* The chunks are copied: the tail's count is what was published.
LEMMA SnapshotCopyFresh ==
    ASSUME IInv, FreshInv, NEW c \in Consumers, SnapshotCopy(c), UNCHANGED producerVars
    PROVE  FreshInv'
<1>f. TypeOK
  BY DEF IInv
<1>u. nchunks' = nchunks /\ chunk' = chunk
  BY DEF producerVars
<1>1. /\ cpc'[c] = "counts" /\ snap' = snap /\ look' = look
      /\ cur'[c] = [n |-> nchunks, counts |-> <<>>, count |-> 0, finished |-> FALSE, low |-> Published]
      /\ \A d \in Consumers : d # c => cpc'[d] = cpc[d] /\ cur'[d] = cur[d]
  BY <1>f DEF SnapshotCopy, TypeOK
<1>2. Published \in Nat /\ nchunks \in Nat
  BY PublishedIs, <1>f, ChunkFacts
<1>3. Reaches(cur[c])'
  <2>1. cur'[c].n = nchunks /\ cur'[c].low = Published /\ Len(cur'[c].counts) = 0
    BY <1>1
  <2>2. CASE nchunks = 0
    BY <2>1, <2>2 DEF Reaches, Published
  <2>3. CASE nchunks # 0
    <3>1. Published = Base(nchunks) + chunk[nchunks].count
      BY <2>3 DEF Published
    <3>2. Published <= Base(nchunks)' + chunk'[nchunks].count
      BY <3>1, <1>2, <1>u DEF Base
    <3> QED BY <2>1, <2>3, <3>2, <1>2, <1>u DEF Reaches, Base
  <2> QED BY <2>2, <2>3
<1>4. cpc[c] # "size"
  BY DEF SnapshotCopy
<1>5. ReadsFresh(c)
  BY DEF FreshInv
<1>6. ReadsFresh(c)'
  BY <1>1, <1>3, <1>4, <1>5, <1>u DEF ReadsFresh, Answered
<1> QED BY <1>1, <1>6, ConsumerFresh

\* A count is read: that of the last chunk is no less than it was.
LEMMA SnapshotCountFresh ==
    ASSUME IInv, FreshInv, NEW c \in Consumers, SnapshotCount(c), UNCHANGED producerVars
    PROVE  FreshInv'
<1> DEFINE s == cur[c]
           m == Len(s.counts)
           x == chunk[m + 1].count
<1>f. TypeOK
  BY DEF IInv
<1>u. nchunks' = nchunks /\ chunk' = chunk
  BY DEF producerVars
<1>1. /\ cpc[c] = "counts" /\ cpc' = cpc /\ snap' = snap /\ look' = look
      /\ m + 1 <= s.n
      /\ cur'[c] = WithCount(s, x)
      /\ \A d \in Consumers : d # c => cur'[d] = cur[d]
  BY <1>f DEF SnapshotCount, TypeOK
<1>2. s.counts \in Seq(Nat) /\ m \in Nat /\ s.n \in Nat
  BY <1>f DEF TypeOK, Snapshot
<1>3. /\ cur'[c].n = s.n /\ cur'[c].low = s.low
      /\ cur'[c].counts = Append(s.counts, x)
  BY <1>1 DEF WithCount
<1>4. Len(cur'[c].counts) = m + 1 /\ cur'[c].counts[m + 1] = x
  BY <1>2, <1>3
<1>5. ReadsFresh(c)
  BY DEF FreshInv
<1>6. Reaches(cur[c])'
  <2> DEFINE n == s.n
  <2>1. n # 0 /\ m # n
    BY <1>1, <1>2
  <2>2. s.low <= Base(n) + chunk[n].count
    BY <1>1, <1>5, <2>1 DEF ReadsFresh, Reaches
  <2>3. cur'[c].n = n /\ cur'[c].low = s.low /\ chunk'[n].count = chunk[n].count
    BY <1>3, <1>u
  <2>b. \A k : Base(k)' = chunk[k].first_index - FirstIndex
    BY <1>u DEF Base
  <2>4. CASE m + 1 = n
    <3>1. cur'[c].counts[cur'[c].n] = chunk[n].count /\ Len(cur'[c].counts) = cur'[c].n
      BY <1>4, <2>3, <2>4
    <3>2. cur'[c].low <= chunk[cur'[c].n].first_index - FirstIndex + cur'[c].counts[cur'[c].n]
      BY <2>2, <2>3, <3>1 DEF Base
    <3> QED BY <2>1, <2>3, <3>1, <3>2, <1>u DEF Reaches, Base
  <2>5. CASE m + 1 # n
    <3>1. Len(cur'[c].counts) # cur'[c].n
      BY <1>4, <2>3, <2>5
    <3>2. cur'[c].low <= chunk[cur'[c].n].first_index - FirstIndex + chunk[cur'[c].n].count
      BY <2>2, <2>3 DEF Base
    <3> QED BY <2>1, <2>3, <3>1, <3>2, <1>u DEF Reaches, Base
  <2> QED BY <2>4, <2>5
<1>7. ReadsFresh(c)'
  BY <1>1, <1>5, <1>6, <1>u DEF ReadsFresh, Answered
<1> QED BY <1>1, <1>7, ConsumerFresh

\* The snapshot is returned: its total is where its last chunk ends.
LEMMA SnapshotFinishedFresh ==
    ASSUME IInv, FreshInv, NEW c \in Consumers, SnapshotFinished(c), UNCHANGED producerVars
    PROVE  FreshInv' /\ cur[c].low <= cur[c].count
<1> DEFINE s == cur[c]
<1>f. TypeOK /\ ConsumersAgree
  BY DEF IInv
<1>u. nchunks' = nchunks /\ chunk' = chunk
  BY DEF producerVars
<1>1. /\ cpc[c] = "counts" /\ cpc'[c] = "idle" /\ cur' = cur /\ look' = look
      /\ Len(s.counts) = s.n
      /\ snap'[c] = [s EXCEPT !.finished = finished]
      /\ \A d \in Consumers : d # c => cpc'[d] = cpc[d] /\ snap'[d] = snap[d]
  BY <1>f DEF SnapshotFinished, TypeOK
<1>2. s \in Snapshot
  BY <1>f DEF TypeOK
<1>3. snap'[c].low = s.low /\ snap'[c].count = s.count
  BY <1>1, <1>2 DEF Snapshot
<1>4. Reaches(s) /\ Filling(s) /\ ReadsFresh(c)
  BY <1>f, <1>1 DEF FreshInv, ReadsFresh, ConsumersAgree
<1>5. s.low <= s.count
  <2>1. s.low \in Nat /\ s.count \in Nat
    BY <1>2 DEF Snapshot
  <2>2. CASE s.n = 0
    BY <2>1, <2>2, <1>4 DEF Reaches
  <2>3. CASE s.n # 0
    <3>1. s.low <= Base(s.n) + s.counts[s.n]
      BY <2>3, <1>1, <1>4 DEF Reaches
    <3>2. s.count = Base(s.n) + s.counts[s.n]
      BY <2>3, <1>1, <1>4 DEF Filling
    <3> QED BY <3>1, <3>2
  <2> QED BY <2>2, <2>3
<1>6. ReadsFresh(c)'
  BY <1>1, <1>3, <1>4, <1>5, <1>u DEF ReadsFresh, Answered
<1> QED BY <1>1, <1>5, <1>6, ConsumerFresh

\* item_at() finds the chunk of the ordinal: a published one is in it, because
\* the chunks below the tail are full and the next one begins after it.
LEMMA ItemAtFindFresh ==
    ASSUME IInv, FreshInv, NEW c \in Consumers, NEW index \in Nat, ItemAtFind(c, index),
           UNCHANGED producerVars
    PROVE  FreshInv'
<1> DEFINE any == \E k \in 1 .. nchunks : chunk[k].first_index <= index
           n == nchunks
<1>f. TypeOK /\ ChunksFollow /\ ItemsAreInput
  BY DEF IInv
<1>u. nchunks' = nchunks /\ chunk' = chunk
  BY DEF producerVars
<1>p. cpc[c] = "idle" /\ cur' = cur /\ snap' = snap
  BY DEF ItemAtFind
<1>o. \A d \in Consumers : d # c => cpc'[d] = cpc[d] /\ look'[d] = look[d]
  BY <1>f DEF ItemAtFind, TypeOK
<1>n. n \in Nat /\ FirstIndex \in Nat /\ Published \in Nat
  BY PublishedIs, <1>f, ChunkFacts, ConstantsAssumption
<1>t. \A k \in 1 .. n : /\ chunk[k].first_index \in Nat /\ chunk[k].count \in Nat
                        /\ Len(chunk[k].items) \in Nat /\ k \in Nat
  BY <1>f, ChunkFacts
<1>r. ReadsFresh(c)
  BY DEF FreshInv
<1>1. CASE index < FirstIndex \/ ~any
  <2>1. cpc' = cpc /\ look'[c] = NoCall(index)
    BY <1>1, <1>f DEF ItemAtFind, TypeOK
  <2>2. ~(FirstIndex <= index /\ index < FirstIndex + Published)
    <3>1. CASE n = 0
      <4>1. Published = 0
        BY <3>1 DEF Published
      <4> QED BY <4>1, <1>n
    <3>2. CASE n # 0
      <4>1. 1 \in 1 .. n /\ chunk[1].first_index = FirstIndex
        BY <3>2, <1>n, <1>f DEF ChunksFollow
      <4> QED BY <4>1, <1>1, <1>n
    <3> QED BY <3>1, <3>2
  <2>3. Answered(look[c])'
    BY <2>1, <2>2 DEF Answered, NoCall
  <2>4. ReadsFresh(c)'
    BY <1>p, <1>r, <2>1, <2>3 DEF ReadsFresh
  <2> QED BY <1>o, <1>p, <2>4, ConsumerFresh
<1>2. CASE ~(index < FirstIndex \/ ~any)
  <2> DEFINE k == ChunkOf(index)
             l == HitCall(index)
  <2>1. cpc'[c] = "size" /\ look'[c] = l
    BY <1>2, <1>f DEF ItemAtFind, TypeOK
  <2>2. /\ k \in 1 .. n /\ chunk[k].first_index <= index
        /\ \A j \in 1 .. n : chunk[j].first_index <= index => j <= k
    BY <1>2, <1>f, ChunkOfFound
  <2>3. /\ l.index = index /\ l.chunk = k /\ l.local = index - chunk[k].first_index
        /\ l.low = Published
    BY DEF HitCall
  <2> HIDE DEF k, l
  <2>4. l.index = chunk[l.chunk].first_index + l.local
    BY <2>2, <2>3, <1>t
  <2>5. ASSUME index < FirstIndex + Published PROVE index - chunk[k].first_index < chunk[k].count
    <3>1. n # 0 /\ n \in 1 .. n
      BY <2>2, <1>n
    <3>2. CASE k = n
      <4>1. Published = chunk[n].first_index - FirstIndex + chunk[n].count
        BY <3>1 DEF Published, Base
      <4>2. chunk[n].first_index \in Nat /\ chunk[n].count \in Nat
        BY <3>1, <1>t
      <4>3. FirstIndex + Published = chunk[n].first_index + chunk[n].count
        <5> DEFINE a == chunk[n].first_index
                   x == chunk[n].count
        <5>1. a \in Nat /\ x \in Nat /\ Published = a - FirstIndex + x
          BY <4>1, <4>2
        <5> HIDE DEF a, x
        <5>2. FirstIndex + Published = a + x
          BY <5>1, <1>n
        <5> QED BY <5>2 DEF a, x
      <4> QED BY <2>5, <3>2, <4>2, <4>3
    <3>3. CASE k # n
      <4>1. k < n /\ k + 1 \in 1 .. n
        BY <2>2, <3>3, <1>n
      <4>2. /\ chunk[k + 1].first_index = chunk[k].first_index + Len(chunk[k].items)
            /\ chunk[k].count = Len(chunk[k].items)
        BY <4>1, <2>2, <1>f DEF ChunksFollow
      <4>3. ~(chunk[k + 1].first_index <= index)
        <5>1. chunk[k + 1].first_index <= index => k + 1 <= k
          BY <2>2, <4>1
        <5> QED BY <5>1, <2>2, <1>n
      <4>4. chunk[k].first_index \in Nat /\ chunk[k].count \in Nat
        BY <2>2, <1>t
      <4> QED BY <4>2, <4>3, <4>4
    <3> QED BY <3>2, <3>3
  <2>6. Asked(look[c])'
    <3>1. look'[c].index = chunk'[look'[c].chunk].first_index + look'[c].local
      BY <2>1, <2>4, <1>u
    <3>2. look'[c].index < FirstIndex + look'[c].low
             => look'[c].local < chunk'[look'[c].chunk].count
      BY <2>1, <2>3, <2>5, <1>u
    <3> QED BY <3>1, <3>2 DEF Asked
  <2>7. ReadsFresh(c)'
    BY <1>p, <1>r, <2>1, <2>6 DEF ReadsFresh
  <2> QED BY <1>o, <1>p, <2>7, ConsumerFresh
<1> QED BY <1>1, <1>2

\* item_at() compares with the chunk's count, read after mu_ was released.
LEMMA ItemAtSizeFresh ==
    ASSUME IInv, FreshInv, NEW c \in Consumers, ItemAtSize(c), UNCHANGED producerVars
    PROVE  FreshInv'
<1> DEFINE l == look[c]
           b == l.local < chunk[l.chunk].count
<1>f. TypeOK /\ ConsumersAgree
  BY DEF IInv
<1>u. nchunks' = nchunks /\ chunk' = chunk
  BY DEF producerVars
<1>1. /\ cpc[c] = "size" /\ cpc'[c] = "idle" /\ cur' = cur /\ snap' = snap
      /\ look'[c] = [l EXCEPT !.found = b]
      /\ \A d \in Consumers : d # c => cpc'[d] = cpc[d] /\ look'[d] = look[d]
  BY <1>f DEF ItemAtSize, TypeOK
<1>2. l \in Look
  BY <1>f DEF TypeOK
<1>3. /\ look'[c].index = l.index /\ look'[c].chunk = l.chunk /\ look'[c].local = l.local
      /\ look'[c].low = l.low /\ look'[c].found = b
  BY <1>1, <1>2 DEF Look
<1>4. ReadsFresh(c)
  BY DEF FreshInv
<1>5. Asked(l) /\ l.chunk \in 1 .. nchunks
  BY <1>1, <1>4, <1>f DEF ReadsFresh, ConsumersAgree
<1>6. Answered(look[c])'
  <2>1. CASE b
    <3>1. l.local < Len(chunk[l.chunk].items)
      <4> DEFINE x == chunk[l.chunk].count
                 y == Len(chunk[l.chunk].items)
      <4>1. x \in Nat /\ y \in Nat /\ x <= y /\ l.local \in Nat /\ l.local < x
        BY <2>1, <1>2, <1>5, <1>f, ChunkFacts, CountFits DEF Look
      <4> HIDE DEF x, y, l
      <4>2. l.local < y
        BY <4>1
      <4> QED BY <4>2 DEF y
    <3> QED BY <2>1, <3>1, <1>3, <1>5, <1>u DEF Answered, Asked
  <2>2. CASE ~b
    BY <2>2, <1>3, <1>5 DEF Answered, Asked
  <2> QED BY <2>1, <2>2
<1>7. ReadsFresh(c)'
  BY <1>1, <1>4, <1>6 DEF ReadsFresh
<1> QED BY <1>1, <1>7, ConsumerFresh

\* Every step keeps what reads in progress may count on.
LEMMA NextFresh == IInv /\ IInv' /\ FreshInv /\ [Next]_vars => FreshInv'
<1> SUFFICES ASSUME IInv, IInv', FreshInv, [Next]_vars PROVE FreshInv'
  OBVIOUS
<1>1. CASE Producer
  <2>1. UNCHANGED consumerVars
    BY <1>1 DEF Producer
  <2>2. Advances
    BY <1>1, ProducerAdvances
  <2>3. TypeOK'
    BY DEF IInv
  <2> QED BY <2>1, <2>2, <2>3, FreshKept
<1>2. ASSUME NEW c \in Consumers, Consumer(c) PROVE FreshInv'
  <2>0. UNCHANGED producerVars
    BY <1>2 DEF Consumer
  <2>1. CASE SnapshotCopy(c)
    BY <2>0, <2>1, SnapshotCopyFresh
  <2>2. CASE SnapshotCount(c)
    BY <2>0, <2>2, SnapshotCountFresh
  <2>3. CASE SnapshotFinished(c)
    BY <2>0, <2>3, SnapshotFinishedFresh
  <2>4. ASSUME NEW index \in 0 .. FirstIndex + MaxItems, ItemAtFind(c, index) PROVE FreshInv'
    <3>1. index \in Nat
      BY ConstantsAssumption
    <3> QED BY <2>0, <2>4, <3>1, ItemAtFindFresh
  <2>5. CASE ItemAtSize(c)
    BY <2>0, <2>5, ItemAtSizeFresh
  <2> QED BY <1>2, <2>1, <2>2, <2>3, <2>4, <2>5 DEF Consumer
<1>3. CASE UNCHANGED vars
  BY <1>3 DEF vars, FreshInv, ReadsFresh, Reaches, Asked, Answered, Base
<1> QED BY <1>1, <1>2, <1>3 DEF Next

LEMMA FreshInductive == Spec => []FreshInv
<1>1. Init => FreshInv
  BY DEF Init, FreshInv, ReadsFresh, EmptySnapshot, NoLook
<1> QED BY <1>1, Inductive, NextFresh, PTL DEF Spec

\* A reader of the store misses nothing that was published when it called, and
\* item_at() returns the item of the ordinal it was asked for, although the
\* counts are read after mu_ was released and the producer goes on meanwhile.
THEOREM Seen == Spec => []PublishedIsSeen
<1>1. IInv /\ FreshInv => PublishedIsSeen
  <2> SUFFICES ASSUME IInv, FreshInv, NEW c \in Consumers
               PROVE  /\ snap[c].low <= snap[c].count
                      /\ (cpc[c] = "idle" /\ look[c] # NoLook) =>
                            IF look[c].found
                              THEN /\ look[c].local < Len(chunk[look[c].chunk].items)
                                   /\ chunk[look[c].chunk].items[look[c].local + 1].index = look[c].index
                              ELSE ~(FirstIndex <= look[c].index /\ look[c].index < FirstIndex + look[c].low)
    BY DEF PublishedIsSeen, SnapshotIsFresh, ItemAtCorrect
  <2>1. ReadsFresh(c) /\ TypeOK /\ ItemsAreInput
    BY DEF FreshInv, IInv
  <2>2. ASSUME Answered(look[c]), look[c].found
        PROVE  chunk[look[c].chunk].items[look[c].local + 1].index = look[c].index
    <3> DEFINE l == look[c]
               i == l.local + 1
    <3>1. /\ l.chunk \in 1 .. nchunks /\ l.index = chunk[l.chunk].first_index + l.local
          /\ l.local < Len(chunk[l.chunk].items)
      BY <2>2 DEF Answered
    <3>2. l.local \in Nat /\ Len(chunk[l.chunk].items) \in Nat
      BY <2>1, <3>1, ChunkFacts DEF TypeOK, Look
    <3>3. i \in 1 .. Len(chunk[l.chunk].items) /\ i - 1 = l.local
      <4> HIDE DEF l
      <4> QED BY <3>1, <3>2
    <3>4. chunk[l.chunk].items[i].index = chunk[l.chunk].first_index + (i - 1)
      BY <2>1, <3>1, <3>3 DEF ItemsAreInput
    <3> QED BY <3>1, <3>3, <3>4
  <2> QED BY <2>1, <2>2 DEF ReadsFresh, Answered
<1> QED BY <1>1, Inductive, FreshInductive, PTL

-----------------------------------------------------------------------------
(* The store implements the log. *)

\* G satisfies the recursion of FlattenSeq.
Joins(G, seqs, n) ==
    /\ G = [i \in 1 .. n |-> G[i]]
    /\ \A i \in 1 .. n : G[i] = IF i = 1 THEN seqs[1] ELSE G[i - 1] \o seqs[i]

\* What FlattenSeq computes: the library defines it by a recursive function, and
\* a function that satisfies its recursion is equal to it by induction.
LEMMA FlattenIs ==
    ASSUME NEW n \in Nat \ {0}, NEW seqs, Len(seqs) = n, NEW G, Joins(G, seqs, n)
    PROVE  FlattenSeq(seqs) = G[n]
<1> DEFINE Step(h) == [i \in 1 .. n |-> IF i = 1 THEN seqs[i] ELSE h[i - 1] \o seqs[i]]
           f == CHOOSE h : h = Step(h)
           D == {i \in 1 .. n : f[i] # G[i]}
<1>1. FlattenSeq(seqs) = f[n]
  BY DEF FlattenSeq
<1>2. G = Step(G)
  BY DEF Joins
<1>3. f = Step(f)
  BY <1>2
<1> HIDE DEF f
<1>4. D = {}
  <2> SUFFICES ASSUME D # {} PROVE FALSE
    OBVIOUS
  <2>1. D \subseteq Nat
    OBVIOUS
  <2>2. PICK m \in D : \A k \in D : m <= k
    BY <2>1, NatLeast
  <2>3. m \in 1 .. n /\ f[m] # G[m]
    OBVIOUS
  <2>4. CASE m = 1
    BY <2>3, <2>4, <1>2, <1>3
  <2>5. CASE m # 1
    <3>1. m - 1 \in 1 .. n /\ ~(m <= m - 1)
      BY <2>3, <2>5
    <3>2. f[m - 1] = G[m - 1]
      BY <2>2, <3>1
    <3>3. f[m] = f[m - 1] \o seqs[m] /\ G[m] = G[m - 1] \o seqs[m]
      BY <2>3, <2>5, <1>2, <1>3
    <3> QED BY <2>3, <3>2, <3>3
  <2> QED BY <2>4, <2>5
<1>5. f[n] = G[n]
  <2>1. n \in 1 .. n
    OBVIOUS
  <2>2. n \notin D
    BY <1>4
  <2> QED BY <2>1, <2>2
<1> QED BY <1>1, <1>5

\* A prefix, and what follows it.
LEMMA PrefixThen ==
    ASSUME NEW S, NEW s \in Seq(S), NEW a \in Nat, NEW b \in Nat, a + b <= Len(s)
    PROVE  /\ [j \in 1 .. b |-> s[a + j]] = SubSeq(s, a + 1, a + b)
           /\ SubSeq(s, 1, a) \o SubSeq(s, a + 1, a + b) = SubSeq(s, 1, a + b)
           /\ SubSeq(s, 1, a) \in Seq(S)
<1> DEFINE t == [j \in 1 .. b |-> s[a + j]]
           u == SubSeq(s, a + 1, a + b)
<1>0. Len(s) \in Nat
  OBVIOUS
<1>1. \A i \in 1 .. Len(s) : s[i] \in S
  OBVIOUS
<1>2. t \in Seq(S) /\ Len(t) = b
  <2>1. \A j \in 1 .. b : s[a + j] \in S
    BY <1>0, <1>1
  <2> QED BY <2>1
<1>3. u \in Seq(S) /\ Len(u) = b /\ \A j \in 1 .. b : u[j] = s[a + j]
  <2>1. a + 1 \in Int /\ a + b \in Int /\ \A i \in a + 1 .. a + b : s[i] \in S
    BY <1>0, <1>1
  <2>2. /\ u \in Seq(S)
        /\ Len(u) = IF a + 1 <= a + b THEN a + b - (a + 1) + 1 ELSE 0
        /\ \A i \in 1 .. a + b - (a + 1) + 1 : u[i] = s[a + 1 + i - 1]
    BY <2>1, SubSeqProperties
  <2>3. a + b - (a + 1) + 1 = b /\ (~(a + 1 <= a + b) => b = 0)
    OBVIOUS
  <2>4. \A j \in 1 .. b : a + 1 + j - 1 = a + j
    OBVIOUS
  <2> QED BY <2>2, <2>3, <2>4
<1>4. t = u
  <2>1. \A i \in 1 .. b : t[i] = u[i]
    BY <1>3
  <2> HIDE DEF t, u
  <2> QED BY <1>2, <1>3, <2>1, SeqEqual
<1>5. SubSeq(s, 1, a) \o u = SubSeq(s, 1, a + b)
  <2>1. 1 \in 1 .. Len(s) + 1 /\ a \in 1 - 1 .. Len(s) /\ a + b \in a .. Len(s)
    BY <1>0
  <2> QED BY <2>1, ConcatAdjacentSubSeq
<1>6. SubSeq(s, 1, a) \in Seq(S)
  <2>1. \A i \in 1 .. a : s[i] \in S
    BY <1>0, <1>1
  <2> QED BY <2>1, SubSeqProperties
<1> QED BY <1>4, <1>5, <1>6

\* The elements of a prefix.
LEMMA PrefixElements ==
    ASSUME NEW S, NEW s \in Seq(S), NEW a \in Nat, a <= Len(s)
    PROVE  /\ SubSeq(s, 1, a) \in Seq(S)
           /\ Len(SubSeq(s, 1, a)) = a
           /\ \A i \in 1 .. a : SubSeq(s, 1, a)[i] = s[i]
<1>1. Len(s) \in Nat /\ \A i \in 1 .. a : s[i] \in S
  OBVIOUS
<1>2. \A i : i \in 1 .. a - 1 + 1 <=> i \in 1 .. a
  OBVIOUS
<1>3. (IF 1 <= a THEN a - 1 + 1 ELSE 0) = a
  OBVIOUS
<1>4. \A i \in 1 .. a : 1 + i - 1 = i
  OBVIOUS
<1>5. /\ SubSeq(s, 1, a) \in Seq(S)
      /\ Len(SubSeq(s, 1, a)) = IF 1 <= a THEN a - 1 + 1 ELSE 0
      /\ \A i \in 1 .. a - 1 + 1 : SubSeq(s, 1, a)[i] = s[1 + i - 1]
  BY <1>1, SubSeqProperties
<1> QED BY <1>2, <1>3, <1>4, <1>5

\* A prefix stays the same when the sequence grows.
LEMMA PrefixKept ==
    ASSUME NEW S, NEW s \in Seq(S), NEW e \in S, NEW a \in Nat, a <= Len(s)
    PROVE  /\ SubSeq(Append(s, e), 1, a) = SubSeq(s, 1, a)
           /\ SubSeq(Append(s, e), 1, Len(s) + 1) = Append(s, e)
           /\ a < Len(s) => SubSeq(s, 1, a + 1) = Append(SubSeq(s, 1, a), s[a + 1])
<1> DEFINE t == Append(s, e)
<1>0. /\ Len(s) \in Nat /\ \A i \in 1 .. Len(s) : s[i] \in S
      /\ t \in Seq(S) /\ Len(t) = Len(s) + 1 /\ \A i \in 1 .. Len(s) : t[i] = s[i]
      /\ \A i \in 1 .. Len(t) : t[i] \in S
  OBVIOUS
<1>1. SubSeq(t, 1, a) = SubSeq(s, 1, a)
  <2>1. a <= Len(t) /\ \A i \in 1 .. a : t[i] = s[i]
    BY <1>0
  <2> HIDE DEF t
  <2>2. \A i \in 1 .. a : SubSeq(t, 1, a)[i] = SubSeq(s, 1, a)[i]
    BY <2>1, <1>0, PrefixElements
  <2> QED BY <2>1, <2>2, <1>0, PrefixElements, SeqEqual
<1>2. SubSeq(t, 1, Len(s) + 1) = t
  <2> HIDE DEF t
  <2> QED BY <1>0, SubSeqFull
<1>3. ASSUME a < Len(s) PROVE SubSeq(s, 1, a + 1) = Append(SubSeq(s, 1, a), s[a + 1])
  <2>1. 1 \in 1 .. Len(s) /\ a + 1 \in 1 .. Len(s) /\ s[a + 1] \in S /\ a + 1 - 1 = a
    BY <1>0, <1>3
  <2>2. SubSeq(s, 1, a + 1) = SubSeq(s, 1, a + 1 - 1) \o << s[a + 1] >>
    BY <2>1, SubSeqRecursiveSecond
  <2>3. SubSeq(s, 1, a) \in Seq(S)
    BY <1>0, <1>3, SubSeqProperties
  <2> QED BY <2>1, <2>2, <2>3, AppendIsConcat
<1> QED BY <1>1, <1>2, <1>3

\* A prefix of a prefix.
LEMMA PrefixOfPrefix ==
    ASSUME NEW S, NEW s \in Seq(S), NEW p \in Nat, NEW q \in Nat, q <= p, p <= Len(s)
    PROVE  SubSeq(SubSeq(s, 1, p), 1, q) = SubSeq(s, 1, q)
<1> DEFINE t == SubSeq(s, 1, p)
<1>0. Len(s) \in Nat /\ \A i \in 1 .. Len(s) : s[i] \in S
  OBVIOUS
<1>1. t \in Seq(S) /\ Len(t) = p /\ \A i \in 1 .. p : t[i] = s[i]
  BY <1>0, PrefixElements
<1>2. /\ SubSeq(s, 1, q) \in Seq(S) /\ Len(SubSeq(s, 1, q)) = q
      /\ \A i \in 1 .. q : SubSeq(s, 1, q)[i] = s[i]
  BY <1>0, PrefixElements
<1> HIDE DEF t
<1>3. /\ SubSeq(t, 1, q) \in Seq(S) /\ Len(SubSeq(t, 1, q)) = q
      /\ \A i \in 1 .. q : SubSeq(t, 1, q)[i] = t[i]
  BY <1>1, PrefixElements
<1>4. \A i \in 1 .. q : SubSeq(t, 1, q)[i] = SubSeq(s, 1, q)[i]
  BY <1>1, <1>2, <1>3
<1> QED BY <1>2, <1>3, <1>4, SeqEqual DEF t

\* The records of a snapshot, chunk after chunk, are a prefix of the input: its
\* chunks below the last one are complete.
LEMMA ContentsIs ==
    ASSUME IInv, NEW s \in Snapshot, Filling(s), Len(s.counts) = s.n
    PROVE  Contents(s) = SubSeq(input, 1, s.count)
<1> DEFINE n == s.n
           E(k) == Base(k) + s.counts[k]
           seqs == [k \in 1 .. n |-> [j \in 1 .. s.counts[k] |-> chunk[k].items[j].spec]]
           G == [k \in 1 .. n |-> SubSeq(input, 1, E(k))]
<1>f. TypeOK /\ ChunksFollow /\ ItemsAreInput
  BY DEF IInv
<1>1. n \in Nat /\ nchunks \in Nat /\ n <= nchunks /\ input \in Seq(Specs) /\ Len(input) \in Nat
  BY <1>f, ConstantsAssumption DEF TypeOK, Snapshot, Filling
<1>2. \A k \in 1 .. n :
         /\ k \in 1 .. nchunks /\ s.counts[k] \in Nat /\ s.counts[k] <= Len(chunk[k].items)
         /\ k < n => s.counts[k] = Len(chunk[k].items)
  BY <1>1 DEF Filling, Snapshot
<1>3. \A k \in 1 .. n : /\ Base(k) \in Nat /\ Len(chunk[k].items) \in Nat
                        /\ Base(k) + Len(chunk[k].items) <= Len(input)
  BY <1>f, <1>2, BaseFacts, ChunkFacts DEF ItemsAreInput
<1>4. \A k \in 1 .. n : Base(k) + s.counts[k] <= Len(input)
  <2> SUFFICES ASSUME NEW k \in 1 .. n PROVE Base(k) + s.counts[k] <= Len(input)
    OBVIOUS
  <2> DEFINE b == Base(k)
             x == s.counts[k]
             l == Len(chunk[k].items)
  <2>1. b \in Nat /\ x \in Nat /\ l \in Nat /\ x <= l /\ b + l <= Len(input)
    BY <1>2, <1>3
  <2> HIDE DEF b, x, l
  <2>2. b + x <= Len(input)
    BY <2>1, <1>1
  <2> QED BY <2>2 DEF b, x
<1>5. \A k \in 1 .. n : /\ E(k) \in Nat
                        /\ seqs[k] = SubSeq(input, Base(k) + 1, E(k))
                        /\ SubSeq(input, 1, Base(k)) \o seqs[k] = SubSeq(input, 1, E(k))
  <2> SUFFICES ASSUME NEW k \in 1 .. n
               PROVE  /\ E(k) \in Nat
                      /\ seqs[k] = SubSeq(input, Base(k) + 1, E(k))
                      /\ SubSeq(input, 1, Base(k)) \o seqs[k] = SubSeq(input, 1, E(k))
    OBVIOUS
  <2>1. \A j \in 1 .. s.counts[k] : chunk[k].items[j].spec = input[Base(k) + j]
    <3>1. \A j \in 1 .. s.counts[k] : j \in 1 .. Len(chunk[k].items)
      BY <1>2, <1>3
    <3> QED BY <3>1, <1>2, <1>f DEF ItemsAreInput
  <2>2. seqs[k] = [j \in 1 .. s.counts[k] |-> input[Base(k) + j]]
    BY <2>1
  <2>3. Base(k) \in Nat /\ s.counts[k] \in Nat /\ Base(k) + s.counts[k] <= Len(input)
    BY <1>2, <1>3, <1>4
  <2>4. /\ [j \in 1 .. s.counts[k] |-> input[Base(k) + j]]
               = SubSeq(input, Base(k) + 1, Base(k) + s.counts[k])
        /\ SubSeq(input, 1, Base(k)) \o SubSeq(input, Base(k) + 1, Base(k) + s.counts[k])
               = SubSeq(input, 1, Base(k) + s.counts[k])
    <3> DEFINE a == Base(k)
               b == s.counts[k]
    <3>1. a \in Nat /\ b \in Nat /\ a + b <= Len(input) /\ input \in Seq(Specs)
      BY <2>3, <1>1
    <3> HIDE DEF a, b
    <3>2. /\ [j \in 1 .. b |-> input[a + j]] = SubSeq(input, a + 1, a + b)
          /\ SubSeq(input, 1, a) \o SubSeq(input, a + 1, a + b) = SubSeq(input, 1, a + b)
      BY <3>1, PrefixThen
    <3> QED BY <3>2 DEF a, b
  <2>5. E(k) \in Nat
    BY <2>3
  <2> HIDE DEF seqs
  <2> QED BY <2>2, <2>4, <2>5
<1>6. CASE n = 0
  <2>1. Contents(s) = <<>>
    <3>1. seqs = <<>> /\ Len(seqs) = 0
      BY <1>6
    <3>2. Contents(s) = FlattenSeq(seqs)
      BY DEF Contents
    <3> HIDE DEF seqs
    <3> QED BY <3>1, <3>2 DEF FlattenSeq
  <2>2. s.count = 0
    BY <1>6 DEF Filling
  <2> QED BY <2>1, <2>2, SubSeqEmpty
<1>7. CASE n # 0
  <2>0. n \in Nat \ {0} /\ n \in 1 .. n /\ 1 \in 1 .. n
    BY <1>1, <1>7
  <2>1. Len(seqs) = n
    BY <1>1
  <2>2. ASSUME NEW k \in 1 .. n
        PROVE  G[k] = IF k = 1 THEN seqs[1] ELSE G[k - 1] \o seqs[k]
    <3>1. CASE k = 1
      <4>1. Base(1) = 0
        <5>1. chunk[1].first_index = FirstIndex
          BY <2>0, <1>1, <1>f DEF ChunksFollow
        <5> QED BY <5>1, ConstantsAssumption DEF Base
      <4>2. seqs[1] = SubSeq(input, Base(1) + 1, E(1))
        BY <1>5, <2>0
      <4>3. Base(1) + 1 = 1
        BY <4>1
      <4> HIDE DEF seqs
      <4> QED BY <3>1, <4>2, <4>3, <2>0
    <3>2. CASE k # 1
      <4>1. k - 1 \in 1 .. n /\ k - 1 < n /\ (k - 1) + 1 = k
        BY <3>2, <1>1
      <4>2. E(k - 1) = Base(k)
        <5>1. Base((k - 1) + 1) = Base(k - 1) + Len(chunk[k - 1].items)
          BY <4>1, <1>1, <1>2, <1>f, BaseFollows
        <5>2. s.counts[k - 1] = Len(chunk[k - 1].items)
          BY <4>1, <1>2
        <5> QED BY <4>1, <5>1, <5>2
      <4>3. G[k - 1] = SubSeq(input, 1, Base(k))
        BY <4>1, <4>2
      <4>4. SubSeq(input, 1, Base(k)) \o seqs[k] = SubSeq(input, 1, E(k))
        BY <1>5
      <4>5. G[k] = SubSeq(input, 1, E(k))
        OBVIOUS
      <4> HIDE DEF seqs, G, E
      <4> QED BY <3>2, <4>3, <4>4, <4>5
    <3> QED BY <3>1, <3>2
  <2>3. G = [k \in 1 .. n |-> G[k]]
    OBVIOUS
  <2>4. FlattenSeq(seqs) = G[n]
    <3> HIDE DEF G, seqs, n
    <3>1. Joins(G, seqs, n)
      BY <2>2, <2>3 DEF Joins
    <3> QED BY <2>0, <2>1, <3>1, FlattenIs
  <2>5. s.count = E(n)
    BY <1>7 DEF Filling
  <2>6. G[n] = SubSeq(input, 1, E(n))
    BY <2>0
  <2>7. Contents(s) = FlattenSeq(seqs)
    BY DEF Contents
  <2> HIDE DEF G, seqs, E
  <2> QED BY <2>4, <2>5, <2>6, <2>7
<1> QED BY <1>6, <1>7

\* The chunks begin in order.
LEMMA BaseOrder ==
    ASSUME TypeOK, ChunksFollow, ItemsAreInput
    PROVE  \A k \in 1 .. nchunks : Base(k) <= Base(nchunks)
<1> DEFINE n == nchunks
           D == {k \in 1 .. n : ~(Base(k) <= Base(n))}
<1>1. n \in Nat /\ \A k \in 1 .. n : Base(k) \in Nat /\ Len(chunk[k].items) \in Nat
  BY ChunkFacts, BaseFacts
<1>2. D = {}
  <2> SUFFICES ASSUME D # {} PROVE FALSE
    OBVIOUS
  <2>1. PICK m \in D : \A k \in D : k <= m
    BY <1>1, NatGreatest
  <2>2. m \in 1 .. n /\ ~(Base(m) <= Base(n))
    OBVIOUS
  <2>3. m # n
    BY <1>1, <2>2
  <2>4. m < n /\ m + 1 \in 1 .. n /\ ~(m + 1 <= m)
    BY <1>1, <2>2, <2>3
  <2>5. Base(m + 1) <= Base(n)
    BY <2>1, <2>4
  <2>6. Base(m + 1) = Base(m) + Len(chunk[m].items)
    BY <2>2, <2>4, BaseFollows
  <2>7. Base(m) \in Nat /\ Base(n) \in Nat /\ Len(chunk[m].items) \in Nat
    BY <1>1, <2>2
  <2> QED BY <2>2, <2>5, <2>6, <2>7
<1> QED BY <1>2

\* What the steps of the log need of the state: what was counted so far was
\* published, the list is finished by the producer's last step, and what the
\* snapshots and the counts show is a prefix of the input.
CountsPublished == \A c \in Consumers : cpc[c] = "counts" => cur[c].count <= Published
FinishedLast == finished => ppc = "done"
ShownIs ==
    /\ Published \in Nat /\ Published <= Len(input)
    /\ Published = IF ppc = "publish" THEN Len(input) - 1 ELSE Len(input)
    /\ \A c \in Consumers :
          /\ Contents(snap[c]) = SubSeq(input, 1, snap[c].count)
          /\ snap[c].count \in Nat /\ snap[c].count <= Len(input)

LEMMA ShownFollows == IInv => ShownIs
<1> SUFFICES ASSUME IInv PROVE ShownIs
  OBVIOUS
<1>f. TypeOK /\ ConsumersAgree /\ ItemsAreInput
  BY DEF IInv
<1>1. /\ Published \in Nat /\ Published <= Len(input) /\ Len(input) \in Nat
      /\ Published = IF ppc = "publish" THEN Len(input) - 1 ELSE Len(input)
  BY PublishedIs, <1>f, ChunkFacts
<1>2. ASSUME NEW c \in Consumers
      PROVE  /\ Contents(snap[c]) = SubSeq(input, 1, snap[c].count)
             /\ snap[c].count \in Nat /\ snap[c].count <= Len(input)
  <2> DEFINE s == snap[c]
  <2>1. s \in Snapshot /\ Filling(s) /\ Len(s.counts) = s.n
    BY <1>f DEF TypeOK, ConsumersAgree
  <2>2. Contents(s) = SubSeq(input, 1, s.count)
    <3> HIDE DEF s
    <3> QED BY <2>1, ContentsIs
  <2>3. s.count \in Nat /\ s.n \in Nat /\ s.n <= nchunks /\ nchunks \in Nat
    BY <2>1, <1>f, ChunkFacts, ConstantsAssumption DEF Snapshot, Filling
  <2>4. s.count <= Len(input)
    <3>1. CASE s.n = 0
      BY <3>1, <2>1, <1>1 DEF Filling
    <3>2. CASE s.n # 0
      <4>1. s.n \in 1 .. nchunks /\ s.counts[s.n] \in Nat
        BY <3>2, <2>1, <2>3 DEF Snapshot
      <4>2. s.count = Base(s.n) + s.counts[s.n] /\ s.counts[s.n] <= Len(chunk[s.n].items)
        BY <3>2, <2>1, <4>1 DEF Filling
      <4>3. /\ Base(s.n) \in Nat /\ Len(chunk[s.n].items) \in Nat
            /\ Base(s.n) + Len(chunk[s.n].items) <= Len(input)
        BY <4>1, <1>f, BaseFacts, ChunkFacts DEF ItemsAreInput
      <4> DEFINE b == Base(s.n)
                 x == s.counts[s.n]
                 l == Len(chunk[s.n].items)
      <4>4. b \in Nat /\ x \in Nat /\ l \in Nat /\ s.count = b + x /\ x <= l /\ b + l <= Len(input)
        BY <4>1, <4>2, <4>3
      <4> HIDE DEF b, x, l, s
      <4> QED BY <4>4, <1>1
    <3> QED BY <3>1, <3>2
  <2> QED BY <2>2, <2>3, <2>4
<1> QED BY <1>1, <1>2 DEF ShownIs

\* What is published is never taken back.
LEMMA PublishedGrows ==
    ASSUME IInv, ShownIs, ShownIs', Producer
    PROVE  Published <= Published' /\ UNCHANGED <<cpc, cur>>
<1>0. Len(input) \in Nat /\ input \in Seq(Specs) /\ spec \in Specs
  BY DEF IInv, TypeOK
<1>1. UNCHANGED <<cpc, cur>>
  BY DEF Producer, consumerVars
<1>2. CASE AppendWrite
  <2>1. Len(input') = Len(input) + 1 /\ ppc = "write" /\ ppc' = "publish"
    BY <1>0, <1>2 DEF AppendWrite
  <2> QED BY <1>0, <1>1, <2>1 DEF ShownIs
<1>3. CASE ~AppendWrite
  <2>1. input' = input /\ (ppc' = "publish" => ppc = "publish")
    BY <1>3 DEF Producer, AppendBegin, AppendPublish, AppendTotal, FinishSeal, FinishStore
  <2> QED BY <1>0, <1>1, <2>1 DEF ShownIs
<1> QED BY <1>2, <1>3

LEMMA LogFacts ==
    ASSUME IInv, ShownIs, ShownIs', CountsPublished, FinishedLast, [Next]_vars
    PROVE  CountsPublished' /\ FinishedLast'
<1>1. FinishedLast'
  <2>1. CASE Producer
    BY <2>1 DEF FinishedLast, Producer, AppendBegin, AppendWrite, AppendPublish, AppendTotal,
                FinishSeal, FinishStore
  <2>2. CASE UNCHANGED <<finished, ppc>>
    BY <2>2 DEF FinishedLast
  <2> QED BY <2>1, <2>2 DEF Next, Consumer, producerVars, vars
<1>2. CASE Producer
  <2>1. Published <= Published' /\ UNCHANGED <<cpc, cur>> /\ Published \in Nat /\ Published' \in Nat
    BY <1>2, PublishedGrows DEF ShownIs
  <2>2. \A c \in Consumers : cur[c].count \in Nat
    BY DEF IInv, TypeOK, Snapshot
  <2>3. CountsPublished'
    <3> SUFFICES ASSUME NEW c \in Consumers, cpc[c] = "counts" PROVE cur[c].count <= Published'
      BY <2>1 DEF CountsPublished
    <3>1. cur[c].count <= Published /\ cur[c].count \in Nat
      BY <2>2 DEF CountsPublished
    <3> DEFINE p == Published
               q == Published'
    <3>2. p \in Nat /\ q \in Nat /\ p <= q /\ cur[c].count <= p
      BY <2>1, <3>1
    <3> HIDE DEF p, q
    <3>3. cur[c].count <= q
      BY <3>1, <3>2
    <3> QED BY <3>3 DEF q
  <2> QED BY <1>1, <2>3
<1>3. ASSUME NEW c \in Consumers, Consumer(c) PROVE CountsPublished'
  <2>f. TypeOK /\ ChunksFollow /\ ItemsAreInput /\ ConsumersAgree
    BY DEF IInv
  <2>p. /\ nchunks' = nchunks /\ chunk' = chunk /\ Published' = Published
        /\ Published \in Nat /\ nchunks \in Nat
    BY <1>3, <2>f, ChunkFacts DEF Consumer, producerVars, Published, Base, ShownIs
  <2>1. CASE SnapshotCopy(c)
    BY <2>1, <2>p, <2>f DEF SnapshotCopy, CountsPublished, TypeOK
  <2>2. CASE SnapshotCount(c)
    <3> DEFINE s == cur[c]
               m == Len(s.counts)
               k == m + 1
               x == chunk[k].count
    <3>1. /\ cpc' = cpc /\ cpc[c] = "counts" /\ k <= s.n
          /\ cur'[c] = WithCount(s, x)
          /\ \A d \in Consumers : d # c => cur'[d] = cur[d]
      BY <2>2, <2>f DEF SnapshotCount, TypeOK
    <3>2. Filling(s) /\ s \in Snapshot
      BY <2>f, <3>1 DEF ConsumersAgree, TypeOK
    <3>3. /\ m \in Nat /\ s.n \in Nat /\ s.n <= nchunks /\ k \in 1 .. nchunks
      <4>1. m \in Nat /\ s.n \in Nat /\ s.n <= nchunks
        BY <3>2 DEF Filling, Snapshot
      <4> HIDE DEF m, s
      <4> QED BY <4>1, <3>1, <2>p
    <3>4. /\ Base(k) \in Nat /\ x \in Nat /\ Len(chunk[k].items) \in Nat
      BY <3>3, <2>f, BaseFacts, ChunkFacts
    <3>5. s.count = Base(k)
      <4>1. CASE m = 0
        <5>1. chunk[1].first_index = FirstIndex
          BY <3>3, <2>p, <2>f DEF ChunksFollow
        <5> QED BY <4>1, <5>1, <3>2, ConstantsAssumption DEF Filling, Base
      <4>2. CASE m # 0
        <5>1. m \in 1 .. nchunks /\ m < nchunks /\ m < s.n /\ m \in 1 .. m
          BY <4>2, <3>1, <3>3, <2>p
        <5>2. s.count = Base(m) + s.counts[m] /\ s.counts[m] = Len(chunk[m].items)
          BY <4>2, <5>1, <3>2 DEF Filling
        <5>3. Base(k) = Base(m) + Len(chunk[m].items)
          BY <5>1, <2>f, BaseFollows
        <5> QED BY <5>2, <5>3
      <4> QED BY <4>1, <4>2
    <3>6. cur'[c].count = Base(k) + x
      BY <3>1, <3>5 DEF WithCount
    <3>7. Base(k) + x <= Published
      <4>0. nchunks # 0 /\ Published = Base(nchunks) + chunk[nchunks].count
        BY <3>3, <2>p DEF Published
      <4>1. CASE k = nchunks
        BY <4>0, <4>1, <2>p
      <4>2. CASE k # nchunks
        <5>1. k < nchunks /\ k + 1 \in 1 .. nchunks /\ nchunks \in 1 .. nchunks
          BY <4>2, <3>3, <2>p
        <5>2. x = Len(chunk[k].items) /\ Base(k + 1) = Base(k) + x
          BY <5>1, <3>3, <2>f, BaseFollows DEF ChunksFollow
        <5>3. Base(k + 1) <= Base(nchunks) /\ Base(nchunks) \in Nat /\ chunk[nchunks].count \in Nat
              /\ Base(k + 1) \in Nat
          BY <5>1, <2>f, BaseOrder, BaseFacts, ChunkFacts
        <5> DEFINE a == Base(k + 1)
                   b == Base(nchunks)
                   y == chunk[nchunks].count
        <5>4. a \in Nat /\ b \in Nat /\ y \in Nat /\ a <= b
          BY <5>3
        <5> HIDE DEF a, b, y
        <5>5. a <= b + y
          BY <5>4
        <5> QED BY <5>2, <5>5, <4>0 DEF a, b, y
      <4> QED BY <4>1, <4>2
    <3> HIDE DEF s, m, k, x
    <3> QED BY <3>1, <3>6, <3>7, <2>p DEF CountsPublished
  <2>3. CASE SnapshotFinished(c)
    BY <2>3, <2>p, <2>f DEF SnapshotFinished, CountsPublished, TypeOK
  <2>4. ASSUME NEW index \in 0 .. FirstIndex + MaxItems, ItemAtFind(c, index) PROVE CountsPublished'
    BY <2>4, <2>p, <2>f DEF ItemAtFind, CountsPublished, TypeOK
  <2>5. CASE ItemAtSize(c)
    BY <2>5, <2>p, <2>f DEF ItemAtSize, CountsPublished, TypeOK
  <2> QED BY <1>3, <2>1, <2>2, <2>3, <2>4, <2>5 DEF Consumer
<1>4. CASE UNCHANGED vars
  <2>1. chunk' = chunk /\ nchunks' = nchunks /\ cpc' = cpc /\ cur' = cur
    BY <1>4 DEF vars
  <2>2. Published' = Published
    BY <2>1 DEF Published, Base
  <2> QED BY <1>1, <2>1, <2>2 DEF CountsPublished
<1> QED BY <1>1, <1>2, <1>3, <1>4 DEF Next

\* What a snapshot shows stays the same while the input grows.
LEMMA ViewKept ==
    ASSUME IInv, ShownIs, ShownIs', snap' = snap, input' = input \/ input' = Append(input, spec)
    PROVE  [c \in Consumers |-> Contents(snap[c])]' = [c \in Consumers |-> Contents(snap[c])]
<1> SUFFICES ASSUME NEW c \in Consumers PROVE Contents(snap[c])' = Contents(snap[c])
  OBVIOUS
<1>1. input \in Seq(Specs) /\ spec \in Specs
  BY DEF IInv, TypeOK
<1>2. /\ Contents(snap[c]) = SubSeq(input, 1, snap[c].count)
      /\ Contents(snap[c])' = SubSeq(input', 1, snap[c].count)
      /\ snap[c].count \in Nat /\ snap[c].count <= Len(input)
  BY DEF ShownIs
<1>3. CASE input' = Append(input, spec)
  BY <1>1, <1>2, <1>3, PrefixKept
<1> QED BY <1>2, <1>3

\* The steps of the producer are steps of the log: an item joins it with the
\* store to its chunk's count, whatever readers make of count_ and finished_.
LEMMA ProducerIsLog ==
    ASSUME IInv, ShownIs, ShownIs', FinishedLast, Producer
    PROVE  [Log!Next]_(Log!vars)
<1> DEFINE log == SubSeq(input, 1, Published)
           low == [c \in Consumers |-> cur[c].low]
           view == [c \in Consumers |-> Contents(snap[c])]
<1>0. /\ Len(input) \in Nat /\ input \in Seq(Specs) /\ spec \in Specs
      /\ Published \in Nat /\ Published <= Len(input)
  BY DEF IInv, TypeOK, ShownIs
<1>1. cur' = cur /\ snap' = snap
  BY DEF Producer, consumerVars
<1>2. input' = input \/ input' = Append(input, spec)
  BY DEF Producer, AppendBegin, AppendWrite, AppendPublish, AppendTotal, FinishSeal, FinishStore
<1>3. low' = low /\ view' = view
  <2>1. view' = view
    BY <1>1, <1>2, ViewKept
  <2> QED BY <1>1, <2>1
<1>4. CASE AppendWrite
  <2>1. input' = Append(input, spec) /\ finished' = finished /\ ppc = "write" /\ ppc' = "publish"
    BY <1>4 DEF AppendWrite
  <2>2. Len(input') = Len(input) + 1
    BY <1>0, <2>1
  <2>3. Published = Len(input) /\ Published' = Len(input)
    BY <1>0, <2>1, <2>2 DEF ShownIs
  <2>4. SubSeq(Append(input, spec), 1, Len(input)) = SubSeq(input, 1, Len(input))
    BY <1>0, PrefixKept
  <2>5. log' = log
    BY <2>1, <2>3, <2>4
  <2> HIDE DEF low, view, log
  <2> QED BY <1>3, <2>1, <2>5 DEF Log!vars, low, view, log
<1>5. CASE AppendPublish
  <2>1. input' = input /\ finished' = finished /\ ppc = "publish" /\ ppc' = "total"
    BY <1>5 DEF AppendPublish
  <2>2. Published = Len(input) - 1 /\ Published' = Len(input)
    BY <2>1 DEF ShownIs
  <2>3. Published < Len(input) /\ Published + 1 = Len(input) /\ Len(input) \in 1 .. Len(input)
    BY <1>0, <2>2
  <2>4. SubSeq(input, 1, Published + 1) = Append(SubSeq(input, 1, Published), input[Published + 1])
    <3> DEFINE p == Published
    <3>1. p \in Nat /\ p <= Len(input) /\ p < Len(input)
      BY <1>0, <2>3
    <3> HIDE DEF p
    <3>2. SubSeq(input, 1, p + 1) = Append(SubSeq(input, 1, p), input[p + 1])
      BY <1>0, <3>1, PrefixKept
    <3> QED BY <3>2 DEF p
  <2>5. log' = Append(log, input[Len(input)])
    BY <2>1, <2>2, <2>3, <2>4
  <2>6. input[Len(input)] \in Specs
    BY <1>0, <2>3
  <2>7. ~finished
    BY <2>1 DEF FinishedLast
  <2> HIDE DEF low, view, log
  <2>8. Log!Publish
    BY <1>3, <2>1, <2>5, <2>6, <2>7 DEF Log!Publish, low, view, log
  <2> QED BY <2>8 DEF Log!Next
<1>6. CASE FinishStore
  <2>1. input' = input /\ finished' = TRUE /\ ppc = "finish" /\ ppc' = "done"
    BY <1>6 DEF FinishStore
  <2>2. log' = log
    BY <2>1 DEF ShownIs
  <2> HIDE DEF low, view, log
  <2>3. Log!Close
    BY <1>3, <2>1, <2>2 DEF Log!Close, low, view, log
  <2> QED BY <2>3 DEF Log!Next
<1>7. CASE (\E s \in Specs : AppendBegin(s)) \/ AppendTotal \/ FinishSeal
  <2>1. input' = input /\ finished' = finished /\ ppc # "publish" /\ ppc' # "publish"
    BY <1>7 DEF AppendBegin, AppendTotal, FinishSeal
  <2>2. log' = log
    BY <2>1 DEF ShownIs
  <2> HIDE DEF low, view, log
  <2> QED BY <1>3, <2>1, <2>2 DEF Log!vars, low, view, log
<1> QED BY <1>4, <1>5, <1>6, <1>7 DEF Producer

\* The steps of a consumer are steps of the log: a read begins where the chunks
\* are copied, and ends, with no less than was published then and no more than
\* is published now, where finished_ is read.
LEMMA ConsumerIsLog ==
    ASSUME IInv, FreshInv, ShownIs, ShownIs', CountsPublished, NEW c \in Consumers, Consumer(c)
    PROVE  [Log!Next]_(Log!vars)
<1> DEFINE log == SubSeq(input, 1, Published)
           low == [d \in Consumers |-> cur[d].low]
           view == [d \in Consumers |-> Contents(snap[d])]
<1>f. TypeOK /\ ConsumersAgree
  BY DEF IInv
<1>0. /\ Len(input) \in Nat /\ input \in Seq(Specs)
      /\ Published \in Nat /\ Published <= Len(input)
  BY <1>f DEF TypeOK, ShownIs
<1>1. input' = input /\ finished' = finished /\ Published' = Published /\ log' = log
  BY DEF Consumer, producerVars, Published, Base
<1>2. Len(log) = Published
  BY <1>0, PrefixElements
<1>3. ASSUME snap' = snap PROVE view' = view
  BY <1>1, <1>3, ViewKept
<1>4. CASE SnapshotCopy(c)
  <2>1. snap' = snap /\ cur' = [cur EXCEPT ![c] = [n |-> nchunks, counts |-> <<>>, count |-> 0,
                                  finished |-> FALSE, low |-> Published]]
    BY <1>4 DEF SnapshotCopy
  <2>2. low' = [low EXCEPT ![c] = Published]
    BY <1>f, <2>1 DEF TypeOK
  <2>3. view' = view
    BY <2>1, <1>3
  <2> HIDE DEF low, view, log
  <2>4. Log!BeginRead(c)
    BY <1>1, <1>2, <2>2, <2>3 DEF Log!BeginRead, low, view, log
  <2> QED BY <2>4 DEF Log!Next
<1>5. CASE SnapshotFinished(c)
  <2>1. /\ cpc[c] = "counts" /\ Len(cur[c].counts) = cur[c].n /\ cur' = cur
        /\ snap' = [snap EXCEPT ![c] = [cur[c] EXCEPT !.finished = finished]]
    BY <1>5 DEF SnapshotFinished
  <2>2. low' = low
    BY <2>1
  <2>3. cur[c].low <= cur[c].count
    BY <1>5, SnapshotFinishedFresh DEF Consumer
  <2>4. cur[c].count <= Published
    BY <2>1 DEF CountsPublished
  <2>5. cur[c] \in Snapshot /\ cur[c].low \in Nat /\ cur[c].count \in Nat
    BY <1>f DEF TypeOK, Snapshot
  <2>6. snap'[c].count = cur[c].count /\ \A d \in Consumers : d # c => snap'[d] = snap[d]
    BY <1>f, <2>1, <2>5 DEF TypeOK, Snapshot
  <2>7. Contents(snap[c])' = SubSeq(input, 1, cur[c].count)
    BY <1>1, <2>6 DEF ShownIs
  <2>8. SubSeq(log, 1, cur[c].count) = SubSeq(input, 1, cur[c].count)
    <3> DEFINE p == Published
               q == cur[c].count
    <3>1. p \in Nat /\ q \in Nat /\ q <= p /\ p <= Len(input)
      BY <1>0, <2>4, <2>5
    <3> HIDE DEF p, q
    <3>2. SubSeq(SubSeq(input, 1, p), 1, q) = SubSeq(input, 1, q)
      BY <1>0, <3>1, PrefixOfPrefix
    <3> QED BY <3>2 DEF p, q
  <2>9. view' = [view EXCEPT ![c] = SubSeq(log, 1, cur[c].count)]
    <3>1. ASSUME NEW d \in Consumers, d # c PROVE Contents(snap[d])' = Contents(snap[d])
      <4>1. snap'[d] = snap[d]
        BY <2>6, <3>1
      <4> QED BY <1>1, <4>1 DEF ShownIs
    <3> QED BY <2>7, <2>8, <3>1
  <2>10. cur[c].count \in low[c] .. Len(log)
    BY <1>2, <2>3, <2>4, <2>5, <1>0
  <2> HIDE DEF low, view, log
  <2>11. Log!EndRead(c)
    <3> DEFINE q == cur[c].count
    <3>1. q \in low[c] .. Len(log) /\ view' = [view EXCEPT ![c] = SubSeq(log, 1, q)]
      BY <2>9, <2>10
    <3> HIDE DEF q
    <3> QED BY <1>1, <2>2, <3>1 DEF Log!EndRead, low, view, log
  <2> QED BY <2>11 DEF Log!Next
<1>6. CASE SnapshotCount(c) \/ (\E index \in 0 .. FirstIndex + MaxItems : ItemAtFind(c, index))
           \/ ItemAtSize(c)
  <2>1. snap' = snap
    BY <1>6 DEF SnapshotCount, ItemAtFind, ItemAtSize
  <2>2. low' = low
    <3>1. CASE SnapshotCount(c)
      BY <1>f, <3>1 DEF SnapshotCount, WithCount, TypeOK
    <3>2. CASE ~SnapshotCount(c)
      BY <1>6, <3>2 DEF ItemAtFind, ItemAtSize
    <3> QED BY <3>1, <3>2
  <2>3. view' = view
    BY <2>1, <1>3
  <2> HIDE DEF low, view, log
  <2> QED BY <1>1, <2>2, <2>3 DEF Log!vars, low, view, log
<1> QED BY <1>4, <1>5, <1>6 DEF Consumer

\* The chunk list implements the log.  A snapshot is a read of it, for any number
\* of readers, chunks and items: it holds all that was published when the call
\* was made, nothing that is not published when it returns, and in order.
THEOREM Implements == Spec => ImplementsItemLog
<1>1. Init => Log!Init /\ CountsPublished /\ FinishedLast
  <2> SUFFICES ASSUME Init PROVE Log!Init /\ CountsPublished /\ FinishedLast
    OBVIOUS
  <2>1. CountsPublished /\ FinishedLast
    BY DEF Init, CountsPublished, FinishedLast
  <2>2. /\ input = <<>> /\ finished = FALSE /\ Published = 0
        /\ cur = [c \in Consumers |-> EmptySnapshot] /\ snap = [c \in Consumers |-> EmptySnapshot]
    BY DEF Init, Published
  <2>3. SubSeq(input, 1, Published) = <<>>
    BY <2>2, SubSeqEmpty
  <2>4. [c \in Consumers |-> cur[c].low] = [c \in Consumers |-> 0]
    BY <2>2 DEF EmptySnapshot
  <2>5. \A c \in Consumers : Contents(snap[c]) = <<>>
    <3> SUFFICES ASSUME NEW c \in Consumers PROVE Contents(snap[c]) = <<>>
      OBVIOUS
    <3>1. ShownIs
      BY InitIInv, ShownFollows
    <3>2. snap[c].count = 0
      BY <2>2 DEF EmptySnapshot
    <3> QED BY <3>1, <3>2, SubSeqEmpty DEF ShownIs
  <2>6. [c \in Consumers |-> Contents(snap[c])] = [c \in Consumers |-> <<>>]
    BY <2>5
  <2> QED BY <2>1, <2>2, <2>3, <2>4, <2>6 DEF Log!Init
<1>2. IInv /\ FreshInv /\ ShownIs /\ ShownIs' /\ CountsPublished /\ FinishedLast /\ [Next]_vars
        => [Log!Next]_(Log!vars)
  <2> SUFFICES ASSUME IInv, FreshInv, ShownIs, ShownIs', CountsPublished, FinishedLast, [Next]_vars
               PROVE  [Log!Next]_(Log!vars)
    OBVIOUS
  <2>1. CASE UNCHANGED vars
    <3> DEFINE log == SubSeq(input, 1, Published)
               low == [d \in Consumers |-> cur[d].low]
               view == [d \in Consumers |-> Contents(snap[d])]
    <3>1. input' = input /\ finished' = finished /\ cur' = cur /\ snap' = snap
          /\ Published' = Published
      BY <2>1 DEF vars, Published, Base
    <3>2. view' = view
      BY <3>1, ViewKept
    <3>3. log' = log /\ low' = low
      BY <3>1
    <3> HIDE DEF log, low, view
    <3> QED BY <3>1, <3>2, <3>3 DEF Log!vars, log, low, view
  <2> QED BY <2>1, ProducerIsLog, ConsumerIsLog DEF Next
<1>3. IInv => ShownIs
  BY ShownFollows
<1>4. IInv /\ ShownIs /\ ShownIs' /\ CountsPublished /\ FinishedLast /\ [Next]_vars
        => CountsPublished' /\ FinishedLast'
  BY LogFacts
<1> QED BY <1>1, <1>2, <1>3, <1>4, Inductive, FreshInductive, PTL
       DEF Spec, Log!Spec, ImplementsItemLog

-----------------------------------------------------------------------------
(* --filter: the inductive invariant. *)

\* The chunk that item_i counts in, by its id: the next one to print, but after
\* the loop over the chunks, before MainWrite steps back, the last one.
Place == IF mpc = "print" /\ chunk_i = snap[Main].n THEN chunk_i ELSE chunk_i + 1
AtStart == chunk_i = 0 /\ item_i = 0

\* How many records of the input were looked at.
Position == IF AtStart THEN 0 ELSE Base(Place) + item_i

FilterTypes ==
    /\ rpc \in {"feed", "reap", "copy", "exchange", "call"}
    /\ {wake_cb, wake_pending, woke, mu_held} \subseteq BOOLEAN
    /\ mpc \in {"install", "snapshot", "print", "wait", "ack", "uninstall", "end"}
    /\ chunk_i \in Nat /\ item_i \in Nat
    /\ out \in Seq(Specs) /\ printed \in Seq(Specs)

\* The position is inside the chunk it names, and in the snapshot at hand.
Placed ==
    /\ AtStart \/ (Place \in 1 .. nchunks /\ item_i <= Len(chunk[Place].items))
    /\ mpc = "print" => chunk_i <= snap[Main].n
    /\ cpc[Main] # "idle" =>
          cpc[Main] = "counts" /\ mpc = "snapshot" /\ (AtStart \/ chunk_i < cur[Main].n)

\* What was printed, or is about to be, is the matches of the records looked at.
Written == printed \o out = Matches(SubSeq(input, 1, Position))

FInv == FilterTypes /\ Placed /\ Written

\* A wake is sent, or on its way: it will set woke.
WakeComing == ppc = "total" \/ rpc \in {"copy", "call"} \/ (rpc = "exchange" /\ ~wake_pending)

\* The handshake: a wake that is not acknowledged has set woke, or is about to,
\* or is the one the main thread is about to acknowledge.
Handshake ==
    /\ wake_pending => woke \/ rpc = "call" \/ mpc = "ack"
    /\ mpc \in {"snapshot", "print", "wait", "ack"} => wake_cb
    /\ mu_held <=> mpc = "ack"
    /\ mpc = "ack" => ~woke

\* Once the loop has printed the tail, the position is past the snapshot.
Past ==
    mpc = "wait" \/ (mpc = "print" /\ chunk_i = snap[Main].n) => Position >= snap[Main].count

\* What was seen is all there is, unless a wake is coming.
SawAll ==
    /\ (mpc = "snapshot" /\ cpc[Main] = "counts" /\ ~woke /\ ~WakeComing) =>
          IF Len(cur[Main].counts) = cur[Main].n THEN cur[Main].count = Published
          ELSE Published = Base(cur[Main].n) + chunk[cur[Main].n].count
    /\ (mpc \in {"print", "wait"} /\ ~snap[Main].finished /\ ~woke /\ ~WakeComing) =>
          snap[Main].count = Published /\ (finished => rpc = "reap")

WaitsOpen == mpc = "wait" => ~snap[Main].finished /\ out = <<>>

Covered == Past /\ SawAll /\ WaitsOpen

SleepInv == Handshake /\ Covered

\* The main thread sleeps only when every match of what was published is written,
\* or a wake is coming; and the list is not finished, unless the command that made
\* it is still waited for.
SleepsWhenDone ==
    (mpc = "wait" /\ ~woke /\ ~WakeComing) =>
        (finished => rpc = "reap") /\ IsPrefix(Matches(SubSeq(input, 1, Published)), printed)

-----------------------------------------------------------------------------
(* What Matches computes: it is defined by a recursive function, and a function *)
(* that satisfies its recursion is equal to it by induction.                    *)

Pick(m, x) == IF x \in Matching THEN Append(m, x) ELSE m

PicksTo(h, s, n) ==
    /\ h \in [0 .. n -> Seq(Specs)]
    /\ h[0] = <<>>
    /\ \A i \in 1 .. n : h[i] = Pick(h[i - 1], s[i])

LEMMA PickType ==
    ASSUME NEW m \in Seq(Specs), NEW x \in Specs
    PROVE  Pick(m, x) \in Seq(Specs)
BY DEF Pick

\* The same records, the same matches.
LEMMA PicksAgree ==
    ASSUME NEW n \in Nat, NEW s, NEW u, NEW h, NEW g, PicksTo(h, s, n), PicksTo(g, u, n),
           \A i \in 1 .. n : s[i] = u[i]
    PROVE  \A i \in 0 .. n : h[i] = g[i]
<1> DEFINE D == {i \in 0 .. n : h[i] # g[i]}
<1> SUFFICES ASSUME D # {} PROVE FALSE
  OBVIOUS
<1>0. D \subseteq Nat
  OBVIOUS
<1>1. PICK m \in D : \A k \in D : m <= k
  BY <1>0, NatLeast
<1>2. m \in 0 .. n /\ h[m] # g[m]
  OBVIOUS
<1>3. CASE m = 0
  BY <1>2, <1>3 DEF PicksTo
<1>4. CASE m # 0
  <2>1. m - 1 \in 0 .. n /\ ~(m <= m - 1) /\ m \in 1 .. n
    BY <1>2, <1>4
  <2>2. h[m - 1] = g[m - 1]
    BY <1>1, <2>1
  <2>3. h[m] = Pick(h[m - 1], s[m]) /\ g[m] = Pick(g[m - 1], u[m])
    BY <2>1 DEF PicksTo
  <2> QED BY <1>2, <2>1, <2>2, <2>3
<1> QED BY <1>3, <1>4

\* One more record.
LEMMA PicksOn ==
    ASSUME NEW n \in Nat, NEW s, NEW h, PicksTo(h, s, n), s[n + 1] \in Specs
    PROVE  PicksTo([i \in 0 .. n + 1 |-> IF i = n + 1 THEN Pick(h[n], s[n + 1]) ELSE h[i]], s, n + 1)
<1> DEFINE m == n + 1
           e == [i \in 0 .. m |-> IF i = m THEN Pick(h[n], s[m]) ELSE h[i]]
<1>0. m \in Nat /\ m # 0 /\ n \in 0 .. n /\ m - 1 = n
  OBVIOUS
<1>1. Pick(h[n], s[m]) \in Seq(Specs)
  <2>1. h[n] \in Seq(Specs)
    BY <1>0 DEF PicksTo
  <2> QED BY <2>1, PickType
<1>2. ASSUME NEW i \in 0 .. m PROVE e[i] \in Seq(Specs)
  <2>1. i = m \/ i \in 0 .. n
    OBVIOUS
  <2> QED BY <1>1, <2>1 DEF PicksTo
<1>3. e[0] = <<>>
  BY <1>0 DEF PicksTo
<1>4. ASSUME NEW i \in 1 .. m PROVE e[i] = Pick(e[i - 1], s[i])
  <2>1. i - 1 \in 0 .. n /\ i - 1 # m /\ i - 1 \in 0 .. m /\ i \in 0 .. m
    OBVIOUS
  <2>2. e[i - 1] = h[i - 1]
    BY <2>1
  <2>3. CASE i = m
    BY <1>0, <2>2, <2>3
  <2>4. CASE i # m
    <3>1. i \in 1 .. n
      BY <2>4
    <3>2. e[i] = h[i] /\ h[i] = Pick(h[i - 1], s[i])
      BY <2>1, <2>4, <3>1 DEF PicksTo
    <3> QED BY <2>2, <3>2
  <2> QED BY <2>3, <2>4
<1>5. PicksTo(e, s, m)
  <2>1. e \in [0 .. m -> Seq(Specs)]
    BY <1>2
  <2> HIDE DEF e
  <2> QED BY <2>1, <1>3, <1>4 DEF PicksTo
<1> QED BY <1>5

LEMMA MatchesIs ==
    ASSUME NEW s \in Seq(Specs)
    PROVE  \E h : PicksTo(h, s, Len(s)) /\ Matches(s) = h[Len(s)]
<1> DEFINE N == Len(s)
           Step(h) == [n \in 0 .. N |->
                          IF n = 0 THEN <<>> ELSE IF s[n] \in Matching THEN Append(h[n - 1], s[n]) ELSE h[n - 1]]
           f == CHOOSE h : h = Step(h)
           D == {n \in 0 .. N : ~ \E h : PicksTo(h, s, n)}
<1>0. N \in Nat /\ \A i \in 1 .. N : s[i] \in Specs
  OBVIOUS
<1>1. D = {}
  <2> SUFFICES ASSUME D # {} PROVE FALSE
    OBVIOUS
  <2>0. D \subseteq Nat
    OBVIOUS
  <2>1. PICK m \in D : \A k \in D : m <= k
    BY <2>0, NatLeast
  <2>2. m \in 0 .. N /\ ~ \E h : PicksTo(h, s, m)
    OBVIOUS
  <2>3. CASE m = 0
    <3> DEFINE h == [i \in 0 .. 0 |-> <<>>]
    <3>1. PicksTo(h, s, 0)
      BY DEF PicksTo
    <3> QED BY <2>2, <2>3, <3>1
  <2>4. CASE m # 0
    <3> DEFINE k == m - 1
    <3>1. k \in Nat /\ k \in 0 .. N /\ ~(m <= k) /\ m \in 1 .. N /\ k + 1 = m
      BY <1>0, <2>2, <2>4
    <3>2. PICK h : PicksTo(h, s, k)
      BY <2>1, <3>1
    <3>3. s[k + 1] \in Specs
      BY <1>0, <3>1
    <3> HIDE DEF k
    <3>4. PicksTo([i \in 0 .. k + 1 |-> IF i = k + 1 THEN Pick(h[k], s[k + 1]) ELSE h[i]], s, k + 1)
      BY <3>1, <3>2, <3>3, PicksOn
    <3> QED BY <2>2, <3>1, <3>4
  <2> QED BY <2>3, <2>4
<1>2. PICK H : PicksTo(H, s, N)
  BY <1>0, <1>1
<1>3. H = Step(H)
  <2>1. ASSUME NEW n \in 0 .. N
        PROVE  H[n] = IF n = 0 THEN <<>> ELSE IF s[n] \in Matching THEN Append(H[n - 1], s[n]) ELSE H[n - 1]
    <3>1. n # 0 => n \in 1 .. N
      BY <1>0
    <3> QED BY <1>2, <3>1 DEF PicksTo, Pick
  <2>2. H = [n \in 0 .. N |-> H[n]]
    BY <1>2 DEF PicksTo
  <2> QED BY <2>1, <2>2
<1>4. f = Step(f)
  BY <1>3
<1>5. Matches(s) = f[N]
  BY DEF Matches
<1> HIDE DEF f
<1>6. PicksTo(f, s, N)
  <2> DEFINE B == {n \in 0 .. N : f[n] # H[n]}
  <2>1. B = {}
    <3> SUFFICES ASSUME B # {} PROVE FALSE
      OBVIOUS
    <3>0. B \subseteq Nat
      OBVIOUS
    <3>1. PICK m \in B : \A k \in B : m <= k
      BY <3>0, NatLeast
    <3>2. m \in 0 .. N /\ f[m] # H[m]
      OBVIOUS
    <3>3. CASE m = 0
      BY <1>3, <1>4, <3>2, <3>3
    <3>4. CASE m # 0
      <4>1. m - 1 \in 0 .. N /\ ~(m <= m - 1)
        BY <1>0, <3>2, <3>4
      <4>2. f[m - 1] = H[m - 1]
        BY <3>1, <4>1
      <4> QED BY <1>3, <1>4, <3>2, <3>4, <4>2
    <3> QED BY <3>3, <3>4
  <2>2. \A n \in 0 .. N : f[n] = H[n]
    BY <2>1
  <2>3. f = [n \in 0 .. N |-> f[n]] /\ H = [n \in 0 .. N |-> H[n]]
    BY <1>2, <1>4 DEF PicksTo
  <2>4. f = H
    BY <2>2, <2>3
  <2> QED BY <1>2, <2>4
<1> QED BY <1>5, <1>6

LEMMA MatchesNone == Matches(<<>>) = <<>>
<1>1. <<>> \in Seq(Specs) /\ Len(<<>>) = 0
  OBVIOUS
<1>2. PICK h : PicksTo(h, <<>>, 0) /\ Matches(<<>>) = h[0]
  BY <1>1, MatchesIs
<1> QED BY <1>2 DEF PicksTo

LEMMA MatchesAppend ==
    ASSUME NEW s \in Seq(Specs), NEW e \in Specs
    PROVE  Matches(s) \in Seq(Specs) /\ Matches(Append(s, e)) = Pick(Matches(s), e)
<1> DEFINE t == Append(s, e)
           n == Len(s)
<1>0. /\ n \in Nat /\ t \in Seq(Specs) /\ Len(t) = n + 1 /\ t[n + 1] = e
      /\ \A i \in 1 .. n : t[i] = s[i]
  OBVIOUS
<1> HIDE DEF t
<1>1. PICK h : PicksTo(h, s, n) /\ Matches(s) = h[n]
  BY MatchesIs
<1>2. PICK g : PicksTo(g, t, n + 1) /\ Matches(t) = g[n + 1]
  BY <1>0, MatchesIs
<1> HIDE DEF n
<1> DEFINE r == [i \in 0 .. n |-> g[i]]
<1>3. PicksTo(r, t, n)
  <2>1. \A i \in 0 .. n : i \in 0 .. n + 1
    BY <1>0
  <2>2. r \in [0 .. n -> Seq(Specs)]
    BY <1>2, <2>1 DEF PicksTo
  <2>3. 0 \in 0 .. n /\ r[0] = <<>>
    BY <1>0, <1>2 DEF PicksTo
  <2>4. ASSUME NEW i \in 1 .. n PROVE r[i] = Pick(r[i - 1], t[i])
    <3>1. i \in 0 .. n /\ i - 1 \in 0 .. n /\ i \in 1 .. n + 1
      BY <1>0
    <3> QED BY <1>2, <3>1 DEF PicksTo
  <2> HIDE DEF r
  <2> QED BY <2>2, <2>3, <2>4 DEF PicksTo
<1>4. r[n] = h[n] /\ n \in 0 .. n
  <2>1. n \in 0 .. n
    BY <1>0
  <2> HIDE DEF r
  <2> QED BY <1>0, <1>1, <1>3, <2>1, PicksAgree
<1>5. g[n + 1] = Pick(g[n], t[n + 1])
  <2>1. n + 1 \in 1 .. n + 1 /\ (n + 1) - 1 = n
    BY <1>0
  <2> QED BY <1>2, <2>1 DEF PicksTo
<1>6. h[n] \in Seq(Specs)
  BY <1>1, <1>4 DEF PicksTo
<1> QED BY <1>0, <1>1, <1>2, <1>4, <1>5, <1>6 DEF t

LEMMA MatchesType ==
    ASSUME NEW s \in Seq(Specs)
    PROVE  Matches(s) \in Seq(Specs)
<1>0. Len(s) \in Nat /\ Len(s) \in 0 .. Len(s)
  OBVIOUS
<1>1. PICK h : PicksTo(h, s, Len(s)) /\ Matches(s) = h[Len(s)]
  BY MatchesIs
<1> QED BY <1>0, <1>1 DEF PicksTo

LEMMA JoinAppend ==
    ASSUME NEW s \in Seq(Specs), NEW u \in Seq(Specs), NEW e \in Specs
    PROVE  s \o Append(u, e) = Append(s \o u, e) /\ s \o u \in Seq(Specs)
<1>1. Append(u, e) = u \o <<e>> /\ s \o u \in Seq(Specs) /\ <<e>> \in Seq(Specs)
  BY AppendIsConcat
<1>2. Append(s \o u, e) = (s \o u) \o <<e>>
  BY <1>1, AppendIsConcat
<1> QED BY <1>1, <1>2, ConcatAssociative

\* The matches of two stretches, one after the other.
LEMMA MatchesConcat ==
    ASSUME NEW s \in Seq(Specs), NEW u \in Seq(Specs)
    PROVE  Matches(s \o u) = Matches(s) \o Matches(u)
<1> DEFINE n == Len(u)
           P(k) == SubSeq(u, 1, k)
           D == {k \in 0 .. n : Matches(s \o P(k)) # Matches(s) \o Matches(P(k))}
<1>0. n \in Nat
  OBVIOUS
<1>t. \A k \in 0 .. n : P(k) \in Seq(Specs) /\ Len(P(k)) = k
  <2> SUFFICES ASSUME NEW k \in 0 .. n PROVE P(k) \in Seq(Specs) /\ Len(P(k)) = k
    OBVIOUS
  <2>1. k \in Nat /\ k <= Len(u)
    BY <1>0
  <2> QED BY <2>1, PrefixElements
<1>1. D = {}
  <2> SUFFICES ASSUME D # {} PROVE FALSE
    OBVIOUS
  <2>0. D \subseteq Nat
    <3> HIDE DEF P
    <3> QED BY <1>0
  <2>1. PICK k \in D : \A j \in D : k <= j
    BY <2>0, NatLeast
  <2>2. k \in 0 .. n /\ Matches(s \o P(k)) # Matches(s) \o Matches(P(k))
    OBVIOUS
  <2>3. CASE k = 0
    <3>1. P(k) \in Seq(Specs) /\ Len(P(k)) = 0
      BY <1>t, <2>2, <2>3
    <3> HIDE DEF P
    <3>2. P(k) = <<>>
      BY <3>1
    <3>3. s \o <<>> = s /\ Matches(s) \o <<>> = Matches(s)
      BY MatchesType
    <3> QED BY <2>2, <3>2, <3>3, MatchesNone
  <2>4. CASE k # 0
    <3> DEFINE j == k - 1
               x == u[k]
    <3>1. j \in 0 .. n /\ ~(k <= j) /\ j \in Nat /\ j < Len(u) /\ j <= Len(u) /\ j + 1 = k /\ x \in Specs
      BY <1>0, <2>2, <2>4
    <3>2. Matches(s \o P(j)) = Matches(s) \o Matches(P(j))
      BY <2>1, <3>1
    <3>3. P(k) = Append(P(j), x)
      <4> HIDE DEF j
      <4>1. SubSeq(u, 1, j + 1) = Append(SubSeq(u, 1, j), u[j + 1])
        BY <3>1, PrefixKept
      <4> QED BY <3>1, <4>1
    <3>4. P(j) \in Seq(Specs)
      BY <1>t, <3>1
    <3> HIDE DEF P, x, j
    <3> DEFINE v == P(j)
    <3>5. v \in Seq(Specs) /\ P(k) = Append(v, x) /\ Matches(s \o v) = Matches(s) \o Matches(v)
      BY <3>2, <3>3, <3>4
    <3> HIDE DEF v
    <3>6. s \o Append(v, x) = Append(s \o v, x) /\ s \o v \in Seq(Specs)
      BY <3>1, <3>5, JoinAppend
    <3>7. Matches(P(k)) = Pick(Matches(v), x) /\ Matches(s \o P(k)) = Pick(Matches(s \o v), x)
      <4>1. Matches(Append(v, x)) = Pick(Matches(v), x)
        BY <3>1, <3>5, MatchesAppend
      <4> DEFINE w == s \o v
      <4>2. w \in Seq(Specs)
        BY <3>6
      <4> HIDE DEF w
      <4>3. Matches(Append(w, x)) = Pick(Matches(w), x)
        BY <3>1, <4>2, MatchesAppend
      <4>4. s \o P(k) = Append(w, x)
        BY <3>5, <3>6 DEF w
      <4> QED BY <3>5, <4>1, <4>3, <4>4 DEF w
    <3>8. Matches(s) \in Seq(Specs) /\ Matches(v) \in Seq(Specs)
      BY <3>5, MatchesType
    <3> DEFINE a == Matches(s)
               b == Matches(v)
    <3>9. a \o Append(b, x) = Append(a \o b, x)
      <4>1. a \in Seq(Specs) /\ b \in Seq(Specs)
        BY <3>8
      <4>2. \A p, q \in Seq(Specs) : \A e \in Specs : p \o Append(q, e) = Append(p \o q, e)
        BY JoinAppend
      <4> HIDE DEF a, b
      <4> QED BY <3>1, <4>1, <4>2
    <3>10. Pick(a \o b, x) = a \o Pick(b, x)
      <4> HIDE DEF a, b
      <4> QED BY <3>9 DEF Pick
    <3> QED BY <2>2, <3>5, <3>7, <3>10
  <2> QED BY <2>3, <2>4
<1>2. n \in 0 .. n /\ P(n) = u
  <2>1. SubSeq(u, 1, Len(u)) = u
    BY SubSeqFull
  <2> QED BY <1>0, <2>1
<1>3. Matches(s \o P(n)) = Matches(s) \o Matches(P(n))
  <2> HIDE DEF P
  <2> QED BY <1>1, <1>2
<1> QED BY <1>2, <1>3

-----------------------------------------------------------------------------
(* The print position. *)

LEMMA MainIs == Main \in Consumers /\ \A c \in Consumers : c = Main
BY FilterAssumption

\* A step of the filter is a step of the list, or leaves the list alone.
LEMMA FilterStep ==
    ASSUME [FilterNext]_allVars
    PROVE  [Next]_vars
<1>1. CASE Reader
  BY <1>1 DEF Reader, ReaderFeed, ReaderReap, WakeCopy, WakeExchange, WakeCall, Next
<1>2. CASE MainSnapshot
  BY <1>2, MainIs DEF MainSnapshot, Next, Consumer
<1>3. CASE MainThread /\ ~MainSnapshot
  BY <1>3 DEF MainThread, MainInstall, MainPrintChunk, MainWrite, MainWait, MainAck, MainUninstall
<1>4. CASE UNCHANGED allVars
  BY <1>4 DEF allVars
<1> QED BY <1>1, <1>2, <1>3, <1>4 DEF FilterNext

LEMMA FilterIsList == FilterSpec => Spec
<1>1. FilterInit => Init
  BY DEF FilterInit
<1> QED BY <1>1, FilterStep, PTL DEF FilterSpec, Spec

LEMMA ListInv == FilterSpec => []IInv
BY FilterIsList, Inductive, PTL

LEMMA PositionIs ==
    ASSUME IInv, FilterTypes, Placed
    PROVE  /\ Position \in Nat /\ Position <= Len(input) /\ Len(input) \in Nat
           /\ ~AtStart => /\ Place \in 1 .. nchunks /\ Base(Place) \in Nat
                          /\ item_i <= Len(chunk[Place].items) /\ Len(chunk[Place].items) \in Nat
                          /\ Base(Place) + Len(chunk[Place].items) <= Len(input)
<1>f. TypeOK /\ ItemsAreInput /\ Len(input) \in Nat /\ item_i \in Nat
  BY DEF IInv, TypeOK, FilterTypes
<1>1. CASE AtStart
  BY <1>1, <1>f DEF Position
<1>2. CASE ~AtStart
  <2>1. /\ Place \in 1 .. nchunks /\ item_i <= Len(chunk[Place].items)
        /\ Base(Place) \in Nat /\ Len(chunk[Place].items) \in Nat
        /\ Base(Place) + Len(chunk[Place].items) <= Len(input)
    BY <1>2, <1>f, ChunkFacts, BaseFacts DEF Placed, ItemsAreInput
  <2> DEFINE b == Base(Place)
             l == Len(chunk[Place].items)
  <2>2. b \in Nat /\ l \in Nat /\ item_i <= l /\ b + l <= Len(input) /\ Position = b + item_i
    BY <1>2, <2>1 DEF Position
  <2> HIDE DEF b, l
  <2>3. Position \in Nat /\ Position <= Len(input)
    BY <1>f, <2>2
  <2> QED BY <1>f, <2>1, <2>3
<1> QED BY <1>1, <1>2

LEMMA ConcatPrefix ==
    ASSUME NEW x \in Seq(Specs), NEW y \in Seq(Specs)
    PROVE  IsPrefix(x, x \o y)
<1> DEFINE z == x \o y
<1>1. /\ z \in Seq(Specs) /\ Len(z) = Len(x) + Len(y) /\ Len(x) \in Nat /\ Len(y) \in Nat
      /\ \A i \in 1 .. Len(x) : z[i] = x[i]
  OBVIOUS
<1> HIDE DEF z
<1>2. /\ SubSeq(z, 1, Len(x)) \in Seq(Specs) /\ Len(SubSeq(z, 1, Len(x))) = Len(x)
      /\ \A i \in 1 .. Len(x) : SubSeq(z, 1, Len(x))[i] = z[i]
  <2>1. Len(x) <= Len(z)
    BY <1>1
  <2> QED BY <1>1, <2>1, PrefixElements
<1>3. SubSeq(z, 1, Len(x)) = x
  BY <1>1, <1>2, SeqEqual
<1>4. Len(x) <= Len(z) /\ SubSeq(x, 1, Len(x)) = x
  BY <1>1, SubSeqFull
<1> QED BY <1>3, <1>4 DEF IsPrefix, z

\* The matches of a longer stretch are those of the shorter one, and more.
LEMMA MatchesOn ==
    ASSUME NEW s \in Seq(Specs), NEW p \in Nat, NEW q \in Nat, p <= q, q <= Len(s)
    PROVE  /\ SubSeq(s, 1, p) \in Seq(Specs) /\ SubSeq(s, p + 1, q) \in Seq(Specs)
           /\ Matches(SubSeq(s, 1, q)) = Matches(SubSeq(s, 1, p)) \o Matches(SubSeq(s, p + 1, q))
           /\ IsPrefix(Matches(SubSeq(s, 1, p)), Matches(SubSeq(s, 1, q)))
<1> DEFINE b == q - p
           a == SubSeq(s, 1, p)
           c == SubSeq(s, p + 1, q)
<1>1. b \in Nat /\ p + b = q /\ p + b <= Len(s) /\ Len(s) \in Nat /\ p <= Len(s)
  OBVIOUS
<1>2. a \in Seq(Specs) /\ a \o c = SubSeq(s, 1, q)
  <2> HIDE DEF b
  <2>1. SubSeq(s, 1, p) \o SubSeq(s, p + 1, p + b) = SubSeq(s, 1, p + b) /\ SubSeq(s, 1, p) \in Seq(Specs)
    BY <1>1, PrefixThen
  <2> QED BY <1>1, <2>1
<1>3. c \in Seq(Specs)
  <2>1. \A i \in p + 1 .. q : s[i] \in Specs
    BY <1>1
  <2> QED BY <2>1, SubSeqProperties
<1> HIDE DEF a, c
<1>4. Matches(SubSeq(s, 1, q)) = Matches(a) \o Matches(c)
  <2>1. Matches(a \o c) = Matches(a) \o Matches(c)
    BY <1>2, <1>3, MatchesConcat
  <2> QED BY <1>2, <2>1
<1>5. Matches(a) \in Seq(Specs) /\ Matches(c) \in Seq(Specs)
  BY <1>2, <1>3, MatchesType
<1>6. IsPrefix(Matches(a), Matches(SubSeq(s, 1, q)))
  <2> DEFINE x == Matches(a)
             y == Matches(c)
  <2>1. x \in Seq(Specs) /\ y \in Seq(Specs)
    BY <1>5
  <2> HIDE DEF x, y
  <2>2. IsPrefix(x, x \o y)
    BY <2>1, ConcatPrefix
  <2> QED BY <1>4, <2>2 DEF x, y
<1> QED BY <1>2, <1>3, <1>4, <1>6 DEF a, c

\* The reader moves neither the position nor what comes before it.
LEMMA ReaderKeepsPosition ==
    ASSUME IInv, IInv', FilterTypes, Placed, Written, Producer,
           UNCHANGED <<mpc, chunk_i, item_i, out, printed>>
    PROVE  Placed' /\ Written' /\ Position' = Position
<1>f. TypeOK /\ ItemsAreInput /\ ~AtStart = ~AtStart' /\ nchunks \in Nat /\ nchunks' \in Nat
  BY DEF IInv, TypeOK, AtStart
<1>1. Advances
  BY ProducerAdvances
<1>2. UNCHANGED <<cpc, cur, snap>> /\ Place' = Place
  BY DEF Producer, consumerVars, Place
<1>3. Position \in Nat /\ Position <= Len(input) /\ Len(input) \in Nat
  BY PositionIs
<1>4. ASSUME ~AtStart
      PROVE  /\ Place \in 1 .. nchunks' /\ item_i <= Len(chunk'[Place].items)
             /\ (Base(Place))' = Base(Place)
  <2>1. Place \in 1 .. nchunks /\ item_i <= Len(chunk[Place].items) /\ Len(chunk[Place].items) \in Nat
    BY <1>4, PositionIs
  <2>2. /\ Place \in 1 .. nchunks' /\ Len(chunk[Place].items) <= Len(chunk'[Place].items)
        /\ chunk'[Place].first_index = chunk[Place].first_index
    BY <1>1, <1>f, <2>1 DEF Advances
  <2>3. Len(chunk'[Place].items) \in Nat
    <3>1. TypeOK'
      BY DEF IInv
    <3>2. /\ chunk' \in [ChunkId -> Chunk] /\ nchunks' \in Nat
          /\ nchunks' <= MaxItems /\ MaxItems \in Nat
      BY <3>1, ConstantsAssumption DEF TypeOK
    <3> DEFINE k == Place
    <3>3. k \in 1 .. nchunks'
      BY <2>2
    <3> HIDE DEF k
    <3>4. k \in ChunkId
      BY <3>2, <3>3 DEF ChunkId
    <3>5. chunk'[k] \in Chunk
      BY <3>2, <3>4
    <3>6. Len(chunk'[k].items) \in Nat
      BY <3>5 DEF Chunk
    <3> QED BY <3>6 DEF k
  <2>4. item_i <= Len(chunk'[Place].items)
    <3>1. item_i \in Nat
      BY DEF FilterTypes
    <3> QED BY <2>1, <2>2, <2>3, <3>1
  <2>5. (Base(Place))' = Base(Place)
    BY <1>2, <2>2 DEF Base
  <2> QED BY <2>2, <2>4, <2>5
<1>5. Placed'
  BY <1>2, <1>4 DEF Placed, AtStart
<1>6. Position' = Position
  BY <1>4 DEF Position, AtStart
<1>7. SubSeq(input', 1, Position) = SubSeq(input, 1, Position)
  <2>1. CASE input' = input
    BY <2>1
  <2>2. CASE input' # input
    <3>1. input' = Append(input, spec)
      BY <2>2 DEF Producer, AppendBegin, AppendWrite, AppendPublish, AppendTotal, FinishSeal, FinishStore
    <3>2. input \in Seq(Specs) /\ spec \in Specs
      BY <1>f DEF TypeOK
    <3> DEFINE p == Position
    <3>3. p \in Nat /\ p <= Len(input)
      BY <1>3
    <3> HIDE DEF p
    <3>4. SubSeq(Append(input, spec), 1, p) = SubSeq(input, 1, p)
      BY <3>2, <3>3, PrefixKept
    <3> QED BY <3>1, <3>4 DEF p
  <2> QED BY <2>1, <2>2
<1>8. Written'
  BY <1>6, <1>7 DEF Written
<1> QED BY <1>5, <1>6, <1>8

-----------------------------------------------------------------------------
(* FInv is inductive. *)

LEMMA FilterInitInv == FilterInit => FInv
<1> SUFFICES ASSUME FilterInit PROVE FInv
  OBVIOUS
<1>1. /\ rpc = "feed" /\ mpc = "install" /\ chunk_i = 0 /\ item_i = 0 /\ out = <<>> /\ printed = <<>>
      /\ {wake_cb, wake_pending, woke, mu_held} \subseteq BOOLEAN
      /\ input = <<>> /\ cpc = [c \in Consumers |-> "idle"]
  BY DEF FilterInit, Init
<1>2. <<>> \in Seq(Specs) /\ <<>> \o <<>> = <<>> /\ 0 \in Nat
  OBVIOUS
<1>3. FilterTypes
  BY <1>1, <1>2 DEF FilterTypes
<1>4. Placed
  BY <1>1, MainIs DEF Placed, AtStart
<1>5. SubSeq(input, 1, Position) = <<>>
  <2>1. Position = 0
    BY <1>1 DEF Position, AtStart
  <2>2. SubSeq(<<>>, 1, 0) = <<>>
    OBVIOUS
  <2> QED BY <1>1, <2>1, <2>2
<1>6. Written
  BY <1>1, <1>2, <1>5, MatchesNone DEF Written
<1> QED BY <1>3, <1>4, <1>6 DEF FInv

\* Steps of the main thread outside the snapshot and the loop over its chunks.
LEMMA StillInv ==
    ASSUME FInv, FilterTypes', UNCHANGED <<vars, chunk_i, item_i, out, printed>>,
           mpc \notin {"print", "snapshot"}, mpc' # "print"
    PROVE  FInv'
<1>1. UNCHANGED <<chunk, nchunks, input, cpc, cur, snap>>
  BY DEF vars
<1>2. cpc[Main] = "idle"
  BY DEF FInv, Placed
<1>3. Place' = Place /\ AtStart' = AtStart
  BY DEF Place, AtStart
<1>4. Placed'
  <2>1. (AtStart \/ (Place \in 1 .. nchunks /\ item_i <= Len(chunk[Place].items)))'
    BY <1>1, <1>3 DEF FInv, Placed
  <2>2. (mpc = "print" => chunk_i <= snap[Main].n)'
    OBVIOUS
  <2>3. cpc'[Main] = "idle"
    BY <1>1, <1>2
  <2> QED BY <2>1, <2>2, <2>3 DEF Placed
<1>5. Position' = Position
  BY <1>1, <1>3 DEF Position, Base
<1>6. Written'
  BY <1>1, <1>5 DEF FInv, Written
<1> QED BY <1>4, <1>6 DEF FInv

\* What the invariant of the list says of the snapshot the main thread holds.
LEMMA SnapshotFacts ==
    ASSUME IInv
    PROVE  LET s == snap[Main] IN
           /\ s \in Snapshot /\ s.n \in Nat /\ s.n <= nchunks
           /\ s.counts \in Seq(Nat) /\ Len(s.counts) = s.n
           /\ \A k \in 1 .. s.n : /\ s.counts[k] \in Nat
                                  /\ s.counts[k] <= Len(chunk[k].items)
                                  /\ k < s.n => s.counts[k] = Len(chunk[k].items)
           /\ s.count = IF s.n = 0 THEN 0 ELSE Base(s.n) + s.counts[s.n]
<1> DEFINE s == snap[Main]
<1>1. Filling(s) /\ Len(s.counts) = s.n /\ s \in Snapshot /\ MaxItems \in Nat
  BY MainIs, ConstantsAssumption DEF IInv, ConsumersAgree, TypeOK
<1> HIDE DEF s
<1>2. s.n \in Nat /\ s.counts \in Seq(Nat)
  BY <1>1 DEF Snapshot
<1>3. \A k \in 1 .. s.n : s.counts[k] \in Nat
  BY <1>1, <1>2
<1>4. s \in Snapshot /\ s.n \in Nat /\ s.n <= nchunks /\ s.counts \in Seq(Nat) /\ Len(s.counts) = s.n
  BY <1>1, <1>2 DEF Filling
<1>5. \A k \in 1 .. s.n : /\ s.counts[k] \in Nat
                          /\ s.counts[k] <= Len(chunk[k].items)
                          /\ k < s.n => s.counts[k] = Len(chunk[k].items)
  BY <1>1, <1>3 DEF Filling
<1>6. s.count = IF s.n = 0 THEN 0 ELSE Base(s.n) + s.counts[s.n]
  BY <1>1 DEF Filling
<1> QED BY <1>4, <1>5, <1>6 DEF s

LEMMA MainSnapshotInv ==
    ASSUME IInv, FInv, MainSnapshot
    PROVE  FInv'
<1>1. /\ mpc = "snapshot" /\ UNCHANGED <<chunk, nchunks, input, chunk_i, item_i, out, printed>>
      /\ mpc' = IF cpc'[Main] = "idle" THEN "print" ELSE "snapshot"
      /\ UNCHANGED <<readerVars, wake_cb>>
  BY DEF MainSnapshot, producerVars
<1>t. /\ cpc \in [Consumers -> {"idle", "counts", "size"}] /\ cur \in [Consumers -> Snapshot]
      /\ snap \in [Consumers -> Snapshot] /\ nchunks \in Nat /\ chunk_i \in Nat
      /\ cur[Main] \in Snapshot
  BY MainIs, ChunkFacts DEF IInv, TypeOK, FInv, FilterTypes
<1>2. FilterTypes'
  BY <1>1 DEF FInv, FilterTypes, readerVars
<1>3. /\ AtStart' = AtStart
      /\ AtStart \/ (chunk_i + 1 \in 1 .. nchunks /\ item_i <= Len(chunk[chunk_i + 1].items))
  BY <1>1 DEF FInv, Placed, AtStart, Place
<1>4. /\ mpc' = "print" => chunk_i <= snap'[Main].n /\ (AtStart \/ chunk_i < snap'[Main].n)
      /\ cpc'[Main] # "idle" =>
            cpc'[Main] = "counts" /\ mpc' = "snapshot" /\ (AtStart \/ chunk_i < cur'[Main].n)
  <2>1. CASE SnapshotCopy(Main)
    <3>1. cpc' = [cpc EXCEPT ![Main] = "counts"] /\ cur' = [cur EXCEPT ![Main] = [n |-> nchunks, counts |-> <<>>, count |-> 0,
                                  finished |-> FALSE, low |-> Published]]
      BY <2>1 DEF SnapshotCopy
    <3>2. cpc'[Main] = "counts" /\ cur'[Main].n = nchunks
      BY <3>1, <1>t, MainIs
    <3>3. AtStart \/ chunk_i < nchunks
      BY <1>3, <1>t
    <3> QED BY <1>1, <3>2, <3>3
  <2>2. CASE SnapshotCount(Main)
    <3>1. /\ cpc[Main] = "counts" /\ cpc' = cpc
          /\ cur' = [cur EXCEPT ![Main] = WithCount(@, chunk[Len(cur[Main].counts) + 1].count)]
      BY <2>2 DEF SnapshotCount
    <3>2. cur'[Main].n = cur[Main].n
      BY <3>1, <1>t, MainIs DEF WithCount
    <3>3. AtStart \/ chunk_i < cur[Main].n
      BY <3>1 DEF FInv, Placed
    <3> QED BY <1>1, <3>1, <3>2, <3>3
  <2>3. CASE SnapshotFinished(Main)
    <3>1. /\ cpc[Main] = "counts" /\ cpc' = [cpc EXCEPT ![Main] = "idle"]
          /\ snap' = [snap EXCEPT ![Main] = [cur[Main] EXCEPT !.finished = finished]]
      BY <2>3 DEF SnapshotFinished
    <3>2. cpc'[Main] = "idle" /\ snap'[Main].n = cur[Main].n
      BY <3>1, <1>t, MainIs DEF Snapshot
    <3>3. AtStart \/ chunk_i < cur[Main].n
      BY <3>1 DEF FInv, Placed
    <3>4. cur[Main].n \in Nat
      BY <1>t, ConstantsAssumption DEF Snapshot
    <3>5. chunk_i <= cur[Main].n
      BY <3>3, <3>4, <1>t DEF AtStart
    <3> QED BY <3>2, <3>3, <3>5
  <2> QED BY <2>1, <2>2, <2>3 DEF MainSnapshot
<1>5. ~AtStart => Place' = chunk_i + 1 /\ Place = chunk_i + 1
  <2>1. ~AtStart /\ mpc' = "print" => chunk_i < snap'[Main].n
    BY <1>4
  <2>2. ~AtStart /\ mpc' = "print" => chunk_i # snap'[Main].n
    <3>1. ASSUME chunk_i = snap'[Main].n, chunk_i < snap'[Main].n PROVE FALSE
      BY <3>1, <1>t
    <3> QED BY <2>1, <3>1
  <2> QED BY <1>1, <2>2 DEF Place
<1>6. Placed'
  BY <1>1, <1>3, <1>4, <1>5 DEF Placed
<1>7. Position' = Position
  BY <1>1, <1>3, <1>5 DEF Position, Base
<1>8. Written'
  BY <1>1, <1>7 DEF FInv, Written
<1> QED BY <1>2, <1>6, <1>8 DEF FInv

\* Where the loop over the chunks stands: in the chunk that it prints next.
LEMMA LoopPosition ==
    ASSUME IInv, FInv, mpc = "print", chunk_i < snap[Main].n
    PROVE  /\ chunk_i \in Nat /\ chunk_i + 1 \in 1 .. snap[Main].n /\ chunk_i + 1 \in 1 .. nchunks
           /\ item_i <= Len(chunk[chunk_i + 1].items)
           /\ Base(chunk_i + 1) \in Nat
           /\ Position = Base(chunk_i + 1) + item_i
<1>f. TypeOK /\ ChunksFollow /\ ItemsAreInput /\ nchunks \in Nat /\ chunk_i \in Nat /\ item_i \in Nat
  BY ChunkFacts DEF IInv, FInv, FilterTypes
<1> DEFINE n == snap[Main].n
<1>s. n \in Nat /\ n <= nchunks /\ chunk_i < n
  BY SnapshotFacts
<1>1. chunk_i + 1 \in 1 .. n /\ chunk_i + 1 \in 1 .. nchunks /\ chunk_i # n
  <2> HIDE DEF n
  <2> QED BY <1>f, <1>s
<1>2. Place = chunk_i + 1
  BY <1>1 DEF Place
<1>3. Base(chunk_i + 1) \in Nat
  BY <1>1, <1>f, BaseFacts
<1>4. CASE AtStart
  <2>1. chunk_i + 1 = 1 /\ item_i = 0 /\ nchunks > 0
    BY <1>1, <1>4, <1>f DEF AtStart
  <2>2. chunk[1].first_index = FirstIndex
    BY <1>f, <2>1 DEF ChunksFollow
  <2>3. Base(1) = 0
    BY <2>2, ConstantsAssumption DEF Base
  <2>4. Len(chunk[chunk_i + 1].items) \in Nat
    BY <1>1, <1>f, ChunkFacts
  <2>5. Position = 0
    BY <1>4 DEF Position
  <2>6. Position = Base(chunk_i + 1) + item_i
    BY <2>1, <2>3, <2>5
  <2> QED BY <1>1, <1>3, <1>f, <2>1, <2>4, <2>6
<1>5. CASE ~AtStart
  <2>1. item_i <= Len(chunk[chunk_i + 1].items)
    BY <1>2, <1>5 DEF FInv, Placed
  <2>2. Position = Base(chunk_i + 1) + item_i
    BY <1>2, <1>5 DEF Position
  <2> QED BY <1>1, <1>3, <1>f, <2>1, <2>2
<1> QED BY <1>4, <1>5

\* The records of a chunk are a stretch of the input.
LEMMA RecordsAre ==
    ASSUME IInv, NEW k \in 1 .. nchunks, NEW a \in Nat, NEW c \in Nat,
           a <= c, c <= Len(chunk[k].items)
    PROVE  Records(k, a, c) = SubSeq(input, Base(k) + a + 1, Base(k) + c)
<1> DEFINE b == Base(k)
<1>f. TypeOK /\ ItemsAreInput /\ input \in Seq(Specs) /\ Len(input) \in Nat
  BY DEF IInv, TypeOK
<1>1. b \in Nat /\ Len(chunk[k].items) \in Nat /\ b + Len(chunk[k].items) <= Len(input)
  BY <1>f, BaseFacts, ChunkFacts DEF ItemsAreInput
<1>2. \A j \in 1 .. c - a : chunk[k].items[a + j].spec = input[b + (a + j)]
  <2> SUFFICES ASSUME NEW j \in 1 .. c - a PROVE chunk[k].items[a + j].spec = input[b + (a + j)]
    OBVIOUS
  <2>1. a + j \in 1 .. Len(chunk[k].items)
    BY <1>1
  <2> HIDE DEF b
  <2>2. chunk[k].items[a + j].spec = input[b + (a + j)]
    BY <2>1, <1>f DEF ItemsAreInput, b
  <2> QED BY <2>2
<1>3. b + c <= Len(input)
  <2> DEFINE l == Len(chunk[k].items)
  <2>1. l \in Nat /\ b + l <= Len(input) /\ c <= l
    BY <1>1
  <2> HIDE DEF l, b
  <2> QED BY <1>1, <1>f, <2>1
<1> DEFINE t == SubSeq(input, b + a + 1, b + c)
<1>4. t = [j \in 1 .. c - a |-> input[b + (a + j)]]
  <2> HIDE DEF b
  <2>1. (b + c) - (b + a + 1) + 1 = c - a
    BY <1>1
  <2>2. \A j \in 1 .. c - a : (b + a + 1) + j - 1 = b + (a + j)
    BY <1>1
  <2>3. SubSeq(input, b + a + 1, b + c) =
           [j \in 1 .. (b + c) - (b + a + 1) + 1 |-> input[(b + a + 1) + j - 1]]
    BY <1>1
  <2> QED BY <2>1, <2>2, <2>3
<1>5. Records(k, a, c) = [j \in 1 .. c - a |-> input[b + (a + j)]]
  <2> HIDE DEF b
  <2> QED BY <1>2 DEF Records
<1> QED BY <1>4, <1>5

\* Looking at more records, from the position on.
LEMMA WrittenOn ==
    ASSUME IInv, FInv, NEW q \in Nat, Position <= q, q <= Len(input)
    PROVE  /\ SubSeq(input, Position + 1, q) \in Seq(Specs)
           /\ printed \o (out \o Matches(SubSeq(input, Position + 1, q))) = Matches(SubSeq(input, 1, q))
           /\ out \o Matches(SubSeq(input, Position + 1, q)) \in Seq(Specs)
<1> DEFINE p == Position
<1>1. p \in Nat /\ p <= q /\ input \in Seq(Specs) /\ out \in Seq(Specs) /\ printed \in Seq(Specs)
  BY PositionIs DEF IInv, TypeOK, FInv, FilterTypes
<1>2. printed \o out = Matches(SubSeq(input, 1, p))
  BY DEF FInv, Written
<1> HIDE DEF p
<1> DEFINE m == Matches(SubSeq(input, p + 1, q))
<1>3. /\ SubSeq(input, p + 1, q) \in Seq(Specs)
      /\ Matches(SubSeq(input, 1, q)) = Matches(SubSeq(input, 1, p)) \o m
  BY <1>1, MatchesOn
<1>4. m \in Seq(Specs)
  BY <1>3, MatchesType
<1> HIDE DEF m
<1>5. (printed \o out) \o m = printed \o (out \o m)
  BY <1>1, <1>4, ConcatAssociative
<1>6. out \o m \in Seq(Specs)
  BY <1>1, <1>4
<1> QED BY <1>2, <1>3, <1>5, <1>6 DEF p, m

LEMMA MainPrintChunkInv ==
    ASSUME IInv, FInv, MainPrintChunk
    PROVE  FInv' /\ Position' >= Base(chunk_i + 1) + snap[Main].counts[chunk_i + 1]
<1> DEFINE k == chunk_i + 1
           n == snap[Main].n
           x == snap[Main].counts[k]
           l == Len(chunk[k].items)
           b == Base(k)
<1>1. /\ mpc = "print" /\ chunk_i < n /\ mpc' = mpc /\ chunk_i' = k
      /\ out' = IF item_i < x THEN out \o Matches(Records(k, item_i, x)) ELSE out
      /\ item_i' = IF k < n THEN 0 ELSE IF item_i < x THEN x ELSE item_i
      /\ printed' = printed /\ UNCHANGED <<vars, readerVars, wake_cb>>
  BY DEF MainPrintChunk
<1>v. UNCHANGED <<chunk, nchunks, input, cpc, cur, snap>>
  BY <1>1 DEF vars
<1>f. TypeOK /\ ChunksFollow /\ ItemsAreInput /\ nchunks \in Nat /\ Len(input) \in Nat
      /\ item_i \in Nat /\ out \in Seq(Specs) /\ printed \in Seq(Specs)
  BY ChunkFacts DEF IInv, FInv, FilterTypes
<1>2. /\ chunk_i \in Nat /\ k \in 1 .. n /\ k \in 1 .. nchunks /\ item_i <= l /\ b \in Nat
      /\ Position = b + item_i
  BY <1>1, LoopPosition
<1>3. n \in Nat /\ n <= nchunks /\ x \in Nat /\ x <= l /\ (k < n => x = l)
  BY <1>2, SnapshotFacts
<1>4. l \in Nat /\ b + l <= Len(input)
  BY <1>2, <1>f, ChunkFacts DEF ItemsAreInput
<1>5. k < n => Base(k + 1) = b + l
  <2>1. k < n => k < nchunks
    <3> HIDE DEF n, k
    <3> QED BY <1>2, <1>3, <1>f
  <2> QED BY <1>2, <1>f, <2>1, BaseFollows
<1>6. ~AtStart' /\ k \in Nat /\ k # 0
  BY <1>1, <1>2 DEF AtStart
<1>7. Place' = IF k = n THEN k ELSE k + 1
  <2>1. chunk_i' = snap'[Main].n <=> k = n
    BY <1>1, <1>v
  <2> QED BY <1>1, <2>1 DEF Place
<1>y. \A j : chunk'[j].first_index - FirstIndex = Base(j)
  BY <1>v DEF Base
<1> DEFINE q == IF item_i < x THEN b + x ELSE b + item_i
<1>8. /\ item_i' \in Nat /\ Placed'
      /\ Position' = q
  <2>c. cpc'[Main] = "idle"
    BY <1>1, <1>v DEF FInv, Placed
  <2>s. snap'[Main].n = n
    BY <1>v
  <2>1. CASE k < n
    <3>1. Place' = k + 1 /\ k + 1 \in 1 .. nchunks /\ k # n
      <4> HIDE DEF k, n
      <4> QED BY <1>2, <1>3, <1>7, <1>f, <2>1
    <3>2. item_i' = 0 /\ x = l
      BY <1>1, <1>3, <2>1
    <3>3. Len(chunk[k + 1].items) \in Nat
      BY <3>1, <1>f, ChunkFacts
    <3>4. Position' = Base(k + 1) + 0
      <4>1. Position' = (chunk'[Place'].first_index - FirstIndex) + item_i'
        BY <1>6 DEF Position, Base
      <4> QED BY <3>1, <3>2, <1>y, <4>1
    <3>5. Position' = b + l /\ q = b + l
      <4>1. q = b + l
        <5> HIDE DEF b, l, x
        <5> QED BY <1>f, <1>2, <1>3, <1>4, <3>2
      <4> QED BY <1>5, <1>2, <1>4, <2>1, <3>4, <4>1
    <3>6. Placed'
      <4>1. 0 <= Len(chunk'[k + 1].items)
        BY <3>3, <1>v
      <4>2. k <= n
        BY <1>2, <1>3
      <4> QED BY <1>1, <1>v, <2>c, <2>s, <3>1, <3>2, <4>1, <4>2 DEF Placed
    <3> QED BY <3>2, <3>5, <3>6
  <2>2. CASE ~(k < n)
    <3>1. k = n /\ Place' = k
      <4> HIDE DEF k, n
      <4> QED BY <1>2, <1>3, <1>7, <2>2
    <3>2. item_i' = IF item_i < x THEN x ELSE item_i
      BY <1>1, <2>2
    <3>3. item_i' \in Nat /\ item_i' <= l
      <4> HIDE DEF x, l
      <4> QED BY <1>f, <1>2, <1>3, <3>2
    <3>4. Position' = b + item_i'
      <4>1. Position' = (chunk'[Place'].first_index - FirstIndex) + item_i'
        BY <1>6 DEF Position, Base
      <4> QED BY <3>1, <1>y, <4>1
    <3>5. Position' = q
      BY <3>2, <3>4
    <3>6. Placed'
      <4>1. item_i' <= Len(chunk'[k].items)
        BY <3>3, <1>v
      <4>2. k <= n
        BY <1>2, <1>3
      <4> QED BY <1>1, <1>2, <1>v, <2>c, <2>s, <3>1, <4>1, <4>2 DEF Placed
    <3> QED BY <3>3, <3>5, <3>6
  <2> QED BY <2>1, <2>2
<1>9. out' \in Seq(Specs) /\ printed \o out' = Matches(SubSeq(input, 1, q))
  <2>1. CASE item_i < x
    <3>1. q = b + x
      BY <2>1
    <3>2. b + x \in Nat /\ Position <= b + x /\ b + x <= Len(input)
      <4> HIDE DEF x, l, b
      <4> QED BY <1>f, <1>2, <1>3, <1>4, <2>1
    <3>3. Records(k, item_i, x) = SubSeq(input, b + item_i + 1, b + x)
      <4>1. item_i <= x
        BY <1>f, <1>3, <2>1
      <4> HIDE DEF k, x
      <4> QED BY <1>2, <1>3, <1>f, <4>1, RecordsAre
    <3>4. Records(k, item_i, x) = SubSeq(input, Position + 1, b + x)
      BY <1>2, <3>3
    <3> DEFINE e == b + x
    <3>5. e \in Nat /\ Position <= e /\ e <= Len(input) /\ out' = out \o Matches(SubSeq(input, Position + 1, e))
      BY <1>1, <2>1, <3>2, <3>4
    <3> HIDE DEF e
    <3>6. /\ printed \o (out \o Matches(SubSeq(input, Position + 1, e))) = Matches(SubSeq(input, 1, e))
          /\ out \o Matches(SubSeq(input, Position + 1, e)) \in Seq(Specs)
      BY <3>5, WrittenOn
    <3>7. q = e
      BY <3>1 DEF e
    <3> HIDE DEF q
    <3> QED BY <3>5, <3>6, <3>7
  <2>2. CASE ~(item_i < x)
    <3>1. out' = out /\ q = Position
      BY <1>1, <1>2, <2>2
    <3> HIDE DEF q
    <3> QED BY <1>f, <3>1 DEF FInv, Written
  <2> QED BY <2>1, <2>2
<1>10. FilterTypes'
  <2>1. chunk_i' \in Nat
    BY <1>1, <1>6
  <2> QED BY <1>1, <1>8, <1>9, <1>f, <2>1 DEF FInv, FilterTypes, readerVars
<1>11. Written'
  <2> HIDE DEF q
  <2> QED BY <1>1, <1>v, <1>8, <1>9 DEF Written
<1>12. Position' >= b + x
  <2>1. q >= b + x
    <3> HIDE DEF b, x
    <3> QED BY <1>f, <1>2, <1>3
  <2> HIDE DEF q
  <2> QED BY <1>8, <2>1
<1> QED BY <1>8, <1>10, <1>11, <1>12 DEF FInv

LEMMA MainWriteInv ==
    ASSUME IInv, FInv, MainWrite
    PROVE  FInv' /\ Position' = Position
<1> DEFINE n == snap[Main].n
<1>1. /\ mpc = "print" /\ ~(chunk_i < n)
      /\ chunk_i' = IF chunk_i > 0 /\ chunk_i = n THEN chunk_i - 1 ELSE chunk_i
      /\ printed' = printed \o out /\ out' = <<>> /\ mpc' \in {"uninstall", "wait"}
      /\ UNCHANGED <<vars, readerVars, wake_cb, item_i>>
  BY DEF MainWrite
<1>v. UNCHANGED <<chunk, nchunks, input, cpc, cur, snap>>
  BY <1>1 DEF vars
<1>f. /\ TypeOK /\ ChunksFollow /\ ItemsAreInput /\ nchunks \in Nat /\ chunk_i \in Nat /\ item_i \in Nat
      /\ out \in Seq(Specs) /\ printed \in Seq(Specs) /\ n \in Nat /\ chunk_i <= n
  BY <1>1, ChunkFacts, SnapshotFacts DEF IInv, FInv, FilterTypes, Placed
<1>2. chunk_i = n
  <2> HIDE DEF n
  <2> QED BY <1>1, <1>f
<1>3. Place = chunk_i /\ cpc[Main] = "idle"
  BY <1>1, <1>2 DEF Place, FInv, Placed
<1>4. Placed' /\ Position' = Position /\ chunk_i' \in Nat
  <2>1. CASE chunk_i = 0
    <3>1. AtStart
      BY <1>3, <2>1 DEF FInv, Placed
    <3>2. AtStart' /\ chunk_i' = 0
      BY <1>1, <2>1, <3>1 DEF AtStart
    <3>3. Placed'
      BY <1>1, <1>3, <1>v, <3>2 DEF Placed
    <3>4. Position' = Position
      BY <3>1, <3>2 DEF Position
    <3> QED BY <3>2, <3>3, <3>4
  <2>2. CASE chunk_i # 0
    <3>1. ~AtStart /\ chunk_i' = chunk_i - 1 /\ chunk_i' \in Nat /\ chunk_i' + 1 = chunk_i
      <4>1. chunk_i' = chunk_i - 1
        BY <1>1, <1>2, <1>f, <2>2
      <4> QED BY <1>f, <2>2, <4>1 DEF AtStart
    <3>2. Place' = chunk_i /\ Place = chunk_i
      BY <1>1, <1>3, <3>1 DEF Place
    <3>3. chunk_i \in 1 .. nchunks /\ item_i <= Len(chunk[chunk_i].items)
      BY <1>3, <3>1 DEF FInv, Placed
    <3>4. Placed'
      BY <1>1, <1>3, <1>v, <3>2, <3>3 DEF Placed
    <3>5. Position = Base(chunk_i) + item_i
      BY <3>1, <3>2 DEF Position
    <3>6. Position' = Position
      <4>1. CASE AtStart'
        <5>1. chunk_i = 1 /\ item_i = 0 /\ nchunks > 0
          BY <1>1, <1>f, <3>1, <3>3, <4>1 DEF AtStart
        <5>2. Base(1) = 0
          BY <1>f, <5>1, ConstantsAssumption DEF ChunksFollow, Base
        <5>3. Position = 0
          BY <3>5, <5>1, <5>2
        <5> QED BY <4>1, <5>3 DEF Position
      <4>2. CASE ~AtStart'
        <5>2. Position' = chunk'[Place'].first_index - FirstIndex + item_i'
          BY <4>2 DEF Position, Base
        <5>3. Position' = chunk[chunk_i].first_index - FirstIndex + item_i
          BY <1>1, <1>v, <3>2, <5>2
        <5> QED BY <3>5, <5>3 DEF Base
      <4> QED BY <4>1, <4>2
    <3> QED BY <3>1, <3>4, <3>6
  <2> QED BY <2>1, <2>2
<1>5. printed \o out \in Seq(Specs) /\ (printed \o out) \o <<>> = printed \o out /\ <<>> \in Seq(Specs)
  BY <1>f
<1>6. FilterTypes'
  BY <1>1, <1>4, <1>5 DEF FInv, FilterTypes, readerVars
<1>7. Written'
  BY <1>1, <1>v, <1>4, <1>5 DEF FInv, Written
<1> QED BY <1>4, <1>6, <1>7 DEF FInv

LEMMA NextFInv == IInv /\ IInv' /\ FInv /\ [FilterNext]_allVars => FInv'
<1> SUFFICES ASSUME IInv, IInv', FInv, [FilterNext]_allVars PROVE FInv'
  OBVIOUS
<1>f. FilterTypes /\ Placed /\ Written
  BY DEF FInv
<1>1. CASE ReaderFeed
  <2>1. /\ Producer /\ UNCHANGED <<mpc, chunk_i, item_i, out, printed>>
        /\ rpc' \in {"feed", "copy", "reap"} /\ UNCHANGED <<wake_cb, wake_pending, woke, mu_held>>
    BY <1>1 DEF ReaderFeed, mainVars
  <2>2. Placed' /\ Written'
    BY <2>1, <1>f, ReaderKeepsPosition
  <2>3. FilterTypes'
    BY <2>1, <1>f DEF FilterTypes
  <2> QED BY <2>2, <2>3 DEF FInv
<1>2. CASE ReaderReap \/ WakeCopy \/ WakeExchange \/ WakeCall \/ UNCHANGED allVars
  <2>1. UNCHANGED <<vars, mpc, chunk_i, item_i, out, printed, wake_cb>>
    BY <1>2 DEF ReaderReap, WakeCopy, WakeExchange, WakeCall, mainVars, allVars, filterVars
  <2>2. FilterTypes'
    <3>1. CASE WakeCopy
      BY <2>1, <3>1, <1>f DEF WakeCopy, FilterTypes
    <3>2. CASE WakeExchange
      BY <2>1, <3>2, <1>f DEF WakeExchange, FilterTypes
    <3>3. CASE WakeCall
      BY <2>1, <3>3, <1>f DEF WakeCall, FilterTypes
    <3>4. CASE UNCHANGED allVars
      BY <2>1, <3>4, <1>f DEF allVars, filterVars, FilterTypes
    <3>5. CASE ReaderReap
      BY <2>1, <3>5, <1>f DEF ReaderReap, FilterTypes
    <3> QED BY <1>2, <3>1, <3>2, <3>3, <3>4, <3>5
  <2>3. UNCHANGED <<chunk, nchunks, input, cpc, cur, snap, mpc, chunk_i, item_i, out, printed>>
    BY <2>1 DEF vars
  <2>4. Place' = Place /\ AtStart' = AtStart
    BY <2>3 DEF Place, AtStart
  <2>5. Placed'
    BY <2>3, <2>4, <1>f DEF Placed
  <2>6. Position' = Position
    BY <2>3, <2>4 DEF Position, Base
  <2>7. Written'
    BY <2>3, <2>6, <1>f DEF Written
  <2> QED BY <2>2, <2>5, <2>7 DEF FInv
<1>3. CASE MainSnapshot
  BY <1>3, MainSnapshotInv
<1>4. CASE MainPrintChunk
  BY <1>4, MainPrintChunkInv
<1>5. CASE MainWrite
  BY <1>5, MainWriteInv
<1>6. CASE MainInstall
  <2>1. /\ mpc = "install" /\ mpc' = "snapshot" /\ wake_cb' = TRUE
        /\ UNCHANGED <<vars, readerVars, chunk_i, item_i, out, printed>>
    BY <1>6 DEF MainInstall
  <2>2. FilterTypes'
    BY <2>1, <1>f DEF FilterTypes, readerVars
  <2> QED BY <2>1, <2>2, StillInv
<1>7. CASE MainWait
  <2>1. /\ mpc = "wait" /\ mpc' = "ack" /\ woke' = FALSE /\ mu_held' = TRUE
        /\ UNCHANGED <<vars, rpc, wake_pending, wake_cb, chunk_i, item_i, out, printed>>
    BY <1>7 DEF MainWait
  <2>2. FilterTypes'
    BY <2>1, <1>f DEF FilterTypes
  <2> QED BY <2>1, <2>2, StillInv
<1>8. CASE MainAck
  <2>1. /\ mpc = "ack" /\ mpc' = "snapshot" /\ wake_pending' = FALSE /\ mu_held' = FALSE
        /\ UNCHANGED <<vars, rpc, woke, wake_cb, chunk_i, item_i, out, printed>>
    BY <1>8 DEF MainAck
  <2>2. FilterTypes'
    BY <2>1, <1>f DEF FilterTypes
  <2> QED BY <2>1, <2>2, StillInv
<1>9. CASE MainUninstall
  <2>1. /\ mpc = "uninstall" /\ mpc' = "end" /\ wake_cb' = FALSE
        /\ UNCHANGED <<vars, readerVars, chunk_i, item_i, out, printed>>
    BY <1>9 DEF MainUninstall
  <2>2. FilterTypes'
    BY <2>1, <1>f DEF FilterTypes, readerVars
  <2> QED BY <2>1, <2>2, StillInv
<1> QED
  BY <1>1, <1>2, <1>3, <1>4, <1>5, <1>6, <1>7, <1>8, <1>9 DEF FilterNext, Reader, MainThread

LEMMA FilterInductive == FilterSpec => [](IInv /\ FInv)
<1>1. FilterSpec => []IInv
  BY ListInv
<1> QED BY <1>1, FilterInitInv, NextFInv, PTL DEF FilterSpec

\* What --filter has written is the matches of a prefix of the input, in the order
\* of the input, none twice and none left out: for every pattern, chunk size and
\* interleaving of the reader with the main thread, the print position survives a
\* tail chunk that grows, fills up, or is followed by others between two snapshots.
THEOREM Printed == FilterSpec => []PrintedInOrder
<1>1. IInv /\ FInv => PrintedInOrder
  <2> SUFFICES ASSUME IInv, FInv PROVE IsPrefix(printed, Matches(input))
    BY DEF PrintedInOrder
  <2>1. /\ printed \in Seq(Specs) /\ out \in Seq(Specs) /\ input \in Seq(Specs)
        /\ Position \in Nat /\ Position <= Len(input) /\ Len(input) \in Nat
    BY PositionIs DEF IInv, TypeOK, FInv, FilterTypes
  <2> DEFINE p == Position
             q == Len(input)
             m == Matches(SubSeq(input, p + 1, q))
  <2>2. /\ SubSeq(input, p + 1, q) \in Seq(Specs)
        /\ printed \o (out \o m) = Matches(SubSeq(input, 1, q))
        /\ out \o m \in Seq(Specs)
    <3>1. q \in Nat /\ Position <= q /\ q <= Len(input)
      BY <2>1
    <3> HIDE DEF q
    <3> QED BY <3>1, WrittenOn
  <2>3. SubSeq(input, 1, q) = input
    BY <2>1, SubSeqFull
  <2> HIDE DEF m
  <2> DEFINE r == out \o m
  <2>4. r \in Seq(Specs) /\ printed \o r = Matches(input)
    BY <2>2, <2>3
  <2> HIDE DEF r
  <2>5. IsPrefix(printed, printed \o r)
    BY <2>1, <2>4, ConcatPrefix
  <2> QED BY <2>4, <2>5
<1> QED BY <1>1, FilterInductive, PTL

-----------------------------------------------------------------------------
(* The main thread never sleeps through a wake. *)

LEMMA HandshakeKept ==
    ASSUME FInv, Handshake, [FilterNext]_allVars
    PROVE  Handshake'
<1>f. {wake_cb, wake_pending, woke, mu_held} \subseteq BOOLEAN
  BY DEF FInv, FilterTypes
<1>1. CASE ReaderFeed
  BY <1>1 DEF ReaderFeed, mainVars, Handshake
<1>2. CASE WakeCopy
  BY <1>2 DEF WakeCopy, mainVars, Handshake
<1>3. CASE WakeExchange
  BY <1>3 DEF WakeExchange, mainVars, Handshake
<1>4. CASE WakeCall
  BY <1>4, <1>f DEF WakeCall, mainVars, Handshake
<1>5. CASE MainInstall
  BY <1>5 DEF MainInstall, readerVars, Handshake
<1>6. CASE MainSnapshot
  <2>1. mpc = "snapshot" /\ mpc' \in {"print", "snapshot"} /\ UNCHANGED <<rpc, wake_pending, woke, mu_held, wake_cb>>
    BY <1>6 DEF MainSnapshot, readerVars
  <2> QED BY <2>1 DEF Handshake
<1>7. CASE MainPrintChunk
  BY <1>7 DEF MainPrintChunk, readerVars, Handshake
<1>8. CASE MainWrite
  <2>1. mpc = "print" /\ mpc' \in {"uninstall", "wait"} /\ UNCHANGED <<rpc, wake_pending, woke, mu_held, wake_cb>>
    BY <1>8 DEF MainWrite, readerVars
  <2> QED BY <2>1 DEF Handshake
<1>9. CASE MainWait
  BY <1>9 DEF MainWait, Handshake
<1>10. CASE MainAck
  BY <1>10 DEF MainAck, Handshake
<1>11. CASE MainUninstall
  BY <1>11 DEF MainUninstall, readerVars, Handshake
<1>12. CASE UNCHANGED allVars
  BY <1>12 DEF allVars, filterVars, Handshake
<1>13. CASE ReaderReap
  BY <1>13 DEF ReaderReap, mainVars, Handshake
<1> QED
  BY <1>1, <1>2, <1>3, <1>4, <1>5, <1>6, <1>7, <1>8, <1>9, <1>10, <1>11, <1>12, <1>13
     DEF FilterNext, Reader, MainThread

\* A step of the producer that no wake follows at once publishes nothing, and
\* finishes the list only if its command is to be waited for.
LEMMA SilentStep ==
    ASSUME IInv, ShownIs, ShownIs', ReaderFeed, ~WakeComing'
    PROVE  /\ ~WakeComing
           /\ Published' = Published /\ (finished' = finished \/ rpc' = "reap")
           /\ \A k \in 1 .. nchunks : Base(k) + chunk[k].count = chunk'[k].first_index - FirstIndex + chunk'[k].count
<1>1. /\ rpc = "feed" /\ Producer /\ ppc' # "total" /\ ppc # "total"
      /\ ppc = "finish" => rpc' = "reap"
  BY DEF ReaderFeed, WakeComing
<1>2. ~WakeComing
  BY <1>1 DEF WakeComing
<1>f. TypeOK /\ ChunksFollow /\ TailAgrees
  BY DEF IInv
<1>s. input \in Seq(Specs) /\ Len(input) \in Nat /\ nchunks \in Nat
  BY <1>f, ChunkFacts DEF TypeOK
<1>3. finished' = finished \/ rpc' = "reap"
  BY <1>1 DEF Producer, AppendBegin, AppendWrite, AppendPublish, AppendTotal, FinishSeal, FinishStore
<1>4. Published' = Published
  <2>1. Published = Len(input) - (IF ppc = "publish" THEN 1 ELSE 0)
    BY <1>s DEF ShownIs
  <2>2. Published' = IF ppc' = "publish" THEN Len(input') - 1 ELSE Len(input')
    BY DEF ShownIs
  <2>3. \/ ppc # "publish" /\ ppc' # "publish" /\ input' = input
        \/ ppc = "write" /\ ppc' = "publish" /\ input' = Append(input, spec)
    BY <1>1 DEF Producer, AppendBegin, AppendWrite, AppendPublish, AppendTotal, FinishSeal, FinishStore
  <2>4. CASE ppc # "publish" /\ ppc' # "publish" /\ input' = input
    BY <1>s, <2>1, <2>2, <2>4
  <2>5. CASE ppc = "write" /\ ppc' = "publish" /\ input' = Append(input, spec)
    <3>1. spec \in Specs
      BY <1>f DEF TypeOK
    <3>2. Len(input') = Len(input) + 1
      BY <1>s, <2>5, <3>1
    <3> QED BY <1>s, <2>1, <2>2, <2>5, <3>2
  <2> QED BY <2>3, <2>4, <2>5
<1>5. ASSUME NEW k \in 1 .. nchunks
      PROVE  Base(k) + chunk[k].count = chunk'[k].first_index - FirstIndex + chunk'[k].count
  <2>t. chunk[k] \in Chunk /\ k \in ChunkId /\ chunk \in [ChunkId -> Chunk] /\ k \in Nat
    BY <1>f, ChunkFacts DEF TypeOK
  <2>1. chunk'[k].first_index = chunk[k].first_index /\ chunk'[k].count = chunk[k].count
    <3>1. CASE \E s \in Specs : AppendBegin(s)
      <4>1. PICK s \in Specs : AppendBegin(s)
        BY <3>1
      <4>2. chunk'[k] = chunk[k] \/ chunk'[k] = [chunk[k] EXCEPT !.sealed = TRUE]
        <5>1. CASE UNCHANGED <<chunk, nchunks>>
          BY <5>1
        <5>2. CASE StartChunk(s.need)
          BY <2>t, <1>s, <5>2 DEF StartChunk
        <5> QED BY <4>1, <5>1, <5>2 DEF AppendBegin
      <4> QED BY <2>t, <4>2 DEF Chunk
    <3>2. CASE AppendWrite
      <4>1. chunk' = [chunk EXCEPT ![nchunks] = WithItem(chunk[nchunks], spec)]
        BY <3>2 DEF AppendWrite
      <4>2. chunk'[k] = chunk[k] \/ (k = nchunks /\ chunk'[k] = WithItem(chunk[k], spec))
        BY <2>t, <4>1
      <4> QED BY <4>2 DEF WithItem
    <3>3. CASE FinishSeal
      <4>1. chunk'[k] = chunk[k] \/ chunk'[k] = [chunk[k] EXCEPT !.sealed = TRUE]
        <5>1. CASE nchunks = 0
          BY <1>s, <5>1
        <5>2. CASE nchunks # 0
          <6>1. chunk' = [chunk EXCEPT ![nchunks].sealed = TRUE]
            BY <3>3, <5>2 DEF FinishSeal
          <6> QED BY <2>t, <6>1
        <5> QED BY <5>1, <5>2
      <4> QED BY <2>t, <4>1 DEF Chunk
    <3>4. CASE FinishStore
      BY <3>4 DEF FinishStore
    <3>5. ~AppendPublish /\ ~AppendTotal
      BY <1>1 DEF AppendPublish, AppendTotal
    <3> QED BY <1>1, <3>1, <3>2, <3>3, <3>4, <3>5 DEF Producer
  <2> QED BY <2>1 DEF Base
<1> QED BY <1>2, <1>3, <1>4, <1>5

LEMMA WaitsOpenKept ==
    ASSUME FInv, WaitsOpen, [FilterNext]_allVars
    PROVE  WaitsOpen'
<1>1. CASE Reader
  <2>1. UNCHANGED <<mpc, out, snap>>
    BY <1>1 DEF Reader, ReaderFeed, ReaderReap, WakeCopy, WakeExchange, WakeCall, mainVars, vars, Producer, consumerVars
  <2> QED BY <2>1 DEF WaitsOpen
<1>2. CASE MainWrite
  <2>1. snap' = snap /\ out' = <<>> /\ mpc' = IF snap[Main].finished THEN "uninstall" ELSE "wait"
    BY <1>2 DEF MainWrite, vars
  <2> QED BY <2>1 DEF WaitsOpen
<1>3. CASE MainThread /\ ~MainWrite
  <2>1. mpc' # "wait"
    BY <1>3 DEF MainThread, MainInstall, MainSnapshot, MainPrintChunk, MainWait, MainAck, MainUninstall
  <2> QED BY <2>1 DEF WaitsOpen
<1>4. CASE UNCHANGED allVars
  BY <1>4 DEF allVars, filterVars, vars, WaitsOpen
<1> QED BY <1>1, <1>2, <1>3, <1>4 DEF FilterNext

LEMMA PastKept ==
    ASSUME IInv, IInv', FInv, Past, [FilterNext]_allVars
    PROVE  Past'
<1>f. FilterTypes /\ Placed /\ Written
  BY DEF FInv
<1>1. CASE ReaderFeed
  <2>1. Producer /\ UNCHANGED <<mpc, chunk_i, item_i, out, printed, snap>>
    BY <1>1 DEF ReaderFeed, mainVars, Producer, consumerVars
  <2>2. Position' = Position
    BY <2>1, <1>f, ReaderKeepsPosition
  <2> QED BY <2>1, <2>2 DEF Past
<1>2. CASE UNCHANGED <<chunk, snap, mpc, chunk_i, item_i>>
  <2>1. Position' = Position
    BY <1>2 DEF Position, Place, AtStart, Base
  <2> QED BY <1>2, <2>1 DEF Past
<1>3. CASE MainSnapshot
  <2>1. /\ mpc = "snapshot" /\ mpc' = IF cpc'[Main] = "idle" THEN "print" ELSE "snapshot"
        /\ UNCHANGED <<chunk, chunk_i, item_i>>
    BY <1>3 DEF MainSnapshot, producerVars
  <2> SUFFICES ASSUME mpc' = "print", chunk_i' = snap'[Main].n PROVE Position' >= snap'[Main].count
    BY <2>1 DEF Past
  <2>2. cpc'[Main] = "idle" /\ chunk_i = snap'[Main].n
    BY <2>1
  <2>3. SnapshotFinished(Main)
    <3>1. cpc \in [Consumers -> {"idle", "counts", "size"}]
      BY DEF IInv, TypeOK
    <3>2. ~SnapshotCopy(Main)
      BY <2>2, <3>1, MainIs DEF SnapshotCopy
    <3>3. ~SnapshotCount(Main)
      BY <2>2, <3>1, MainIs DEF SnapshotCount
    <3> QED BY <1>3, <3>2, <3>3 DEF MainSnapshot
  <2>4. AtStart \/ chunk_i < cur[Main].n
    BY <1>f, <2>3 DEF SnapshotFinished, Placed
  <2>5. snap'[Main].n = cur[Main].n /\ cur[Main].n \in Nat
    <3>1. cur[Main] \in Snapshot /\ snap \in [Consumers -> Snapshot]
      BY MainIs DEF IInv, TypeOK
    <3>2. snap' = [snap EXCEPT ![Main] = [cur[Main] EXCEPT !.finished = finished]]
      BY <2>3 DEF SnapshotFinished
    <3> QED BY <3>1, <3>2, MainIs, ConstantsAssumption DEF Snapshot
  <2>6. AtStart /\ AtStart' /\ snap'[Main].n = 0
    <3>1. AtStart
      BY <2>2, <2>4, <2>5
    <3> QED BY <2>1, <2>2, <3>1 DEF AtStart
  <2>7. snap'[Main].count = 0
    <3>1. Filling(snap[Main])'
      BY MainIs DEF IInv, ConsumersAgree
    <3>2. /\ Len(snap'[Main].counts) <= snap'[Main].n
          /\ Len(snap'[Main].counts) = 0 => snap'[Main].count = 0
      BY <3>1 DEF Filling
    <3>3. snap'[Main] \in Snapshot
      BY MainIs DEF IInv, TypeOK
    <3>4. Len(snap'[Main].counts) \in Nat
      BY <3>3 DEF Snapshot
    <3> QED BY <2>6, <3>2, <3>4
  <2> QED BY <2>6, <2>7 DEF Position
<1>4. CASE MainPrintChunk
  <2>1. mpc = "print" /\ mpc' = "print" /\ snap' = snap /\ chunk_i' = chunk_i + 1 /\ chunk_i < snap[Main].n
    BY <1>4 DEF MainPrintChunk, vars
  <2> SUFFICES ASSUME chunk_i' = snap[Main].n PROVE Position' >= snap[Main].count
    BY <2>1 DEF Past
  <2>2. Position' >= Base(chunk_i + 1) + snap[Main].counts[chunk_i + 1]
    BY <1>4, MainPrintChunkInv
  <2>3. snap[Main].count = Base(snap[Main].n) + snap[Main].counts[snap[Main].n]
    <3>1. snap[Main].n # 0
      BY <1>f, <2>1 DEF FilterTypes
    <3> QED BY <3>1, SnapshotFacts
  <2> QED BY <2>1, <2>2, <2>3
<1>5. CASE MainWrite
  <2>1. mpc = "print" /\ snap' = snap /\ ~(chunk_i < snap[Main].n) /\ mpc' # "print"
    BY <1>5 DEF MainWrite, vars
  <2>2. chunk_i = snap[Main].n
    <3>1. chunk_i <= snap[Main].n /\ chunk_i \in Nat /\ snap[Main].n \in Nat
      BY <1>f, <2>1, SnapshotFacts DEF Placed, FilterTypes
    <3> QED BY <2>1, <3>1
  <2>3. Position' = Position
    BY <1>5, MainWriteInv
  <2> QED BY <2>1, <2>2, <2>3 DEF Past
<1>6. CASE mpc' \notin {"wait", "print"}
  BY <1>6 DEF Past
<1>7. \/ ReaderFeed \/ MainSnapshot \/ MainPrintChunk \/ MainWrite
      \/ UNCHANGED <<chunk, snap, mpc, chunk_i, item_i>> \/ mpc' \notin {"wait", "print"}
  BY DEF FilterNext, Reader, MainThread, ReaderReap, WakeCopy, WakeExchange, WakeCall, MainInstall, MainWait,
         MainAck, MainUninstall, vars, allVars, filterVars, mainVars
<1> QED BY <1>1, <1>2, <1>3, <1>4, <1>5, <1>6, <1>7

LEMMA SnapshotSaw ==
    ASSUME IInv, IInv', FInv, SawAll, MainSnapshot
    PROVE  SawAll'
<1>1. /\ mpc = "snapshot" /\ UNCHANGED <<chunk, nchunks, ppc, finished, rpc, wake_pending, woke>>
      /\ mpc' = IF cpc'[Main] = "idle" THEN "print" ELSE "snapshot"
  BY DEF MainSnapshot, producerVars, readerVars
<1>2. WakeComing' = WakeComing /\ Published' = Published
  BY <1>1 DEF WakeComing, Published, Base
<1>t. /\ cpc \in [Consumers -> {"idle", "counts", "size"}] /\ cur \in [Consumers -> Snapshot]
      /\ snap \in [Consumers -> Snapshot] /\ cur[Main] \in Snapshot /\ nchunks \in Nat
  BY MainIs, ChunkFacts DEF IInv, TypeOK
<1> DEFINE c == cur'[Main]
<1>3. CASE SnapshotCopy(Main)
  <2>1. /\ cpc' = [cpc EXCEPT ![Main] = "counts"]
        /\ cur' = [cur EXCEPT ![Main] = [n |-> nchunks, counts |-> <<>>, count |-> 0,
                                  finished |-> FALSE, low |-> Published]]
    BY <1>3 DEF SnapshotCopy
  <2>2. cpc'[Main] = "counts" /\ c.n = nchunks /\ c.counts = <<>> /\ c.count = 0
    BY <2>1, <1>t, MainIs
  <2>3. mpc' = "snapshot"
    BY <1>1, <2>2
  <2>4. IF Len(c.counts) = c.n THEN c.count = Published'
        ELSE Published' = Base(c.n) + chunk[c.n].count
    BY <1>2, <2>2 DEF Published
  <2>5. Base(c.n) + chunk[c.n].count = (chunk'[c.n].first_index - FirstIndex) + chunk'[c.n].count
    BY <1>1 DEF Base
  <2> QED BY <2>3, <2>4, <2>5 DEF SawAll, Base
<1>4. CASE SnapshotCount(Main)
  <2> DEFINE s == cur[Main]
             m == Len(s.counts)
             x == chunk[m + 1].count
  <2>1. cpc[Main] = "counts" /\ cpc' = cpc /\ m + 1 <= s.n /\ cur' = [cur EXCEPT ![Main] = WithCount(s, x)]
    BY <1>4 DEF SnapshotCount
  <2>2. c = WithCount(s, x) /\ mpc' = "snapshot"
    BY <1>1, <1>t, <2>1, MainIs
  <2>3. s.n \in Nat /\ s.counts \in Seq(Nat) /\ m \in Nat
    BY <1>t, ConstantsAssumption DEF Snapshot
  <2>4. m # s.n
    <3> HIDE DEF m, s
    <3> QED BY <2>1, <2>3
  <2>5. Filling(cur[Main])'
    BY <2>1, MainIs DEF IInv, ConsumersAgree
  <2>n. s.n <= nchunks
    BY <2>1, MainIs DEF IInv, ConsumersAgree, Filling
  <2>x. x \in Nat
    <3>1. m + 1 \in 1 .. nchunks
      <4> HIDE DEF m, s
      <4> QED BY <1>t, <2>1, <2>3, <2>n
    <3> HIDE DEF m
    <3> QED BY <3>1, ChunkFacts DEF IInv
  <2>6. c.n = s.n /\ c.counts = Append(s.counts, x)
    BY <2>2 DEF WithCount
  <2>7. Len(c.counts) = m + 1 /\ c.counts[m + 1] = x
    BY <2>3, <2>6, <2>x
  <2>8. ASSUME ~woke', ~WakeComing'
        PROVE  IF Len(c.counts) = c.n THEN c.count = Published'
               ELSE Published' = Base(c.n) + chunk[c.n].count
    <3>1. Published = Base(s.n) + chunk[s.n].count
      BY <1>1, <1>2, <2>1, <2>4, <2>8 DEF SawAll
    <3>2. CASE m + 1 = s.n
      <4>1. c.count = (chunk'[m + 1].first_index - FirstIndex) + c.counts[m + 1]
        <5>1. m + 1 # 0
          BY <2>3
        <5> QED BY <2>5, <2>7, <5>1 DEF Filling, Base
      <4>2. c.count = Base(m + 1) + x
        BY <1>1, <2>7, <4>1 DEF Base
      <4> QED BY <1>2, <2>6, <2>7, <3>1, <3>2, <4>2
    <3>3. CASE m + 1 # s.n
      BY <1>2, <2>6, <2>7, <3>1, <3>3
    <3> QED BY <3>2, <3>3
  <2>9. Base(c.n) + chunk[c.n].count = (chunk'[c.n].first_index - FirstIndex) + chunk'[c.n].count
    BY <1>1 DEF Base
  <2> QED BY <2>2, <2>8, <2>9 DEF SawAll, Base
<1>5. CASE SnapshotFinished(Main)
  <2> DEFINE s == cur[Main]
  <2>1. /\ cpc[Main] = "counts" /\ Len(s.counts) = s.n /\ cpc' = [cpc EXCEPT ![Main] = "idle"]
        /\ snap' = [snap EXCEPT ![Main] = [s EXCEPT !.finished = finished]]
    BY <1>5 DEF SnapshotFinished
  <2>2. cpc'[Main] = "idle" /\ snap'[Main].count = s.count /\ snap'[Main].finished = finished
    BY <2>1, <1>t, MainIs DEF Snapshot
  <2>3. mpc' = "print"
    BY <1>1, <2>2
  <2>4. ~woke' /\ ~WakeComing' => s.count = Published'
    BY <1>1, <1>2, <2>1 DEF SawAll
  <2> QED BY <1>1, <2>2, <2>3, <2>4 DEF SawAll
<1> QED BY <1>3, <1>4, <1>5 DEF MainSnapshot

LEMMA SawAllKept ==
    ASSUME IInv, IInv', ShownIs, ShownIs', FInv, Handshake, SawAll, [FilterNext]_allVars
    PROVE  SawAll'
<1>f. FilterTypes /\ Placed
  BY DEF FInv
<1>1. CASE ReaderFeed
  <2> SUFFICES ASSUME ~WakeComing' PROVE SawAll'
    BY DEF SawAll
  <2>1. UNCHANGED <<mpc, cpc, cur, snap, woke>> /\ rpc = "feed"
    BY <1>1 DEF ReaderFeed, mainVars, Producer, consumerVars
  <2>2. /\ ~WakeComing /\ Published' = Published /\ (finished' = finished \/ rpc' = "reap")
        /\ \A k \in 1 .. nchunks : Base(k) + chunk[k].count = chunk'[k].first_index - FirstIndex + chunk'[k].count
    BY <1>1, SilentStep
  <2> DEFINE c == cur[Main]
  <2>3. ASSUME mpc = "snapshot", cpc[Main] = "counts", ~woke
        PROVE  IF Len(c.counts) = c.n THEN c.count = Published
               ELSE Published = (chunk'[c.n].first_index - FirstIndex) + chunk'[c.n].count
    <3>1. Filling(c) /\ c \in Snapshot /\ nchunks \in Nat
      BY <2>3, MainIs, ChunkFacts DEF IInv, ConsumersAgree, TypeOK
    <3>2. IF Len(c.counts) = c.n THEN c.count = Published ELSE Published = Base(c.n) + chunk[c.n].count
      BY <2>2, <2>3 DEF SawAll
    <3> HIDE DEF c
    <3>3. c.n \in Nat /\ Len(c.counts) \in Nat /\ Len(c.counts) <= c.n /\ c.n <= nchunks
      BY <3>1, ConstantsAssumption DEF Snapshot, Filling
    <3>4. CASE Len(c.counts) = c.n
      BY <3>2, <3>4
    <3>5. CASE Len(c.counts) # c.n
      <4>1. c.n \in 1 .. nchunks
        BY <3>1, <3>3, <3>5
      <4> QED BY <2>2, <3>2, <3>5, <4>1
    <3> QED BY <3>4, <3>5
  <2>4. mpc \in {"print", "wait"} /\ ~snap[Main].finished /\ ~woke =>
            snap[Main].count = Published' /\ (finished' => rpc' = "reap")
    BY <2>1, <2>2 DEF SawAll
  <2> QED BY <2>1, <2>2, <2>3, <2>4 DEF SawAll, Base
<1>2. CASE ReaderReap \/ WakeCopy \/ WakeExchange \/ WakeCall
  <2>1. mpc' = mpc /\ wake_cb' = wake_cb
    BY <1>2 DEF ReaderReap, WakeCopy, WakeExchange, WakeCall, mainVars
  <2>2. mpc \in {"snapshot", "print", "wait"} => woke' \/ WakeComing'
    <3>1. CASE WakeCopy
      BY <3>1 DEF WakeCopy, WakeComing, Handshake
    <3>2. CASE WakeExchange
      BY <3>2 DEF WakeExchange, WakeComing, Handshake
    <3>3. CASE WakeCall
      BY <3>3 DEF WakeCall
    <3>4. CASE ReaderReap
      BY <3>4 DEF ReaderReap, WakeComing
    <3> QED BY <1>2, <3>1, <3>2, <3>3, <3>4
  <2> QED BY <2>1, <2>2 DEF SawAll
<1>3. CASE MainSnapshot
  BY <1>3, SnapshotSaw
<1>4. CASE UNCHANGED <<vars, rpc, wake_pending, woke>> /\ mpc \in {"print", "wait"} /\ mpc' # "snapshot"
  <2>1. UNCHANGED <<chunk, nchunks, ppc, finished, snap, rpc, wake_pending, woke>>
    BY <1>4 DEF vars
  <2>2. WakeComing' = WakeComing /\ Published' = Published
    BY <2>1 DEF WakeComing, Published, Base
  <2> QED BY <1>4, <2>1, <2>2 DEF SawAll
<1>5. CASE mpc' \notin {"snapshot", "print", "wait"}
  BY <1>5 DEF SawAll
<1>6. CASE mpc' = "snapshot" /\ cpc'[Main] = "idle"
  BY <1>6 DEF SawAll
<1>7. CASE UNCHANGED allVars
  <2>1. UNCHANGED <<chunk, nchunks, ppc, finished, cpc, cur, snap, rpc, wake_pending, woke, mpc>>
    BY <1>7 DEF allVars, vars, filterVars
  <2>2. WakeComing' = WakeComing /\ Published' = Published
    BY <2>1 DEF WakeComing, Published, Base
  <2> QED BY <2>1, <2>2 DEF SawAll, Base
<1>8. CASE MainPrintChunk \/ MainWrite
  BY <1>4, <1>5, <1>8 DEF MainPrintChunk, MainWrite, readerVars
<1>9. CASE MainInstall \/ MainAck
  <2>1. mpc \in {"install", "ack"} /\ mpc' = "snapshot" /\ cpc' = cpc
    BY <1>9 DEF MainInstall, MainAck, vars
  <2>2. cpc[Main] = "idle"
    BY <2>1, <1>f DEF Placed
  <2> QED BY <1>6, <2>1, <2>2
<1>10. CASE MainWait \/ MainUninstall
  BY <1>5, <1>10 DEF MainWait, MainUninstall
<1> QED BY <1>1, <1>2, <1>3, <1>7, <1>8, <1>9, <1>10 DEF FilterNext, Reader, MainThread

LEMMA SleepInit == FilterInit => SleepInv
<1> SUFFICES ASSUME FilterInit PROVE SleepInv
  OBVIOUS
<1>1. mpc = "install" /\ wake_pending = FALSE /\ mu_held = FALSE
  BY DEF FilterInit
<1>2. Handshake
  BY <1>1 DEF Handshake
<1>3. Covered
  BY <1>1 DEF Covered, Past, SawAll, WaitsOpen
<1> QED BY <1>2, <1>3 DEF SleepInv

LEMMA SleepStep ==
    IInv /\ IInv' /\ ShownIs /\ ShownIs' /\ FInv /\ SleepInv /\ [FilterNext]_allVars => SleepInv'
<1> SUFFICES ASSUME IInv, IInv', ShownIs, ShownIs', FInv, SleepInv, [FilterNext]_allVars
             PROVE  SleepInv'
  OBVIOUS
<1>1. Handshake /\ Past /\ SawAll /\ WaitsOpen
  BY DEF SleepInv, Covered
<1>2. Handshake'
  BY <1>1, HandshakeKept
<1>3. Past' /\ SawAll' /\ WaitsOpen'
  BY <1>1, PastKept, SawAllKept, WaitsOpenKept
<1>4. Covered'
  BY <1>3 DEF Covered
<1> QED BY <1>2, <1>4 DEF SleepInv

\* No wake is lost between the snapshot and the wait: when the main thread sleeps
\* and no wake is on its way, every match of what the reader has published is
\* written, and the list is not finished, unless its command is still waited for.
THEOREM Sleeps == FilterSpec => []SleepsWhenDone
<1>1. IInv /\ ShownIs /\ FInv /\ SleepInv => SleepsWhenDone
  <2> SUFFICES ASSUME IInv, ShownIs, FInv, SleepInv, mpc = "wait", ~woke, ~WakeComing
               PROVE  (finished => rpc = "reap") /\ IsPrefix(Matches(SubSeq(input, 1, Published)), printed)
    BY DEF SleepsWhenDone
  <2>1. (finished => rpc = "reap") /\ snap[Main].count = Published /\ Position >= snap[Main].count /\ out = <<>>
    BY DEF SleepInv, Covered, Past, SawAll, WaitsOpen
  <2> DEFINE p == Published
             q == Position
  <2>2. p \in Nat /\ q \in Nat /\ p <= q /\ q <= Len(input) /\ input \in Seq(Specs) /\ printed \in Seq(Specs)
    BY <2>1, PositionIs DEF ShownIs, IInv, TypeOK, FInv, FilterTypes
  <2>3. printed = Matches(SubSeq(input, 1, q))
    BY <2>1, <2>2 DEF FInv, Written
  <2> HIDE DEF p, q
  <2>4. IsPrefix(Matches(SubSeq(input, 1, p)), Matches(SubSeq(input, 1, q)))
    BY <2>2, MatchesOn
  <2> QED BY <2>1, <2>3, <2>4 DEF p
<1>2. IInv => ShownIs
  BY ShownFollows
<1> QED BY <1>1, <1>2, SleepInit, SleepStep, FilterInductive, PTL DEF FilterSpec
=============================================================================
