------------------------------ MODULE DataPool ------------------------------
(***************************************************************************)
(* The memory of Data, Datas and Dictionary (Data.c): every block that is  *)
(* allocated is put into the current pool ("track stack") of the thread,   *)
(* and DataTrackPop frees what its pool still holds.                       *)
(*                                                                         *)
(* A block is a number, 0 is NULL; the contents do not matter here.  The   *)
(* client is a thread that keeps to what Data.h asks of it: it operates on *)
(* blocks its current pool tracks and on blocks that no pool tracks.  It   *)
(* also builds one Datas (one block an element) or Dictionary (three: key, *)
(* value and the element that points at them).                             *)
(***************************************************************************)
EXTENDS Integers, Sequences, FiniteSets, SequencesExt

CONSTANTS
    Blocks,         \* bound: the blocks of memory, positive numbers
    MaxPools,       \* bound: how deep pools are nested
    MaxEmptied      \* bound: how often a Data is resized to nothing

ASSUME DataPoolAssumption ==
    /\ Blocks \subseteq Nat \ {0} /\ IsFiniteSet(Blocks)
    /\ MaxPools \in Nat /\ MaxEmptied \in Nat

VARIABLES
    heap,   \* [pools, live, count, emptied, aborted, dangling]: the thread and malloc
    datas   \* [mem, elems, per]: the client's Datas or Dictionary

poolVars == <<heap, datas>>

-----------------------------------------------------------------------------
(* The pools.  A pool is [mem, held, nulls]: whether its array is          *)
(* allocated, the blocks it tracks, and how many NULLs it tracks.  Nothing *)
(* depends on the order of a pool.                                         *)

EmptyPool == [mem |-> FALSE, held |-> {}, nulls |-> 0]
Depth(h) == Len(h.pools)
Current(h) == h.pools[Depth(h)]

\* DataIsTracked looks at the current pool only.
DataIsTracked(h, b) == Depth(h) > 0 /\ b \in Current(h).held
NullsTracked(h) == IF Depth(h) = 0 THEN 0 ELSE Current(h).nulls

Abort(h) == [h EXCEPT !.aborted = TRUE]

\* DataNewFlexible of the blocks bs, before they are tracked.
Allocated(h, bs) == [h EXCEPT !.live = @ \cup bs, !.count = @ + Cardinality(bs)]

\* DatasAddRefFlexible on a pool, for each of bs: aborts if it holds the block,
\* and allocates its array with its first entry.
AddToPool(h, d, bs) ==
    IF bs \cap h.pools[d].held # {} THEN Abort(h)
    ELSE [h EXCEPT !.pools[d].held = @ \cup bs, !.pools[d].mem = @ \/ bs # {},
                   !.count = IF h.pools[d].mem \/ bs = {} THEN @ ELSE @ + 1]

\* DataTrack of each of bs.
DataTrack(h, bs) == IF Depth(h) = 0 THEN h ELSE AddToPool(h, Depth(h), bs)

\* DataUntrack of each of bs: DatasRemoveTake on the current pool, whose array
\* is never made smaller.
DataUntrack(h, bs) == IF Depth(h) = 0 THEN h ELSE [h EXCEPT !.pools[Depth(h)].held = @ \ bs]

DataTrackPush(h) ==
    [h EXCEPT !.pools = Append(@, EmptyPool), !.count = IF Depth(h) = 0 THEN @ + 1 ELSE @]

\* In a pool: the array of the pool below it.
BelowArray == -1

\* Frees what the pool holds, its array, and with the last pool their stack.
\* DataFreeFlexible aborts at a pointer that the pool holds twice.
DataTrackPop(h) ==
    LET pool == Current(h)
    IN  IF pool.nulls > 1 THEN Abort(h)
        ELSE [h EXCEPT !.live = @ \ pool.held,
                       !.count = @ - Cardinality(pool.held) - (IF pool.mem THEN 1 ELSE 0)
                                   - (IF Depth(h) = 1 THEN 1 ELSE 0),
                       !.dangling = BelowArray \in pool.held,
                       !.pools = Front(@)]

\* DataFree of each of bs untracks in the current pool only.
DataFree(h, bs) ==
    [DataUntrack(h, bs) EXCEPT !.live = @ \ bs, !.count = @ - Cardinality(bs)]

\* DataFree of a NULL removes one that the pool holds, and aborts if it holds more.
DataFreeNull(h) ==
    CASE NullsTracked(h) = 0 -> h
      [] NullsTracked(h) = 1 -> [h EXCEPT !.pools[Depth(h)].nulls = 0]
      [] OTHER -> Abort(h)

\* The current pool tracks nb in the place of b.
DataReplaceTrack(h, b, nb) ==
    [h EXCEPT !.pools[Depth(h)].held = (@ \ {b}) \cup {nb}]

\* DataResizeFlexible of no block, or of b, to a length other than 0; nb is what
\* realloc returns.
GrowNew(h, nb) == DataTrack(Allocated(h, {nb}), {nb})
DataGrow(h, b, nb) ==
    LET g == [h EXCEPT !.live = (@ \ {b}) \cup {nb}]
    IN  IF DataIsTracked(h, b) THEN DataReplaceTrack(g, b, nb) ELSE g

\* DataResizeFlexible to 0: the block is freed, allocatedCount is left alone,
\* and the pool keeps a NULL in its place.
DataEmpty(h, b) ==
    LET g == [h EXCEPT !.live = @ \ {b}, !.emptied = @ + 1]
    IN  IF DataIsTracked(h, b)
        THEN [DataUntrack(g, {b}) EXCEPT !.pools[Depth(h)].nulls = @ + 1] ELSE g

\* DataTranscend moves a block to the pool below, or out of every pool.  If
\* that allocates the array of the pool below while the current pool holds a
\* NULL, DataReplaceTrack takes the NULL for the old array and has the current
\* pool track the new one.
DataTranscend(h, b) ==
    LET u == DataUntrack(h, {b})
        below == Depth(h) - 1
        moved == AddToPool(u, below, {b})
    IN  IF below < 1 THEN u
        ELSE IF ~h.pools[below].mem /\ NullsTracked(u) > 0
        THEN AddToPool(moved, Depth(h), {BelowArray})
        ELSE moved

\* Mutant: the result is not taken out of the pool before it is popped.
PopTracked(h, bs) == DataTrack(DataTrackPop(h), bs)

\* DTPop and DTPopDatas hand their argument to the pool below.
DTPop(h, bs) == DataTrack(DataTrackPop(DataUntrack(h, bs)), bs)

-----------------------------------------------------------------------------
(* Datas and Dictionary.  An element is [own, parts]: its block, and the   *)
(* blocks of its key and value.                                            *)

\* per: the blocks of an element, 1 for a Datas and 3 for a Dictionary.
NoDatas(per) == [mem |-> 0, elems |-> {}, per |-> per]

ElementBlocks(e) == {e.own} \cup e.parts

\* What DatasTrack, DictionaryTrack and their inverses visit.
BlocksOf(d) == (UNION {ElementBlocks(e) : e \in d.elems}) \cup ({d.mem} \ {0})

\* DatasAddCopy, DictAdd: the new element, then the array with room for it.
AddElement(h, d, bs, nb) ==
    LET g == DataTrack(Allocated(h, bs), bs)
    IN  IF d.mem = 0 THEN GrowNew(g, nb) ELSE DataGrow(g, d.mem, nb)

\* DatasRemoveIndex, DictRemoveIndex: the array keeps its size, and is still
\* allocated when it is empty.
RemoveElement(h, e) == DataFree(h, ElementBlocks(e))

\* DatasFree leaves tracked elements to their pool; DictionaryFree frees keys
\* and values in any case.  The array is freed.
DatasFree(h, d) ==
    DataFree(h, BlocksOf(d) \ {e.own : e \in {f \in d.elems : DataIsTracked(h, f.own)}})

-----------------------------------------------------------------------------
(* The client.                                                             *)

Running == ~heap.aborted /\ ~heap.dangling

\* malloc returns the first free blocks: which ones makes no difference.
Free == Blocks \ heap.live
Malloc(bs) == bs \subseteq Free /\ \A b \in bs : \A c \in Free \ bs : b < c

\* Blocks the client may operate on: of the current pool, or of none.
Tracked(b) == \E d \in 1 .. Depth(heap) : b \in heap.pools[d].held
Usable == {b \in heap.live : DataIsTracked(heap, b) \/ ~Tracked(b)}
Mine == BlocksOf(datas) \subseteq Usable
Loose == Usable \ BlocksOf(datas)
DatasInCurrent == \E b \in BlocksOf(datas) : DataIsTracked(heap, b)

PoolInit ==
    /\ heap = [pools |-> <<>>, live |-> {}, count |-> 0, emptied |-> 0, aborted |-> FALSE,
               dangling |-> FALSE]
    /\ datas \in {NoDatas(1), NoDatas(3)}

Push == Running /\ Depth(heap) < MaxPools /\ heap' = DataTrackPush(heap) /\ UNCHANGED datas

\* DataTrackPop, DTPopi and DTPopNull; a Datas of the pool is gone.
Pop ==
    /\ Running /\ Depth(heap) > 0
    /\ heap' = DataTrackPop(heap)
    /\ datas' = IF DatasInCurrent THEN NoDatas(datas.per) ELSE datas

PopWith(b) ==
    /\ Running /\ Depth(heap) > 0 /\ b \in Loose /\ ~DatasInCurrent
    /\ heap' = DTPop(heap, {b})
    /\ UNCHANGED datas

PopWithDatas ==
    /\ Running /\ Depth(heap) > 0 /\ Mine /\ datas.per = 1
    /\ heap' = DTPop(heap, BlocksOf(datas))
    /\ UNCHANGED datas

New(b) ==
    /\ Running /\ Malloc({b})
    /\ heap' \in {GrowNew(heap, b), Allocated(heap, {b})}
    /\ UNCHANGED datas

Resize(b) ==
    /\ Running /\ b \in Loose
    /\ \E nb \in Blocks : (nb = b \/ Malloc({nb})) /\ heap' = DataGrow(heap, b, nb)
    /\ UNCHANGED datas

MakeEmpty(b) ==
    /\ Running /\ b \in Loose /\ heap.emptied < MaxEmptied
    /\ heap' = DataEmpty(heap, b)
    /\ UNCHANGED datas

TrackOne(b) ==
    /\ Running /\ b \in Loose /\ ~Tracked(b)
    /\ heap' = DataTrack(heap, {b})
    /\ UNCHANGED datas

HandOver(b) ==
    /\ Running /\ b \in Loose
    /\ heap' \in {DataUntrack(heap, {b}), DataTranscend(heap, b), DataFree(heap, {b})}
    /\ UNCHANGED datas

\* DataFree of a Data that was resized to nothing.
FreeNull == Running /\ heap' = DataFreeNull(heap) /\ UNCHANGED datas

\* The new element is bs, of which own is allocated last; its array may move.
DatasAdd ==
    /\ Running /\ Mine
    \* a Datas that pools do not track grows only where none is current
    /\ datas.mem # 0 /\ ~Tracked(datas.mem) => Depth(heap) = 0
    /\ \E bs \in SUBSET Blocks : \E own \in bs, nb \in Blocks :
          /\ Malloc(bs) /\ Cardinality(bs) = datas.per /\ \A b \in bs : b <= own
          /\ nb = datas.mem \/ (Malloc(bs \cup {nb}) /\ nb \notin bs)
          /\ heap' = AddElement(heap, datas, bs, nb)
          /\ datas' = [datas EXCEPT !.mem = nb,
                                    !.elems = @ \cup {[own |-> own, parts |-> bs \ {own}]}]

DatasRemove(e) ==
    /\ Running /\ Mine
    /\ heap' = RemoveElement(heap, e)
    /\ datas' = [datas EXCEPT !.elems = @ \ {e}]

\* DatasUntrack and DictUntrack (DataDict, DataDatas), DatasTrack and
\* DictTrack (DataGetDict, DataGetDatas).
DatasHandOver ==
    /\ Running /\ Mine /\ datas.mem # 0
    /\ \/ heap' = DataUntrack(heap, BlocksOf(datas))
       \/ (\A b \in BlocksOf(datas) : ~Tracked(b)) /\ heap' = DataTrack(heap, BlocksOf(datas))
    /\ UNCHANGED datas

DatasFreed ==
    /\ Running /\ Mine /\ datas.mem # 0
    /\ heap' = DatasFree(heap, datas)
    /\ datas' = NoDatas(datas.per)

PoolNext ==
    \/ Push \/ Pop \/ PopWithDatas \/ FreeNull \/ DatasAdd \/ DatasHandOver \/ DatasFreed
    \/ \E b \in Blocks : New(b) \/ PopWith(b) \/ Resize(b) \/ MakeEmpty(b) \/ TrackOne(b)
                         \/ HandOver(b)
    \/ \E e \in datas.elems : DatasRemove(e)

-----------------------------------------------------------------------------
(* Properties.                                                             *)

\* Whatever a client that keeps to the rules does with pools, blocks, Datas
\* and dictionaries, and in whatever order: a pool holds only blocks that are
\* allocated, no block is in two pools or twice in one (so that a pop frees
\* nothing twice and nothing that is in use elsewhere), allocatedCount counts
\* the blocks and the pools' own arrays except for one too many with each Data
\* resized to nothing.  The only way to abort() is a pool in which two Datas
\* were resized to nothing, and a pool frees the array of the pool below it
\* only after one was.
PoolsOwnLive ==
    LET pool(d) == heap.pools[d]
        depths == 1 .. Depth(heap)
    IN  /\ heap.aborted => \E d \in depths : pool(d).nulls > 1
        /\ ~heap.aborted /\ heap.dangling => heap.emptied > 0
        /\ Running =>
              /\ \A d \in depths : pool(d).held \subseteq heap.live \cup {BelowArray}
              /\ \A d, e \in depths : d # e => pool(d).held \cap pool(e).held \subseteq {BelowArray}
              /\ heap.count = Cardinality(heap.live) + heap.emptied
                                + Cardinality({d \in depths : pool(d).mem})
                                + (IF Depth(heap) = 0 THEN 0 ELSE 1)
=============================================================================
