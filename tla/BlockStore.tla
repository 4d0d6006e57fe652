----------------------------- MODULE BlockStore -----------------------------
(***************************************************************************)
(* The block headers of code/Database.c: the table `blocks`, keyed by      *)
(* height, the cache that maps the first four bytes of a block's hash to   *)
(* its height, and DatabaseAddBlock, DatabaseHeightOf and                  *)
(* DatabaseResetAllBlocks on them.                                         *)
(*                                                                         *)
(* The main thread and the database thread run these at the same time.     *)
(* Each SQL statement is one step (the connection is opened with           *)
(* SQLITE_OPEN_FULLMUTEX) and so is each section under                     *)
(* blockHeightCacheMutex; nothing holds a call's steps together.           *)
(*                                                                         *)
(* A hash is a number: the one DataCompare orders it by, once flipped.     *)
(***************************************************************************)
EXTENDS Integers, FiniteSets

CONSTANTS
    Hashes,         \* the blocks that exist, by hash
    Genesis,        \* DatabaseFirstBlockHash
    Prev,           \* blockPrevHash
    Prefix,         \* the first four bytes of a hash, in the cache's key order
    Depth,          \* how far a block is from the first one
    Checkpoints,    \* the blocks of insertStartingBlocks
    Invalid,        \* blocks that fail MerkleBlockValid
    Adders,         \* threads that call DatabaseAddBlock
    Readers,        \* threads that call DatabaseHeightOf
    Resetters,      \* threads that call DatabaseResetAllBlocks
    CacheSize,      \* HASH_CACHE_SIZE
    NoHash

ASSUME ChainAssumption ==
    /\ Hashes \subseteq Nat
    /\ Genesis \in Hashes
    /\ Prev \in [Hashes \ {Genesis} -> Hashes]
    /\ Prefix \in [Hashes -> Nat]
    /\ Depth \in [Hashes -> Nat]
    /\ \A b \in Hashes : Depth[b] = 0 <=> b = Genesis
    /\ \A b \in Hashes \ {Genesis} : Depth[b] = Depth[Prev[b]] + 1
    /\ NoHash \notin Hashes

ASSUME StoreAssumption ==
    /\ Checkpoints \subseteq Hashes \ {Genesis}
    /\ \A b, c \in Checkpoints : Depth[b] = Depth[c] => b = c
    /\ Invalid \subseteq Hashes
    /\ CacheSize \in Nat \ {0}

Threads == Adders \cup Readers \cup Resetters

VARIABLES
    blocks,         \* the table: a function from heights to hashes
    openTx,         \* insertStartingBlocks failed and left its transaction open
    durable,        \* ... and what the table held when that transaction began
    cache,          \* self->blockHeightCache: from prefixes to heights, or to -1
    pc,
    arg,            \* the hash DatabaseHeightOf looks for
    adding,         \* the block DatabaseAddBlock is to add, or NoHash
    height          \* the height found, or the one to add at

vars == <<blocks, openTx, durable, cache, pc, arg, adding, height>>

PCs == {"idle", "h_cache", "h_select", "h_fill",        \* DatabaseHeightOf
        "a_insert", "a_compare", "a_replace", "a_fill", \* DatabaseAddBlock
        "r_insert"}                                     \* DatabaseResetAllBlocks

NoBlocks == [h \in {} |-> NoHash]

NoCache == [p \in {} |-> -1]

\* `t` overwritten, or extended, with the row of h.
WithRow(t, h, b) == [x \in DOMAIN t \cup {h} |-> IF x = h THEN b ELSE t[x]]

\* The rows of initialBlocksSql whose height is in H.
CheckpointRows(H) ==
    [h \in {Depth[b] : b \in Checkpoints} \cap H |->
        CHOOSE b \in Checkpoints : Depth[b] = h]

AllCheckpoints == CheckpointRows(Nat)

Init ==
    /\ blocks = AllCheckpoints
    /\ openTx = FALSE
    /\ durable = NoBlocks
    /\ cache = NoCache
    /\ pc = [t \in Threads |-> "idle"]
    /\ arg = [t \in Threads |-> NoHash]
    /\ adding = [t \in Threads |-> NoHash]
    /\ height = [t \in Threads |-> 0]

-----------------------------------------------------------------------------
(* The cache *)

\* trimBlockHeightCacheIfNeeded drops the last keys until there is room.
Kept(keys) == {p \in keys : Cardinality({q \in keys : q < p}) < CacheSize - 1}

Trim(c) == [p \in Kept(DOMAIN c) |-> c[p]]

\* A prefix that is in the cache already is marked ambiguous, else it gets h.
Remember(c, p, h) ==
    WithRow(Trim(c), p, IF p \in DOMAIN c THEN -1 ELSE h)

Finish(t) ==
    /\ pc' = [pc EXCEPT ![t] = "idle"]
    /\ arg' = [arg EXCEPT ![t] = NoHash]
    /\ adding' = [adding EXCEPT ![t] = NoHash]
    /\ height' = [height EXCEPT ![t] = 0]

-----------------------------------------------------------------------------
(* DatabaseHeightOf, called for its own sake or by DatabaseAddBlock *)

CallHeightOf(t, b) ==
    /\ t \in Readers
    /\ pc[t] = "idle"
    /\ pc' = [pc EXCEPT ![t] = "h_cache"]
    /\ arg' = [arg EXCEPT ![t] = b]
    /\ UNCHANGED <<blocks, openTx, durable, cache, adding, height>>

\* Mutant: the block goes below its predecessor.
FoundBelow(t, h) ==
    IF adding[t] = NoHash
    THEN Finish(t)
    ELSE /\ pc' = [pc EXCEPT ![t] = "a_insert"]
         /\ height' = [height EXCEPT ![t] = h - 1]
         /\ UNCHANGED <<arg, adding>>

\* The lookup's caller goes on with the height h that it returned.
Found(t, h) ==
    IF adding[t] = NoHash
    THEN Finish(t)
    ELSE /\ pc' = [pc EXCEPT ![t] = "a_insert"]
         /\ height' = [height EXCEPT ![t] = h + 1]
         /\ UNCHANGED <<arg, adding>>

InCache(p) == p \in DOMAIN cache /\ cache[p] > 0

CacheHit(t) ==
    /\ pc[t] = "h_cache"
    /\ InCache(Prefix[arg[t]])
    /\ Found(t, cache[Prefix[arg[t]]])
    /\ UNCHANGED <<blocks, openTx, durable, cache>>

CacheMiss(t) ==
    /\ pc[t] = "h_cache"
    /\ ~InCache(Prefix[arg[t]])
    /\ pc' = [pc EXCEPT ![t] = "h_select"]
    /\ UNCHANGED <<blocks, openTx, durable, cache, arg, adding, height>>

\* The rows with the hash's prefix are searched for the hash itself.
Stored(b) == \E h \in DOMAIN blocks : blocks[h] = b

SelectFinds(t) ==
    /\ pc[t] = "h_select"
    /\ \E h \in DOMAIN blocks :
        /\ blocks[h] = arg[t]
        /\ height' = [height EXCEPT ![t] = h]
    /\ pc' = [pc EXCEPT ![t] = "h_fill"]
    /\ UNCHANGED <<blocks, openTx, durable, cache, arg, adding>>

SelectGenesis(t) ==
    /\ pc[t] = "h_select"
    /\ ~Stored(arg[t])
    /\ arg[t] = Genesis
    /\ Found(t, 0)
    /\ UNCHANGED <<blocks, openTx, durable, cache>>

\* Mutant: the test for a negative prevHeight is missing.
SelectFailsUnchecked(t) ==
    /\ pc[t] = "h_select"
    /\ ~Stored(arg[t])
    /\ arg[t] # Genesis
    /\ Found(t, -1)
    /\ UNCHANGED <<blocks, openTx, durable, cache>>

\* Not found: -1.  DatabaseAddBlock then looks the hash up once more, and
\* gives up whatever that finds.
SelectFails(t) ==
    /\ pc[t] = "h_select"
    /\ ~Stored(arg[t])
    /\ arg[t] # Genesis
    /\ IF adding[t] = NoHash
       THEN Finish(t)
       ELSE /\ pc' = [pc EXCEPT ![t] = "h_cache"]
            /\ adding' = [adding EXCEPT ![t] = NoHash]
            /\ UNCHANGED <<arg, height>>
    /\ UNCHANGED <<blocks, openTx, durable, cache>>

FillAfterSelect(t) ==
    /\ pc[t] = "h_fill"
    /\ cache' = Remember(cache, Prefix[arg[t]], height[t])
    /\ Found(t, height[t])
    /\ UNCHANGED <<blocks, openTx, durable>>

-----------------------------------------------------------------------------
(* DatabaseAddBlock *)

CallAddBlock(t, b) ==
    /\ t \in Adders
    /\ pc[t] = "idle"
    /\ b \notin Invalid
    /\ pc' = [pc EXCEPT ![t] = "h_cache"]
    /\ arg' = [arg EXCEPT ![t] = Prev[b]]
    /\ adding' = [adding EXCEPT ![t] = b]
    /\ UNCHANGED <<blocks, openTx, durable, cache, height>>

InsertBlock(t) ==
    /\ pc[t] = "a_insert"
    /\ height[t] \notin DOMAIN blocks
    /\ blocks' = WithRow(blocks, height[t], adding[t])
    /\ pc' = [pc EXCEPT ![t] = "a_fill"]
    /\ UNCHANGED <<openTx, durable, cache, arg, adding, height>>

InsertConflicts(t) ==
    /\ pc[t] = "a_insert"
    /\ height[t] \in DOMAIN blocks
    /\ pc' = [pc EXCEPT ![t] = "a_compare"]
    /\ UNCHANGED <<blocks, openTx, durable, cache, arg, adding, height>>

\* Only a smaller hash replaces the row.
Smaller(b, existing) == b < existing

CompareGoesOn(t) ==
    /\ pc[t] = "a_compare"
    /\ height[t] \in DOMAIN blocks
    /\ Smaller(adding[t], blocks[height[t]])
    /\ pc' = [pc EXCEPT ![t] = "a_replace"]
    /\ UNCHANGED <<blocks, openTx, durable, cache, arg, adding, height>>

\* The row is smaller or the same, or a reset has deleted it: nothing is added.
CompareGivesUp(t) ==
    /\ pc[t] = "a_compare"
    /\ height[t] \in DOMAIN blocks => ~Smaller(adding[t], blocks[height[t]])
    /\ Finish(t)
    /\ UNCHANGED <<blocks, openTx, durable, cache>>

ReplaceBlock(t) ==
    /\ pc[t] = "a_replace"
    /\ blocks' = WithRow(blocks, height[t], adding[t])
    /\ pc' = [pc EXCEPT ![t] = "a_fill"]
    /\ UNCHANGED <<openTx, durable, cache, arg, adding, height>>

\* Mutant: the height is remembered for the predecessor's prefix.
FillForPrev(t) ==
    /\ pc[t] = "a_fill"
    /\ cache' = Remember(cache, Prefix[arg[t]], height[t])
    /\ Finish(t)
    /\ UNCHANGED <<blocks, openTx, durable>>

FillAfterAdd(t) ==
    /\ pc[t] = "a_fill"
    /\ cache' = Remember(cache, Prefix[adding[t]], height[t])
    /\ Finish(t)
    /\ UNCHANGED <<blocks, openTx, durable>>

-----------------------------------------------------------------------------
(* DatabaseResetAllBlocks, and the end of the process *)

\* delete from `blocks`; the cache is left as it is.
ResetDelete(t) ==
    /\ t \in Resetters
    /\ pc[t] = "idle"
    /\ blocks' = NoBlocks
    /\ pc' = [pc EXCEPT ![t] = "r_insert"]
    /\ UNCHANGED <<openTx, durable, cache, arg, adding, height>>

\* insertStartingBlocks: sqlite3_exec stops at the first statement that fails.
\* In a transaction that is already open it is the first one, BEGIN; else it is
\* the first row whose height is taken, and COMMIT is then not reached.
Taken == {h \in DOMAIN blocks : h \in DOMAIN AllCheckpoints}

BeforeTaken == {h \in Nat : \A k \in Taken : h < k}

WithRows(t, rows) ==
    [h \in DOMAIN t \cup DOMAIN rows |-> IF h \in DOMAIN t THEN t[h] ELSE rows[h]]

ResetInsert(t) ==
    /\ pc[t] = "r_insert"
    /\ IF openTx
       THEN UNCHANGED <<blocks, openTx, durable>>
       ELSE /\ blocks' = WithRows(blocks, CheckpointRows(BeforeTaken))
            /\ openTx' = (Taken # {})
            /\ durable' = IF Taken # {} THEN blocks ELSE NoBlocks
    /\ Finish(t)
    /\ UNCHANGED cache

\* The program ends, at any point, and is started again: DatabaseNew finds the
\* file, and what an open transaction had written is rolled back.
Restart ==
    /\ blocks' = IF openTx THEN durable ELSE blocks
    /\ openTx' = FALSE
    /\ durable' = NoBlocks
    /\ cache' = NoCache
    /\ pc' = [t \in Threads |-> "idle"]
    /\ arg' = [t \in Threads |-> NoHash]
    /\ adding' = [t \in Threads |-> NoHash]
    /\ height' = [t \in Threads |-> 0]

Proceed(t) ==
    \/ CacheHit(t) \/ CacheMiss(t) \/ SelectFinds(t) \/ SelectGenesis(t)
    \/ SelectFails(t) \/ FillAfterSelect(t)
    \/ InsertBlock(t) \/ InsertConflicts(t) \/ CompareGoesOn(t) \/ CompareGivesUp(t)
    \/ ReplaceBlock(t) \/ FillAfterAdd(t)
    \/ ResetInsert(t)

Next ==
    \/ \E t \in Threads : \/ \E b \in Hashes : CallHeightOf(t, b)
                          \/ \E b \in Hashes \ {Genesis} : CallAddBlock(t, b)
                          \/ ResetDelete(t)
                          \/ Proceed(t)
    \/ Restart

Spec == Init /\ [][Next]_vars

-----------------------------------------------------------------------------
(* Properties *)

\* A table of blocks; it need not hold every height.
IsTable(t) == DOMAIN t \subseteq Nat /\ \A h \in DOMAIN t : t[h] \in Hashes \ {Genesis}

\* Every variable has its type: the table, the cache and the calls under way.
TypeOK ==
    /\ IsTable(blocks)
    /\ openTx \in BOOLEAN
    /\ IsTable(durable)
    /\ DOMAIN cache \subseteq Nat
    /\ \A p \in DOMAIN cache : cache[p] \in Nat \cup {-1}
    /\ pc \in [Threads -> PCs]
    /\ arg \in [Threads -> Hashes \cup {NoHash}]
    /\ adding \in [Threads -> (Hashes \ {Genesis}) \cup {NoHash}]
    /\ height \in [Threads -> Nat]

\* No two blocks share the four bytes the cache knows them by.
PrefixesDistinct == \A b, c \in Hashes : Prefix[b] = Prefix[c] => b = c

\* Every block is stored at its true height, whatever the two threads, resets,
\* replacements, evictions and restarts do, if prefixes are distinct
\* (DatabaseAddBlock stores it one above the height DatabaseHeightOf returns).
HeightIsDepth == \A h \in DOMAIN blocks : Depth[blocks[h]] = h

\* What DatabaseHeightOf returns when it runs with nothing in between.
HeightOf(b) ==
    IF InCache(Prefix[b]) THEN cache[Prefix[b]]
    ELSE IF Stored(b) THEN CHOOSE h \in DOMAIN blocks : blocks[h] = b
    ELSE IF b = Genesis THEN 0 ELSE -1

\* A block that is stored is found, and at the height it is stored at.
StoredBlocksFound == \A h \in DOMAIN blocks : HeightOf(blocks[h]) = h

\* Database.h:56 of DatabaseAddBlock: "If this is a duplicate, the smaller hash
\* replaces the larger".  The block at a height is never replaced by a larger.
SmallerReplacesLarger ==
    [][\A h \in DOMAIN blocks \cap DOMAIN blocks' : blocks'[h] <= blocks[h]]_vars
=============================================================================
