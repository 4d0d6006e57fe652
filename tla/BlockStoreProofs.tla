-------------------------- MODULE BlockStoreProofs --------------------------
(***************************************************************************)
(* Heights in the block store, for every block tree, every set of threads  *)
(* and every cache size.                                                   *)
(***************************************************************************)
EXTENDS BlockStore, TLAPS

Looking == {"h_cache", "h_select", "h_fill"}

Storing == {"a_insert", "a_compare", "a_replace", "a_fill"}

\* What each call under way has worked out so far.
CallsType ==
    /\ \A t \in Threads : pc[t] \in Looking =>
        /\ arg[t] \in Hashes
        /\ adding[t] # NoHash => arg[t] = Prev[adding[t]]
    /\ \A t \in Threads : pc[t] \in Storing => adding[t] # NoHash
    /\ \A t \in Threads : pc[t] \in {"idle", "r_insert"} => adding[t] = NoHash

\* The types, and what the calls look for: the first part of every invariant.
TypeInv == TypeOK /\ CallsType

-----------------------------------------------------------------------------
(* Operators *)

\* The starting rows are blocks, each at its own height.
LEMMA CheckpointFacts ==
    ASSUME NEW H
    PROVE  /\ IsTable(CheckpointRows(H))
           /\ \A h \in DOMAIN CheckpointRows(H) : Depth[CheckpointRows(H)[h]] = h
           /\ DOMAIN CheckpointRows(H) \subseteq DOMAIN AllCheckpoints
<1> USE ChainAssumption, StoreAssumption
<1>1. /\ DOMAIN CheckpointRows(H) = {Depth[b] : b \in Checkpoints} \cap H
      /\ DOMAIN AllCheckpoints = {Depth[b] : b \in Checkpoints} \cap Nat
  BY DEF CheckpointRows, AllCheckpoints
<1>2. \A h \in DOMAIN CheckpointRows(H) :
        /\ CheckpointRows(H)[h] \in Checkpoints
        /\ Depth[CheckpointRows(H)[h]] = h
  BY <1>1 DEF CheckpointRows
<1>3. DOMAIN CheckpointRows(H) \subseteq Nat
  BY <1>1
<1>4. \A h \in DOMAIN CheckpointRows(H) : CheckpointRows(H)[h] \in Hashes \ {Genesis}
  BY <1>2
<1> QED  BY <1>1, <1>2, <1>3, <1>4 DEF IsTable

\* What the cache holds after an entry is made: that entry, with its height or
\* marked ambiguous, and entries that were there.
LEMMA RememberFacts ==
    ASSUME NEW c, NEW p, NEW h
    PROVE  /\ DOMAIN Remember(c, p, h) \subseteq DOMAIN c \cup {p}
           /\ Remember(c, p, h)[p] \in {h, -1}
           /\ \A q \in DOMAIN Remember(c, p, h) : q # p =>
                q \in DOMAIN c /\ Remember(c, p, h)[q] = c[q]
<1>1. DOMAIN Trim(c) \subseteq DOMAIN c /\ \A q \in DOMAIN Trim(c) : Trim(c)[q] = c[q]
  BY DEF Trim, Kept
<1> DEFINE v == IF p \in DOMAIN c THEN -1 ELSE h
<1>2. Remember(c, p, h) = WithRow(Trim(c), p, v)
  BY DEF Remember
<1>3. v \in {h, -1}
  OBVIOUS
<1> HIDE DEF v
<1>4. /\ DOMAIN Remember(c, p, h) = DOMAIN Trim(c) \cup {p}
      /\ Remember(c, p, h)[p] = v
      /\ \A q \in DOMAIN Trim(c) : q # p => Remember(c, p, h)[q] = Trim(c)[q]
  BY <1>2 DEF WithRow
<1> HIDE DEF Remember, Trim
<1> QED  BY <1>1, <1>3, <1>4

\* A cache of numbers stays one.
LEMMA RememberType ==
    ASSUME NEW c, DOMAIN c \subseteq Nat, \A q \in DOMAIN c : c[q] \in Nat \cup {-1},
           NEW p \in Nat, NEW h \in Nat
    PROVE  /\ DOMAIN Remember(c, p, h) \subseteq Nat
           /\ \A q \in DOMAIN Remember(c, p, h) : Remember(c, p, h)[q] \in Nat \cup {-1}
<1> DEFINE r == Remember(c, p, h)
<1>1. /\ DOMAIN r \subseteq DOMAIN c \cup {p}
      /\ r[p] \in {h, -1}
      /\ \A q \in DOMAIN r : q # p => q \in DOMAIN c /\ r[q] = c[q]
  BY RememberFacts
<1> HIDE DEF r
<1>2. DOMAIN r \subseteq Nat /\ \A q \in DOMAIN r : r[q] \in Nat \cup {-1}
  BY <1>1
<1> QED  BY <1>2 DEF r

\* A table with a row more is a table, ...
LEMMA WithRowTable ==
    ASSUME NEW t, IsTable(t), NEW h \in Nat, NEW b \in Hashes \ {Genesis}
    PROVE  IsTable(WithRow(t, h, b))
BY DEF IsTable, WithRow

\* ... and so are two tables in one.
LEMMA WithRowsTable ==
    ASSUME NEW t, IsTable(t), NEW rows, IsTable(rows)
    PROVE  IsTable(WithRows(t, rows))
BY DEF IsTable, WithRows

-----------------------------------------------------------------------------
(* Types *)

\* The state DatabaseNew leaves has the types.
LEMMA InitTypes == Init => TypeInv
<1> SUFFICES ASSUME Init PROVE TypeInv
  OBVIOUS
<1> USE ChainAssumption
<1>1. IsTable(blocks)
  BY CheckpointFacts DEF Init, AllCheckpoints
<1>2. IsTable(durable)
  BY DEF Init, NoBlocks, IsTable
<1>3. DOMAIN cache = {}
  BY DEF Init, NoCache
<1>4. /\ pc \in [Threads -> PCs]
      /\ arg \in [Threads -> Hashes \cup {NoHash}]
      /\ adding \in [Threads -> (Hashes \ {Genesis}) \cup {NoHash}]
      /\ height \in [Threads -> Nat]
      /\ \A t \in Threads : pc[t] = "idle"
  BY DEF Init, PCs
<1> QED  BY <1>1, <1>2, <1>3, <1>4 DEF Init, TypeInv, TypeOK, CallsType, Looking, Storing

\* A call that ends leaves its thread idle and everyone else's call alone.
LEMMA FinishTypes ==
    ASSUME TypeInv, NEW t \in Threads, Finish(t)
    PROVE  /\ pc' \in [Threads -> PCs]
           /\ arg' \in [Threads -> Hashes \cup {NoHash}]
           /\ adding' \in [Threads -> (Hashes \ {Genesis}) \cup {NoHash}]
           /\ height' \in [Threads -> Nat]
           /\ CallsType'
BY DEF TypeInv, TypeOK, CallsType, Finish, PCs, Looking, Storing

\* So does one that goes on with a height that was found.
LEMMA FoundTypes ==
    ASSUME TypeInv, NEW t \in Threads, NEW h \in Nat, Found(t, h)
    PROVE  /\ pc' \in [Threads -> PCs]
           /\ arg' \in [Threads -> Hashes \cup {NoHash}]
           /\ adding' \in [Threads -> (Hashes \ {Genesis}) \cup {NoHash}]
           /\ height' \in [Threads -> Nat]
           /\ CallsType'
<1>1. CASE adding[t] = NoHash
  BY <1>1, FinishTypes DEF Found
<1>2. CASE adding[t] # NoHash
  BY <1>2 DEF Found, TypeInv, TypeOK, CallsType, PCs, Looking, Storing
<1> QED  BY <1>1, <1>2

\* Every step keeps the types.
LEMMA TypeStep == TypeInv /\ [Next]_vars => TypeInv'
<1> SUFFICES ASSUME TypeInv, [Next]_vars
             PROVE  TypeInv'
  OBVIOUS
<1> USE ChainAssumption DEF TypeInv
<1>1. CASE UNCHANGED vars
  BY <1>1 DEF vars, TypeOK, IsTable, CallsType
<1>2. CASE Restart
  <2>1. IsTable(blocks') /\ IsTable(durable') /\ DOMAIN cache' = {}
    BY <1>2 DEF Restart, NoBlocks, NoCache, TypeOK, IsTable
  <2>2. /\ pc' \in [Threads -> PCs]
        /\ arg' \in [Threads -> Hashes \cup {NoHash}]
        /\ adding' \in [Threads -> (Hashes \ {Genesis}) \cup {NoHash}]
        /\ height' \in [Threads -> Nat]
        /\ \A t \in Threads : pc'[t] = "idle"
    BY <1>2 DEF Restart, PCs
  <2> QED  BY <1>2, <2>1, <2>2 DEF Restart, TypeOK, CallsType, Looking, Storing
<1>3. ASSUME NEW t \in Threads, NEW b \in Hashes, CallHeightOf(t, b)
      PROVE  TypeInv'
  BY <1>3 DEF CallHeightOf, TypeOK, CallsType, PCs, Looking, Storing
<1>4. ASSUME NEW t \in Threads, NEW b \in Hashes \ {Genesis}, CallAddBlock(t, b)
      PROVE  TypeInv'
  <2>1. Prev[b] \in Hashes
    OBVIOUS
  <2> QED  BY <1>4, <2>1 DEF CallAddBlock, TypeOK, CallsType, PCs, Looking, Storing
<1>5. ASSUME NEW t \in Threads, ResetDelete(t)
      PROVE  TypeInv'
  <2>1. IsTable(blocks')
    BY <1>5 DEF ResetDelete, NoBlocks, IsTable
  <2> QED  BY <1>5, <2>1 DEF ResetDelete, TypeOK, CallsType, PCs, Looking, Storing
<1>6. ASSUME NEW t \in Threads, Proceed(t)
      PROVE  TypeInv'
  <2>1. CASE CacheHit(t)
    <3>1. cache[Prefix[arg[t]]] \in Nat
      BY <2>1 DEF CacheHit, InCache, TypeOK
    <3> QED  BY <2>1, <3>1, FoundTypes DEF CacheHit, TypeOK
  <2>2. CASE CacheMiss(t)
    BY <2>2 DEF CacheMiss, TypeOK, CallsType, PCs, Looking, Storing
  <2>3. CASE SelectFinds(t)
    <3>1. PICK h \in DOMAIN blocks : height' = [height EXCEPT ![t] = h]
      BY <2>3 DEF SelectFinds
    <3>2. h \in Nat
      BY DEF TypeOK, IsTable
    <3> QED  BY <2>3, <3>1, <3>2 DEF SelectFinds, TypeOK, CallsType, PCs, Looking, Storing
  <2>4. CASE SelectGenesis(t)
    BY <2>4, FoundTypes DEF SelectGenesis, TypeOK
  <2>5. CASE SelectFails(t)
    <3>1. CASE adding[t] = NoHash
      BY <2>5, <3>1, FinishTypes DEF SelectFails, TypeOK
    <3>2. CASE adding[t] # NoHash
      BY <2>5, <3>2 DEF SelectFails, TypeOK, CallsType, PCs, Looking, Storing
    <3> QED  BY <3>1, <3>2
  <2>6. CASE FillAfterSelect(t)
    <3>1. arg[t] \in Hashes /\ height[t] \in Nat
      BY <2>6 DEF FillAfterSelect, TypeOK, CallsType, Looking
    <3>2. DOMAIN cache' \subseteq Nat /\ \A p \in DOMAIN cache' : cache'[p] \in Nat \cup {-1}
      BY <2>6, <3>1, RememberType DEF FillAfterSelect, TypeOK
    <3> QED  BY <2>6, <3>1, <3>2, FoundTypes DEF FillAfterSelect, TypeOK
  <2>7. CASE InsertBlock(t) \/ ReplaceBlock(t)
    <3>1. adding[t] \in Hashes \ {Genesis} /\ height[t] \in Nat
      BY <2>7 DEF InsertBlock, ReplaceBlock, TypeOK, CallsType, Storing
    <3>2. IsTable(blocks')
      <4>1. blocks' = WithRow(blocks, height[t], adding[t])
        BY <2>7 DEF InsertBlock, ReplaceBlock
      <4>2. IsTable(WithRow(blocks, height[t], adding[t]))
        BY <3>1, WithRowTable DEF TypeOK
      <4> QED  BY <4>1, <4>2
    <3> QED  BY <2>7, <3>2 DEF InsertBlock, ReplaceBlock, TypeOK, CallsType, PCs,
                              Looking, Storing
  <2>8. CASE InsertConflicts(t) \/ CompareGoesOn(t)
    BY <2>8 DEF InsertConflicts, CompareGoesOn, TypeOK, CallsType, PCs, Looking, Storing
  <2>9. CASE CompareGivesUp(t)
    BY <2>9, FinishTypes DEF CompareGivesUp, TypeOK
  <2>10. CASE FillAfterAdd(t)
    <3>1. adding[t] \in Hashes /\ height[t] \in Nat
      BY <2>10 DEF FillAfterAdd, TypeOK, CallsType, Storing
    <3>2. DOMAIN cache' \subseteq Nat /\ \A p \in DOMAIN cache' : cache'[p] \in Nat \cup {-1}
      BY <2>10, <3>1, RememberType DEF FillAfterAdd, TypeOK
    <3> QED  BY <2>10, <3>2, FinishTypes DEF FillAfterAdd, TypeOK
  <2>11. CASE ResetInsert(t)
    <3>1. IsTable(WithRows(blocks, CheckpointRows(BeforeTaken)))
      BY WithRowsTable, CheckpointFacts DEF TypeOK
    <3>2. IsTable(NoBlocks)
      BY DEF IsTable, NoBlocks
    <3>3. IsTable(blocks') /\ openTx' \in BOOLEAN /\ IsTable(durable') /\ cache' = cache
      BY <2>11, <3>1, <3>2 DEF ResetInsert, TypeOK, IsTable
    <3> QED  BY <2>11, <3>3, FinishTypes DEF ResetInsert, TypeOK
  <2> QED  BY <1>6, <2>1, <2>2, <2>3, <2>4, <2>5, <2>6, <2>7, <2>8, <2>9, <2>10,
              <2>11 DEF Proceed
<1> QED  BY <1>1, <1>2, <1>3, <1>4, <1>5, <1>6 DEF Next

\* The table, the cache and every call under way have their types at all times.
THEOREM TypeCorrect == Spec => []TypeOK
<1>1. TypeInv => TypeOK
  BY DEF TypeInv
<1> QED  BY <1>1, InitTypes, TypeStep, PTL DEF Spec

-----------------------------------------------------------------------------
(* Heights *)

\* A table in which every block is at its true height.
DeepTable(t) == \A h \in DOMAIN t : Depth[t[h]] = h

\* The cache never gives a prefix a height that is not its block's.
CacheTrue ==
    \A p \in DOMAIN cache : cache[p] > 0 =>
        \E b \in Hashes : Prefix[b] = p /\ Depth[b] = cache[p]

\* A call under way works with true heights.
CallsTrue ==
    /\ \A t \in Threads : pc[t] = "h_fill" => height[t] = Depth[arg[t]]
    /\ \A t \in Threads : pc[t] \in Storing => height[t] = Depth[adding[t]]

DepthInv ==
    /\ TypeInv
    /\ HeightIsDepth
    /\ DeepTable(durable)
    /\ CacheTrue
    /\ CallsTrue

\* An entry made for a block at its true height is true.
LEMMA RememberTrue ==
    ASSUME TypeInv, CacheTrue, NEW b \in Hashes,
           cache' = Remember(cache, Prefix[b], Depth[b])
    PROVE  CacheTrue'
<1>1. /\ DOMAIN cache' \subseteq DOMAIN cache \cup {Prefix[b]}
      /\ cache'[Prefix[b]] \in {Depth[b], -1}
      /\ \A q \in DOMAIN cache' : q # Prefix[b] => q \in DOMAIN cache /\ cache'[q] = cache[q]
  BY RememberFacts
<1>2. ASSUME NEW p \in DOMAIN cache', cache'[p] > 0
      PROVE  \E c \in Hashes : Prefix[c] = p /\ Depth[c] = cache'[p]
  <2>1. CASE p = Prefix[b]
    BY <1>1, <1>2, <2>1
  <2>2. CASE p # Prefix[b]
    BY <1>1, <1>2, <2>2 DEF CacheTrue
  <2> QED  BY <2>1, <2>2
<1> QED  BY <1>2 DEF CacheTrue

\* A lookup's caller goes on with the true height of what it looked up.
LEMMA FoundTrue ==
    ASSUME DepthInv, NEW t \in Threads, pc[t] \in Looking, Found(t, Depth[arg[t]])
    PROVE  CallsTrue'
<1> USE ChainAssumption DEF DepthInv, TypeInv, TypeOK
<1>1. CASE adding[t] = NoHash
  BY <1>1 DEF Found, Finish, CallsTrue, Storing
<1>2. CASE adding[t] # NoHash
  <2>1. Depth[adding[t]] = Depth[arg[t]] + 1
    BY <1>2 DEF CallsType
  <2> QED  BY <1>2, <2>1 DEF Found, CallsTrue, Storing
<1> QED  BY <1>1, <1>2

\* A call that ends has no height left to be true.
LEMMA FinishTrue ==
    ASSUME DepthInv, NEW t \in Threads, Finish(t)
    PROVE  CallsTrue'
BY DEF DepthInv, TypeInv, TypeOK, Finish, CallsTrue, Storing

\* If no two blocks share a prefix, no step stores a block at a wrong height.
LEMMA DepthStep ==
    ASSUME PrefixesDistinct
    PROVE  DepthInv /\ [Next]_vars => DepthInv'
<1> SUFFICES ASSUME DepthInv, [Next]_vars
             PROVE  DepthInv'
  OBVIOUS
<1> USE ChainAssumption
<1>0. TypeInv'
  BY TypeStep DEF DepthInv
<1> SUFFICES HeightIsDepth' /\ DeepTable(durable)' /\ CacheTrue' /\ CallsTrue'
  BY <1>0 DEF DepthInv
<1>1. CASE UNCHANGED vars
  BY <1>1 DEF vars, DepthInv, HeightIsDepth, DeepTable, CacheTrue, CallsTrue
<1>2. CASE Restart
  <2>1. HeightIsDepth' /\ DeepTable(durable)'
    BY <1>2 DEF Restart, DepthInv, HeightIsDepth, DeepTable, NoBlocks
  <2>2. CacheTrue'
    BY <1>2 DEF Restart, NoCache, CacheTrue
  <2>3. CallsTrue'
    BY <1>2 DEF Restart, CallsTrue, Storing
  <2> QED  BY <2>1, <2>2, <2>3
<1>3. ASSUME NEW t \in Threads, NEW b \in Hashes,
             CallHeightOf(t, b) \/ CallAddBlock(t, b)
      PROVE  DepthInv'
  BY <1>0, <1>3 DEF CallHeightOf, CallAddBlock, DepthInv, HeightIsDepth, DeepTable, CacheTrue,
              CallsTrue, Storing, TypeInv, TypeOK
<1>4. ASSUME NEW t \in Threads, ResetDelete(t)
      PROVE  HeightIsDepth' /\ DeepTable(durable)' /\ CacheTrue' /\ CallsTrue'
  <2>1. HeightIsDepth'
    BY <1>4 DEF ResetDelete, HeightIsDepth, NoBlocks
  <2>2. UNCHANGED <<durable, cache>> /\ CallsTrue'
    BY <1>4 DEF ResetDelete, DepthInv, CallsTrue, Storing, TypeInv, TypeOK
  <2> QED  BY <2>1, <2>2 DEF DepthInv, DeepTable, CacheTrue
<1>5. ASSUME NEW t \in Threads, Proceed(t)
      PROVE  HeightIsDepth' /\ DeepTable(durable)' /\ CacheTrue' /\ CallsTrue'
  <2>0. ASSUME UNCHANGED <<blocks, durable>>
        PROVE  HeightIsDepth' /\ DeepTable(durable)'
    BY <2>0 DEF DepthInv, HeightIsDepth, DeepTable
  <2>00. cache' = cache => CacheTrue'
    BY DEF DepthInv, CacheTrue
  <2>1. CASE CacheHit(t)
    <3>1. pc[t] \in Looking /\ arg[t] \in Hashes
      BY <2>1 DEF CacheHit, Looking, DepthInv, TypeInv, CallsType
    <3>2. cache[Prefix[arg[t]]] = Depth[arg[t]]
      BY <2>1, <3>1 DEF CacheHit, InCache, DepthInv, CacheTrue, PrefixesDistinct
    <3>3. CallsTrue'
      BY <2>1, <3>1, <3>2, FoundTrue DEF CacheHit
    <3> QED  BY <2>1, <3>3, <2>0, <2>00 DEF CacheHit
  <2>2. CASE CacheMiss(t) \/ InsertConflicts(t) \/ CompareGoesOn(t)
    <3>1. CallsTrue'
      BY <2>2 DEF CacheMiss, InsertConflicts, CompareGoesOn, DepthInv, CallsTrue, Storing,
                  TypeInv, TypeOK
    <3> QED  BY <2>2, <3>1, <2>0, <2>00 DEF CacheMiss, InsertConflicts, CompareGoesOn
  <2>3. CASE SelectFinds(t)
    <3>1. CallsTrue'
      BY <2>3 DEF SelectFinds, DepthInv, HeightIsDepth, CallsTrue, Storing, TypeInv, TypeOK
    <3> QED  BY <2>3, <3>1, <2>0, <2>00 DEF SelectFinds
  <2>4. CASE SelectGenesis(t)
    <3>1. pc[t] \in Looking /\ Depth[arg[t]] = 0
      BY <2>4 DEF SelectGenesis, Looking
    <3>2. CallsTrue'
      BY <2>4, <3>1, FoundTrue DEF SelectGenesis
    <3> QED  BY <2>4, <3>2, <2>0, <2>00 DEF SelectGenesis
  <2>5. CASE SelectFails(t)
    <3>1. CallsTrue'
      <4>1. CASE adding[t] = NoHash
        BY <2>5, <4>1, FinishTrue DEF SelectFails
      <4>2. CASE adding[t] # NoHash
        BY <2>5, <4>2 DEF SelectFails, DepthInv, CallsTrue, Storing, TypeInv, TypeOK
      <4> QED  BY <4>1, <4>2
    <3> QED  BY <2>5, <3>1, <2>0, <2>00 DEF SelectFails
  <2>6. CASE FillAfterSelect(t)
    <3>1. pc[t] \in Looking /\ arg[t] \in Hashes /\ height[t] = Depth[arg[t]]
      BY <2>6 DEF FillAfterSelect, Looking, DepthInv, TypeInv, CallsType, CallsTrue
    <3>2. CacheTrue'
      BY <2>6, <3>1, RememberTrue DEF FillAfterSelect, DepthInv
    <3>3. CallsTrue'
      BY <2>6, <3>1, FoundTrue DEF FillAfterSelect
    <3> QED  BY <2>6, <3>2, <3>3, <2>0 DEF FillAfterSelect
  <2>7. CASE InsertBlock(t) \/ ReplaceBlock(t)
    <3>1. blocks' = WithRow(blocks, height[t], adding[t]) /\ UNCHANGED <<durable, cache>>
      BY <2>7 DEF InsertBlock, ReplaceBlock
    <3>2. height[t] = Depth[adding[t]]
      BY <2>7 DEF InsertBlock, ReplaceBlock, DepthInv, CallsTrue, Storing
    <3>3. HeightIsDepth'
      BY <3>1, <3>2 DEF WithRow, DepthInv, HeightIsDepth
    <3>4. CallsTrue'
      BY <2>7 DEF InsertBlock, ReplaceBlock, DepthInv, CallsTrue, Storing, TypeInv, TypeOK
    <3> QED  BY <3>1, <3>3, <3>4, <2>00 DEF DepthInv, DeepTable
  <2>8. CASE CompareGivesUp(t)
    <3>1. CallsTrue'
      BY <2>8, FinishTrue DEF CompareGivesUp
    <3> QED  BY <2>8, <3>1, <2>0, <2>00 DEF CompareGivesUp
  <2>9. CASE FillAfterAdd(t)
    <3>1. adding[t] \in Hashes /\ height[t] = Depth[adding[t]]
      BY <2>9 DEF FillAfterAdd, Storing, DepthInv, TypeInv, TypeOK, CallsType, CallsTrue
    <3>2. CacheTrue'
      BY <2>9, <3>1, RememberTrue DEF FillAfterAdd, DepthInv
    <3>3. CallsTrue'
      BY <2>9, FinishTrue DEF FillAfterAdd
    <3> QED  BY <2>9, <3>2, <3>3, <2>0 DEF FillAfterAdd
  <2>10. CASE ResetInsert(t)
    <3> DEFINE rows == CheckpointRows(BeforeTaken)
    <3>1. \A h \in DOMAIN rows : Depth[rows[h]] = h
      BY CheckpointFacts
    <3>2. CallsTrue' /\ cache' = cache
      BY <2>10, FinishTrue DEF ResetInsert
    <3>3. CASE openTx
      BY <2>10, <3>2, <3>3, <2>0, <2>00 DEF ResetInsert
    <3>4. CASE ~openTx
      <4>1. blocks' = WithRows(blocks, rows) /\ durable' \in {blocks, NoBlocks}
        BY <2>10, <3>4 DEF ResetInsert
      <4> HIDE DEF rows
      <4>2. HeightIsDepth'
        BY <3>1, <4>1 DEF WithRows, DepthInv, HeightIsDepth
      <4>3. DeepTable(durable)'
        BY <4>1 DEF DepthInv, HeightIsDepth, DeepTable, NoBlocks
      <4> QED  BY <3>2, <4>2, <4>3, <2>00
    <3> QED  BY <3>3, <3>4
  <2> QED  BY <1>5, <2>1, <2>2, <2>3, <2>4, <2>5, <2>6, <2>7, <2>8, <2>9, <2>10
           DEF Proceed
<1> QED  BY <1>1, <1>2, <1>3, <1>4, <1>5 DEF Next, DepthInv

\* The state DatabaseNew leaves is one of true heights.
LEMMA DepthInit == Init => DepthInv
<1> SUFFICES ASSUME Init PROVE DepthInv
  OBVIOUS
<1>1. HeightIsDepth /\ DeepTable(durable)
  BY CheckpointFacts DEF Init, AllCheckpoints, HeightIsDepth, DeepTable, NoBlocks
<1>2. CacheTrue /\ CallsTrue
  BY DEF Init, NoCache, CacheTrue, CallsTrue, Storing
<1> QED  BY <1>1, <1>2, InitTypes DEF DepthInv

\* If no two blocks share their first four bytes, every block is stored at its
\* true height: under any interleaving of DatabaseAddBlock, DatabaseHeightOf and
\* DatabaseResetAllBlocks, with any cache size, across restarts.
THEOREM TrueHeights ==
    ASSUME PrefixesDistinct
    PROVE  Spec => []HeightIsDepth
<1>1. DepthInv => HeightIsDepth
  BY DEF DepthInv
<1>2. DepthInv /\ [Next]_vars => DepthInv'
  BY DepthStep
<1> QED  BY <1>1, <1>2, DepthInit, PTL DEF Spec

\* Under the same assumption DatabaseHeightOf finds every stored block, at the
\* height it is stored at, whatever the cache remembers or has forgotten.
THEOREM StoredAreFound ==
    ASSUME PrefixesDistinct
    PROVE  Spec => []StoredBlocksFound
<1>1. DepthInv => StoredBlocksFound
  <2> SUFFICES ASSUME DepthInv, NEW h \in DOMAIN blocks
               PROVE  HeightOf(blocks[h]) = h
    BY DEF StoredBlocksFound
  <2> DEFINE b == blocks[h]
  <2>1. b \in Hashes /\ Depth[b] = h /\ h \in Nat
    BY DEF DepthInv, HeightIsDepth, TypeInv, TypeOK, IsTable
  <2>2. CASE InCache(Prefix[b])
    <3>1. PICK c \in Hashes : Prefix[c] = Prefix[b] /\ Depth[c] = cache[Prefix[b]]
      BY <2>2 DEF InCache, DepthInv, CacheTrue
    <3>2. c = b
      BY <2>1, <3>1 DEF PrefixesDistinct
    <3> QED  BY <2>1, <2>2, <3>1, <3>2 DEF HeightOf
  <2>3. CASE ~InCache(Prefix[b])
    <3>1. \A k \in DOMAIN blocks : blocks[k] = b => k = h
      BY <2>1 DEF DepthInv, HeightIsDepth
    <3>2. (CHOOSE k \in DOMAIN blocks : blocks[k] = b) = h
      BY <3>1
    <3> QED  BY <2>3, <3>2 DEF HeightOf, Stored
  <2> QED  BY <2>2, <2>3
<1>2. DepthInv /\ [Next]_vars => DepthInv'
  BY DepthStep
<1> QED  BY <1>1, <1>2, DepthInit, PTL DEF Spec
=============================================================================
