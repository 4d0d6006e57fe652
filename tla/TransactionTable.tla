-------------------------- MODULE TransactionTable --------------------------
(***************************************************************************)
(* The table `transactions` and the queries that relate it to the blocks   *)
(* (Database.c), the recording of fees and the block locator made from     *)
(* those queries (NodeManager.c).                                          *)
(*                                                                         *)
(* A block is <<height, hash, time>> in the table as [hash, time] by       *)
(* height; a smaller hash replaces the block at its height (BlockStore has *)
(* that race).  Times are small numbers; three days are PublishTime.       *)
(***************************************************************************)
EXTENDS Integers, Sequences, FiniteSets, FiniteSetsExt, SequencesExt

CONSTANTS
    TableTxs,      \* the transactions
    MaxHeight,     \* bound: the highest block
    BlockIds,      \* the hashes of the blocks of one height: numbers
    MaxTime,       \* bound: the clock
    PublishTime,   \* 60*60*24*3
    LocatorRun     \* 10: how many hashes are given one by one

ASSUME TransactionTableAssumption ==
    MaxHeight \in Nat /\ BlockIds \subseteq Nat /\ IsFiniteSet(BlockIds) /\ BlockIds # {}

VARIABLES
    blockRows,  \* [height -> [hash, time]]
    txRows,     \* [transaction -> [height, time, fee, rejectCode]]
    clockTime,  \* the time of day
    txBlock     \* the last block, [height, hash], that each transaction was added with

tableVars == <<blockRows, txRows, clockTime, txBlock>>

WithEntry(f, k, v) == [x \in DOMAIN f \cup {k} |-> IF x = k THEN v ELSE f[x]]
WithoutEntry(f, k) == [x \in DOMAIN f \ {k} |-> f[x]]
NoRows == [x \in {} |-> 0]

\* max() and min() of no rows are NULL, which is read as 0.
MaxOrZero(S) == IF S = {} THEN 0 ELSE Max(S)
MinOrZero(S) == IF S = {} THEN 0 ELSE Min(S)

-----------------------------------------------------------------------------
(* Queries of the block table.                                             *)

DatabaseHighestHeight(B) == MaxOrZero(DOMAIN B)
DatabaseHighestBlockBeforeTime(B, time) == MaxOrZero({h \in DOMAIN B : B[h].time < time})

\* The last height before the first gap above the start.
DatabaseHighestHeightOrLowestMissingAfter(B, time) ==
    LET start == DatabaseHighestBlockBeforeTime(B, time)
        gaps == {h \in start + 1 .. DatabaseHighestHeight(B) : h \notin DOMAIN B}
    IN  IF gaps = {} THEN DatabaseHighestHeight(B) ELSE Min(gaps) - 1

\* The nearest row; 0 stands for a row if it is nearer than the lowest one.
DatabaseNearestHeight(B, height) ==
    LET lower == MaxOrZero({h \in DOMAIN B : h < height})
        upper == MinOrZero({h \in DOMAIN B : h >= height})
    IN  IF upper = 0 \/ height - lower < upper - height THEN lower ELSE upper

Distance(a, b) == IF a < b THEN b - a ELSE a - b

\* order by abs(? - time): of two rows equally near either may come first.
NearestToTime(B, time) ==
    LET lower == MaxOrZero({h \in DOMAIN B : B[h].time < time})
        upper == MinOrZero({h \in DOMAIN B : B[h].time >= time})
        both == {lower, upper} \cap DOMAIN B
    IN  IF upper = 0 THEN {lower}
        ELSE {h \in both : \A k \in both : Distance(B[h].time, time) <= Distance(B[k].time, time)}

\* Counting the rows, up from a height or down from the highest.
NumBlocks(B) == Cardinality(DOMAIN B)
DatabaseBlockHashesAbove(B, height, limit) ==
    LET above == SetToSortSeq({h \in DOMAIN B : h > height}, <)
    IN  SubSeq(above, 1, IF Len(above) < limit THEN Len(above) ELSE limit)
NthBlockHash(B, n) ==
    LET down == SetToSortSeq(DOMAIN B, >) IN IF n < Len(down) THEN down[n + 1] ELSE 0
HasBlock(B, h, hash) == h \in DOMAIN B /\ B[h].hash = hash

DatabaseHashOf(B, height) == IF height \in DOMAIN B THEN B[height].hash ELSE -1

\* Mutant: the locator begins at the highest block.
IndexFromTop(B, time) == DatabaseHighestHeight(B)
StartIndex(B, time) == DatabaseHighestHeightOrLowestMissingAfter(B, time)

\* blockIndicatorHashes, as heights: one by one at first, then in steps that
\* double; DatabaseFirstBlockHash comes last.
LocatorIndices(start) ==
    LET after(i) == IF i <= LocatorRun THEN i
                    ELSE LocatorRun + 2 ^ (i - LocatorRun) - 1
    IN  SelectSeq([i \in 1 .. start |-> start - after(i - 1)], LAMBDA x : x > 0)

BlockIndicatorHeights(B, time) ==
    LET indices == LocatorIndices(StartIndex(B, time))
    IN  [i \in DOMAIN indices |-> DatabaseNearestHeight(B, indices[i])]

-----------------------------------------------------------------------------
(* Queries of the transaction table.                                       *)

DatabaseTransactionHeight(t) == IF t \in DOMAIN txRows THEN txRows[t].height ELSE -1
DatabaseTransactionTime(t) == IF t \in DOMAIN txRows THEN txRows[t].time ELSE 0

DatabaseConfirmations(t) ==
    IF DatabaseTransactionHeight(t) < 0 THEN -1
    ELSE DatabaseHighestHeight(blockRows) + 1 - DatabaseTransactionHeight(t)

DatabaseTransactionsToPublish ==
    {t \in DOMAIN txRows : txRows[t].height < 1 /\ txRows[t].time > clockTime - PublishTime}

\* [delta, confirmed] of a transaction with a fee.
TransactionTimeDelta(t) ==
    LET h == txRows[t].height
        found == h \in DOMAIN blockRows
        time == IF found THEN blockRows[h].time ELSE clockTime
    IN  [delta |-> IF time > txRows[t].time THEN time - txRows[t].time ELSE 0, confirmed |-> found]

TotalFee(txs) == FoldSet(LAMBDA t, sum : sum + txRows[t].fee, 0, txs)

\* What DatabaseEstimateFeePerByte averages, of the same size: rejected ones
\* are left out, one that waits long raises the result to its own fee.  Zero
\* if none is confirmed.
DatabaseEstimateFee(minDelta) ==
    LET counted == {t \in DOMAIN txRows : txRows[t].fee # 0 /\ txRows[t].rejectCode = 0}
        mined == {t \in counted : TransactionTimeDelta(t).confirmed}
        late == {t \in counted \ mined : TransactionTimeDelta(t).delta > minDelta}
    IN  IF mined = {} THEN 0
        ELSE Max({TotalFee(mined) \div Cardinality(mined)} \cup {txRows[t].fee : t \in late})

-----------------------------------------------------------------------------
(* Operations.                                                             *)

TableInit ==
    /\ blockRows \in UNION {[H -> {[hash |-> Max(BlockIds), time |-> 1]}] :
                            H \in SUBSET (2 .. MaxHeight)}
    /\ txRows = NoRows /\ clockTime = 1 /\ txBlock = NoRows

\* A block at a height: a new row, or a smaller hash.
BlockStored(h, b) ==
    /\ h \in DOMAIN blockRows => b < blockRows[h].hash
    /\ blockRows' = WithEntry(blockRows, h, [hash |-> b, time |-> clockTime])
    /\ UNCHANGED <<txRows, clockTime, txBlock>>

TimeOfHeight(B, h) == IF h \in DOMAIN B THEN B[h].time ELSE 0
EarlierTime(old, new) == IF old < new THEN old ELSE new

\* Mutant: a row is updated without a block as well.
UpdatesAlways(h) == TRUE
Updates(h) == h > 0

\* DatabaseAddTransaction: h is the height of the block, or -1.
AddTransaction(t, h) ==
    /\ h = -1 \/ h \in DOMAIN blockRows
    /\ IF t \notin DOMAIN txRows
       THEN txRows' = WithEntry(txRows, t, [height |-> h, time |-> clockTime, fee |-> 0,
                                            rejectCode |-> 0])
       ELSE /\ Updates(h)
            /\ txRows' = [txRows EXCEPT ![t].height = h,
                                        ![t].time = EarlierTime(@, TimeOfHeight(blockRows, h))]
    /\ txBlock' = IF h > 0 THEN WithEntry(txBlock, t, [height |-> h, hash |-> blockRows[h].hash])
                  ELSE txBlock
    /\ UNCHANGED <<blockRows, clockTime>>

DatabaseTransactionsWithNoFee(hashes) == {t \in DOMAIN txRows \cap hashes : txRows[t].fee = 0}
DatabaseRecordTransactionFee(row, fee) == [row EXCEPT !.fee = fee]

\* TTCalculateTransactionFee: zero while a funding transaction is missing.
CalculateTransactionFee(t, funded) == IF t \in funded THEN 1 ELSE 0

\* updateTransactionFees, of the transactions that TTInterestingTransactionHashes
\* lists.
UpdateTransactionFees(interesting, funded) ==
    LET fee(t) == CalculateTransactionFee(t, funded)
        recorded == {t \in DatabaseTransactionsWithNoFee(interesting) : fee(t) # 0}
    IN  /\ recorded # {}
        /\ txRows' = [t \in DOMAIN txRows |->
                          IF t \in recorded THEN DatabaseRecordTransactionFee(txRows[t], fee(t))
                          ELSE txRows[t]]
        /\ UNCHANGED <<blockRows, clockTime, txBlock>>

DatabaseSetTransaction(t, code) ==
    /\ t \in DOMAIN txRows /\ txRows[t].rejectCode # code
    /\ txRows' = [txRows EXCEPT ![t].rejectCode = code]
    /\ UNCHANGED <<blockRows, clockTime, txBlock>>

DatabaseDeleteTransaction(t) ==
    /\ t \in DOMAIN txRows
    /\ txRows' = WithoutEntry(txRows, t) /\ txBlock' = WithoutEntry(txBlock, t)
    /\ UNCHANGED <<blockRows, clockTime>>

\* DatabaseResetAllBlocks empties both tables.
ResetTables ==
    /\ DOMAIN txRows # {}
    /\ blockRows' = NoRows /\ txRows' = NoRows /\ txBlock' = NoRows /\ UNCHANGED clockTime

ClockTicks == clockTime < MaxTime /\ clockTime' = clockTime + 1 /\ UNCHANGED <<blockRows, txRows, txBlock>>

TableNext ==
    \/ ClockTicks \/ ResetTables
    \/ \E h \in 1 .. MaxHeight, b \in BlockIds : BlockStored(h, b)
    \/ \E t \in TableTxs : \/ \E h \in -1 .. MaxHeight : AddTransaction(t, h)
                           \/ DatabaseDeleteTransaction(t)
                           \/ DatabaseSetTransaction(t, 16)
    \/ \E interesting, funded \in SUBSET TableTxs : UpdateTransactionFees(interesting, funded)

TableSpec == TableInit /\ [][TableNext]_tableVars

-----------------------------------------------------------------------------
(* Properties.                                                             *)

\* A transaction that was seen in a block stays confirmed when it is seen
\* again outside of one (sent again, echoed by a node), at the height of the
\* last block it was seen in, and is then not published again.  When that block
\* is replaced at its height, the transaction keeps the height, and its
\* confirmations, all the same.
ConfirmationKept ==
    \A t \in DOMAIN txRows :
        LET h == DatabaseTransactionHeight(t)
        IN  /\ t \in DOMAIN txBlock <=> h > 0
            /\ h > 0 => /\ h = txBlock[t].height
                        /\ DatabaseConfirmations(t) \in 1 .. DatabaseHighestHeight(blockRows)
                        /\ t \notin DatabaseTransactionsToPublish
                        /\ TransactionTimeDelta(t).confirmed
                        /\ DatabaseHashOf(blockRows, h) <= txBlock[t].hash
            /\ DatabaseTransactionTime(t) <= clockTime
            /\ t \in DatabaseTransactionsToPublish => DatabaseConfirmations(t) = -1
            /\ DatabaseEstimateFee(1) <= 1

\* The locator of a request for headers begins just below the lowest missing
\* block after the wallet's creation, so that the answer fills the gap, and
\* goes down through blocks of the table.  It fails to below half the height
\* of the lowest row, where height 0 is taken to be nearer and the locator
\* gets an empty hash.  The download, which counts up from a height, and the
\* rows counted down from the highest find the same blocks.
LocatorFillsGap ==
    \A time \in 1 .. MaxTime :
        LET heights == BlockIndicatorHeights(blockRows, time)
            start == DatabaseHighestBlockBeforeTime(blockRows, time)
        IN  /\ heights # <<>> =>
                  /\ heights[1] \in DOMAIN blockRows
                  /\ \A h \in start + 1 .. heights[1] : h \in DOMAIN blockRows
                  /\ heights[1] + 1 \notin DOMAIN blockRows
            /\ \A i \in DOMAIN heights : /\ heights[i] \notin DOMAIN blockRows => heights[i] = 0
                                         /\ i > 1 => heights[i] <= heights[i - 1]
            /\ NearestToTime(blockRows, time) \subseteq DOMAIN blockRows \cup {0}
            /\ \A n \in 0 .. NumBlocks(blockRows) - 1 :
                  LET h == NthBlockHash(blockRows, n)
                      above == DatabaseBlockHashesAbove(blockRows, h, NumBlocks(blockRows))
                  IN  /\ HasBlock(blockRows, h, DatabaseHashOf(blockRows, h))
                      /\ Len(above) = n
                      /\ n > 0 => above[1] = NthBlockHash(blockRows, n - 1)
=============================================================================
