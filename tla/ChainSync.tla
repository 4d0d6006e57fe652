------------------------------ MODULE ChainSync ------------------------------
(***************************************************************************)
(* code/NodeManager.c: how block headers and then the wallet's             *)
(* transactions are downloaded from the active node, and how a node is     *)
(* chosen, replaced and abandoned meanwhile.                               *)
(*                                                                         *)
(* Three threads take part, each with a queue (module WorkQueue): the main *)
(* thread, which also reads what the nodes send, the database thread and   *)
(* the "TxProcessing" thread.  A handler runs under nodesMutex and is one  *)
(* step.  A node is known to the queued work by its address in memory      *)
(* alone, so Ptrs are addresses.                                           *)
(*                                                                         *)
(* The chain is the one the network agrees on; height 0 is the last        *)
(* checkpoint.  What competing blocks do to the table of blocks is the     *)
(* subject of BlockStore.                                                  *)
(***************************************************************************)
EXTENDS Integers, Sequences, FiniteSets

CONSTANTS
    Ptrs,           \* addresses a Node may have in memory
    NoNode,         \* NULL
    NodeCount,      \* ACTIVE_NODE_COUNT
    MaxHeight,      \* bound: the highest block there will be
    FirstTip,       \* the highest block when the program is first started
    Matches,        \* how many transactions of each block match the filter
    Wanted,         \* ... and which of them concern the wallet
    WalletHeight,   \* the last block before walletCreationDate
    Margin,         \* 144, the blocks before it that are searched as well
    BatchSize,      \* GET_DATA_BLOCK_COUNT
    HeadersSize,    \* 2000, the most headers a node sends at once
    Milestone,      \* 100, where the download height is noted within a batch
    MinCount,       \* BLOOM_MIN_COUNT
    MaxFailRate,    \* BLOOM_MAX_FAILRATE, in percent
    RejectLimit,    \* CONSECUTIVE_BADBLOCKS_RESET_LIMIT
    Reuse,          \* a new Node may get the address of one still referred to
    MaxQueue,       \* bound: the items on dbQ when a checkup adds to them
    Limit           \* bounds: how often each of Events happens

Events == {"drop",          \* a connection fails, breaks, or is too slow
           "restart",       \* the program ends and is started again
           "foreground",    \* NodeManagerAppDidBecomeActive
           "disconnect",    \* NodeManagerDisconnectAll
           "block",         \* the network finds a block
           "key"}           \* the wallet gets a key the filter does not know

Heights == 1..MaxHeight

ASSUME SizesAssumption ==
    /\ NoNode \notin Ptrs /\ IsFiniteSet(Ptrs)
    /\ NodeCount \in Nat \ {0}
    /\ MaxHeight \in Nat
    /\ FirstTip \in 0..MaxHeight
    /\ WalletHeight \in 0..MaxHeight
    /\ Margin \in Nat
    /\ BatchSize \in Nat \ {0}
    /\ HeadersSize \in Nat \ {0, 1}
    /\ Milestone \in Nat \ {0}
    /\ MinCount \in Nat
    /\ MaxFailRate \in 0..100
    /\ RejectLimit \in Nat
    /\ MaxQueue \in Nat \ {0}
    /\ Reuse \in BOOLEAN

ASSUME ChainAssumption ==
    /\ Matches \in [Heights -> Nat]
    /\ Wanted \subseteq {t \in Heights \X Nat : t[2] \in 1..Matches[t[1]]}
    /\ Limit \in [Events -> Nat]

VARIABLES
    nodes,          \* self->nodes
    active,         \* self->activeNode
    connected,      \* the nodes with node->connected
    lastDlHeight, lastDlSize, lastMerkle, since, gotFinal,
                    \* fields of each node: lastDlHeight, lastDlSize, the height
                    \* of lastMerkleBlock, transactionsSinceLastMerkleBlock and
                    \* gotFinalHeadersMessage
    inbox,          \* what each node has been asked for and is yet to deliver
    mainQ,          \* self->workQueue, without what is posted with a delay
    timers,         \* ... the functions that are posted with a delay
    dbQ, txQ,       \* the queues of the database and TxProcessing threads
    highest,        \* DatabaseHighestHeight; every block up to it is stored
    stored,         \* the transactions of the table `transactions`
    dlHeight,       \* TTBloomFilterDlHeight, kept in basic storage
    synced,         \* self->blockchainSynced
    rejectCount,    \* self->rejectCount
    matchCount, mismatchCount, known,
                    \* the tracker's, where allTransactionHashes is known
    needsUpdate,    \* self->bloomFilterNeedsUpdate
    keysNewer,      \* TTBloomFilterNeedsUpdate
    loaded,         \* self->bloomFilter is set
    tip,            \* the network's highest block
    fault,          \* a Node that is not there was read or written
    spent           \* how often each of Events has happened

nodeVars == <<lastDlHeight, lastDlSize, lastMerkle, since, gotFinal>>
trackerVars == <<matchCount, mismatchCount, known>>
filterVars == <<trackerVars, needsUpdate, keysNewer, loaded>>
vars == <<nodes, active, connected, nodeVars, inbox, mainQ, timers, dbQ, txQ,
          highest, stored, dlHeight, synced, rejectCount, filterVars, tip,
          fault, spent>>

Max2(a, b) == IF a > b THEN a ELSE b
Min2(a, b) == IF a < b THEN a ELSE b

Spend(e) ==
    /\ spent[e] < Limit[e]
    /\ spent' = [spent EXCEPT ![e] = @ + 1]

Init ==
    /\ nodes = {} /\ active = NoNode /\ connected = {}
    /\ lastDlHeight = [p \in Ptrs |-> 0]
    /\ lastDlSize = [p \in Ptrs |-> 0]
    /\ lastMerkle = [p \in Ptrs |-> -1]
    /\ since = [p \in Ptrs |-> 0]
    /\ gotFinal = [p \in Ptrs |-> FALSE]
    /\ inbox = [p \in Ptrs |-> <<>>]
    /\ mainQ = <<>> /\ dbQ = <<>> /\ txQ = <<>> /\ timers = {}
    /\ highest = 0 /\ stored = {} /\ dlHeight = 0
    /\ synced = FALSE /\ rejectCount = 0
    /\ matchCount = 0 /\ mismatchCount = 0 /\ known = {} /\ needsUpdate = FALSE
    /\ keysNewer = TRUE /\ loaded = FALSE
    /\ tip = FirstTip
    /\ fault = FALSE
    /\ spent = [e \in Events |-> 0]

-----------------------------------------------------------------------------
(* Work items, and what a node delivers *)

HeadersWork(p, from, to) == [op |-> "blockHeadersWork", node |-> p, from |-> from, to |-> to]
HeadersDone(p, count, added) ==
    [op |-> "blockHeadersWorkMain", node |-> p, count |-> count, added |-> added]
TransactionsWork(p) == [op |-> "requestTransactionsWorker", node |-> p]
TransactionsDone(p, from, to) ==
    [op |-> "requestTransactionsWorkerMain", node |-> p, from |-> from, to |-> to]
HeadersRequest(p) == [op |-> "requestHeadersWorker", node |-> p]
HeadersRequestDone(p, h) == [op |-> "requestHeadersWorkerMain", node |-> p, from |-> h]
AddTransaction(t) == [op |-> "txWorkerAddTransaction", tx |-> t]
TxDone(p, h) == [op |-> "txWorkerMain", node |-> p, height |-> h]
FilterDone(r) == [op |-> "bloomFilterWorkerMain", result |-> r]

\* The reply to getheaders: the headers from .. to, none if from > to.
Headers(from, to) == [kind |-> "headers", from |-> from, to |-> to]

\* The reply to getdata: for each block from .. to a merkleblock and the
\* transactions that match.  `tx` is what comes next: 0 for the merkleblock.
Blocks(from, to) == [kind |-> "blocks", from |-> from, to |-> to, tx |-> 0]

Inv(h) == [kind |-> "inv", from |-> h]

Rest(m) ==
    IF m.tx < Matches[m.from] THEN <<[m EXCEPT !.tx = @ + 1]>>
    ELSE IF m.from < m.to THEN <<Blocks(m.from + 1, m.to)>>
    ELSE <<>>

\* What p is asked for is delivered if it is connected.
Asked(p, m) == [inbox EXCEPT ![p] = IF p \in connected THEN Append(@, m) ELSE @]

\* The inbox of p once its head is dealt with.
Read(p) ==
    LET m == Head(inbox[p])
    IN  [inbox EXCEPT ![p] = (IF m.kind = "blocks" THEN Rest(m) ELSE <<>>) \o Tail(@)]

Arrives(p, kind) ==
    /\ p \in nodes \cap connected
    /\ inbox[p] # <<>>
    /\ Head(inbox[p]).kind = kind

Queued(q, op) == q # <<>> /\ Head(q).op = op

-----------------------------------------------------------------------------
(* requestHeaders, requestTransactions, changeActiveNode *)

\* requestHeaders(p): nothing is read through p before it is checked.
RequestHeaders(q, p) == Append(q, HeadersRequest(p))

\* requestTransactions, with the download height dl, the highest block top and
\* the database thread's queue q that it finds.
RequestTransactions(dl, top, q) ==
    IF dl >= top
    THEN /\ lastDlHeight' = [p \in Ptrs |-> IF p \in nodes THEN top ELSE lastDlHeight[p]]
         /\ lastDlSize' = [p \in Ptrs |-> IF p \in nodes THEN 1 ELSE lastDlSize[p]]
         /\ synced' = TRUE
         /\ dbQ' = q
         /\ fault' = fault
    ELSE /\ dbQ' = Append(q, TransactionsWork(active))
         /\ fault' = (fault \/ active \notin nodes)
         /\ UNCHANGED <<lastDlHeight, lastDlSize, synced>>

\* The nodes changeActiveNode may make active, out of ns.
Candidates(ns, up) ==
    IF ns \cap up # {} THEN ns \cap up ELSE IF ns # {} THEN ns ELSE {NoNode}

\* NodeClose and NodeFree of the nodes in gone: what they were to deliver is lost.
Emptied(gone) == [p \in Ptrs |-> IF p \in gone THEN <<>> ELSE inbox[p]]

-----------------------------------------------------------------------------
(* Headers *)

\* blockHeaders: to the database thread.
BlockHeaders(p) ==
    /\ Arrives(p, "headers")
    /\ LET m == Head(inbox[p]) IN dbQ' = Append(dbQ, HeadersWork(p, m.from, m.to))
    /\ inbox' = Read(p)
    /\ UNCHANGED <<nodes, active, connected, nodeVars, mainQ, timers, txQ, highest,
                   stored, dlHeight, synced, rejectCount, filterVars, tip, fault, spent>>

\* DatabaseAddBlock in turn: a header is refused unless it is the next one.
Added(from, to) == IF highest + 1 \in from..to THEN to - highest ELSE 0

BlockHeadersWork ==
    /\ Queued(dbQ, "blockHeadersWork")
    /\ LET w == Head(dbQ)
           count == Max2(0, w.to - w.from + 1)
       IN  /\ highest' = highest + Added(w.from, w.to)
           /\ mainQ' = Append(mainQ, HeadersDone(w.node, count, Added(w.from, w.to)))
    /\ dbQ' = Tail(dbQ)
    /\ UNCHANGED <<nodes, active, connected, nodeVars, inbox, timers, txQ, stored,
                   dlHeight, synced, rejectCount, filterVars, tip, fault, spent>>

\* Mutant: the node is not looked up before it is used.
AssumedValid(p) == TRUE

\* nodeStillValid: it looks at the addresses.
NodeStillValid(p) == p \in nodes

\* Fewer headers than a node can send, all of them new: they were the last.
FinalHeaders(w) == w.count # HeadersSize /\ w.added = w.count

\* The reject count is too high: start over from the checkpoints.  (Counts beyond
\* the limit are not told apart.)
ResetBlocks(n) == highest' = 0 /\ stored' = {} /\ dlHeight' = 0 /\ rejectCount' = n

\* blockHeadersWorkMain once it has found the node valid and w no announcement
\* and not final.
MoreHeaders(w) ==
    IF w.node # active
    THEN UNCHANGED <<nodes, active, connected, inbox, dbQ, highest, stored, dlHeight,
                     rejectCount>>
    ELSE IF w.added > 0
    THEN /\ dbQ' = RequestHeaders(dbQ, active)
         /\ UNCHANGED <<nodes, active, connected, inbox, highest, stored, dlHeight, rejectCount>>
    ELSE LET n == Min2(rejectCount + w.count, RejectLimit + 1)
             gone == IF Cardinality(nodes) = 1 THEN {} ELSE {active}
         IN  /\ IF n > RejectLimit
                THEN ResetBlocks(n)
                ELSE rejectCount' = n /\ UNCHANGED <<highest, stored, dlHeight>>
             /\ nodes' = nodes \ gone
             /\ connected' = connected \ gone
             /\ inbox' = Emptied(gone)
             /\ active' \in IF gone = {} THEN {active}
                            ELSE Candidates(nodes \ gone, connected \ gone)
             /\ dbQ' = RequestHeaders(dbQ, active')

BlockHeadersWorkMain ==
    /\ Queued(mainQ, "blockHeadersWorkMain")
    /\ mainQ' = Tail(mainQ)
    /\ LET w == Head(mainQ)
       IN  CASE ~NodeStillValid(w.node) ->
                    UNCHANGED <<nodes, active, connected, nodeVars, inbox, dbQ,
                                highest, stored, dlHeight, synced, rejectCount, fault>>
             [] NodeStillValid(w.node) /\ w.count = 1 ->
                    /\ rejectCount' = 0
                    /\ fault' = (fault \/ w.node \notin nodes)
                    /\ UNCHANGED <<nodes, active, connected, nodeVars, inbox, dbQ,
                                   highest, stored, dlHeight, synced>>
             [] NodeStillValid(w.node) /\ w.count # 1 /\ FinalHeaders(w) ->
                    /\ rejectCount' = 0
                    /\ gotFinal' = [gotFinal EXCEPT ![w.node] = TRUE]
                    /\ RequestTransactions(dlHeight, highest, dbQ)
                    /\ UNCHANGED <<nodes, active, connected, lastMerkle, since,
                                   inbox, highest, stored, dlHeight>>
             [] OTHER ->
                    /\ MoreHeaders(w)
                    /\ fault' = (fault \/ w.node \notin nodes)
                    /\ UNCHANGED <<nodeVars, synced>>
    /\ UNCHANGED <<timers, txQ, filterVars, tip, spent>>

\* requestHeadersWorker: blockIndicatorHashes names the highest block.
RequestHeadersWorker ==
    /\ Queued(dbQ, "requestHeadersWorker")
    /\ mainQ' = Append(mainQ, HeadersRequestDone(Head(dbQ).node, highest))
    /\ dbQ' = Tail(dbQ)
    /\ UNCHANGED <<nodes, active, connected, nodeVars, inbox, timers, txQ, highest,
                   stored, dlHeight, synced, rejectCount, filterVars, tip, fault, spent>>

\* NodeGetHeaders; the node replies with what follows the block it is told.
RequestHeadersWorkerMain ==
    /\ Queued(mainQ, "requestHeadersWorkerMain")
    /\ LET w == Head(mainQ)
       IN  IF NodeStillValid(w.node)
           THEN /\ inbox' = Asked(w.node, Headers(w.from + 1, Min2(w.from + HeadersSize, tip)))
                /\ fault' = (fault \/ w.node \notin nodes)
           ELSE UNCHANGED <<inbox, fault>>
    /\ mainQ' = Tail(mainQ)
    /\ UNCHANGED <<nodes, active, connected, nodeVars, timers, dbQ, txQ, highest,
                   stored, dlHeight, synced, rejectCount, filterVars, tip, spent>>

-----------------------------------------------------------------------------
(* Transactions *)

\* TTFailureRateTooHigh, TTResetFailureRate
FailureRateTooHigh ==
    LET count == matchCount + mismatchCount
    IN  count >= MinCount /\ 100 * mismatchCount > MaxFailRate * count

ResetFailureRate == matchCount' = 0 /\ mismatchCount' = 0

\* TTAddTransaction: what does not concern the wallet is a failure of the
\* filter, and what the tracker has already is not counted.
TTAddTransaction(t) ==
    /\ mismatchCount' = mismatchCount + (IF t \in Wanted THEN 0 ELSE 1)
    /\ matchCount' = matchCount + (IF t \in Wanted \ known THEN 1 ELSE 0)
    /\ known' = known \cup ({t} \cap Wanted)

\* Where the search starts: some blocks before the wallet was created.
Start == Min2(highest, WalletHeight) - Margin

\* ... and where it goes on: the download height is raised to the start.
ResumeAt == Max2(Start, dlHeight)

\* Mutant: the first block is skipped.
FirstAfterNext(h) == Max2(h, 0) + 2

\* DatabaseBlockHashesAbove: the blocks are numbered from 1.
FirstAbove(h) == Max2(h, 0) + 1

RequestTransactionsWorker ==
    /\ Queued(dbQ, "requestTransactionsWorker")
    /\ LET w == Head(dbQ)
           from == FirstAbove(ResumeAt)
       IN  IF NodeStillValid(w.node)
           THEN /\ dlHeight' = ResumeAt
                /\ ResetFailureRate
                /\ mainQ' = Append(mainQ, TransactionsDone(w.node, from,
                                            Min2(from + BatchSize - 1, highest)))
           ELSE UNCHANGED <<dlHeight, matchCount, mismatchCount, mainQ>>
    /\ dbQ' = Tail(dbQ)
    /\ UNCHANGED <<nodes, active, connected, nodeVars, inbox, timers, txQ, highest,
                   stored, synced, rejectCount, known, needsUpdate, keysNewer, loaded,
                   tip, fault, spent>>

\* Mutant: a block that is not stored has a height too.
HeightOfAny(h, top) == h

\* DatabaseHeightOf, with the blocks up to top stored.
HeightOf(h, top) == IF h \in 0..top THEN h ELSE -1

RequestTransactionsWorkerMain ==
    /\ Queued(mainQ, "requestTransactionsWorkerMain")
    /\ LET w == Head(mainQ)
           any == w.from <= w.to
       IN  IF NodeStillValid(w.node)
           THEN /\ lastDlSize' = [lastDlSize EXCEPT ![w.node] =
                                    IF any THEN w.to - w.from + 1 ELSE 0]
                /\ lastDlHeight' = [lastDlHeight EXCEPT ![w.node] =
                                    IF any THEN HeightOf(w.to, highest) ELSE -1]
                /\ inbox' = IF any THEN Asked(w.node, Blocks(w.from, w.to)) ELSE inbox
                /\ fault' = (fault \/ w.node \notin nodes)
           ELSE UNCHANGED <<lastDlSize, lastDlHeight, inbox, fault>>
    /\ mainQ' = Tail(mainQ)
    /\ UNCHANGED <<nodes, active, connected, lastMerkle, since, gotFinal, timers, dbQ,
                   txQ, highest, stored, dlHeight, synced, rejectCount, filterVars,
                   tip, spent>>

\* merkleBlock, with height the height of the block once it is added.
MerkleBlock(p) ==
    /\ Arrives(p, "blocks")
    /\ Head(inbox[p]).tx = 0
    /\ LET b == Head(inbox[p]).from
           top == highest + Added(b, b)
           height == HeightOf(b, top)
           last == lastDlHeight[p] = height
           empty == Matches[b] = 0
       IN  /\ highest' = top
           /\ lastMerkle' = [lastMerkle EXCEPT ![p] = b]
           /\ dlHeight' = IF last \/ (empty /\ height % Milestone = 0)
                          THEN height ELSE dlHeight
           /\ IF last /\ empty
              THEN RequestTransactions(height, top, dbQ)
              ELSE UNCHANGED <<lastDlHeight, lastDlSize, synced, dbQ, fault>>
    /\ since' = [since EXCEPT ![p] = 0]
    /\ inbox' = Read(p)
    /\ UNCHANGED <<nodes, active, connected, gotFinal, mainQ, timers, txQ, stored,
                   rejectCount, filterVars, tip, spent>>

\* tx: what a node other than the active one sends is not looked at.
Tx(p) ==
    /\ Arrives(p, "blocks")
    /\ Head(inbox[p]).tx > 0
    /\ LET m == Head(inbox[p])
       IN  txQ' = IF p = active THEN Append(txQ, [node |-> p, tx |-> <<m.from, m.tx>>])
                  ELSE txQ
    /\ inbox' = Read(p)
    /\ UNCHANGED <<nodes, active, connected, nodeVars, mainQ, timers, dbQ, highest,
                   stored, dlHeight, synced, rejectCount, filterVars, tip, fault, spent>>

\* txWorker tells the main thread when the last block of the batch has come.
Counted(w, height) == lastDlHeight[w.node] = height

\* txWorker: what concerns the wallet goes to the database, new or not.
TxWorker ==
    /\ txQ # <<>>
    /\ LET w == Head(txQ)
           height == HeightOf(lastMerkle[w.node], highest)
       IN  IF NodeStillValid(w.node)
           THEN /\ dbQ' = IF w.tx \in Wanted THEN Append(dbQ, AddTransaction(w.tx)) ELSE dbQ
                /\ TTAddTransaction(w.tx)
                /\ mainQ' = IF Counted(w, height) THEN Append(mainQ, TxDone(w.node, height))
                            ELSE mainQ
                /\ dlHeight' = IF lastDlHeight[w.node] # height /\ height % Milestone = 0
                               THEN Max2(height, dlHeight) ELSE dlHeight
                /\ fault' = (fault \/ w.node \notin nodes)
           ELSE UNCHANGED <<dbQ, trackerVars, mainQ, dlHeight, fault>>
    /\ txQ' = Tail(txQ)
    /\ UNCHANGED <<nodes, active, connected, nodeVars, inbox, timers, highest, stored,
                   synced, rejectCount, needsUpdate, keysNewer, loaded, tip, spent>>

\* How many transactions lastMerkleBlock has for us.
MatchCount(p) == IF lastMerkle[p] \in Heights THEN Matches[lastMerkle[p]] ELSE 0

\* Mutant: the next batch is asked for one transaction too late.
BlockComplete1(p, n) == n = MatchCount(p) + 1

BlockComplete(p, n) == n = MatchCount(p)

TxWorkerMain ==
    /\ Queued(mainQ, "txWorkerMain")
    /\ LET w == Head(mainQ)
           n == since[w.node] + 1
           done == lastDlHeight[w.node] = w.height /\ BlockComplete(w.node, n)
           dl == IF done /\ lastDlHeight[w.node] = dlHeight + lastDlSize[w.node]
                 THEN lastDlHeight[w.node] ELSE dlHeight
       IN  IF NodeStillValid(w.node)
           THEN /\ since' = [since EXCEPT ![w.node] = n]
                /\ dlHeight' = dl
                /\ IF done /\ ~FailureRateTooHigh
                   THEN RequestTransactions(dl, highest, dbQ)
                   ELSE UNCHANGED <<lastDlHeight, lastDlSize, synced, dbQ, fault>>
           ELSE UNCHANGED <<since, dlHeight, lastDlHeight, lastDlSize, synced, dbQ, fault>>
    /\ mainQ' = Tail(mainQ)
    /\ UNCHANGED <<nodes, active, connected, lastMerkle, gotFinal, inbox, timers, txQ,
                   highest, stored, rejectCount, filterVars, tip, spent>>

\* txWorkerAddTransaction: DatabaseAddTransaction on the database thread.
TxWorkerAddTransaction ==
    /\ Queued(dbQ, "txWorkerAddTransaction")
    /\ stored' = stored \cup {Head(dbQ).tx}
    /\ dbQ' = Tail(dbQ)
    /\ UNCHANGED <<nodes, active, connected, nodeVars, inbox, mainQ, timers, txQ, highest,
                   dlHeight, synced, rejectCount, filterVars, tip, fault, spent>>

\* inventory, of a block: the active node is asked for it, and so is any other
\* node if the block is new.
Inventory(p) ==
    /\ Arrives(p, "inv")
    /\ LET h == Head(inbox[p]).from
       IN  inbox' = IF p = active \/ h > highest
                    THEN [Read(p) EXCEPT ![p] = Append(@, Blocks(h, h))]
                    ELSE Read(p)
    /\ UNCHANGED <<nodes, active, connected, nodeVars, mainQ, timers, dbQ, txQ, highest,
                   stored, dlHeight, synced, rejectCount, filterVars, tip, fault, spent>>

-----------------------------------------------------------------------------
(* Choosing, replacing and abandoning nodes *)

\* The addresses that queued work refers to.
Named(q) == {q[i].node : i \in {j \in DOMAIN q : "node" \in DOMAIN q[j]}}

\* Mutant: one node too many.
FullAbove(n) == n <= NodeCount + 1

\* The loop of NodeManagerConnectNodes ends when there are enough nodes.
FullAt(n) == n <= NodeCount

\* Where NodeManagerConnectNodes may put its new nodes, beside those it keeps.
Room(kept) ==
    {new \in SUBSET (Ptrs \ kept) :
        /\ FullAt(Cardinality(kept \cup new))
        /\ kept \cup new # {}
        /\ Reuse \/ new \cap (Named(mainQ) \cup Named(dbQ) \cup Named(txQ)
                              \cup nodes \cup {active}) = {}}

\* NodeNew clears the fields of a node.
NewNodes(new) ==
    /\ lastDlHeight' = [p \in Ptrs |-> IF p \in new THEN 0 ELSE lastDlHeight[p]]
    /\ lastDlSize' = [p \in Ptrs |-> IF p \in new THEN 0 ELSE lastDlSize[p]]
    /\ lastMerkle' = [p \in Ptrs |-> IF p \in new THEN -1 ELSE lastMerkle[p]]
    /\ since' = [p \in Ptrs |-> IF p \in new THEN 0 ELSE since[p]]
    /\ gotFinal' = [p \in Ptrs |-> IF p \in new THEN FALSE ELSE gotFinal[p]]

\* What NodeManagerConnectNodes posts with a delay, of 2, 10 and 15 seconds.
Posted == {"setActiveNodeIfNone", "bloomFilterCheckup", "nodeCheckup"}

\* Connections that fail or are given up without need are counted.
Drops(n) ==
    /\ spent["drop"] + n <= Limit["drop"]
    /\ spent' = [spent EXCEPT !["drop"] = @ + n]

\* The program's own call of NodeManagerConnectNodes; those in down stay
\* unconnected.
ConnectNodes ==
    /\ nodes = {} /\ timers = {}
    /\ \E new \in Room({}) : \E down \in SUBSET new :
        /\ nodes' = new
        /\ connected' = new \ down
        /\ inbox' = Emptied(new)
        /\ NewNodes(new)
        /\ Drops(Cardinality(down))
    /\ keysNewer' = (keysNewer /\ loaded)
    /\ loaded' = TRUE
    /\ timers' = Posted
    /\ UNCHANGED <<active, mainQ, dbQ, txQ, highest, stored, dlHeight, synced,
                   rejectCount, trackerVars, needsUpdate, tip, fault>>

SetActiveNodeIfNone ==
    /\ "setActiveNodeIfNone" \in timers
    /\ timers' = timers \ {"setActiveNodeIfNone"}
    /\ IF active # NoNode
       THEN UNCHANGED <<active, dbQ>>
       ELSE /\ active' \in Candidates(nodes, connected)
            /\ dbQ' = RequestHeaders(dbQ, active')
    /\ UNCHANGED <<nodes, connected, nodeVars, inbox, mainQ, txQ, highest, stored,
                   dlHeight, synced, rejectCount, filterVars, tip, fault, spent>>

\* bloomFilterCheckup and, on a thread of its own, bloomFilterWorker.  The answer
\* to the last checkup, 10 seconds or more ago, has been dealt with.
BloomFilterCheckup ==
    /\ \A i \in DOMAIN mainQ : mainQ[i].op # "bloomFilterWorkerMain"
    /\ "bloomFilterCheckup" \in timers
    /\ "setActiveNodeIfNone" \notin timers
    /\ timers' = timers \ {"bloomFilterCheckup"}
    /\ mainQ' = Append(mainQ, FilterDone(keysNewer))
    /\ UNCHANGED <<nodes, active, connected, nodeVars, inbox, dbQ, txQ, highest, stored,
                   dlHeight, synced, rejectCount, filterVars, tip, fault, spent>>

BloomFilterWorkerMain ==
    /\ Queued(mainQ, "bloomFilterWorkerMain")
    /\ needsUpdate' = Head(mainQ).result
    /\ mainQ' = Tail(mainQ)
    /\ UNCHANGED <<nodes, active, connected, nodeVars, inbox, timers, dbQ, txQ, highest,
                   stored, dlHeight, synced, rejectCount, trackerVars, keysNewer, loaded,
                   tip, fault, spent>>

\* Nothing is under way that would give the active node something to say.
Quiet ==
    /\ mainQ = <<>> /\ dbQ = <<>> /\ txQ = <<>>
    /\ \A p \in nodes : inbox[p] = <<>>

\* Mutant: a node that has stopped in the middle of the headers is kept.
NeverMute(p, late) == p = NoNode

\* The active node is gone, or it is late and has not sent its final headers.
Mute(p, late) == p = NoNode \/ (late /\ ~gotFinal[p])

\* changeActiveNode in nodeCheckup, and the search that follows it if it found
\* none: what can be active next, out of the connected nodes ns, when p was.
NextActive(ns, p, late) ==
    IF ~Mute(p, late) THEN {p}
    ELSE IF Cardinality(ns) # 1 THEN Candidates(ns \ {p}, ns)
    ELSE IF p = NoNode THEN ns
    ELSE {p}

\* ... and the requests for headers: after changeActiveNode, of the one node
\* left too if that found none.
Requested(ns, p, late, next) ==
    IF ~Mute(p, late) THEN dbQ
    ELSE IF p = NoNode /\ Cardinality(ns) = 1
    THEN RequestHeaders(RequestHeaders(dbQ, NoNode), next)
    ELSE RequestHeaders(dbQ, next)

(***************************************************************************)
(* nodeCheckup.  `slow` are the nodes it gives up though they are          *)
(* connected (pings not answered, rejections, not in the master list);     *)
(* `late` that the active node has not been heard of for long enough;      *)
(* `new` the nodes NodeManagerConnectNodes adds, `down` those of them that *)
(* stay unconnected.                                                       *)
(***************************************************************************)
Checkup(late, slow) ==
    LET update == needsUpdate \/ FailureRateTooHigh
        left == connected \ (slow \cup IF update THEN {active} ELSE {})
        kept == IF active \in left THEN active ELSE NoNode
        early == IF late /\ ~Quiet THEN 1 ELSE 0
    IN  /\ fault' = (fault \/ active \notin nodes \cup {NoNode}
                           \/ (update /\ active = NoNode))
        /\ dlHeight' = IF needsUpdate THEN 0 ELSE dlHeight
        /\ IF update THEN ResetFailureRate ELSE UNCHANGED <<matchCount, mismatchCount>>
        /\ needsUpdate' = FALSE
        /\ keysNewer' = (keysNewer /\ ~update)
        /\ active' \in NextActive(left, kept, late)
        /\ dbQ' = Requested(left, kept, late, active')
        /\ LET rest == IF active' = kept THEN left ELSE left \ {kept}
           IN  /\ inbox' = Emptied(Ptrs \ rest)
               /\ \E new \in IF nodes = {} THEN {{}} ELSE Room(rest) :
                  \E down \in SUBSET new :
                    /\ nodes' = rest \cup new
                    /\ connected' = rest \cup (new \ down)
                    /\ NewNodes(new)
                    /\ Drops(Cardinality(slow) + early + Cardinality(down))
        /\ timers' = timers \cup IF nodes = {} THEN Posted \ {"setActiveNodeIfNone"}
                                 ELSE Posted
        /\ UNCHANGED <<mainQ, txQ, highest, stored, synced, rejectCount, known, loaded, tip>>

NodeCheckup(late) ==
    /\ "nodeCheckup" \in timers
    /\ "setActiveNodeIfNone" \notin timers
    /\ Len(dbQ) < MaxQueue
    /\ \E slow \in SUBSET connected : Checkup(late, slow)

\* NodeManagerDisconnectAll; activeNode is left as it is.
DisconnectAll ==
    /\ nodes # {}
    /\ Spend("disconnect")
    /\ nodes' = {} /\ connected' = {}
    /\ inbox' = Emptied(Ptrs)
    /\ timers' = {}
    /\ UNCHANGED <<active, nodeVars, mainQ, dbQ, txQ, highest, stored, dlHeight, synced,
                   rejectCount, filterVars, tip, fault>>

\* NodeManagerAppDidBecomeActive, any time but the first.
AppDidBecomeActive ==
    /\ Spend("foreground")
    /\ dbQ' = RequestHeaders(dbQ, active)
    /\ UNCHANGED <<nodes, active, connected, nodeVars, inbox, mainQ, timers, txQ, highest,
                   stored, dlHeight, synced, rejectCount, filterVars, tip, fault>>

-----------------------------------------------------------------------------
(* What the program does not decide *)

\* A connection breaks: NodeClose, from NodeProcessRead.
Disconnected(p) ==
    /\ p \in nodes \cap connected
    /\ Spend("drop")
    /\ connected' = connected \ {p}
    /\ inbox' = Emptied({p})
    /\ UNCHANGED <<nodes, active, nodeVars, mainQ, timers, dbQ, txQ, highest, stored,
                   dlHeight, synced, rejectCount, filterVars, tip, fault>>

NewBlock ==
    /\ tip < MaxHeight
    /\ Spend("block")
    /\ tip' = tip + 1
    /\ inbox' = [p \in Ptrs |-> IF p \in nodes \cap connected
                                THEN Append(inbox[p], Inv(tip + 1)) ELSE inbox[p]]
    /\ UNCHANGED <<nodes, active, connected, nodeVars, mainQ, timers, dbQ, txQ, highest,
                   stored, dlHeight, synced, rejectCount, filterVars, fault>>

NewKey ==
    /\ Spend("key")
    /\ keysNewer' = TRUE
    /\ UNCHANGED <<nodes, active, connected, nodeVars, inbox, mainQ, timers, dbQ, txQ,
                   highest, stored, dlHeight, synced, rejectCount, trackerVars, needsUpdate,
                   loaded, tip, fault>>

\* The program ends and is started again: the database and the basic storage
\* are what is left.
Restart ==
    /\ Spend("restart")
    /\ nodes' = {} /\ active' = NoNode /\ connected' = {}
    /\ NewNodes(Ptrs)
    /\ inbox' = Emptied(Ptrs)
    /\ mainQ' = <<>> /\ dbQ' = <<>> /\ txQ' = <<>> /\ timers' = {}
    /\ synced' = FALSE /\ rejectCount' = 0
    /\ matchCount' = 0 /\ mismatchCount' = 0 /\ known' = stored
    /\ needsUpdate' = FALSE /\ loaded' = FALSE
    /\ UNCHANGED <<highest, stored, dlHeight, keysNewer, tip, fault>>

MainStep ==
    \/ BlockHeadersWorkMain \/ RequestHeadersWorkerMain
    \/ RequestTransactionsWorkerMain \/ TxWorkerMain \/ BloomFilterWorkerMain

DatabaseStep ==
    \/ BlockHeadersWork \/ RequestHeadersWorker
    \/ RequestTransactionsWorker \/ TxWorkerAddTransaction

ReadStep(p) == BlockHeaders(p) \/ MerkleBlock(p) \/ Tx(p) \/ Inventory(p)

Next ==
    /\ ~fault
    /\ \/ MainStep \/ DatabaseStep \/ TxWorker
       \/ \E p \in Ptrs : ReadStep(p) \/ Disconnected(p)
       \/ ConnectNodes \/ SetActiveNodeIfNone \/ BloomFilterCheckup
       \/ \E late \in BOOLEAN : NodeCheckup(late)
       \/ DisconnectAll \/ AppDidBecomeActive
       \/ NewBlock \/ NewKey \/ Restart

Spec == Init /\ [][Next]_vars

(***************************************************************************)
(* The three threads run and the main loop is called repeatedly; the       *)
(* program connects; what is posted with a delay comes due; the nodes      *)
(* answer.  When nothing is under way, a checkup sooner or later finds     *)
(* that NODE_CHECKUP_INTERVAL / 2 has passed since the active node was     *)
(* heard of.                                                               *)
(***************************************************************************)
Alive(A) == ~fault /\ A

Fairness ==
    /\ WF_vars(Alive(MainStep)) /\ WF_vars(Alive(DatabaseStep)) /\ WF_vars(Alive(TxWorker))
    /\ \A p \in Ptrs : WF_vars(Alive(ReadStep(p)))
    /\ WF_vars(Alive(ConnectNodes)) /\ WF_vars(Alive(SetActiveNodeIfNone))
    /\ SF_vars(Alive(BloomFilterCheckup))
    /\ SF_vars(Alive(Quiet /\ NodeCheckup(TRUE)))

FairSpec == Spec /\ Fairness

-----------------------------------------------------------------------------
(* Properties *)

\* Every variable has its type: the manager's fields, its nodes and queues.
TypeOK ==
    /\ nodes \subseteq Ptrs /\ Cardinality(nodes) <= NodeCount
    /\ active \in Ptrs \cup {NoNode}
    /\ connected \subseteq nodes
    /\ lastDlHeight \in [Ptrs -> -1..MaxHeight]
    /\ lastDlSize \in [Ptrs -> 0..BatchSize]
    /\ lastMerkle \in [Ptrs -> -1..MaxHeight]
    /\ since \in [Ptrs -> Nat]
    /\ gotFinal \in [Ptrs -> BOOLEAN]
    /\ highest \in 0..tip
    /\ stored \subseteq Wanted
    /\ dlHeight \in -1..MaxHeight
    /\ synced \in BOOLEAN
    /\ rejectCount \in 0..RejectLimit + 1
    /\ matchCount \in Nat /\ mismatchCount \in Nat /\ known \subseteq Wanted
    /\ needsUpdate \in BOOLEAN
    /\ keysNewer \in BOOLEAN /\ loaded \in BOOLEAN
    /\ tip \in 0..MaxHeight
    /\ fault \in BOOLEAN

\* Work that was queued for a node is not done to one that has been freed: the
\* three threads pass addresses of nodes to each other, nodes are replaced
\* meanwhile, and nodeStillValid tells them apart.
NoFreedNodeUsed == ~fault

\* The transactions that the search is for.
Sought == {t \in Wanted : t[1] > WalletHeight - Margin}

\* Transactions that are in a queue, or still to come from the active node.
UnderWay(t) ==
    \/ \E i \in DOMAIN dbQ : dbQ[i] = AddTransaction(t)
    \/ \E i \in DOMAIN txQ : txQ[i].tx = t /\ txQ[i].node \in nodes
    \/ /\ active \in nodes
       /\ \E i \in DOMAIN inbox[active] :
            LET m == inbox[active][i]
            IN  /\ m.kind = "blocks"
                /\ \/ t[1] \in m.from + 1 .. m.to
                   \/ t[1] = m.from /\ t[2] >= m.tx

\* The download height never gets ahead of the transactions: those of the
\* blocks up to it are stored or on their way, in one of the three queues or
\* from the node, as long as no connection is lost.
DownloadedOrUnderWay ==
    \A t \in Sought : t[1] <= dlHeight => t \in stored \/ UnderWay(t)

\* NodeManager.c:638, printed when blockchainSynced is set: "All transactions
\* are up to date!"
UpToDate == synced => DownloadedOrUnderWay

\* No block counts as downloaded that is not even stored: the download height
\* stays within the table of blocks.  (requestTransactions would take a download
\* height beyond it for a finished download.)  It is proved for any behaviour
\* without a reset of the table.  One reset while blocks of the old table are on
\* their way keeps it; two resets while the TxProcessing thread is still at the
\* blocks of the first do not: txWorkerMain then notes a height of the old table.
DlHeightWithinChain == dlHeight <= highest

\* In the end every block is downloaded, whichever connections fail, whenever
\* the program is started again and however many headers there are to get:
\* none of the hand-overs between the threads is the last.
Synchronises == <>[](highest = tip /\ dlHeight >= tip)

\* ... and with them every transaction that was looked for.
AllStored == <>[](Sought \subseteq stored)
=============================================================================
