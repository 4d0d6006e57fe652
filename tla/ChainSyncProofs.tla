-------------------------- MODULE ChainSyncProofs --------------------------
(***************************************************************************)
(* Proofs about ChainSync: the types of its state and of all that is on    *)
(* its queues; that the download height stays within the table of blocks   *)
(* unless the table is reset; that no freed node is used; and that while   *)
(* the connection to the active node holds, the download height is never   *)
(* ahead of the transactions.                                              *)
(***************************************************************************)
EXTENDS ChainSync, FiniteSetTheorems, TLAPS

-----------------------------------------------------------------------------
(* The inductive invariants *)

Addresses == Ptrs \cup {NoNode}

\* What a node can have to deliver when the network's highest block is t.
Deliveries(t) ==
    [kind : {"headers"}, from : Nat, to : 0..t]
    \cup [kind : {"blocks"}, from : 1..t, to : 1..t, tx : Nat]
    \cup [kind : {"inv"}, from : 1..t]

\* The parameters of a batch: no more blocks than a batch has.
Batches(t) ==
    {w \in [op : {"requestTransactionsWorkerMain"}, node : Addresses,
            from : Nat \ {0}, to : 0..t] : w.to < w.from + BatchSize}

\* What can be on the queue of the main thread, of the database thread and of
\* the TxProcessing thread.
MainWork(t) ==
    [op : {"blockHeadersWorkMain"}, node : Addresses, count : Nat, added : Nat]
    \cup Batches(t)
    \cup [op : {"requestHeadersWorkerMain"}, node : Addresses, from : 0..t]
    \cup [op : {"txWorkerMain"}, node : Addresses, height : -1..t]
    \cup [op : {"bloomFilterWorkerMain"}, result : BOOLEAN]

DbWork(t) ==
    [op : {"blockHeadersWork"}, node : Addresses, from : Nat, to : 0..t]
    \cup [op : {"requestHeadersWorker", "requestTransactionsWorker"}, node : Addresses]
    \cup [op : {"txWorkerAddTransaction"}, tx : Wanted]

TxWork == [node : Addresses, tx : Nat \X Nat]

\* What TypeOK leaves out: the queues, what is to be delivered and the counters.
Queues ==
    /\ inbox \in [Ptrs -> Seq(Deliveries(tip))]
    /\ mainQ \in Seq(MainWork(tip))
    /\ dbQ \in Seq(DbWork(tip))
    /\ txQ \in Seq(TxWork)
    /\ timers \subseteq Posted
    /\ spent \in [Events -> Nat]

\* TypeOK in three parts: the nodes and their fields, ...
NodeTypes ==
    /\ nodes \subseteq Ptrs /\ Cardinality(nodes) <= NodeCount
    /\ active \in Addresses
    /\ connected \subseteq nodes
    /\ lastDlHeight \in [Ptrs -> -1..MaxHeight]
    /\ lastDlSize \in [Ptrs -> 0..BatchSize]
    /\ lastMerkle \in [Ptrs -> -1..MaxHeight]
    /\ since \in [Ptrs -> Nat]
    /\ gotFinal \in [Ptrs -> BOOLEAN]

\* ... the chain and what is stored of it, ...
ChainTypes ==
    /\ tip \in 0..MaxHeight
    /\ highest \in 0..tip
    /\ dlHeight \in -1..MaxHeight
    /\ stored \subseteq Wanted

\* ... and the manager's own fields and those of the tracker.
FieldTypes ==
    /\ synced \in BOOLEAN
    /\ rejectCount \in 0..RejectLimit + 1
    /\ matchCount \in Nat /\ mismatchCount \in Nat /\ known \subseteq Wanted
    /\ needsUpdate \in BOOLEAN
    /\ keysNewer \in BOOLEAN /\ loaded \in BOOLEAN
    /\ fault \in BOOLEAN

TypeInv == NodeTypes /\ ChainTypes /\ FieldTypes /\ Queues

\* A node that no queued work refers to, and that has not been asked for
\* anything: as it is when it is new.
Unasked(p) ==
    /\ p \notin Named(mainQ) \cup Named(dbQ) \cup Named(txQ)
    /\ lastDlHeight[p] = 0
    /\ \A i \in DOMAIN inbox[p] : inbox[p][i].kind # "headers"

\* The active node is one of the nodes.  When there is none, one will be chosen
\* before the next checkup, and all nodes are new.
ActiveInv ==
    /\ active \in nodes \cup {NoNode}
    /\ nodes = {} => timers = {}
    /\ active = NoNode => timers = {} \/ "setActiveNodeIfNone" \in timers
    /\ active = NoNode => \A p \in nodes : Unasked(p)
    /\ ~fault

\* While the table of blocks is not reset: no node was asked for a block that is
\* not in it, and the download height is within it.
HeightInv ==
    /\ dlHeight <= highest
    /\ \A p \in Ptrs : lastDlHeight[p] <= highest

-----------------------------------------------------------------------------
(* Lemmas about queues, numbers and sets *)

\* Appending to a queue of work keeps it one; so does taking its head off.
LEMMA QueueTypes ==
    ASSUME NEW S, NEW q \in Seq(S)
    PROVE  /\ \A x \in S : Append(q, x) \in Seq(S)
           /\ q # <<>> => Head(q) \in S /\ Tail(q) \in Seq(S)
OBVIOUS

\* A queue of work stays one when there is more that can be on it.
LEMMA QueueMonotone ==
    ASSUME NEW S, NEW T, S \subseteq T, NEW q \in Seq(S)
    PROVE  q \in Seq(T)
OBVIOUS

\* The addresses on a queue once an item is added: at most the item's is new.
LEMMA NamedAppend ==
    ASSUME NEW S, NEW q \in Seq(S), NEW x
    PROVE  /\ Named(Append(q, x)) \subseteq Named(q) \cup {x.node}
           /\ "node" \notin DOMAIN x => Named(Append(q, x)) \subseteq Named(q)
<1> SUFFICES ASSUME NEW a \in Named(Append(q, x))
             PROVE  a \in Named(q) \/ (a = x.node /\ "node" \in DOMAIN x)
    OBVIOUS
<1>1. PICK i \in DOMAIN Append(q, x) :
        "node" \in DOMAIN Append(q, x)[i] /\ a = Append(q, x)[i].node
    BY DEF Named
<1>2. CASE i \in DOMAIN q
    <2>1. Append(q, x)[i] = q[i]
        BY <1>2
    <2>2. QED
        BY <1>1, <1>2, <2>1 DEF Named
<1>3. CASE i \notin DOMAIN q
    <2>1. Append(q, x)[i] = x
        BY <1>1, <1>3
    <2>2. QED
        BY <1>1, <2>1
<1>4. QED
    BY <1>2, <1>3

\* Taking an item off a queue adds no address, and its own was one of them.
LEMMA NamedTail ==
    ASSUME NEW S, NEW q \in Seq(S), q # <<>>
    PROVE  /\ Named(Tail(q)) \subseteq Named(q)
           /\ "node" \in DOMAIN Head(q) => Head(q).node \in Named(q)
<1>1. ASSUME NEW a \in Named(Tail(q)) PROVE a \in Named(q)
    <2>1. PICK i \in DOMAIN Tail(q) : "node" \in DOMAIN Tail(q)[i] /\ a = Tail(q)[i].node
        BY <1>1 DEF Named
    <2>2. i + 1 \in DOMAIN q /\ Tail(q)[i] = q[i + 1]
        BY <2>1
    <2>3. QED
        BY <2>1, <2>2 DEF Named
<1>2. 1 \in DOMAIN q /\ Head(q) = q[1]
    OBVIOUS
<1>3. QED
    BY <1>1, <1>2 DEF Named

\* The smaller and the larger of two numbers.
LEMMA MinMax ==
    ASSUME NEW a \in Int, NEW b \in Int
    PROVE  /\ Min2(a, b) \in {a, b} /\ Min2(a, b) <= a /\ Min2(a, b) <= b
           /\ Max2(a, b) \in {a, b} /\ Max2(a, b) >= a /\ Max2(a, b) >= b
BY DEF Min2, Max2

\* A part of the nodes is no larger than the whole, and has a size.
LEMMA Sizes ==
    ASSUME NEW S \in SUBSET Ptrs
    PROVE  /\ IsFiniteSet(S) /\ Cardinality(S) \in Nat
           /\ \A T \in SUBSET S : Cardinality(T) <= Cardinality(S)
BY SizesAssumption, FS_Subset, FS_CardinalityType

\* A node that is not the only one leaves others behind.
LEMMA NotAlone ==
    ASSUME NEW S \in SUBSET Ptrs, NEW p \in S, Cardinality(S) # 1
    PROVE  S \ {p} # {}
<1> SUFFICES ASSUME S \ {p} = {} PROVE FALSE
    OBVIOUS
<1>1. S = {p}
    OBVIOUS
<1>2. QED
    BY <1>1, FS_Singleton

\* Records whose fields are known.
LEMMA Records ==
    ASSUME NEW t \in Nat
    PROVE  /\ \A m \in Deliveries(t) :
                /\ m.kind = "headers" => m.from \in Nat /\ m.to \in 0..t
                /\ m.kind = "blocks" =>
                     m.from \in 1..t /\ m.to \in 1..t /\ m.tx \in Nat
                       /\ m = [kind |-> "blocks", from |-> m.from, to |-> m.to, tx |-> m.tx]
                /\ m.kind = "inv" => m.from \in 1..t
           /\ \A w \in MainWork(t) :
                /\ w.op = "blockHeadersWorkMain" =>
                     w.node \in Addresses /\ w.count \in Nat /\ w.added \in Nat
                /\ w.op = "requestTransactionsWorkerMain" =>
                     /\ w.node \in Addresses /\ w.from \in Nat \ {0} /\ w.to \in 0..t
                     /\ w.to < w.from + BatchSize
                /\ w.op = "requestHeadersWorkerMain" => w.node \in Addresses /\ w.from \in 0..t
                /\ w.op = "txWorkerMain" => w.node \in Addresses /\ w.height \in -1..t
                /\ w.op = "bloomFilterWorkerMain" => w.result \in BOOLEAN
                /\ w.op # "bloomFilterWorkerMain" => "node" \in DOMAIN w
           /\ \A w \in DbWork(t) :
                /\ w.op = "blockHeadersWork" =>
                     w.node \in Addresses /\ w.from \in Nat /\ w.to \in 0..t
                /\ w.op \in {"requestHeadersWorker", "requestTransactionsWorker"} =>
                     w.node \in Addresses
                /\ w.op = "txWorkerAddTransaction" => w.tx \in Wanted
                /\ w.op # "txWorkerAddTransaction" => "node" \in DOMAIN w
           /\ \A w \in TxWork :
                w.node \in Addresses /\ w.tx \in Nat \X Nat /\ "node" \in DOMAIN w
<1>1. ASSUME NEW m \in Deliveries(t)
      PROVE /\ m.kind = "headers" => m.from \in Nat /\ m.to \in 0..t
            /\ m.kind = "blocks" =>
                     m.from \in 1..t /\ m.to \in 1..t /\ m.tx \in Nat
                       /\ m = [kind |-> "blocks", from |-> m.from, to |-> m.to, tx |-> m.tx]
            /\ m.kind = "inv" => m.from \in 1..t
    BY <1>1 DEF Deliveries
<1>2. ASSUME NEW w \in MainWork(t)
      PROVE     /\ w.op = "blockHeadersWorkMain" =>
                     w.node \in Addresses /\ w.count \in Nat /\ w.added \in Nat
                /\ w.op = "requestTransactionsWorkerMain" =>
                     /\ w.node \in Addresses /\ w.from \in Nat \ {0} /\ w.to \in 0..t
                     /\ w.to < w.from + BatchSize
                /\ w.op = "requestHeadersWorkerMain" => w.node \in Addresses /\ w.from \in 0..t
                /\ w.op = "txWorkerMain" => w.node \in Addresses /\ w.height \in -1..t
                /\ w.op = "bloomFilterWorkerMain" => w.result \in BOOLEAN
    BY <1>2 DEF MainWork, Batches
<1>3. ASSUME NEW w \in MainWork(t), w.op # "bloomFilterWorkerMain"
      PROVE  "node" \in DOMAIN w
    BY <1>3 DEF MainWork, Batches
<1>4. ASSUME NEW w \in DbWork(t)
      PROVE     /\ w.op = "blockHeadersWork" =>
                     w.node \in Addresses /\ w.from \in Nat /\ w.to \in 0..t
                /\ w.op \in {"requestHeadersWorker", "requestTransactionsWorker"} =>
                     w.node \in Addresses
                /\ w.op = "txWorkerAddTransaction" => w.tx \in Wanted
    BY <1>4 DEF DbWork
<1>5. ASSUME NEW w \in DbWork(t), w.op # "txWorkerAddTransaction"
      PROVE  "node" \in DOMAIN w
    BY <1>5 DEF DbWork
<1>6. ASSUME NEW w \in TxWork
      PROVE  w.node \in Addresses /\ w.tx \in Nat \X Nat /\ "node" \in DOMAIN w
    BY <1>6 DEF TxWork
<1>7. QED
    BY <1>1, <1>2, <1>3, <1>4, <1>5, <1>6

-----------------------------------------------------------------------------
(* Types *)

\* The parts are those of TypeOK.
LEMMA TypeParts == TypeInv => TypeOK
BY DEF TypeInv, NodeTypes, ChainTypes, FieldTypes, TypeOK, Addresses

\* At first everything has its type.
LEMMA TypeInit == Init => TypeInv
<1> SUFFICES ASSUME Init PROVE TypeInv
    OBVIOUS
<1>1. Cardinality(nodes) = 0
    BY FS_EmptySet DEF Init
<1>2. NodeTypes
    BY <1>1, SizesAssumption DEF Init, NodeTypes, Addresses
<1>3. ChainTypes
    BY SizesAssumption DEF Init, ChainTypes
<1>4. FieldTypes
    <2>1. rejectCount \in 0..RejectLimit + 1 /\ matchCount \in Nat /\ mismatchCount \in Nat
        BY SizesAssumption DEF Init
    <2>2. synced = FALSE /\ known = {} /\ needsUpdate = FALSE /\ keysNewer = TRUE
            /\ loaded = FALSE /\ fault = FALSE
        BY DEF Init
    <2>3. QED
        BY <2>1, <2>2 DEF FieldTypes
<1>5. Queues
    BY SizesAssumption DEF Init, Queues, Posted, Events
<1>6. QED
    BY <1>2, <1>3, <1>4, <1>5 DEF TypeInv

\* The type of what a handler leaves alone is not affected by it.
LEMMA TypeFrame ==
    ASSUME TypeInv
    PROVE  /\ UNCHANGED <<nodes, active, connected, nodeVars>> => NodeTypes'
           /\ UNCHANGED <<tip, highest, dlHeight, stored>> => ChainTypes'
           /\ UNCHANGED <<synced, rejectCount, filterVars, fault>> => FieldTypes'
<1>1. ASSUME UNCHANGED <<nodes, active, connected, nodeVars>> PROVE NodeTypes'
    BY <1>1 DEF TypeInv, NodeTypes, nodeVars
<1>2. ASSUME UNCHANGED <<tip, highest, dlHeight, stored>> PROVE ChainTypes'
    BY <1>2 DEF TypeInv, ChainTypes
<1>3. ASSUME UNCHANGED <<synced, rejectCount, filterVars, fault>> PROVE FieldTypes'
    BY <1>3 DEF TypeInv, FieldTypes, filterVars, trackerVars
<1>4. QED
    BY <1>1, <1>2, <1>3

\* The same of the queues, and of what the nodes are to deliver.
LEMMA QueueFrame ==
    ASSUME TypeInv, UNCHANGED tip,
           UNCHANGED timers \/ timers' \subseteq Posted,
           UNCHANGED spent \/ spent' \in [Events -> Nat],
           UNCHANGED inbox \/ inbox' \in [Ptrs -> Seq(Deliveries(tip))],
           UNCHANGED mainQ \/ mainQ' \in Seq(MainWork(tip)),
           UNCHANGED dbQ \/ dbQ' \in Seq(DbWork(tip)),
           UNCHANGED txQ \/ txQ' \in Seq(TxWork)
    PROVE  Queues'
BY DEF TypeInv, Queues

\* The head of a node's inbox, and what is left when it is dealt with.
LEMMA ReadTypes ==
    ASSUME TypeInv, NEW p \in Ptrs, inbox[p] # <<>>
    PROVE  /\ Head(inbox[p]) \in Deliveries(tip)
           /\ Read(p) \in [Ptrs -> Seq(Deliveries(tip))]
           /\ \A x \in Ptrs \ {p} : Read(p)[x] = inbox[x]
<1> DEFINE m == Head(inbox[p])
           rest == IF m.kind = "blocks" THEN Rest(m) ELSE <<>>
<1>0. tip \in Nat
    BY SizesAssumption DEF TypeInv, ChainTypes
<1>1. inbox[p] \in Seq(Deliveries(tip)) /\ inbox \in [Ptrs -> Seq(Deliveries(tip))]
    BY DEF TypeInv, Queues
<1>2. m \in Deliveries(tip) /\ Tail(inbox[p]) \in Seq(Deliveries(tip))
    BY <1>1, QueueTypes
<1>3. rest \in Seq(Deliveries(tip))
    <2>1. CASE m.kind # "blocks"
        BY <2>1
    <2>2. CASE m.kind = "blocks"
        <3>1. /\ m.from \in 1..tip /\ m.to \in 1..tip /\ m.tx \in Nat
              /\ m = [kind |-> "blocks", from |-> m.from, to |-> m.to, tx |-> m.tx]
            BY <1>0, <1>2, <2>2, Records
        <3>2. [m EXCEPT !.tx = @ + 1] \in Deliveries(tip)
            BY <3>1 DEF Deliveries
        <3>3. m.from < m.to => Blocks(m.from + 1, m.to) \in Deliveries(tip)
            BY <1>0, <3>1 DEF Deliveries, Blocks
        <3>4. QED
            BY <2>2, <3>2, <3>3 DEF Rest
    <2>3. QED
        BY <2>1, <2>2
<1>4. rest \o Tail(inbox[p]) \in Seq(Deliveries(tip))
    BY <1>2, <1>3
<1>5. Read(p) = [inbox EXCEPT ![p] = rest \o Tail(inbox[p])]
    BY DEF Read
<1>6. QED
    BY <1>1, <1>2, <1>4, <1>5

\* What is asked of a node is added to what it has to deliver.
LEMMA AskedTypes ==
    ASSUME TypeInv, NEW p \in Addresses, NEW m \in Deliveries(tip)
    PROVE  /\ Asked(p, m) \in [Ptrs -> Seq(Deliveries(tip))]
           /\ \A x \in Ptrs \ {p} : Asked(p, m)[x] = inbox[x]
BY QueueTypes DEF Asked, TypeInv, Queues

\* What is lost with the nodes that are freed.
LEMMA EmptiedTypes ==
    ASSUME TypeInv, NEW gone
    PROVE  Emptied(gone) \in [Ptrs -> Seq(Deliveries(tip))]
BY DEF Emptied, TypeInv, Queues

\* blockHeaders keeps the types.
LEMMA BlockHeadersTypes ==
    ASSUME TypeInv, NEW p \in Ptrs, BlockHeaders(p)
    PROVE  TypeInv'
<1> DEFINE m == Head(inbox[p])
<1>0. tip \in Nat /\ dbQ \in Seq(DbWork(tip))
    BY SizesAssumption DEF TypeInv, ChainTypes, Queues
<1>1. m \in Deliveries(tip) /\ inbox' \in [Ptrs -> Seq(Deliveries(tip))]
    BY ReadTypes DEF BlockHeaders, Arrives
<1>2. m.from \in Nat /\ m.to \in 0..tip
    BY <1>0, <1>1, Records DEF BlockHeaders, Arrives
<1>3. HeadersWork(p, m.from, m.to) \in DbWork(tip)
    BY <1>2 DEF HeadersWork, DbWork, Addresses
<1>4. dbQ' \in Seq(DbWork(tip))
    BY <1>0, <1>3, QueueTypes DEF BlockHeaders
<1>5. Queues'
    BY <1>1, <1>4, QueueFrame DEF BlockHeaders
<1>6. QED
    BY <1>5, TypeFrame DEF BlockHeaders, TypeInv

\* blockHeadersWork keeps the types.
LEMMA BlockHeadersWorkTypes ==
    ASSUME TypeInv, BlockHeadersWork
    PROVE  TypeInv' /\ highest' >= highest
<1> DEFINE w == Head(dbQ)
           added == Added(w.from, w.to)
<1>0. tip \in Nat /\ highest \in 0..tip /\ dbQ \in Seq(DbWork(tip)) /\ mainQ \in Seq(MainWork(tip))
    BY SizesAssumption DEF TypeInv, ChainTypes, Queues
<1>1. w \in DbWork(tip) /\ dbQ' \in Seq(DbWork(tip))
    BY <1>0, QueueTypes DEF BlockHeadersWork, Queued
<1>2. w.node \in Addresses /\ w.from \in Nat /\ w.to \in 0..tip
    BY <1>0, <1>1, Records DEF BlockHeadersWork, Queued
<1>3. added \in Nat /\ highest + added \in 0..tip
    BY <1>0, <1>2 DEF Added
<1>4. Max2(0, w.to - w.from + 1) \in Nat
    BY <1>2 DEF Max2
<1>5. HeadersDone(w.node, Max2(0, w.to - w.from + 1), added) \in MainWork(tip)
    BY <1>2, <1>3, <1>4 DEF HeadersDone, MainWork
<1>6. mainQ' \in Seq(MainWork(tip)) /\ highest' = highest + added
    BY <1>0, <1>5, QueueTypes DEF BlockHeadersWork
<1>7. highest' \in 0..tip /\ highest' >= highest
    BY <1>0, <1>3, <1>6
<1>8. ChainTypes'
    BY <1>7 DEF ChainTypes, TypeInv, BlockHeadersWork
<1>9. Queues'
    BY <1>1, <1>6, QueueFrame DEF BlockHeadersWork
<1>10. QED
    BY <1>7, <1>8, <1>9, TypeFrame DEF BlockHeadersWork, TypeInv

\* What requestTransactions does to the fields of the nodes, with the highest
\* block top and the database thread's queue q.
LEMMA RequestTransactionsTypes ==
    ASSUME TypeInv, NEW dl, NEW top \in 0..tip, NEW q \in Seq(DbWork(tip)),
           RequestTransactions(dl, top, q)
    PROVE  /\ lastDlHeight' \in [Ptrs -> -1..MaxHeight]
           /\ lastDlSize' \in [Ptrs -> 0..BatchSize]
           /\ synced' \in BOOLEAN
           /\ fault' \in BOOLEAN
           /\ dbQ' \in Seq(DbWork(tip))
           /\ \A p \in Ptrs : lastDlHeight'[p] \in {lastDlHeight[p], top}
<1>0. /\ lastDlHeight \in [Ptrs -> -1..MaxHeight] /\ lastDlSize \in [Ptrs -> 0..BatchSize]
      /\ synced \in BOOLEAN /\ fault \in BOOLEAN /\ active \in Addresses
      /\ tip \in 0..MaxHeight /\ MaxHeight \in Nat /\ BatchSize \in Nat \ {0}
    BY SizesAssumption DEF TypeInv, NodeTypes, ChainTypes, FieldTypes
<1>1. CASE dl >= top
    <2>1. /\ lastDlHeight' = [p \in Ptrs |-> IF p \in nodes THEN top ELSE lastDlHeight[p]]
          /\ lastDlSize' = [p \in Ptrs |-> IF p \in nodes THEN 1 ELSE lastDlSize[p]]
          /\ synced' = TRUE
          /\ dbQ' = q
          /\ fault' = fault
        BY <1>1 DEF RequestTransactions
    <2>2. top \in -1..MaxHeight /\ 1 \in 0..BatchSize
        BY <1>0
    <2>3. lastDlHeight' \in [Ptrs -> -1..MaxHeight] /\ lastDlSize' \in [Ptrs -> 0..BatchSize]
        BY <1>0, <2>1, <2>2
    <2>4. \A p \in Ptrs : lastDlHeight'[p] \in {lastDlHeight[p], top}
        BY <2>1
    <2>5. QED
        BY <1>0, <2>1, <2>3, <2>4
<1>2. CASE ~(dl >= top)
    <2>1. /\ dbQ' = Append(q, TransactionsWork(active))
          /\ fault' = (fault \/ active \notin nodes)
          /\ UNCHANGED <<lastDlHeight, lastDlSize, synced>>
        BY <1>2 DEF RequestTransactions
    <2>2. TransactionsWork(active) \in DbWork(tip)
        BY <1>0 DEF TransactionsWork, DbWork
    <2>3. dbQ' \in Seq(DbWork(tip))
        BY <2>1, <2>2, QueueTypes
    <2>4. fault' \in BOOLEAN
        BY <1>0, <2>1
    <2>5. QED
        BY <1>0, <2>1, <2>3, <2>4
<1>3. QED
    BY <1>1, <1>2

\* A request for headers can be queued whatever address it is for.
LEMMA RequestHeadersTypes ==
    ASSUME NEW t, NEW q \in Seq(DbWork(t)), NEW p \in Addresses
    PROVE  RequestHeaders(q, p) \in Seq(DbWork(t))
<1>1. HeadersRequest(p) \in DbWork(t)
    BY DEF HeadersRequest, DbWork
<1>2. QED
    BY <1>1, QueueTypes DEF RequestHeaders

\* What is asked of the active node when more headers are to come, and how it is
\* replaced when it sent none that are new.
LEMMA MoreHeadersTypes ==
    ASSUME TypeInv, NEW w, w.added \in Nat, w.count \in Nat, w.node \in nodes, MoreHeaders(w)
    PROVE  /\ nodes' \subseteq nodes
           /\ Cardinality(nodes') <= NodeCount
           /\ connected' \subseteq nodes'
           /\ active' \in Addresses
           /\ active' # active => active \in nodes /\ active' \in nodes'
           /\ active' = active => nodes' = nodes
           /\ highest' \in 0..tip /\ stored' \subseteq Wanted /\ dlHeight' \in -1..MaxHeight
           /\ (highest' = highest /\ dlHeight' = dlHeight) \/ (highest' = 0 /\ dlHeight' = 0)
           /\ rejectCount' \in 0..RejectLimit + 1
           /\ inbox' \in [Ptrs -> Seq(Deliveries(tip))]
           /\ \A p \in nodes' : inbox'[p] = inbox[p]
           /\ dbQ' \in Seq(DbWork(tip))
           /\ dbQ' = dbQ \/ dbQ' = RequestHeaders(dbQ, active')
<1>0. /\ nodes \subseteq Ptrs /\ Cardinality(nodes) <= NodeCount /\ connected \subseteq nodes
      /\ active \in Addresses /\ highest \in 0..tip /\ stored \subseteq Wanted
      /\ dlHeight \in -1..MaxHeight /\ rejectCount \in 0..RejectLimit + 1
      /\ inbox \in [Ptrs -> Seq(Deliveries(tip))] /\ dbQ \in Seq(DbWork(tip))
      /\ tip \in 0..MaxHeight
    BY DEF TypeInv, NodeTypes, ChainTypes, FieldTypes, Queues
<1>a. tip \in Nat /\ MaxHeight \in Nat /\ RejectLimit \in Nat /\ NodeCount \in Nat
    BY <1>0, SizesAssumption
<1>1. CASE w.node # active
    <2>1. /\ nodes' = nodes /\ active' = active /\ connected' = connected /\ inbox' = inbox
          /\ dbQ' = dbQ /\ highest' = highest /\ stored' = stored /\ dlHeight' = dlHeight
          /\ rejectCount' = rejectCount
        BY <1>1 DEF MoreHeaders
    <2>2. QED
        BY <1>0, <2>1, Zenon
<1>2. CASE w.node = active /\ w.added > 0
    <2>1. /\ nodes' = nodes /\ active' = active /\ connected' = connected /\ inbox' = inbox
          /\ highest' = highest /\ stored' = stored /\ dlHeight' = dlHeight
          /\ rejectCount' = rejectCount /\ dbQ' = RequestHeaders(dbQ, active)
        BY <1>2 DEF MoreHeaders
    <2>2. dbQ' \in Seq(DbWork(tip))
        BY <1>0, <2>1, RequestHeadersTypes
    <2>3. QED
        BY <1>0, <2>1, <2>2, Zenon
<1>3. CASE w.node = active /\ ~(w.added > 0)
    <2> DEFINE n == Min2(rejectCount + w.count, RejectLimit + 1)
               gone == IF Cardinality(nodes) = 1 THEN {} ELSE {active}
    <2>1. /\ IF n > RejectLimit
             THEN ResetBlocks(n)
             ELSE rejectCount' = n /\ UNCHANGED <<highest, stored, dlHeight>>
          /\ nodes' = nodes \ gone
          /\ connected' = connected \ gone
          /\ inbox' = Emptied(gone)
          /\ active' \in IF gone = {} THEN {active}
                         ELSE Candidates(nodes \ gone, connected \ gone)
          /\ dbQ' = RequestHeaders(dbQ, active')
        BY <1>3 DEF MoreHeaders
    <2>2. n \in 0..RejectLimit + 1
        BY <1>0, <1>a DEF Min2
    <2>3. /\ highest' \in 0..tip /\ stored' \subseteq Wanted /\ dlHeight' \in -1..MaxHeight
          /\ (highest' = highest /\ dlHeight' = dlHeight) \/ (highest' = 0 /\ dlHeight' = 0)
          /\ rejectCount' \in 0..RejectLimit + 1
        <3>1. CASE n > RejectLimit
            <4>1. highest' = 0 /\ stored' = {} /\ dlHeight' = 0 /\ rejectCount' = n
                BY <2>1, <3>1 DEF ResetBlocks
            <4>2. QED
                BY <1>a, <2>2, <4>1
        <3>2. CASE ~(n > RejectLimit)
            <4>1. /\ highest' = highest /\ stored' = stored /\ dlHeight' = dlHeight
                  /\ rejectCount' = n
                BY <2>1, <3>2
            <4>2. QED
                BY <1>0, <2>2, <4>1, Zenon
        <3>3. QED
            BY <3>1, <3>2
    <2>4. nodes' \subseteq nodes /\ Cardinality(nodes') <= NodeCount /\ connected' \subseteq nodes'
        <3>1. nodes' \subseteq nodes /\ connected' \subseteq nodes'
            BY <1>0, <2>1
        <3>2. Cardinality(nodes') \in Nat /\ Cardinality(nodes) \in Nat
                /\ Cardinality(nodes') <= Cardinality(nodes)
            BY <1>0, <3>1, Sizes
        <3>3. QED
            BY <1>0, <1>a, <3>1, <3>2
    <2>5. /\ inbox' \in [Ptrs -> Seq(Deliveries(tip))]
          /\ \A p \in nodes' : inbox'[p] = inbox[p]
        <3>1. inbox' \in [Ptrs -> Seq(Deliveries(tip))]
            BY <2>1, EmptiedTypes
        <3>2. \A p \in nodes' : inbox'[p] = inbox[p]
            BY <1>0, <2>1 DEF Emptied
        <3>3. QED
            BY <3>1, <3>2
    <2>6. CASE Cardinality(nodes) = 1
        <3>1. active' = active /\ nodes' = nodes
            BY <2>1, <2>6
        <3>2. dbQ' \in Seq(DbWork(tip))
            BY <1>0, <2>1, <3>1, RequestHeadersTypes
        <3>3. QED
            BY <1>0, <2>1, <2>3, <2>4, <2>5, <3>1, <3>2
    <2>7. CASE Cardinality(nodes) # 1
        <3>1. nodes' = nodes \ {active} /\ active' \in Candidates(nodes', connected')
            BY <2>1, <2>7
        <3>2. active \in nodes
            BY <1>3
        <3>3. nodes' # {}
            BY <1>0, <2>7, <3>1, <3>2, NotAlone
        <3>4. active' \in nodes'
            BY <3>1, <3>3 DEF Candidates
        <3>5. active' \in Addresses /\ active' # active
            BY <1>0, <2>4, <3>1, <3>4 DEF Addresses
        <3>6. dbQ' \in Seq(DbWork(tip))
            BY <1>0, <2>1, <3>5, RequestHeadersTypes
        <3>7. QED
            BY <2>1, <2>3, <2>4, <2>5, <3>2, <3>4, <3>5, <3>6
    <2>8. QED
        BY <2>6, <2>7
<1>4. QED
    BY <1>1, <1>2, <1>3

\* The head of a queue of work, and what is left.
LEMMA HeadTypes ==
    ASSUME TypeInv
    PROVE  /\ tip \in Nat
           /\ mainQ # <<>> => Head(mainQ) \in MainWork(tip) /\ Tail(mainQ) \in Seq(MainWork(tip))
           /\ dbQ # <<>> => Head(dbQ) \in DbWork(tip) /\ Tail(dbQ) \in Seq(DbWork(tip))
           /\ txQ # <<>> => Head(txQ) \in TxWork /\ Tail(txQ) \in Seq(TxWork)
<1>1. /\ mainQ \in Seq(MainWork(tip)) /\ dbQ \in Seq(DbWork(tip)) /\ txQ \in Seq(TxWork)
    BY DEF TypeInv, Queues
<1>2. tip \in Nat
    BY SizesAssumption DEF TypeInv, ChainTypes
<1>3. QED
    BY <1>1, <1>2, QueueTypes

\* blockHeadersWorkMain keeps the types.
LEMMA BlockHeadersWorkMainTypes ==
    ASSUME TypeInv, BlockHeadersWorkMain
    PROVE  TypeInv'
<1> DEFINE w == Head(mainQ)
<1>1. w \in MainWork(tip) /\ w.op = "blockHeadersWorkMain" /\ tip \in Nat
    BY HeadTypes DEF BlockHeadersWorkMain, Queued
<1>2. w.node \in Addresses /\ w.count \in Nat /\ w.added \in Nat
    BY <1>1, Records
<1>3. mainQ' \in Seq(MainWork(tip)) /\ UNCHANGED <<timers, txQ, filterVars, tip, spent>>
    BY HeadTypes DEF BlockHeadersWorkMain, Queued
<1> HIDE DEF w
<1>4. CASE ~NodeStillValid(w.node)
    <2>1. UNCHANGED <<nodes, active, connected, nodeVars, inbox, dbQ, highest, stored,
                      dlHeight, synced, rejectCount, fault>>
        BY <1>4 DEF BlockHeadersWorkMain, w
    <2>2. Queues'
        BY <1>3, <2>1, QueueFrame
    <2>3. QED
        BY <1>3, <2>1, <2>2, TypeFrame DEF TypeInv
<1>5. CASE NodeStillValid(w.node) /\ w.count = 1
    <2>1. /\ rejectCount' = 0 /\ fault' = (fault \/ w.node \notin nodes)
          /\ UNCHANGED <<nodes, active, connected, nodeVars, inbox, dbQ, highest, stored,
                         dlHeight, synced>>
        BY <1>5 DEF BlockHeadersWorkMain, w
    <2>2. Queues'
        BY <1>3, <2>1, QueueFrame
    <2>3. rejectCount' \in 0..RejectLimit + 1
        BY <2>1, SizesAssumption
    <2>4. fault' \in BOOLEAN
        BY <2>1 DEF TypeInv, FieldTypes
    <2>5. FieldTypes'
        BY <1>3, <2>1, <2>3, <2>4 DEF TypeInv, FieldTypes, filterVars, trackerVars
    <2>6. QED
        BY <1>3, <2>1, <2>2, <2>5, TypeFrame DEF TypeInv
<1>6. CASE NodeStillValid(w.node) /\ w.count # 1 /\ FinalHeaders(w)
    <2>1. /\ rejectCount' = 0
          /\ gotFinal' = [gotFinal EXCEPT ![w.node] = TRUE]
          /\ RequestTransactions(dlHeight, highest, dbQ)
          /\ UNCHANGED <<nodes, active, connected, lastMerkle, since, inbox, highest, stored,
                         dlHeight>>
        BY <1>6 DEF BlockHeadersWorkMain, w
    <2>2. highest \in 0..tip /\ dbQ \in Seq(DbWork(tip))
        BY DEF TypeInv, ChainTypes, Queues
    <2>3. /\ lastDlHeight' \in [Ptrs -> -1..MaxHeight]
          /\ lastDlSize' \in [Ptrs -> 0..BatchSize]
          /\ synced' \in BOOLEAN /\ fault' \in BOOLEAN /\ dbQ' \in Seq(DbWork(tip))
        BY <2>1, <2>2, RequestTransactionsTypes
    <2>4. gotFinal' \in [Ptrs -> BOOLEAN]
        BY <2>1 DEF TypeInv, NodeTypes
    <2>5. NodeTypes'
        BY <2>1, <2>3, <2>4 DEF TypeInv, NodeTypes
    <2>6. rejectCount' \in 0..RejectLimit + 1
        BY <2>1, SizesAssumption
    <2>7. FieldTypes'
        BY <1>3, <2>3, <2>6 DEF TypeInv, FieldTypes, filterVars, trackerVars
    <2>8. Queues'
        BY <1>3, <2>1, <2>3, QueueFrame
    <2>9. QED
        BY <1>3, <2>1, <2>5, <2>7, <2>8, TypeFrame DEF TypeInv
<1>7. CASE NodeStillValid(w.node) /\ w.count # 1 /\ ~FinalHeaders(w)
    <2>1. MoreHeaders(w) /\ fault' = (fault \/ w.node \notin nodes) /\ UNCHANGED <<nodeVars, synced>>
        BY <1>7 DEF BlockHeadersWorkMain, w
    <2>2. w.node \in nodes
        BY <1>7 DEF NodeStillValid
    <2>3. /\ nodes' \subseteq nodes /\ Cardinality(nodes') <= NodeCount
          /\ connected' \subseteq nodes' /\ active' \in Addresses
          /\ highest' \in 0..tip /\ stored' \subseteq Wanted /\ dlHeight' \in -1..MaxHeight
          /\ rejectCount' \in 0..RejectLimit + 1
          /\ inbox' \in [Ptrs -> Seq(Deliveries(tip))] /\ dbQ' \in Seq(DbWork(tip))
        BY <1>2, <2>1, <2>2, MoreHeadersTypes
    <2>4. NodeTypes'
        BY <2>1, <2>3 DEF TypeInv, NodeTypes, nodeVars
    <2>5. ChainTypes'
        BY <1>3, <2>3 DEF TypeInv, ChainTypes
    <2>6. fault' \in BOOLEAN
        BY <2>1 DEF TypeInv, FieldTypes
    <2>7. FieldTypes'
        BY <1>3, <2>1, <2>3, <2>6 DEF TypeInv, FieldTypes, filterVars, trackerVars
    <2>8. Queues'
        BY <1>3, <2>3, QueueFrame
    <2>9. QED
        BY <2>4, <2>5, <2>7, <2>8 DEF TypeInv
<1>8. QED
    BY <1>4, <1>5, <1>6, <1>7

\* requestHeadersWorker keeps the types.
LEMMA RequestHeadersWorkerTypes ==
    ASSUME TypeInv, RequestHeadersWorker
    PROVE  TypeInv'
<1>1. /\ Head(dbQ) \in DbWork(tip) /\ Head(dbQ).op = "requestHeadersWorker" /\ tip \in Nat
      /\ dbQ' \in Seq(DbWork(tip))
    BY HeadTypes DEF RequestHeadersWorker, Queued
<1>2. Head(dbQ).node \in Addresses
    BY <1>1, Records
<1>3. HeadersRequestDone(Head(dbQ).node, highest) \in MainWork(tip)
    BY <1>2 DEF HeadersRequestDone, MainWork, TypeInv, ChainTypes
<1>4. mainQ' \in Seq(MainWork(tip))
    BY <1>3, QueueTypes DEF RequestHeadersWorker, TypeInv, Queues
<1>5. Queues'
    BY <1>1, <1>4, QueueFrame DEF RequestHeadersWorker
<1>6. QED
    BY <1>5, TypeFrame DEF RequestHeadersWorker, TypeInv

\* requestHeadersWorkerMain keeps the types.
LEMMA RequestHeadersWorkerMainTypes ==
    ASSUME TypeInv, RequestHeadersWorkerMain
    PROVE  TypeInv'
<1> DEFINE w == Head(mainQ)
           m == Headers(w.from + 1, Min2(w.from + HeadersSize, tip))
<1>1. /\ w \in MainWork(tip) /\ w.op = "requestHeadersWorkerMain" /\ tip \in Nat
      /\ mainQ' \in Seq(MainWork(tip))
    BY HeadTypes DEF RequestHeadersWorkerMain, Queued
<1>2. w.node \in Addresses /\ w.from \in 0..tip
    BY <1>1, Records
<1>3. m \in Deliveries(tip)
    <2>1. Min2(w.from + HeadersSize, tip) \in 0..tip /\ w.from + 1 \in Nat
        BY <1>1, <1>2, SizesAssumption DEF Min2
    <2>2. QED
        BY <2>1 DEF Headers, Deliveries
<1>4. Asked(w.node, m) \in [Ptrs -> Seq(Deliveries(tip))]
    BY <1>2, <1>3, AskedTypes
<1>5. UNCHANGED inbox \/ inbox' \in [Ptrs -> Seq(Deliveries(tip))]
    BY <1>4 DEF RequestHeadersWorkerMain
<1>6. Queues'
    BY <1>1, <1>5, QueueFrame DEF RequestHeadersWorkerMain
<1>7. fault' = fault \/ fault' = (fault \/ w.node \notin nodes)
    BY DEF RequestHeadersWorkerMain
<1>8. fault' \in BOOLEAN
    BY <1>7 DEF TypeInv, FieldTypes
<1>9. FieldTypes'
    BY <1>8 DEF RequestHeadersWorkerMain, TypeInv, FieldTypes, filterVars, trackerVars
<1>10. QED
    BY <1>6, <1>9, TypeFrame DEF RequestHeadersWorkerMain, TypeInv

\* Where the search for transactions goes on: from the download height at least,
\* and never beyond the stored blocks if that is not.
LEMMA ResumeTypes ==
    ASSUME TypeInv
    PROVE  /\ ResumeAt \in -1..MaxHeight
           /\ dlHeight <= highest => ResumeAt <= highest
           /\ FirstAbove(ResumeAt) \in Nat \ {0}
<1>1. /\ highest \in 0..tip /\ tip \in 0..MaxHeight /\ dlHeight \in -1..MaxHeight
      /\ MaxHeight \in Nat /\ WalletHeight \in 0..MaxHeight /\ Margin \in Nat
    BY SizesAssumption DEF TypeInv, ChainTypes
<1>2. Start \in Int /\ Start <= highest /\ Start <= MaxHeight
    BY <1>1 DEF Start, Min2
<1>3. ResumeAt \in -1..MaxHeight /\ (dlHeight <= highest => ResumeAt <= highest)
    BY <1>1, <1>2 DEF ResumeAt, Max2
<1>4. QED
    BY <1>1, <1>3 DEF FirstAbove, Max2

\* requestTransactionsWorker keeps the types.
LEMMA RequestTransactionsWorkerTypes ==
    ASSUME TypeInv, RequestTransactionsWorker
    PROVE  TypeInv'
<1> DEFINE w == Head(dbQ)
           from == FirstAbove(ResumeAt)
           to == Min2(from + BatchSize - 1, highest)
<1>1. /\ w \in DbWork(tip) /\ w.op = "requestTransactionsWorker" /\ tip \in Nat
      /\ dbQ' \in Seq(DbWork(tip))
    BY HeadTypes DEF RequestTransactionsWorker, Queued
<1>2. w.node \in Addresses
    BY <1>1, Records
<1>3. from \in Nat \ {0} /\ ResumeAt \in -1..MaxHeight
    BY ResumeTypes
<1>4. highest \in 0..tip /\ BatchSize \in Nat \ {0} /\ dlHeight \in -1..MaxHeight
        /\ mainQ \in Seq(MainWork(tip)) /\ matchCount \in Nat /\ mismatchCount \in Nat
    BY SizesAssumption DEF TypeInv, ChainTypes, FieldTypes, Queues
<1>5. to \in 0..tip /\ to < from + BatchSize
    <2> HIDE DEF from
    <2> QED
        BY <1>1, <1>3, <1>4 DEF Min2
<1>6. TransactionsDone(w.node, from, to) \in MainWork(tip)
    <2> HIDE DEF from, to
    <2> QED
        BY <1>2, <1>3, <1>5 DEF TransactionsDone, MainWork, Batches
<1>7. /\ dlHeight' \in -1..MaxHeight /\ matchCount' \in Nat /\ mismatchCount' \in Nat
      /\ mainQ' \in Seq(MainWork(tip))
    <2>1. CASE NodeStillValid(w.node)
        <3>1. /\ dlHeight' = ResumeAt /\ matchCount' = 0 /\ mismatchCount' = 0
              /\ mainQ' = Append(mainQ, TransactionsDone(w.node, from, to))
            BY <2>1 DEF RequestTransactionsWorker, ResetFailureRate
        <3>2. QED
            BY <1>3, <1>4, <1>6, <3>1, QueueTypes
    <2>2. CASE ~NodeStillValid(w.node)
        <3>1. /\ dlHeight' = dlHeight /\ matchCount' = matchCount
              /\ mismatchCount' = mismatchCount /\ mainQ' = mainQ
            BY <2>2 DEF RequestTransactionsWorker
        <3>2. QED
            BY <1>4, <3>1
    <2>3. QED
        BY <2>1, <2>2
<1>8. ChainTypes'
    BY <1>7 DEF TypeInv, ChainTypes, RequestTransactionsWorker
<1>9. FieldTypes'
    BY <1>7 DEF TypeInv, FieldTypes, RequestTransactionsWorker
<1>10. Queues'
    BY <1>1, <1>7, QueueFrame DEF RequestTransactionsWorker
<1>11. QED
    BY <1>8, <1>9, <1>10, TypeFrame DEF RequestTransactionsWorker, TypeInv

\* The height of a block that is stored is its own.
LEMMA HeightTypes ==
    ASSUME NEW h \in Int, NEW top \in Nat
    PROVE  /\ HeightOf(h, top) \in -1..top
           /\ HeightOf(h, top) \in {h, -1}
BY DEF HeightOf

\* requestTransactionsWorkerMain keeps the types.
LEMMA RequestTransactionsWorkerMainTypes ==
    ASSUME TypeInv, RequestTransactionsWorkerMain
    PROVE  /\ TypeInv'
           /\ \A p \in Ptrs : lastDlHeight'[p] \in {lastDlHeight[p]} \cup -1..highest
<1> DEFINE w == Head(mainQ)
<1>1. /\ w \in MainWork(tip) /\ w.op = "requestTransactionsWorkerMain" /\ tip \in Nat
      /\ mainQ' \in Seq(MainWork(tip))
    BY HeadTypes DEF RequestTransactionsWorkerMain, Queued
<1>2. /\ w.node \in Addresses /\ w.from \in Nat \ {0} /\ w.to \in 0..tip
      /\ w.to < w.from + BatchSize
    BY <1>1, Records
<1>3. /\ highest \in 0..tip /\ tip \in 0..MaxHeight /\ MaxHeight \in Nat /\ BatchSize \in Nat
      /\ lastDlHeight \in [Ptrs -> -1..MaxHeight] /\ lastDlSize \in [Ptrs -> 0..BatchSize]
      /\ inbox \in [Ptrs -> Seq(Deliveries(tip))]
    BY SizesAssumption DEF TypeInv, NodeTypes, ChainTypes, Queues
<1> DEFINE Goal == /\ lastDlSize' \in [Ptrs -> 0..BatchSize]
                   /\ lastDlHeight' \in [Ptrs -> -1..MaxHeight]
                   /\ \A p \in Ptrs : lastDlHeight'[p] \in {lastDlHeight[p]} \cup -1..highest
                   /\ inbox' \in [Ptrs -> Seq(Deliveries(tip))]
                   /\ fault' \in BOOLEAN
<1> HIDE DEF w
<1>4. ASSUME NodeStillValid(w.node) PROVE Goal
    <2>1. /\ lastDlSize' = [lastDlSize EXCEPT ![w.node] =
                                IF w.from <= w.to THEN w.to - w.from + 1 ELSE 0]
          /\ lastDlHeight' = [lastDlHeight EXCEPT ![w.node] =
                                IF w.from <= w.to THEN HeightOf(w.to, highest) ELSE -1]
          /\ inbox' = IF w.from <= w.to THEN Asked(w.node, Blocks(w.from, w.to)) ELSE inbox
          /\ fault' = (fault \/ w.node \notin nodes)
        BY <1>4 DEF RequestTransactionsWorkerMain, w
    <2>2. (IF w.from <= w.to THEN w.to - w.from + 1 ELSE 0) \in 0..BatchSize
        BY <1>1, <1>2, <1>3
    <2>3. (IF w.from <= w.to THEN HeightOf(w.to, highest) ELSE -1) \in -1..highest
        <3>1. w.to \in Int /\ highest \in Nat
            BY <1>1, <1>2, <1>3
        <3>2. HeightOf(w.to, highest) \in -1..highest
            BY <3>1, HeightTypes
        <3>3. QED
            BY <3>1, <3>2
    <2>4. -1..highest \subseteq -1..MaxHeight
        BY <1>3
    <2>5. lastDlSize' \in [Ptrs -> 0..BatchSize]
        BY <1>3, <2>1, <2>2
    <2>6. /\ lastDlHeight' \in [Ptrs -> -1..MaxHeight]
          /\ \A p \in Ptrs : lastDlHeight'[p] \in {lastDlHeight[p]} \cup -1..highest
        BY <1>3, <2>1, <2>3, <2>4
    <2>7. inbox' \in [Ptrs -> Seq(Deliveries(tip))]
        <3>1. CASE w.from <= w.to
            <4>1. w.from \in 1..tip /\ w.to \in 1..tip
                BY <1>1, <1>2, <3>1
            <4>2. Blocks(w.from, w.to) \in Deliveries(tip)
                BY <4>1 DEF Blocks, Deliveries
            <4>3. QED
                BY <1>2, <2>1, <3>1, <4>2, AskedTypes
        <3>2. CASE ~(w.from <= w.to)
            BY <1>3, <2>1, <3>2
        <3>3. QED
            BY <3>1, <3>2
    <2>8. fault' \in BOOLEAN
        BY <2>1 DEF TypeInv, FieldTypes
    <2>9. QED
        BY <2>5, <2>6, <2>7, <2>8
<1>5. ASSUME ~NodeStillValid(w.node) PROVE Goal
    <2>1. /\ lastDlSize' = lastDlSize /\ lastDlHeight' = lastDlHeight
          /\ inbox' = inbox /\ fault' = fault
        BY <1>5 DEF RequestTransactionsWorkerMain, w
    <2>2. fault' \in BOOLEAN
        BY <2>1 DEF TypeInv, FieldTypes
    <2>3. QED
        BY <1>3, <2>1, <2>2
<1>6. Goal
    BY <1>4, <1>5
<1>7. NodeTypes'
    BY <1>6 DEF TypeInv, NodeTypes, RequestTransactionsWorkerMain
<1>8. FieldTypes'
    BY <1>6 DEF TypeInv, FieldTypes, RequestTransactionsWorkerMain, filterVars, trackerVars
<1>9. Queues'
    BY <1>1, <1>6, QueueFrame DEF RequestTransactionsWorkerMain
<1>10. QED
    BY <1>6, <1>7, <1>8, <1>9, TypeFrame DEF RequestTransactionsWorkerMain, TypeInv

\* merkleBlock keeps the types.  Only the node that sent the last block of a batch
\* starts the next.
LEMMA MerkleBlockTypes ==
    ASSUME TypeInv, NEW p \in Ptrs, MerkleBlock(p)
    PROVE  /\ TypeInv'
           /\ highest' >= highest
           /\ dlHeight' = dlHeight \/ dlHeight' <= highest'
           /\ \A x \in Ptrs : lastDlHeight'[x] \in {lastDlHeight[x], highest'}
           /\ \/ lastDlHeight' = lastDlHeight /\ dbQ' = dbQ /\ fault' = fault
              \/ /\ lastDlHeight[p] \in {-1} \cup 1..MaxHeight
                 /\ RequestTransactions(lastDlHeight[p], highest', dbQ)
<1> DEFINE m == Head(inbox[p])
           b == m.from
           top == highest + Added(b, b)
           height == HeightOf(b, top)
           last == lastDlHeight[p] = height
           empty == Matches[b] = 0
<1>1. m \in Deliveries(tip) /\ inbox' \in [Ptrs -> Seq(Deliveries(tip))] /\ m.kind = "blocks"
    BY ReadTypes DEF MerkleBlock, Arrives
<1>2. /\ highest \in 0..tip /\ tip \in 0..MaxHeight /\ MaxHeight \in Nat
      /\ lastDlHeight \in [Ptrs -> -1..MaxHeight] /\ lastDlSize \in [Ptrs -> 0..BatchSize]
      /\ lastMerkle \in [Ptrs -> -1..MaxHeight] /\ since \in [Ptrs -> Nat]
      /\ dbQ \in Seq(DbWork(tip)) /\ dlHeight \in -1..MaxHeight
      /\ synced \in BOOLEAN /\ fault \in BOOLEAN
    BY SizesAssumption DEF TypeInv, NodeTypes, ChainTypes, FieldTypes, Queues
<1>3. b \in 1..tip /\ tip \in Nat
    BY <1>1, <1>2, Records
<1>4. top \in 0..tip /\ top >= highest
    <2> HIDE DEF b
    <2> QED
        BY <1>2, <1>3 DEF Added
<1>5. height \in {-1} \cup 1..MaxHeight /\ height <= top /\ height \in Int
    <2>1. b \in Int /\ top \in Nat
        BY <1>3, <1>4
    <2> HIDE DEF b, top
    <2>2. height \in -1..top /\ height \in {b, -1}
        BY <2>1, HeightTypes
    <2> HIDE DEF height
    <2>3. QED
        BY <1>2, <1>3, <1>4, <2>2
<1>6. /\ highest' = top
      /\ lastMerkle' = [lastMerkle EXCEPT ![p] = b]
      /\ dlHeight' = IF last \/ (empty /\ height % Milestone = 0) THEN height ELSE dlHeight
      /\ IF last /\ empty
         THEN RequestTransactions(height, top, dbQ)
         ELSE UNCHANGED <<lastDlHeight, lastDlSize, synced, dbQ, fault>>
      /\ since' = [since EXCEPT ![p] = 0]
      /\ UNCHANGED <<nodes, active, connected, gotFinal, mainQ, timers, txQ, stored,
                     rejectCount, filterVars, tip, spent>>
    BY DEF MerkleBlock
<1> HIDE DEF b, top, height, empty, m
<1>7. ChainTypes' /\ highest' >= highest /\ (dlHeight' = dlHeight \/ dlHeight' <= highest')
    <2>1. height \in -1..MaxHeight
        BY <1>2, <1>5
    <2>2. dlHeight' \in {height, dlHeight}
        BY <1>6
    <2>3. QED
        BY <1>2, <1>4, <1>5, <1>6, <2>1, <2>2 DEF TypeInv, ChainTypes
<1>8. /\ lastDlHeight' \in [Ptrs -> -1..MaxHeight]
      /\ lastDlSize' \in [Ptrs -> 0..BatchSize]
      /\ synced' \in BOOLEAN /\ fault' \in BOOLEAN /\ dbQ' \in Seq(DbWork(tip))
      /\ \A x \in Ptrs : lastDlHeight'[x] \in {lastDlHeight[x], top}
    <2>1. CASE last /\ empty
        <3>1. RequestTransactions(height, top, dbQ)
            BY <1>6, <2>1
        <3>2. QED
            BY <1>2, <1>4, <3>1, RequestTransactionsTypes
    <2>2. CASE ~(last /\ empty)
        <3>1. /\ lastDlHeight' = lastDlHeight /\ lastDlSize' = lastDlSize /\ synced' = synced
              /\ dbQ' = dbQ /\ fault' = fault
            BY <1>6, <2>2
        <3>2. QED
            BY <1>2, <3>1
    <2>3. QED
        BY <2>1, <2>2
<1>9. \/ lastDlHeight' = lastDlHeight /\ dbQ' = dbQ /\ fault' = fault
      \/ /\ lastDlHeight[p] \in {-1} \cup 1..MaxHeight
         /\ RequestTransactions(lastDlHeight[p], highest', dbQ)
    <2>1. CASE last /\ empty
        <3>1. RequestTransactions(height, top, dbQ)
            BY <1>6, <2>1
        <3>2. lastDlHeight[p] = height /\ highest' = top
            BY <1>6, <2>1
        <3>3. RequestTransactions(lastDlHeight[p], highest', dbQ)
            BY <3>1, <3>2
        <3>4. QED
            BY <1>5, <3>2, <3>3
    <2>2. CASE ~(last /\ empty)
        BY <1>6, <2>2
    <2>3. QED
        BY <2>1, <2>2
<1>10. lastMerkle' \in [Ptrs -> -1..MaxHeight] /\ since' \in [Ptrs -> Nat]
    <2>1. b \in -1..MaxHeight
        BY <1>2, <1>3
    <2>2. QED
        BY <1>2, <1>6, <2>1
<1>11. NodeTypes'
    BY <1>6, <1>8, <1>10 DEF TypeInv, NodeTypes
<1>12. FieldTypes'
    BY <1>6, <1>8 DEF TypeInv, FieldTypes, filterVars, trackerVars
<1>13. Queues'
    BY <1>1, <1>6, <1>8, QueueFrame
<1>14. QED
    BY <1>6, <1>7, <1>8, <1>9, <1>11, <1>12, <1>13 DEF TypeInv

\* tx keeps the types.
LEMMA TxTypes ==
    ASSUME TypeInv, NEW p \in Ptrs, Tx(p)
    PROVE  TypeInv'
<1> DEFINE m == Head(inbox[p])
<1>1. m \in Deliveries(tip) /\ inbox' \in [Ptrs -> Seq(Deliveries(tip))] /\ m.kind = "blocks"
    BY ReadTypes DEF Tx, Arrives
<1>2. tip \in Nat /\ txQ \in Seq(TxWork)
    BY HeadTypes DEF TypeInv, Queues
<1>3. m.from \in 1..tip /\ m.tx \in Nat
    BY <1>1, <1>2, Records
<1>4. [node |-> p, tx |-> <<m.from, m.tx>>] \in TxWork
    BY <1>2, <1>3 DEF TxWork, Addresses
<1>5. txQ' \in Seq(TxWork)
    BY <1>2, <1>4, QueueTypes DEF Tx
<1>6. Queues'
    BY <1>1, <1>5, QueueFrame DEF Tx
<1>7. QED
    BY <1>6, TypeFrame DEF Tx, TypeInv

\* txWorker keeps the types.
LEMMA TxWorkerTypes ==
    ASSUME TypeInv, TxWorker
    PROVE  TypeInv' /\ (dlHeight' = dlHeight \/ dlHeight' <= highest)
<1> DEFINE w == Head(txQ)
           height == HeightOf(lastMerkle[w.node], highest)
<1>1. w \in TxWork /\ tip \in Nat /\ txQ' \in Seq(TxWork)
    BY HeadTypes DEF TxWorker
<1>2. w.node \in Addresses
    BY <1>1, Records
<1>3. /\ nodes \subseteq Ptrs /\ lastMerkle \in [Ptrs -> -1..MaxHeight]
      /\ highest \in 0..tip /\ tip \in 0..MaxHeight /\ MaxHeight \in Nat
      /\ dlHeight \in -1..MaxHeight /\ fault \in BOOLEAN
      /\ dbQ \in Seq(DbWork(tip)) /\ mainQ \in Seq(MainWork(tip))
      /\ matchCount \in Nat /\ mismatchCount \in Nat /\ known \subseteq Wanted
    BY SizesAssumption DEF TypeInv, NodeTypes, ChainTypes, FieldTypes, Queues
<1> DEFINE Goal == /\ dbQ' \in Seq(DbWork(tip)) /\ mainQ' \in Seq(MainWork(tip))
                   /\ matchCount' \in Nat /\ mismatchCount' \in Nat /\ known' \subseteq Wanted
                   /\ dlHeight' \in -1..MaxHeight /\ fault' \in BOOLEAN
                   /\ dlHeight' = dlHeight \/ dlHeight' <= highest
<1>4. ASSUME NodeStillValid(w.node) PROVE Goal
    <2>1. /\ dbQ' = IF w.tx \in Wanted THEN Append(dbQ, AddTransaction(w.tx)) ELSE dbQ
          /\ TTAddTransaction(w.tx)
          /\ mainQ' = IF Counted(w, height) THEN Append(mainQ, TxDone(w.node, height))
                      ELSE mainQ
          /\ dlHeight' = IF lastDlHeight[w.node] # height /\ height % Milestone = 0
                         THEN Max2(height, dlHeight) ELSE dlHeight
          /\ fault' = (fault \/ w.node \notin nodes)
        BY <1>4 DEF TxWorker
    <2>2. height \in -1..highest
        <3>1. lastMerkle[w.node] \in Int /\ highest \in Nat
            BY <1>3, <1>4 DEF NodeStillValid
        <3>2. QED
            BY <3>1, HeightTypes
    <2> HIDE DEF w, height
    <2>3. dbQ' \in Seq(DbWork(tip))
        <3>1. w.tx \in Wanted => AddTransaction(w.tx) \in DbWork(tip)
            BY DEF AddTransaction, DbWork
        <3>2. QED
            BY <1>3, <2>1, <3>1, QueueTypes
    <2>4. mainQ' \in Seq(MainWork(tip))
        <3>1. height \in -1..tip
            BY <1>3, <2>2
        <3>2. TxDone(w.node, height) \in MainWork(tip)
            BY <1>2, <3>1 DEF TxDone, MainWork
        <3>3. QED
            BY <1>3, <2>1, <3>2, QueueTypes
    <2>5. matchCount' \in Nat /\ mismatchCount' \in Nat /\ known' \subseteq Wanted
        BY <1>3, <2>1 DEF TTAddTransaction
    <2>6. dlHeight' \in -1..MaxHeight /\ (dlHeight' = dlHeight \/ dlHeight' <= highest)
        <3>1. dlHeight' = dlHeight \/ dlHeight' = height
            BY <2>1 DEF Max2
        <3>2. QED
            BY <1>3, <2>2, <3>1
    <2>7. fault' \in BOOLEAN
        BY <1>3, <2>1
    <2>8. QED
        BY <2>3, <2>4, <2>5, <2>6, <2>7
<1>5. ASSUME ~NodeStillValid(w.node) PROVE Goal
    <2>1. /\ dbQ' = dbQ /\ mainQ' = mainQ /\ dlHeight' = dlHeight /\ fault' = fault
          /\ matchCount' = matchCount /\ mismatchCount' = mismatchCount /\ known' = known
        BY <1>5 DEF TxWorker, trackerVars
    <2>2. QED
        BY <1>3, <2>1
<1>6. Goal
    BY <1>4, <1>5
<1>7. ChainTypes'
    BY <1>6 DEF TypeInv, ChainTypes, TxWorker
<1>8. FieldTypes'
    BY <1>6 DEF TypeInv, FieldTypes, TxWorker
<1>9. Queues'
    BY <1>1, <1>6, QueueFrame DEF TxWorker
<1>10. QED
    BY <1>6, <1>7, <1>8, <1>9, TypeFrame DEF TxWorker, TypeInv

\* txWorkerMain keeps the types.
LEMMA TxWorkerMainTypes ==
    ASSUME TypeInv, TxWorkerMain
    PROVE  /\ TypeInv'
           /\ \/ dlHeight' = dlHeight
              \/ \E p \in Ptrs : dlHeight' = lastDlHeight[p]
           /\ \A x \in Ptrs : lastDlHeight'[x] \in {lastDlHeight[x], highest}
           /\ \/ lastDlHeight' = lastDlHeight /\ dbQ' = dbQ /\ fault' = fault
              \/ /\ Head(mainQ).node \in nodes
                 /\ RequestTransactions(dlHeight', highest, dbQ)
<1> DEFINE w == Head(mainQ)
           n == since[w.node] + 1
           done == lastDlHeight[w.node] = w.height /\ BlockComplete(w.node, n)
           dl == IF done /\ lastDlHeight[w.node] = dlHeight + lastDlSize[w.node]
                 THEN lastDlHeight[w.node] ELSE dlHeight
           asks == done /\ ~FailureRateTooHigh
<1>1. /\ tip \in Nat /\ mainQ' \in Seq(MainWork(tip))
      /\ UNCHANGED <<nodes, active, connected, lastMerkle, gotFinal, inbox, timers, txQ,
                     highest, stored, rejectCount, filterVars, tip, spent>>
    BY HeadTypes DEF TxWorkerMain, Queued
<1>2. /\ nodes \subseteq Ptrs /\ since \in [Ptrs -> Nat]
      /\ lastDlHeight \in [Ptrs -> -1..MaxHeight] /\ lastDlSize \in [Ptrs -> 0..BatchSize]
      /\ highest \in 0..tip /\ dlHeight \in -1..MaxHeight
      /\ fault \in BOOLEAN /\ synced \in BOOLEAN /\ dbQ \in Seq(DbWork(tip))
    BY DEF TypeInv, NodeTypes, ChainTypes, FieldTypes, Queues
<1> DEFINE Goal == /\ since' \in [Ptrs -> Nat]
                   /\ dlHeight' = dlHeight \/ \E p \in Ptrs : dlHeight' = lastDlHeight[p]
                   /\ lastDlHeight' \in [Ptrs -> -1..MaxHeight]
                   /\ lastDlSize' \in [Ptrs -> 0..BatchSize]
                   /\ synced' \in BOOLEAN /\ fault' \in BOOLEAN
                   /\ dbQ' \in Seq(DbWork(tip))
                   /\ \A x \in Ptrs : lastDlHeight'[x] \in {lastDlHeight[x], highest}
                   /\ \/ lastDlHeight' = lastDlHeight /\ dbQ' = dbQ /\ fault' = fault
                      \/ w.node \in nodes /\ RequestTransactions(dlHeight', highest, dbQ)
<1>3. ASSUME NodeStillValid(w.node) PROVE Goal
    <2>1. /\ since' = [since EXCEPT ![w.node] = n]
          /\ dlHeight' = dl
          /\ IF asks
             THEN RequestTransactions(dl, highest, dbQ)
             ELSE UNCHANGED <<lastDlHeight, lastDlSize, synced, dbQ, fault>>
        BY <1>3 DEF TxWorkerMain
    <2>2. w.node \in nodes /\ w.node \in Ptrs
        BY <1>2, <1>3 DEF NodeStillValid
    <2>3. since' \in [Ptrs -> Nat]
        BY <1>2, <2>1, <2>2
    <2>4. dlHeight' = dlHeight \/ \E p \in Ptrs : dlHeight' = lastDlHeight[p]
        BY <2>1, <2>2
    <2> HIDE DEF w, n, done, dl, asks
    <2>5. CASE asks
        <3>1. RequestTransactions(dlHeight', highest, dbQ)
            BY <2>1, <2>5
        <3>2. /\ lastDlHeight' \in [Ptrs -> -1..MaxHeight]
              /\ lastDlSize' \in [Ptrs -> 0..BatchSize]
              /\ synced' \in BOOLEAN /\ fault' \in BOOLEAN
              /\ dbQ' \in Seq(DbWork(tip))
              /\ \A x \in Ptrs : lastDlHeight'[x] \in {lastDlHeight[x], highest}
            BY <1>2, <3>1, RequestTransactionsTypes
        <3>3. QED
            BY <2>2, <2>3, <2>4, <3>1, <3>2
    <2>6. CASE ~asks
        <3>1. /\ lastDlHeight' = lastDlHeight /\ lastDlSize' = lastDlSize /\ synced' = synced
              /\ dbQ' = dbQ /\ fault' = fault
            BY <2>1, <2>6
        <3>2. QED
            BY <1>2, <2>3, <2>4, <3>1
    <2>7. QED
        BY <2>5, <2>6
<1>4. ASSUME ~NodeStillValid(w.node) PROVE Goal
    <2>1. /\ since' = since /\ dlHeight' = dlHeight /\ lastDlHeight' = lastDlHeight
          /\ lastDlSize' = lastDlSize /\ synced' = synced /\ dbQ' = dbQ /\ fault' = fault
        BY <1>4 DEF TxWorkerMain
    <2> HIDE DEF w
    <2>2. QED
        BY <1>2, <2>1
<1>5. Goal
    BY <1>3, <1>4
<1>6. dlHeight' \in -1..MaxHeight
    BY <1>2, <1>5
<1>7. NodeTypes'
    BY <1>1, <1>5 DEF TypeInv, NodeTypes
<1>8. ChainTypes'
    BY <1>1, <1>6 DEF TypeInv, ChainTypes
<1>9. FieldTypes'
    BY <1>1, <1>5 DEF TypeInv, FieldTypes, filterVars, trackerVars
<1>10. Queues'
    BY <1>1, <1>5, QueueFrame
<1>11. QED
    BY <1>5, <1>7, <1>8, <1>9, <1>10 DEF TypeInv

\* txWorkerAddTransaction keeps the types.
LEMMA AddTransactionTypes ==
    ASSUME TypeInv, TxWorkerAddTransaction
    PROVE  TypeInv'
<1>1. /\ Head(dbQ) \in DbWork(tip) /\ Head(dbQ).op = "txWorkerAddTransaction" /\ tip \in Nat
      /\ dbQ' \in Seq(DbWork(tip))
    BY HeadTypes DEF TxWorkerAddTransaction, Queued
<1>2. Head(dbQ).tx \in Wanted
    BY <1>1, Records
<1>3. ChainTypes'
    BY <1>2 DEF TxWorkerAddTransaction, TypeInv, ChainTypes
<1>4. Queues'
    BY <1>1, QueueFrame DEF TxWorkerAddTransaction
<1>5. QED
    BY <1>3, <1>4, TypeFrame DEF TxWorkerAddTransaction, TypeInv

\* inventory keeps the types; it asks for blocks only.
LEMMA InventoryTypes ==
    ASSUME TypeInv, NEW p \in Ptrs, Inventory(p)
    PROVE  /\ TypeInv'
           /\ \A x \in Ptrs \ {p} : inbox'[x] = inbox[x]
           /\ \/ inbox'[p] = Read(p)[p]
              \/ \E h \in 1..tip : inbox'[p] = Append(Read(p)[p], Blocks(h, h))
<1> DEFINE h == Head(inbox[p]).from
<1>1. /\ Head(inbox[p]) \in Deliveries(tip) /\ Read(p) \in [Ptrs -> Seq(Deliveries(tip))]
      /\ Head(inbox[p]).kind = "inv"
      /\ \A x \in Ptrs \ {p} : Read(p)[x] = inbox[x]
    BY ReadTypes DEF Inventory, Arrives
<1>2. h \in 1..tip
    BY <1>1, HeadTypes, Records
<1>3. Blocks(h, h) \in Deliveries(tip)
    BY <1>2 DEF Blocks, Deliveries
<1>4. \/ inbox' = Read(p)
      \/ inbox' = [Read(p) EXCEPT ![p] = Append(@, Blocks(h, h))]
    BY DEF Inventory
<1>5. Append(Read(p)[p], Blocks(h, h)) \in Seq(Deliveries(tip))
    BY <1>1, <1>3, QueueTypes
<1> HIDE DEF h
<1>6. inbox' \in [Ptrs -> Seq(Deliveries(tip))]
    BY <1>1, <1>4, <1>5
<1>7. Queues'
    BY <1>6, QueueFrame DEF Inventory
<1>8. /\ \A x \in Ptrs \ {p} : inbox'[x] = inbox[x]
      /\ inbox'[p] = Read(p)[p] \/ inbox'[p] = Append(Read(p)[p], Blocks(h, h))
    BY <1>1, <1>4
<1>9. TypeInv'
    BY <1>7, TypeFrame DEF Inventory, TypeInv
<1>10. QED
    BY <1>2, <1>8, <1>9

\* A counter of events keeps its type.
LEMMA SpendTypes ==
    ASSUME TypeInv
    PROVE  /\ \A e \in Events : Spend(e) => spent' \in [Events -> Nat]
           /\ \A n \in Nat : Drops(n) => spent' \in [Events -> Nat]
<1>1. spent \in [Events -> Nat] /\ "drop" \in Events
    BY DEF TypeInv, Queues, Events
<1>2. ASSUME NEW e \in Events, Spend(e) PROVE spent' \in [Events -> Nat]
    BY <1>1, <1>2 DEF Spend
<1>3. ASSUME NEW n \in Nat, Drops(n)
      PROVE  spent' \in [Events -> Nat]
    BY <1>1, <1>3 DEF Drops
<1>4. QED
    BY <1>2, <1>3

\* NodeNew keeps the types of the fields.
LEMMA NewNodesTypes ==
    ASSUME TypeInv, NEW new, NewNodes(new)
    PROVE  /\ lastDlHeight' \in [Ptrs -> -1..MaxHeight]
           /\ lastDlSize' \in [Ptrs -> 0..BatchSize]
           /\ lastMerkle' \in [Ptrs -> -1..MaxHeight]
           /\ since' \in [Ptrs -> Nat]
           /\ gotFinal' \in [Ptrs -> BOOLEAN]
           /\ \A p \in Ptrs : lastDlHeight'[p] \in {lastDlHeight[p], 0}
           /\ \A p \in Ptrs \cap new : lastDlHeight'[p] = 0
<1>1. /\ lastDlHeight \in [Ptrs -> -1..MaxHeight] /\ lastDlSize \in [Ptrs -> 0..BatchSize]
      /\ lastMerkle \in [Ptrs -> -1..MaxHeight] /\ since \in [Ptrs -> Nat]
      /\ gotFinal \in [Ptrs -> BOOLEAN]
    BY DEF TypeInv, NodeTypes
<1>2. 0 \in -1..MaxHeight /\ -1 \in -1..MaxHeight /\ 0 \in 0..BatchSize
    BY SizesAssumption
<1>3. lastDlHeight' \in [Ptrs -> -1..MaxHeight] /\ lastDlSize' \in [Ptrs -> 0..BatchSize]
    BY <1>1, <1>2 DEF NewNodes
<1>4. lastMerkle' \in [Ptrs -> -1..MaxHeight] /\ since' \in [Ptrs -> Nat]
    BY <1>1, <1>2 DEF NewNodes
<1>5. gotFinal' \in [Ptrs -> BOOLEAN]
    BY <1>1 DEF NewNodes
<1>6. /\ \A p \in Ptrs : lastDlHeight'[p] \in {lastDlHeight[p], 0}
      /\ \A p \in Ptrs \cap new : lastDlHeight'[p] = 0
    BY DEF NewNodes
<1>7. QED
    BY <1>3, <1>4, <1>5, <1>6

\* ConnectNodes keeps the types.
LEMMA ConnectNodesTypes ==
    ASSUME TypeInv, ConnectNodes
    PROVE  /\ TypeInv'
           /\ nodes' \in Room({}) /\ inbox' = Emptied(nodes') /\ NewNodes(nodes')
<1>a. PICK new \in Room({}) : \E down \in SUBSET new :
        /\ nodes' = new
        /\ connected' = new \ down
        /\ inbox' = Emptied(new)
        /\ NewNodes(new)
        /\ Drops(Cardinality(down))
    BY DEF ConnectNodes
<1>1. PICK down \in SUBSET new :
        /\ nodes' = new
        /\ connected' = new \ down
        /\ inbox' = Emptied(new)
        /\ NewNodes(new)
        /\ Drops(Cardinality(down))
    BY <1>a
<1>2. new \in SUBSET Ptrs /\ Cardinality(new) <= NodeCount
    BY <1>1 DEF Room, FullAt
<1>3. Cardinality(down) \in Nat
    BY <1>2, Sizes
<1>4. spent' \in [Events -> Nat]
    BY <1>1, <1>3, SpendTypes
<1>5. inbox' \in [Ptrs -> Seq(Deliveries(tip))]
    BY <1>1, EmptiedTypes
<1>6. Queues'
    BY <1>4, <1>5, QueueFrame DEF ConnectNodes
<1>7. NodeTypes'
    BY <1>1, <1>2, NewNodesTypes DEF NodeTypes, TypeInv, ConnectNodes
<1>8. keysNewer' \in BOOLEAN /\ loaded' \in BOOLEAN
    BY DEF ConnectNodes, TypeInv, FieldTypes
<1>9. FieldTypes'
    BY <1>8 DEF ConnectNodes, TypeInv, FieldTypes, trackerVars
<1>10. ChainTypes'
    BY TypeFrame DEF ConnectNodes
<1>11. QED
    BY <1>1, <1>4, <1>6, <1>7, <1>9, <1>10 DEF TypeInv

\* setActiveNodeIfNone keeps the types.
LEMMA SetActiveTypes ==
    ASSUME TypeInv, SetActiveNodeIfNone
    PROVE  /\ TypeInv'
           /\ \/ active' = active /\ dbQ' = dbQ
              \/ /\ nodes # {} => active' \in nodes
                 /\ dbQ' = RequestHeaders(dbQ, active')
<1>1. /\ nodes \subseteq Ptrs /\ active \in Addresses /\ dbQ \in Seq(DbWork(tip))
      /\ timers \subseteq Posted
    BY DEF TypeInv, NodeTypes, Queues
<1>2. /\ active' \in Addresses /\ dbQ' \in Seq(DbWork(tip))
      /\ \/ active' = active /\ dbQ' = dbQ
         \/ /\ nodes # {} => active' \in nodes
            /\ dbQ' = RequestHeaders(dbQ, active')
    <2>1. CASE active # NoNode
        BY <1>1, <2>1 DEF SetActiveNodeIfNone
    <2>2. CASE active = NoNode
        <3>1. active' \in Candidates(nodes, connected) /\ dbQ' = RequestHeaders(dbQ, active')
            BY <2>2 DEF SetActiveNodeIfNone
        <3>2. active' \in Addresses /\ (nodes # {} => active' \in nodes)
            BY <1>1, <3>1 DEF Candidates, Addresses
        <3>3. dbQ' \in Seq(DbWork(tip))
            BY <1>1, <3>1, <3>2, RequestHeadersTypes
        <3>4. QED
            BY <3>1, <3>2, <3>3
    <2>3. QED
        BY <2>1, <2>2
<1>3. timers' \subseteq Posted
    BY <1>1 DEF SetActiveNodeIfNone
<1>4. Queues'
    BY <1>2, <1>3, QueueFrame DEF SetActiveNodeIfNone
<1>5. NodeTypes'
    BY <1>2 DEF TypeInv, NodeTypes, SetActiveNodeIfNone, nodeVars
<1>6. QED
    BY <1>2, <1>4, <1>5, TypeFrame DEF SetActiveNodeIfNone, TypeInv

\* bloomFilterCheckup and bloomFilterWorkerMain keep the types.
LEMMA FilterTypes ==
    ASSUME TypeInv, BloomFilterCheckup \/ BloomFilterWorkerMain
    PROVE  TypeInv'
<1>1. CASE BloomFilterCheckup
    <2>1. FilterDone(keysNewer) \in MainWork(tip)
        BY DEF FilterDone, MainWork, TypeInv, FieldTypes
    <2>2. mainQ' \in Seq(MainWork(tip)) /\ timers' \subseteq Posted
        BY <1>1, <2>1, QueueTypes DEF BloomFilterCheckup, TypeInv, Queues
    <2>3. Queues'
        BY <1>1, <2>2, QueueFrame DEF BloomFilterCheckup
    <2>4. QED
        BY <1>1, <2>3, TypeFrame DEF BloomFilterCheckup, TypeInv
<1>2. CASE BloomFilterWorkerMain
    <2>1. /\ Head(mainQ) \in MainWork(tip) /\ Head(mainQ).op = "bloomFilterWorkerMain"
          /\ tip \in Nat /\ mainQ' \in Seq(MainWork(tip))
        BY <1>2, HeadTypes DEF BloomFilterWorkerMain, Queued
    <2>2. needsUpdate' \in BOOLEAN
        BY <1>2, <2>1, Records DEF BloomFilterWorkerMain
    <2>3. FieldTypes'
        BY <1>2, <2>2 DEF BloomFilterWorkerMain, TypeInv, FieldTypes, trackerVars
    <2>4. Queues'
        BY <1>2, <2>1, QueueFrame DEF BloomFilterWorkerMain
    <2>5. QED
        BY <1>2, <2>3, <2>4, TypeFrame DEF BloomFilterWorkerMain, TypeInv
<1>3. QED
    BY <1>1, <1>2

\* What nodeCheckup makes active: one of the nodes that are left, unless none is.
LEMMA NextActiveIsLeft ==
    ASSUME NEW ns \in SUBSET Ptrs, NEW p \in ns \cup {NoNode}, NEW late,
           NEW a \in NextActive(ns, p, late)
    PROVE  a \in ns \cup {NoNode} /\ (a = NoNode => ns = {})
<1>0. NoNode \notin ns
    BY SizesAssumption
<1>1. CASE ~Mute(p, late)
    BY <1>0, <1>1 DEF NextActive, Mute
<1>2. CASE Mute(p, late) /\ Cardinality(ns) # 1
    <2>1. a \in Candidates(ns \ {p}, ns)
        BY <1>2 DEF NextActive
    <2>2. CASE ns \ {p} # {}
        BY <1>0, <2>1, <2>2 DEF Candidates
    <2>3. CASE ns \ {p} = {}
        <3>1. ns = {}
            BY <1>2, <2>3, NotAlone
        <3>2. QED
            BY <2>1, <3>1 DEF Candidates
    <2>4. QED
        BY <2>2, <2>3
<1>3. CASE Mute(p, late) /\ Cardinality(ns) = 1
    BY <1>0, <1>3 DEF NextActive
<1>4. QED
    BY <1>1, <1>2, <1>3

\* The nodes after a checkup: some that were connected, the active one among
\* them if there are any, and new ones.
CheckedUp(rest, new) ==
    /\ active' \in rest \cup {NoNode}
    /\ active' = NoNode => rest = {}
    /\ (nodes = {} /\ new = {}) \/ (nodes # {} /\ new \in Room(rest))
    /\ nodes' = rest \cup new
    /\ connected' \subseteq nodes'
    /\ NewNodes(new)
    /\ inbox' = Emptied(Ptrs \ rest)

\* A checkup leaves such nodes, and keeps the types of the queue and the counters.
LEMMA CheckupShape ==
    ASSUME TypeInv, NEW late, NEW slow \in SUBSET connected, Checkup(late, slow)
    PROVE  /\ \E rest \in SUBSET connected : \E new \in SUBSET Ptrs : CheckedUp(rest, new)
           /\ dbQ' \in Seq(DbWork(tip))
           /\ dbQ' \in {dbQ, RequestHeaders(dbQ, active'),
                        RequestHeaders(RequestHeaders(dbQ, NoNode), active')}
           /\ spent' \in [Events -> Nat]
<1> DEFINE update == needsUpdate \/ FailureRateTooHigh
           left == connected \ (slow \cup IF update THEN {active} ELSE {})
           kept == IF active \in left THEN active ELSE NoNode
           early == IF late /\ ~Quiet THEN 1 ELSE 0
           rest == IF active' = kept THEN left ELSE left \ {kept}
<1>0. /\ connected \subseteq nodes /\ nodes \subseteq Ptrs /\ dbQ \in Seq(DbWork(tip))
    BY DEF TypeInv, NodeTypes, Queues
<1>1. /\ active' \in NextActive(left, kept, late)
      /\ dbQ' = Requested(left, kept, late, active')
      /\ inbox' = Emptied(Ptrs \ rest)
      /\ \E new \in IF nodes = {} THEN {{}} ELSE Room(rest) :
         \E down \in SUBSET new :
            /\ nodes' = rest \cup new
            /\ connected' = rest \cup (new \ down)
            /\ NewNodes(new)
            /\ Drops(Cardinality(slow) + early + Cardinality(down))
    BY DEF Checkup
<1>2. left \in SUBSET connected /\ left \in SUBSET Ptrs /\ kept \in left \cup {NoNode}
        /\ early \in Nat
    BY <1>0
<1> HIDE DEF left, kept, early
<1>3. active' \in left \cup {NoNode} /\ (active' = NoNode => left = {})
    BY <1>1, <1>2, NextActiveIsLeft
<1>4. rest \in SUBSET connected /\ active' \in rest \cup {NoNode} /\ (active' = NoNode => rest = {})
    BY <1>2, <1>3
<1> HIDE DEF rest
<1>5. PICK new \in IF nodes = {} THEN {{}} ELSE Room(rest) :
         \E down \in SUBSET new :
            /\ nodes' = rest \cup new
            /\ connected' = rest \cup (new \ down)
            /\ NewNodes(new)
            /\ Drops(Cardinality(slow) + early + Cardinality(down))
    BY <1>1
<1>6. PICK down \in SUBSET new :
            /\ nodes' = rest \cup new
            /\ connected' = rest \cup (new \ down)
            /\ NewNodes(new)
            /\ Drops(Cardinality(slow) + early + Cardinality(down))
    BY <1>5
<1>7. new \in SUBSET Ptrs
    BY <1>5 DEF Room
<1>8. CheckedUp(rest, new)
    BY <1>1, <1>4, <1>5, <1>6 DEF CheckedUp
<1>9. spent' \in [Events -> Nat]
    <2>1. Cardinality(slow) \in Nat /\ Cardinality(down) \in Nat
        BY <1>0, <1>7, Sizes
    <2>2. Cardinality(slow) + early + Cardinality(down) \in Nat
        BY <1>2, <2>1
    <2>3. QED
        BY <1>6, <2>2, SpendTypes
<1>10. dbQ' \in {dbQ, RequestHeaders(dbQ, active'),
                 RequestHeaders(RequestHeaders(dbQ, NoNode), active')}
    BY <1>1 DEF Requested
<1>11. dbQ' \in Seq(DbWork(tip))
    <2>1. active' \in Addresses /\ NoNode \in Addresses
        BY <1>0, <1>4 DEF Addresses
    <2>2. RequestHeaders(dbQ, NoNode) \in Seq(DbWork(tip))
        BY <1>0, <2>1, RequestHeadersTypes
    <2>3. QED
        BY <1>0, <1>10, <2>1, <2>2, RequestHeadersTypes
<1>12. QED
    BY <1>4, <1>7, <1>8, <1>9, <1>10, <1>11

\* nodeCheckup keeps the types.
LEMMA CheckupTypes ==
    ASSUME TypeInv, NEW late, NEW slow \in SUBSET connected, Checkup(late, slow)
    PROVE  TypeInv'
<1>0. /\ connected \subseteq nodes /\ nodes \subseteq Ptrs
    BY DEF TypeInv, NodeTypes
<1>1. PICK rest \in SUBSET connected : \E new \in SUBSET Ptrs : CheckedUp(rest, new)
    BY CheckupShape
<1>2. PICK new \in SUBSET Ptrs : CheckedUp(rest, new)
    BY <1>1
<1>3. nodes' \subseteq Ptrs /\ active' \in Addresses
    BY <1>0, <1>2 DEF CheckedUp, Addresses
<1>4. Cardinality(nodes') <= NodeCount
    <2>1. CASE nodes = {}
        <3>1. nodes' = {}
            BY <1>0, <1>2, <2>1 DEF CheckedUp
        <3>2. QED
            BY <3>1, FS_EmptySet, SizesAssumption
    <2>2. CASE nodes # {}
        BY <1>2, <2>2 DEF CheckedUp, Room, FullAt
    <2>3. QED
        BY <2>1, <2>2
<1>5. NodeTypes'
    BY <1>2, <1>3, <1>4, NewNodesTypes DEF CheckedUp, NodeTypes
<1>6. ChainTypes'
    <2>1. dlHeight' \in {0, dlHeight} /\ UNCHANGED <<highest, stored, tip>>
        BY DEF Checkup
    <2>2. 0 \in -1..MaxHeight
        BY SizesAssumption
    <2>3. QED
        BY <2>1, <2>2 DEF TypeInv, ChainTypes
<1>7. FieldTypes'
    <2> DEFINE update == needsUpdate \/ FailureRateTooHigh
    <2>1. /\ needsUpdate' = FALSE /\ keysNewer' = (keysNewer /\ ~update)
          /\ fault' = (fault \/ active \notin nodes \cup {NoNode} \/ (update /\ active = NoNode))
          /\ UNCHANGED <<synced, rejectCount, known, loaded>>
        BY DEF Checkup
    <2>2. matchCount' \in {0, matchCount} /\ mismatchCount' \in {0, mismatchCount}
        BY DEF Checkup, ResetFailureRate
    <2> HIDE DEF update
    <2>3. keysNewer' \in BOOLEAN /\ fault' \in BOOLEAN /\ needsUpdate' \in BOOLEAN
        BY <2>1 DEF TypeInv, FieldTypes
    <2>4. matchCount' \in Nat /\ mismatchCount' \in Nat
        BY <2>2 DEF TypeInv, FieldTypes
    <2>5. QED
        BY <2>1, <2>3, <2>4 DEF TypeInv, FieldTypes
<1>8. Queues'
    <2>1. inbox' \in [Ptrs -> Seq(Deliveries(tip))]
        BY <1>2, EmptiedTypes DEF CheckedUp
    <2>2. timers' \subseteq Posted /\ UNCHANGED <<mainQ, txQ, tip>>
        BY DEF Checkup, TypeInv, Queues
    <2>3. QED
        BY <2>1, <2>2, CheckupShape, QueueFrame
<1>9. QED
    BY <1>5, <1>6, <1>7, <1>8 DEF TypeInv

\* NodeManagerDisconnectAll, NodeManagerAppDidBecomeActive, a connection that
\* breaks and a new key keep the types.
LEMMA OutsideTypes ==
    ASSUME TypeInv,
           DisconnectAll \/ AppDidBecomeActive \/ NewKey \/ \E p \in Ptrs : Disconnected(p)
    PROVE  TypeInv'
<1>0. /\ nodes \subseteq Ptrs /\ active \in Addresses /\ connected \subseteq nodes
      /\ dbQ \in Seq(DbWork(tip))
    BY DEF TypeInv, NodeTypes, Queues
<1>a. {"disconnect", "foreground", "key", "drop"} \subseteq Events
    BY DEF Events
<1>1. CASE DisconnectAll
    <2>1. spent' \in [Events -> Nat] /\ inbox' \in [Ptrs -> Seq(Deliveries(tip))]
        BY <1>1, <1>a, SpendTypes, EmptiedTypes DEF DisconnectAll
    <2>2. Queues'
        BY <1>1, <2>1, QueueFrame DEF DisconnectAll
    <2>3. Cardinality(nodes') <= NodeCount
        BY <1>1, FS_EmptySet, SizesAssumption DEF DisconnectAll
    <2>4. NodeTypes'
        BY <1>1, <2>3 DEF DisconnectAll, TypeInv, NodeTypes, nodeVars
    <2>5. QED
        BY <1>1, <2>2, <2>4, TypeFrame DEF DisconnectAll, TypeInv
<1>2. CASE AppDidBecomeActive
    <2>1. spent' \in [Events -> Nat]
        BY <1>2, <1>a, SpendTypes DEF AppDidBecomeActive
    <2>2. dbQ' \in Seq(DbWork(tip))
        BY <1>0, <1>2, RequestHeadersTypes DEF AppDidBecomeActive
    <2>3. Queues'
        BY <1>2, <2>1, <2>2, QueueFrame DEF AppDidBecomeActive
    <2>4. QED
        BY <1>2, <2>3, TypeFrame DEF AppDidBecomeActive, TypeInv
<1>3. CASE NewKey
    <2>1. spent' \in [Events -> Nat]
        BY <1>3, <1>a, SpendTypes DEF NewKey
    <2>2. Queues'
        BY <1>3, <2>1, QueueFrame DEF NewKey
    <2>3. FieldTypes'
        BY <1>3 DEF NewKey, TypeInv, FieldTypes, trackerVars
    <2>4. QED
        BY <1>3, <2>2, <2>3, TypeFrame DEF NewKey, TypeInv
<1>4. ASSUME NEW p \in Ptrs, Disconnected(p) PROVE TypeInv'
    <2>1. spent' \in [Events -> Nat] /\ inbox' \in [Ptrs -> Seq(Deliveries(tip))]
        BY <1>4, <1>a, SpendTypes, EmptiedTypes DEF Disconnected
    <2>2. Queues'
        BY <1>4, <2>1, QueueFrame DEF Disconnected
    <2>3. NodeTypes'
        BY <1>4 DEF Disconnected, TypeInv, NodeTypes, nodeVars
    <2>4. QED
        BY <1>4, <2>2, <2>3, TypeFrame DEF Disconnected, TypeInv
<1>5. QED
    BY <1>1, <1>2, <1>3, <1>4

\* When the network finds a block there is more that can be on the queues.
LEMMA MoreWithTip ==
    ASSUME NEW t \in Nat
    PROVE  /\ Deliveries(t) \subseteq Deliveries(t + 1)
           /\ MainWork(t) \subseteq MainWork(t + 1)
           /\ DbWork(t) \subseteq DbWork(t + 1)
<1>1. 0..t \subseteq 0..t+1 /\ 1..t \subseteq 1..t+1 /\ -1..t \subseteq -1..t+1
    OBVIOUS
<1>2. Deliveries(t) \subseteq Deliveries(t + 1)
    BY <1>1 DEF Deliveries
<1>3. DbWork(t) \subseteq DbWork(t + 1)
    BY <1>1 DEF DbWork
<1>4. Batches(t) \subseteq Batches(t + 1)
    BY <1>1 DEF Batches
<1>5. MainWork(t) \subseteq MainWork(t + 1)
    BY <1>1, <1>4 DEF MainWork
<1>6. QED
    BY <1>2, <1>3, <1>5

\* A new block keeps the types.
LEMMA NewBlockTypes ==
    ASSUME TypeInv, NewBlock
    PROVE  TypeInv'
<1>0. /\ tip \in 0..MaxHeight /\ MaxHeight \in Nat /\ highest \in 0..tip
      /\ inbox \in [Ptrs -> Seq(Deliveries(tip))] /\ mainQ \in Seq(MainWork(tip))
      /\ dbQ \in Seq(DbWork(tip)) /\ txQ \in Seq(TxWork) /\ timers \subseteq Posted
      /\ spent \in [Events -> Nat] /\ "block" \in Events
    BY SizesAssumption DEF TypeInv, ChainTypes, Queues, Events
<1>1. tip' = tip + 1 /\ tip' \in 0..MaxHeight /\ highest' \in 0..tip' /\ tip \in Nat
    BY <1>0 DEF NewBlock
<1>2. ChainTypes'
    BY <1>1 DEF NewBlock, TypeInv, ChainTypes
<1>3. inbox' \in [Ptrs -> Seq(Deliveries(tip'))]
    <2>1. Inv(tip + 1) \in Deliveries(tip')
        BY <1>1 DEF Inv, Deliveries
    <2>2. \A p \in Ptrs : inbox[p] \in Seq(Deliveries(tip'))
        BY <1>0, <1>1, MoreWithTip, QueueMonotone
    <2>3. \A p \in Ptrs : Append(inbox[p], Inv(tip + 1)) \in Seq(Deliveries(tip'))
        BY <2>1, <2>2, QueueTypes
    <2>4. QED
        BY <2>2, <2>3 DEF NewBlock
<1>4. mainQ' \in Seq(MainWork(tip')) /\ dbQ' \in Seq(DbWork(tip'))
    BY <1>0, <1>1, MoreWithTip, QueueMonotone DEF NewBlock
<1>5. spent' \in [Events -> Nat]
    BY <1>0 DEF NewBlock, Spend
<1>6. Queues'
    BY <1>0, <1>3, <1>4, <1>5 DEF NewBlock, Queues
<1>7. QED
    BY <1>2, <1>5, <1>6, TypeFrame DEF NewBlock, TypeInv

\* A restart keeps the types.
LEMMA RestartTypes ==
    ASSUME TypeInv, Restart
    PROVE  TypeInv'
<1>0. "restart" \in Events
    BY DEF Events
<1>1. spent' \in [Events -> Nat] /\ inbox' \in [Ptrs -> Seq(Deliveries(tip))]
    BY <1>0, SpendTypes, EmptiedTypes DEF Restart
<1>2. Queues'
    BY <1>1, QueueFrame DEF Restart
<1>3. Cardinality(nodes') <= NodeCount
    BY FS_EmptySet, SizesAssumption DEF Restart
<1>4. NewNodes(Ptrs) /\ nodes' = {} /\ active' = NoNode /\ connected' = {}
    BY DEF Restart
<1>5. NodeTypes'
    BY <1>3, <1>4, NewNodesTypes DEF NodeTypes, Addresses
<1>6. rejectCount' \in 0..RejectLimit + 1
    BY SizesAssumption DEF Restart
<1>7. FieldTypes'
    <2>1. /\ synced' = FALSE /\ matchCount' = 0 /\ mismatchCount' = 0 /\ known' = stored
          /\ needsUpdate' = FALSE /\ loaded' = FALSE
          /\ keysNewer' = keysNewer /\ fault' = fault
        BY DEF Restart
    <2>2. QED
        BY <1>6, <2>1 DEF TypeInv, FieldTypes, ChainTypes
<1>8. QED
    BY <1>2, <1>5, <1>7, TypeFrame DEF Restart, TypeInv

\* No step breaks the types.
LEMMA TypeStep == TypeInv /\ [Next]_vars => TypeInv'
<1> SUFFICES ASSUME TypeInv, [Next]_vars PROVE TypeInv'
    OBVIOUS
<1>1. CASE UNCHANGED vars
    <2>1. Queues'
        BY <1>1, QueueFrame DEF vars
    <2>2. QED
        BY <1>1, <2>1, TypeFrame DEF vars, TypeInv
<1>2. CASE MainStep
    BY <1>2, BlockHeadersWorkMainTypes, RequestHeadersWorkerMainTypes,
       RequestTransactionsWorkerMainTypes, TxWorkerMainTypes, FilterTypes DEF MainStep
<1>3. CASE DatabaseStep \/ TxWorker
    BY <1>3, BlockHeadersWorkTypes, RequestHeadersWorkerTypes,
       RequestTransactionsWorkerTypes, AddTransactionTypes, TxWorkerTypes DEF DatabaseStep
<1>4. ASSUME NEW p \in Ptrs, ReadStep(p) \/ Disconnected(p) PROVE TypeInv'
    BY <1>4, BlockHeadersTypes, MerkleBlockTypes, TxTypes, InventoryTypes, OutsideTypes
    DEF ReadStep
<1>5. CASE ConnectNodes \/ SetActiveNodeIfNone \/ BloomFilterCheckup
    BY <1>5, ConnectNodesTypes, SetActiveTypes, FilterTypes
<1>6. ASSUME NEW late \in BOOLEAN, NodeCheckup(late) PROVE TypeInv'
    BY <1>6, CheckupTypes DEF NodeCheckup
<1>7. CASE DisconnectAll \/ AppDidBecomeActive \/ NewBlock \/ NewKey \/ Restart
    BY <1>7, OutsideTypes, NewBlockTypes, RestartTypes
<1>8. QED
    BY <1>1, <1>2, <1>3, <1>4, <1>5, <1>6, <1>7 DEF Next

\* In every behaviour, whatever the chain, the limits and the number of nodes:
\* the manager's fields, its nodes and the tracker's counters have their types;
\* the highest stored block is one the network has, also when headers, blocks
\* and announcements arrive late; and there are never more nodes than
\* ACTIVE_NODE_COUNT.
THEOREM TypesHold == Spec => []TypeOK
<1>1. TypeInv /\ [Next]_vars => TypeInv'
    BY TypeStep
<1>2. QED
    BY <1>1, TypeInit, TypeParts, PTL DEF Spec

-----------------------------------------------------------------------------
(* The download height *)

\* A step that does not reset the table of blocks.
NotReset == highest' >= highest

\* As long as the table is not reset, nothing is noted beyond it: neither the end
\* of a node's batch nor the download height.
LEMMA HeightStep ==
    ASSUME TypeInv, TypeInv', HeightInv, Next, NotReset
    PROVE  HeightInv'
<1>0. /\ highest \in Nat /\ highest' \in Nat /\ highest' >= highest /\ highest \in 0..tip
      /\ dlHeight \in Int /\ dlHeight <= highest
      /\ lastDlHeight \in [Ptrs -> -1..MaxHeight] /\ MaxHeight \in Nat
      /\ \A p \in Ptrs : lastDlHeight[p] <= highest /\ lastDlHeight[p] \in Int
    BY SizesAssumption DEF TypeInv, ChainTypes, NodeTypes, HeightInv, NotReset
<1> SUFFICES /\ dlHeight' <= highest'
             /\ \A p \in Ptrs : lastDlHeight'[p] <= highest'
    BY DEF HeightInv
<1> DEFINE Same == dlHeight' = dlHeight /\ lastDlHeight' = lastDlHeight
<1>a. ASSUME Same PROVE /\ dlHeight' <= highest'
                        /\ \A p \in Ptrs : lastDlHeight'[p] <= highest'
    BY <1>0, <1>a
<1>1. CASE \/ BlockHeadersWork \/ RequestHeadersWorkerMain \/ RequestHeadersWorker
           \/ TxWorkerAddTransaction \/ BloomFilterWorkerMain \/ BloomFilterCheckup
           \/ SetActiveNodeIfNone \/ DisconnectAll \/ AppDidBecomeActive \/ NewBlock \/ NewKey
           \/ \E p \in Ptrs : BlockHeaders(p) \/ Tx(p) \/ Inventory(p) \/ Disconnected(p)
    BY <1>1, <1>a DEF BlockHeadersWork, RequestHeadersWorkerMain, RequestHeadersWorker,
       TxWorkerAddTransaction, BloomFilterWorkerMain, BloomFilterCheckup,
       SetActiveNodeIfNone, DisconnectAll, AppDidBecomeActive, NewBlock, NewKey,
       BlockHeaders, Tx, Inventory, Disconnected, nodeVars
<1>2. CASE BlockHeadersWorkMain
    <2> DEFINE w == Head(mainQ)
    <2>1. w \in MainWork(tip) /\ w.op = "blockHeadersWorkMain" /\ tip \in Nat
        BY <1>2, HeadTypes DEF BlockHeadersWorkMain, Queued
    <2>2. w.count \in Nat /\ w.added \in Nat
        BY <2>1, Records
    <2>3. CASE ~NodeStillValid(w.node) \/ w.count = 1
        BY <1>2, <1>a, <2>3 DEF BlockHeadersWorkMain, nodeVars
    <2>4. CASE NodeStillValid(w.node) /\ w.count # 1 /\ FinalHeaders(w)
        <3>1. RequestTransactions(dlHeight, highest, dbQ) /\ UNCHANGED <<highest, dlHeight>>
            BY <1>2, <2>4 DEF BlockHeadersWorkMain
        <3>2. dbQ \in Seq(DbWork(tip))
            BY DEF TypeInv, Queues
        <3>3. \A p \in Ptrs : lastDlHeight'[p] \in {lastDlHeight[p], highest}
            BY <1>0, <3>1, <3>2, RequestTransactionsTypes
        <3>4. QED
            BY <1>0, <3>1, <3>3
    <2>5. CASE NodeStillValid(w.node) /\ w.count # 1 /\ ~FinalHeaders(w)
        <3>1. MoreHeaders(w) /\ UNCHANGED nodeVars /\ w.node \in nodes
            BY <1>2, <2>5 DEF BlockHeadersWorkMain, NodeStillValid
        <3>2. (highest' = highest /\ dlHeight' = dlHeight) \/ (highest' = 0 /\ dlHeight' = 0)
            BY <2>2, <3>1, MoreHeadersTypes
        <3>3. QED
            BY <1>0, <3>1, <3>2 DEF nodeVars
    <2>6. QED
        BY <2>3, <2>4, <2>5
<1>3. CASE RequestTransactionsWorker
    <2>1. dlHeight' \in {dlHeight, ResumeAt} /\ UNCHANGED <<highest, nodeVars>>
        BY <1>3 DEF RequestTransactionsWorker
    <2>2. ResumeAt <= highest
        BY <1>0, ResumeTypes
    <2>3. QED
        BY <1>0, <2>1, <2>2 DEF nodeVars
<1>4. CASE RequestTransactionsWorkerMain
    <2>1. \A p \in Ptrs : lastDlHeight'[p] \in {lastDlHeight[p]} \cup -1..highest
        BY <1>4, RequestTransactionsWorkerMainTypes
    <2>2. UNCHANGED <<highest, dlHeight>>
        BY <1>4 DEF RequestTransactionsWorkerMain
    <2>3. QED
        BY <1>0, <2>1, <2>2
<1>5. ASSUME NEW p \in Ptrs, MerkleBlock(p)
      PROVE  /\ dlHeight' <= highest'
             /\ \A x \in Ptrs : lastDlHeight'[x] <= highest'
    <2>1. /\ dlHeight' = dlHeight \/ dlHeight' <= highest'
          /\ \A x \in Ptrs : lastDlHeight'[x] \in {lastDlHeight[x], highest'}
        BY <1>5, MerkleBlockTypes
    <2>2. QED
        BY <1>0, <2>1
<1>6. CASE TxWorker
    <2>1. (dlHeight' = dlHeight \/ dlHeight' <= highest) /\ UNCHANGED <<highest, nodeVars>>
        BY <1>6, TxWorkerTypes DEF TxWorker
    <2>2. QED
        BY <1>0, <2>1 DEF nodeVars
<1>7. CASE TxWorkerMain
    <2>1. /\ dlHeight' = dlHeight \/ \E p \in Ptrs : dlHeight' = lastDlHeight[p]
          /\ \A x \in Ptrs : lastDlHeight'[x] \in {lastDlHeight[x], highest}
          /\ highest' = highest
        BY <1>7, TxWorkerMainTypes DEF TxWorkerMain
    <2>2. QED
        BY <1>0, <2>1
<1>8. CASE ConnectNodes \/ Restart
    <2>1. PICK new : NewNodes(new) /\ UNCHANGED <<highest, dlHeight>>
        BY <1>8 DEF ConnectNodes, Restart
    <2>2. QED
        BY <1>0, <2>1, NewNodesTypes
<1>9. ASSUME NEW late \in BOOLEAN, NodeCheckup(late)
      PROVE  /\ dlHeight' <= highest'
             /\ \A x \in Ptrs : lastDlHeight'[x] <= highest'
    <2>1. PICK slow \in SUBSET connected : Checkup(late, slow)
        BY <1>9 DEF NodeCheckup
    <2>2. \E new : NewNodes(new)
        BY <2>1, CheckupShape DEF CheckedUp
    <2>3. dlHeight' \in {0, dlHeight} /\ highest' = highest
        BY <2>1 DEF Checkup
    <2>4. QED
        BY <1>0, <2>2, <2>3, NewNodesTypes
<1>10. QED
    BY <1>1, <1>2, <1>3, <1>4, <1>5, <1>6, <1>7, <1>8, <1>9
    DEF Next, MainStep, DatabaseStep, ReadStep

\* At first nothing is noted, and nothing is stored.
LEMMA HeightInit == Init => HeightInv
BY DEF Init, HeightInv

\* In every behaviour in which the table of blocks is not reset, whichever
\* connections fail, however late blocks and transactions arrive and whenever the
\* program is started again: no block counts as downloaded that is not stored.
THEOREM DlHeightUnlessReset ==
    Spec /\ [][NotReset]_vars => []DlHeightWithinChain
<1>1. TypeInv /\ [Next]_vars => TypeInv'
    BY TypeStep
<1>2. TypeInv /\ TypeInv' /\ HeightInv /\ [Next]_vars /\ [NotReset]_vars => HeightInv'
    <2> SUFFICES ASSUME TypeInv, TypeInv', HeightInv, [Next]_vars, [NotReset]_vars
                 PROVE  HeightInv'
        OBVIOUS
    <2>1. CASE UNCHANGED vars
        BY <2>1 DEF vars, nodeVars, HeightInv
    <2>2. CASE Next /\ NotReset
        BY <2>2, HeightStep
    <2>3. QED
        BY <2>1, <2>2
<1>3. HeightInv => DlHeightWithinChain
    BY DEF HeightInv, DlHeightWithinChain
<1>4. QED
    BY <1>1, <1>2, <1>3, TypeInit, HeightInit, PTL DEF Spec

-----------------------------------------------------------------------------
(* Freed nodes *)

\* What the theorem about freed nodes asks of the surroundings: the allocator
\* does not give a new node an address that queued work still refers to, and
\* NodeManagerDisconnectAll, which leaves activeNode pointing to a freed node,
\* is not called.
AddressesFresh == Reuse = FALSE /\ Limit["disconnect"] = 0

\* The addresses of all queued work.
AllNamed == Named(mainQ) \cup Named(dbQ) \cup Named(txQ)

\* Work on a queue whose node is one of the nodes: then there is an active node.
LEMMA ValidWork ==
    ASSUME TypeInv, ActiveInv, NEW p \in nodes, p \in AllNamed
    PROVE  active # NoNode /\ active \in nodes
BY DEF ActiveInv, Unasked, AllNamed

\* What is named by the head of each queue, and by what is left.
LEMMA HeadNamed ==
    ASSUME TypeInv
    PROVE  /\ mainQ # <<>> =>
                /\ Named(Tail(mainQ)) \subseteq Named(mainQ)
                /\ Head(mainQ).op # "bloomFilterWorkerMain" => Head(mainQ).node \in Named(mainQ)
           /\ dbQ # <<>> =>
                /\ Named(Tail(dbQ)) \subseteq Named(dbQ)
                /\ Head(dbQ).op # "txWorkerAddTransaction" => Head(dbQ).node \in Named(dbQ)
           /\ txQ # <<>> =>
                Named(Tail(txQ)) \subseteq Named(txQ) /\ Head(txQ).node \in Named(txQ)
<1>0. tip \in Nat /\ mainQ \in Seq(MainWork(tip)) /\ dbQ \in Seq(DbWork(tip)) /\ txQ \in Seq(TxWork)
    BY HeadTypes DEF TypeInv, Queues
<1>1. ASSUME mainQ # <<>>
      PROVE /\ Named(Tail(mainQ)) \subseteq Named(mainQ)
            /\ Head(mainQ).op # "bloomFilterWorkerMain" => Head(mainQ).node \in Named(mainQ)
    <2>1. Head(mainQ) \in MainWork(tip)
        BY <1>1, HeadTypes
    <2>2. Head(mainQ).op # "bloomFilterWorkerMain" => "node" \in DOMAIN Head(mainQ)
        BY <1>0, <2>1, Records
    <2>3. QED
        BY <1>0, <1>1, <2>2, NamedTail
<1>2. ASSUME dbQ # <<>>
      PROVE /\ Named(Tail(dbQ)) \subseteq Named(dbQ)
            /\ Head(dbQ).op # "txWorkerAddTransaction" => Head(dbQ).node \in Named(dbQ)
    <2>1. Head(dbQ) \in DbWork(tip)
        BY <1>2, HeadTypes
    <2>2. Head(dbQ).op # "txWorkerAddTransaction" => "node" \in DOMAIN Head(dbQ)
        BY <1>0, <2>1, Records
    <2>3. QED
        BY <1>0, <1>2, <2>2, NamedTail
<1>3. ASSUME txQ # <<>>
      PROVE Named(Tail(txQ)) \subseteq Named(txQ) /\ Head(txQ).node \in Named(txQ)
    <2>1. Head(txQ) \in TxWork
        BY <1>3, HeadTypes
    <2>2. "node" \in DOMAIN Head(txQ)
        BY <1>0, <2>1, Records
    <2>3. QED
        BY <1>0, <1>3, <2>2, NamedTail
<1>4. QED
    BY <1>1, <1>2, <1>3

\* A request for headers names the node it is for.
LEMMA RequestNamed ==
    ASSUME NEW t, NEW q \in Seq(DbWork(t)), NEW p
    PROVE  Named(RequestHeaders(q, p)) \subseteq Named(q) \cup {p}
<1>1. HeadersRequest(p).node = p
    BY DEF HeadersRequest
<1>2. QED
    BY <1>1, NamedAppend DEF RequestHeaders

\* Nothing in q is a reply to getheaders.
NoHeaders(q) == \A i \in DOMAIN q : q[i].kind # "headers"

\* A node that is not to send headers has none to send after a delivery.
LEMMA ReadNoHeaders ==
    ASSUME TypeInv, NEW p \in Ptrs, inbox[p] # <<>>, NoHeaders(inbox[p])
    PROVE  NoHeaders(Read(p)[p]) /\ Head(inbox[p]).kind # "headers"
<1> DEFINE m == Head(inbox[p])
           q == Tail(inbox[p])
           r == IF m.kind = "blocks" THEN Rest(m) ELSE <<>>
<1>0. inbox \in [Ptrs -> Seq(Deliveries(tip))] /\ inbox[p] \in Seq(Deliveries(tip))
    BY DEF TypeInv, Queues
<1>1. q \in Seq(Deliveries(tip)) /\ m \in Deliveries(tip) /\ m = inbox[p][1] /\ 1 \in DOMAIN inbox[p]
    BY <1>0, QueueTypes
<1>2. NoHeaders(q)
    <2> SUFFICES ASSUME NEW i \in DOMAIN q PROVE q[i].kind # "headers"
        BY DEF NoHeaders
    <2>1. q[i] = inbox[p][i + 1] /\ i + 1 \in DOMAIN inbox[p]
        BY <1>0
    <2>2. QED
        BY <2>1 DEF NoHeaders
<1>3. r = <<>> \/ \E x : r = <<x>> /\ x.kind # "headers"
    <2>1. CASE m.kind # "blocks"
        BY <2>1
    <2>2. CASE m.kind = "blocks"
        <3>1. m = [kind |-> "blocks", from |-> m.from, to |-> m.to, tx |-> m.tx]
            BY <1>1, <2>2, HeadTypes, Records
        <3>2. [m EXCEPT !.tx = @ + 1].kind = "blocks"
            BY <3>1
        <3>3. Blocks(m.from + 1, m.to).kind = "blocks"
            BY DEF Blocks
        <3> HIDE DEF m
        <3>4. \/ Rest(m) = <<[m EXCEPT !.tx = @ + 1]>>
              \/ Rest(m) = <<Blocks(m.from + 1, m.to)>>
              \/ Rest(m) = <<>>
            BY DEF Rest
        <3>5. QED
            BY <2>2, <3>2, <3>3, <3>4
    <2>3. QED
        BY <2>1, <2>2
<1>4. Read(p)[p] = r \o q
    BY <1>0 DEF Read
<1> HIDE DEF r, q
<1>5. CASE r = <<>>
    <2>1. r \o q = q
        BY <1>1, <1>5
    <2>2. QED
        BY <1>1, <1>2, <1>4, <2>1 DEF NoHeaders
<1>6. ASSUME NEW x, r = <<x>>, x.kind # "headers" PROVE NoHeaders(Read(p)[p])
    <2> SUFFICES ASSUME NEW i \in DOMAIN (r \o q) PROVE (r \o q)[i].kind # "headers"
        BY <1>4 DEF NoHeaders
    <2>1. \E S : q \in Seq(S) /\ r \in Seq(S)
        <3>1. q \in Seq(Deliveries(tip) \cup {x}) /\ r \in Seq(Deliveries(tip) \cup {x})
            BY <1>1, <1>6, QueueMonotone
        <3>2. QED
            BY <3>1
    <2>2. CASE i = 1
        BY <1>6, <2>1, <2>2
    <2>3. CASE i # 1
        <3>1. (r \o q)[i] = q[i - 1] /\ i - 1 \in DOMAIN q
            BY <1>6, <2>1, <2>3
        <3>2. QED
            BY <1>2, <3>1 DEF NoHeaders
    <2>4. QED
        BY <2>2, <2>3
<1>7. QED
    BY <1>1, <1>3, <1>5, <1>6 DEF NoHeaders

\* A step that leaves the nodes, the active one and the timers alone and uses no
\* freed node keeps the invariant if, while there is no active node, it names no
\* node and asks none.
LEMMA ActiveFrame ==
    ASSUME TypeInv, ActiveInv,
           nodes' = nodes, active' = active, timers' = timers, fault' = fault,
           active = NoNode =>
                /\ AllNamed' \subseteq AllNamed \cup {NoNode}
                /\ \A p \in nodes : lastDlHeight'[p] = lastDlHeight[p]
                /\ \A p \in nodes : inbox'[p] = inbox[p] \/ NoHeaders(inbox'[p])
    PROVE  ActiveInv'
<1>1. /\ active' \in nodes' \cup {NoNode}
      /\ nodes' = {} => timers' = {}
      /\ active' = NoNode => timers' = {} \/ "setActiveNodeIfNone" \in timers'
      /\ ~fault'
    BY DEF ActiveInv
<1>2. ASSUME active' = NoNode, NEW p \in nodes' PROVE Unasked(p)'
    <2>1. p \in nodes /\ active = NoNode /\ p # NoNode
        BY <1>2, SizesAssumption DEF TypeInv, NodeTypes
    <2>2. /\ p \notin AllNamed /\ lastDlHeight[p] = 0 /\ NoHeaders(inbox[p])
        BY <2>1 DEF ActiveInv, Unasked, AllNamed, NoHeaders
    <2>3. p \notin AllNamed' /\ lastDlHeight'[p] = 0 /\ NoHeaders(inbox'[p])
        BY <2>1, <2>2
    <2>4. QED
        BY <2>3 DEF Unasked, AllNamed, NoHeaders
<1>3. QED
    BY <1>1, <1>2 DEF ActiveInv

\* requestTransactions uses no freed node if there is an active one.
LEMMA RequestTransactionsSafe ==
    ASSUME active \in nodes, NEW dl, NEW top, NEW q, RequestTransactions(dl, top, q),
           fault \in BOOLEAN
    PROVE  fault' = fault
<1>1. fault' = fault \/ fault' = (fault \/ active \notin nodes)
    BY DEF RequestTransactions
<1>2. QED
    BY <1>1

\* What the nodes send is dealt with safely.
LEMMA ReadActive ==
    ASSUME TypeInv, ActiveInv, NEW p \in Ptrs, ReadStep(p)
    PROVE  ActiveInv'
<1>0. /\ p \in nodes /\ inbox[p] # <<>> /\ NoNode \notin Ptrs /\ fault \in BOOLEAN
      /\ txQ \in Seq(TxWork)
    BY SizesAssumption
    DEF ReadStep, BlockHeaders, MerkleBlock, Tx, Inventory, Arrives, TypeInv, Queues, FieldTypes
<1>1. active = NoNode => NoHeaders(inbox[p]) /\ lastDlHeight[p] = 0
    BY <1>0 DEF ActiveInv, Unasked, NoHeaders
<1>2. active = NoNode => NoHeaders(Read(p)[p]) /\ Head(inbox[p]).kind # "headers"
    BY <1>0, <1>1, ReadNoHeaders
<1>3. \A x \in Ptrs \ {p} : Read(p)[x] = inbox[x]
    BY <1>0, ReadTypes
<1>4. nodes \subseteq Ptrs
    BY DEF TypeInv, NodeTypes
<1>5. CASE BlockHeaders(p)
    <2>1. active # NoNode
        BY <1>2, <1>5 DEF BlockHeaders, Arrives
    <2>2. QED
        BY <1>5, <2>1, ActiveFrame DEF BlockHeaders
<1>6. CASE MerkleBlock(p)
    <2>1. /\ nodes' = nodes /\ active' = active /\ timers' = timers /\ mainQ' = mainQ
          /\ txQ' = txQ /\ inbox' = Read(p)
        BY <1>6 DEF MerkleBlock
    <2>2. \/ lastDlHeight' = lastDlHeight /\ dbQ' = dbQ /\ fault' = fault
          \/ /\ lastDlHeight[p] \in {-1} \cup 1..MaxHeight
             /\ RequestTransactions(lastDlHeight[p], highest', dbQ)
        BY <1>6, MerkleBlockTypes
    <2>3. CASE active = NoNode
        <3>1. lastDlHeight' = lastDlHeight /\ dbQ' = dbQ /\ fault' = fault
            BY <1>1, <2>2, <2>3
        <3>2. AllNamed' = AllNamed
            BY <2>1, <3>1 DEF AllNamed
        <3>3. \A x \in nodes : inbox'[x] = inbox[x] \/ NoHeaders(inbox'[x])
            BY <1>2, <1>3, <1>4, <2>1, <2>3
        <3>4. QED
            BY <2>1, <3>1, <3>2, <3>3, ActiveFrame
    <2>4. CASE active # NoNode
        <3>1. active \in nodes
            BY <2>4 DEF ActiveInv
        <3>2. fault' = fault
            BY <1>0, <2>2, <3>1, RequestTransactionsSafe
        <3>3. QED
            BY <2>1, <2>4, <3>2, ActiveFrame
    <2>5. QED
        BY <2>3, <2>4
<1>7. CASE Tx(p)
    <2>1. active = NoNode => txQ' = txQ
        BY <1>0, <1>7 DEF Tx
    <2>2. active = NoNode => AllNamed' = AllNamed
        BY <1>7, <2>1 DEF AllNamed, Tx
    <2>3. active = NoNode => \A x \in nodes : inbox'[x] = inbox[x] \/ NoHeaders(inbox'[x])
        BY <1>2, <1>3, <1>4, <1>7 DEF Tx
    <2>4. QED
        BY <1>7, <2>2, <2>3, ActiveFrame DEF Tx, nodeVars
<1>8. CASE Inventory(p)
    <2>1. /\ \A x \in Ptrs \ {p} : inbox'[x] = inbox[x]
          /\ \/ inbox'[p] = Read(p)[p]
             \/ \E h \in 1..tip : inbox'[p] = Append(Read(p)[p], Blocks(h, h))
        BY <1>8, InventoryTypes
    <2>2. ASSUME NEW h, NoHeaders(Read(p)[p]) PROVE NoHeaders(Append(Read(p)[p], Blocks(h, h)))
        <3>1. Blocks(h, h).kind = "blocks"
            BY DEF Blocks
        <3>2. Read(p)[p] \in Seq(Deliveries(tip))
            BY <1>0, ReadTypes
        <3>3. QED
            BY <2>2, <3>1, <3>2 DEF NoHeaders
    <2>3. active = NoNode => NoHeaders(inbox'[p])
        BY <1>2, <2>1, <2>2
    <2>4. active = NoNode => \A x \in nodes : inbox'[x] = inbox[x] \/ NoHeaders(inbox'[x])
        BY <1>4, <2>1, <2>3
    <2>5. AllNamed' = AllNamed
        BY <1>8 DEF Inventory, AllNamed
    <2>6. QED
        BY <1>8, <2>4, <2>5, ActiveFrame DEF Inventory, nodeVars
<1>9. QED
    BY <1>5, <1>6, <1>7, <1>8 DEF ReadStep

\* The handlers of headers on the main thread: the node a handler finds valid may
\* not be the active one, but there is an active one.
LEMMA HeadersMainActive ==
    ASSUME TypeInv, ActiveInv, BlockHeadersWorkMain
    PROVE  ActiveInv'
<1> DEFINE w == Head(mainQ)
<1>1. w \in MainWork(tip) /\ w.op = "blockHeadersWorkMain" /\ tip \in Nat /\ mainQ # <<>>
    BY HeadTypes DEF BlockHeadersWorkMain, Queued
<1>2. w.count \in Nat /\ w.added \in Nat /\ w.node \in Named(mainQ)
        /\ Named(Tail(mainQ)) \subseteq Named(mainQ)
    BY <1>1, Records, HeadNamed
<1>3. mainQ' = Tail(mainQ) /\ timers' = timers /\ txQ' = txQ /\ fault \in BOOLEAN
    BY DEF BlockHeadersWorkMain, TypeInv, FieldTypes
<1>4. CASE ~NodeStillValid(w.node)
    <2>1. /\ nodes' = nodes /\ active' = active /\ lastDlHeight' = lastDlHeight
          /\ inbox' = inbox /\ dbQ' = dbQ /\ fault' = fault
        BY <1>4 DEF BlockHeadersWorkMain, nodeVars
    <2>2. AllNamed' \subseteq AllNamed
        BY <1>2, <1>3, <2>1 DEF AllNamed
    <2>3. QED
        BY <1>3, <2>1, <2>2, ActiveFrame
<1>5. CASE NodeStillValid(w.node)
    <2>1. w.node \in nodes /\ active # NoNode /\ active \in nodes
        BY <1>2, <1>5, ValidWork DEF NodeStillValid, AllNamed
    <2>2. CASE w.count = 1
        <3>1. nodes' = nodes /\ active' = active /\ fault' = (fault \/ w.node \notin nodes)
            BY <1>5, <2>2 DEF BlockHeadersWorkMain
        <3>2. fault' = fault
            BY <1>3, <2>1, <3>1
        <3>3. QED
            BY <1>3, <2>1, <3>1, <3>2, ActiveFrame
    <2>3. CASE w.count # 1 /\ FinalHeaders(w)
        <3>1. RequestTransactions(dlHeight, highest, dbQ) /\ nodes' = nodes /\ active' = active
            BY <1>5, <2>3 DEF BlockHeadersWorkMain
        <3>2. fault' = fault
            BY <1>3, <2>1, <3>1, RequestTransactionsSafe
        <3>3. QED
            BY <1>3, <2>1, <3>1, <3>2, ActiveFrame
    <2>4. CASE w.count # 1 /\ ~FinalHeaders(w)
        <3>1. MoreHeaders(w) /\ fault' = (fault \/ w.node \notin nodes)
            BY <1>5, <2>4 DEF BlockHeadersWorkMain
        <3>2. /\ active' # active => active' \in nodes'
              /\ active' = active => nodes' = nodes
              /\ nodes' \subseteq nodes
            BY <1>2, <2>1, <3>1, MoreHeadersTypes
        <3>3. active' \in nodes' /\ active' # NoNode
            BY <2>1, <3>2, SizesAssumption DEF TypeInv, NodeTypes
        <3>4. ~fault'
            BY <2>1, <3>1 DEF ActiveInv
        <3>5. QED
            BY <3>3, <3>4 DEF ActiveInv
    <2>5. QED
        BY <2>2, <2>3, <2>4
<1>6. QED
    BY <1>4, <1>5

\* The other handlers on the main thread.
LEMMA MainActive ==
    ASSUME TypeInv, ActiveInv,
           \/ RequestHeadersWorkerMain \/ RequestTransactionsWorkerMain
           \/ TxWorkerMain \/ BloomFilterWorkerMain
    PROVE  ActiveInv'
<1> DEFINE w == Head(mainQ)
<1>1. /\ mainQ # <<>> /\ mainQ' = Tail(mainQ) /\ timers' = timers /\ txQ' = txQ
      /\ nodes' = nodes /\ active' = active
    BY DEF RequestHeadersWorkerMain, RequestTransactionsWorkerMain, TxWorkerMain,
           BloomFilterWorkerMain, Queued
<1>2. Named(Tail(mainQ)) \subseteq Named(mainQ) /\ fault \in BOOLEAN
    BY <1>1, HeadNamed DEF TypeInv, FieldTypes
<1>3. CASE BloomFilterWorkerMain
    <2>1. AllNamed' \subseteq AllNamed
        BY <1>1, <1>2, <1>3 DEF AllNamed, BloomFilterWorkerMain
    <2>2. QED
        BY <1>1, <1>3, <2>1, ActiveFrame DEF BloomFilterWorkerMain, nodeVars
<1>4. CASE RequestHeadersWorkerMain \/ RequestTransactionsWorkerMain \/ TxWorkerMain
    <2>1. w.node \in Named(mainQ)
        BY <1>1, <1>4, HeadNamed
        DEF RequestHeadersWorkerMain, RequestTransactionsWorkerMain, TxWorkerMain, Queued
    <2>2. CASE ~NodeStillValid(w.node)
        <3>1. lastDlHeight' = lastDlHeight /\ inbox' = inbox /\ dbQ' = dbQ /\ fault' = fault
            BY <1>4, <2>2
            DEF RequestHeadersWorkerMain, RequestTransactionsWorkerMain, TxWorkerMain, nodeVars
        <3>2. AllNamed' \subseteq AllNamed
            BY <1>1, <1>2, <3>1 DEF AllNamed
        <3>3. QED
            BY <1>1, <3>1, <3>2, ActiveFrame
    <2>3. CASE NodeStillValid(w.node)
        <3>1. w.node \in nodes /\ active # NoNode /\ active \in nodes
            BY <2>1, <2>3, ValidWork DEF NodeStillValid, AllNamed
        <3>2. CASE RequestHeadersWorkerMain \/ RequestTransactionsWorkerMain
            <4>1. fault' = (fault \/ w.node \notin nodes)
                BY <2>3, <3>2 DEF RequestHeadersWorkerMain, RequestTransactionsWorkerMain
            <4>2. fault' = fault
                BY <1>2, <3>1, <4>1
            <4>3. QED
                BY <1>1, <3>1, <4>2, ActiveFrame
        <3>3. CASE TxWorkerMain
            <4>1. fault' = fault \/ RequestTransactions(dlHeight', highest, dbQ)
                BY <3>3, TxWorkerMainTypes
            <4>2. fault' = fault
                BY <1>2, <3>1, <4>1, RequestTransactionsSafe
            <4>3. QED
                BY <1>1, <3>1, <4>2, ActiveFrame
        <3>4. QED
            BY <1>4, <3>2, <3>3
    <2>4. QED
        BY <2>2, <2>3
<1>5. QED
    BY <1>3, <1>4

\* The database thread passes an address on as it got it.
LEMMA DatabaseActive ==
    ASSUME TypeInv, ActiveInv, DatabaseStep
    PROVE  ActiveInv'
<1> DEFINE w == Head(dbQ)
<1>1. /\ dbQ # <<>> /\ dbQ' = Tail(dbQ) /\ timers' = timers /\ txQ' = txQ
      /\ nodes' = nodes /\ active' = active /\ fault' = fault
      /\ lastDlHeight' = lastDlHeight /\ inbox' = inbox
    BY DEF DatabaseStep, BlockHeadersWork, RequestHeadersWorker, RequestTransactionsWorker,
           TxWorkerAddTransaction, Queued, nodeVars
<1>2. Named(Tail(dbQ)) \subseteq Named(dbQ) /\ mainQ \in Seq(MainWork(tip))
    BY <1>1, HeadNamed DEF TypeInv, Queues
<1>3. Named(mainQ') \subseteq Named(mainQ) \cup Named(dbQ)
    <2>1. CASE TxWorkerAddTransaction
        BY <2>1 DEF TxWorkerAddTransaction
    <2>2. CASE BlockHeadersWork \/ RequestHeadersWorker \/ RequestTransactionsWorker
        <3>1. w.node \in Named(dbQ)
            BY <1>1, <2>2, HeadNamed
            DEF BlockHeadersWork, RequestHeadersWorker, RequestTransactionsWorker, Queued
        <3>2. mainQ' = mainQ \/ \E x : mainQ' = Append(mainQ, x) /\ x.node = w.node
            <4>1. CASE BlockHeadersWork
                <5>1. PICK x : mainQ' = Append(mainQ, x)
                                 /\ \E c, a : x = HeadersDone(w.node, c, a)
                    BY <4>1 DEF BlockHeadersWork
                <5>2. QED
                    BY <5>1 DEF HeadersDone
            <4>2. CASE RequestHeadersWorker
                BY <4>2 DEF RequestHeadersWorker, HeadersRequestDone
            <4>3. CASE RequestTransactionsWorker
                <5>1. mainQ' = mainQ \/ \E x : /\ mainQ' = Append(mainQ, x)
                                               /\ \E f, l : x = TransactionsDone(w.node, f, l)
                    BY <4>3 DEF RequestTransactionsWorker
                <5>2. QED
                    BY <5>1 DEF TransactionsDone
            <4>4. QED
                BY <2>2, <4>1, <4>2, <4>3
        <3>3. QED
            BY <1>2, <3>1, <3>2, NamedAppend
    <2>3. QED
        BY <2>1, <2>2 DEF DatabaseStep
<1>4. AllNamed' \subseteq AllNamed
    BY <1>1, <1>2, <1>3 DEF AllNamed
<1>5. QED
    BY <1>1, <1>4, ActiveFrame

\* txWorker uses the node it finds valid.
LEMMA TxWorkerActive ==
    ASSUME TypeInv, ActiveInv, TxWorker
    PROVE  ActiveInv'
<1> DEFINE w == Head(txQ)
<1>1. /\ txQ # <<>> /\ txQ' = Tail(txQ) /\ timers' = timers
      /\ nodes' = nodes /\ active' = active /\ lastDlHeight' = lastDlHeight /\ inbox' = inbox
    BY DEF TxWorker, nodeVars
<1>2. Named(Tail(txQ)) \subseteq Named(txQ) /\ w.node \in Named(txQ) /\ fault \in BOOLEAN
    BY <1>1, HeadNamed DEF TypeInv, FieldTypes
<1>3. CASE ~NodeStillValid(w.node)
    <2>1. dbQ' = dbQ /\ mainQ' = mainQ /\ fault' = fault
        BY <1>3 DEF TxWorker
    <2>2. AllNamed' \subseteq AllNamed
        BY <1>1, <1>2, <2>1 DEF AllNamed
    <2>3. QED
        BY <1>1, <2>1, <2>2, ActiveFrame
<1>4. CASE NodeStillValid(w.node)
    <2>1. w.node \in nodes /\ active # NoNode
        BY <1>2, <1>4, ValidWork DEF NodeStillValid, AllNamed
    <2>2. fault' = (fault \/ w.node \notin nodes)
        BY <1>4 DEF TxWorker
    <2>3. fault' = fault
        BY <1>2, <2>1, <2>2
    <2>4. QED
        BY <1>1, <2>1, <2>3, ActiveFrame
<1>5. QED
    BY <1>3, <1>4

\* Nodes that are put where no queued work refers to, and asked nothing yet.
LEMMA NewUnasked ==
    ASSUME TypeInv, AddressesFresh, NEW kept, NEW new \in Room(kept), NewNodes(new),
           mainQ' = mainQ, txQ' = txQ,
           Named(dbQ') \subseteq Named(dbQ) \cup {NoNode},
           \A p \in new : inbox'[p] = <<>>
    PROVE  \A p \in new : Unasked(p)'
<1> SUFFICES ASSUME NEW p \in new PROVE Unasked(p)'
    OBVIOUS
<1>1. p \in Ptrs /\ p # NoNode /\ p \notin AllNamed
    BY SizesAssumption DEF Room, AddressesFresh, AllNamed
<1>2. p \notin Named(mainQ') /\ p \notin Named(dbQ') /\ p \notin Named(txQ')
    BY <1>1 DEF AllNamed
<1>3. lastDlHeight'[p] = 0
    BY <1>1, NewNodesTypes
<1>4. \A i \in DOMAIN inbox'[p] : inbox'[p][i].kind # "headers"
    <2>1. inbox'[p] = <<>>
        OBVIOUS
    <2>2. QED
        BY <2>1
<1>5. QED
    BY <1>2, <1>3, <1>4 DEF Unasked

\* ConnectNodes finds no active node and leaves none; all nodes are new.
LEMMA ConnectActive ==
    ASSUME TypeInv, ActiveInv, AddressesFresh, ConnectNodes
    PROVE  ActiveInv'
<1>1. /\ nodes' \in Room({}) /\ inbox' = Emptied(nodes') /\ NewNodes(nodes')
    BY ConnectNodesTypes
<1>2. /\ active' = active /\ fault' = fault /\ mainQ' = mainQ /\ dbQ' = dbQ /\ txQ' = txQ
      /\ nodes = {} /\ timers' = Posted
    BY DEF ConnectNodes
<1>3. active' = NoNode /\ ~fault' /\ nodes' # {} /\ nodes' \subseteq Ptrs
    BY <1>1, <1>2 DEF ActiveInv, Room
<1>4. "setActiveNodeIfNone" \in timers'
    BY <1>2 DEF Posted
<1>5. \A p \in nodes' : inbox'[p] = <<>>
    BY <1>1, <1>3 DEF Emptied
<1>6. \A p \in nodes' : Unasked(p)'
    BY <1>1, <1>2, <1>5, NewUnasked
<1>7. QED
    BY <1>3, <1>4, <1>6 DEF ActiveInv

\* A checkup is only made while there is an active node.  It leaves one of the
\* nodes it keeps active; if it keeps none, all nodes are new.
LEMMA CheckupActive ==
    ASSUME TypeInv, ActiveInv, AddressesFresh, NEW late \in BOOLEAN, NodeCheckup(late)
    PROVE  ActiveInv'
<1>1. active # NoNode /\ active \in nodes /\ ~fault
    BY DEF NodeCheckup, ActiveInv
<1>2. PICK slow \in SUBSET connected : Checkup(late, slow)
    BY DEF NodeCheckup
<1>3. PICK rest \in SUBSET connected : \E new \in SUBSET Ptrs : CheckedUp(rest, new)
    BY <1>2, CheckupShape
<1>4. PICK new \in SUBSET Ptrs : CheckedUp(rest, new)
    BY <1>3
<1>5. new \in Room(rest) /\ nodes' = rest \cup new /\ nodes' # {}
    BY <1>1, <1>4 DEF CheckedUp, Room
<1>6. mainQ' = mainQ /\ txQ' = txQ /\ timers' = timers \cup Posted /\ ~fault'
    BY <1>1, <1>2 DEF Checkup
<1>7. "setActiveNodeIfNone" \in timers'
    BY <1>6 DEF Posted
<1>8. active' \in nodes' \cup {NoNode}
    BY <1>4, <1>5 DEF CheckedUp
<1>9. ASSUME active' = NoNode PROVE \A p \in nodes' : Unasked(p)'
    <2>1. rest = {} /\ nodes' = new
        BY <1>4, <1>5, <1>9 DEF CheckedUp
    <2>2. \A p \in new : inbox'[p] = <<>>
        BY <1>4, <2>1 DEF CheckedUp, Emptied
    <2>3. Named(dbQ') \subseteq Named(dbQ) \cup {NoNode}
        <3>1. dbQ \in Seq(DbWork(tip)) /\ NoNode \in Addresses
            BY DEF TypeInv, Queues, Addresses
        <3>2. RequestHeaders(dbQ, NoNode) \in Seq(DbWork(tip))
            BY <3>1, RequestHeadersTypes
        <3>3. dbQ' \in {dbQ, RequestHeaders(dbQ, NoNode),
                        RequestHeaders(RequestHeaders(dbQ, NoNode), NoNode)}
            BY <1>2, <1>9, CheckupShape
        <3>4. QED
            BY <3>1, <3>2, <3>3, RequestNamed
    <2>4. NewNodes(new)
        BY <1>4 DEF CheckedUp
    <2>5. QED
        BY <1>5, <1>6, <2>1, <2>2, <2>3, <2>4, NewUnasked
<1>10. QED
    BY <1>5, <1>6, <1>7, <1>8, <1>9 DEF ActiveInv

\* The timers' other functions, and what happens from outside.
LEMMA OutsideActive ==
    ASSUME TypeInv, ActiveInv,
           \/ SetActiveNodeIfNone \/ BloomFilterCheckup \/ AppDidBecomeActive
           \/ NewBlock \/ NewKey \/ Restart \/ \E p \in Ptrs : Disconnected(p)
    PROVE  ActiveInv'
<1>0. /\ dbQ \in Seq(DbWork(tip)) /\ mainQ \in Seq(MainWork(tip)) /\ nodes \subseteq Ptrs
      /\ NoNode \notin Ptrs /\ inbox \in [Ptrs -> Seq(Deliveries(tip))]
    BY SizesAssumption DEF TypeInv, Queues, NodeTypes
<1>a. active = NoNode => \A p \in nodes : NoHeaders(inbox[p])
    BY DEF ActiveInv, Unasked, NoHeaders
<1>1. CASE SetActiveNodeIfNone
    <2>1. nodes # {} /\ nodes' = nodes /\ fault' = fault
        BY <1>1 DEF SetActiveNodeIfNone, ActiveInv
    <2>2. active' \in nodes /\ active' # NoNode
        <3>1. CASE active # NoNode
            BY <1>1, <3>1 DEF SetActiveNodeIfNone, ActiveInv
        <3>2. CASE active = NoNode
            <4>1. active' \in Candidates(nodes, connected)
                BY <1>1, <3>2 DEF SetActiveNodeIfNone
            <4>2. QED
                BY <1>0, <2>1, <4>1 DEF Candidates
        <3>3. QED
            BY <3>1, <3>2
    <2>3. QED
        BY <2>1, <2>2 DEF ActiveInv
<1>2. CASE BloomFilterCheckup
    <2>1. active # NoNode /\ active \in nodes
        BY <1>2 DEF BloomFilterCheckup, ActiveInv
    <2>2. nodes' = nodes /\ active' = active /\ fault' = fault
        BY <1>2 DEF BloomFilterCheckup
    <2>3. QED
        BY <2>1, <2>2 DEF ActiveInv
<1>3. CASE AppDidBecomeActive
    <2>1. active = NoNode => Named(dbQ') \subseteq Named(dbQ) \cup {NoNode}
        BY <1>0, <1>3, RequestNamed DEF AppDidBecomeActive
    <2>2. active = NoNode => AllNamed' \subseteq AllNamed \cup {NoNode}
        BY <1>3, <2>1 DEF AppDidBecomeActive, AllNamed
    <2>3. QED
        BY <1>3, <2>2, ActiveFrame DEF AppDidBecomeActive, nodeVars
<1>4. CASE NewBlock
    <2>1. ASSUME active = NoNode, NEW p \in nodes PROVE NoHeaders(inbox'[p])
        <3>1. NoHeaders(inbox[p]) /\ inbox[p] \in Seq(Deliveries(tip)) /\ p \in Ptrs
            BY <1>0, <1>a, <2>1
        <3>2. Inv(tip + 1).kind = "inv"
            BY DEF Inv
        <3>3. NoHeaders(Append(inbox[p], Inv(tip + 1)))
            BY <3>1, <3>2 DEF NoHeaders
        <3>4. inbox'[p] \in {inbox[p], Append(inbox[p], Inv(tip + 1))}
            BY <1>4, <3>1 DEF NewBlock
        <3>5. QED
            BY <3>1, <3>3, <3>4
    <2>2. AllNamed' = AllNamed
        BY <1>4 DEF NewBlock, AllNamed
    <2>3. QED
        BY <1>4, <2>1, <2>2, ActiveFrame DEF NewBlock, nodeVars
<1>5. CASE NewKey
    <2>1. AllNamed' = AllNamed
        BY <1>5 DEF NewKey, AllNamed
    <2>2. QED
        BY <1>5, <2>1, ActiveFrame DEF NewKey, nodeVars
<1>6. CASE Restart
    BY <1>6 DEF Restart, ActiveInv
<1>7. ASSUME NEW p \in Ptrs, Disconnected(p) PROVE ActiveInv'
    <2>1. \A x \in nodes : inbox'[x] = inbox[x] \/ inbox'[x] = <<>>
        BY <1>0, <1>7 DEF Disconnected, Emptied
    <2>2. NoHeaders(<<>>)
        BY DEF NoHeaders
    <2>3. AllNamed' = AllNamed
        BY <1>7 DEF Disconnected, AllNamed
    <2>4. QED
        BY <1>7, <2>1, <2>2, <2>3, ActiveFrame DEF Disconnected, nodeVars
<1>8. QED
    BY <1>1, <1>2, <1>3, <1>4, <1>5, <1>6, <1>7

\* At first there are no nodes.
LEMMA ActiveInit == Init => ActiveInv
BY DEF Init, ActiveInv

\* No step uses a freed node, or leaves one to be used.
LEMMA ActiveStep ==
    ASSUME AddressesFresh, TypeInv, ActiveInv, [Next]_vars
    PROVE  ActiveInv'
<1>1. CASE UNCHANGED vars
    <2>1. AllNamed' = AllNamed
        BY <1>1 DEF vars, AllNamed
    <2>2. QED
        BY <1>1, <2>1, ActiveFrame DEF vars, nodeVars
<1>2. CASE MainStep
    BY <1>2, HeadersMainActive, MainActive DEF MainStep
<1>3. CASE DatabaseStep \/ TxWorker
    BY <1>3, DatabaseActive, TxWorkerActive
<1>4. ASSUME NEW p \in Ptrs, ReadStep(p) \/ Disconnected(p) PROVE ActiveInv'
    BY <1>4, ReadActive, OutsideActive
<1>5. CASE ConnectNodes \/ SetActiveNodeIfNone \/ BloomFilterCheckup
    BY <1>5, ConnectActive, OutsideActive
<1>6. ASSUME NEW late \in BOOLEAN, NodeCheckup(late) PROVE ActiveInv'
    BY <1>6, CheckupActive
<1>7. CASE DisconnectAll
    <2>1. spent["disconnect"] < Limit["disconnect"]
        BY <1>7 DEF DisconnectAll, Spend
    <2>2. spent["disconnect"] \in Nat /\ Limit["disconnect"] = 0
        BY DEF TypeInv, Queues, Events, AddressesFresh
    <2>3. QED
        BY <2>1, <2>2
<1>8. CASE AppDidBecomeActive \/ NewBlock \/ NewKey \/ Restart
    BY <1>8, OutsideActive
<1>9. QED
    BY <1>1, <1>2, <1>3, <1>4, <1>5, <1>6, <1>7, <1>8 DEF Next

\* In every behaviour in which no address is used again while queued work refers
\* to it, and NodeManagerDisconnectAll is not called: no handler uses a node that
\* has been freed, and none uses the active node while there is none, however
\* many connections fail and whenever nodes are replaced, the filter changes or
\* the program is started again.
THEOREM FreedNodesUnused ==
    ASSUME AddressesFresh
    PROVE  Spec => []NoFreedNodeUsed
<1>1. TypeInv /\ [Next]_vars => TypeInv'
    BY TypeStep
<1>2. TypeInv /\ ActiveInv /\ [Next]_vars => ActiveInv'
    BY ActiveStep
<1>3. ActiveInv => NoFreedNodeUsed
    BY DEF ActiveInv, NoFreedNodeUsed
<1>4. QED
    BY <1>1, <1>2, <1>3, TypeInit, ActiveInit, PTL DEF Spec

-----------------------------------------------------------------------------
(* Transactions are not lost *)

\* A step that leaves the active node as it is, with its connection, once there
\* is one, and removes no transaction from the database.
Undisturbed ==
    /\ active # NoNode =>
        /\ active' = active
        /\ active \in nodes'
        /\ active \in connected => active \in connected'
    /\ stored \subseteq stored'

\* What is on a queue, in whatever order.
Items(q) == {q[i] : i \in DOMAIN q}

\* A transaction is stored or on its way.
Safe(t) == t \in stored \/ UnderWay(t)

\* The transactions of the blocks up to h are.
CoveredTo(h) == \A t \in Sought : t[1] <= h => Safe(t)

\* Every batch starts, every block ends and every message continues where the
\* transactions before are safe.  Only the active node is asked for blocks, and
\* without one nothing is under way.
GoodMain(x) ==
    /\ x.op = "requestTransactionsWorkerMain" =>
         x.node = active /\ active # NoNode /\ \A t \in Sought : t[1] < x.from => Safe(t)
    /\ x.op = "txWorkerMain" => \A t \in Sought : t[1] <= x.height => Safe(t)

GoodDb(x) ==
    /\ x.op = "txWorkerAddTransaction" => active # NoNode
    /\ x.op = "requestTransactionsWorker" => x.node = active /\ (active # NoNode \/ fault)

GoodTx(x) == x.node = active /\ active # NoNode

GoodMessage(p, m) ==
    \/ m.kind = "headers"
    \/ /\ m.kind = "blocks" /\ p = active
       /\ \A t \in Sought : t[1] < m.from => Safe(t)
       /\ \A t \in Sought : t[1] = m.from /\ t[2] < m.tx => Safe(t)

DownloadInv ==
    /\ active \in nodes \cup {NoNode}
    /\ CoveredTo(dlHeight)
    /\ \A p \in Ptrs : CoveredTo(lastMerkle[p])
    /\ \A x \in Items(mainQ) : GoodMain(x)
    /\ \A x \in Items(dbQ) : GoodDb(x)
    /\ \A x \in Items(txQ) : GoodTx(x)
    /\ \A p \in Ptrs : \A m \in Items(inbox[p]) : GoodMessage(p, m)

\* A message that brings t.
Brings(m, t) ==
    /\ m.kind = "blocks"
    /\ t[1] \in m.from + 1 .. m.to \/ (t[1] = m.from /\ t[2] >= m.tx)

\* What is on a queue after an item is added or taken off, and on two queues
\* after each other.
LEMMA ItemsOf ==
    ASSUME NEW S, NEW q \in Seq(S)
    PROVE  /\ \A x : Items(Append(q, x)) = Items(q) \cup {x}
           /\ q # <<>> => Items(q) = {Head(q)} \cup Items(Tail(q))
           /\ Items(<<>>) = {}
           /\ Items(q) \subseteq S
<1>1. ASSUME NEW x PROVE Items(Append(q, x)) = Items(q) \cup {x}
    <2>1. ASSUME NEW y \in Items(Append(q, x)) PROVE y \in Items(q) \cup {x}
        BY <2>1 DEF Items
    <2>2. ASSUME NEW y \in Items(q) PROVE y \in Items(Append(q, x))
        <3>1. PICK i \in DOMAIN q : y = q[i]
            BY <2>2 DEF Items
        <3>2. i \in DOMAIN Append(q, x) /\ Append(q, x)[i] = y
            BY <3>1
        <3>3. QED
            BY <3>2 DEF Items
    <2>3. x \in Items(Append(q, x))
        <3>1. Len(q) + 1 \in DOMAIN Append(q, x) /\ Append(q, x)[Len(q) + 1] = x
            OBVIOUS
        <3>2. QED
            BY <3>1 DEF Items
    <2>4. QED
        BY <2>1, <2>2, <2>3
<1>2. ASSUME q # <<>> PROVE Items(q) = {Head(q)} \cup Items(Tail(q))
    <2>1. ASSUME NEW y \in Items(Tail(q)) PROVE y \in Items(q)
        <3>1. PICK i \in DOMAIN Tail(q) : y = Tail(q)[i]
            BY <2>1 DEF Items
        <3>2. i + 1 \in DOMAIN q /\ q[i + 1] = y
            BY <1>2, <3>1
        <3>3. QED
            BY <3>2 DEF Items
    <2>2. Head(q) \in Items(q)
        <3>1. 1 \in DOMAIN q /\ Head(q) = q[1]
            BY <1>2
        <3>2. QED
            BY <3>1 DEF Items
    <2>3. ASSUME NEW y \in Items(q) PROVE y = Head(q) \/ y \in Items(Tail(q))
        <3>1. PICK i \in DOMAIN q : y = q[i]
            BY <2>3 DEF Items
        <3>2. CASE i = 1
            BY <3>1, <3>2
        <3>3. CASE i # 1
            <4>1. i - 1 \in DOMAIN Tail(q) /\ Tail(q)[i - 1] = y
                BY <1>2, <3>1, <3>3
            <4>2. QED
                BY <4>1 DEF Items
        <3>4. QED
            BY <3>2, <3>3
    <2>4. QED
        BY <2>1, <2>2, <2>3
<1>3. Items(<<>>) = {} /\ Items(q) \subseteq S
    BY DEF Items
<1>4. QED
    BY <1>1, <1>2, <1>3

\* What UnderWay says of the queues, in whatever order.
LEMMA UnderWayItems ==
    ASSUME NEW t
    PROVE  UnderWay(t) <=>
             \/ AddTransaction(t) \in Items(dbQ)
             \/ \E x \in Items(txQ) : x.tx = t /\ x.node \in nodes
             \/ active \in nodes /\ \E m \in Items(inbox[active]) : Brings(m, t)
<1>1. (\E i \in DOMAIN dbQ : dbQ[i] = AddTransaction(t)) <=> AddTransaction(t) \in Items(dbQ)
    BY DEF Items
<1>2. (\E i \in DOMAIN txQ : txQ[i].tx = t /\ txQ[i].node \in nodes)
        <=> \E x \in Items(txQ) : x.tx = t /\ x.node \in nodes
    BY DEF Items
<1>3. (\E i \in DOMAIN inbox[active] : Brings(inbox[active][i], t))
        <=> \E m \in Items(inbox[active]) : Brings(m, t)
    BY DEF Items
<1>4. QED
    BY <1>1, <1>2, <1>3 DEF UnderWay, Brings

\* A transaction that is looked for is one of a block's matches.
LEMMA SoughtTypes ==
    ASSUME NEW t \in Sought
    PROVE  /\ t \in Wanted /\ t = <<t[1], t[2]>>
           /\ t[1] \in Heights /\ t[2] \in 1..Matches[t[1]]
           /\ Matches[t[1]] \in Nat /\ t[1] > WalletHeight - Margin
<1>1. t \in Wanted /\ t[1] > WalletHeight - Margin
    BY DEF Sought
<1>2. t \in Heights \X Nat /\ t[2] \in 1..Matches[t[1]]
    BY <1>1, ChainAssumption
<1>3. t[1] \in Heights /\ t = <<t[1], t[2]>>
    BY <1>2
<1>4. Matches[t[1]] \in Nat
    BY <1>3, ChainAssumption
<1>5. QED
    BY <1>1, <1>2, <1>3, <1>4

\* A step after which what was safe is safe, and that does not replace an active
\* node.
Keeps ==
    /\ ~fault
    /\ active # NoNode => active' = active
    /\ \A t \in Sought : Safe(t) => Safe(t)'

\* What was good on the queues stays so.
LEMMA GoodStays ==
    ASSUME Keeps
    PROVE  /\ \A x : GoodMain(x) => GoodMain(x)'
           /\ \A x : GoodDb(x) => GoodDb(x)'
           /\ \A x : GoodTx(x) => GoodTx(x)'
           /\ \A p \in Ptrs : \A m : GoodMessage(p, m) => GoodMessage(p, m)'
           /\ \A h : CoveredTo(h) => \A t \in Sought : t[1] <= h => Safe(t)'
<1>0. NoNode \notin Ptrs
    BY SizesAssumption
<1>1. ASSUME NEW x, GoodMain(x) PROVE GoodMain(x)'
    BY <1>1 DEF Keeps, GoodMain
<1>2. ASSUME NEW x, GoodDb(x) PROVE GoodDb(x)'
    BY <1>2 DEF Keeps, GoodDb
<1>3. ASSUME NEW x, GoodTx(x) PROVE GoodTx(x)'
    BY <1>3 DEF Keeps, GoodTx
<1>4. ASSUME NEW p \in Ptrs, NEW m, GoodMessage(p, m) PROVE GoodMessage(p, m)'
    BY <1>0, <1>4 DEF Keeps, GoodMessage
<1>5. ASSUME NEW h, CoveredTo(h) PROVE \A t \in Sought : t[1] <= h => Safe(t)'
    BY <1>5 DEF Keeps, CoveredTo
<1>6. QED
    BY <1>1, <1>2, <1>3, <1>4, <1>5

\* The invariant is kept if all that is new is good.
LEMMA DownloadFrame ==
    ASSUME DownloadInv, Keeps, active' \in nodes' \cup {NoNode},
           \A x \in Items(mainQ') : x \in Items(mainQ) \/ GoodMain(x)',
           \A x \in Items(dbQ') : x \in Items(dbQ) \/ GoodDb(x)',
           \A x \in Items(txQ') : x \in Items(txQ) \/ GoodTx(x)',
           \A p \in Ptrs : \A m \in Items(inbox'[p]) :
                m \in Items(inbox[p]) \/ GoodMessage(p, m)',
           dlHeight' = dlHeight \/ \A t \in Sought : t[1] <= dlHeight' => Safe(t)',
           \A p \in Ptrs : \/ lastMerkle'[p] = lastMerkle[p]
                           \/ \A t \in Sought : t[1] <= lastMerkle'[p] => Safe(t)'
    PROVE  DownloadInv'
<1>1. /\ \A x \in Items(mainQ') : GoodMain(x)'
      /\ \A x \in Items(dbQ') : GoodDb(x)'
      /\ \A x \in Items(txQ') : GoodTx(x)'
    BY GoodStays DEF DownloadInv
<1>2. \A p \in Ptrs : \A m \in Items(inbox'[p]) : GoodMessage(p, m)'
    BY GoodStays DEF DownloadInv
<1>3. \A t \in Sought : t[1] <= dlHeight' => Safe(t)'
    <2>1. \A t \in Sought : t[1] <= dlHeight => Safe(t)'
        BY GoodStays DEF DownloadInv
    <2>2. QED
        BY <2>1
<1>4. ASSUME NEW p \in Ptrs PROVE \A t \in Sought : t[1] <= lastMerkle'[p] => Safe(t)'
    <2>1. \A t \in Sought : t[1] <= lastMerkle[p] => Safe(t)'
        BY GoodStays DEF DownloadInv
    <2>2. QED
        BY <2>1
<1>5. QED
    BY <1>1, <1>2, <1>3, <1>4 DEF DownloadInv, CoveredTo

\* A transaction stays safe if what it is in stays, or hands it on.
LEMMA SafeStays ==
    ASSUME TypeInv, DownloadInv, Undisturbed, NEW t \in Sought, Safe(t),
           active # NoNode =>
             /\ AddTransaction(t) \in Items(dbQ) => AddTransaction(t) \in Items(dbQ') \/ t \in stored'
             /\ \A x \in Items(txQ) : x.tx = t =>
                    x \in Items(txQ') \/ AddTransaction(t) \in Items(dbQ')
             /\ \A m \in Items(inbox[active]) : Brings(m, t) =>
                    \/ \E l \in Items(inbox'[active]) : Brings(l, t)
                    \/ [node |-> active, tx |-> t] \in Items(txQ')
    PROVE  Safe(t)'
<1>1. CASE t \in stored
    BY <1>1 DEF Undisturbed, Safe
<1>2. CASE UnderWay(t)
    <2>1. active # NoNode
        <3>1. ASSUME AddTransaction(t) \in Items(dbQ) PROVE active # NoNode
            <4>1. GoodDb(AddTransaction(t))
                BY <3>1 DEF DownloadInv
            <4>2. QED
                BY <4>1 DEF GoodDb, AddTransaction
        <3>2. Items(txQ) # {} => active # NoNode
            BY DEF DownloadInv, GoodTx
        <3>3. active \in nodes => active # NoNode
            BY SizesAssumption DEF TypeInv, NodeTypes
        <3>4. QED
            BY <1>2, <3>1, <3>2, <3>3, UnderWayItems
    <2>2. active' = active /\ active \in nodes'
        BY <2>1 DEF Undisturbed
    <2>3. CASE AddTransaction(t) \in Items(dbQ)
        BY <2>1, <2>3, UnderWayItems DEF Safe, UnderWay, Items
    <2>4. CASE \E x \in Items(txQ) : x.tx = t
        <3>1. PICK x \in Items(txQ) : x.tx = t
            BY <2>4
        <3>2. x.node = active
            BY DEF DownloadInv, GoodTx
        <3>3. x \in Items(txQ') \/ AddTransaction(t) \in Items(dbQ')
            BY <2>1, <3>1
        <3>4. UnderWay(t)'
            BY <2>2, <3>1, <3>2, <3>3 DEF UnderWay, Items
        <3>5. QED
            BY <3>4 DEF Safe
    <2>5. CASE \E m \in Items(inbox[active]) : Brings(m, t)
        <3>1. \/ \E l \in Items(inbox'[active]) : Brings(l, t)
              \/ [node |-> active, tx |-> t] \in Items(txQ')
            BY <2>1, <2>5
        <3>2. CASE \E l \in Items(inbox'[active]) : Brings(l, t)
            <4>1. UnderWay(t)'
                BY <2>2, <3>2 DEF UnderWay, Brings, Items
            <4>2. QED
                BY <4>1 DEF Safe
        <3>3. CASE [node |-> active, tx |-> t] \in Items(txQ')
            <4>1. PICK i \in DOMAIN txQ' : txQ'[i] = [node |-> active, tx |-> t]
                BY <3>3 DEF Items
            <4>2. txQ'[i].tx = t /\ txQ'[i].node = active
                BY <4>1
            <4>3. UnderWay(t)'
                BY <2>2, <4>2 DEF UnderWay
            <4>4. QED
                BY <4>3 DEF Safe
        <3>4. QED
            BY <3>1, <3>2, <3>3
    <2>6. QED
        BY <1>2, <2>3, <2>4, <2>5, UnderWayItems
<1>3. QED
    BY <1>1, <1>2 DEF Safe

\* What requestTransactions adds to the database thread's queue.
LEMMA RequestTransactionsItems ==
    ASSUME NEW dl, NEW top, NEW t, NEW q \in Seq(DbWork(t)), RequestTransactions(dl, top, q)
    PROVE  /\ Items(q) \subseteq Items(dbQ')
           /\ \A x \in Items(dbQ') :
                x \in Items(q) \/ (x = TransactionsWork(active) /\ (active \in nodes \/ fault'))
<1>1. \/ dbQ' = q
      \/ dbQ' = Append(q, TransactionsWork(active)) /\ (active \in nodes \/ fault')
    BY DEF RequestTransactions
<1>2. Items(Append(q, TransactionsWork(active))) = Items(q) \cup {TransactionsWork(active)}
    BY ItemsOf
<1>3. QED
    BY <1>1, <1>2

\* What is left of a message once its next part is delivered.
LEMMA RestItems ==
    ASSUME NEW k \in Nat, NEW m \in Deliveries(k), m.kind = "blocks"
    PROVE  \A l \in Items(Rest(m)) :
             \/ /\ m.tx < Matches[m.from]
                /\ l.kind = "blocks" /\ l.from = m.from /\ l.to = m.to /\ l.tx = m.tx + 1
             \/ /\ ~(m.tx < Matches[m.from]) /\ m.from < m.to
                /\ l.kind = "blocks" /\ l.from = m.from + 1 /\ l.to = m.to /\ l.tx = 0
<1>1. m = [kind |-> "blocks", from |-> m.from, to |-> m.to, tx |-> m.tx]
    BY Records
<1>2. CASE m.tx < Matches[m.from]
    <2> DEFINE n == [m EXCEPT !.tx = @ + 1]
    <2>1. n.kind = "blocks" /\ n.from = m.from /\ n.to = m.to /\ n.tx = m.tx + 1
        BY <1>1
    <2> HIDE DEF n
    <2>2. Rest(m) = <<n>>
        BY <1>2 DEF Rest, n
    <2>3. \A l \in Items(Rest(m)) : l = n
        BY <2>2 DEF Items
    <2>4. QED
        BY <1>2, <2>1, <2>3
<1>3. CASE ~(m.tx < Matches[m.from]) /\ m.from < m.to
    <2> DEFINE n == Blocks(m.from + 1, m.to)
    <2>1. n.kind = "blocks" /\ n.from = m.from + 1 /\ n.to = m.to /\ n.tx = 0
        BY DEF Blocks
    <2> HIDE DEF n
    <2>2. Rest(m) = <<n>>
        BY <1>3 DEF Rest, n
    <2>3. \A l \in Items(Rest(m)) : l = n
        BY <2>2 DEF Items
    <2>4. QED
        BY <1>3, <2>1, <2>3
<1>4. CASE ~(m.tx < Matches[m.from]) /\ ~(m.from < m.to)
    <2>1. Rest(m) = <<>>
        BY <1>4 DEF Rest
    <2>2. QED
        BY <2>1 DEF Items
<1>5. QED
    BY <1>2, <1>3, <1>4

\* ... and there is something left as long as there is something to deliver.
LEMMA RestHasItems ==
    ASSUME NEW m
    PROVE  m.tx < Matches[m.from] \/ m.from < m.to => Items(Rest(m)) # {}
<1>1. ASSUME NEW x PROVE x \in Items(<<x>>)
    <2>1. 1 \in DOMAIN <<x>> /\ <<x>>[1] = x
        OBVIOUS
    <2>2. QED
        BY <2>1 DEF Items
<1>2. CASE m.tx < Matches[m.from]
    BY <1>1, <1>2 DEF Rest
<1>3. CASE ~(m.tx < Matches[m.from]) /\ m.from < m.to
    BY <1>1, <1>3 DEF Rest
<1>4. QED
    BY <1>2, <1>3

\* What a node has to deliver, once its head is dealt with.
LEMMA ReadItems ==
    ASSUME TypeInv, NEW p \in Ptrs, inbox[p] # <<>>
    PROVE  LET m == Head(inbox[p])
           IN  /\ Items(inbox[p]) = {m} \cup Items(Tail(inbox[p]))
               /\ Items(Read(p)[p]) = Items(Tail(inbox[p]))
                                        \cup (IF m.kind = "blocks" THEN Items(Rest(m)) ELSE {})
<1> DEFINE m == Head(inbox[p])
           q == Tail(inbox[p])
           r == IF m.kind = "blocks" THEN Rest(m) ELSE <<>>
<1>0. inbox \in [Ptrs -> Seq(Deliveries(tip))] /\ inbox[p] \in Seq(Deliveries(tip))
    BY DEF TypeInv, Queues
<1>1. Items(inbox[p]) = {m} \cup Items(q) /\ q \in Seq(Deliveries(tip))
    BY <1>0, ItemsOf, QueueTypes
<1>2. Read(p)[p] = r \o q
    BY <1>0 DEF Read
<1>3. r = <<>> \/ \E x : r = <<x>>
    BY DEF Rest
<1> HIDE DEF r, q
<1>4. Items(r \o q) = Items(q) \cup Items(r)
    <2>1. CASE r = <<>>
        <3>1. r \o q = q /\ Items(r) = {}
            BY <1>1, <2>1, ItemsOf
        <3>2. QED
            BY <3>1
    <2>2. ASSUME NEW x, r = <<x>> PROVE Items(r \o q) = Items(q) \cup Items(r)
        <3> DEFINE S == Deliveries(tip) \cup {x}
        <3>1. q \in Seq(S) /\ r \in Seq(S) /\ r \o q \in Seq(S)
            <4>1. q \in Seq(S) /\ x \in S
                BY <1>1, QueueMonotone
            <4> HIDE DEF S
            <4>2. QED
                BY <2>2, <4>1
        <3> HIDE DEF S
        <3>2. Head(r \o q) = x /\ Tail(r \o q) = q /\ r \o q # <<>>
            BY <2>2, <3>1
        <3>3. Items(r) = {x}
            BY <2>2 DEF Items
        <3>4. Items(r \o q) = {Head(r \o q)} \cup Items(Tail(r \o q))
            BY <3>1, <3>2, ItemsOf
        <3>5. QED
            BY <3>2, <3>3, <3>4
    <2>3. QED
        BY <1>3, <2>1, <2>2
<1>5. Items(r) = IF m.kind = "blocks" THEN Items(Rest(m)) ELSE {}
    BY ItemsOf DEF r, Items
<1>6. QED
    BY <1>1, <1>2, <1>4, <1>5 DEF q

\* A delivery hands on every transaction it brings: what comes next of it stays
\* in the inbox, and a transaction goes to the queue of the TxProcessing thread.
LEMMA SafeRead ==
    ASSUME TypeInv, DownloadInv, Undisturbed, NEW p \in Ptrs, ReadStep(p),
           NEW t \in Sought, Safe(t)
    PROVE  Safe(t)'
<1> DEFINE m == Head(inbox[p])
<1>0. /\ inbox[p] # <<>> /\ txQ \in Seq(TxWork) /\ dbQ \in Seq(DbWork(tip)) /\ tip \in Nat
      /\ p \in nodes
    BY HeadTypes DEF ReadStep, BlockHeaders, MerkleBlock, Tx, Inventory, Arrives, TypeInv, Queues
<1>1. m \in Deliveries(tip) /\ m \in Items(inbox[p])
    BY <1>0, ReadTypes, ReadItems
<1>2. m.kind = "headers" \/ (m.kind = "blocks" /\ p = active)
    BY <1>1 DEF DownloadInv, GoodMessage
<1>3. ~Inventory(p)
    BY <1>2 DEF Inventory, Arrives
<1>4. inbox' = Read(p)
    BY <1>3 DEF ReadStep, BlockHeaders, MerkleBlock, Tx
<1>5. Items(dbQ) \subseteq Items(dbQ')
    <2>1. CASE BlockHeaders(p)
        BY <1>0, <2>1, ItemsOf DEF BlockHeaders
    <2>2. CASE MerkleBlock(p)
        <3>1. dbQ' = dbQ \/ RequestTransactions(lastDlHeight[p], highest', dbQ)
            BY <2>2, MerkleBlockTypes
        <3>2. QED
            BY <1>0, <3>1, RequestTransactionsItems
    <2>3. CASE Tx(p)
        BY <2>3 DEF Tx
    <2>4. QED
        BY <1>3, <2>1, <2>2, <2>3 DEF ReadStep
<1>6. Items(txQ) \subseteq Items(txQ')
    <2>1. CASE Tx(p)
        BY <1>0, <2>1, ItemsOf DEF Tx
    <2>2. CASE BlockHeaders(p) \/ MerkleBlock(p)
        BY <2>2 DEF BlockHeaders, MerkleBlock
    <2>3. QED
        BY <1>3, <2>1, <2>2 DEF ReadStep
<1>7. ASSUME active # NoNode, NEW x \in Items(inbox[active]), Brings(x, t)
      PROVE  \/ \E l \in Items(inbox'[active]) : Brings(l, t)
             \/ [node |-> active, tx |-> t] \in Items(txQ')
    <2>1. active \in Ptrs
        BY <1>7 DEF DownloadInv, TypeInv, NodeTypes
    <2>2. CASE p # active
        BY <1>0, <1>4, <1>7, <2>1, <2>2, ReadTypes
    <2>3. CASE p = active /\ x \in Items(Tail(inbox[p]))
        BY <1>0, <1>4, <1>7, <2>3, ReadItems
    <2>4. CASE p = active /\ x = m
        <3>0. m.kind = "blocks" /\ ~BlockHeaders(p)
            BY <1>7, <2>4 DEF Brings, BlockHeaders, Arrives
        <3>1. m.from \in 1..tip /\ m.to \in 1..tip /\ m.tx \in Nat
            BY <1>0, <1>1, <3>0, Records
        <3>2. /\ t = <<t[1], t[2]>> /\ t[1] \in Heights /\ t[2] \in 1..Matches[t[1]]
              /\ Matches[t[1]] \in Nat
            BY SoughtTypes
        <3>3. t[1] \in m.from + 1 .. m.to \/ (t[1] = m.from /\ t[2] >= m.tx)
            BY <1>7, <2>4 DEF Brings
        <3>4. Items(Rest(m)) \subseteq Items(inbox'[active])
            BY <1>0, <1>4, <2>4, <3>0, ReadItems
        <3>5. CASE t[1] = m.from /\ t[2] = m.tx
            <4>1. Tx(p)
                BY <1>3, <3>0, <3>2, <3>5 DEF ReadStep, MerkleBlock
            <4>2. txQ' = Append(txQ, [node |-> p, tx |-> <<m.from, m.tx>>])
                BY <2>4, <4>1 DEF Tx
            <4>3. t = <<m.from, m.tx>>
                BY <3>2, <3>5
            <4>4. QED
                BY <1>0, <2>4, <4>2, <4>3, ItemsOf
        <3>6. CASE t[1] = m.from /\ t[2] > m.tx
            <4>1. m.tx < Matches[m.from]
                BY <3>1, <3>2, <3>6
            <4>2. PICK l \in Items(Rest(m)) : TRUE
                BY <4>1, RestHasItems
            <4>3. l.kind = "blocks" /\ l.from = m.from /\ l.tx = m.tx + 1 /\ l.to = m.to
                BY <1>0, <1>1, <3>0, <4>1, <4>2, RestItems
            <4>4. t[2] >= l.tx
                BY <3>1, <3>2, <3>6, <4>3
            <4>5. Brings(l, t)
                BY <3>6, <4>3, <4>4 DEF Brings
            <4>6. QED
                BY <3>4, <4>2, <4>5
        <3>7. CASE t[1] \in m.from + 1 .. m.to
            <4>1. m.from < m.to
                BY <3>1, <3>7
            <4>2. PICK l \in Items(Rest(m)) : TRUE
                BY <4>1, RestHasItems
            <4>3. /\ l.kind = "blocks" /\ l.to = m.to
                  /\ l.from = m.from \/ (l.from = m.from + 1 /\ l.tx = 0)
                BY <1>0, <1>1, <3>0, <4>2, RestItems
            <4>4. Brings(l, t)
                BY <3>1, <3>2, <3>7, <4>3 DEF Brings
            <4>5. QED
                BY <3>4, <4>2, <4>4
        <3>8. QED
            BY <3>1, <3>2, <3>3, <3>5, <3>6, <3>7
    <2>5. QED
        BY <1>0, <1>7, <2>2, <2>3, <2>4, ReadItems
<1>8. QED
    BY <1>5, <1>6, <1>7, SafeStays

\* What a node has to deliver once it has been asked for something more.
LEMMA AskedItems ==
    ASSUME TypeInv, NEW p, NEW x \in Ptrs, NEW m
    PROVE  /\ Items(inbox[x]) \subseteq Items(Asked(p, m)[x])
           /\ Items(Asked(p, m)[x]) \subseteq Items(inbox[x]) \cup {m}
           /\ p # x => Asked(p, m)[x] = inbox[x]
<1>1. inbox \in [Ptrs -> Seq(Deliveries(tip))] /\ inbox[x] \in Seq(Deliveries(tip))
    BY DEF TypeInv, Queues
<1>2. /\ Asked(p, m)[x] = inbox[x] \/ Asked(p, m)[x] = Append(inbox[x], m)
      /\ p # x => Asked(p, m)[x] = inbox[x]
    BY <1>1 DEF Asked
<1>3. Items(Append(inbox[x], m)) = Items(inbox[x]) \cup {m}
    BY <1>1, ItemsOf
<1>4. QED
    BY <1>2, <1>3

\* What the main thread does takes nothing off the other queues.
LEMMA MainItems ==
    ASSUME TypeInv, MainStep
    PROVE  /\ Items(mainQ) = {Head(mainQ)} \cup Items(mainQ')
           /\ Items(dbQ) \subseteq Items(dbQ')
           /\ \A x \in Items(dbQ') :
                \/ x \in Items(dbQ) \/ x.op = "requestHeadersWorker"
                \/ x = TransactionsWork(active) /\ active' = active /\ (active \in nodes \/ fault')
           /\ txQ' = txQ
           /\ active' = active /\ active \in nodes' \cup {NoNode} =>
                \A p \in Ptrs : p = active => Items(inbox[p]) \subseteq Items(inbox'[p])
           /\ active \in nodes \cup {NoNode} => active' \in nodes' \cup {NoNode}
           /\ lastMerkle' = lastMerkle
<1> DEFINE w == Head(mainQ)
           NewDb == \A x \in Items(dbQ') :
                \/ x \in Items(dbQ) \/ x.op = "requestHeadersWorker"
                \/ x = TransactionsWork(active) /\ active' = active /\ (active \in nodes \/ fault')
           SameInbox == active' = active /\ active \in nodes' \cup {NoNode} =>
                \A p \in Ptrs : p = active => Items(inbox[p]) \subseteq Items(inbox'[p])
           Goal == /\ Items(dbQ) \subseteq Items(dbQ') /\ NewDb /\ SameInbox
                   /\ active \in nodes \cup {NoNode} => active' \in nodes' \cup {NoNode}
<1>0. /\ mainQ # <<>> /\ mainQ' = Tail(mainQ) /\ txQ' = txQ /\ mainQ \in Seq(MainWork(tip))
      /\ dbQ \in Seq(DbWork(tip)) /\ w \in MainWork(tip) /\ tip \in Nat
    BY HeadTypes DEF MainStep, BlockHeadersWorkMain, RequestHeadersWorkerMain,
       RequestTransactionsWorkerMain, TxWorkerMain, BloomFilterWorkerMain, Queued, TypeInv, Queues
<1>1. Items(mainQ) = {w} \cup Items(mainQ')
    BY <1>0, ItemsOf
<1>2. lastMerkle' = lastMerkle
    BY DEF MainStep, BlockHeadersWorkMain, RequestHeadersWorkerMain,
       RequestTransactionsWorkerMain, TxWorkerMain, BloomFilterWorkerMain, nodeVars
<1>3. ASSUME NEW dl, RequestTransactions(dl, highest, dbQ), active' = active
      PROVE  Items(dbQ) \subseteq Items(dbQ') /\ NewDb
    BY <1>0, <1>3, RequestTransactionsItems
<1>4. ASSUME UNCHANGED <<nodes, active, inbox, dbQ>> PROVE Goal
    BY <1>4
<1>5. ASSUME BlockHeadersWorkMain PROVE Goal
    <2>1. w.count \in Nat /\ w.added \in Nat
        BY <1>0, <1>5, Records DEF BlockHeadersWorkMain, Queued
    <2>2. CASE ~NodeStillValid(w.node) \/ w.count = 1
        <3>1. UNCHANGED <<nodes, active, inbox, dbQ>>
            BY <1>5, <2>2 DEF BlockHeadersWorkMain
        <3>2. QED
            BY <1>4, <3>1
    <2>3. CASE NodeStillValid(w.node) /\ w.count # 1 /\ FinalHeaders(w)
        <3>1. RequestTransactions(dlHeight, highest, dbQ) /\ UNCHANGED <<nodes, active, inbox>>
            BY <1>5, <2>3 DEF BlockHeadersWorkMain
        <3>2. QED
            BY <1>3, <3>1
    <2>4. CASE NodeStillValid(w.node) /\ w.count # 1 /\ ~FinalHeaders(w)
        <3>1. MoreHeaders(w) /\ w.node \in nodes
            BY <1>5, <2>4 DEF BlockHeadersWorkMain, NodeStillValid
        <3>2. /\ active' = active => nodes' = nodes
              /\ active' # active => active' \in nodes'
              /\ \A p \in nodes' : inbox'[p] = inbox[p]
              /\ dbQ' = dbQ \/ dbQ' = RequestHeaders(dbQ, active')
            BY <2>1, <3>1, MoreHeadersTypes
        <3>3. SameInbox
            BY <3>2, SizesAssumption
        <3>4. Items(dbQ) \subseteq Items(dbQ') /\ NewDb
            <4>1. Items(RequestHeaders(dbQ, active')) = Items(dbQ) \cup {HeadersRequest(active')}
                BY <1>0, ItemsOf DEF RequestHeaders
            <4>2. HeadersRequest(active').op = "requestHeadersWorker"
                BY DEF HeadersRequest
            <4>3. QED
                BY <3>2, <4>1, <4>2
        <3>5. QED
            BY <3>2, <3>3, <3>4
    <2>5. QED
        BY <2>2, <2>3, <2>4
<1>6. ASSUME RequestHeadersWorkerMain \/ RequestTransactionsWorkerMain PROVE Goal
    <2>1. /\ UNCHANGED <<nodes, active, dbQ>>
          /\ inbox' = inbox \/ \E m : inbox' = Asked(w.node, m)
        BY <1>6 DEF RequestHeadersWorkerMain, RequestTransactionsWorkerMain
    <2>2. \A p \in Ptrs : Items(inbox[p]) \subseteq Items(inbox'[p])
        BY <2>1, AskedItems
    <2>3. QED
        BY <2>1, <2>2
<1>7. ASSUME TxWorkerMain PROVE Goal
    <2>1. /\ dbQ' = dbQ \/ RequestTransactions(dlHeight', highest, dbQ)
          /\ UNCHANGED <<nodes, active, inbox>>
        BY <1>7, TxWorkerMainTypes DEF TxWorkerMain
    <2>2. CASE dbQ' = dbQ
        BY <1>4, <2>1, <2>2
    <2>3. CASE RequestTransactions(dlHeight', highest, dbQ)
        BY <1>3, <2>1, <2>3
    <2>4. QED
        BY <2>1, <2>2, <2>3
<1>8. ASSUME BloomFilterWorkerMain PROVE Goal
    BY <1>4, <1>8 DEF BloomFilterWorkerMain
<1>9. QED
    BY <1>0, <1>1, <1>2, <1>5, <1>6, <1>7, <1>8 DEF MainStep

\* The steps of the main thread keep what is safe.
LEMMA SafeMain ==
    ASSUME TypeInv, DownloadInv, Undisturbed, MainStep, NEW t \in Sought, Safe(t)
    PROVE  Safe(t)'
<1>1. Items(dbQ) \subseteq Items(dbQ') /\ txQ' = txQ
    BY MainItems
<1>2. ASSUME active # NoNode PROVE Items(inbox[active]) \subseteq Items(inbox'[active])
    <2>1. active \in Ptrs /\ active' = active /\ active \in nodes'
        BY <1>2 DEF DownloadInv, Undisturbed, TypeInv, NodeTypes
    <2>2. QED
        BY <2>1, MainItems
<1>3. QED
    BY <1>1, <1>2, SafeStays

\* So do those of the database thread: what it takes off its queue it stores.
LEMMA SafeDatabase ==
    ASSUME TypeInv, DownloadInv, Undisturbed, DatabaseStep, NEW t \in Sought, Safe(t)
    PROVE  Safe(t)'
<1>1. dbQ # <<>> /\ dbQ' = Tail(dbQ) /\ txQ' = txQ /\ inbox' = inbox
    BY DEF DatabaseStep, BlockHeadersWork, RequestHeadersWorker, RequestTransactionsWorker,
           TxWorkerAddTransaction, Queued
<1>2. Items(dbQ) = {Head(dbQ)} \cup Items(dbQ')
    BY <1>1, ItemsOf DEF TypeInv, Queues
<1>3. ASSUME Head(dbQ) = AddTransaction(t) PROVE t \in stored'
    <2>1. Head(dbQ).op = "txWorkerAddTransaction" /\ Head(dbQ).tx = t
        BY <1>3 DEF AddTransaction
    <2>2. TxWorkerAddTransaction
        BY <2>1 DEF DatabaseStep, BlockHeadersWork, RequestHeadersWorker,
           RequestTransactionsWorker, Queued
    <2>3. QED
        BY <2>1, <2>2 DEF TxWorkerAddTransaction
<1>4. QED
    BY <1>1, <1>2, <1>3, SafeStays

\* ... and those of the TxProcessing thread, which hands over all that concerns
\* the wallet.
LEMMA SafeTxWorker ==
    ASSUME TypeInv, DownloadInv, Undisturbed, TxWorker, NEW t \in Sought, Safe(t)
    PROVE  Safe(t)'
<1>1. /\ txQ # <<>> /\ txQ' = Tail(txQ) /\ inbox' = inbox
      /\ txQ \in Seq(TxWork) /\ dbQ \in Seq(DbWork(tip))
    BY DEF TxWorker, TypeInv, Queues
<1>2. Items(txQ) = {Head(txQ)} \cup Items(txQ')
    BY <1>1, ItemsOf
<1>3. dbQ' = dbQ \/ \E x : dbQ' = Append(dbQ, x)
    BY DEF TxWorker
<1>4. Items(dbQ) \subseteq Items(dbQ')
    <2>1. \A x : Items(dbQ) \subseteq Items(Append(dbQ, x))
        BY <1>1, ItemsOf
    <2>2. QED
        BY <1>3, <2>1
<1>5. ASSUME Head(txQ).tx = t PROVE AddTransaction(t) \in Items(dbQ')
    <2>1. Head(txQ).node = active /\ active # NoNode
        BY <1>2 DEF DownloadInv, GoodTx
    <2>2. NodeStillValid(Head(txQ).node)
        BY <2>1 DEF DownloadInv, NodeStillValid
    <2>3. t \in Wanted
        BY SoughtTypes
    <2>4. dbQ' = Append(dbQ, AddTransaction(t))
        BY <1>5, <2>2, <2>3 DEF TxWorker
    <2>5. QED
        BY <1>1, <2>4, ItemsOf
<1>6. QED
    BY <1>1, <1>2, <1>4, <1>5, SafeStays

\* ... and all others, while the active node and its connection stay.
LEMMA SafeOther ==
    ASSUME TypeInv, DownloadInv, Undisturbed, NEW t \in Sought, Safe(t),
           \/ ConnectNodes \/ SetActiveNodeIfNone \/ BloomFilterCheckup
           \/ \E late \in BOOLEAN : NodeCheckup(late)
           \/ DisconnectAll \/ AppDidBecomeActive \/ NewKey \/ Restart
           \/ \E p \in Ptrs : Disconnected(p)
    PROVE  Safe(t)'
<1> DEFINE Goal == /\ Items(dbQ) \subseteq Items(dbQ') /\ txQ' = txQ
                   /\ Items(inbox[active]) \subseteq Items(inbox'[active])
<1> SUFFICES ASSUME active # NoNode PROVE Goal
    BY SafeStays
<1>0. /\ active \in Ptrs /\ active \in nodes /\ active' = active /\ active \in nodes'
      /\ active \in connected => active \in connected'
      /\ dbQ \in Seq(DbWork(tip))
      /\ nodes \subseteq Ptrs /\ connected \subseteq nodes
    BY DEF DownloadInv, Undisturbed, TypeInv, NodeTypes, Queues
<1>1. ASSUME NEW q \in Seq(DbWork(tip)), NEW p PROVE Items(q) \subseteq Items(RequestHeaders(q, p))
    BY ItemsOf DEF RequestHeaders
<1>2. ~ConnectNodes /\ ~DisconnectAll /\ ~Restart
    BY <1>0 DEF ConnectNodes, DisconnectAll, Restart
<1>3. CASE SetActiveNodeIfNone \/ AppDidBecomeActive \/ BloomFilterCheckup \/ NewKey
    <2>1. /\ dbQ' = dbQ \/ \E p : dbQ' = RequestHeaders(dbQ, p)
          /\ txQ' = txQ /\ inbox' = inbox
        BY <1>3 DEF SetActiveNodeIfNone, AppDidBecomeActive, BloomFilterCheckup, NewKey
    <2>2. QED
        BY <1>0, <1>1, <2>1
<1>4. ASSUME NEW late \in BOOLEAN, NodeCheckup(late) PROVE Goal
    <2>1. PICK slow \in SUBSET connected : Checkup(late, slow)
        BY <1>4 DEF NodeCheckup
    <2>2. PICK rest \in SUBSET connected : \E new \in SUBSET Ptrs : CheckedUp(rest, new)
        BY <2>1, CheckupShape
    <2>3. active \in rest /\ inbox' = Emptied(Ptrs \ rest)
        BY <1>0, <2>2 DEF CheckedUp
    <2>4. inbox'[active] = inbox[active]
        BY <1>0, <2>3 DEF Emptied
    <2>5. Items(dbQ) \subseteq Items(dbQ')
        <3>1. dbQ' \in {dbQ, RequestHeaders(dbQ, active'),
                        RequestHeaders(RequestHeaders(dbQ, NoNode), active')}
            BY <2>1, CheckupShape
        <3>2. RequestHeaders(dbQ, NoNode) \in Seq(DbWork(tip))
            BY <1>0, RequestHeadersTypes DEF Addresses
        <3>3. QED
            BY <1>0, <1>1, <3>1, <3>2
    <2>6. txQ' = txQ
        BY <2>1 DEF Checkup
    <2>7. QED
        BY <2>4, <2>5, <2>6
<1>5. ASSUME NEW p \in Ptrs, Disconnected(p) PROVE Goal
    <2>1. p \in connected /\ connected' = connected \ {p} /\ inbox' = Emptied({p})
          /\ dbQ' = dbQ /\ txQ' = txQ
        BY <1>5 DEF Disconnected
    <2>2. p # active
        BY <1>0, <2>1
    <2>3. inbox'[active] = inbox[active]
        BY <1>0, <2>1, <2>2 DEF Emptied
    <2>4. QED
        BY <2>1, <2>3
<1>6. QED
    BY <1>2, <1>3, <1>4, <1>5

\* No block is found while Limit["block"] is zero.
LEMMA NoNewBlock ==
    ASSUME TypeInv, Limit["block"] = 0
    PROVE  ~NewBlock
<1>1. spent["block"] \in Nat
    BY DEF TypeInv, Queues, Events
<1>2. QED
    BY <1>1 DEF NewBlock, Spend

\* Every step keeps what is safe.
LEMMA KeepsStep ==
    ASSUME TypeInv, DownloadInv, Undisturbed, Limit["block"] = 0, Next
    PROVE  Keeps
<1>1. ~fault /\ (active # NoNode => active' = active)
    BY DEF Next, Undisturbed
<1>2. ASSUME NEW t \in Sought, Safe(t) PROVE Safe(t)'
    BY <1>2, SafeMain, SafeDatabase, SafeTxWorker, SafeRead, SafeOther, NoNewBlock DEF Next
<1>3. QED
    BY <1>1, <1>2 DEF Keeps

\* There are no transactions before block 1, and those up to the block that a
\* message continues with are safe.
LEMMA Covered ==
    ASSUME TypeInv, DownloadInv
    PROVE  /\ \A h \in {-1, 0} : \A t \in Sought : ~(t[1] <= h)
           /\ \A p \in Ptrs : \A m \in Items(inbox[p]) : m.kind = "blocks" => CoveredTo(m.from)
<1>1. ASSUME NEW h \in {-1, 0}, NEW t \in Sought PROVE ~(t[1] <= h)
    BY SoughtTypes, SizesAssumption DEF Heights
<1>2. ASSUME NEW p \in Ptrs, NEW m \in Items(inbox[p]), m.kind = "blocks" PROVE CoveredTo(m.from)
    <2>0. tip \in Nat /\ m \in Deliveries(tip)
        BY <1>2, ItemsOf, HeadTypes DEF TypeInv, Queues
    <2>1. m.from \in Nat /\ m.tx \in Nat
        BY <1>2, <2>0, Records
    <2>2. /\ p = active
          /\ \A t \in Sought : t[1] < m.from => Safe(t)
          /\ \A t \in Sought : t[1] = m.from /\ t[2] < m.tx => Safe(t)
        BY <1>2 DEF DownloadInv, GoodMessage
    <2>3. active \in nodes
        BY <2>2, SizesAssumption DEF DownloadInv
    <2> SUFFICES ASSUME NEW t \in Sought, t[1] <= m.from PROVE Safe(t)
        BY DEF CoveredTo
    <2>4. t[1] \in Nat /\ t[2] \in Nat
        BY SoughtTypes, SizesAssumption DEF Heights
    <2>5. CASE t[1] = m.from /\ t[2] >= m.tx
        <3>1. Brings(m, t)
            BY <1>2, <2>5 DEF Brings
        <3>2. QED
            BY <1>2, <2>2, <2>3, <3>1, UnderWayItems DEF Safe
    <2>6. QED
        BY <2>1, <2>2, <2>4, <2>5
<1>3. QED
    BY <1>1, <1>2

\* What is left of a message that the active node delivers continues where the
\* transactions before are safe.
LEMMA GoodRest ==
    ASSUME TypeInv, DownloadInv, Keeps, NEW p \in Ptrs, p = active, inbox[p] # <<>>,
           Head(inbox[p]).kind = "blocks", NEW l \in Items(Rest(Head(inbox[p])))
    PROVE  GoodMessage(p, l)'
<1> DEFINE m == Head(inbox[p])
<1>1. m \in Deliveries(tip) /\ m \in Items(inbox[p]) /\ tip \in Nat
    BY ReadTypes, ReadItems, HeadTypes
<1>2. m.from \in Nat /\ m.tx \in Nat
    BY <1>1, Records
<1>3. /\ l.kind = "blocks"
      /\ l.from = m.from \/ (l.from = m.from + 1 /\ l.tx = 0)
    BY <1>1, RestItems
<1>4. \A t \in Sought : t[1] <= m.from => Safe(t)'
    BY <1>1, Covered DEF CoveredTo, Keeps
<1>5. active' = active
    BY SizesAssumption DEF Keeps
<1>6. ASSUME NEW t \in Sought, t[1] < l.from \/ (t[1] = l.from /\ t[2] < l.tx)
      PROVE  Safe(t)'
    <2>1. t[1] \in Nat /\ t[2] \in Nat \ {0}
        BY SoughtTypes, SizesAssumption DEF Heights
    <2>2. t[1] <= m.from
        BY <1>2, <1>3, <1>6, <2>1
    <2>3. QED
        BY <1>4, <2>2
<1>7. QED
    BY <1>3, <1>5, <1>6 DEF GoodMessage

\* The steps that read what a node delivers keep the invariant.
LEMMA ReadDownload ==
    ASSUME TypeInv, DownloadInv, Keeps, NEW p \in Ptrs, ReadStep(p)
    PROVE  DownloadInv'
<1> DEFINE m == Head(inbox[p])
<1>0. /\ inbox[p] # <<>> /\ txQ \in Seq(TxWork) /\ dbQ \in Seq(DbWork(tip)) /\ tip \in Nat
      /\ p \in nodes /\ lastMerkle \in [Ptrs -> -1..MaxHeight] /\ p # NoNode
    BY HeadTypes, SizesAssumption
    DEF ReadStep, BlockHeaders, MerkleBlock, Tx, Inventory, Arrives, TypeInv, Queues, NodeTypes
<1>1. m \in Deliveries(tip) /\ m \in Items(inbox[p])
    BY <1>0, ReadTypes, ReadItems
<1>2. m.kind = "headers" \/ (m.kind = "blocks" /\ p = active)
    BY <1>1 DEF DownloadInv, GoodMessage
<1>3. ~Inventory(p)
    BY <1>2 DEF Inventory, Arrives
<1>4. inbox' = Read(p) /\ active' = active /\ nodes' = nodes /\ mainQ' = mainQ
    BY <1>3 DEF ReadStep, BlockHeaders, MerkleBlock, Tx
<1>5. \A x \in Ptrs : \A l \in Items(inbox'[x]) :
        l \in Items(inbox[x]) \/ GoodMessage(x, l)'
    <2> SUFFICES ASSUME NEW x \in Ptrs, NEW l \in Items(inbox'[x]), l \notin Items(inbox[x])
                 PROVE  GoodMessage(x, l)'
        OBVIOUS
    <2>1. x = p
        BY <1>0, <1>4, ReadTypes
    <2>2. m.kind = "blocks" /\ l \in Items(Rest(m))
        BY <1>0, <1>4, <2>1, ReadItems
    <2>3. QED
        BY <1>0, <1>2, <2>1, <2>2, GoodRest
<1>7. CASE BlockHeaders(p)
    <2>1. /\ dbQ' = Append(dbQ, HeadersWork(p, m.from, m.to))
          /\ txQ' = txQ /\ dlHeight' = dlHeight /\ lastMerkle' = lastMerkle
        BY <1>7 DEF BlockHeaders, nodeVars
    <2>2. Items(dbQ') = Items(dbQ) \cup {HeadersWork(p, m.from, m.to)}
        BY <1>0, <2>1, ItemsOf
    <2>3. \A a, b, c : HeadersWork(a, b, c).op = "blockHeadersWork"
        BY DEF HeadersWork
    <2>4. \A x \in Items(dbQ') : x \in Items(dbQ) \/ GoodDb(x)'
        BY <2>2, <2>3 DEF GoodDb
    <2>5. QED
        BY <1>4, <1>5, <2>1, <2>4, DownloadFrame DEF DownloadInv
<1>8. CASE Tx(p)
    <2> DEFINE n == [node |-> p, tx |-> <<m.from, m.tx>>]
    <2>1. /\ p = active /\ txQ' = Append(txQ, n)
          /\ dbQ' = dbQ /\ dlHeight' = dlHeight /\ lastMerkle' = lastMerkle
        BY <1>2, <1>8 DEF Tx, Arrives, nodeVars
    <2>2. n.node = p
        OBVIOUS
    <2> HIDE DEF n
    <2>3. Items(txQ') = Items(txQ) \cup {n}
        BY <1>0, <2>1, ItemsOf
    <2>4. \A x \in Items(txQ') : x \in Items(txQ) \/ GoodTx(x)'
        BY <1>0, <1>4, <2>1, <2>2, <2>3 DEF GoodTx
    <2>5. QED
        BY <1>4, <1>5, <2>1, <2>4, DownloadFrame DEF DownloadInv
<1>9. CASE MerkleBlock(p)
    <2>1. /\ p = active /\ m.kind = "blocks" /\ txQ' = txQ
          /\ lastMerkle' = [lastMerkle EXCEPT ![p] = m.from]
          /\ LET height == HeightOf(m.from, highest')
             IN  dlHeight' = dlHeight \/ dlHeight' = height
        BY <1>2, <1>9 DEF MerkleBlock, Arrives
    <2>2. \A t \in Sought : t[1] <= m.from => Safe(t)'
        BY <1>1, <2>1, Covered DEF CoveredTo, Keeps
    <2>3. dlHeight' = dlHeight \/ dlHeight' = m.from \/ dlHeight' = -1
        BY <2>1 DEF HeightOf
    <2>4. dlHeight' = dlHeight \/ \A t \in Sought : t[1] <= dlHeight' => Safe(t)'
        BY <2>2, <2>3, Covered
    <2>5. \A x \in Ptrs : \/ lastMerkle'[x] = lastMerkle[x]
                          \/ \A t \in Sought : t[1] <= lastMerkle'[x] => Safe(t)'
        BY <1>0, <2>1, <2>2
    <2>6. dbQ' = dbQ \/ RequestTransactions(lastDlHeight[p], highest', dbQ)
        BY <1>9, MerkleBlockTypes
    <2>7. \A x \in Items(dbQ') : x \in Items(dbQ) \/ x = TransactionsWork(active)
        BY <1>0, <2>6, RequestTransactionsItems
    <2>8. GoodDb(TransactionsWork(active))'
        BY <1>0, <1>4, <2>1 DEF GoodDb, TransactionsWork
    <2>9. QED
        BY <1>4, <1>5, <2>1, <2>4, <2>5, <2>7, <2>8, DownloadFrame DEF DownloadInv
<1>10. QED
    BY <1>3, <1>7, <1>8, <1>9 DEF ReadStep

\* The steps of the main thread keep the invariant.
LEMMA MainDownload ==
    ASSUME TypeInv, DownloadInv, Keeps, MainStep
    PROVE  DownloadInv'
<1> DEFINE w == Head(mainQ)
           NewInbox == \A p \in Ptrs : \A m \in Items(inbox'[p]) :
                            m \in Items(inbox[p]) \/ GoodMessage(p, m)'
           NewHeight == dlHeight' = dlHeight \/ \A t \in Sought : t[1] <= dlHeight' => Safe(t)'
<1>0. /\ w \in MainWork(tip) /\ w \in Items(mainQ) /\ tip \in Nat
      /\ inbox \in [Ptrs -> Seq(Deliveries(tip))]
      /\ Items(mainQ') \subseteq Items(mainQ) /\ txQ' = txQ /\ lastMerkle' = lastMerkle
      /\ active' \in nodes' \cup {NoNode}
    <2>1. mainQ # <<>>
        BY DEF MainStep, BlockHeadersWorkMain, RequestHeadersWorkerMain,
           RequestTransactionsWorkerMain, TxWorkerMain, BloomFilterWorkerMain, Queued
    <2>2. QED
        BY <2>1, HeadTypes, MainItems DEF DownloadInv, TypeInv, Queues
<1>1. \A x \in Items(dbQ') : x \in Items(dbQ) \/ GoodDb(x)'
    <2> SUFFICES ASSUME NEW x \in Items(dbQ'), x \notin Items(dbQ) PROVE GoodDb(x)'
        OBVIOUS
    <2>1. CASE x.op = "requestHeadersWorker"
        BY <2>1 DEF GoodDb
    <2>2. CASE x = TransactionsWork(active) /\ active' = active /\ (active \in nodes \/ fault')
        <3>1. x.op = "requestTransactionsWorker" /\ x.node = active
            BY <2>2 DEF TransactionsWork
        <3>2. active \in nodes => active # NoNode
            BY SizesAssumption DEF TypeInv, NodeTypes
        <3>3. QED
            BY <2>2, <3>1, <3>2 DEF GoodDb
    <2>3. QED
        BY <2>1, <2>2, MainItems
<1>2. ASSUME inbox' = inbox \/ \E gone : inbox' = Emptied(gone) PROVE NewInbox
    <2>1. \A gone : \A p \in Ptrs : Emptied(gone)[p] = inbox[p] \/ Emptied(gone)[p] = <<>>
        BY DEF Emptied
    <2>2. Items(<<>>) = {}
        BY DEF Items
    <2>3. QED
        BY <1>2, <2>1, <2>2
<1>3. ASSUME NEW m, inbox' = inbox \/ inbox' = Asked(w.node, m),
             \A p \in Ptrs : p = w.node => GoodMessage(p, m)'
      PROVE  NewInbox
    <2> SUFFICES ASSUME NEW p \in Ptrs, NEW x \in Items(inbox'[p]), x \notin Items(inbox[p])
                 PROVE  GoodMessage(p, x)'
        OBVIOUS
    <2>1. inbox' = Asked(w.node, m)
        BY <1>3
    <2>2. /\ Items(Asked(w.node, m)[p]) \subseteq Items(inbox[p]) \cup {m}
          /\ w.node # p => Asked(w.node, m)[p] = inbox[p]
        BY AskedItems
    <2>3. p = w.node /\ x = m
        BY <2>1, <2>2
    <2>4. QED
        BY <1>3, <2>3
<1>4. ASSUME BlockHeadersWorkMain PROVE NewInbox /\ NewHeight
    <2>1. /\ dlHeight' = dlHeight \/ dlHeight' = 0
          /\ inbox' = inbox \/ \E gone : inbox' = Emptied(gone)
        BY <1>4 DEF BlockHeadersWorkMain, MoreHeaders, ResetBlocks
    <2>2. QED
        BY <1>2, <2>1, Covered
<1>5. ASSUME RequestHeadersWorkerMain PROVE NewInbox /\ NewHeight
    <2>1. /\ dlHeight' = dlHeight
          /\ inbox' = inbox \/ \E from, to : inbox' = Asked(w.node, Headers(from, to))
        BY <1>5 DEF RequestHeadersWorkerMain
    <2>2. \A from, to : Headers(from, to).kind = "headers"
        BY DEF Headers
    <2>3. inbox' = inbox \/ \E m : inbox' = Asked(w.node, m) /\ m.kind = "headers"
        BY <2>1, <2>2
    <2>4. CASE inbox' = inbox
        BY <1>2, <2>1, <2>4
    <2>5. ASSUME NEW m, inbox' = Asked(w.node, m), m.kind = "headers" PROVE NewInbox
        <3>1. \A p \in Ptrs : GoodMessage(p, m)'
            BY <2>5 DEF GoodMessage
        <3>2. QED
            BY <1>3, <2>5, <3>1
    <2>6. QED
        BY <2>1, <2>3, <2>4, <2>5
<1>6. ASSUME RequestTransactionsWorkerMain PROVE NewInbox /\ NewHeight
    <2>0. w.op = "requestTransactionsWorkerMain"
        BY <1>6 DEF RequestTransactionsWorkerMain, Queued
    <2> DEFINE m == Blocks(w.from, w.to)
    <2>1. /\ dlHeight' = dlHeight
          /\ inbox' = inbox \/ inbox' = Asked(w.node, m)
        BY <1>6 DEF RequestTransactionsWorkerMain
    <2>2. m.kind = "blocks" /\ m.from = w.from /\ m.tx = 0
        BY DEF Blocks
    <2>3. w.node = active /\ active # NoNode /\ \A t \in Sought : t[1] < w.from => Safe(t)
        BY <1>0, <2>0 DEF DownloadInv, GoodMain
    <2>4. w.node = active' /\ \A t \in Sought : t[1] < m.from => Safe(t)'
        BY <2>2, <2>3 DEF Keeps
    <2>5. \A t \in Sought : ~(t[2] < m.tx)
        <3> SUFFICES ASSUME NEW t \in Sought PROVE ~(t[2] < 0)
            BY <2>2
        <3>1. t[2] \in Nat
            BY SoughtTypes
        <3>2. QED
            BY <3>1
    <2> HIDE DEF m
    <2>6. PICK n : n = m
        OBVIOUS
    <2>7. \A p \in Ptrs : p = w.node => GoodMessage(p, n)'
        BY <2>2, <2>4, <2>5, <2>6 DEF GoodMessage
    <2>8. QED
        BY <1>3, <2>1, <2>6, <2>7
<1>7. ASSUME TxWorkerMain PROVE NewInbox /\ NewHeight
    <2>0. w.op = "txWorkerMain"
        BY <1>7 DEF TxWorkerMain, Queued
    <2>1. inbox' = inbox /\ (dlHeight' = dlHeight \/ dlHeight' = w.height)
        BY <1>7 DEF TxWorkerMain
    <2>2. \A t \in Sought : t[1] <= w.height => Safe(t)'
        BY <1>0, <2>0 DEF DownloadInv, GoodMain, Keeps
    <2>3. QED
        BY <1>2, <2>1, <2>2
<1>8. ASSUME BloomFilterWorkerMain PROVE NewInbox /\ NewHeight
    BY <1>2, <1>8 DEF BloomFilterWorkerMain
<1>9. NewInbox /\ NewHeight
    BY <1>4, <1>5, <1>6, <1>7, <1>8 DEF MainStep
<1>10. QED
    BY <1>0, <1>1, <1>9, DownloadFrame

\* The steps of the database thread keep the invariant: a batch starts after the
\* download height, or after blocks that are not searched.
LEMMA DatabaseDownload ==
    ASSUME TypeInv, DownloadInv, Keeps, DatabaseStep
    PROVE  DownloadInv'
<1> DEFINE w == Head(dbQ)
           from == FirstAbove(ResumeAt)
<1>0. /\ dbQ # <<>> /\ dbQ' = Tail(dbQ) /\ txQ' = txQ /\ inbox' = inbox
      /\ active' = active /\ nodes' = nodes /\ lastMerkle' = lastMerkle
      /\ mainQ \in Seq(MainWork(tip)) /\ dbQ \in Seq(DbWork(tip)) /\ tip \in Nat
    BY HeadTypes
    DEF DatabaseStep, BlockHeadersWork, RequestHeadersWorker, RequestTransactionsWorker,
        TxWorkerAddTransaction, Queued, nodeVars, TypeInv, Queues
<1>1. Items(dbQ) = {w} \cup Items(dbQ')
    BY <1>0, ItemsOf
<1>2. ASSUME dlHeight' = dlHeight,
             \A x \in Items(mainQ') : x \in Items(mainQ) \/ GoodMain(x)'
      PROVE  DownloadInv'
    BY <1>0, <1>1, <1>2, DownloadFrame DEF DownloadInv
<1>3. ASSUME NEW n, mainQ' = Append(mainQ, n), GoodMain(n)'
      PROVE  \A x \in Items(mainQ') : x \in Items(mainQ) \/ GoodMain(x)'
    BY <1>0, <1>3, ItemsOf
<1>4. CASE BlockHeadersWork \/ RequestHeadersWorker
    <2>1. dlHeight' = dlHeight
        BY <1>4 DEF BlockHeadersWork, RequestHeadersWorker
    <2>2. \E n : /\ mainQ' = Append(mainQ, n)
                 /\ n.op \in {"blockHeadersWorkMain", "requestHeadersWorkerMain"}
        BY <1>4 DEF BlockHeadersWork, RequestHeadersWorker, HeadersDone, HeadersRequestDone
    <2>3. PICK n : /\ mainQ' = Append(mainQ, n)
                   /\ n.op \in {"blockHeadersWorkMain", "requestHeadersWorkerMain"}
        BY <2>2
    <2>4. GoodMain(n)'
        BY <2>3 DEF GoodMain
    <2>5. QED
        BY <1>2, <1>3, <2>1, <2>3, <2>4
<1>5. CASE TxWorkerAddTransaction
    BY <1>2, <1>5 DEF TxWorkerAddTransaction
<1>6. CASE RequestTransactionsWorker
    <2>1. CASE ~NodeStillValid(w.node)
        BY <1>2, <1>6, <2>1 DEF RequestTransactionsWorker
    <2>2. CASE NodeStillValid(w.node)
        <3>1. w.op = "requestTransactionsWorker" /\ w.node = active /\ active # NoNode
            <4>1. w.op = "requestTransactionsWorker"
                BY <1>6 DEF RequestTransactionsWorker, Queued
            <4>2. QED
                BY <1>1, <2>2, <4>1, SizesAssumption
                DEF DownloadInv, GoodDb, NodeStillValid, TypeInv, NodeTypes
        <3>2. /\ dlHeight' = ResumeAt
              /\ mainQ' = Append(mainQ, TransactionsDone(w.node, from,
                                            Min2(from + BatchSize - 1, highest)))
            BY <1>6, <2>2 DEF RequestTransactionsWorker
        <3>3. ASSUME NEW t \in Sought, t[1] <= ResumeAt PROVE Safe(t)'
            <4>1. /\ t[1] \in Nat /\ t[1] > WalletHeight - Margin
                BY SoughtTypes, SizesAssumption DEF Heights
            <4>2. /\ highest \in Int /\ WalletHeight \in Int /\ Margin \in Nat
                  /\ dlHeight \in Int
                BY SizesAssumption DEF TypeInv, ChainTypes
            <4>3. t[1] <= dlHeight
                BY <3>3, <4>1, <4>2 DEF ResumeAt, Start, Min2, Max2
            <4>4. QED
                BY <4>3 DEF DownloadInv, CoveredTo, Keeps
        <3>4. ASSUME NEW t \in Sought, t[1] < from PROVE Safe(t)'
            <4>1. t[1] \in Nat \ {0}
                BY SoughtTypes, SizesAssumption DEF Heights
            <4>2. ResumeAt \in Int
                BY ResumeTypes, SizesAssumption
            <4>3. t[1] <= ResumeAt
                BY <3>4, <4>1, <4>2 DEF FirstAbove, Max2
            <4>4. QED
                BY <3>3, <4>3
        <3>5. PICK n : n = TransactionsDone(w.node, from, Min2(from + BatchSize - 1, highest))
            OBVIOUS
        <3>6. n.op = "requestTransactionsWorkerMain" /\ n.node = w.node /\ n.from = from
            BY <3>5 DEF TransactionsDone
        <3> HIDE DEF from
        <3>7. GoodMain(n)'
            BY <1>0, <3>1, <3>4, <3>6 DEF GoodMain
        <3>8. \A x \in Items(mainQ') : x \in Items(mainQ) \/ GoodMain(x)'
            BY <1>3, <3>2, <3>5, <3>7 DEF from
        <3>9. QED
            BY <1>0, <1>1, <3>2, <3>3, <3>8, DownloadFrame DEF DownloadInv
    <2>3. QED
        BY <2>1, <2>2
<1>7. QED
    BY <1>4, <1>5, <1>6 DEF DatabaseStep

\* The step of the TxProcessing thread keeps the invariant: the blocks up to the
\* node's last merkleblock are safe, the one that is coming in too.
LEMMA TxWorkerDownload ==
    ASSUME TypeInv, DownloadInv, Keeps, TxWorker
    PROVE  DownloadInv'
<1> DEFINE w == Head(txQ)
           height == HeightOf(lastMerkle[w.node], highest)
<1>0. /\ txQ # <<>> /\ txQ' = Tail(txQ) /\ inbox' = inbox
      /\ active' = active /\ nodes' = nodes /\ lastMerkle' = lastMerkle
      /\ mainQ \in Seq(MainWork(tip)) /\ dbQ \in Seq(DbWork(tip)) /\ txQ \in Seq(TxWork)
    BY DEF TxWorker, nodeVars, TypeInv, Queues
<1>1. Items(txQ) = {w} \cup Items(txQ')
    BY <1>0, ItemsOf
<1>2. w.node = active /\ active # NoNode /\ active \in Ptrs
    BY <1>1 DEF DownloadInv, GoodTx, TypeInv, NodeTypes
<1>3. NodeStillValid(w.node)
    BY <1>2 DEF NodeStillValid, DownloadInv
<1>4. \A t \in Sought : t[1] <= height => Safe(t)'
    <2>1. CASE height = lastMerkle[w.node]
        BY <1>2, <2>1 DEF DownloadInv, CoveredTo, Keeps
    <2>2. CASE height = -1
        BY <2>2, Covered
    <2>3. QED
        BY <2>1, <2>2 DEF HeightOf
<1>5. PICK n : n = TxDone(w.node, height)
    OBVIOUS
<1>6. n.op = "txWorkerMain" /\ n.height = height
    BY <1>5 DEF TxDone
<1>7. mainQ' = mainQ \/ mainQ' = Append(mainQ, n)
    BY <1>3, <1>5 DEF TxWorker
<1>8. dlHeight' = dlHeight \/ dlHeight' = height
    BY <1>3 DEF TxWorker, Max2
<1>9. dbQ' = dbQ \/ dbQ' = Append(dbQ, AddTransaction(w.tx))
    BY <1>3 DEF TxWorker
<1> HIDE DEF height
<1>10. \A x \in Items(mainQ') : x \in Items(mainQ) \/ GoodMain(x)'
    <2>1. GoodMain(n)'
        BY <1>4, <1>6 DEF GoodMain
    <2>2. Items(Append(mainQ, n)) = Items(mainQ) \cup {n}
        BY <1>0, ItemsOf
    <2>3. QED
        BY <1>7, <2>1, <2>2
<1>11. \A x \in Items(dbQ') : x \in Items(dbQ) \/ GoodDb(x)'
    <2>1. \A x : AddTransaction(x).op = "txWorkerAddTransaction"
        BY DEF AddTransaction
    <2>2. Items(Append(dbQ, AddTransaction(w.tx))) = Items(dbQ) \cup {AddTransaction(w.tx)}
        BY <1>0, ItemsOf
    <2>3. \A x \in Items(dbQ') : x \in Items(dbQ) \/ x = AddTransaction(w.tx)
        BY <1>9, <2>2
    <2>4. QED
        BY <1>0, <1>2, <2>1, <2>3 DEF GoodDb
<1>12. dlHeight' = dlHeight \/ \A t \in Sought : t[1] <= dlHeight' => Safe(t)'
    BY <1>4, <1>8
<1>13. QED
    BY <1>0, <1>1, <1>10, <1>11, <1>12, DownloadFrame DEF DownloadInv

\* All other steps keep the invariant: they ask for headers only.
LEMMA OtherDownload ==
    ASSUME TypeInv, DownloadInv, Keeps, Undisturbed,
           \/ ConnectNodes \/ SetActiveNodeIfNone \/ BloomFilterCheckup
           \/ \E late \in BOOLEAN : NodeCheckup(late)
           \/ DisconnectAll \/ AppDidBecomeActive \/ NewKey \/ Restart
           \/ \E p \in Ptrs : Disconnected(p)
    PROVE  DownloadInv'
<1> DEFINE NewDb == \A x \in Items(dbQ') : x \in Items(dbQ) \/ x.op = "requestHeadersWorker"
           NewMain == \A x \in Items(mainQ') : x \in Items(mainQ) \/ x.op = "bloomFilterWorkerMain"
           NewTx == Items(txQ') \subseteq Items(txQ)
           NewInbox == \A p \in Ptrs : Items(inbox'[p]) \subseteq Items(inbox[p])
           NewHeight == dlHeight' \in {dlHeight, 0}
           NewMerkle == \A p \in Ptrs : lastMerkle'[p] \in {lastMerkle[p], -1}
           NewActive == active' \in nodes' \cup {NoNode}
           Goal == NewDb /\ NewMain /\ NewTx /\ NewInbox /\ NewHeight /\ NewMerkle /\ NewActive
<1>0. /\ dbQ \in Seq(DbWork(tip)) /\ mainQ \in Seq(MainWork(tip)) /\ nodes \subseteq Ptrs
      /\ connected \subseteq nodes /\ active \in nodes \cup {NoNode} /\ NoNode \notin Ptrs
    BY SizesAssumption DEF TypeInv, Queues, NodeTypes, DownloadInv
<1>1. ASSUME NEW q \in Seq(DbWork(tip)), NEW p
      PROVE  \A x \in Items(RequestHeaders(q, p)) : x \in Items(q) \/ x.op = "requestHeadersWorker"
    <2>1. HeadersRequest(p).op = "requestHeadersWorker"
        BY DEF HeadersRequest
    <2>2. QED
        BY <2>1, ItemsOf DEF RequestHeaders
<1>2. \A gone : \A p \in Ptrs : Items(Emptied(gone)[p]) \subseteq Items(inbox[p])
    BY DEF Emptied, Items
<1>3. \A new : NewNodes(new) => NewMerkle
    BY DEF NewNodes
<1>4. ASSUME ConnectNodes PROVE Goal
    <2>1. /\ inbox' = Emptied(nodes') /\ NewNodes(nodes') /\ nodes = {}
          /\ dbQ' = dbQ /\ mainQ' = mainQ /\ txQ' = txQ /\ dlHeight' = dlHeight /\ active' = active
        BY <1>4, ConnectNodesTypes DEF ConnectNodes
    <2>2. QED
        BY <1>0, <1>2, <1>3, <2>1
<1>5. ASSUME SetActiveNodeIfNone PROVE Goal
    <2>1. /\ mainQ' = mainQ /\ txQ' = txQ /\ dlHeight' = dlHeight /\ inbox' = inbox
          /\ nodes' = nodes /\ lastMerkle' = lastMerkle
          /\ active' = active \/ active' \in Candidates(nodes, connected)
          /\ dbQ' = dbQ \/ dbQ' = RequestHeaders(dbQ, active')
        BY <1>5 DEF SetActiveNodeIfNone, nodeVars
    <2>2. active' \in nodes \cup {NoNode}
        BY <1>0, <2>1 DEF Candidates
    <2>3. NewDb
        BY <1>0, <1>1, <2>1
    <2>4. QED
        BY <2>1, <2>2, <2>3
<1>6. ASSUME BloomFilterCheckup PROVE Goal
    <2>1. /\ mainQ' = Append(mainQ, FilterDone(keysNewer)) /\ txQ' = txQ /\ dbQ' = dbQ
          /\ dlHeight' = dlHeight /\ inbox' = inbox
          /\ nodes' = nodes /\ lastMerkle' = lastMerkle /\ active' = active
        BY <1>6 DEF BloomFilterCheckup, nodeVars
    <2>2. FilterDone(keysNewer).op = "bloomFilterWorkerMain"
        BY DEF FilterDone
    <2>3. NewMain
        BY <1>0, <2>1, <2>2, ItemsOf
    <2>4. QED
        BY <1>0, <2>1, <2>3
<1>7. ASSUME NEW late \in BOOLEAN, NodeCheckup(late) PROVE Goal
    <2>1. PICK slow \in SUBSET connected : Checkup(late, slow)
        BY <1>7 DEF NodeCheckup
    <2>2. PICK rest \in SUBSET connected : \E new \in SUBSET Ptrs : CheckedUp(rest, new)
        BY <2>1, CheckupShape
    <2>3. PICK new \in SUBSET Ptrs : CheckedUp(rest, new)
        BY <2>2
    <2>4. NewInbox /\ NewMerkle /\ NewActive
        BY <1>2, <1>3, <2>3 DEF CheckedUp
    <2>5. NewHeight /\ mainQ' = mainQ /\ txQ' = txQ
        BY <2>1 DEF Checkup
    <2>6. NewDb
        <3>1. dbQ' \in {dbQ, RequestHeaders(dbQ, active'),
                        RequestHeaders(RequestHeaders(dbQ, NoNode), active')}
            BY <2>1, CheckupShape
        <3>2. RequestHeaders(dbQ, NoNode) \in Seq(DbWork(tip))
            BY <1>0, RequestHeadersTypes DEF Addresses
        <3>3. \A x \in Items(RequestHeaders(RequestHeaders(dbQ, NoNode), active')) :
                x \in Items(RequestHeaders(dbQ, NoNode)) \/ x.op = "requestHeadersWorker"
            BY <1>1, <3>2
        <3>4. \A p : \A x \in Items(RequestHeaders(dbQ, p)) :
                x \in Items(dbQ) \/ x.op = "requestHeadersWorker"
            BY <1>0, <1>1
        <3>5. QED
            BY <3>1, <3>3, <3>4
    <2>7. QED
        BY <2>4, <2>5, <2>6
<1>8. ASSUME DisconnectAll PROVE Goal
    <2>1. /\ mainQ' = mainQ /\ txQ' = txQ /\ dbQ' = dbQ
          /\ dlHeight' = dlHeight /\ inbox' = Emptied(Ptrs)
          /\ nodes' = {} /\ lastMerkle' = lastMerkle /\ active' = active
        BY <1>8 DEF DisconnectAll, nodeVars
    <2>2. active = NoNode
        BY <2>1 DEF Undisturbed
    <2>3. QED
        BY <1>2, <2>1, <2>2
<1>9. ASSUME AppDidBecomeActive \/ NewKey PROVE Goal
    <2>1. /\ mainQ' = mainQ /\ txQ' = txQ
          /\ dbQ' = dbQ \/ dbQ' = RequestHeaders(dbQ, active)
          /\ dlHeight' = dlHeight /\ inbox' = inbox
          /\ nodes' = nodes /\ lastMerkle' = lastMerkle /\ active' = active
        BY <1>9 DEF AppDidBecomeActive, NewKey, nodeVars
    <2>2. NewDb
        BY <1>0, <1>1, <2>1
    <2>3. QED
        BY <1>0, <2>1, <2>2
<1>10. ASSUME Restart PROVE Goal
    <2>1. /\ mainQ' = <<>> /\ txQ' = <<>> /\ dbQ' = <<>>
          /\ dlHeight' = dlHeight /\ inbox' = Emptied(Ptrs)
          /\ NewNodes(Ptrs) /\ active' = NoNode
        BY <1>10 DEF Restart
    <2>2. Items(<<>>) = {}
        BY DEF Items
    <2>3. QED
        BY <1>2, <1>3, <2>1, <2>2
<1>11. ASSUME NEW p \in Ptrs, Disconnected(p) PROVE Goal
    <2>1. /\ mainQ' = mainQ /\ txQ' = txQ /\ dbQ' = dbQ
          /\ dlHeight' = dlHeight /\ inbox' = Emptied({p})
          /\ nodes' = nodes /\ lastMerkle' = lastMerkle /\ active' = active
        BY <1>11 DEF Disconnected, nodeVars
    <2>2. QED
        BY <1>0, <1>2, <2>1
<1>12. Goal
    BY <1>4, <1>5, <1>6, <1>7, <1>8, <1>9, <1>10, <1>11
<1>13. /\ \A x \in Items(dbQ') : x \in Items(dbQ) \/ GoodDb(x)'
       /\ \A x \in Items(mainQ') : x \in Items(mainQ) \/ GoodMain(x)'
    BY <1>12 DEF GoodDb, GoodMain
<1>14. /\ dlHeight' = dlHeight \/ \A t \in Sought : t[1] <= dlHeight' => Safe(t)'
       /\ \A p \in Ptrs : \/ lastMerkle'[p] = lastMerkle[p]
                          \/ \A t \in Sought : t[1] <= lastMerkle'[p] => Safe(t)'
    BY <1>12, Covered
<1>15. QED
    BY <1>12, <1>13, <1>14, DownloadFrame

\* Nothing is covered, and nothing is on a queue, at the start.
LEMMA DownloadInit == Init => DownloadInv
<1> SUFFICES ASSUME Init PROVE DownloadInv
    OBVIOUS
<1>1. TypeInv
    BY TypeInit
<1>2. \A h \in {-1, 0} : \A t \in Sought : ~(t[1] <= h)
    BY SoughtTypes, SizesAssumption DEF Heights
<1>3. Items(<<>>) = {}
    BY DEF Items
<1>4. QED
    BY <1>2, <1>3 DEF Init, DownloadInv, CoveredTo

\* The invariant is kept while nothing disturbs the download.
LEMMA DownloadStep ==
    ASSUME Limit["block"] = 0, TypeInv, DownloadInv, [Next]_vars, [Undisturbed]_vars
    PROVE  DownloadInv'
<1>1. CASE UNCHANGED vars
    <2>1. \A t : Safe(t)' <=> Safe(t)
        BY <1>1 DEF vars, Safe, UnderWay
    <2>2. /\ \A x : GoodMain(x)' <=> GoodMain(x)
          /\ \A x : GoodDb(x)' <=> GoodDb(x)
          /\ \A x : GoodTx(x)' <=> GoodTx(x)
          /\ \A p, m : GoodMessage(p, m)' <=> GoodMessage(p, m)
        BY <1>1, <2>1 DEF vars, GoodMain, GoodDb, GoodTx, GoodMessage
    <2>3. QED
        BY <1>1, <2>1, <2>2 DEF vars, nodeVars, DownloadInv, CoveredTo, Items
<1>2. CASE Next /\ Undisturbed
    <2>1. Keeps
        BY <1>2, KeepsStep
    <2>2. QED
        BY <1>2, <2>1, MainDownload, DatabaseDownload, TxWorkerDownload, ReadDownload,
           OtherDownload, NoNewBlock DEF Next
<1>3. QED
    BY <1>1, <1>2

\* While the active node stays and keeps its connection, no transaction is
\* removed from the database, and the network finds no new block: whatever the
\* chain, the batch size, the milestones and the filter's failures, and in
\* whichever order the three threads run, the download height never gets ahead
\* of the transactions.  Those of every block up to it are stored, on one of the
\* queues or still to come from the node.
THEOREM TransactionsKept ==
    ASSUME Limit["block"] = 0
    PROVE  Spec /\ [][Undisturbed]_vars => []DownloadedOrUnderWay
<1>1. TypeInv /\ DownloadInv /\ [Next]_vars /\ [Undisturbed]_vars => DownloadInv'
    BY DownloadStep
<1>2. TypeInv /\ [Next]_vars => TypeInv'
    BY TypeStep
<1>3. DownloadInv => DownloadedOrUnderWay
    BY DEF DownloadInv, CoveredTo, Safe, DownloadedOrUnderWay
<1>4. QED
    BY <1>1, <1>2, <1>3, TypeInit, DownloadInit, PTL DEF Spec
=============================================================================
