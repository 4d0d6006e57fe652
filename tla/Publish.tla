------------------------------- MODULE Publish -------------------------------
(***************************************************************************)
(* Publishing a transaction (NodeManager.c): NodeManagerSendTx, the list   *)
(* sendTxOnResults of callers that wait for an answer, and the handlers    *)
(* that give it: a transaction that a node sends or announces, a rejection *)
(* and the time limit.                                                     *)
(*                                                                         *)
(* An entry of sendTxOnResults is made by the loop over the chosen nodes.  *)
(* Its "nodePtrs" is the 16 bytes of a Datas, which DataGetPtr refuses     *)
(* with abort(); "ptr" is never stored.                                    *)
(***************************************************************************)
EXTENDS Integers, Sequences, FiniteSets, FiniteSetsExt, SequencesExt, Subsequences

CONSTANTS
    PubNodes,   \* the nodes of the manager
    PubTxs,     \* the transactions
    LegacyTxs,  \* those without witness: their txid is their hash
    SweepTxs,   \* those with one output
    MaxCalls    \* bound: how often NodeManagerSendTx is called

ASSUME PublishAssumption ==
    /\ LegacyTxs \subseteq PubTxs /\ SweepTxs \subseteq PubTxs
    /\ IsFiniteSet(PubNodes)

VARIABLES
    trackedTxs,       \* the transactions of the tracker
    unconfirmed,      \* DatabaseTransactionsToPublish: the rows without a block
    sendTxOnResults,  \* [tx, expired] for each caller and chosen node
    onResults,        \* the calls of onResult, for each transaction
    chosenNodes,      \* how many nodes were chosen for callers, for each transaction
    seenTxs,          \* the transactions nodes have sent or announced
    txMessages,       \* the tx messages to nodes, as <<node, transaction>>
    filteredTxs,      \* txids added to the nodes' filters
    getDatas,         \* the transactions asked of nodes
    sendCalls,        \* how often NodeManagerSendTx was called
    halted            \* abort()

pubVars == <<trackedTxs, unconfirmed, sendTxOnResults, onResults, chosenNodes, seenTxs,
             txMessages, filteredTxs, getDatas, sendCalls, halted>>

PublishInit ==
    /\ trackedTxs = {} /\ unconfirmed = {} /\ sendTxOnResults = <<>>
    /\ onResults = [t \in PubTxs |-> <<>>] /\ chosenNodes = [t \in PubTxs |-> 0]
    /\ seenTxs = {} /\ txMessages = {} /\ filteredTxs = {} /\ getDatas = {}
    /\ sendCalls = 0 /\ halted = FALSE

\* What the loop over the chosen nodes sends: its only statement is the one
\* that notes the caller, and NodeSendTx is called nowhere.
SentTo(chosen, t) == {}

\* The entries of the loop over the chosen nodes.
Waiting(chosen, t) == [i \in 1 .. chosen |-> [tx |-> t, expired |-> FALSE]]

\* NodeManagerSendTx of the transactions ts, with or without a callback.
\* DatasRandomSubarray chooses half of the nodes.
SendTxs(ts, callback) ==
    LET half == Cardinality(PubNodes) \div 2
        t == CHOOSE x \in ts : TRUE
    IN  /\ trackedTxs' = trackedTxs \cup ts
        /\ unconfirmed' = unconfirmed \cup ts
        /\ filteredTxs' = filteredTxs \cup (ts \cap SweepTxs)
        /\ \E chosen \in kSubset(half, PubNodes) :
              txMessages' = txMessages \cup UNION {SentTo(chosen, u) : u \in ts}
        /\ sendTxOnResults' = IF callback THEN sendTxOnResults \o Waiting(half, t)
                              ELSE sendTxOnResults
        /\ chosenNodes' = IF callback THEN [chosenNodes EXCEPT ![t] = @ + half] ELSE chosenNodes
        /\ UNCHANGED <<onResults, seenTxs, getDatas, halted>>

NodeManagerSendTx(t, callback) ==
    /\ ~halted /\ sendCalls < MaxCalls
    /\ sendCalls' = sendCalls + 1
    /\ SendTxs({t}, callback)

\* setActiveNodeIfNone, NodeManagerAppDidBecomeActive: what waits in the
\* database is sent again, without a callback.
PublishWaitingTransactions ==
    /\ ~halted /\ unconfirmed # {} /\ sendCalls < MaxCalls
    /\ sendCalls' = sendCalls + 1
    /\ SendTxs(unconfirmed, FALSE)

\* The entries of sendTxOnResults, and those of the transaction t.
Entries == [tx : PubTxs, expired : BOOLEAN]
EntriesOf(t) == {e \in Entries : e.tx = t}

\* Mutant: the entries stay when their caller was answered.
KeepMatching(entries, t) == entries
WithoutMatching(entries, t) == Within(entries, Entries \ EntriesOf(t))

\* tx(): a node sends a transaction; every caller that waits for it is answered.
TxArrived(t) ==
    /\ ~halted /\ t \in getDatas
    /\ getDatas' = getDatas \ {t}
    /\ LET matches == Len(Within(sendTxOnResults, EntriesOf(t)))
       IN  onResults' = [onResults EXCEPT ![t] = @ \o [i \in 1 .. matches |-> "none"]]
    /\ sendTxOnResults' = WithoutMatching(sendTxOnResults, t)
    /\ UNCHANGED <<trackedTxs, unconfirmed, chosenNodes, seenTxs, txMessages, filteredTxs,
                   sendCalls, halted>>

\* TTHasTransctionHash compares with the hashes of whole transactions.
KnownByHash(t) == t \in trackedTxs /\ t \in LegacyTxs

\* inventory(): an unknown transaction is asked for; of a known one the first
\* caller in the list is answered, then DataGetPtr aborts.
InventoryTx(t) ==
    /\ ~halted
    /\ seenTxs' = seenTxs \cup {t}
    /\ IF ~KnownByHash(t)
       THEN getDatas' = getDatas \cup {t} /\ UNCHANGED <<onResults, halted>>
       ELSE LET waits == \E e \in ToSet(sendTxOnResults) : e.tx = t
            IN  /\ halted' = waits
                /\ onResults' = IF waits THEN [onResults EXCEPT ![t] = Append(@, "none")]
                                ELSE onResults
                /\ UNCHANGED getDatas
    /\ UNCHANGED <<trackedTxs, unconfirmed, sendTxOnResults, chosenNodes, txMessages,
                   filteredTxs, sendCalls>>

\* message(): a rejection, of anything, reads "nodePtrs" of the first entry;
\* messageWorkerDelayed is never posted.
MessageRejects ==
    /\ ~halted /\ sendTxOnResults # <<>>
    /\ halted' = TRUE
    /\ UNCHANGED <<trackedTxs, unconfirmed, sendTxOnResults, onResults, chosenNodes, seenTxs,
                   txMessages, filteredTxs, getDatas, sendCalls>>

TimeLimitPasses ==
    /\ ~halted /\ \E e \in ToSet(sendTxOnResults) : ~e.expired
    /\ sendTxOnResults' = [i \in DOMAIN sendTxOnResults |-> [sendTxOnResults[i] EXCEPT !.expired = TRUE]]
    /\ UNCHANGED <<trackedTxs, unconfirmed, onResults, chosenNodes, seenTxs, txMessages,
                   filteredTxs, getDatas, sendCalls, halted>>

\* nodeCheckup: the first entry beyond the limit is answered, then DataGetPtr aborts.
SendTxTimeout ==
    /\ ~halted
    /\ LET late == SelectInSeq(sendTxOnResults, LAMBDA e : e.expired)
       IN  /\ late > 0
           /\ onResults' = [onResults EXCEPT ![sendTxOnResults[late].tx] = Append(@, "timeout")]
    /\ halted' = TRUE
    /\ UNCHANGED <<trackedTxs, unconfirmed, sendTxOnResults, chosenNodes, seenTxs, txMessages,
                   filteredTxs, getDatas, sendCalls>>

\* A block with the transaction: it is not sent again.
Confirmed(t) ==
    /\ ~halted /\ t \in unconfirmed /\ t \in seenTxs
    /\ unconfirmed' = unconfirmed \ {t}
    /\ UNCHANGED <<trackedTxs, sendTxOnResults, onResults, chosenNodes, seenTxs, txMessages,
                   filteredTxs, getDatas, sendCalls, halted>>

PublishNext ==
    \/ \E t \in PubTxs : \/ \E callback \in BOOLEAN : NodeManagerSendTx(t, callback)
                         \/ TxArrived(t) \/ InventoryTx(t) \/ Confirmed(t)
    \/ PublishWaitingTransactions \/ MessageRejects \/ TimeLimitPasses \/ SendTxTimeout

PublishSpec == PublishInit /\ [][PublishNext]_pubVars

-----------------------------------------------------------------------------
(* Properties.                                                             *)

\* Every caller of NodeManagerSendTx has, for each node chosen, either been
\* answered once or still waits, whatever the order of answers, announcements
\* and repeated calls; success is reported only of a transaction that a node
\* has announced.  The program stops instead of a rejection being reported,
\* of a second answer to an announcement, and after a timeout.
OneAnswerEach ==
    \A t \in PubTxs :
        LET waiting == Len(Within(sendTxOnResults, EntriesOf(t)))
            answers == onResults[t]
        IN  /\ answers = <<>> \/ t \in seenTxs \/ answers[Len(answers)] = "timeout"
            /\ ~halted => Len(answers) + waiting = chosenNodes[t]
            /\ \A i \in DOMAIN answers : answers[i] = "timeout" => i = Len(answers) /\ halted

\* The documented way to publish a transaction (README.md, "Publishing a
\* transaction"): once NodeManagerSendTx has run with nodes to choose from, the
\* transaction has been sent to one of them.
PublishedIsSent ==
    Cardinality(PubNodes) > 1 =>
        \A t \in unconfirmed : \E n \in PubNodes : <<n, t>> \in txMessages
=============================================================================
