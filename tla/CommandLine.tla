----------------------------- MODULE CommandLine -----------------------------
(***************************************************************************)
(* The command line program (main.c): one run after another over the same  *)
(* directory.  A run parses its arguments, starts the modules they need,   *)
(* registers keys and scripts, brings the look-ahead data up to date and   *)
(* answers one question about an address or a transaction; with -node it   *)
(* then looks for the funding transactions until it finds them.            *)
(*                                                                         *)
(* A root is an xpub or a vault; an address is <<root, index>>.            *)
(***************************************************************************)
EXTENDS Integers, Sequences, FiniteSets

CONSTANTS
    Xpubs,          \* the xpubs, by the names they are registered under
    VaultName,      \* the name of the script that is registered
    Commands,       \* the arguments a run may be given
    DefaultAhead,   \* noNodeLookaheadDefault and TransactionTrackerBloomaheadCount
    MaxRuns         \* bound on the runs

VARIABLES
    net,            \* "main" or "test": -testnet
    xpubs,          \* registered: the names in knownHDWallets
    vault,          \* registered: the xpubs of the script, or <<>>
    savedAhead,     \* bsLoad("TransactionTrackerBloomaheadCount")
    table,          \* keysAndKeyHashes and what it was made for: [roots, depth]
    creation,       \* bsLoad("walletCreationTime")
    blocksFrom,     \* bsLoad("NodeManagerWalletCreationTimeCache")
    fundings,       \* the funding transactions the database has
    process,        \* what runs: "none", or "node" in its main loop
    args,           \* the question and the look-ahead count of the run
    reply,         \* what the last question was answered with
    shallow,        \* a node renewed the data with a smaller count
    runCount

cliVars == <<net, xpubs, vault, savedAhead, table, creation, blocksFrom, fundings,
             process, args, reply, shallow, runCount>>

\* A command is a record of the arguments the program tells apart:
\*   add, remove     the xpubs of -xpub and -xpubRemove
\*   script, list    -scriptVault with all xpubs; -listxPubs or -listScripts
\*   node, funding   -node; -addFundingTransaction
\*   ahead, time     -lookAheadCount or -1; -walletCreationTime or 0
\*   ask             an address, a transaction, or nothing
\* -transactionTracker is not among them: the test for the prefix -transaction
\* comes first, takes it for that and the next argument for its value.
NoQuestion == [is |-> "none"]
Roots == Xpubs \cup {VaultName}
Questions ==
    {NoQuestion}
    \cup [is : {"address"}, of : Roots, index : Nat, kind : {"own", "nested"}]
    \cup [is : {"tx"}, of : Roots, index : Nat, needs : {"f"}, unnamed : BOOLEAN]

ASSUME CommandLineAssumption ==
    /\ DefaultAhead \in Nat \ {0}
    /\ Commands \subseteq [add : SUBSET Xpubs, remove : SUBSET Xpubs, script : BOOLEAN,
                          list : BOOLEAN, node : BOOLEAN, funding : BOOLEAN,
                          ahead : Int, time : Nat, ask : Questions]

\* The modules of a run: what the arguments need, and what those depend on.
\* -xpubRemove alone asks for none.
TrackerOf(a) == a.ask.is # "none" \/ a.node
KeyManagerOf(a) == a.add # {} \/ a.list \/ a.script \/ a.node \/ TrackerOf(a)
DatabaseOf(a) == a.funding \/ a.node

\* TransactionTrackerBloomaheadCount for this run.
AheadOf(a) == IF a.ahead > 0 THEN a.ahead ELSE DefaultAhead

\* The keys after the loop over -xpub and after -xpubRemove.  Alone the latter
\* changes nothing, for the storage is not set up; with the storage and not
\* the key manager, it looks among the keys of the main network.
Removes(a) == KeyManagerOf(a) \/ (DatabaseOf(a) /\ net = "main")
XpubsAfter(a) == (xpubs \cup a.add) \ (IF Removes(a) THEN a.remove ELSE {})
\* -scriptVault names all xpubs: an unknown one, or fewer than two, ends the
\* program; a second script of the name is refused.
ScriptFails(a) ==
    a.script /\ (~(Xpubs \subseteq XpubsAfter(a)) \/ (vault = {} /\ Cardinality(Xpubs) < 2))
VaultAfter(a) == IF a.script THEN Xpubs ELSE vault
KeysDidChange(a) == a.add # {} \/ a.remove # {} \/ a.script

RootsOf(xs, v) == xs \cup (IF v = {} THEN {} ELSE {VaultName})

\* TTBloomFilterNeedsUpdate: other roots, or another number of scripts.
TableStale(roots) == table.depth = 0 \/ table.roots # roots
\* Whether the look-ahead data is built anew at the start.  A slip: only when keys
\* change in this run.
RebuildsOnChange(a, roots) == KeysDidChange(a) \/ savedAhead < AheadOf(a)
Rebuilds(a, roots) == KeysDidChange(a) \/ TableStale(roots) \/ savedAhead < AheadOf(a)
TableAfter(a, roots) ==
    IF ~TrackerOf(a) THEN table
    ELSE IF Rebuilds(a, roots) THEN [roots |-> roots, depth |-> AheadOf(a)] ELSE table

InTable(t, q) == q.of \in t.roots /\ q.index < t.depth
\* validatePubScript: the address must be the one pubScriptToAddress makes,
\* which is always one of the main network, be in the table, and be one of the
\* plain kinds.
Confirms(t, q) == q.kind = "own" /\ net = "main" /\ InTable(t, q)
\* processTransactionStr: -1, or the number of warnings and errors.
CheckTransaction(t, q, have, onlyIfValid) ==
    IF onlyIfValid /\ q.needs \notin have THEN -1
    ELSE IF ~InTable(t, q) THEN -1
    ELSE (IF q.needs \in have THEN 0 ELSE 1) + (IF q.unnamed THEN 1 ELSE 0)

NoAnswer == [asked |-> NoQuestion, exit |-> -1]

CliInit ==
    /\ net \in {"main", "test"}
    /\ xpubs = {} /\ vault = {} /\ savedAhead = 0
    /\ table = [roots |-> {}, depth |-> 0]
    /\ creation = 0 /\ blocksFrom = 0 /\ fundings = {}
    /\ process = "none"
    /\ args = [ask |-> NoQuestion, ahead |-> DefaultAhead]
    /\ reply = NoAnswer
    /\ shallow = FALSE
    /\ runCount = 0

\* A run up to its answer or to the loop of the node.
Run(a) ==
    /\ process = "none" /\ runCount < MaxRuns
    /\ runCount' = runCount + 1
    /\ args' = [ask |-> a.ask, ahead |-> AheadOf(a)]
    /\ xpubs' = XpubsAfter(a)
    /\ UNCHANGED net
    /\ LET time == IF a.time # 0 THEN a.time ELSE creation
       IN  creation' = IF KeyManagerOf(a) /\ time = 0 THEN 1 ELSE creation
    /\ IF ScriptFails(a)
       THEN /\ reply' = [asked |-> NoQuestion, exit |-> 1]
            /\ UNCHANGED <<vault, savedAhead, table, blocksFrom, fundings, process, shallow>>
       ELSE LET roots == RootsOf(XpubsAfter(a), VaultAfter(a))
                now == TableAfter(a, roots)
                have == fundings \cup (IF a.funding THEN {"f"} ELSE {})
                seen == IF DatabaseOf(a) THEN have ELSE {}
                result == IF a.ask.is = "tx" THEN CheckTransaction(now, a.ask, seen, FALSE) ELSE 0
                goesOn == a.node /\ a.ask.is # "address" /\ (a.ask.is = "tx" => result >= 1)
            IN  /\ vault' = VaultAfter(a)
                /\ table' = now
                /\ savedAhead' = IF TrackerOf(a) /\ Rebuilds(a, roots)
                                 THEN AheadOf(a) ELSE savedAhead
                /\ shallow' = IF TrackerOf(a) /\ Rebuilds(a, roots) THEN FALSE ELSE shallow
                /\ fundings' = have
                /\ reply' =
                     CASE goesOn -> NoAnswer
                       [] a.ask.is = "address" ->
                            [asked |-> a.ask, exit |-> IF Confirms(now, a.ask) THEN 0 ELSE 1]
                       [] a.ask.is = "tx" /\ ~goesOn -> [asked |-> a.ask, exit |-> IF result = 0 THEN 0 ELSE 1]
                       [] OTHER -> [asked |-> NoQuestion, exit |-> 10]
                /\ process' = IF goesOn THEN "node" ELSE "none"
                /\ blocksFrom' = IF ~goesOn THEN blocksFrom
                                 ELSE IF a.time # 0 THEN a.time ELSE creation'

\* The main loop: the node renews the look-ahead with the count of this run
\* (TTUpdateBloomFilter) and does not save that count.
NodeRenews ==
    /\ process = "node"
    /\ table' = [roots |-> RootsOf(xpubs, vault), depth |-> args.ahead]
    /\ shallow' = (shallow \/ args.ahead < savedAhead)
    /\ table # table'
    /\ UNCHANGED <<net, xpubs, vault, savedAhead, creation, blocksFrom, fundings, process,
                   args, reply, runCount>>
\* The funding transaction comes, and the transaction is checked again.
NodeFinds ==
    /\ process = "node" /\ args.ask.is = "tx" /\ fundings = {}
    /\ fundings' = {"f"}
    /\ LET result == CheckTransaction(table, args.ask, fundings', TRUE)
       IN  /\ reply' = IF result = 0 THEN [asked |-> args.ask, exit |-> 0] ELSE reply
           /\ process' = IF result = 0 THEN "none" ELSE "node"
    /\ UNCHANGED <<net, xpubs, vault, savedAhead, table, creation, blocksFrom, args, shallow,
                   runCount>>
\* blockchainSyncChange or Control-C.
NodeStops ==
    /\ process = "node"
    /\ process' = "none"
    /\ reply' = [asked |-> NoQuestion, exit |-> 10]
    /\ UNCHANGED <<net, xpubs, vault, savedAhead, table, creation, blocksFrom, fundings, args,
                   shallow, runCount>>

CliNext == (\E a \in Commands : Run(a)) \/ NodeRenews \/ NodeFinds \/ NodeStops

CliSpec == CliInit /\ [][CliNext]_cliVars

-----------------------------------------------------------------------------
\* "bitcoinSpoon is primarily used for verifying transaction and receiving
\* addresses": an address that is confirmed belongs to a root that is registered
\* now; and, on the main network, an address of a registered root within the
\* look-ahead asked for is confirmed, whatever was registered, removed and asked
\* for in earlier runs - unless a node has renewed the data with a smaller
\* count since, which is not noticed.  A transaction that is passed has its
\* funding transaction.
AnswersRight ==
    LET q == reply.asked
        registered == RootsOf(xpubs, vault)
    IN  /\ q.is = "address" /\ reply.exit = 0 => q.of \in registered /\ q.kind = "own"
        /\ /\ q.is = "address" /\ net = "main" /\ q.kind = "own"
           /\ q.of \in registered /\ q.index < args.ahead /\ ~shallow
           => reply.exit = 0
        /\ q.is = "tx" /\ reply.exit = 0 => fundings # {} /\ q.of \in table.roots
=============================================================================
