---------------------------- MODULE WalletLedger ----------------------------
(***************************************************************************)
(* The wallet's view of its transactions (TransactionTracker.c): which     *)
(* transactions it keeps, which addresses it takes for used, which it      *)
(* gives out, how far ahead its filter reaches and when that is renewed.   *)
(*                                                                         *)
(* A chain is a public root (deposits or change of an account) or a vault; *)
(* an address is <<chain, index>> and stands for a public key and its      *)
(* hash, or for a vault's script and its hash.  A transaction is a record  *)
(* [txid, pays, signs, spends, outs, stamp]: the addresses that its        *)
(* outputs and its input scripts show, the transactions it spends, its     *)
(* number of outputs, and the height and time the database has for it.     *)
(***************************************************************************)
EXTENDS Integers, Sequences, FiniteSets, FiniteSetsExt, SequencesExt

CONSTANTS
    WorldTxs,      \* the transactions of the world
    Chains,        \* the chains
    ScanAhead,     \* HDWALLET_SCANAHEAD_COUNT, 10
    BloomAhead,    \* TransactionTrackerBloomaheadCount, 100
    MaxIndex,      \* the last address of a chain: indices are 31 bits wide
    MaxWaiting     \* bound: transactions that wait for the database's thread

ASSUME WalletLedgerAssumption ==
    /\ ScanAhead \in Nat \ {0} /\ BloomAhead \in Nat /\ BloomAhead >= ScanAhead
    /\ MaxIndex \in Nat
    /\ \A tx \in WorldTxs : tx.pays \cup tx.signs \subseteq Chains \X (0 .. MaxIndex)

VARIABLES
    allTransactions,  \* the tracker's transactions (their order is left out)
    keyRoots,         \* the chains of the key manager
    trackedRoots,     \* allHdWallets and vaultCount: the chains of the filter
    lookAhead,        \* [chain -> lookAheadCount]
    filterIds,        \* the txids in the filter
    storing,          \* the transactions that wait for the database's thread
    storedTxs,        \* the rows of the database
    happened,         \* the transactions that were made
    upToDate          \* a checkup found nothing to do since the last transaction

ledgerVars == <<allTransactions, keyRoots, trackedRoots, lookAhead, filterIds, storing, storedTxs,
                happened, upToDate>>

KnownTxids == {tx.txid : tx \in allTransactions}
Funding(tx) == {f \in allTransactions : f.txid \in tx.spends}

-----------------------------------------------------------------------------
(* Used and unused addresses.                                              *)

OutputsContain(tx, a) == a \in tx.pays
InputsContain(tx, a) == a \in tx.signs \/ \E f \in Funding(tx) : a \in f.pays

\* TTTransactionContainsOneOf, TTAnyTransactionContainsOneOf: the indices of
\* the addresses of a chain in transactions, or in their outputs.
PaidIndices(chain) ==
    {i \in 0 .. MaxIndex : \E tx \in allTransactions : <<chain, i>> \in tx.pays}
UsedIndices(chain) ==
    {i \in 0 .. MaxIndex : \E tx \in allTransactions : <<chain, i>> \in tx.pays \cup tx.signs}

\* The loops over addresses, from i, go ScanAhead beyond the last used one:
\* they end with the first one, or 0, that no other follows that closely.
ScanEnds(i, last, used) == \A u \in used : u >= i /\ u > last => u >= last + ScanAhead
ScanUsed(i, used) == Min({x \in {0} \cup {u \in used : u >= i} : ScanEnds(i, x, used)})

\* TTLastUsedAddress and TTLastUsedVaultAddress.
LastUsedAddress(chain) == ScanUsed(0, UsedIndices(chain))

\* Mutant: only addresses beyond the filter are looked at.
ScanFromEnd(chain) == lookAhead[chain]
\* The address that was the last used one when the filter was made.
ScanStart(chain) == lookAhead[chain] - BloomAhead

\* TTUnusedAddresses: the loop does not run if it starts at ScanAhead or above.
UnusedAddresses(chain) == lookAhead[chain] - ScanUsed(ScanStart(chain), UsedIndices(chain))

\* TTUnusedWallet and TTUnusedVaultScript: the n-th of the addresses after the
\* first paid one, or from 0, of which that many and one more are unpaid.
StartsUnpaid(n, paid) ==
    {s \in {0} \cup {u + 1 : u \in paid} : \A u \in paid : u < s \/ u > s + n}
UnusedFrom(n, paid) == IF n < ScanAhead THEN Min(StartsUnpaid(n, paid)) + n ELSE -1

UnusedWallet(chain, n) == UnusedFrom(n % ScanAhead, PaidIndices(chain))

\* TTAllActiveDerivations, TTAllVaultActiveDerivations: what can be signed for.
ActiveDerivations(chain) ==
    PaidIndices(chain) \cap 0 .. ScanUsed(0, PaidIndices(chain))

\* TTVaultPathForScriptHash, TTVaultUuid: the addresses of a vault that are
\* compared with a script hash or a key, on both of its chains at once.
VaultScan(chains) == 0 .. ScanUsed(0, UNION {PaidIndices(c) : c \in chains}) + ScanAhead - 1
VaultPathForScriptHash(chains, a) == IF a[2] \in VaultScan(chains) THEN a ELSE <<>>

\* TTAllTransactionsFor, TTAllTransactionsForVault.
TransactionsFor(chain) ==
    {tx \in allTransactions : \E i \in 0 .. LastUsedAddress(chain) :
                        InputsContain(tx, <<chain, i>>) \/ OutputsContain(tx, <<chain, i>>)}

\* TTAnalyzerFor: one of the change chain is taken for one that is there
\* already if it has the height and time of one.
AnalyzerTransactions(deposits, change) ==
    LET listed == TransactionsFor(deposits)
        added == {tx \in TransactionsFor(change) : \A u \in listed : u.stamp # tx.stamp}
    IN  listed \cup {CHOOSE tx \in added : tx.stamp = t.stamp : t \in added}

-----------------------------------------------------------------------------
(* The filter.                                                             *)

\* keysAndKeyHashes: the addresses that buildKeysAndKeyHashes collects.
InFilter(a) == a[1] \in trackedRoots /\ a[2] < lookAhead[a[1]]

\* TTInterestingTransaction.
Interesting(tx) ==
    \/ \E a \in tx.pays \cup tx.signs : InFilter(a)
    \/ \E f \in Funding(tx) : \E a \in f.pays : InFilter(a)

\* TTMissingFundingTransactions.
MissingFunding ==
    UNION {tx.spends \ KnownTxids : tx \in {t \in allTransactions : Interesting(t)}}

\* TTBloomFilterNeedsUpdate, of a filter that exists.
NeedsUpdate ==
    \/ trackedRoots # keyRoots
    \/ \E c \in trackedRoots : UnusedAddresses(c) < ScanAhead

LedgerInit ==
    /\ allTransactions = {} /\ keyRoots \in (SUBSET Chains) \ {{}} /\ trackedRoots = {}
    /\ lookAhead = [c \in Chains |-> 0] /\ filterIds = {} /\ happened = {} /\ upToDate = FALSE
    /\ storing = <<>> /\ storedTxs = {}

\* Somebody makes a transaction; what it spends was made before.
Happens(tx) ==
    /\ tx \notin happened
    /\ tx.spends \subseteq {t.txid : t \in happened} \cup {"other"}
    /\ happened' = happened \cup {tx}
    /\ UNCHANGED <<allTransactions, keyRoots, trackedRoots, lookAhead, filterIds, storing, storedTxs,
                   upToDate>>

\* A node sends what matches its filter: an address in an output or an input
\* script, the txid, or an output that matched before (BLOOM_UPDATE_ALL).
NodeRelays(tx) ==
    /\ tx \in happened
    /\ \/ Interesting(tx) \/ tx.txid \in filterIds
    /\ tx.txid \notin KnownTxids

\* txWorker and TTAddTransaction: kept if it is interesting or funds one that
\* is, and left to the database's thread.
AddsTransaction(tx) ==
    /\ NodeRelays(tx) /\ Len(storing) < MaxWaiting
    /\ Interesting(tx) \/ tx.txid \in MissingFunding
    /\ allTransactions' = allTransactions \cup {tx} /\ storing' = Append(storing, tx)
    /\ upToDate' = FALSE
    /\ UNCHANGED <<keyRoots, trackedRoots, lookAhead, filterIds, storedTxs, happened>>

\* txWorkerAddTransaction: a row, unless there is one.
StoreTransaction ==
    /\ storing # <<>>
    /\ storedTxs' = storedTxs \cup {Head(storing)}
    /\ storing' = Tail(storing)
    /\ UNCHANGED <<allTransactions, keyRoots, trackedRoots, lookAhead, filterIds, happened, upToDate>>

\* The program ends at any time and TTNew reads DatabaseAllTransactions: what
\* waited is lost, what was removed from memory only is there again.
Restart ==
    /\ allTransactions # storedTxs
    /\ allTransactions' = storedTxs /\ storing' = <<>> /\ upToDate' = FALSE
    /\ UNCHANGED <<keyRoots, trackedRoots, lookAhead, filterIds, storedTxs, happened>>

\* TTRemoveTransactionByHash, TTRemoveTransactionByTxid.
RemoveTransaction(tx) ==
    /\ tx \in allTransactions
    /\ allTransactions' = {t \in allTransactions : t.txid # tx.txid}
    /\ upToDate' = FALSE
    /\ UNCHANGED <<keyRoots, trackedRoots, lookAhead, filterIds, storing, storedTxs, happened>>

\* KMSetKeyName, an xpub or a vault that is added: another root.
AddRoot(c) ==
    /\ c \notin keyRoots
    /\ keyRoots' = keyRoots \cup {c} /\ upToDate' = FALSE
    /\ UNCHANGED <<allTransactions, trackedRoots, lookAhead, filterIds, storing, storedTxs, happened>>

\* TTUpdateBloomFilter and buildKeysAndKeyHashes, when bloomFilterCheckup
\* finds that it is needed.
UpdateBloomFilter ==
    /\ NeedsUpdate
    /\ trackedRoots' = keyRoots
    /\ lookAhead' = [c \in Chains |-> IF c \in keyRoots THEN LastUsedAddress(c) + BloomAhead ELSE 0]
    /\ filterIds' = MissingFunding \cup {tx.txid : tx \in {t \in allTransactions : t.outs = 1}}
    /\ upToDate' = TRUE
    /\ UNCHANGED <<allTransactions, keyRoots, storing, storedTxs, happened>>

CheckupFindsNothing ==
    /\ ~NeedsUpdate /\ ~upToDate
    /\ upToDate' = TRUE
    /\ UNCHANGED <<allTransactions, keyRoots, trackedRoots, lookAhead, filterIds, storing, storedTxs,
                   happened>>

LedgerNext ==
    \/ \E tx \in WorldTxs : Happens(tx) \/ AddsTransaction(tx) \/ RemoveTransaction(tx)
    \/ \E c \in Chains : AddRoot(c)
    \/ UpdateBloomFilter \/ CheckupFindsNothing \/ StoreTransaction \/ Restart

-----------------------------------------------------------------------------
(* Properties.                                                             *)

\* After a checkup the filter reaches at least ScanAhead addresses beyond the
\* last one used, for every chain of the key manager, so that payments to the
\* addresses given out are noticed.  The exception: the scan for the next update
\* begins at the last used address that the filter was made with, and does not
\* get anywhere if none from there up to ScanAhead is used, as when that address
\* was ScanAhead or more, or its transactions were removed; the filter is then
\* not extended.  The addresses given out are not paid yet and differ from each
\* other; a vault finds the path of each of them, but of the last, as long as it
\* finds those that are paid: the scans for paths stop one address earlier than
\* the one for unused scripts.  Each transaction of the change chain is analysed,
\* unless another has its height and time.  A restart loses only transactions
\* that wait for the database.
FilterReachesAhead ==
    /\ upToDate => \A c \in keyRoots :
          LET wasLast == lookAhead[c] - BloomAhead
          IN  \/ lookAhead[c] - LastUsedAddress(c) >= ScanAhead
              \/ wasLast > 0 /\ UsedIndices(c) \cap (wasLast .. ScanAhead - 1) = {}
    /\ \A c \in keyRoots :
          LET given == [n \in 0 .. ScanAhead - 1 |-> UnusedWallet(c, n)]
          IN  /\ \A n \in DOMAIN given : given[n] >= 0 /\ given[n] \notin PaidIndices(c)
              /\ \A n, m \in DOMAIN given : n # m => given[n] # given[m]
              /\ \A i \in ActiveDerivations(c) : i <= LastUsedAddress(c)
              /\ PaidIndices(c) \subseteq VaultScan(Chains) =>
                    \A n \in 0 .. ScanAhead - 2 :
                        VaultPathForScriptHash(Chains, <<c, given[n]>>) # <<>>
    /\ \A c, d \in keyRoots : \A tx \in TransactionsFor(d) :
          \E u \in AnalyzerTransactions(c, d) : u = tx \/ u.stamp = tx.stamp
    /\ allTransactions \subseteq storedTxs \cup ToSet(storing)
=============================================================================
