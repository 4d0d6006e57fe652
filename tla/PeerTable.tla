------------------------------ MODULE PeerTable ------------------------------
(***************************************************************************)
(* The addresses of peers: the table `nodes` and its cache (Database.c),   *)
(* the default peers and the limit on their number (NodeManager.c).        *)
(*                                                                         *)
(* The main thread reads the list; the database thread adds the addresses  *)
(* that peers announce and removes those that failed.  A change of the     *)
(* table and of the cache are two steps, and so are select and caching in  *)
(* DatabaseNodeList.  Ports, services and dates are left out: rows are in  *)
(* the order of the select, manual ones first and then as inserted.        *)
(***************************************************************************)
EXTENDS Integers, Sequences, FiniteSets, SequencesExt, Subsequences

CONSTANTS
    PeerIps,       \* the addresses
    DefaultPeers,  \* PeerList.h: a sequence of addresses
    FewNodes,      \* 10: the default peers are added to a list of up to that many
    NodeStorage,   \* NODE_STORAGE_COUNT
    MaxNodeIds,    \* bound: how many rows are ever inserted
    MaxRestarts    \* bound: how often the program is started again

ASSUME PeerTableAssumption == DefaultPeers \in Seq(PeerIps) /\ NodeStorage \in Nat

VARIABLES
    nodesTable,     \* the rows: [id, ip, manual]
    nodeListCache,  \* the cached rows
    nodeIds,        \* the id of the last row inserted
    lister,         \* the main thread: [at, rows]
    writer,         \* the database thread: [at, ip, add]
    cacheRaced,     \* a thread changed the table between the two steps of the other
    cacheBegun,     \* the cache was begun by an insertion
    peerStarts      \* how often the program was started again

peerVars == <<nodesTable, nodeListCache, nodeIds, lister, writer, cacheRaced,
              cacheBegun, peerStarts>>

ListIdle == [at |-> "idle", rows |-> <<>>]
WriterIdle == [at |-> "idle", ip |-> <<>>, add |-> FALSE]

PeerInit ==
    /\ nodesTable = <<>> /\ nodeListCache = <<>> /\ nodeIds = 0
    /\ lister = ListIdle /\ writer = WriterIdle
    /\ cacheRaced = FALSE /\ cacheBegun = FALSE /\ peerStarts = 0

-----------------------------------------------------------------------------
(* DatabaseNodeList and nodeList on the main thread.                       *)

\* The rows that are manual or not, of other addresses, of other ids.
RowsBy(manual) == [id : Nat, ip : PeerIps, manual : {manual}]
RowsNotAt(ip) == [id : Nat, ip : PeerIps \ {ip}, manual : BOOLEAN]
RowsBut(id) == [id : Nat \ {id}, ip : PeerIps, manual : BOOLEAN]

\* order by manual desc; every row of the file is of its network.
SelectRows(rows) == Within(rows, RowsBy(TRUE)) \o Within(rows, RowsBy(FALSE))

\* A cache that is not empty is the answer, whatever the table holds.
NodeListRead ==
    /\ lister.at = "idle"
    /\ lister' = IF nodeListCache # <<>> THEN [at |-> "listed", rows |-> nodeListCache]
                 ELSE [at |-> "selected", rows |-> SelectRows(nodesTable)]
    /\ UNCHANGED <<nodesTable, nodeListCache, nodeIds, writer, cacheRaced, cacheBegun,
                   peerStarts>>

NodeListCached ==
    /\ lister.at = "selected"
    /\ nodeListCache' = lister.rows /\ cacheBegun' = FALSE
    /\ lister' = [lister EXCEPT !.at = "listed"]
    /\ UNCHANGED <<nodesTable, nodeIds, writer, cacheRaced, peerStarts>>

\* DatabaseAddNode under nodeListCacheMutex, of one address after the other:
\* the rows and their copies in the cache.  A manual address comes alone.
NewRows(ips, manual) ==
    [i \in 1 .. Len(ips) |-> [id |-> nodeIds + i, ip |-> ips[i], manual |-> manual]]

Insert(ips, manual) ==
    LET rows == NewRows(ips, manual)
    IN  /\ nodesTable' = nodesTable \o rows
        /\ nodeListCache' = IF manual THEN rows \o nodeListCache ELSE nodeListCache \o rows
        /\ nodeIds' = nodeIds + Len(ips)
        /\ cacheBegun' = (cacheBegun \/ nodeListCache = <<>>)

\* nodeList: few nodes are made more by the default peers, known or not.
NodeListDefaults ==
    /\ lister.at = "listed" /\ Len(lister.rows) <= FewNodes
    /\ nodeIds + Len(DefaultPeers) <= MaxNodeIds
    /\ Insert(DefaultPeers, FALSE)
    /\ lister' = ListIdle
    /\ cacheRaced' = (cacheRaced \/ writer.at = "deleted")
    /\ UNCHANGED <<writer, peerStarts>>

\* trimNodeListIfNeeded: no date is old enough, as the time now is not
\* subtracted; a list that is too long is cut at random, manual nodes too.
NodeListEnough ==
    /\ lister.at = "listed" /\ Len(lister.rows) > FewNodes
    /\ lister' = IF Len(lister.rows) < NodeStorage THEN ListIdle ELSE [lister EXCEPT !.at = "trim"]
    /\ UNCHANGED <<nodesTable, nodeListCache, nodeIds, writer, cacheRaced, cacheBegun,
                   peerStarts>>

\* DatabaseRemoveNode of a row of the list, which may have been removed before.
DatabaseRemoveNode(row) ==
    /\ lister.at = "trim" /\ row \in ToSet(lister.rows)
    /\ Len(nodeListCache) > NodeStorage \div 2
    /\ nodesTable' = Within(nodesTable, RowsBut(row.id))
    /\ nodeListCache' = Within(nodeListCache, RowsBut(row.id))
    /\ UNCHANGED <<nodeIds, lister, writer, cacheRaced, cacheBegun, peerStarts>>

NodeListTrimmed ==
    /\ lister.at = "trim" /\ Len(nodeListCache) <= NodeStorage \div 2
    /\ lister' = ListIdle
    /\ UNCHANGED <<nodesTable, nodeListCache, nodeIds, writer, cacheRaced, cacheBegun,
                   peerStarts>>

\* A node that the user adds, on the main thread.
AddManualNode(ip) ==
    /\ lister.at = "idle" /\ nodeIds < MaxNodeIds
    /\ Insert(<<ip>>, TRUE)
    /\ cacheRaced' = (cacheRaced \/ writer.at = "deleted")
    /\ UNCHANGED <<lister, writer, peerStarts>>

-----------------------------------------------------------------------------
(* addressWork and removeWork on the database thread.                      *)

Racing == lister.at = "selected"

RemoveByIpTable(ip, add) ==
    /\ writer.at = "idle"
    /\ writer' = [at |-> "deleted", ip |-> ip, add |-> add]
    /\ nodesTable' = Within(nodesTable, RowsNotAt(ip))
    /\ cacheRaced' = (cacheRaced \/ Racing)
    /\ UNCHANGED <<nodeListCache, nodeIds, lister, cacheBegun, peerStarts>>

\* Mutant: the element after one that was removed is passed over.
DropSkipping(cache, ip) ==
    LET i == SelectInSeq(cache, LAMBDA r : r.ip = ip)
    IN  IF i = 0 THEN cache ELSE RemoveAt(cache, i)
DropCached(cache, ip) == Within(cache, RowsNotAt(ip))

RemoveByIpCache ==
    /\ writer.at = "deleted"
    /\ nodeListCache' = DropCached(nodeListCache, writer.ip)
    /\ writer' = IF writer.add THEN [writer EXCEPT !.at = "add"] ELSE WriterIdle
    /\ cacheRaced' = (cacheRaced \/ Racing)
    /\ UNCHANGED <<nodesTable, nodeIds, lister, cacheBegun, peerStarts>>

AddressAdded ==
    /\ writer.at = "add" /\ nodeIds < MaxNodeIds
    /\ Insert(<<writer.ip>>, FALSE)
    /\ writer' = WriterIdle
    /\ cacheRaced' = (cacheRaced \/ Racing)
    /\ UNCHANGED <<lister, peerStarts>>

\* The process ends anywhere and starts again.
PeerRestart ==
    /\ peerStarts < MaxRestarts
    /\ peerStarts' = peerStarts + 1
    /\ nodeListCache' = <<>> /\ lister' = ListIdle /\ writer' = WriterIdle
    /\ cacheRaced' = FALSE /\ cacheBegun' = FALSE
    /\ UNCHANGED <<nodesTable, nodeIds>>

PeerNext ==
    \/ NodeListRead \/ NodeListCached \/ NodeListDefaults \/ NodeListEnough \/ NodeListTrimmed
    \/ \E row \in ToSet(nodesTable) \cup ToSet(lister.rows) : DatabaseRemoveNode(row)
    \/ RemoveByIpCache \/ AddressAdded
    \/ \E ip \in PeerIps : AddManualNode(ip) \/ \E add \in BOOLEAN : RemoveByIpTable(ip, add)
    \/ PeerRestart

PeerSpec == PeerInit /\ [][PeerNext]_peerVars

-----------------------------------------------------------------------------
(* Properties.                                                             *)

\* The addresses that the program connects to are those of the table: the
\* cache holds only rows of the table (but for the one address that the
\* database thread is about to take out of it), and every row unless an
\* insertion came before the first reading.  It fails to only if the database
\* thread changed the table between select and caching of the list, or the main
\* thread inserted a row between the two deletions of the database thread.
CachedPeersKnown ==
    LET cached == {nodeListCache[i] : i \in DOMAIN nodeListCache}
        rows == {nodesTable[i] : i \in DOMAIN nodesTable}
    IN  ~cacheRaced =>
          /\ \A r \in cached : r \in rows \/ (writer.at = "deleted" /\ r.ip = writer.ip)
          /\ nodeListCache # <<>> /\ ~cacheBegun => rows \subseteq cached
=============================================================================
