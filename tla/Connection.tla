----------------------------- MODULE Connection -----------------------------
(***************************************************************************)
(* One connection to a peer (Node.c): the thread that opens the socket,    *)
(* the version handshake, the framing of packets in both directions, and   *)
(* closing and freeing the node while all that goes on.                    *)
(*                                                                         *)
(* The node manager's thread (which holds nodesMutex) calls the operations *)
(* of the node; the connection thread writes into the node; the kernel     *)
(* takes a bounded number of units that the peer has not read yet.  A      *)
(* packet is a header unit and a payload unit, so that a send or a receive *)
(* may stop in the middle of it; a unit of junk is a byte that begins no   *)
(* header.  Node.c's use by NodeManager.c is kept: a node is connected     *)
(* once, and is freed after it is closed.                                  *)
(***************************************************************************)
EXTENDS Integers, Sequences, Subsequences

CONSTANTS
    PeerPackets,    \* bound: the packets the peer may send, in this order
    SendCap,        \* the units the kernel holds for a peer that does not read
    ReadMax,        \* SINGLE_READ_BUFFER, in units
    BacklogMax,     \* MAX_ALLOWED_BUFFER_BACKLOG, in units
    PacketsPerProcess, \* PACKETS_PER_PROCESS
    MaxSends        \* bound: the packets the node manager sends

\* What the peer sends: the commands received() tells apart, a packet whose
\* checksum is wrong, and bytes that begin no packet.
Packets == {"version", "verack", "ping", "pong", "reject", "malformed", "data",
            "badChecksum", "junk"}

ASSUME ConnectionAssumption ==
    /\ PeerPackets \in Seq(Packets)
    /\ SendCap \in Nat \ {0} /\ ReadMax \in Nat \ {0}
    /\ PacketsPerProcess \in Nat \ {0} /\ MaxSends \in Nat

VARIABLES
    nd,        \* the Node structure, with what it has sent and handled
    con,       \* the connection thread: [pc, attempt, result, cancelled]
    sock,      \* the socket: "none", "open" or "closed"
    closes,    \* how often close was called on the socket
    ndUser,    \* where the node manager's thread is
    arriving,  \* units the peer has sent that have not been received
    peerNext,  \* how many of PeerPackets the peer has sent
    peerGone,  \* the peer's end: "here", "closed" (reads end) or "reset" (sends fail)
    ndSends,   \* how many packets the node manager has sent
    lateConnect, \* the thread wrote into a node that was being closed
    ndAborted  \* NodeProcessPackets has called abort()

connVars == <<nd, con, sock, closes, ndUser, arriving, peerNext, peerGone,
              ndSends, lateConnect, ndAborted>>

Units(packet) == <<[of |-> packet, part |-> "header"], [of |-> packet, part |-> "payload"]>>
Junk == <<[of |-> "junk", part |-> "junk"]>>

-----------------------------------------------------------------------------
(* Sending.                                                                *)

\* NodeNew.
FreshNode ==
    [alloc |-> TRUE, connection |-> -1, connected |-> FALSE, ready |-> FALSE,
     verackSent |-> FALSE, attempt |-> 0, thread |-> FALSE,
     version |-> <<>>, out |-> <<>>, in |-> <<>>, pings |-> 0, pongs |-> 0,
     rejects |-> 0, errors |-> 0, wire |-> <<>>, kernel |-> 0,
     handled |-> <<>>, closed |-> FALSE, undefined |-> FALSE]

\* NodeReset frees the buffers.
NodeReset(n) == [n EXCEPT !.version = <<>>, !.out = <<>>, !.in = <<>>,
                          !.rejects = 0, !.errors = 0]

\* NodeClose, called while the connection thread writes no more.
Closed(n) ==
    NodeReset([n EXCEPT !.connection = -1, !.connected = FALSE, !.ready = FALSE,
                        !.attempt = @ + 1, !.thread = FALSE, !.closed = TRUE])

\* The kernel takes what there is room for; less than all is EAGAIN.
Taken(units, n) == SubSeq(units, 1, IF Len(units) <= SendCap - n.kernel
                                    THEN Len(units) ELSE SendCap - n.kernel)

Pass(n, units) == [n EXCEPT !.wire = @ \o Taken(units, n),
                            !.kernel = @ + Len(Taken(units, n))]

Left(units, n) == SubSeq(units, Len(Taken(units, n)) + 1, Len(units))

SendVersionPacket(n) == [Pass(n, n.version) EXCEPT !.version = Left(n.version, n)]
SendOutput(n) == [Pass(n, n.out) EXCEPT !.out = Left(n.out, n)]

\* Mutant: queued data is not held back until the verack is sent.
HoldsBackVersion(n) == n.version # <<>>

\* Queued data waits for the version packet and for the verack.
HoldsBack(n) == n.version # <<>> \/ ~n.verackSent

\* processVersionAndOutputBuffer; a send that fails closes the node.
ProcessOutput(n, fails) ==
    IF ~n.connected THEN n
    ELSE LET m == IF n.version = <<>> \/ fails THEN n ELSE SendVersionPacket(n)
         IN  IF fails /\ n.version # <<>> THEN Closed(n)
             ELSE IF HoldsBack(m) \/ m.out = <<>> THEN m
             ELSE IF fails THEN Closed(m)
             ELSE SendOutput(m)

SendFails(n, gone) == n.connection = -1 \/ gone = "reset"

\* nodeSend: the verack jumps to the front of the line, the version has a
\* buffer of its own.
NodeSend(n, packet, gone) ==
    LET m == CASE packet = "verack" -> [n EXCEPT !.out = Units("verack") \o @,
                                                 !.verackSent = TRUE]
               [] packet = "version" -> [n EXCEPT !.version = @ \o Units("version")]
               [] OTHER -> [n EXCEPT !.out = @ \o Units(packet)]
    IN  ProcessOutput(m, SendFails(m, gone))

-----------------------------------------------------------------------------
(* Receiving.                                                              *)

\* received: what each command does to the node.  The commands that carry
\* addresses, inventory, headers, blocks and transactions call the delegate
\* ("data"); one whose payload is too short, or counts more than the
\* protocol allows, is only logged ("malformed").
Received(n, packet, gone) ==
    LET m == [n EXCEPT !.handled = Append(@, packet)]
    IN  CASE packet = "version" -> NodeSend(m, "verack", gone)
          [] packet = "verack" -> [m EXCEPT !.ready = TRUE]
          [] packet = "ping" -> NodeSend(m, "pong", gone)
          [] packet = "pong" -> [m EXCEPT !.pongs = @ + 1]
          [] packet = "reject" -> [m EXCEPT !.rejects = @ + 1]
          [] packet = "malformed" -> [m EXCEPT !.errors = @ + 1]
          [] packet = "data" -> m

\* Mutant: the header of a packet that is not complete is consumed.
RestAfterShort(units) == Tail(units)

\* A packet whose payload has not arrived stays in the buffer.
RestOfShort(units) == units

\* A header whose payload has not arrived is all that is left.
Incomplete(units) == Len(units) = 1 /\ units[1].part = "header"

\* One round of the loop of processInputBuffer over what is left of the buffer,
\* which changes nothing once the loop has ended.  A unit that begins no header
\* is skipped, a packet with a wrong checksum is dropped.
InputRound(s, gone) ==
    IF s.n.closed \/ s.units = <<>> \/ Incomplete(s.units) THEN s
    ELSE IF s.units[1].part # "header" THEN [n |-> s.n, units |-> Tail(s.units)]
    ELSE [n |-> IF s.units[1].of = "badChecksum" THEN [s.n EXCEPT !.errors = @ + 1]
                ELSE Received(s.n, s.units[1].of, gone),
          units |-> SubSeq(s.units, 3, Len(s.units))]

\* The loop, of at most PacketsPerProcess rounds.  When handling a packet closes
\* the node, the buffer is gone and what the loop goes on to read is undefined.
InputLoop(n, units, gone) ==
    LET after[k \in 0 .. PacketsPerProcess] ==
            IF k = 0 THEN [n |-> n, units |-> units] ELSE InputRound(after[k - 1], gone)
        end == after[PacketsPerProcess]
    IN  IF end.n.closed THEN [end.n EXCEPT !.undefined = TRUE]
        ELSE [end.n EXCEPT !.in = IF Incomplete(end.units) THEN RestOfShort(end.units)
                                  ELSE end.units]

ProcessInput(n, gone) == IF n.in = <<>> THEN n ELSE InputLoop(n, n.in, gone)

\* NodeProcessRead: recv yields k units, or none when the peer has closed.
ProcessRead(n, units, gone) ==
    IF units = <<>> THEN Closed(n)
    ELSE IF Len(n.in) + Len(units) > BacklogMax THEN Closed(n)
    ELSE ProcessInput([n EXCEPT !.in = @ \o units], gone)

-----------------------------------------------------------------------------
(* The node manager's thread.                                              *)

connRest == <<peerNext, peerGone, lateConnect>>

\* A step that closed the node has called close on its socket (unless the
\* connection failed), and has joined the thread, whose cleanup may close it
\* once more.
SocketAfter(n) ==
    IF n.closed /\ ~nd.closed
    THEN /\ sock' = IF sock = "open" THEN "closed" ELSE sock
         /\ closes' = closes + (IF nd.connection # -1 THEN 1 ELSE 0)
                             + (IF con.pc = "cleanup" /\ sock = "open" THEN 1 ELSE 0)
         /\ con' = [con EXCEPT !.pc = "done"]
    ELSE UNCHANGED <<sock, closes, con>>

\* NodeNew and NodeConnect.
NodeConnect ==
    /\ ndUser = "start"
    /\ nd' = [FreshNode EXCEPT !.attempt = 1, !.thread = TRUE]
    /\ con' = [pc |-> "opening", attempt |-> 1, result |-> -1, cancelled |-> FALSE]
    /\ ndUser' = "sendVersion"
    /\ UNCHANGED <<sock, closes, arriving, ndSends, ndAborted>>
    /\ UNCHANGED connRest

\* NodeSendVersion and, right after it, NodeFilterLoad.
NodeSendVersion ==
    /\ ndUser = "sendVersion"
    /\ LET n == NodeSend(nd, "version", peerGone)
       IN  nd' = n /\ SocketAfter(n)
    /\ ndUser' = "filterLoad"
    /\ UNCHANGED <<arriving, ndSends, ndAborted>>
    /\ UNCHANGED connRest

NodeFilterLoad ==
    /\ ndUser = "filterLoad"
    /\ LET n == NodeSend(nd, "filterload", peerGone)
       IN  nd' = n /\ SocketAfter(n)
    /\ ndUser' = "idle"
    /\ UNCHANGED <<arriving, ndSends, ndAborted>>
    /\ UNCHANGED connRest

\* NodeSendPing, NodeGetHeaders, NodeGetData, NodeSendTx, NodeFilterClear and
\* NodeSendHeaders queue a packet; a ping is counted.
NodeSendOne(packet) ==
    /\ ndUser = "idle" /\ ndSends < MaxSends
    /\ LET n == NodeSend(nd, packet, peerGone)
       IN  /\ nd' = [n EXCEPT !.pings = @ + (IF packet = "ping" THEN 1 ELSE 0)]
           /\ SocketAfter(n)
    /\ ndSends' = ndSends + 1
    /\ UNCHANGED <<ndUser, arriving, ndAborted>>
    /\ UNCHANGED connRest

\* The socket is writable while the kernel has room, or when it is broken.
Writable(n) == n.kernel < SendCap \/ peerGone = "reset"
Readable == arriving # <<>> \/ peerGone # "here"

\* NodeProcessPackets: nothing without a socket; then the connection thread
\* is joined, packets left in the buffer are handled, select looks at the
\* socket, what is readable is read and handled, and output is sent.
NodeProcessPackets ==
    /\ ndUser = "idle" /\ ~nd.undefined
    /\ nd.connection # -1 /\ (nd.thread => con.pc = "done")
    /\ LET first == ProcessInput([nd EXCEPT !.thread = FALSE], peerGone)
           after(n) == ProcessOutput(n, SendFails(n, peerGone))
       IN  IF first.closed
           THEN \* select is called with the number of a closed socket
                /\ nd' = first /\ SocketAfter(first)
                /\ ndAborted' = TRUE
                /\ UNCHANGED arriving
           ELSE IF ~Writable(first) /\ ~Readable
           THEN \* select returns 0
                /\ nd' = first
                /\ ndAborted' = TRUE
                /\ UNCHANGED <<arriving, sock, closes, con>>
           ELSE IF Readable
           THEN \E k \in 0 .. ReadMax :
                /\ k <= Len(arriving) /\ (k = 0 <=> arriving = <<>>)
                /\ LET n == after(ProcessRead(first, SubSeq(arriving, 1, k), peerGone))
                   IN  nd' = n /\ SocketAfter(n)
                /\ arriving' = SubSeq(arriving, k + 1, Len(arriving))
                /\ UNCHANGED ndAborted
           ELSE /\ LET n == after(first) IN nd' = n /\ SocketAfter(n)
                /\ UNCHANGED <<arriving, ndAborted>>
    /\ UNCHANGED <<ndUser, ndSends>>
    /\ UNCHANGED connRest

\* NodeClose, which the node manager calls before it frees the node: the
\* socket and the flags first ...
NodeClose ==
    /\ ndUser = "idle"
    /\ sock' = IF nd.connection # -1 THEN "closed" ELSE sock
    /\ closes' = closes + (IF nd.connection # -1 THEN 1 ELSE 0)
    /\ nd' = [nd EXCEPT !.connection = -1, !.connected = FALSE, !.ready = FALSE]
    /\ ndUser' = "closing"
    /\ UNCHANGED <<con, arriving, ndSends, ndAborted>>
    /\ UNCHANGED connRest

\* ... then the attempt is counted and the thread cancelled ...
NodeCloseCancel ==
    /\ ndUser = "closing"
    /\ nd' = [nd EXCEPT !.attempt = @ + 1, !.closed = TRUE]
    /\ con' = [con EXCEPT !.cancelled = nd.thread]
    /\ ndUser' = "joining"
    /\ UNCHANGED <<sock, closes, arriving, ndSends, ndAborted>>
    /\ UNCHANGED connRest

\* pthread_join.
ThreadJoined == nd.thread => con.pc = "done"

\* ... joined, and the buffers freed; NodeFree follows.
NodeCloseJoin ==
    /\ ndUser = "joining" /\ ThreadJoined
    /\ nd' = [NodeReset(nd) EXCEPT !.thread = FALSE]
    /\ ndUser' = "free"
    /\ UNCHANGED <<con, sock, closes, arriving, ndSends, ndAborted>>
    /\ UNCHANGED connRest

NodeFree ==
    /\ ndUser = "free"
    /\ nd' = [NodeReset(nd) EXCEPT !.alloc = FALSE]
    /\ ndUser' = "freed"
    /\ UNCHANGED <<con, sock, closes, arriving, ndSends, ndAborted>>
    /\ UNCHANGED connRest

-----------------------------------------------------------------------------
(* The connection thread.                                                  *)

conRest == <<ndUser, arriving, peerNext, peerGone, ndSends, ndAborted>>

\* openConnection: a socket is made and connected, or closed again.
OpenConnection ==
    /\ con.pc = "opening"
    /\ \/ con' = [con EXCEPT !.pc = "check", !.result = 1] /\ sock' = "open"
       \/ con' = [con EXCEPT !.pc = "check", !.result = -1] /\ sock' = sock
    /\ UNCHANGED <<nd, closes, lateConnect>>
    /\ UNCHANGED conRest

\* A cancelled thread ends while it connects, and closes a socket it has made.
ConnectCancelled ==
    /\ con.pc = "opening" /\ con.cancelled
    /\ con' = [con EXCEPT !.pc = "cleanup"]
    /\ sock' \in {"none", "open"}
    /\ UNCHANGED <<nd, closes, lateConnect>>
    /\ UNCHANGED conRest

CheckAttempt ==
    /\ con.pc = "check"
    /\ con' = [con EXCEPT !.pc = IF con.attempt = nd.attempt THEN "setConnection" ELSE "cleanup"]
    /\ UNCHANGED <<nd, sock, closes, lateConnect>>
    /\ UNCHANGED conRest

SetConnection ==
    /\ con.pc = "setConnection"
    /\ nd' = [nd EXCEPT !.connection = con.result]
    /\ con' = [con EXCEPT !.pc = "setConnected"]
    /\ lateConnect' = (lateConnect \/ ndUser \in {"closing", "joining"})
    /\ UNCHANGED <<sock, closes>>
    /\ UNCHANGED conRest

SetConnected ==
    /\ con.pc = "setConnected"
    /\ nd' = [nd EXCEPT !.connected = TRUE]
    /\ con' = [con EXCEPT !.pc = "cleanup"]
    /\ lateConnect' = (lateConnect \/ ndUser \in {"closing", "joining"})
    /\ UNCHANGED <<sock, closes>>
    /\ UNCHANGED conRest

\* Mutant: the cleanup closes nothing.
NothingToClose == FALSE

\* connectionThreadCleanup closes the socket of a node that is not connected.
CleanupCloses == ~nd.connected /\ sock # "none"

ThreadCleanup ==
    /\ con.pc = "cleanup"
    /\ IF CleanupCloses
       THEN sock' = "closed" /\ closes' = closes + 1
       ELSE UNCHANGED <<sock, closes>>
    /\ con' = [con EXCEPT !.pc = "done"]
    /\ UNCHANGED <<nd, lateConnect>>
    /\ UNCHANGED conRest

-----------------------------------------------------------------------------
(* The peer and the network.                                               *)

peerRest == <<con, sock, closes, ndUser, ndSends, lateConnect, ndAborted>>

UnitsOf(packet) == IF packet = "junk" THEN Junk ELSE Units(packet)

PeerSends ==
    /\ sock = "open" /\ nd.connected /\ peerGone = "here"
    /\ peerNext < Len(PeerPackets)
    /\ peerNext' = peerNext + 1
    /\ arriving' = arriving \o UnitsOf(PeerPackets[peerNext'])
    /\ UNCHANGED <<nd, peerGone>>
    /\ UNCHANGED peerRest

PeerReads ==
    /\ nd.kernel > 0
    /\ nd' = [nd EXCEPT !.kernel = @ - 1]
    /\ UNCHANGED <<arriving, peerNext, peerGone>>
    /\ UNCHANGED peerRest

PeerCloses ==
    /\ sock = "open" /\ peerGone = "here"
    /\ peerGone' \in {"closed", "reset"}
    /\ UNCHANGED <<nd, arriving, peerNext>>
    /\ UNCHANGED peerRest

ConnInit ==
    /\ nd = FreshNode
    /\ con = [pc |-> "done", attempt |-> 0, result |-> -1, cancelled |-> FALSE]
    /\ sock = "none" /\ closes = 0 /\ ndUser = "start"
    /\ arriving = <<>> /\ peerNext = 0 /\ peerGone = "here"
    /\ ndSends = 0 /\ lateConnect = FALSE /\ ndAborted = FALSE

ManagerStep ==
    \/ NodeConnect \/ NodeSendVersion \/ NodeFilterLoad
    \/ \E packet \in {"ping", "getdata"} : NodeSendOne(packet)
    \/ NodeProcessPackets
    \/ NodeClose \/ NodeCloseCancel \/ NodeCloseJoin \/ NodeFree

ThreadStep ==
    \/ OpenConnection \/ ConnectCancelled \/ CheckAttempt
    \/ SetConnection \/ SetConnected \/ ThreadCleanup

PeerStep == PeerSends \/ PeerReads \/ PeerCloses

\* Nothing is explored after abort() or after undefined behaviour.
ConnNext == ~ndAborted /\ ~nd.undefined /\ (ManagerStep \/ ThreadStep \/ PeerStep)

ConnSpec == ConnInit /\ [][ConnNext]_connVars

-----------------------------------------------------------------------------
(* Properties.                                                             *)

\* The i-th packet on the wire, if it is complete there.
WirePacketAt(i) == nd.wire[2 * i - 1].of

\* What the peer reads is a sequence of whole packets, the last one possibly
\* cut: first the version, then the verack, then the queued data, although
\* the verack is put in front of a buffer of which a part may be sent.
WireWellFormed ==
    /\ \A i \in 1 .. Len(nd.wire) :
           /\ nd.wire[i].part = (IF i % 2 = 1 THEN "header" ELSE "payload")
           /\ i % 2 = 0 => nd.wire[i].of = nd.wire[i - 1].of
    /\ Len(nd.wire) >= 1 => WirePacketAt(1) = "version"
    /\ Len(nd.wire) >= 3 => WirePacketAt(2) = "verack"

\* The packets with a right checksum, and those in a sequence of units.
GoodNames == Packets \ {"junk", "badChecksum"}
GoodHeaders == [of : GoodNames, part : {"header"}]
GoodPackets(units) ==
    LET headers == Within(units, GoodHeaders)
    IN  [i \in 1 .. Len(headers) |-> headers[i].of]

\* No packet is lost, repeated or reordered between the socket and the
\* handlers, however the stream is cut into reads and whatever junk is in it:
\* the packets handled, in the buffer and in the socket are the ones sent.
HandledInOrder ==
    (nd.connected /\ ~nd.closed /\ ~nd.undefined) =>
        nd.handled \o GoodPackets(nd.in \o arriving)
            = Within(SubSeq(PeerPackets, 1, peerNext), GoodNames)

\* An open socket belongs to the node or to the connection thread, so that it
\* will be closed, unless the thread stored it into a node that was just being
\* closed (it compares the attempt before it stores); and the thread, which
\* writes into the node, has ended when the node is freed.
SocketsAccounted ==
    /\ (sock = "open" /\ ~lateConnect) => (nd.connection # -1 \/ con.pc # "done")
    /\ con.pc # "done" => nd.alloc
=============================================================================
