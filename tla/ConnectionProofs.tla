-------------------------- MODULE ConnectionProofs --------------------------
(***************************************************************************)
(* Proofs about Connection: the types of the node; every open socket has   *)
(* an owner and the connection thread has ended when the node is freed;    *)
(* the handlers get the peer's packets in order, and the peer reads whole  *)
(* packets in the order of the handshake.                                  *)
(***************************************************************************)
EXTENDS Connection, SubsequenceProofs, NaturalsInduction, WellFoundedInduction, TLAPS

-----------------------------------------------------------------------------
(* Types *)

\* What is in the buffers: units that go out, and units that come in.
OutPackets == {"version", "verack", "filterload", "ping", "pong", "getdata"}
OutUnits == [of : OutPackets, part : {"header", "payload"}]
InUnits == [of : Packets \ {"junk"}, part : {"header", "payload"}]
           \cup [of : {"junk"}, part : {"junk"}]

\* The Node structure.
NodeType ==
    [alloc : BOOLEAN, connection : {-1, 1}, connected : BOOLEAN, ready : BOOLEAN,
     verackSent : BOOLEAN, attempt : Nat, thread : BOOLEAN,
     version : Seq(OutUnits), out : Seq(OutUnits), in : Seq(InUnits),
     pings : Nat, pongs : Nat, rejects : Nat, errors : Nat,
     wire : Seq(OutUnits), kernel : 0 .. SendCap,
     handled : Seq(Packets), closed : BOOLEAN, undefined : BOOLEAN]

\* A node after an operation that leaves the socket and the thread alone, or
\* closes the node.
Shut(n) == n.closed = TRUE /\ n.connection = -1 /\ n.connected = FALSE /\ n.thread = FALSE
Follows(n, m) ==
    /\ m \in NodeType
    /\ m.alloc = n.alloc
    /\ \/ Shut(m)
       \/ /\ m.closed = n.closed /\ m.connection = n.connection
          /\ m.connected = n.connected /\ m.thread = n.thread

-----------------------------------------------------------------------------
(* What the operations do to a node *)

\* An operation that does nothing.
LEMMA FollowsSelf == ASSUME NEW n \in NodeType PROVE Follows(n, n)
BY DEF Follows

\* One operation after another.
LEMMA FollowsTwo ==
    ASSUME NEW n, NEW m, NEW k, Follows(n, m), Follows(m, k)
    PROVE  Follows(n, k)
BY DEF Follows, Shut

\* The header and the payload of a packet that goes out.
LEMMA UnitsType == ASSUME NEW p \in OutPackets PROVE Units(p) \in Seq(OutUnits)
<1>1. [of |-> p, part |-> "header"] \in OutUnits /\ [of |-> p, part |-> "payload"] \in OutUnits
    BY DEF OutUnits
<1>2. QED
    BY <1>1 DEF Units

\* NodeReset frees buffers and leaves the socket and the thread.
LEMMA ResetFollows == ASSUME NEW n \in NodeType PROVE Follows(n, NodeReset(n))
<1>0. ASSUME NEW v \in Seq(OutUnits), NEW i \in Seq(InUnits), NEW c \in Nat
      PROVE  [n EXCEPT !.version = v, !.out = v, !.in = i, !.rejects = c, !.errors = c]
                 \in NodeType
    BY DEF NodeType
<1>1. NodeReset(n) \in NodeType
    <2>1. <<>> \in Seq(OutUnits) /\ <<>> \in Seq(InUnits) /\ 0 \in Nat
        OBVIOUS
    <2>2. QED
        BY <1>0, <2>1, Zenon DEF NodeReset
<1>2. /\ NodeReset(n).alloc = n.alloc /\ NodeReset(n).closed = n.closed
      /\ NodeReset(n).connection = n.connection
      /\ NodeReset(n).connected = n.connected /\ NodeReset(n).thread = n.thread
    BY DEF NodeType, NodeReset
<1>3. QED
    BY <1>1, <1>2 DEF Follows

\* NodeClose leaves neither socket nor thread.
LEMMA ClosedFollows ==
    ASSUME NEW n \in NodeType
    PROVE  Follows(n, Closed(n)) /\ Shut(Closed(n))
<1> DEFINE m == [n EXCEPT !.connection = -1, !.connected = FALSE, !.ready = FALSE,
                          !.attempt = @ + 1, !.thread = FALSE, !.closed = TRUE]
<1>0. ASSUME NEW c \in {-1, 1}, NEW a \in Nat, NEW no \in BOOLEAN, NEW yes \in BOOLEAN
      PROVE  [n EXCEPT !.connection = c, !.connected = no, !.ready = no,
                       !.attempt = a, !.thread = no, !.closed = yes] \in NodeType
    BY DEF NodeType
<1>1. m \in NodeType
    <2>1. n.attempt + 1 \in Nat /\ -1 \in {-1, 1} /\ TRUE \in BOOLEAN /\ FALSE \in BOOLEAN
        BY DEF NodeType
    <2>2. QED
        BY <1>0, <2>1
<1>2. m.alloc = n.alloc /\ Shut(m)
    BY DEF NodeType, Shut
<1>3. Follows(m, NodeReset(m)) /\ Closed(n) = NodeReset(m)
    BY <1>1, ResetFollows DEF Closed
<1>4. QED
    BY <1>2, <1>3 DEF Follows, Shut

\* What the kernel takes fits, and what is left is kept.
LEMMA TakenType ==
    ASSUME NEW n \in NodeType, NEW units \in Seq(OutUnits)
    PROVE  /\ Taken(units, n) \in Seq(OutUnits)
           /\ Len(Taken(units, n)) \in Nat
           /\ n.kernel + Len(Taken(units, n)) \in 0 .. SendCap
           /\ Left(units, n) \in Seq(OutUnits)
<1>1. n.kernel \in 0 .. SendCap /\ SendCap \in Nat
    BY ConnectionAssumption DEF NodeType
<1>2. QED
    BY <1>1 DEF Taken, Left

\* A send that does not fail moves units only.
LEMMA SendFollows ==
    ASSUME NEW n \in NodeType
    PROVE  Follows(n, SendVersionPacket(n)) /\ Follows(n, SendOutput(n))
<1>1. ASSUME NEW units \in Seq(OutUnits) PROVE Follows(n, Pass(n, units))
    <2>1. n.wire \o Taken(units, n) \in Seq(OutUnits)
        BY TakenType DEF NodeType
    <2>2. QED
        BY <2>1, TakenType DEF NodeType, Pass, Follows
<1>2. ASSUME NEW m \in NodeType, NEW units \in Seq(OutUnits)
      PROVE  Follows(m, [m EXCEPT !.version = units]) /\ Follows(m, [m EXCEPT !.out = units])
    BY DEF NodeType, Follows
<1>3. n.version \in Seq(OutUnits) /\ n.out \in Seq(OutUnits)
    BY DEF NodeType
<1>4. Follows(n, SendVersionPacket(n))
    <2>1. Follows(n, Pass(n, n.version)) /\ Left(n.version, n) \in Seq(OutUnits)
        BY <1>1, <1>3, TakenType
    <2>2. Follows(Pass(n, n.version), SendVersionPacket(n))
        BY <1>2, <2>1 DEF SendVersionPacket, Follows
    <2>3. QED
        BY <2>1, <2>2, FollowsTwo
<1>5. Follows(n, SendOutput(n))
    <2>1. Follows(n, Pass(n, n.out)) /\ Left(n.out, n) \in Seq(OutUnits)
        BY <1>1, <1>3, TakenType
    <2>2. Follows(Pass(n, n.out), SendOutput(n))
        BY <1>2, <2>1 DEF SendOutput, Follows
    <2>3. QED
        BY <2>1, <2>2, FollowsTwo
<1>6. QED
    BY <1>4, <1>5

\* processVersionAndOutputBuffer sends, or closes the node.
LEMMA OutputFollows ==
    ASSUME NEW n \in NodeType, NEW fails \in BOOLEAN
    PROVE  Follows(n, ProcessOutput(n, fails))
<1> DEFINE m == IF n.version = <<>> \/ fails THEN n ELSE SendVersionPacket(n)
<1>1. Follows(n, m) /\ m \in NodeType
    BY FollowsSelf, SendFollows DEF Follows
<1>2. Follows(n, n) /\ Follows(n, Closed(n))
    BY FollowsSelf, ClosedFollows
<1>3. Follows(n, Closed(m)) /\ Follows(n, SendOutput(m))
    BY <1>1, ClosedFollows, SendFollows, FollowsTwo
<1>4. QED
    BY <1>1, <1>2, <1>3 DEF ProcessOutput

\* nodeSend queues a packet and sends what it can.
LEMMA NodeSendFollows ==
    ASSUME NEW n \in NodeType, NEW packet \in OutPackets, NEW gone
    PROVE  Follows(n, NodeSend(n, packet, gone))
<1> DEFINE m == CASE packet = "verack" -> [n EXCEPT !.out = Units("verack") \o @,
                                                    !.verackSent = TRUE]
                  [] packet = "version" -> [n EXCEPT !.version = @ \o Units("version")]
                  [] OTHER -> [n EXCEPT !.out = @ \o Units(packet)]
<1>1. /\ Units("verack") \o n.out \in Seq(OutUnits)
      /\ n.version \o Units("version") \in Seq(OutUnits)
      /\ n.out \o Units(packet) \in Seq(OutUnits)
    <2>1. Units("verack") \in Seq(OutUnits) /\ Units("version") \in Seq(OutUnits)
          /\ Units(packet) \in Seq(OutUnits)
        BY UnitsType DEF OutPackets
    <2>2. QED
        BY <2>1 DEF NodeType
<1>2. Follows(n, [n EXCEPT !.out = Units("verack") \o @, !.verackSent = TRUE])
    BY <1>1 DEF NodeType, Follows
<1>3. Follows(n, [n EXCEPT !.version = @ \o Units("version")])
    BY <1>1 DEF NodeType, Follows
<1>4. Follows(n, [n EXCEPT !.out = @ \o Units(packet)])
    BY <1>1 DEF NodeType, Follows
<1>5. Follows(n, m)
    BY <1>2, <1>3, <1>4
<1>6. SendFails(m, gone) \in BOOLEAN
    BY DEF SendFails
<1>7. Follows(m, ProcessOutput(m, SendFails(m, gone)))
    <2>1. m \in NodeType
        BY <1>5 DEF Follows
    <2> HIDE DEF m
    <2>2. QED
        BY <1>6, <2>1, OutputFollows
<1>8. NodeSend(n, packet, gone) = ProcessOutput(m, SendFails(m, gone))
    BY DEF NodeSend
<1>9. QED
    BY <1>5, <1>7, <1>8, FollowsTwo

\* The counters of the node count on.
LEMMA CountersGrow ==
    ASSUME NEW k \in NodeType
    PROVE  k.pongs + 1 \in Nat /\ k.rejects + 1 \in Nat /\ k.errors + 1 \in Nat
<1>1. k.pongs \in Nat /\ k.rejects \in Nat /\ k.errors \in Nat
    BY DEF NodeType
<1>2. QED
    BY <1>1

\* Every command that received() knows is an operation of this kind.
LEMMA ReceivedFollows ==
    ASSUME NEW n \in NodeType, NEW packet \in Packets \ {"badChecksum", "junk"}, NEW gone
    PROVE  Follows(n, Received(n, packet, gone))
<1> DEFINE m == [n EXCEPT !.handled = Append(@, packet)]
<1>1. Append(n.handled, packet) \in Seq(Packets)
    BY DEF NodeType
<1>2. Follows(n, m) /\ m \in NodeType
    BY <1>1 DEF NodeType, Follows
<1>3. Follows(m, NodeSend(m, "verack", gone)) /\ Follows(m, NodeSend(m, "pong", gone))
    BY <1>2, NodeSendFollows DEF OutPackets
<1>4. Follows(m, [m EXCEPT !.ready = TRUE])
    BY <1>2 DEF NodeType, Follows
<1>6. ASSUME NEW k \in NodeType, NEW c \in Nat
      PROVE  /\ Follows(k, [k EXCEPT !.pongs = c]) /\ Follows(k, [k EXCEPT !.rejects = c])
             /\ Follows(k, [k EXCEPT !.errors = c])
    BY DEF NodeType, Follows
<1>7. /\ Follows(m, [m EXCEPT !.pongs = @ + 1])
      /\ Follows(m, [m EXCEPT !.rejects = @ + 1])
      /\ Follows(m, [m EXCEPT !.errors = @ + 1])
    <2> HIDE DEF m
    <2>1. QED
        BY <1>2, <1>6, CountersGrow
<1>8. Follows(m, m)
    BY <1>2, FollowsSelf
<1>9. Follows(m, Received(n, packet, gone))
    BY <1>3, <1>4, <1>7, <1>8 DEF Received, Packets
<1>10. QED
    BY <1>2, <1>9, FollowsTwo

-----------------------------------------------------------------------------
(* The loop over the input buffer *)

\* Between two rounds.
Rounds == [n : NodeType, units : Seq(InUnits)]

\* A header begins a packet that received() knows, or one to drop.
LEMMA HeaderKnown ==
    ASSUME NEW u \in InUnits, u.part = "header"
    PROVE  u.of \in Packets \ {"junk"}
BY DEF InUnits

\* So is a round of the loop.
LEMMA RoundFollows ==
    ASSUME NEW s \in Rounds, NEW gone
    PROVE  InputRound(s, gone) \in Rounds /\ Follows(s.n, InputRound(s, gone).n)
<1>1. s.n \in NodeType /\ s.units \in Seq(InUnits) /\ Follows(s.n, s.n)
    BY FollowsSelf DEF Rounds
<1>2. CASE s.n.closed \/ s.units = <<>> \/ Incomplete(s.units)
    BY <1>1, <1>2 DEF InputRound
<1>3. CASE ~(s.n.closed \/ s.units = <<>> \/ Incomplete(s.units))
    <2>1. Tail(s.units) \in Seq(InUnits) /\ s.units[1] \in InUnits
        BY <1>1, <1>3
    <2>2. Len(s.units) \in Nat /\ SubSeq(s.units, 3, Len(s.units)) \in Seq(InUnits)
        BY <1>1, <1>3
    <2>3. CASE s.units[1].part # "header"
        <3>1. InputRound(s, gone) = [n |-> s.n, units |-> Tail(s.units)]
            BY <1>3, <2>3 DEF InputRound
        <3>2. QED
            BY <1>1, <2>1, <3>1 DEF Rounds
    <2>4. CASE s.units[1].part = "header"
        <3> DEFINE m == IF s.units[1].of = "badChecksum" THEN [s.n EXCEPT !.errors = @ + 1]
                        ELSE Received(s.n, s.units[1].of, gone)
        <3>1. InputRound(s, gone) = [n |-> m, units |-> SubSeq(s.units, 3, Len(s.units))]
            BY <1>3, <2>4 DEF InputRound
        <3>2. ASSUME NEW k \in NodeType, NEW c \in Nat
              PROVE  Follows(k, [k EXCEPT !.errors = c])
            BY DEF NodeType, Follows
        <3>3. s.n.errors + 1 \in Nat
            BY <1>1 DEF NodeType
        <3>4. Follows(s.n, [s.n EXCEPT !.errors = @ + 1])
            BY <1>1, <3>2, <3>3
        <3>5. s.units[1].of # "badChecksum" => s.units[1].of \in Packets \ {"badChecksum", "junk"}
            BY <2>1, <2>4, HeaderKnown
        <3>6. Follows(s.n, m)
            BY <1>1, <3>4, <3>5, ReceivedFollows
        <3>7. m \in NodeType
            BY <3>6 DEF Follows
        <3> HIDE DEF m
        <3>8. QED
            BY <2>2, <3>1, <3>6, <3>7 DEF Rounds
    <2>5. QED
        BY <2>3, <2>4
<1>4. QED
    BY <1>2, <1>3

\* f is what a loop of N rounds that begins with s goes through.
Loops(f, N, s, gone) ==
    f = [k \in 0 .. N |-> IF k = 0 THEN s ELSE InputRound(f[k - 1], gone)]

\* There is such a function, of states between two rounds that all follow the
\* first.
LEMMA LoopExists ==
    ASSUME NEW s \in Rounds, NEW gone, NEW N \in Nat
    PROVE  \E f \in [0 .. N -> Rounds] : Loops(f, N, s, gone)
<1> DEFINE Good(k) == \E f \in [0 .. k -> Rounds] : Loops(f, k, s, gone)
           Bad == {k \in Nat : ~Good(k)}
<1>1. SUFFICES ASSUME Bad # {} PROVE FALSE
    OBVIOUS
<1>2. PICK k \in Bad : \A j \in Bad : ~(<<j, k>> \in OpToRel(<, Nat))
    BY <1>1, WFMin, NatLessThanWellFounded
<1>3. k \in Nat /\ \A j \in Bad : ~(j < k)
    BY <1>2 DEF OpToRel
<1>4. CASE k = 0
    <2> DEFINE f == [i \in 0 .. 0 |-> s]
    <2>1. f \in [0 .. 0 -> Rounds] /\ Loops(f, 0, s, gone)
        BY DEF Loops
    <2>2. QED
        BY <1>4, <2>1
<1>5. CASE k # 0
    <2>1. k - 1 \in Nat /\ Good(k - 1)
        BY <1>3, <1>5
    <2>2. PICK f \in [0 .. k - 1 -> Rounds] : Loops(f, k - 1, s, gone)
        BY <2>1
    <2> DEFINE g == [i \in 0 .. k |-> IF i = k THEN InputRound(f[k - 1], gone) ELSE f[i]]
    <2>3. f[k - 1] \in Rounds
        BY <2>1, <2>2
    <2>4. InputRound(f[k - 1], gone) \in Rounds
        BY <2>3, RoundFollows
    <2>5. g \in [0 .. k -> Rounds]
        BY <1>3, <2>2, <2>4
    <2>6. \A i \in 0 .. k - 1 : f[i] = IF i = 0 THEN s ELSE InputRound(f[i - 1], gone)
        BY <2>2 DEF Loops
    <2>7. \A i \in 0 .. k : g[i] = IF i = 0 THEN s ELSE InputRound(g[i - 1], gone)
        <3> SUFFICES ASSUME NEW i \in 0 .. k
                     PROVE  g[i] = IF i = 0 THEN s ELSE InputRound(g[i - 1], gone)
            OBVIOUS
        <3>1. i # 0 => i - 1 \in 0 .. k - 1 /\ g[i - 1] = f[i - 1]
            BY <1>3
        <3>2. CASE i = k
            BY <1>3, <1>5, <3>1, <3>2
        <3>3. CASE i # k
            BY <1>3, <2>6, <3>1, <3>3
        <3>4. QED
            BY <3>2, <3>3
    <2>8. Loops(g, k, s, gone)
        BY <2>5, <2>7 DEF Loops
    <2>9. QED
        BY <1>3, <2>5, <2>8
<1>6. QED
    BY <1>4, <1>5

\* What the loop comes to.
LEMMA LoopEnds ==
    ASSUME NEW s \in Rounds, NEW gone, NEW N \in Nat, NEW f, Loops(f, N, s, gone)
    PROVE  \A k \in 0 .. N : f[k] \in Rounds /\ Follows(s.n, f[k].n)
<1> DEFINE Good(k) == f[k] \in Rounds /\ Follows(s.n, f[k].n)
           Bad == {k \in 0 .. N : ~Good(k)}
<1>0. \A k \in 0 .. N : f[k] = IF k = 0 THEN s ELSE InputRound(f[k - 1], gone)
    BY DEF Loops
<1>1. SUFFICES ASSUME Bad # {} PROVE FALSE
    OBVIOUS
<1>2. PICK k \in Bad : \A j \in Bad : ~(<<j, k>> \in OpToRel(<, Nat))
    <2>1. Bad \subseteq Nat
        OBVIOUS
    <2> HIDE DEF Bad
    <2>2. QED
        BY <1>1, <2>1, WFMin, NatLessThanWellFounded
<1>3. k \in 0 .. N /\ ~Good(k) /\ \A j \in Bad : ~(j < k)
    <2>1. k \in 0 .. N /\ ~Good(k) /\ \A j \in Bad : j \in Nat
        OBVIOUS
    <2> HIDE DEF Bad, Good
    <2>2. QED
        BY <1>2, <2>1 DEF OpToRel
<1>4. CASE k = 0
    BY <1>0, <1>3, <1>4, FollowsSelf DEF Rounds
<1>5. CASE k # 0
    <2>1. k - 1 \in 0 .. N /\ Good(k - 1)
        BY <1>3, <1>5
    <2>2. f[k] = InputRound(f[k - 1], gone)
        BY <1>0, <1>3, <1>5
    <2>3. f[k] \in Rounds /\ Follows(f[k - 1].n, f[k].n)
        BY <2>1, <2>2, RoundFollows
    <2>4. QED
        BY <1>3, <2>1, <2>3, FollowsTwo
<1>6. QED
    BY <1>4, <1>5

\* So is the whole loop: its recursive function exists, and its last value
\* follows the first.
LEMMA InputLoopFollows ==
    ASSUME NEW n \in NodeType, NEW units \in Seq(InUnits), NEW gone
    PROVE  Follows(n, InputLoop(n, units, gone))
<1> DEFINE s == [n |-> n, units |-> units]
           after == CHOOSE f : Loops(f, PacketsPerProcess, s, gone)
           end == after[PacketsPerProcess]
<1>1. s \in Rounds /\ PacketsPerProcess \in Nat
    BY ConnectionAssumption DEF Rounds
<1>2. Loops(after, PacketsPerProcess, s, gone)
    <2> HIDE DEF s
    <2>1. \E f : Loops(f, PacketsPerProcess, s, gone)
        BY <1>1, LoopExists
    <2>2. QED
        BY <2>1
<1>3. end \in Rounds /\ Follows(n, end.n)
    <2>1. s.n = n
        OBVIOUS
    <2> HIDE DEF s, after
    <2>2. PacketsPerProcess \in 0 .. PacketsPerProcess
        BY <1>1
    <2>3. \A k \in 0 .. PacketsPerProcess : after[k] \in Rounds /\ Follows(s.n, after[k].n)
        BY <1>1, <1>2, LoopEnds
    <2>4. QED
        BY <2>1, <2>2, <2>3
<1>4. InputLoop(n, units, gone)
        = IF end.n.closed THEN [end.n EXCEPT !.undefined = TRUE]
          ELSE [end.n EXCEPT !.in = IF Incomplete(end.units) THEN RestOfShort(end.units)
                                    ELSE end.units]
    BY Zenon DEF InputLoop, Loops
<1> HIDE DEF end
<1>5. end.n \in NodeType /\ end.units \in Seq(InUnits)
    BY <1>3 DEF Rounds
<1>6. ASSUME NEW k \in NodeType, NEW u \in Seq(InUnits)
      PROVE  Follows(k, [k EXCEPT !.undefined = TRUE]) /\ Follows(k, [k EXCEPT !.in = u])
    BY DEF NodeType, Follows
<1>7. Follows(end.n, InputLoop(n, units, gone))
    BY <1>4, <1>5, <1>6 DEF RestOfShort
<1>8. QED
    BY <1>3, <1>7, FollowsTwo

\* processInputBuffer.
LEMMA InputFollows ==
    ASSUME NEW n \in NodeType, NEW gone
    PROVE  Follows(n, ProcessInput(n, gone))
<1>1. n.in \in Seq(InUnits)
    BY DEF NodeType
<1>2. QED
    BY <1>1, FollowsSelf, InputLoopFollows DEF ProcessInput

\* NodeProcessRead reads into the buffer and handles it, or closes the node.
LEMMA ReadFollows ==
    ASSUME NEW n \in NodeType, NEW units \in Seq(InUnits), NEW gone
    PROVE  Follows(n, ProcessRead(n, units, gone))
<1>1. n.in \o units \in Seq(InUnits)
    BY DEF NodeType
<1>2. ASSUME NEW u \in Seq(InUnits)
      PROVE  Follows(n, [n EXCEPT !.in = u])
    BY DEF NodeType, Follows
<1>3. Follows(n, [n EXCEPT !.in = @ \o units])
    BY <1>1, <1>2
<1>4. Follows([n EXCEPT !.in = @ \o units], ProcessInput([n EXCEPT !.in = @ \o units], gone))
    BY <1>3, InputFollows DEF Follows
<1>5. QED
    BY <1>3, <1>4, FollowsTwo, ClosedFollows DEF ProcessRead

-----------------------------------------------------------------------------
(* The inductive invariant *)

\* Where the connection thread can be, and the node manager's thread.
ThreadType ==
    [pc : {"opening", "check", "setConnection", "setConnected", "cleanup", "done"},
     attempt : Nat, result : {-1, 1}, cancelled : BOOLEAN]
Using == {"sendVersion", "filterLoad", "idle"}

ConnTypes ==
    /\ nd \in NodeType
    /\ con \in ThreadType
    /\ sock \in {"none", "open", "closed"}
    /\ ndUser \in {"start", "closing", "joining", "free", "freed"} \cup Using
    /\ arriving \in Seq(InUnits)
    /\ peerNext \in Nat
    /\ lateConnect \in BOOLEAN

\* The node outlives the thread, since whoever frees it has joined it; a node is
\* connected only when the thread has written its last field; and a node that
\* was closed while it was in use has neither socket nor thread.
ThreadInv ==
    /\ con.pc # "done" => nd.thread = TRUE /\ nd.alloc = TRUE
    /\ ndUser \in {"start", "free", "freed"} => con.pc = "done"
    /\ nd.connected = TRUE => con.pc \in {"cleanup", "done"}
    /\ nd.closed = TRUE /\ ndUser \in Using =>
           con.pc = "done" /\ nd.connection = -1 /\ nd.connected = FALSE

\* An open socket is the thread's until the thread has stored it; from then on
\* the node has it, unless it was stored into a node that was being closed.
SocketInv ==
    /\ ndUser = "start" => sock # "open"
    /\ con.pc = "opening" => sock # "open"
    /\ con.pc \in {"check", "setConnection", "setConnected"} /\ sock = "open" => con.result = 1
    /\ sock = "open" /\ lateConnect = FALSE =>
           /\ nd.connection # -1 \/ con.pc # "done"
           /\ con.pc = "setConnected" => nd.connection # -1
           /\ nd.connected = TRUE => nd.connection # -1

ConnInv == ConnTypes /\ ThreadInv /\ SocketInv

\* What an operation of the node manager's thread may make of the node.
Becomes(n) ==
    /\ n \in NodeType
    /\ n.alloc = nd.alloc
    /\ \/ Shut(n)
       \/ /\ n.closed = nd.closed /\ n.connection = nd.connection
          /\ n.connected = nd.connected
          /\ n.thread = nd.thread \/ con.pc = "done"

\* Whatever operation the node manager's thread performs: if it closes the node,
\* the socket is closed and the thread joined, and otherwise both stay with
\* whom they were.
LEMMA OperationKeeps ==
    ASSUME ConnInv, NEW n, Becomes(n), SocketAfter(n), nd' \in NodeType,
           nd'.alloc = n.alloc, nd'.closed = n.closed, nd'.connection = n.connection,
           nd'.connected = n.connected, nd'.thread = n.thread,
           ndUser \in Using, ndUser' \in Using, lateConnect' = lateConnect
    PROVE  ThreadInv' /\ SocketInv' /\ con' \in ThreadType /\ sock' \in {"none", "open", "closed"}
<1>0. /\ con \in ThreadType /\ nd \in NodeType /\ n \in NodeType
      /\ sock \in {"none", "open", "closed"}
      /\ n.closed \in BOOLEAN /\ nd.closed \in BOOLEAN
    BY DEF ConnInv, ConnTypes, Becomes, NodeType
<1>1. CASE n.closed /\ ~nd.closed
    <2>1. Shut(n)
        BY <1>0, <1>1 DEF Becomes
    <2>2. /\ sock' = IF sock = "open" THEN "closed" ELSE sock
          /\ con' = [con EXCEPT !.pc = "done"]
        BY <1>1 DEF SocketAfter
    <2>3. con'.pc = "done" /\ con' \in ThreadType /\ sock' # "open"
          /\ sock' \in {"none", "open", "closed"}
        BY <1>0, <2>2 DEF ThreadType
    <2>4. nd'.connected = FALSE /\ nd'.connection = -1
        BY <2>1 DEF Shut
    <2>5. ThreadInv'
        BY <2>3, <2>4 DEF ThreadInv
    <2>6. SocketInv'
        BY <2>3 DEF SocketInv, Using
    <2>7. QED
        BY <2>3, <2>5, <2>6
<1>2. CASE ~(n.closed /\ ~nd.closed)
    <2>1. sock' = sock /\ con' = con
        BY <1>2 DEF SocketAfter
    <2>2. CASE Shut(n)
        <3>1. nd.closed = TRUE
            BY <1>0, <1>2, <2>2 DEF Shut
        <3>2. con.pc = "done" /\ nd.connection = -1
            BY <3>1 DEF ConnInv, ThreadInv
        <3>3. nd'.connected = FALSE /\ nd'.connection = -1
            BY <2>2 DEF Shut
        <3>4. ThreadInv'
            BY <2>1, <3>2, <3>3 DEF ThreadInv
        <3>5. SocketInv'
            BY <2>1, <3>2, <3>3 DEF SocketInv, ConnInv, Using
        <3>6. QED
            BY <1>0, <2>1, <3>4, <3>5
    <2>3. CASE ~Shut(n)
        <3>1. /\ nd'.closed = nd.closed /\ nd'.connection = nd.connection
              /\ nd'.connected = nd.connected /\ nd'.alloc = nd.alloc
              /\ nd'.thread = nd.thread \/ con.pc = "done"
            BY <2>3 DEF Becomes
        <3>2. ThreadInv'
            BY <2>1, <3>1 DEF ThreadInv, ConnInv, Using
        <3>3. SocketInv'
            BY <2>1, <3>1 DEF SocketInv, ConnInv, Using
        <3>4. QED
            BY <1>0, <2>1, <3>2, <3>3
    <2>4. QED
        BY <2>2, <2>3
<1>3. QED
    BY <1>1, <1>2

\* An operation that follows from the node as it is.
LEMMA FollowsBecomes == ASSUME NEW n, Follows(nd, n) PROVE Becomes(n)
BY DEF Follows, Becomes

\* NodeSendVersion and NodeFilterLoad.
LEMMA SendKeeps ==
    ASSUME ConnInv, NodeSendVersion \/ NodeFilterLoad
    PROVE  ConnInv'
<1>0. nd \in NodeType /\ arriving \in Seq(InUnits) /\ peerNext \in Nat /\ lateConnect \in BOOLEAN
    BY DEF ConnInv, ConnTypes
<1>1. /\ ndUser \in Using /\ ndUser' \in Using
      /\ UNCHANGED <<arriving, peerNext, lateConnect>>
    BY DEF NodeSendVersion, NodeFilterLoad, connRest, Using
<1>2. PICK packet \in OutPackets : LET n == NodeSend(nd, packet, peerGone)
                                   IN  nd' = n /\ SocketAfter(n)
    BY DEF NodeSendVersion, NodeFilterLoad, OutPackets
<1> DEFINE n == NodeSend(nd, packet, peerGone)
<1>3. nd' = n /\ SocketAfter(n)
    BY <1>2
<1>4. Becomes(n) /\ n \in NodeType
    BY <1>0, NodeSendFollows, FollowsBecomes DEF Becomes
<1> HIDE DEF n
<1>5. ThreadInv' /\ SocketInv' /\ con' \in ThreadType /\ sock' \in {"none", "open", "closed"}
    BY <1>1, <1>3, <1>4, OperationKeeps
<1>6. QED
    BY <1>0, <1>1, <1>3, <1>4, <1>5 DEF ConnInv, ConnTypes

\* The other packets that the node manager sends.
LEMMA SendOneKeeps ==
    ASSUME ConnInv, NEW packet \in {"ping", "getdata"}, NodeSendOne(packet)
    PROVE  ConnInv'
<1>0. nd \in NodeType /\ arriving \in Seq(InUnits) /\ peerNext \in Nat /\ lateConnect \in BOOLEAN
    BY DEF ConnInv, ConnTypes
<1> DEFINE n == NodeSend(nd, packet, peerGone)
           count == n.pings + (IF packet = "ping" THEN 1 ELSE 0)
<1>1. /\ ndUser \in Using /\ ndUser' \in Using
      /\ UNCHANGED <<arriving, peerNext, lateConnect>>
    BY DEF NodeSendOne, connRest, Using
<1>2. nd' = [n EXCEPT !.pings = count] /\ SocketAfter(n)
    BY DEF NodeSendOne
<1>3. Becomes(n) /\ n \in NodeType
    BY <1>0, NodeSendFollows, FollowsBecomes DEF Becomes, OutPackets
<1>4. count \in Nat
    <2> HIDE DEF n
    <2>1. n.pings \in Nat
        BY <1>3 DEF NodeType
    <2>2. QED
        BY <2>1
<1> HIDE DEF n, count
<1>5. /\ nd' \in NodeType
      /\ nd'.alloc = n.alloc /\ nd'.closed = n.closed /\ nd'.connection = n.connection
      /\ nd'.connected = n.connected /\ nd'.thread = n.thread
    BY <1>2, <1>3, <1>4 DEF NodeType
<1>6. ThreadInv' /\ SocketInv' /\ con' \in ThreadType /\ sock' \in {"none", "open", "closed"}
    BY <1>1, <1>2, <1>3, <1>5, OperationKeeps
<1>7. QED
    BY <1>0, <1>1, <1>5, <1>6 DEF ConnInv, ConnTypes

\* NodeProcessPackets, which runs only once the thread has ended.
LEMMA ProcessKeeps ==
    ASSUME ConnInv, NodeProcessPackets
    PROVE  ConnInv'
<1>0. nd \in NodeType /\ arriving \in Seq(InUnits) /\ peerNext \in Nat /\ lateConnect \in BOOLEAN
    BY DEF ConnInv, ConnTypes
<1>1. /\ ndUser \in Using /\ ndUser' \in Using
      /\ UNCHANGED <<peerNext, lateConnect>> /\ (nd.thread => con.pc = "done")
    BY DEF NodeProcessPackets, connRest, Using
<1>2. con.pc = "done"
    BY <1>1 DEF ConnInv, ThreadInv
<1> DEFINE m == [nd EXCEPT !.thread = FALSE]
           first == ProcessInput(m, peerGone)
           after(n) == ProcessOutput(n, SendFails(n, peerGone))
<1>3. /\ m \in NodeType /\ m.alloc = nd.alloc /\ m.closed = nd.closed
      /\ m.connection = nd.connection /\ m.connected = nd.connected
    BY <1>0 DEF NodeType
<1>4. ASSUME NEW n, Follows(m, n) PROVE Becomes(n) /\ n \in NodeType
    BY <1>2, <1>3, <1>4 DEF Follows, Becomes
<1> HIDE DEF m
<1>5. Follows(m, first) /\ first \in NodeType
    BY <1>3, InputFollows DEF Follows
<1>6. ASSUME NEW n \in NodeType PROVE Follows(n, after(n))
    BY OutputFollows DEF SendFails
<1>7. ASSUME NEW k \in 0 .. ReadMax, k <= Len(arriving)
      PROVE  /\ SubSeq(arriving, 1, k) \in Seq(InUnits)
             /\ SubSeq(arriving, k + 1, Len(arriving)) \in Seq(InUnits)
    BY <1>0, <1>7, ConnectionAssumption
<1>8. \E n : Becomes(n) /\ nd' = n /\ SocketAfter(n) /\ arriving' \in Seq(InUnits)
    <2>1. CASE first.closed
        <3>1. nd' = first /\ SocketAfter(first) /\ arriving' = arriving
            BY <2>1 DEF NodeProcessPackets, m
        <3>2. QED
            BY <1>0, <1>4, <1>5, <3>1
    <2>2. CASE ~first.closed /\ ~Writable(first) /\ ~Readable
        <3>1. nd' = first /\ UNCHANGED <<arriving, sock, closes, con>>
            BY <2>2 DEF NodeProcessPackets, m
        <3>2. SocketAfter(first)
            BY <2>2, <3>1 DEF SocketAfter
        <3>3. QED
            BY <1>0, <1>4, <1>5, <3>1, <3>2
    <2>3. CASE ~first.closed /\ Readable
        <3>1. PICK k \in 0 .. ReadMax :
                  /\ k <= Len(arriving)
                  /\ LET n == after(ProcessRead(first, SubSeq(arriving, 1, k), peerGone))
                     IN  nd' = n /\ SocketAfter(n)
                  /\ arriving' = SubSeq(arriving, k + 1, Len(arriving))
            BY <2>3 DEF NodeProcessPackets, m
        <3> DEFINE r == ProcessRead(first, SubSeq(arriving, 1, k), peerGone)
        <3>2. Follows(first, r) /\ r \in NodeType
            BY <1>5, <1>7, <3>1, ReadFollows DEF Follows
        <3>3. nd' = after(r) /\ SocketAfter(after(r))
            BY <3>1
        <3> HIDE DEF r, after, first
        <3>4. Follows(m, after(r))
            BY <1>5, <1>6, <3>2, FollowsTwo
        <3>5. QED
            BY <1>4, <1>7, <3>1, <3>3, <3>4
    <2>4. CASE ~first.closed /\ Writable(first) /\ ~Readable
        <3>1. nd' = after(first) /\ SocketAfter(after(first)) /\ arriving' = arriving
            BY <2>4 DEF NodeProcessPackets, m
        <3> HIDE DEF after, first
        <3>2. Follows(m, after(first))
            BY <1>5, <1>6, FollowsTwo
        <3>3. QED
            BY <1>0, <1>4, <3>1, <3>2
    <2>5. QED
        BY <2>1, <2>2, <2>3, <2>4
<1>9. PICK n : Becomes(n) /\ nd' = n /\ SocketAfter(n) /\ arriving' \in Seq(InUnits)
    BY <1>8
<1>10. nd' \in NodeType
    BY <1>9 DEF Becomes
<1>11. ThreadInv' /\ SocketInv' /\ con' \in ThreadType /\ sock' \in {"none", "open", "closed"}
    BY <1>1, <1>9, <1>10, OperationKeeps
<1>12. QED
    BY <1>0, <1>1, <1>9, <1>10, <1>11 DEF ConnInv, ConnTypes

\* NodeNew and NodeConnect, NodeClose up to its join, and NodeFree.
LEMMA LifeKeeps ==
    ASSUME ConnInv, NodeConnect \/ NodeClose \/ NodeCloseCancel \/ NodeCloseJoin \/ NodeFree
    PROVE  ConnInv'
<1>0. /\ nd \in NodeType /\ con \in ThreadType /\ sock \in {"none", "open", "closed"}
      /\ arriving \in Seq(InUnits) /\ peerNext \in Nat /\ lateConnect \in BOOLEAN
    BY DEF ConnInv, ConnTypes
<1>1. UNCHANGED <<arriving, peerNext, lateConnect>>
    BY DEF NodeConnect, NodeClose, NodeCloseCancel, NodeCloseJoin, NodeFree, connRest
<1>2. CASE NodeConnect
    <2>1. nd' \in NodeType
        <3>1. SendCap \in Nat /\ 0 \in 0 .. SendCap
            BY ConnectionAssumption
        <3>2. <<>> \in Seq(OutUnits) /\ <<>> \in Seq(InUnits) /\ <<>> \in Seq(Packets)
            OBVIOUS
        <3>3. QED
            BY <1>2, <3>1, <3>2 DEF NodeConnect, FreshNode, NodeType
    <2>2. /\ nd'.alloc = TRUE /\ nd'.thread = TRUE /\ nd'.connected = FALSE
          /\ nd'.closed = FALSE
        BY <1>2 DEF NodeConnect, FreshNode
    <2>3. con' \in ThreadType /\ con'.pc = "opening" /\ con'.result = -1
        BY <1>2 DEF NodeConnect, ThreadType
    <2>4. sock' = sock /\ ndUser' = "sendVersion" /\ ndUser = "start" /\ con.pc = "done"
        BY <1>2 DEF NodeConnect, ConnInv, ThreadInv
    <2>5. sock # "open"
        BY <2>4 DEF ConnInv, SocketInv
    <2>6. ThreadInv'
        BY <2>2, <2>3, <2>4 DEF ThreadInv
    <2>7. SocketInv'
        BY <2>3, <2>4, <2>5 DEF SocketInv
    <2>8. QED
        BY <1>0, <1>1, <2>1, <2>3, <2>4, <2>6, <2>7 DEF ConnInv, ConnTypes, Using
<1>3. CASE NodeClose
    <2>1. /\ nd' \in NodeType /\ nd'.connection = -1 /\ nd'.connected = FALSE
          /\ nd'.alloc = nd.alloc /\ nd'.thread = nd.thread
        BY <1>0, <1>3 DEF NodeClose, NodeType
    <2>2. con' = con /\ ndUser' = "closing"
          /\ sock' = IF nd.connection # -1 THEN "closed" ELSE sock
        BY <1>3 DEF NodeClose
    <2>3. ThreadInv'
        BY <2>1, <2>2 DEF ThreadInv, ConnInv, Using
    <2>4. SocketInv'
        BY <1>1, <2>1, <2>2 DEF SocketInv, ConnInv
    <2>5. QED
        BY <1>0, <1>1, <2>1, <2>2, <2>3, <2>4 DEF ConnInv, ConnTypes
<1>4. CASE NodeCloseCancel
    <2>0. nd.attempt + 1 \in Nat /\ nd.thread \in BOOLEAN
        BY <1>0 DEF NodeType
    <2>1. /\ nd' \in NodeType /\ nd'.connection = nd.connection /\ nd'.connected = nd.connected
          /\ nd'.alloc = nd.alloc /\ nd'.thread = nd.thread
        <3>1. ASSUME NEW a \in Nat
              PROVE  [nd EXCEPT !.attempt = a, !.closed = TRUE] \in NodeType
            BY <1>0 DEF NodeType
        <3>2. nd' = [nd EXCEPT !.attempt = @ + 1, !.closed = TRUE]
            BY <1>4 DEF NodeCloseCancel
        <3>3. nd' \in NodeType
            BY <2>0, <3>1, <3>2
        <3>4. QED
            BY <1>0, <3>2, <3>3 DEF NodeType
    <2>2. con' \in ThreadType /\ con'.pc = con.pc /\ con'.result = con.result
        BY <1>0, <1>4, <2>0 DEF NodeCloseCancel, ThreadType
    <2>3. sock' = sock /\ ndUser' = "joining"
        BY <1>4 DEF NodeCloseCancel
    <2>4. ThreadInv'
        BY <2>1, <2>2, <2>3 DEF ThreadInv, ConnInv, Using
    <2>5. SocketInv'
        BY <1>1, <2>1, <2>2, <2>3 DEF SocketInv, ConnInv
    <2>6. QED
        BY <1>0, <1>1, <2>1, <2>2, <2>3, <2>4, <2>5 DEF ConnInv, ConnTypes
<1>5. CASE NodeCloseJoin \/ NodeFree
    <2>1. con.pc = "done"
        BY <1>5 DEF NodeCloseJoin, NodeFree, ThreadJoined, ConnInv, ThreadInv
    <2>2. Follows(nd, NodeReset(nd)) /\ NodeReset(nd) \in NodeType
        BY <1>0, ResetFollows DEF Follows
    <2>3. /\ NodeReset(nd).connection = nd.connection
          /\ NodeReset(nd).connected = nd.connected
        BY <1>0 DEF NodeReset, NodeType
    <2>4. \/ nd' = [NodeReset(nd) EXCEPT !.thread = FALSE]
          \/ nd' = [NodeReset(nd) EXCEPT !.alloc = FALSE]
        BY <1>5 DEF NodeCloseJoin, NodeFree
    <2>5. ASSUME NEW k \in NodeType
          PROVE  /\ [k EXCEPT !.thread = FALSE] \in NodeType
                 /\ [k EXCEPT !.alloc = FALSE] \in NodeType
                 /\ [k EXCEPT !.thread = FALSE].connection = k.connection
                 /\ [k EXCEPT !.alloc = FALSE].connection = k.connection
                 /\ [k EXCEPT !.thread = FALSE].connected = k.connected
                 /\ [k EXCEPT !.alloc = FALSE].connected = k.connected
        BY DEF NodeType
    <2>6. nd' \in NodeType /\ nd'.connection = nd.connection /\ nd'.connected = nd.connected
        BY <2>2, <2>3, <2>4, <2>5
    <2>7. con' = con /\ sock' = sock /\ ndUser' \in {"free", "freed"}
        BY <1>5 DEF NodeCloseJoin, NodeFree
    <2>8. ThreadInv'
        BY <2>1, <2>6, <2>7 DEF ThreadInv, ConnInv, Using
    <2>9. SocketInv'
        BY <1>1, <2>6, <2>7 DEF SocketInv, ConnInv
    <2>10. QED
        BY <1>0, <1>1, <2>6, <2>7, <2>8, <2>9 DEF ConnInv, ConnTypes
<1>6. QED
    BY <1>2, <1>3, <1>4, <1>5

\* The connection thread.
LEMMA ThreadKeeps ==
    ASSUME ConnInv, ThreadStep
    PROVE  ConnInv'
<1>0. /\ nd \in NodeType /\ con \in ThreadType /\ sock \in {"none", "open", "closed"}
      /\ arriving \in Seq(InUnits) /\ peerNext \in Nat /\ lateConnect \in BOOLEAN
      /\ ndUser \in {"start", "closing", "joining", "free", "freed"} \cup Using
    BY DEF ConnInv, ConnTypes
<1>1. UNCHANGED <<arriving, peerNext, ndUser>>
    BY DEF ThreadStep, OpenConnection, ConnectCancelled, CheckAttempt, SetConnection,
           SetConnected, ThreadCleanup, conRest
<1>2. con.pc # "done" /\ nd.thread = TRUE /\ nd.alloc = TRUE
    BY DEF ThreadStep, OpenConnection, ConnectCancelled, CheckAttempt, SetConnection,
           SetConnected, ThreadCleanup, ConnInv, ThreadInv
<1>3. ndUser \notin {"start", "free", "freed"}
    BY <1>2 DEF ConnInv, ThreadInv
<1>4. CASE OpenConnection \/ ConnectCancelled \/ CheckAttempt
    <2>1. nd' = nd /\ lateConnect' = lateConnect
        BY <1>4 DEF OpenConnection, ConnectCancelled, CheckAttempt
    <2>2. con' \in ThreadType /\ con'.pc \in {"check", "setConnection", "cleanup"}
        BY <1>0, <1>4 DEF OpenConnection, ConnectCancelled, CheckAttempt, ThreadType
    <2>3. con.pc \in {"opening", "check"} /\ sock' \in {"none", "open", "closed"}
        BY <1>0, <1>4 DEF OpenConnection, ConnectCancelled, CheckAttempt
    <2>4. nd.connected # TRUE
        BY <2>3 DEF ConnInv, ThreadInv
    <2>5. ThreadInv'
        BY <1>1, <1>2, <1>3, <2>1, <2>2, <2>4 DEF ThreadInv, ConnInv
    <2>6. con'.pc \in {"check", "setConnection"} /\ sock' = "open" => con'.result = 1
        <3>1. CASE OpenConnection
            BY <1>0, <3>1 DEF OpenConnection, ThreadType, ConnInv, SocketInv
        <3>2. CASE ConnectCancelled
            BY <1>0, <3>2 DEF ConnectCancelled, ThreadType
        <3>3. CASE CheckAttempt
            BY <1>0, <3>3 DEF CheckAttempt, ThreadType, ConnInv, SocketInv
        <3>4. QED
            BY <1>4, <3>1, <3>2, <3>3
    <2>7. SocketInv'
        BY <1>1, <1>3, <2>1, <2>2, <2>4, <2>6 DEF SocketInv
    <2>8. QED
        BY <1>0, <1>1, <2>1, <2>2, <2>3, <2>5, <2>7 DEF ConnInv, ConnTypes
<1>5. CASE SetConnection
    <2>1. con.pc = "setConnection" /\ sock' = sock
          /\ lateConnect' = (lateConnect \/ ndUser \in {"closing", "joining"})
        BY <1>5 DEF SetConnection
    <2>2. /\ nd' \in NodeType /\ nd'.connection = con.result /\ nd'.connected = nd.connected
          /\ nd'.alloc = nd.alloc /\ nd'.thread = nd.thread /\ nd'.closed = nd.closed
        <3>1. ASSUME NEW r \in {-1, 1} PROVE [nd EXCEPT !.connection = r] \in NodeType
            BY <1>0 DEF NodeType
        <3>2. con.result \in {-1, 1}
            BY <1>0 DEF ThreadType
        <3>3. nd' = [nd EXCEPT !.connection = con.result]
            BY <1>5 DEF SetConnection
        <3>4. nd' \in NodeType
            BY <3>1, <3>2, <3>3
        <3>5. QED
            BY <1>0, <3>3, <3>4 DEF NodeType
    <2>3. con' \in ThreadType /\ con'.pc = "setConnected" /\ con'.result = con.result
        BY <1>0, <1>5 DEF SetConnection, ThreadType
    <2>4. nd.connected # TRUE /\ (nd.closed = TRUE => ndUser \notin Using)
        BY <2>1 DEF ConnInv, ThreadInv
    <2>5. sock = "open" => con.result = 1
        BY <2>1 DEF ConnInv, SocketInv
    <2>6. ThreadInv'
        BY <1>1, <1>2, <1>3, <2>2, <2>3, <2>4 DEF ThreadInv
    <2>7. SocketInv'
        BY <1>1, <1>3, <2>1, <2>2, <2>3, <2>5 DEF SocketInv
    <2>8. lateConnect' \in BOOLEAN
        BY <2>1
    <2>9. QED
        BY <1>0, <1>1, <2>1, <2>2, <2>3, <2>6, <2>7, <2>8 DEF ConnInv, ConnTypes
<1>6. CASE SetConnected
    <2>1. con.pc = "setConnected" /\ sock' = sock
          /\ lateConnect' = (lateConnect \/ ndUser \in {"closing", "joining"})
        BY <1>6 DEF SetConnected
    <2>2. /\ nd' \in NodeType /\ nd'.connection = nd.connection
          /\ nd'.alloc = nd.alloc /\ nd'.thread = nd.thread /\ nd'.closed = nd.closed
        BY <1>0, <1>6 DEF SetConnected, NodeType
    <2>3. con' \in ThreadType /\ con'.pc = "cleanup"
        BY <1>0, <1>6 DEF SetConnected, ThreadType
    <2>4. nd.closed = TRUE => ndUser \notin Using
        BY <2>1 DEF ConnInv, ThreadInv
    <2>5. lateConnect' \in BOOLEAN /\ (lateConnect' = FALSE => lateConnect = FALSE)
        BY <1>0, <2>1
    <2>6. sock = "open" /\ lateConnect = FALSE => nd.connection # -1
        BY <2>1 DEF ConnInv, SocketInv
    <2>7. ThreadInv'
        BY <1>1, <1>2, <1>3, <2>2, <2>3, <2>4 DEF ThreadInv
    <2>8. SocketInv'
        BY <1>1, <1>3, <2>1, <2>2, <2>3, <2>5, <2>6 DEF SocketInv
    <2>9. QED
        BY <1>0, <1>1, <2>1, <2>2, <2>3, <2>5, <2>7, <2>8 DEF ConnInv, ConnTypes
<1>7. CASE ThreadCleanup
    <2>1. nd' = nd /\ lateConnect' = lateConnect
        BY <1>7 DEF ThreadCleanup
    <2>2. con' \in ThreadType /\ con'.pc = "done"
        BY <1>0, <1>7 DEF ThreadCleanup, ThreadType
    <2>3. \/ sock' = "closed"
          \/ sock' = sock /\ (nd.connected \/ sock = "none")
        BY <1>7 DEF ThreadCleanup, CleanupCloses
    <2>4. nd.connected \in BOOLEAN /\ nd.closed = TRUE => ndUser \notin Using
        BY <1>2 DEF ConnInv, ThreadInv
    <2>5. nd.connected \in BOOLEAN
        BY <1>0 DEF NodeType
    <2>6. ThreadInv'
        BY <1>1, <2>1, <2>2, <2>4, <2>5 DEF ThreadInv, ConnInv
    <2>7. SocketInv'
        BY <1>1, <1>3, <2>1, <2>2, <2>3, <2>5 DEF SocketInv, ConnInv
    <2>8. QED
        BY <1>0, <1>1, <2>1, <2>2, <2>3, <2>6, <2>7 DEF ConnInv, ConnTypes
<1>8. QED
    BY <1>4, <1>5, <1>6, <1>7 DEF ThreadStep

\* The peer.
LEMMA PeerKeeps ==
    ASSUME ConnInv, PeerStep
    PROVE  ConnInv'
<1>0. /\ nd \in NodeType /\ arriving \in Seq(InUnits) /\ peerNext \in Nat
    BY DEF ConnInv, ConnTypes
<1>1. UNCHANGED <<con, sock, ndUser, lateConnect>>
    BY DEF PeerStep, PeerSends, PeerReads, PeerCloses, peerRest
<1>2. /\ nd' \in NodeType /\ nd'.connection = nd.connection /\ nd'.connected = nd.connected
      /\ nd'.alloc = nd.alloc /\ nd'.thread = nd.thread /\ nd'.closed = nd.closed
    <2>1. CASE PeerReads
        <3>0. nd.kernel \in 0 .. SendCap /\ nd.kernel > 0
            BY <1>0, <2>1 DEF PeerReads, NodeType
        <3>1. nd.kernel - 1 \in 0 .. SendCap
            BY <3>0, ConnectionAssumption
        <3>2. ASSUME NEW c \in 0 .. SendCap PROVE [nd EXCEPT !.kernel = c] \in NodeType
            BY <1>0 DEF NodeType
        <3>3. nd' = [nd EXCEPT !.kernel = @ - 1]
            BY <2>1 DEF PeerReads
        <3>4. nd' \in NodeType
            BY <3>1, <3>2, <3>3
        <3>5. QED
            BY <1>0, <3>3, <3>4 DEF NodeType
    <2>2. CASE PeerSends \/ PeerCloses
        BY <1>0, <2>2 DEF PeerSends, PeerCloses
    <2>3. QED
        BY <2>1, <2>2 DEF PeerStep
<1>3. arriving' \in Seq(InUnits) /\ peerNext' \in Nat
    <2>1. CASE PeerSends
        <3>1. peerNext' = peerNext + 1 /\ peerNext < Len(PeerPackets)
            BY <2>1 DEF PeerSends
        <3>2. peerNext' \in Nat /\ PeerPackets[peerNext'] \in Packets
            BY <1>0, <3>1, ConnectionAssumption
        <3>3. ASSUME NEW p \in Packets PROVE UnitsOf(p) \in Seq(InUnits)
            <4>1. CASE p = "junk"
                <5>1. [of |-> "junk", part |-> "junk"] \in InUnits
                    BY DEF InUnits
                <5>2. QED
                    BY <4>1, <5>1 DEF UnitsOf, Junk
            <4>2. CASE p # "junk"
                <5>1. /\ [of |-> p, part |-> "header"] \in InUnits
                      /\ [of |-> p, part |-> "payload"] \in InUnits
                    BY <4>2 DEF InUnits
                <5>2. QED
                    BY <4>2, <5>1 DEF UnitsOf, Units
            <4>3. QED
                BY <4>1, <4>2
        <3>4. arriving' = arriving \o UnitsOf(PeerPackets[peerNext'])
            BY <2>1 DEF PeerSends
        <3>5. UnitsOf(PeerPackets[peerNext']) \in Seq(InUnits)
            BY <3>2, <3>3
        <3>6. QED
            BY <1>0, <3>2, <3>4, <3>5
    <2>2. CASE PeerReads \/ PeerCloses
        BY <1>0, <2>2 DEF PeerReads, PeerCloses
    <2>3. QED
        BY <2>1, <2>2 DEF PeerStep
<1>4. ThreadInv' /\ SocketInv'
    BY <1>1, <1>2 DEF ConnInv, ThreadInv, SocketInv
<1>5. QED
    BY <1>1, <1>2, <1>3, <1>4 DEF ConnInv, ConnTypes

\* The start.
LEMMA ConnInitKeeps == ConnInit => ConnInv
<1> SUFFICES ASSUME ConnInit PROVE ConnInv
    OBVIOUS
<1>1. nd \in NodeType
    <2>1. SendCap \in Nat /\ 0 \in 0 .. SendCap
        BY ConnectionAssumption
    <2>2. <<>> \in Seq(OutUnits) /\ <<>> \in Seq(InUnits) /\ <<>> \in Seq(Packets)
        OBVIOUS
    <2>3. QED
        BY <2>1, <2>2 DEF ConnInit, FreshNode, NodeType
<1>2. con \in ThreadType /\ con.pc = "done" /\ nd.connected = FALSE /\ nd.closed = FALSE
    BY DEF ConnInit, ThreadType, FreshNode
<1>3. /\ sock = "none" /\ ndUser = "start" /\ arriving = <<>>
      /\ peerNext = 0 /\ lateConnect = FALSE
    BY DEF ConnInit
<1>4. ThreadInv /\ SocketInv
    BY <1>2, <1>3 DEF ThreadInv, SocketInv
<1>5. arriving \in Seq(InUnits) /\ peerNext \in Nat /\ ndUser \in {"start"}
      /\ sock \in {"none"}
    BY <1>3
<1>6. lateConnect \in BOOLEAN
    BY <1>3
<1>7. QED
    BY <1>1, <1>2, <1>4, <1>5, <1>6 DEF ConnInv, ConnTypes

\* Whatever the peer sends, however sends and receives are cut and whenever the
\* node is closed: an open socket belongs to the node or to the connection
\* thread, unless the thread stored it into a node that was being closed, and
\* the thread has ended when NodeFree frees the node it writes into.
THEOREM SocketsOwned == ConnSpec => []SocketsAccounted
<1>1. ConnInv /\ [ConnNext]_connVars => ConnInv'
    <2> SUFFICES ASSUME ConnInv, [ConnNext]_connVars PROVE ConnInv'
        OBVIOUS
    <2>1. CASE ConnNext
        BY <2>1, SendKeeps, SendOneKeeps, ProcessKeeps, LifeKeeps, ThreadKeeps, PeerKeeps
        DEF ConnNext, ManagerStep
    <2>2. CASE UNCHANGED connVars
        BY <2>2 DEF connVars, ConnInv, ConnTypes, ThreadInv, SocketInv
    <2>3. QED
        BY <2>1, <2>2
<1>2. ConnInv => SocketsAccounted
    <2> SUFFICES ASSUME ConnInv PROVE SocketsAccounted
        OBVIOUS
    <2>1. lateConnect \in BOOLEAN
        BY DEF ConnInv, ConnTypes
    <2>2. QED
        BY <2>1 DEF ConnInv, ThreadInv, SocketInv, SocketsAccounted
<1>3. QED
    BY <1>1, <1>2, ConnInitKeeps, PTL DEF ConnSpec

-----------------------------------------------------------------------------
(* What comes in: the packets in a stream of units *)

\* A header is not the last unit of what the peer sends, nor is it followed by
\* another: no packet is cut by the peer.
Framed(u) ==
    \A i \in 1 .. Len(u) :
        u[i].part = "header" => i < Len(u) /\ u[i + 1].part # "header"

\* The packets in a stream are commands with a right checksum.
LEMMA GoodType ==
    ASSUME NEW u \in Seq(InUnits)
    PROVE  GoodPackets(u) \in Seq(GoodNames) /\ GoodPackets(u) \in Seq(Packets)
<1>1. PICK h \in Seq(InUnits \cap GoodHeaders) : h = Within(u, GoodHeaders)
    BY WithinType
<1>2. \A x \in InUnits \cap GoodHeaders : x.of \in GoodNames /\ x.of \in Packets
    BY DEF GoodHeaders, GoodNames
<1>3. \A i \in 1 .. Len(h) : h[i] \in InUnits \cap GoodHeaders
    BY <1>1
<1>4. GoodPackets(u) = [i \in 1 .. Len(h) |-> h[i].of]
    BY <1>1 DEF GoodPackets
<1>5. Len(h) \in Nat
    BY <1>1
<1>6. QED
    BY <1>2, <1>3, <1>4, <1>5

\* The packets of two streams, one behind the other.
LEMMA GoodConcat ==
    ASSUME NEW u \in Seq(InUnits), NEW v \in Seq(InUnits)
    PROVE  GoodPackets(u \o v) = GoodPackets(u) \o GoodPackets(v)
<1>1. PICK h \in Seq(InUnits) : h = Within(u, GoodHeaders)
    BY WithinType
<1>2. PICK k \in Seq(InUnits) : k = Within(v, GoodHeaders)
    BY WithinType
<1>3. Within(u \o v, GoodHeaders) = h \o k
    <2>1. Within(u \o v, GoodHeaders) = Within(u, GoodHeaders) \o Within(v, GoodHeaders)
        BY WithinConcat
    <2>2. QED
        BY <1>1, <1>2, <2>1
<1>4. PICK w \in Seq(InUnits) : w = h \o k
    <2>1. h \o k \in Seq(InUnits)
        BY ConcatProperties
    <2>2. QED
        BY <2>1
<1>5. /\ Len(h) \in Nat /\ Len(k) \in Nat /\ Len(w) = Len(h) + Len(k)
      /\ \A i \in 1 .. Len(w) : w[i] = IF i <= Len(h) THEN h[i] ELSE k[i - Len(h)]
    BY <1>1, <1>2, <1>4, LenProperties, ConcatProperties
<1>6. PICK a : a = GoodPackets(u) /\ a = [i \in 1 .. Len(h) |-> h[i].of]
    BY <1>1 DEF GoodPackets
<1>7. PICK b : b = GoodPackets(v) /\ b = [i \in 1 .. Len(k) |-> k[i].of]
    BY <1>2 DEF GoodPackets
<1>8. PICK c : c = GoodPackets(u \o v) /\ c = [i \in 1 .. Len(w) |-> w[i].of]
    BY <1>3, <1>4 DEF GoodPackets
<1>9. a \in Seq(Packets) /\ b \in Seq(Packets) /\ c \in Seq(Packets)
    <2>1. u \o v \in Seq(InUnits)
        OBVIOUS
    <2>2. QED
        BY <1>6, <1>7, <1>8, <2>1, GoodType
<1>10. Len(a) = Len(h) /\ Len(b) = Len(k) /\ Len(c) = Len(w)
    BY <1>5, <1>6, <1>7, <1>8, <1>9
<1>11. PICK d \in Seq(Packets) : d = a \o b
    <2>1. a \o b \in Seq(Packets)
        BY <1>9, ConcatProperties
    <2>2. QED
        BY <2>1
<1>12. /\ Len(d) = Len(w)
       /\ \A i \in 1 .. Len(w) : d[i] = IF i <= Len(h) THEN a[i] ELSE b[i - Len(h)]
    <2>1. /\ Len(a \o b) = Len(a) + Len(b)
          /\ \A i \in 1 .. Len(a) + Len(b) :
                 (a \o b)[i] = IF i <= Len(a) THEN a[i] ELSE b[i - Len(a)]
        BY <1>9, ConcatProperties, Zenon
    <2>2. QED
        BY <1>5, <1>10, <1>11, <2>1
<1>13. \A i \in 1 .. Len(w) : d[i] = c[i]
    <2> SUFFICES ASSUME NEW i \in 1 .. Len(w) PROVE d[i] = c[i]
        OBVIOUS
    <2>1. c[i] = w[i].of /\ w[i] = IF i <= Len(h) THEN h[i] ELSE k[i - Len(h)]
        BY <1>5, <1>8
    <2>2. d[i] = IF i <= Len(h) THEN a[i] ELSE b[i - Len(h)]
        BY <1>12
    <2>3. i <= Len(h) => i \in 1 .. Len(h)
        BY <1>5
    <2>4. ~(i <= Len(h)) => i - Len(h) \in 1 .. Len(k)
        BY <1>5
    <2>5. QED
        BY <1>6, <1>7, <2>1, <2>2, <2>3, <2>4
<1>14. d = c
    BY <1>9, <1>10, <1>11, <1>12, <1>13, SeqEqual
<1>15. QED
    BY <1>6, <1>7, <1>8, <1>11, <1>14

\* A single unit brings a packet if it is its header.
LEMMA GoodOne ==
    ASSUME NEW x \in InUnits
    PROVE  /\ x.part # "header" \/ x.of = "badChecksum" => GoodPackets(<<x>>) = <<>>
           /\ x.part = "header" /\ x.of # "badChecksum" => GoodPackets(<<x>>) = <<x.of>>
<1>1. x \in GoodHeaders <=> x.part = "header" /\ x.of # "badChecksum"
    BY DEF GoodHeaders, GoodNames, InUnits, Packets
<1>2. <<>> \in Seq(InUnits) /\ <<x>> = Append(<<>>, x) /\ Within(<<>>, GoodHeaders) = <<>>
    BY WithinEmpty
<1>3. Within(<<x>>, GoodHeaders) = IF x \in GoodHeaders THEN <<x>> ELSE <<>>
    BY <1>2, WithinAppend
<1>4. CASE x \in GoodHeaders
    <2>1. PICK h : h = Within(<<x>>, GoodHeaders) /\ h = <<x>>
        BY <1>3, <1>4
    <2>2. GoodPackets(<<x>>) = [i \in 1 .. Len(h) |-> h[i].of]
        BY <2>1 DEF GoodPackets
    <2>3. Len(h) = 1 /\ h[1] = x
        BY <2>1
    <2>4. [i \in 1 .. Len(h) |-> h[i].of] = <<x.of>>
        BY <2>3
    <2>5. QED
        BY <1>1, <1>4, <2>2, <2>4
<1>5. CASE x \notin GoodHeaders
    <2>1. PICK h : h = Within(<<x>>, GoodHeaders) /\ h = <<>>
        BY <1>3, <1>5
    <2>2. GoodPackets(<<x>>) = [i \in 1 .. Len(h) |-> h[i].of]
        BY <2>1 DEF GoodPackets
    <2>3. Len(h) = 0
        BY <2>1
    <2>4. [i \in 1 .. Len(h) |-> h[i].of] = <<>>
        BY <2>3
    <2>5. QED
        BY <1>1, <1>5, <2>2, <2>4
<1>6. QED
    BY <1>4, <1>5

\* What is left of a stream whose packets are whole, and two such streams.
LEMMA FramedParts ==
    ASSUME NEW v \in Seq(InUnits), NEW w \in Seq(InUnits)
    PROVE  /\ Framed(v \o w) => Framed(w)
           /\ Framed(v) /\ Framed(w) => Framed(v \o w)
<1>1. PICK z \in Seq(InUnits) : z = v \o w
    <2>1. v \o w \in Seq(InUnits)
        BY ConcatProperties
    <2>2. QED
        BY <2>1
<1>2. /\ Len(v) \in Nat /\ Len(w) \in Nat /\ Len(z) = Len(v) + Len(w)
      /\ \A i \in 1 .. Len(v) + Len(w) : z[i] = IF i <= Len(v) THEN v[i] ELSE w[i - Len(v)]
    BY <1>1, LenProperties, ConcatProperties
<1>3. ASSUME Framed(z) PROVE Framed(w)
    <2> SUFFICES ASSUME NEW i \in 1 .. Len(w), w[i].part = "header"
                 PROVE  i < Len(w) /\ w[i + 1].part # "header"
        BY DEF Framed
    <2>0. /\ i + Len(v) \in 1 .. Len(v) + Len(w) /\ i + Len(v) - Len(v) = i
          /\ ~(i + Len(v) <= Len(v))
        BY <1>2
    <2>1. i + Len(v) \in 1 .. Len(z) /\ z[i + Len(v)] = w[i]
        BY <1>2, <2>0
    <2>2. i + Len(v) < Len(z) /\ z[i + Len(v) + 1].part # "header"
        BY <1>3, <2>1 DEF Framed
    <2>3. i < Len(w) /\ i + 1 \in 1 .. Len(w) /\ i + Len(v) + 1 \in 1 .. Len(v) + Len(w)
        BY <1>2, <2>2
    <2>4. z[i + Len(v) + 1] = w[i + Len(v) + 1 - Len(v)] /\ i + Len(v) + 1 - Len(v) = i + 1
        BY <1>2, <2>3
    <2>5. QED
        BY <2>2, <2>3, <2>4
<1>4. ASSUME Framed(v), Framed(w) PROVE Framed(z)
    <2> SUFFICES ASSUME NEW i \in 1 .. Len(z), z[i].part = "header"
                 PROVE  i < Len(z) /\ z[i + 1].part # "header"
        BY DEF Framed
    <2>1. CASE i <= Len(v)
        <3>1. i \in 1 .. Len(v) /\ z[i] = v[i]
            BY <1>2, <2>1
        <3>2. i < Len(v) /\ v[i + 1].part # "header"
            BY <1>4, <3>1 DEF Framed
        <3>3. z[i + 1] = v[i + 1] /\ i < Len(z)
            BY <1>2, <3>1, <3>2
        <3>4. QED
            BY <3>2, <3>3
    <2>2. CASE ~(i <= Len(v))
        <3>1. i - Len(v) \in 1 .. Len(w) /\ z[i] = w[i - Len(v)]
            BY <1>2, <2>2
        <3>2. i - Len(v) < Len(w) /\ w[i - Len(v) + 1].part # "header"
            BY <1>4, <3>1 DEF Framed
        <3>3. z[i + 1] = w[i - Len(v) + 1] /\ i < Len(z)
            BY <1>2, <3>1, <3>2
        <3>4. QED
            BY <3>2, <3>3
    <2>3. QED
        BY <2>1, <2>2
<1>5. QED
    BY <1>1, <1>3, <1>4

\* A sequence is its first elements and the rest.
LEMMA FirstOfSequence ==
    ASSUME NEW T, NEW u \in Seq(T)
    PROVE  /\ u # <<>> => /\ u[1] \in T /\ <<u[1]>> \in Seq(T) /\ Tail(u) \in Seq(T)
                          /\ u = <<u[1]>> \o Tail(u)
           /\ Len(u) >= 2 => /\ u[2] \in T /\ <<u[2]>> \in Seq(T)
                             /\ SubSeq(u, 3, Len(u)) \in Seq(T)
                             /\ Tail(u) = <<u[2]>> \o SubSeq(u, 3, Len(u))
<1>1. ASSUME u # <<>>
      PROVE  /\ u[1] \in T /\ <<u[1]>> \in Seq(T) /\ Tail(u) \in Seq(T)
             /\ u = <<u[1]>> \o Tail(u)
    <2>1. u[1] \in T /\ <<u[1]>> \in Seq(T) /\ Tail(u) \in Seq(T) /\ Len(Tail(u)) = Len(u) - 1
        BY <1>1
    <2>2. Len(<<u[1]>>) = 1 /\ <<u[1]>>[1] = u[1]
        OBVIOUS
    <2>3. \A i \in 1 .. Len(u) : (<<u[1]>> \o Tail(u))[i] = u[i]
        BY <1>1, <2>1
    <2>4. Len(<<u[1]>> \o Tail(u)) = Len(u) /\ <<u[1]>> \o Tail(u) \in Seq(T)
        BY <1>1, <2>1
    <2>5. QED
        BY <2>1, <2>3, <2>4, SeqEqual
<1>2. ASSUME Len(u) >= 2
      PROVE  /\ u[2] \in T /\ <<u[2]>> \in Seq(T) /\ SubSeq(u, 3, Len(u)) \in Seq(T)
             /\ Tail(u) = <<u[2]>> \o SubSeq(u, 3, Len(u))
    <2>0. Len(u) \in Nat
        OBVIOUS
    <2>1. /\ u[2] \in T /\ <<u[2]>> \in Seq(T) /\ Tail(u) \in Seq(T) /\ Len(Tail(u)) = Len(u) - 1
          /\ \A i \in 1 .. Len(u) - 1 : Tail(u)[i] = u[i + 1]
        BY <1>2
    <2>2. PICK r \in Seq(T) : r = SubSeq(u, 3, Len(u))
        <3>1. SubSeq(u, 3, Len(u)) \in Seq(T)
            BY <2>0
        <3>2. QED
            BY <3>1
    <2>3. Len(r) = Len(u) - 2 /\ \A i \in 1 .. Len(u) - 2 : r[i] = u[i + 2]
        <3>1. \A i \in 3 .. Len(u) : u[i] \in T
            BY <2>0
        <3>2. /\ Len(SubSeq(u, 3, Len(u))) = IF 3 <= Len(u) THEN Len(u) - 3 + 1 ELSE 0
              /\ \A i \in 1 .. Len(u) - 3 + 1 : SubSeq(u, 3, Len(u))[i] = u[3 + i - 1]
            BY <2>0, <3>1, SubSeqProperties
        <3>3. Len(r) = Len(u) - 2
            <4>1. 3 <= Len(u) => Len(u) - 3 + 1 = Len(u) - 2
                BY <2>0
            <4>2. ~(3 <= Len(u)) => Len(u) - 2 = 0
                BY <1>2, <2>0
            <4>3. QED
                BY <2>2, <3>2, <4>1, <4>2
        <3>4. ASSUME NEW i \in 1 .. Len(u) - 2 PROVE r[i] = u[i + 2]
            <4>1. i \in 1 .. Len(u) - 3 + 1 /\ 3 + i - 1 = i + 2
                BY <2>0
            <4>2. QED
                BY <2>2, <3>2, <4>1
        <3>5. QED
            BY <3>3, <3>4
    <2>4. Len(<<u[2]>> \o r) = Len(u) - 1 /\ <<u[2]>> \o r \in Seq(T)
        BY <2>1, <2>2, <2>3
    <2>5. \A i \in 1 .. Len(u) - 1 : (<<u[2]>> \o r)[i] = Tail(u)[i]
        BY <2>1, <2>2, <2>3
    <2>6. QED
        BY <2>1, <2>2, <2>4, <2>5, SeqEqual
<1>3. QED
    BY <1>1, <1>2

\* Three sequences, one behind the other.
LEMMA ConcatThree ==
    ASSUME NEW T, NEW q \in Seq(T), NEW r \in Seq(T), NEW t \in Seq(T)
    PROVE  /\ (q \o r) \o t = q \o (r \o t)
           /\ q \o r \in Seq(T) /\ r \o t \in Seq(T) /\ (q \o r) \o t \in Seq(T)
<1>1. (q \o r) \o t = q \o (r \o t)
    BY ConcatAssociative
<1>2. q \o r \in Seq(T) /\ r \o t \in Seq(T)
    BY ConcatProperties
<1>3. (q \o r) \o t \in Seq(T)
    BY <1>2, ConcatProperties
<1>4. QED
    BY <1>1, <1>2, <1>3

\* A unit that is no header is passed over.
LEMMA UnitSkipped ==
    ASSUME NEW u \in Seq(InUnits), u # <<>>, NEW t \in Seq(InUnits),
           u[1].part # "header", Framed(u \o t)
    PROVE  GoodPackets(u \o t) = GoodPackets(Tail(u) \o t) /\ Framed(Tail(u) \o t)
<1>1. PICK x \in InUnits, r \in Seq(InUnits) :
          x = u[1] /\ r = Tail(u) /\ <<x>> \in Seq(InUnits) /\ u = <<x>> \o r
    <2>1. /\ u[1] \in InUnits /\ <<u[1]>> \in Seq(InUnits) /\ Tail(u) \in Seq(InUnits)
          /\ u = <<u[1]>> \o Tail(u)
        BY FirstOfSequence
    <2>2. QED
        BY <2>1
<1>2. u \o t = <<x>> \o (r \o t) /\ r \o t \in Seq(InUnits)
    BY <1>1, ConcatAssociative, ConcatProperties
<1>3. GoodPackets(u \o t) = GoodPackets(<<x>>) \o GoodPackets(r \o t) /\ Framed(r \o t)
    BY <1>1, <1>2, GoodConcat, FramedParts
<1>4. GoodPackets(<<x>>) = <<>>
    BY <1>1, GoodOne
<1>5. <<>> \o GoodPackets(r \o t) = GoodPackets(r \o t)
    BY <1>2, GoodType, ConcatEmptySeq
<1>6. QED
    BY <1>1, <1>3, <1>4, <1>5

\* A header and its payload are taken out of a stream.
LEMMA PairTaken ==
    ASSUME NEW x \in InUnits, NEW y \in InUnits, NEW r \in Seq(InUnits), NEW t \in Seq(InUnits),
           x.part = "header", Framed((<<x>> \o (<<y>> \o r)) \o t)
    PROVE  /\ GoodPackets((<<x>> \o (<<y>> \o r)) \o t) = GoodPackets(<<x>>) \o GoodPackets(r \o t)
           /\ Framed(r \o t)
<1>1. PICK p \in Seq(InUnits) : p = <<x>>
    <2>1. <<x>> \in Seq(InUnits)
        OBVIOUS
    <2>2. QED
        BY <2>1
<1>2. PICK q \in Seq(InUnits) : q = <<y>>
    <2>1. <<y>> \in Seq(InUnits)
        OBVIOUS
    <2>2. QED
        BY <2>1
<1>3. q \o r \in Seq(InUnits) /\ r \o t \in Seq(InUnits)
    BY <1>2, ConcatProperties
<1>4. (q \o r) \o t = q \o (r \o t) /\ q \o (r \o t) \in Seq(InUnits)
    BY <1>2, ConcatThree
<1>5. (p \o (q \o r)) \o t = p \o (q \o (r \o t))
    BY <1>1, <1>3, <1>4, ConcatThree
<1>6. y.part # "header"
    <2>1. PICK w \in Seq(InUnits) : w = q \o (r \o t)
        BY <1>4
    <2>2. w[1] = y
        BY <1>2, <1>3, <2>1
    <2>3. PICK z \in Seq(InUnits) : z = p \o w
        <3>1. p \o w \in Seq(InUnits)
            BY <1>1, <2>1, ConcatProperties
        <3>2. QED
            BY <3>1
    <2>4. z[1] = x /\ 1 \in 1 .. Len(z)
        BY <1>1, <2>1, <2>3
    <2>5. 1 < Len(z) => z[2] = y
        BY <1>1, <2>1, <2>2, <2>3
    <2>6. Framed(z)
        BY <1>1, <1>2, <1>5, <2>1, <2>3
    <2>7. 1 < Len(z) /\ z[1 + 1].part # "header"
        BY <2>4, <2>6 DEF Framed
    <2>8. QED
        BY <2>5, <2>7
<1>7. Framed(p \o (q \o (r \o t)))
    BY <1>1, <1>2, <1>5
<1>8. /\ GoodPackets(p \o (q \o (r \o t))) = GoodPackets(p) \o GoodPackets(q \o (r \o t))
      /\ Framed(q \o (r \o t))
    BY <1>1, <1>4, <1>7, GoodConcat, FramedParts
<1>9. GoodPackets(q \o (r \o t)) = GoodPackets(q) \o GoodPackets(r \o t) /\ Framed(r \o t)
    BY <1>2, <1>3, <1>8, GoodConcat, FramedParts
<1>10. GoodPackets(q) = <<>> /\ <<>> \o GoodPackets(r \o t) = GoodPackets(r \o t)
    BY <1>2, <1>3, <1>6, GoodOne, GoodType, ConcatEmptySeq
<1>11. QED
    BY <1>1, <1>2, <1>5, <1>8, <1>9, <1>10

\* A packet that is whole is taken out of the stream.
LEMMA PacketTaken ==
    ASSUME NEW u \in Seq(InUnits), NEW t \in Seq(InUnits)
    PROVE  Len(u) >= 2 /\ u[1].part = "header" /\ Framed(u \o t) =>
           /\ GoodPackets(u \o t)
                  = GoodPackets(<<u[1]>>) \o GoodPackets(SubSeq(u, 3, Len(u)) \o t)
           /\ Framed(SubSeq(u, 3, Len(u)) \o t)
<1>0. HAVE Len(u) >= 2 /\ u[1].part = "header" /\ Framed(u \o t)
<1>1. u # <<>>
    BY <1>0
<1>2. /\ u[1] \in InUnits /\ u[2] \in InUnits /\ SubSeq(u, 3, Len(u)) \in Seq(InUnits)
      /\ u = <<u[1]>> \o Tail(u) /\ Tail(u) = <<u[2]>> \o SubSeq(u, 3, Len(u))
    BY <1>0, <1>1, FirstOfSequence
<1>3. PICK x \in InUnits, y \in InUnits, r \in Seq(InUnits) :
          x = u[1] /\ y = u[2] /\ r = SubSeq(u, 3, Len(u)) /\ u = <<x>> \o (<<y>> \o r)
    BY <1>2
<1>4. x.part = "header" /\ Framed((<<x>> \o (<<y>> \o r)) \o t)
    BY <1>0, <1>3
<1>5. /\ GoodPackets((<<x>> \o (<<y>> \o r)) \o t) = GoodPackets(<<x>>) \o GoodPackets(r \o t)
      /\ Framed(r \o t)
    BY <1>4, PairTaken
<1>6. QED
    BY <1>3, <1>5

-----------------------------------------------------------------------------
(* What goes out: the packets on the wire *)

\* Whole packets.
Paired(u) ==
    \E k \in Nat :
        /\ Len(u) = 2 * k
        /\ \A j \in 1 .. k : /\ u[2 * j - 1].part = "header" /\ u[2 * j].part = "payload"
                             /\ u[2 * j].of = u[2 * j - 1].of

\* What WireWellFormed says of the wire.
WireGood(u) ==
    /\ \A i \in 1 .. Len(u) :
           /\ u[i].part = (IF i % 2 = 1 THEN "header" ELSE "payload")
           /\ i % 2 = 0 => u[i].of = u[i - 1].of
    /\ Len(u) >= 1 => u[1].of = "version"
    /\ Len(u) >= 3 => u[3].of = "verack"

\* What every connection begins with.
Greeting == Units("version") \o Units("verack")

\* A natural number is even or odd.
LEMMA EvenOrOdd ==
    ASSUME NEW i \in Nat
    PROVE  \E j \in Nat : (i = 2 * j /\ i % 2 = 0) \/ (i = 2 * j + 1 /\ i % 2 = 1)
<1> DEFINE Bad == {n \in Nat : ~\E j \in Nat : n = 2 * j \/ n = 2 * j + 1}
<1>1. ASSUME Bad # {} PROVE FALSE
    <2>1. PICK n \in Bad : \A m \in Bad : ~(<<m, n>> \in OpToRel(<, Nat))
        BY <1>1, WFMin, NatLessThanWellFounded
    <2>2. n \in Nat /\ \A m \in Bad : ~(m < n)
        BY <2>1 DEF OpToRel
    <2>3. n # 0
        <3>1. 0 \in Nat /\ 0 = 2 * 0
            OBVIOUS
        <3>2. QED
            BY <2>1, <3>1
    <2>4. PICK j \in Nat : n - 1 = 2 * j \/ n - 1 = 2 * j + 1
        <3>1. n - 1 \in Nat /\ n - 1 < n
            BY <2>2, <2>3
        <3>2. QED
            BY <2>2, <3>1
    <2>5. n = 2 * j + 1 \/ n = 2 * (j + 1)
        BY <2>2, <2>4
    <2>6. j + 1 \in Nat
        BY <2>4
    <2>7. QED
        BY <2>1, <2>4, <2>5, <2>6
<1>2. PICK j \in Nat : i = 2 * j \/ i = 2 * j + 1
    BY <1>1
<1>3. (i = 2 * j => i % 2 = 0) /\ (i = 2 * j + 1 => i % 2 = 1)
    BY <1>2
<1>4. QED
    BY <1>2, <1>3

\* The two units of a packet.
LEMMA UnitsProperties ==
    ASSUME NEW p \in OutPackets
    PROVE  /\ Units(p) \in Seq(OutUnits) /\ Len(Units(p)) = 2
           /\ Units(p)[1].of = p /\ Units(p)[1].part = "header"
           /\ Units(p)[2].of = p /\ Units(p)[2].part = "payload"
BY UnitsType DEF Units

\* A packet more is queued behind whole packets.
LEMMA PairedGrows ==
    ASSUME NEW u \in Seq(OutUnits), Paired(u), NEW p \in OutPackets
    PROVE  u \o Units(p) \in Seq(OutUnits) /\ Paired(u \o Units(p))
<1>1. PICK k \in Nat :
          /\ Len(u) = 2 * k
          /\ \A j \in 1 .. k : /\ u[2 * j - 1].part = "header" /\ u[2 * j].part = "payload"
                               /\ u[2 * j].of = u[2 * j - 1].of
    BY DEF Paired
<1>2. PICK w \in Seq(OutUnits) : w = Units(p) /\ Len(w) = 2 /\ w[1].of = p /\ w[1].part = "header"
                                 /\ w[2].of = p /\ w[2].part = "payload"
    BY UnitsProperties
<1>3. PICK z \in Seq(OutUnits) : z = u \o w
    <2>1. u \o w \in Seq(OutUnits)
        BY <1>2, ConcatProperties
    <2>2. QED
        BY <2>1
<1>4. /\ Len(z) = 2 * k + 2
      /\ \A i \in 1 .. 2 * k + 2 : z[i] = IF i <= 2 * k THEN u[i] ELSE w[i - 2 * k]
    <2>1. /\ Len(u \o w) = Len(u) + Len(w)
          /\ \A i \in 1 .. Len(u) + Len(w) :
                 (u \o w)[i] = IF i <= Len(u) THEN u[i] ELSE w[i - Len(u)]
        BY <1>2, ConcatProperties
    <2>2. QED
        BY <1>1, <1>2, <1>3, <2>1
<1>5. ASSUME NEW j \in 1 .. k + 1
      PROVE  /\ z[2 * j - 1].part = "header" /\ z[2 * j].part = "payload"
             /\ z[2 * j].of = z[2 * j - 1].of
    <2>1. CASE j = k + 1
        <3>1. 2 * j - 1 = 2 * k + 1 /\ 2 * j = 2 * k + 2
            BY <1>1, <2>1
        <3>2. PICK a \in 1 .. 2 * k + 2 : a = 2 * k + 1 /\ ~(a <= 2 * k) /\ a - 2 * k = 1
            BY <1>1
        <3>3. PICK b \in 1 .. 2 * k + 2 : b = 2 * k + 2 /\ ~(b <= 2 * k) /\ b - 2 * k = 2
            BY <1>1
        <3>4. z[a] = w[a - 2 * k] /\ z[b] = w[b - 2 * k]
            BY <1>4, <3>2, <3>3
        <3>5. z[2 * k + 1] = w[1] /\ z[2 * k + 2] = w[2]
            BY <3>2, <3>3, <3>4
        <3>6. QED
            BY <1>2, <3>1, <3>5
    <2>2. CASE j # k + 1
        <3>1. j \in 1 .. k
            BY <1>1, <2>2
        <3>2. /\ 2 * j - 1 \in 1 .. 2 * k + 2 /\ 2 * j - 1 <= 2 * k
              /\ 2 * j \in 1 .. 2 * k + 2 /\ 2 * j <= 2 * k
            BY <1>1, <3>1
        <3>3. z[2 * j - 1] = u[2 * j - 1] /\ z[2 * j] = u[2 * j]
            BY <1>4, <3>2
        <3>4. QED
            BY <1>1, <3>1, <3>3
    <2>3. QED
        BY <2>1, <2>2
<1>6. k + 1 \in Nat /\ Len(z) = 2 * (k + 1)
    BY <1>1, <1>4
<1>7. Paired(z)
    BY <1>5, <1>6 DEF Paired
<1>8. QED
    BY <1>2, <1>3, <1>7

\* Nothing, and one packet, are whole.
LEMMA PairedFew == Paired(<<>>) /\ \A p \in OutPackets : Paired(Units(p))
<1>1. Paired(<<>>)
    <2>1. 0 \in Nat /\ Len(<<>>) = 2 * 0
        OBVIOUS
    <2>2. QED
        BY <2>1 DEF Paired
<1>2. ASSUME NEW p \in OutPackets PROVE Paired(Units(p))
    <2>1. <<>> \in Seq(OutUnits) /\ Units(p) \in Seq(OutUnits)
        BY UnitsProperties
    <2>2. Paired(<<>> \o Units(p)) /\ <<>> \o Units(p) = Units(p)
        BY <1>1, <2>1, PairedGrows, ConcatEmptySeq
    <2>3. QED
        BY <2>2
<1>3. QED
    BY <1>1, <1>2

\* What is good to read is so from its start to any place.
LEMMA GoodPrefix ==
    ASSUME NEW u \in Seq(OutUnits), NEW v \in Seq(OutUnits), WireGood(u \o v)
    PROVE  WireGood(u)
<1>1. PICK z \in Seq(OutUnits) : z = u \o v
    <2>1. u \o v \in Seq(OutUnits)
        BY ConcatProperties
    <2>2. QED
        BY <2>1
<1>2. /\ Len(u) \in Nat /\ Len(v) \in Nat /\ Len(z) = Len(u) + Len(v)
      /\ \A i \in 1 .. Len(u) : i \in 1 .. Len(z) /\ z[i] = u[i]
    <2>1. /\ Len(u \o v) = Len(u) + Len(v)
          /\ \A i \in 1 .. Len(u) + Len(v) :
                 (u \o v)[i] = IF i <= Len(u) THEN u[i] ELSE v[i - Len(u)]
        BY ConcatProperties
    <2>2. Len(u) \in Nat /\ Len(v) \in Nat
        BY LenProperties
    <2>3. QED
        BY <1>1, <2>1, <2>2
<1>3. WireGood(z)
    BY <1>1
<1>4. ASSUME NEW i \in 1 .. Len(u)
      PROVE  /\ u[i].part = (IF i % 2 = 1 THEN "header" ELSE "payload")
             /\ i % 2 = 0 => u[i].of = u[i - 1].of
    <2>1. /\ z[i].part = (IF i % 2 = 1 THEN "header" ELSE "payload")
          /\ i % 2 = 0 => z[i].of = z[i - 1].of
        BY <1>2, <1>3 DEF WireGood
    <2>2. z[i] = u[i]
        BY <1>2
    <2>3. ASSUME i % 2 = 0 PROVE z[i - 1] = u[i - 1]
        <3>1. i # 1
            BY <2>3
        <3>2. i - 1 \in 1 .. Len(u)
            BY <1>2, <3>1
        <3>3. QED
            BY <1>2, <3>2
    <2>4. QED
        BY <2>1, <2>2, <2>3
<1>5. Len(u) >= 1 => u[1].of = "version"
    <2>1. Len(u) >= 1 => 1 \in 1 .. Len(u) /\ Len(z) >= 1
        BY <1>2
    <2>2. QED
        BY <1>2, <1>3, <2>1 DEF WireGood
<1>6. Len(u) >= 3 => u[3].of = "verack"
    <2>1. Len(u) >= 3 => 3 \in 1 .. Len(u) /\ Len(z) >= 3
        BY <1>2
    <2>2. QED
        BY <1>2, <1>3, <2>1 DEF WireGood
<1>7. QED
    BY <1>4, <1>5, <1>6 DEF WireGood

\* The greeting and whole packets behind it are good to read.
LEMMA GreetingGood ==
    ASSUME NEW rest \in Seq(OutUnits), Paired(rest)
    PROVE  /\ Greeting \o rest \in Seq(OutUnits) /\ WireGood(Greeting \o rest)
           /\ WireGood(Units("version"))
<1>1. PICK g \in Seq(OutUnits) :
          /\ g = Greeting /\ Len(g) = 4
          /\ g[1].of = "version" /\ g[1].part = "header"
          /\ g[2].of = "version" /\ g[2].part = "payload"
          /\ g[3].of = "verack" /\ g[3].part = "header"
          /\ g[4].of = "verack" /\ g[4].part = "payload"
    <2>0. "version" \in OutPackets /\ "verack" \in OutPackets
        BY DEF OutPackets
    <2>1. PICK a \in Seq(OutUnits) : a = Units("version") /\ Len(a) = 2
              /\ a[1].of = "version" /\ a[1].part = "header"
              /\ a[2].of = "version" /\ a[2].part = "payload"
        BY <2>0, UnitsProperties
    <2>2. PICK b \in Seq(OutUnits) : b = Units("verack") /\ Len(b) = 2
              /\ b[1].of = "verack" /\ b[1].part = "header"
              /\ b[2].of = "verack" /\ b[2].part = "payload"
        BY <2>0, UnitsProperties
    <2>3. PICK g \in Seq(OutUnits) : g = a \o b
        <3>1. a \o b \in Seq(OutUnits)
            BY <2>1, <2>2, ConcatProperties
        <3>2. QED
            BY <3>1
    <2>4. Len(g) = 4 /\ g[1] = a[1] /\ g[2] = a[2] /\ g[3] = b[1] /\ g[4] = b[2]
        BY <2>1, <2>2, <2>3, ConcatProperties
    <2>5. g = Greeting
        BY <2>1, <2>2, <2>3 DEF Greeting
    <2>6. QED
        BY <2>1, <2>2, <2>4, <2>5
<1>2. PICK k \in Nat :
          /\ Len(rest) = 2 * k
          /\ \A j \in 1 .. k : /\ rest[2 * j - 1].part = "header" /\ rest[2 * j].part = "payload"
                               /\ rest[2 * j].of = rest[2 * j - 1].of
    BY DEF Paired
<1>3. PICK z \in Seq(OutUnits) : z = g \o rest
    <2>1. g \o rest \in Seq(OutUnits)
        BY <1>1, ConcatProperties
    <2>2. QED
        BY <2>1
<1>4. /\ Len(z) = 2 * k + 4
      /\ \A i \in 1 .. 2 * k + 4 : z[i] = IF i <= 4 THEN g[i] ELSE rest[i - 4]
    <2>1. /\ Len(g \o rest) = Len(g) + Len(rest)
          /\ \A i \in 1 .. Len(g) + Len(rest) :
                 (g \o rest)[i] = IF i <= Len(g) THEN g[i] ELSE rest[i - Len(g)]
        BY <1>1, ConcatProperties
    <2>2. 4 + 2 * k = 2 * k + 4
        BY <1>2
    <2>3. QED
        BY <1>1, <1>2, <1>3, <2>1, <2>2
<1>5. z[1] = g[1] /\ z[2] = g[2] /\ z[3] = g[3] /\ z[4] = g[4]
    <2>1. 1 \in 1 .. 2 * k + 4 /\ 2 \in 1 .. 2 * k + 4 /\ 3 \in 1 .. 2 * k + 4 /\ 4 \in 1 .. 2 * k + 4
        BY <1>2
    <2>2. QED
        BY <1>4, <2>1
<1>6. ASSUME NEW i \in 1 .. Len(z)
      PROVE  /\ z[i].part = (IF i % 2 = 1 THEN "header" ELSE "payload")
             /\ i % 2 = 0 => z[i].of = z[i - 1].of
    <2>0. i \in Nat /\ i \in 1 .. 2 * k + 4
        BY <1>2, <1>4
    <2>1. PICK j \in Nat : (i = 2 * j /\ i % 2 = 0) \/ (i = 2 * j + 1 /\ i % 2 = 1)
        BY <2>0, EvenOrOdd
    <2>2. CASE i <= 4
        <3>1. i \in {1, 2, 3, 4}
            BY <2>0, <2>2
        <3>2. /\ 1 % 2 = 1 /\ 2 % 2 = 0 /\ 3 % 2 = 1 /\ 4 % 2 = 0
              /\ 2 - 1 = 1 /\ 4 - 1 = 3
            OBVIOUS
        <3>3. CASE i = 1
            BY <1>1, <1>5, <3>2, <3>3
        <3>4. CASE i = 2
            BY <1>1, <1>5, <3>2, <3>4
        <3>5. CASE i = 3
            BY <1>1, <1>5, <3>2, <3>5
        <3>6. CASE i = 4
            BY <1>1, <1>5, <3>2, <3>6
        <3>7. QED
            BY <3>1, <3>3, <3>4, <3>5, <3>6
    <2>3. CASE ~(i <= 4) /\ i = 2 * j /\ i % 2 = 0
        <3>1. j - 2 \in 1 .. k /\ i - 4 = 2 * (j - 2) /\ i - 1 - 4 = 2 * (j - 2) - 1
            BY <1>2, <2>0, <2>1, <2>3
        <3>2. /\ rest[2 * (j - 2)].part = "payload"
              /\ rest[2 * (j - 2)].of = rest[2 * (j - 2) - 1].of
            BY <1>2, <3>1
        <3>3. i - 1 \in 1 .. 2 * k + 4 /\ ~(i - 1 <= 4)
            BY <1>2, <2>0, <2>1, <2>3
        <3>4. z[i] = rest[i - 4] /\ z[i - 1] = rest[i - 1 - 4]
            BY <1>4, <2>0, <2>3, <3>3
        <3>5. QED
            BY <2>3, <3>1, <3>2, <3>4
    <2>4. CASE ~(i <= 4) /\ i = 2 * j + 1 /\ i % 2 = 1
        <3>1. j - 1 \in 1 .. k /\ i - 4 = 2 * (j - 1) - 1
            BY <1>2, <2>0, <2>1, <2>4
        <3>2. rest[2 * (j - 1) - 1].part = "header"
            BY <1>2, <3>1
        <3>3. z[i] = rest[i - 4]
            BY <1>4, <2>0, <2>4
        <3>4. QED
            BY <2>4, <3>1, <3>2, <3>3
    <2>5. QED
        BY <2>1, <2>2, <2>3, <2>4
<1>7. WireGood(z)
    BY <1>1, <1>5, <1>6 DEF WireGood
<1>8. WireGood(Units("version"))
    <2>1. PICK u \in Seq(OutUnits) : u = Units("version") /\ Len(u) = 2
              /\ u[1].of = "version" /\ u[1].part = "header"
              /\ u[2].of = "version" /\ u[2].part = "payload"
        <3>1. "version" \in OutPackets
            BY DEF OutPackets
        <3>2. QED
            BY <3>1, UnitsProperties
    <2>2. 1 % 2 = 1 /\ 2 % 2 = 0 /\ 2 - 1 = 1
        OBVIOUS
    <2>3. ASSUME NEW i \in 1 .. 2
          PROVE  /\ u[i].part = (IF i % 2 = 1 THEN "header" ELSE "payload")
                 /\ i % 2 = 0 => u[i].of = u[i - 1].of
        <3>1. CASE i = 1
            BY <2>1, <2>2, <3>1
        <3>2. CASE i = 2
            BY <2>1, <2>2, <3>2
        <3>3. QED
            BY <3>1, <3>2
    <2>4. QED
        <3>1. 2 >= 1 /\ ~(2 >= 3)
            OBVIOUS
        <3>2. WireGood(u)
            BY <2>1, <2>3, <3>1 DEF WireGood
        <3>3. QED
            BY <2>1, <3>2
<1>9. QED
    BY <1>1, <1>3, <1>7, <1>8

\* What has been sent and what is queued, one behind the other: the version,
\* and once the peer's version was answered the verack and whole packets.
Greeted(n) ==
    \/ /\ n.verackSent = TRUE
       /\ \E rest \in Seq(OutUnits) :
              Paired(rest) /\ (n.wire \o n.version) \o n.out = Greeting \o rest
    \/ /\ n.verackSent = FALSE
       /\ n.wire \o n.version = Units("version") /\ Paired(n.out)

\* What the peer can read of it.
LEMMA GreetedGood == ASSUME NEW n \in NodeType, Greeted(n) PROVE WireGood(n.wire)
<1>0. n.wire \in Seq(OutUnits) /\ n.version \in Seq(OutUnits) /\ n.out \in Seq(OutUnits)
    BY DEF NodeType
<1>1. PICK w \in Seq(OutUnits) : w = n.wire
    BY <1>0
<1>2. PICK v \in Seq(OutUnits) : v = n.version
    BY <1>0
<1>3. PICK o \in Seq(OutUnits) : o = n.out
    BY <1>0
<1>4. PICK x \in Seq(OutUnits) : x = w \o v
    <2>1. w \o v \in Seq(OutUnits)
        BY <1>1, <1>2, ConcatProperties
    <2>2. QED
        BY <2>1
<1>5. WireGood(x)
    <2>1. CASE n.verackSent = TRUE
        <3>1. PICK rest \in Seq(OutUnits) : Paired(rest) /\ x \o o = Greeting \o rest
            BY <1>1, <1>2, <1>3, <1>4, <2>1 DEF Greeted
        <3>2. WireGood(x \o o)
            BY <3>1, GreetingGood
        <3>3. QED
            BY <1>3, <1>4, <3>2, GoodPrefix
    <2>2. CASE n.verackSent = FALSE
        <3>1. x = Units("version")
            BY <1>1, <1>2, <1>4, <2>2 DEF Greeted
        <3>2. <<>> \in Seq(OutUnits) /\ Paired(<<>>)
            BY PairedFew
        <3>3. QED
            BY <3>1, <3>2, GreetingGood
    <2>3. QED
        BY <2>1, <2>2 DEF Greeted
<1>6. WireGood(w)
    BY <1>1, <1>2, <1>4, <1>5, GoodPrefix
<1>7. QED
    BY <1>1, <1>6

\* The wire of a node that is closed can be read, and nothing more is put on it;
\* otherwise all that is sent and queued stands in line.
Line(n) ==
    /\ n.closed = TRUE => n.connected = FALSE /\ WireGood(n.wire)
    /\ n.closed = FALSE => Greeted(n)

\* A step that handles no packet, unless it closes the node.
Unheard(n, m) ==
    m.closed = FALSE =>
        m.in = n.in /\ m.handled = n.handled /\ m.verackSent = n.verackSent

\* What the kernel takes and what is left are what there was.
LEMMA TakenLeft ==
    ASSUME NEW n \in NodeType, NEW units \in Seq(OutUnits)
    PROVE  Taken(units, n) \o Left(units, n) = units
<1> DEFINE k == IF Len(units) <= SendCap - n.kernel THEN Len(units) ELSE SendCap - n.kernel
<1>1. n.kernel \in 0 .. SendCap /\ SendCap \in Nat /\ Len(units) \in Nat
    BY ConnectionAssumption DEF NodeType
<1>2. k \in 0 .. Len(units)
    BY <1>1
<1>3. Taken(units, n) = SubSeq(units, 1, k)
    BY DEF Taken
<1> HIDE DEF k
<1>4. Len(SubSeq(units, 1, k)) = k
    <2>1. \A i \in 1 .. k : units[i] \in OutUnits
        BY <1>1, <1>2
    <2>2. Len(SubSeq(units, 1, k)) = IF 1 <= k THEN k - 1 + 1 ELSE 0
        BY <1>2, <2>1, SubSeqProperties
    <2>3. QED
        BY <1>2, <2>2
<1>5. Left(units, n) = SubSeq(units, k + 1, Len(units))
    BY <1>3, <1>4 DEF Left
<1>6. 1 \in 1 .. Len(units) + 1 /\ k \in 1 - 1 .. Len(units) /\ Len(units) \in k .. Len(units)
    BY <1>1, <1>2
<1>7. SubSeq(units, 1, k) \o SubSeq(units, k + 1, Len(units)) = SubSeq(units, 1, Len(units))
    BY <1>6, ConcatAdjacentSubSeq
<1>8. SubSeq(units, 1, Len(units)) = units
    BY SubSeqFull
<1>9. QED
    BY <1>3, <1>5, <1>7, <1>8

\* Three sequences of units that go out, one behind the other.
LEMMA OutThree == \A q, r, t \in Seq(OutUnits) : (q \o r) \o t = q \o (r \o t)
BY ConcatThree

\* Sending the version packet, or a part of it, changes nothing in the line.
LEMMA VersionStandsInLine ==
    ASSUME NEW n \in NodeType
    PROVE  LET m == SendVersionPacket(n)
           IN  /\ m.closed = n.closed /\ m.connected = n.connected /\ m.verackSent = n.verackSent
               /\ m.in = n.in /\ m.handled = n.handled
               /\ Greeted(n) => Greeted(m)
<1> DEFINE m == SendVersionPacket(n)
<1>0. n.wire \in Seq(OutUnits) /\ n.version \in Seq(OutUnits) /\ n.out \in Seq(OutUnits)
    BY DEF NodeType
<1>1. /\ m.closed = n.closed /\ m.connected = n.connected /\ m.verackSent = n.verackSent
      /\ m.in = n.in /\ m.handled = n.handled /\ m.out = n.out
      /\ m.wire = n.wire \o Taken(n.version, n) /\ m.version = Left(n.version, n)
    BY DEF NodeType, SendVersionPacket, Pass
<1>2. Taken(n.version, n) \in Seq(OutUnits) /\ Left(n.version, n) \in Seq(OutUnits)
      /\ Taken(n.version, n) \o Left(n.version, n) = n.version
    BY <1>0, TakenType, TakenLeft
<1>3. (n.wire \o Taken(n.version, n)) \o Left(n.version, n)
          = n.wire \o (Taken(n.version, n) \o Left(n.version, n))
    <2>1. PICK w \in Seq(OutUnits) : w = n.wire
        BY <1>0
    <2>2. PICK a \in Seq(OutUnits) : a = Taken(n.version, n)
        BY <1>2
    <2>3. PICK b \in Seq(OutUnits) : b = Left(n.version, n)
        BY <1>2
    <2>4. (w \o a) \o b = w \o (a \o b)
        BY OutThree
    <2>5. QED
        BY <2>1, <2>2, <2>3, <2>4
<1>4. m.wire \o m.version = n.wire \o n.version
    BY <1>1, <1>2, <1>3
<1>5. Greeted(n) => Greeted(m)
    BY <1>1, <1>4 DEF Greeted
<1>6. QED
    BY <1>1, <1>5

\* Nor does sending what is queued, once the version packet is sent.
LEMMA OutputStandsInLine ==
    ASSUME NEW n \in NodeType
    PROVE  LET m == SendOutput(n)
           IN  /\ m.closed = n.closed /\ m.connected = n.connected /\ m.verackSent = n.verackSent
               /\ m.in = n.in /\ m.handled = n.handled
               /\ n.version = <<>> /\ n.verackSent = TRUE /\ Greeted(n) => Greeted(m)
<1> DEFINE m == SendOutput(n)
<1>0. n.wire \in Seq(OutUnits) /\ n.out \in Seq(OutUnits)
    BY DEF NodeType
<1>1. /\ m.closed = n.closed /\ m.connected = n.connected /\ m.verackSent = n.verackSent
      /\ m.in = n.in /\ m.handled = n.handled /\ m.version = n.version
      /\ m.wire = n.wire \o Taken(n.out, n) /\ m.out = Left(n.out, n)
    BY DEF NodeType, SendOutput, Pass
<1>2. Taken(n.out, n) \in Seq(OutUnits) /\ Left(n.out, n) \in Seq(OutUnits)
      /\ Taken(n.out, n) \o Left(n.out, n) = n.out
    BY <1>0, TakenType, TakenLeft
<1>3. (n.wire \o Taken(n.out, n)) \o Left(n.out, n)
          = n.wire \o (Taken(n.out, n) \o Left(n.out, n))
    <2>1. PICK w \in Seq(OutUnits) : w = n.wire
        BY <1>0
    <2>2. PICK a \in Seq(OutUnits) : a = Taken(n.out, n)
        BY <1>2
    <2>3. PICK b \in Seq(OutUnits) : b = Left(n.out, n)
        BY <1>2
    <2>4. (w \o a) \o b = w \o (a \o b)
        BY OutThree
    <2>5. QED
        BY <2>1, <2>2, <2>3, <2>4
<1>4. n.wire \o Taken(n.out, n) \in Seq(OutUnits)
    BY <1>0, <1>2, ConcatProperties
<1>5. ASSUME n.version = <<>>, n.verackSent = TRUE, Greeted(n) PROVE Greeted(m)
    <2>1. PICK rest \in Seq(OutUnits) :
              Paired(rest) /\ (n.wire \o n.version) \o n.out = Greeting \o rest
        BY <1>5 DEF Greeted
    <2>2. n.wire \o <<>> = n.wire
        BY <1>0, ConcatEmptySeq
    <2>3. m.wire \o <<>> = m.wire
        BY <1>1, <1>4, ConcatEmptySeq
    <2>4. (m.wire \o m.version) \o m.out = (n.wire \o n.version) \o n.out
        BY <1>1, <1>2, <1>3, <1>5, <2>2, <2>3
    <2>5. QED
        BY <1>1, <1>5, <2>1, <2>4 DEF Greeted
<1>6. QED
    BY <1>1, <1>5

\* NodeClose frees what is queued; what is on the wire stays.
LEMMA ClosedStandsInLine ==
    ASSUME NEW n \in NodeType
    PROVE  Closed(n).closed = TRUE /\ (Greeted(n) => Line(Closed(n)))
<1>1. Closed(n).closed = TRUE /\ Closed(n).connected = FALSE
    BY ClosedFollows DEF Shut
<1>2. Closed(n).wire = n.wire
    BY DEF NodeType, Closed, NodeReset
<1>3. Greeted(n) => WireGood(n.wire)
    BY GreetedGood
<1>4. QED
    BY <1>1, <1>2, <1>3 DEF Line

\* processVersionAndOutputBuffer keeps the line: queued data waits for the
\* version packet to be sent whole, and for the verack to be queued.
LEMMA OutputInLine ==
    ASSUME NEW n \in NodeType, NEW fails \in BOOLEAN
    PROVE  Unheard(n, ProcessOutput(n, fails)) /\ (Line(n) => Line(ProcessOutput(n, fails)))
<1> DEFINE m == IF n.version = <<>> \/ fails THEN n ELSE SendVersionPacket(n)
<1>0. n.closed \in BOOLEAN /\ n.connected \in BOOLEAN
    BY DEF NodeType
<1>1. m \in NodeType /\ m.closed = n.closed /\ m.connected = n.connected
      /\ m.verackSent = n.verackSent /\ m.in = n.in /\ m.handled = n.handled
      /\ (Greeted(n) => Greeted(m))
    <2>1. CASE n.version = <<>> \/ fails
        BY <2>1
    <2>2. CASE ~(n.version = <<>> \/ fails)
        BY <2>2, SendFollows, VersionStandsInLine DEF Follows
    <2>3. QED
        BY <2>1, <2>2
<1>2. m.verackSent \in BOOLEAN
    BY <1>1 DEF NodeType
<1>3. ProcessOutput(n, fails)
        = IF ~n.connected THEN n
          ELSE IF fails /\ n.version # <<>> THEN Closed(n)
          ELSE IF HoldsBack(m) \/ m.out = <<>> THEN m
          ELSE IF fails THEN Closed(m) ELSE SendOutput(m)
    BY DEF ProcessOutput
<1> HIDE DEF m
<1>4. Unheard(n, n) /\ Unheard(n, m) /\ Unheard(n, Closed(n)) /\ Unheard(n, Closed(m))
    BY <1>1, ClosedStandsInLine DEF Unheard
<1>5. Unheard(n, SendOutput(m))
    BY <1>1, OutputStandsInLine DEF Unheard
<1>6. ASSUME Line(n), n.connected
      PROVE  /\ Line(Closed(n)) /\ Line(m) /\ Line(Closed(m))
             /\ ~HoldsBack(m) => Line(SendOutput(m))
    <2>1. n.closed = FALSE /\ Greeted(n) /\ Greeted(m)
        BY <1>0, <1>1, <1>6 DEF Line
    <2>2. Line(Closed(n)) /\ Line(Closed(m)) /\ Line(m)
        BY <1>1, <2>1, ClosedStandsInLine DEF Line
    <2>3. ASSUME ~HoldsBack(m) PROVE Line(SendOutput(m))
        <3>1. m.version = <<>> /\ m.verackSent = TRUE
            BY <1>2, <2>3 DEF HoldsBack
        <3>2. Greeted(SendOutput(m)) /\ SendOutput(m).closed = FALSE
            BY <1>1, <2>1, <3>1, OutputStandsInLine
        <3>3. QED
            BY <3>2 DEF Line
    <2>4. QED
        BY <2>2, <2>3
<1>7. QED
    BY <1>3, <1>4, <1>5, <1>6

\* nodeSend: the verack goes in front of the queue, behind the version, and
\* every other packet behind the queue.
LEMMA NodeSendInLine ==
    ASSUME NEW n \in NodeType, NEW packet \in OutPackets, NEW gone
    PROVE  LET m == NodeSend(n, packet, gone)
           IN  /\ m.closed = FALSE =>
                      /\ m.in = n.in /\ m.handled = n.handled
                      /\ m.verackSent = IF packet = "verack" THEN TRUE ELSE n.verackSent
               /\ Line(n) /\ packet # "version"
                  /\ (packet = "verack" /\ n.closed = FALSE => n.verackSent = FALSE) => Line(m)
<1> DEFINE q == CASE packet = "verack" -> [n EXCEPT !.out = Units("verack") \o @,
                                                    !.verackSent = TRUE]
                  [] packet = "version" -> [n EXCEPT !.version = @ \o Units("version")]
                  [] OTHER -> [n EXCEPT !.out = @ \o Units(packet)]
           m == NodeSend(n, packet, gone)
<1>0. n.wire \in Seq(OutUnits) /\ n.version \in Seq(OutUnits) /\ n.out \in Seq(OutUnits)
    BY DEF NodeType
<1>1. Units("verack") \in Seq(OutUnits) /\ Units("version") \in Seq(OutUnits)
      /\ Units(packet) \in Seq(OutUnits)
    BY UnitsType DEF OutPackets
<1>2. /\ Units("verack") \o n.out \in Seq(OutUnits)
      /\ n.version \o Units("version") \in Seq(OutUnits)
      /\ n.out \o Units(packet) \in Seq(OutUnits)
    BY <1>0, <1>1, ConcatProperties
<1>3. q \in NodeType
    <2>1. ASSUME NEW u \in Seq(OutUnits)
          PROVE  /\ [n EXCEPT !.out = u, !.verackSent = TRUE] \in NodeType
                 /\ [n EXCEPT !.version = u] \in NodeType /\ [n EXCEPT !.out = u] \in NodeType
        BY DEF NodeType
    <2>2. QED
        BY <1>2, <2>1
<1>4. /\ q.closed = n.closed /\ q.connected = n.connected /\ q.wire = n.wire
      /\ q.in = n.in /\ q.handled = n.handled
      /\ q.verackSent = IF packet = "verack" THEN TRUE ELSE n.verackSent
      /\ q.out = IF packet = "verack" THEN Units("verack") \o n.out
                 ELSE IF packet = "version" THEN n.out ELSE n.out \o Units(packet)
      /\ packet # "version" => q.version = n.version
    BY DEF NodeType
<1>5. m = ProcessOutput(q, SendFails(q, gone)) /\ SendFails(q, gone) \in BOOLEAN
    BY DEF NodeSend, SendFails
<1> HIDE DEF q, m
<1>6. Unheard(q, m) /\ (Line(q) => Line(m))
    BY <1>3, <1>5, OutputInLine
<1>7. ASSUME packet # "version", Greeted(n), packet = "verack" => n.verackSent = FALSE
      PROVE  Greeted(q)
    <2>1. PICK u \in Seq(OutUnits) : u = Units(packet)
        BY <1>1
    <2>2. PICK o \in Seq(OutUnits) : o = n.out
        BY <1>0
    <2>3. PICK x \in Seq(OutUnits) : x = n.wire \o n.version
        <3>1. n.wire \o n.version \in Seq(OutUnits)
            BY <1>0, ConcatProperties
        <3>2. QED
            BY <3>1
    <2>4. x = q.wire \o q.version
        BY <1>4, <1>7, <2>3
    <2>5. CASE packet = "verack"
        <3>1. n.verackSent = FALSE /\ x = Units("version") /\ Paired(o)
            BY <1>7, <2>2, <2>3, <2>5 DEF Greeted
        <3>2. (x \o u) \o o = x \o (u \o o)
            BY OutThree
        <3>3. x \o u = Greeting /\ q.out = u \o o /\ q.verackSent = TRUE
            BY <1>4, <2>1, <2>2, <2>5, <3>1 DEF Greeting
        <3>4. Greeting \o o = (q.wire \o q.version) \o q.out
            BY <2>4, <3>2, <3>3
        <3>5. QED
            BY <2>2, <3>1, <3>3, <3>4 DEF Greeted
    <2>6. CASE packet # "verack"
        <3>1. q.out = o \o u /\ q.verackSent = n.verackSent
            BY <1>4, <1>7, <2>1, <2>2, <2>6
        <3>2. CASE n.verackSent = TRUE
            <4>1. PICK rest \in Seq(OutUnits) : Paired(rest) /\ x \o o = Greeting \o rest
                BY <1>7, <2>2, <2>3, <3>2 DEF Greeted
            <4>2. Greeting \in Seq(OutUnits)
                BY <1>1, ConcatProperties DEF Greeting
            <4>3. PICK g \in Seq(OutUnits) : g = Greeting
                BY <4>2
            <4>4. (x \o o) \o u = x \o (o \o u) /\ (g \o rest) \o u = g \o (rest \o u)
                BY OutThree
            <4>5. (q.wire \o q.version) \o q.out = Greeting \o (rest \o u)
                BY <2>4, <3>1, <4>1, <4>3, <4>4
            <4>6. rest \o u \in Seq(OutUnits) /\ Paired(rest \o u)
                BY <2>1, <4>1, PairedGrows
            <4>7. QED
                BY <3>1, <3>2, <4>5, <4>6 DEF Greeted
        <3>3. CASE n.verackSent = FALSE
            <4>1. x = Units("version") /\ Paired(o)
                BY <1>7, <2>2, <2>3, <3>3 DEF Greeted
            <4>2. Paired(o \o u)
                BY <2>1, <4>1, PairedGrows
            <4>3. QED
                BY <2>4, <3>1, <3>3, <4>1, <4>2 DEF Greeted
        <3>4. QED
            BY <1>7, <3>2, <3>3 DEF Greeted
    <2>7. QED
        BY <2>5, <2>6
<1>8. ASSUME Line(n), packet # "version",
             packet = "verack" /\ n.closed = FALSE => n.verackSent = FALSE
      PROVE  Line(q)
    BY <1>4, <1>7, <1>8 DEF Line
<1>9. QED
    BY <1>4, <1>6, <1>8 DEF Unheard, m

\* The verack was sent for a version that was handled.
Answered(n) ==
    /\ Line(n)
    /\ n.closed = FALSE /\ n.verackSent = TRUE => "version" \in ToSet(n.handled)

\* received: one packet more is handled, and a first version is answered.
LEMMA ReceivedInLine ==
    ASSUME NEW n \in NodeType, NEW packet \in GoodNames, NEW gone
    PROVE  LET m == Received(n, packet, gone)
           IN  /\ m.closed = FALSE => m.in = n.in /\ m.handled = Append(n.handled, packet)
               /\ Answered(n) /\ (packet = "version" /\ n.closed = FALSE => n.verackSent = FALSE)
                  => Answered(m)
<1> DEFINE h == [n EXCEPT !.handled = Append(@, packet)]
           m == Received(n, packet, gone)
<1>0. packet \in Packets /\ packet \in Packets \ {"badChecksum", "junk"} /\ n.handled \in Seq(Packets)
    BY DEF GoodNames, NodeType
<1>1. Append(n.handled, packet) \in Seq(Packets)
    BY <1>0
<1>2. h \in NodeType /\ h.closed = n.closed /\ h.connected = n.connected /\ h.wire = n.wire
      /\ h.version = n.version /\ h.out = n.out /\ h.verackSent = n.verackSent /\ h.in = n.in
      /\ h.handled = Append(n.handled, packet)
    BY <1>1 DEF NodeType
<1>3. Line(n) => Line(h)
    BY <1>2 DEF Line, Greeted
<1>4. /\ packet = "version" => m = NodeSend(h, "verack", gone)
      /\ packet = "ping" => m = NodeSend(h, "pong", gone)
      /\ packet = "verack" => m = [h EXCEPT !.ready = TRUE]
      /\ packet = "pong" => m = [h EXCEPT !.pongs = @ + 1]
      /\ packet = "reject" => m = [h EXCEPT !.rejects = @ + 1]
      /\ packet = "malformed" => m = [h EXCEPT !.errors = @ + 1]
      /\ packet = "data" => m = h
    BY DEF Received
<1>5. ToSet(Append(n.handled, packet)) = ToSet(n.handled) \cup {packet}
    BY <1>0, ElementsAppend
<1>6. m \in NodeType /\ (m.closed = FALSE => n.closed = FALSE)
    BY <1>0, ReceivedFollows DEF Follows, Shut
<1> HIDE DEF h, m
<1>7. CASE packet = "version"
    <2>1. "verack" \in OutPackets
        BY DEF OutPackets
    <2>0. h \in NodeType /\ m = NodeSend(h, "verack", gone)
        BY <1>2, <1>4, <1>7
    <2>2. m.closed = FALSE => m.in = h.in /\ m.handled = h.handled
        BY <2>0, <2>1, NodeSendInLine
    <2>3. Line(h) /\ (h.closed = FALSE => h.verackSent = FALSE) => Line(m)
        BY <2>0, <2>1, NodeSendInLine
    <2>4. m.closed = FALSE => "version" \in ToSet(m.handled)
        BY <1>2, <1>5, <1>7, <2>2
    <2>5. QED
        BY <1>2, <1>3, <1>7, <2>2, <2>3, <2>4 DEF Answered, m
<1>8. CASE packet # "version"
    <2>1. /\ m.closed = FALSE => /\ m.in = h.in /\ m.handled = h.handled
                                 /\ m.verackSent = h.verackSent
          /\ Line(h) => Line(m)
        <3>1. CASE packet = "ping"
            <4>1. "pong" \in OutPackets
                BY DEF OutPackets
            <4>2. h \in NodeType /\ m = NodeSend(h, "pong", gone)
                BY <1>2, <1>4, <3>1
            <4>3. LET k == NodeSend(h, "pong", gone)
                  IN  /\ k.closed = FALSE =>
                             /\ k.in = h.in /\ k.handled = h.handled
                             /\ k.verackSent = IF "pong" = "verack" THEN TRUE ELSE h.verackSent
                      /\ Line(h) /\ "pong" # "version"
                         /\ ("pong" = "verack" /\ h.closed = FALSE => h.verackSent = FALSE)
                         => Line(k)
                BY <4>1, <4>2, NodeSendInLine
            <4>4. QED
                BY <4>2, <4>3
        <3>2. CASE packet # "ping"
            <4>1. /\ m.closed = h.closed /\ m.connected = h.connected /\ m.wire = h.wire
                  /\ m.version = h.version /\ m.out = h.out /\ m.verackSent = h.verackSent
                  /\ m.in = h.in /\ m.handled = h.handled
                <5>1. packet \in {"verack", "pong", "reject", "malformed", "data"}
                    BY <1>8, <3>2 DEF GoodNames, Packets
                <5>2. CASE packet = "verack"
                    BY <1>2, <1>4, <5>2 DEF NodeType
                <5>3. CASE packet = "pong"
                    BY <1>2, <1>4, <5>3 DEF NodeType
                <5>4. CASE packet = "reject"
                    BY <1>2, <1>4, <5>4 DEF NodeType
                <5>5. CASE packet = "malformed"
                    BY <1>2, <1>4, <5>5 DEF NodeType
                <5>6. CASE packet = "data"
                    BY <1>4, <5>6
                <5>7. QED
                    BY <5>1, <5>2, <5>3, <5>4, <5>5, <5>6
            <4>2. QED
                BY <4>1 DEF Line, Greeted
        <3>3. QED
            BY <3>1, <3>2
    <2>2. ASSUME Answered(n) PROVE Answered(m)
        <3>1. Line(m)
            BY <1>3, <2>1, <2>2 DEF Answered
        <3>2. ASSUME m.closed = FALSE, m.verackSent = TRUE PROVE "version" \in ToSet(m.handled)
            <4>1. "version" \in ToSet(n.handled)
                BY <1>2, <1>6, <2>1, <2>2, <3>2 DEF Answered
            <4>2. QED
                BY <1>2, <1>5, <2>1, <3>2, <4>1
        <3>3. QED
            BY <3>1, <3>2 DEF Answered
    <2>3. QED
        BY <1>2, <2>1, <2>2 DEF m
<1>9. QED
    BY <1>7, <1>8

-----------------------------------------------------------------------------
(* The loop over the input buffer keeps the stream and the line *)

\* Every packet of what was sent is handled or in the rest of the stream, in
\* order; and if at most one of them is a version, what goes out is in line.
Flow(n, rest, got) ==
    /\ n.closed = FALSE => n.handled \o GoodPackets(rest) = got /\ Framed(rest)
    /\ Len(Within(got, {"version"})) <= 1 => Answered(n)

\* The versions of two sequences of packets, one behind the other.
LEMMA VersionsConcat ==
    \A q, r \in Seq(Packets) :
        Within(q \o r, {"version"}) = Within(q, {"version"}) \o Within(r, {"version"})
BY WithinConcat

\* A version behind another is the second.
LEMMA SecondVersion ==
    ASSUME NEW a \in Seq(Packets), NEW g \in Seq(Packets), "version" \in ToSet(a)
    PROVE  ~(Len(Within(Append(a, "version") \o g, {"version"})) <= 1)
<1>a. PICK V : V = {"version"}
    OBVIOUS
<1>0. "version" \in Packets /\ Append(a, "version") \in Seq(Packets)
    BY DEF Packets
<1>1. PICK x \in Seq(Packets) : x = Within(a, V)
    BY WithinType
<1>2. PICK y \in Seq(Packets) : y = Within(g, V)
    BY WithinType
<1>3. Within(Append(a, "version"), V) = Append(x, "version")
    BY <1>a, <1>0, <1>1, WithinAppend
<1>4. Within(Append(a, "version") \o g, V) = Append(x, "version") \o y
    <2>1. PICK b \in Seq(Packets) : b = Append(a, "version")
        BY <1>0
    <2>2. Within(b \o g, V) = Within(b, V) \o Within(g, V)
        BY VersionsConcat, <1>a
    <2>3. QED
        BY <1>2, <1>3, <2>1, <2>2
<1>5. Len(x) # 0
    <2>1. ToSet(x) = ToSet(a) \cap V
        BY <1>1, WithinElements
    <2>2. "version" \in ToSet(x)
        BY <1>a, <2>1
    <2>3. PICK i \in DOMAIN x : x[i] = "version"
        BY <2>2 DEF ToSet
    <2>4. i \in 1 .. Len(x)
        BY <1>1, <2>3
    <2>5. QED
        BY <2>4
<1>6. Len(Append(x, "version") \o y) = Len(x) + 1 + Len(y) /\ Len(x) \in Nat /\ Len(y) \in Nat
    <2>1. Append(x, "version") \in Seq(Packets) /\ Len(Append(x, "version")) = Len(x) + 1
        BY <1>0, <1>1
    <2>2. PICK z \in Seq(Packets) : z = Append(x, "version")
        BY <2>1
    <2>3. Len(z \o y) = Len(z) + Len(y)
        BY <1>2, <2>2, ConcatProperties
    <2>4. QED
        BY <1>1, <1>2, <2>1, <2>2, <2>3
<1>7. QED
    BY <1>a, <1>4, <1>5, <1>6

\* Three sequences of packets, one behind the other.
LEMMA PacketsThree == \A q, r, t \in Seq(Packets) : (q \o r) \o t = q \o (r \o t)
BY ConcatThree

\* A round of the loop: a unit that is no header is skipped, a packet with a
\* wrong checksum dropped, and another one handled.
LEMMA RoundFlows ==
    ASSUME NEW s \in Rounds, NEW gone, NEW tail \in Seq(InUnits), NEW got,
           Flow(s.n, s.units \o tail, got)
    PROVE  Flow(InputRound(s, gone).n, InputRound(s, gone).units \o tail, got)
<1>0. PICK n \in NodeType, u \in Seq(InUnits) : n = s.n /\ u = s.units
    BY DEF Rounds
<1>1. CASE n.closed \/ u = <<>> \/ Incomplete(u)
    <2>1. InputRound(s, gone) = s
        BY <1>0, <1>1 DEF InputRound
    <2>2. QED
        BY <2>1
<1>2. CASE ~(n.closed \/ u = <<>> \/ Incomplete(u))
    <2>0. n.closed = FALSE /\ n.closed \in BOOLEAN
        BY <1>2 DEF NodeType
    <2>1. n.handled \o GoodPackets(u \o tail) = got /\ Framed(u \o tail) /\ n.handled \in Seq(Packets)
        BY <1>0, <2>0 DEF Flow, NodeType
    <2>2. CASE u[1].part # "header"
        <3>1. InputRound(s, gone) = [n |-> n, units |-> Tail(u)]
            BY <1>0, <1>2, <2>2 DEF InputRound
        <3>2. GoodPackets(Tail(u) \o tail) = GoodPackets(u \o tail) /\ Framed(Tail(u) \o tail)
            BY <1>2, <2>1, <2>2, UnitSkipped
        <3>3. Flow(n, Tail(u) \o tail, got)
            BY <1>0, <2>1, <3>2 DEF Flow
        <3>4. QED
            BY <3>1, <3>3
    <2>3. CASE u[1].part = "header"
        <3>1. Len(u) >= 2 /\ u[1] \in InUnits
            <4>1. Len(u) \in Nat /\ Len(u) # 0 /\ Len(u) # 1
                BY <1>2, <2>3 DEF Incomplete
            <4>2. Len(u) >= 2
                <5>1. \A k \in Nat : k # 0 /\ k # 1 => k >= 2
                    OBVIOUS
                <5>2. QED
                    BY <4>1, <5>1
            <4>3. u[1] \in InUnits
                BY <4>1, <4>2, ElementOfSeq
            <4>4. QED
                BY <4>2, <4>3
        <3>2. PICK x \in InUnits : x = u[1]
            BY <3>1
        <3>3. PICK r \in Seq(InUnits) : r = SubSeq(u, 3, Len(u))
            <4>1. SubSeq(u, 3, Len(u)) \in Seq(InUnits)
                BY <1>2, FirstOfSequence, <3>1
            <4>2. QED
                BY <4>1
        <3>4. GoodPackets(u \o tail) = GoodPackets(<<x>>) \o GoodPackets(r \o tail)
              /\ Framed(r \o tail)
            BY <2>1, <2>3, <3>1, <3>2, <3>3, PacketTaken
        <3>5. PICK g \in Seq(Packets) : g = GoodPackets(r \o tail)
            <4>1. r \o tail \in Seq(InUnits)
                BY <3>3, ConcatProperties
            <4>2. QED
                BY <4>1, GoodType
        <3>6. CASE x.of = "badChecksum"
            <4>1. PICK m : m = [n EXCEPT !.errors = @ + 1]
                OBVIOUS
            <4>2. InputRound(s, gone) = [n |-> m, units |-> r]
                BY <1>0, <1>2, <2>3, <3>2, <3>3, <3>6, <4>1 DEF InputRound
            <4>3. /\ m.closed = n.closed /\ m.connected = n.connected /\ m.wire = n.wire
                  /\ m.version = n.version /\ m.out = n.out /\ m.verackSent = n.verackSent
                  /\ m.handled = n.handled
                BY <4>1 DEF NodeType
            <4>4. Answered(n) => Answered(m)
                BY <4>3 DEF Answered, Line, Greeted
            <4>5. GoodPackets(u \o tail) = g
                BY <3>2, <3>4, <3>5, <3>6, GoodOne, ConcatEmptySeq
            <4>6. Flow(m, r \o tail, got)
                BY <1>0, <2>1, <3>4, <3>5, <4>3, <4>4, <4>5 DEF Flow
            <4>7. QED
                BY <4>2, <4>6
        <3>7. CASE x.of # "badChecksum"
            <4>1. PICK p \in GoodNames : p = x.of
                <5>1. x.of \in Packets \ {"junk"}
                    BY <2>3, <3>2, HeaderKnown
                <5>2. QED
                    BY <3>7, <5>1 DEF GoodNames
            <4>2. PICK m : m = Received(n, p, gone)
                OBVIOUS
            <4>3. InputRound(s, gone) = [n |-> m, units |-> r]
                BY <1>0, <1>2, <2>3, <3>2, <3>3, <3>7, <4>1, <4>2 DEF InputRound
            <4>4. p \in Packets /\ <<p>> \in Seq(Packets)
                BY <4>1 DEF GoodNames
            <4>5. GoodPackets(<<x>>) = <<p>>
                BY <2>3, <3>2, <3>7, <4>1, GoodOne
            <4>6. got = Append(n.handled, p) \o g
                <5>1. PICK h \in Seq(Packets) : h = n.handled
                    BY <2>1
                <5>2. PICK q \in Seq(Packets) : q = <<p>>
                    BY <4>4
                <5>3. (h \o q) \o g = h \o (q \o g)
                    BY PacketsThree
                <5>4. h \o q = Append(h, p)
                    BY <4>4, <5>1, <5>2, AppendIsConcat
                <5>5. QED
                    BY <2>1, <3>4, <3>5, <4>5, <5>1, <5>2, <5>3, <5>4
            <4>7. ASSUME Len(Within(got, {"version"})) <= 1, Answered(n)
                  PROVE  p = "version" /\ n.closed = FALSE => n.verackSent = FALSE
                <5>1. SUFFICES ASSUME p = "version", n.verackSent # FALSE PROVE FALSE
                    OBVIOUS
                <5>2. "version" \in ToSet(n.handled)
                    <6>1. n.verackSent = TRUE
                        BY <5>1 DEF NodeType
                    <6>2. QED
                        BY <2>0, <4>7, <6>1 DEF Answered
                <5>3. ~(Len(Within(Append(n.handled, "version") \o g, {"version"})) <= 1)
                    BY <2>1, <3>5, <5>2, SecondVersion
                <5>4. QED
                    BY <4>6, <4>7, <5>1, <5>3
            <4>8. /\ m.closed = FALSE => m.handled = Append(n.handled, p)
                  /\ Answered(n) /\ (p = "version" /\ n.closed = FALSE => n.verackSent = FALSE)
                     => Answered(m)
                BY <4>1, <4>2, ReceivedInLine
            <4>9. Flow(m, r \o tail, got)
                <5>1. m.closed = FALSE => m.handled \o g = got
                    BY <4>6, <4>8
                <5>2. Len(Within(got, {"version"})) <= 1 => Answered(m)
                    BY <1>0, <4>7, <4>8 DEF Flow
                <5>3. QED
                    BY <3>4, <3>5, <5>1, <5>2 DEF Flow
            <4>10. QED
                BY <4>3, <4>9
        <3>8. QED
            BY <3>6, <3>7
    <2>4. QED
        BY <2>2, <2>3
<1>3. QED
    BY <1>1, <1>2

\* So does the loop, however many rounds it takes.
LEMMA LoopFlows ==
    ASSUME NEW s \in Rounds, NEW gone, NEW N \in Nat, NEW f, Loops(f, N, s, gone),
           NEW tail \in Seq(InUnits), NEW got, Flow(s.n, s.units \o tail, got)
    PROVE  \A k \in 0 .. N : Flow(f[k].n, f[k].units \o tail, got)
<1> DEFINE Good(k) == Flow(f[k].n, f[k].units \o tail, got)
           Bad == {k \in 0 .. N : ~Good(k)}
<1>0. \A k \in 0 .. N : f[k] = IF k = 0 THEN s ELSE InputRound(f[k - 1], gone)
    BY DEF Loops
<1>1. SUFFICES ASSUME Bad # {} PROVE FALSE
    OBVIOUS
<1>2. PICK k \in Bad : \A j \in Bad : ~(<<j, k>> \in OpToRel(<, Nat))
    <2>1. Bad \subseteq Nat
        OBVIOUS
    <2> HIDE DEF Bad
    <2>2. QED
        BY <1>1, <2>1, WFMin, NatLessThanWellFounded
<1>3. k \in 0 .. N /\ ~Good(k) /\ \A j \in Bad : ~(j < k)
    <2>1. k \in 0 .. N /\ ~Good(k) /\ \A j \in Bad : j \in Nat
        OBVIOUS
    <2> HIDE DEF Bad, Good
    <2>2. QED
        BY <1>2, <2>1 DEF OpToRel
<1>4. CASE k = 0
    BY <1>0, <1>3, <1>4
<1>5. CASE k # 0
    <2>1. k - 1 \in 0 .. N /\ Good(k - 1)
        BY <1>3, <1>5
    <2>2. f[k] = InputRound(f[k - 1], gone)
        BY <1>0, <1>3, <1>5
    <2>3. f[k - 1] \in Rounds
        BY <2>1, LoopEnds
    <2>4. Good(k)
        BY <2>1, <2>2, <2>3, RoundFlows
    <2>5. QED
        BY <1>3, <2>4
<1>6. QED
    BY <1>4, <1>5

\* processInputBuffer: what the loop leaves is in the buffer.
LEMMA InputFlows ==
    ASSUME NEW n \in NodeType, NEW gone, NEW tail \in Seq(InUnits), NEW got,
           Flow(n, n.in \o tail, got)
    PROVE  Flow(ProcessInput(n, gone), ProcessInput(n, gone).in \o tail, got)
<1> DEFINE units == n.in
           s == [n |-> n, units |-> units]
           after == CHOOSE f : Loops(f, PacketsPerProcess, s, gone)
           end == after[PacketsPerProcess]
<1>1. s \in Rounds /\ PacketsPerProcess \in Nat /\ s.n = n /\ s.units = n.in
    BY ConnectionAssumption DEF Rounds, NodeType
<1>2. Loops(after, PacketsPerProcess, s, gone)
    <2> HIDE DEF s
    <2>1. \E f : Loops(f, PacketsPerProcess, s, gone)
        BY <1>1, LoopExists
    <2>2. QED
        BY <2>1
<1>3. end \in Rounds /\ Flow(end.n, end.units \o tail, got)
    <2> HIDE DEF s, after
    <2>1. PacketsPerProcess \in 0 .. PacketsPerProcess
        BY <1>1
    <2>2. \A k \in 0 .. PacketsPerProcess : after[k] \in Rounds
        BY <1>1, <1>2, LoopEnds
    <2>3. Flow(s.n, s.units \o tail, got)
        BY <1>1
    <2>4. \A k \in 0 .. PacketsPerProcess : Flow(after[k].n, after[k].units \o tail, got)
        BY <1>1, <1>2, <2>3, LoopFlows
    <2>5. QED
        BY <2>1, <2>2, <2>4
<1>4. InputLoop(n, units, gone)
        = IF end.n.closed THEN [end.n EXCEPT !.undefined = TRUE]
          ELSE [end.n EXCEPT !.in = IF Incomplete(end.units) THEN RestOfShort(end.units)
                                    ELSE end.units]
    BY Zenon DEF InputLoop, Loops
<1> HIDE DEF end
<1>5. PICK e \in NodeType, u \in Seq(InUnits) : e = end.n /\ u = end.units
    BY <1>3 DEF Rounds
<1>6. InputLoop(n, units, gone)
        = IF e.closed THEN [e EXCEPT !.undefined = TRUE] ELSE [e EXCEPT !.in = u]
    BY <1>4, <1>5 DEF RestOfShort
<1>7. Flow(e, u \o tail, got)
    BY <1>3, <1>5
<1>8. ASSUME NEW m, m.closed = e.closed, m.connected = e.connected, m.wire = e.wire,
             m.version = e.version, m.out = e.out, m.verackSent = e.verackSent,
             m.handled = e.handled, m.closed = FALSE => m.in = u
      PROVE  Flow(m, m.in \o tail, got)
    <2>1. Answered(e) => Answered(m)
        BY <1>8 DEF Answered, Line, Greeted
    <2>2. QED
        BY <1>7, <1>8, <2>1 DEF Flow
<1>9. CASE e.closed
    <2>1. PICK m : m = [e EXCEPT !.undefined = TRUE]
        OBVIOUS
    <2>2. /\ m.closed = e.closed /\ m.connected = e.connected /\ m.wire = e.wire
          /\ m.version = e.version /\ m.out = e.out /\ m.verackSent = e.verackSent
          /\ m.handled = e.handled
        BY <2>1 DEF NodeType
    <2>3. e.closed = TRUE
        BY <1>9 DEF NodeType
    <2>4. Flow(m, m.in \o tail, got)
        BY <1>8, <2>2, <2>3
    <2>5. InputLoop(n, units, gone) = m
        BY <1>6, <1>9, <2>1
    <2>6. QED
        BY <2>4, <2>5 DEF ProcessInput
<1>10. CASE ~e.closed
    <2>1. PICK m : m = [e EXCEPT !.in = u]
        OBVIOUS
    <2>2. /\ m.closed = e.closed /\ m.connected = e.connected /\ m.wire = e.wire
          /\ m.version = e.version /\ m.out = e.out /\ m.verackSent = e.verackSent
          /\ m.handled = e.handled /\ m.in = u
        BY <2>1 DEF NodeType
    <2>3. Flow(m, m.in \o tail, got)
        BY <1>8, <2>2
    <2>4. InputLoop(n, units, gone) = m
        BY <1>6, <1>10, <2>1
    <2>5. QED
        BY <2>3, <2>4 DEF ProcessInput
<1>11. QED
    BY <1>9, <1>10

\* Three sequences of units that come in, one behind the other.
LEMMA InThree == \A q, r, t \in Seq(InUnits) : (q \o r) \o t = q \o (r \o t)
BY ConcatThree

\* NodeProcessRead: what is received is behind what is in the buffer.
LEMMA ReadFlows ==
    ASSUME NEW n \in NodeType, n.closed = FALSE, NEW units \in Seq(InUnits), NEW gone,
           NEW tail \in Seq(InUnits), NEW got, Flow(n, n.in \o (units \o tail), got)
    PROVE  LET m == ProcessRead(n, units, gone) IN Flow(m, m.in \o tail, got)
<1>1. CASE ProcessRead(n, units, gone) = Closed(n)
    <2>1. Closed(n).closed = TRUE /\ (Greeted(n) => Line(Closed(n)))
        BY ClosedStandsInLine
    <2>2. Len(Within(got, {"version"})) <= 1 => Answered(Closed(n))
        BY <2>1 DEF Flow, Answered, Line
    <2>3. QED
        BY <1>1, <2>1, <2>2 DEF Flow
<1>2. CASE ProcessRead(n, units, gone) # Closed(n)
    <2>1. n.in \o units \in Seq(InUnits) /\ n.in \in Seq(InUnits)
        BY ConcatProperties DEF NodeType
    <2>2. PICK m : m = [n EXCEPT !.in = @ \o units]
        OBVIOUS
    <2>3. m \in NodeType
        <3>1. ASSUME NEW u \in Seq(InUnits) PROVE [n EXCEPT !.in = u] \in NodeType
            BY DEF NodeType
        <3>2. QED
            BY <2>1, <2>2, <3>1
    <2>4. /\ m.closed = n.closed /\ m.connected = n.connected /\ m.wire = n.wire
          /\ m.version = n.version /\ m.out = n.out /\ m.verackSent = n.verackSent
          /\ m.handled = n.handled /\ m.in = n.in \o units
        BY <2>2 DEF NodeType
    <2>5. m.in \o tail = n.in \o (units \o tail)
        <3>1. PICK i \in Seq(InUnits) : i = n.in
            BY <2>1
        <3>2. (i \o units) \o tail = i \o (units \o tail)
            BY InThree
        <3>3. QED
            BY <2>4, <3>1, <3>2
    <2>6. Answered(n) => Answered(m)
        BY <2>4 DEF Answered, Line, Greeted
    <2>7. Flow(m, m.in \o tail, got)
        BY <2>4, <2>5, <2>6 DEF Flow
    <2>8. Flow(ProcessInput(m, gone), ProcessInput(m, gone).in \o tail, got)
        BY <2>3, <2>7, InputFlows
    <2>9. ProcessRead(n, units, gone) = ProcessInput(m, gone)
        BY <1>2, <2>2 DEF ProcessRead
    <2>10. QED
        BY <2>8, <2>9
<1>3. QED
    BY <1>1, <1>2

\* Sending handles no packet.
LEMMA OutputFlows ==
    ASSUME NEW n \in NodeType, NEW fails \in BOOLEAN, NEW tail, NEW got,
           Flow(n, n.in \o tail, got)
    PROVE  LET m == ProcessOutput(n, fails) IN Flow(m, m.in \o tail, got)
<1> DEFINE m == ProcessOutput(n, fails)
<1>1. Unheard(n, m) /\ (Line(n) => Line(m)) /\ (m.closed = FALSE => n.closed = FALSE)
    BY OutputInLine, OutputFollows DEF Follows, Shut
<1> HIDE DEF m
<1>2. Answered(n) => Answered(m)
    BY <1>1 DEF Answered, Unheard
<1>3. m.closed = FALSE => m.handled \o GoodPackets(m.in \o tail) = got /\ Framed(m.in \o tail)
    BY <1>1 DEF Unheard, Flow
<1>4. Flow(m, m.in \o tail, got)
    BY <1>2, <1>3 DEF Flow
<1>5. QED
    BY <1>4 DEF m

-----------------------------------------------------------------------------
(* The inductive invariant of the two streams *)

\* What the peer has sent, and the packets in it that are to be handled.
Sent == SubSeq(PeerPackets, 1, peerNext)
Got == Within(Sent, GoodNames)

\* The node that nobody has used yet.
Unused(n) ==
    /\ n.closed = FALSE /\ n.verackSent = FALSE
    /\ n.wire = <<>> /\ n.version = <<>> /\ n.out = <<>>

\* Nothing has come in before the node is connected, and nothing gone out before
\* the version is; every packet that was sent is handled or in a buffer; what
\* goes out is in line, as long as the peer has sent one version at most, and
\* what went out before the node was closed can be read.
FlowInv ==
    /\ peerNext <= Len(PeerPackets)
    /\ ndUser = "start" => arriving = <<>> /\ peerNext = 0 /\ nd.connected = FALSE
    /\ ndUser \in {"start", "sendVersion"} => Unused(nd)
    /\ ndUser \in {"joining", "free", "freed"} => nd.closed = TRUE
    /\ nd.closed = FALSE =>
           nd.handled \o GoodPackets(nd.in \o arriving) = Got /\ Framed(nd.in \o arriving)
    /\ Len(Within(Got, {"version"})) <= 1 =>
           /\ nd.closed = TRUE => WireGood(nd.wire)
           /\ nd.closed = FALSE /\ ndUser \notin {"start", "sendVersion"} =>
                  /\ Greeted(nd)
                  /\ nd.verackSent = TRUE => "version" \in ToSet(nd.handled)

\* What the peer has sent is a sequence of packets, as are those to be handled.
LEMMA GotType ==
    ASSUME peerNext \in Nat, peerNext <= Len(PeerPackets)
    PROVE  Sent \in Seq(Packets) /\ Got \in Seq(Packets)
<1>1. PeerPackets \in Seq(Packets) /\ Len(PeerPackets) \in Nat
    BY ConnectionAssumption
<1>2. \A i \in 1 .. peerNext : PeerPackets[i] \in Packets
    BY <1>1
<1>3. Sent \in Seq(Packets)
    BY <1>2, SubSeqProperties DEF Sent
<1>4. QED
    BY <1>3, WithinType DEF Got

\* A node in use is what the lemmas about its operations begin with.
LEMMA FlowOfUse ==
    ASSUME ConnInv, FlowInv, ndUser \in {"filterLoad", "idle"}
    PROVE  Flow(nd, nd.in \o arriving, Got)
<1>1. nd.closed = TRUE => nd.connected = FALSE
    BY DEF ConnInv, ThreadInv, Using
<1>2. QED
    BY <1>1 DEF FlowInv, Flow, Answered, Line

\* And what they end with is what the invariant says.
LEMMA FlowOfOperation ==
    ASSUME FlowInv, Flow(nd', nd'.in \o arriving', Got), peerNext' = peerNext,
           ndUser' \in {"filterLoad", "idle"}
    PROVE  FlowInv'
<1>1. Got' = Got
    BY DEF Got, Sent
<1>2. QED
    BY <1>1 DEF FlowInv, Flow, Answered, Line

\* A step that moves nothing in the streams of a node that is connected.
LEMMA FlowStays ==
    ASSUME FlowInv, peerNext' = peerNext, arriving' = arriving,
           ndUser \notin {"start", "sendVersion"} \/ Unused(nd'),
           ndUser' # "start" \/ nd'.connected = FALSE,
           ndUser' = ndUser \/ (ndUser = "idle" /\ ndUser' = "closing"),
           nd'.closed = nd.closed, nd'.handled = nd.handled, nd'.in = nd.in,
           nd'.wire = nd.wire, nd'.version = nd.version, nd'.out = nd.out,
           nd'.verackSent = nd.verackSent
    PROVE  FlowInv'
<1>1. Got' = Got
    BY DEF Got, Sent
<1>2. Greeted(nd) => Greeted(nd')
    BY DEF Greeted
<1>3. QED
    BY <1>1, <1>2 DEF FlowInv

\* NodeSendVersion: the version packet is the first in line.
LEMMA VersionFlows ==
    ASSUME ConnInv, FlowInv, NodeSendVersion
    PROVE  FlowInv'
<1> DEFINE n == NodeSend(nd, "version", peerGone)
           q == [nd EXCEPT !.version = @ \o Units("version")]
<1>0. nd \in NodeType /\ Unused(nd) /\ "version" \in OutPackets
    BY DEF ConnInv, ConnTypes, FlowInv, NodeSendVersion, OutPackets
<1>1. nd' = n /\ arriving' = arriving /\ peerNext' = peerNext /\ ndUser' = "filterLoad"
    BY DEF NodeSendVersion, connRest
<1>2. Units("version") \in Seq(OutUnits) /\ <<>> \in Seq(OutUnits)
      /\ <<>> \o Units("version") = Units("version")
    BY <1>0, UnitsType, ConcatEmptySeq
<1>3. q \in NodeType
    <2>1. ASSUME NEW u \in Seq(OutUnits) PROVE [nd EXCEPT !.version = u] \in NodeType
        BY <1>0 DEF NodeType
    <2>2. q = [nd EXCEPT !.version = Units("version")]
        BY <1>0, <1>2 DEF Unused
    <2>3. QED
        BY <1>2, <2>1, <2>2
<1>4. /\ q.closed = FALSE /\ q.verackSent = FALSE /\ q.wire = <<>> /\ q.out = <<>>
      /\ q.version = Units("version") /\ q.in = nd.in /\ q.handled = nd.handled
    BY <1>0, <1>2 DEF NodeType, Unused
<1>5. n = ProcessOutput(q, SendFails(q, peerGone)) /\ SendFails(q, peerGone) \in BOOLEAN
    BY DEF NodeSend, SendFails
<1> HIDE DEF q
<1>6. Line(q)
    BY <1>2, <1>4, PairedFew DEF Line, Greeted
<1>7. Line(n)
    BY <1>3, <1>5, <1>6, OutputInLine
<1>8. n.closed = FALSE => n.in = nd.in /\ n.handled = nd.handled /\ n.verackSent = FALSE
    BY <1>3, <1>4, <1>5, OutputInLine DEF Unheard
<1> HIDE DEF n
<1>9. Answered(n)
    BY <1>7, <1>8 DEF Answered
<1>10. Flow(n, n.in \o arriving, Got)
    BY <1>0, <1>8, <1>9 DEF Flow, FlowInv, Unused
<1>11. QED
    BY <1>1, <1>10, FlowOfOperation

\* A packet that the node manager sends on a connection in use.
LEMMA SendFlows ==
    ASSUME ConnInv, FlowInv, ndUser \in {"filterLoad", "idle"},
           NEW packet \in OutPackets, packet \notin {"version", "verack"}
    PROVE  LET n == NodeSend(nd, packet, peerGone) IN Flow(n, n.in \o arriving, Got)
<1> DEFINE n == NodeSend(nd, packet, peerGone)
<1>0. nd \in NodeType
    BY DEF ConnInv, ConnTypes
<1>1. Flow(nd, nd.in \o arriving, Got)
    BY FlowOfUse
<1>2. /\ n.closed = FALSE =>
             /\ n.in = nd.in /\ n.handled = nd.handled
             /\ n.verackSent = IF packet = "verack" THEN TRUE ELSE nd.verackSent
      /\ Line(nd) /\ packet # "version"
         /\ (packet = "verack" /\ nd.closed = FALSE => nd.verackSent = FALSE) => Line(n)
    BY <1>0, NodeSendInLine
<1>3. n.closed = FALSE => nd.closed = FALSE
    BY <1>0, NodeSendFollows DEF Follows, Shut
<1> HIDE DEF n
<1>4. Answered(nd) => Answered(n)
    BY <1>2, <1>3 DEF Answered
<1>5. Flow(n, n.in \o arriving, Got)
    BY <1>1, <1>2, <1>3, <1>4 DEF Flow
<1>6. QED
    BY <1>5 DEF n

\* NodeFilterLoad and the other packets that the node manager sends.
LEMMA SendsFlow ==
    ASSUME ConnInv, FlowInv,
           NodeFilterLoad \/ \E packet \in {"ping", "getdata"} : NodeSendOne(packet)
    PROVE  FlowInv'
<1>1. PICK packet \in OutPackets \ {"version", "verack"} :
          \E c : \/ nd' = NodeSend(nd, packet, peerGone)
                 \/ nd' = [NodeSend(nd, packet, peerGone) EXCEPT !.pings = c]
    BY DEF NodeFilterLoad, NodeSendOne, OutPackets
<1>2. /\ ndUser \in {"filterLoad", "idle"} /\ ndUser' \in {"filterLoad", "idle"}
      /\ arriving' = arriving /\ peerNext' = peerNext
    BY DEF NodeFilterLoad, NodeSendOne, connRest
<1> DEFINE n == NodeSend(nd, packet, peerGone)
<1>3. Flow(n, n.in \o arriving, Got)
    BY <1>1, <1>2, SendFlows
<1>4. n \in NodeType
    BY <1>1, NodeSendFollows DEF Follows, ConnInv, ConnTypes
<1>5. PICK c : nd' = n \/ nd' = [n EXCEPT !.pings = c]
    BY <1>1
<1> HIDE DEF n
<1>6. /\ nd'.closed = n.closed /\ nd'.connected = n.connected /\ nd'.wire = n.wire
      /\ nd'.version = n.version /\ nd'.out = n.out /\ nd'.verackSent = n.verackSent
      /\ nd'.handled = n.handled /\ nd'.in = n.in
    BY <1>4, <1>5 DEF NodeType
<1>7. Flow(nd', nd'.in \o arriving', Got)
    BY <1>2, <1>3, <1>6 DEF Flow, Answered, Line, Greeted
<1>8. QED
    BY <1>2, <1>7, FlowOfOperation

\* NodeProcessPackets: what was left in the buffer, what is received and what is
\* sent, one after the other.
LEMMA ProcessFlows ==
    ASSUME ConnInv, FlowInv, NodeProcessPackets
    PROVE  FlowInv'
<1> DEFINE m == [nd EXCEPT !.thread = FALSE]
           first == ProcessInput(m, peerGone)
           after(n) == ProcessOutput(n, SendFails(n, peerGone))
<1>0. nd \in NodeType /\ arriving \in Seq(InUnits)
    BY DEF ConnInv, ConnTypes
<1>1. ndUser = "idle" /\ ndUser' = "idle" /\ peerNext' = peerNext
    BY DEF NodeProcessPackets, connRest
<1>2. /\ m \in NodeType /\ m.closed = nd.closed /\ m.connected = nd.connected
      /\ m.wire = nd.wire /\ m.version = nd.version /\ m.out = nd.out
      /\ m.verackSent = nd.verackSent /\ m.handled = nd.handled /\ m.in = nd.in
    BY <1>0 DEF NodeType
<1>3. Flow(m, m.in \o arriving, Got)
    <2>1. Flow(nd, nd.in \o arriving, Got)
        BY <1>1, FlowOfUse
    <2> HIDE DEF m
    <2>2. QED
        BY <1>2, <2>1 DEF Flow, Answered, Line, Greeted
<1> HIDE DEF m
<1>4. Flow(first, first.in \o arriving, Got) /\ first \in NodeType
    BY <1>0, <1>2, <1>3, InputFlows, InputFollows DEF Follows
<1>5. ASSUME NEW n \in NodeType, NEW tail, Flow(n, n.in \o tail, Got)
      PROVE  Flow(after(n), after(n).in \o tail, Got)
    <2>1. SendFails(n, peerGone) \in BOOLEAN
        BY DEF SendFails
    <2>2. QED
        BY <1>5, <2>1, OutputFlows
<1>6. Flow(nd', nd'.in \o arriving', Got)
    <2>1. CASE first.closed
        <3>1. nd' = first /\ arriving' = arriving
            BY <2>1 DEF NodeProcessPackets, m
        <3>2. QED
            BY <1>4, <3>1
    <2>2. CASE ~first.closed /\ ~Writable(first) /\ ~Readable
        <3>1. nd' = first /\ arriving' = arriving
            BY <2>2 DEF NodeProcessPackets, m
        <3>2. QED
            BY <1>4, <3>1
    <2>3. CASE ~first.closed /\ Readable
        <3>1. PICK k \in 0 .. ReadMax :
                  /\ k <= Len(arriving)
                  /\ nd' = after(ProcessRead(first, SubSeq(arriving, 1, k), peerGone))
                  /\ arriving' = SubSeq(arriving, k + 1, Len(arriving))
            BY <2>3 DEF NodeProcessPackets, m
        <3>2. k \in 0 .. Len(arriving) /\ Len(arriving) \in Nat
            BY <1>0, <3>1, ConnectionAssumption
        <3>3. SubSeq(arriving, 1, k) \in Seq(InUnits)
              /\ SubSeq(arriving, k + 1, Len(arriving)) \in Seq(InUnits)
            BY <1>0, <3>2
        <3>4. PICK u \in Seq(InUnits) : u = SubSeq(arriving, 1, k)
            BY <3>3
        <3>5. PICK t \in Seq(InUnits) : t = SubSeq(arriving, k + 1, Len(arriving))
            BY <3>3
        <3>6. u \o t = arriving
            <4>1. 1 \in 1 .. Len(arriving) + 1 /\ k \in 1 - 1 .. Len(arriving)
                  /\ Len(arriving) \in k .. Len(arriving)
                BY <3>2
            <4>2. SubSeq(arriving, 1, k) \o SubSeq(arriving, k + 1, Len(arriving))
                      = SubSeq(arriving, 1, Len(arriving))
                BY <1>0, <4>1, ConcatAdjacentSubSeq
            <4>3. SubSeq(arriving, 1, Len(arriving)) = arriving
                BY <1>0, SubSeqFull
            <4>4. QED
                BY <3>4, <3>5, <4>2, <4>3
        <3>7. first.closed = FALSE
            BY <1>4, <2>3 DEF NodeType
        <3> DEFINE r == ProcessRead(first, u, peerGone)
        <3>8. nd' = after(r) /\ arriving' = t
            BY <3>1, <3>4, <3>5
        <3> HIDE DEF first, after
        <3>9. Flow(first, first.in \o (u \o t), Got)
            BY <1>4, <3>6
        <3>10. Flow(r, r.in \o t, Got) /\ r \in NodeType
            BY <1>4, <3>4, <3>5, <3>7, <3>9, ReadFlows, ReadFollows DEF Follows
        <3> HIDE DEF r
        <3>11. QED
            BY <1>5, <3>8, <3>10
    <2>4. CASE ~first.closed /\ Writable(first) /\ ~Readable
        <3>1. nd' = after(first) /\ arriving' = arriving
            BY <2>4 DEF NodeProcessPackets, m
        <3> HIDE DEF first, after
        <3>2. QED
            BY <1>4, <1>5, <3>1
    <2>5. QED
        BY <2>1, <2>2, <2>3, <2>4
<1>7. QED
    BY <1>1, <1>6, FlowOfOperation

\* The peer sends a packet more: it is to be handled if its checksum is right.
LEMMA GotGrows ==
    ASSUME peerNext \in Nat, peerNext < Len(PeerPackets), peerNext' = peerNext + 1
    PROVE  LET p == PeerPackets[peerNext']
           IN  /\ p \in Packets
               /\ UnitsOf(p) \in Seq(InUnits) /\ Framed(UnitsOf(p))
               /\ Got' = Got \o GoodPackets(UnitsOf(p))
               /\ GoodPackets(UnitsOf(p)) \in Seq(Packets)
<1> DEFINE p == PeerPackets[peerNext']
<1>0. PeerPackets \in Seq(Packets) /\ Len(PeerPackets) \in Nat
    BY ConnectionAssumption
<1>1. p \in Packets /\ peerNext' \in 1 .. Len(PeerPackets)
    BY <1>0
<1> HIDE DEF p
<1>2. Sent \in Seq(Packets) /\ Sent' = Append(Sent, p)
    <2>1. Sent \in Seq(Packets)
        BY <1>0, GotType
    <2>2. SubSeq(PeerPackets, 1, peerNext + 1)
              = Append(SubSeq(PeerPackets, 1, peerNext), PeerPackets[peerNext + 1])
        <3>1. peerNext \in 0 .. Len(PeerPackets) - 1
            BY <1>0
        <3>2. QED
            BY <1>0, <3>1
    <2>3. QED
        BY <2>1, <2>2 DEF Sent, p
<1>3. Got' = IF p \in GoodNames THEN Append(Got, p) ELSE Got
    BY <1>1, <1>2, WithinAppend DEF Got
<1>4. Got \in Seq(Packets)
    BY <1>0, GotType
<1>5. CASE p = "junk"
    <2>1. PICK x \in InUnits : x = [of |-> "junk", part |-> "junk"]
        <3>1. [of |-> "junk", part |-> "junk"] \in InUnits
            BY DEF InUnits
        <3>2. QED
            BY <3>1
    <2>2. UnitsOf(p) = <<x>> /\ x.part # "header"
        BY <1>5, <2>1 DEF UnitsOf, Junk
    <2>3. GoodPackets(<<x>>) = <<>> /\ <<x>> \in Seq(InUnits) /\ <<>> \in Seq(Packets)
        BY <2>1, <2>2, GoodOne
    <2>4. Framed(<<x>>)
        <3>1. Len(<<x>>) = 1 /\ <<x>>[1] = x
            OBVIOUS
        <3>2. QED
            BY <2>2, <3>1 DEF Framed
    <2>5. p \notin GoodNames
        BY <1>5 DEF GoodNames
    <2>6. Got \o <<>> = Got
        BY <1>4, ConcatEmptySeq
    <2>7. QED
        BY <1>1, <1>3, <2>2, <2>3, <2>4, <2>5, <2>6 DEF p
<1>6. CASE p # "junk"
    <2>1. PICK x \in InUnits, y \in InUnits :
              x = [of |-> p, part |-> "header"] /\ y = [of |-> p, part |-> "payload"]
        <3>1. [of |-> p, part |-> "header"] \in InUnits /\ [of |-> p, part |-> "payload"] \in InUnits
            BY <1>1, <1>6 DEF InUnits
        <3>2. QED
            BY <3>1
    <2>2. x.part = "header" /\ x.of = p /\ y.part # "header"
        BY <2>1
    <2>3. UnitsOf(p) = <<x, y>> /\ <<x, y>> \in Seq(InUnits)
        BY <1>6, <2>1 DEF UnitsOf, Units
    <2>4. Framed(<<x, y>>)
        <3>1. Len(<<x, y>>) = 2 /\ <<x, y>>[1] = x /\ <<x, y>>[2] = y
            OBVIOUS
        <3>2. QED
            BY <2>2, <3>1 DEF Framed
    <2>5. GoodPackets(<<x, y>>) = GoodPackets(<<x>>)
        <3>1. PICK a \in Seq(InUnits) : a = <<x>>
            <4>1. <<x>> \in Seq(InUnits)
                OBVIOUS
            <4>2. QED
                BY <4>1
        <3>2. PICK b \in Seq(InUnits) : b = <<y>>
            <4>1. <<y>> \in Seq(InUnits)
                OBVIOUS
            <4>2. QED
                BY <4>1
        <3>3. a \o b = <<x, y>>
            <4>1. PICK z \in Seq(InUnits) : z = <<x, y>>
                BY <2>3
            <4>2. Len(z) = 2 /\ z[1] = x /\ z[2] = y
                BY <4>1
            <4>3. Len(a) = 1 /\ a[1] = x /\ Len(b) = 1 /\ b[1] = y
                BY <3>1, <3>2
            <4>4. PICK c \in Seq(InUnits) : c = a \o b
                <5>1. a \o b \in Seq(InUnits)
                    BY ConcatProperties
                <5>2. QED
                    BY <5>1
            <4>5. Len(c) = 2 /\ c[1] = x /\ c[2] = y
                <5>1. /\ Len(a \o b) = Len(a) + Len(b)
                      /\ \A i \in 1 .. Len(a) + Len(b) :
                             (a \o b)[i] = IF i <= Len(a) THEN a[i] ELSE b[i - Len(a)]
                    BY ConcatProperties
                <5>2. /\ 1 \in 1 .. 1 + 1 /\ 2 \in 1 .. 1 + 1 /\ 1 <= 1 /\ ~(2 <= 1)
                      /\ 2 - 1 = 1 /\ 1 + 1 = 2
                    OBVIOUS
                <5>3. QED
                    BY <4>3, <4>4, <5>1, <5>2
            <4>6. \A i \in 1 .. 2 : i = 1 \/ i = 2
                OBVIOUS
            <4>7. c = z
                BY <4>2, <4>5, <4>6, SeqEqual
            <4>8. QED
                BY <4>1, <4>4, <4>7
        <3>4. GoodPackets(a \o b) = GoodPackets(a) \o GoodPackets(b)
            BY GoodConcat
        <3>5. GoodPackets(b) = <<>>
            BY <2>2, <3>2, GoodOne
        <3>6. GoodPackets(a) \o <<>> = GoodPackets(a)
            BY GoodType, ConcatEmptySeq
        <3>7. QED
            BY <3>1, <3>3, <3>4, <3>5, <3>6
    <2>6. CASE p = "badChecksum"
        <3>1. GoodPackets(<<x>>) = <<>> /\ <<>> \in Seq(Packets)
            BY <2>2, <2>6, GoodOne
        <3>2. p \notin GoodNames
            BY <2>6 DEF GoodNames
        <3>3. Got \o <<>> = Got
            BY <1>4, ConcatEmptySeq
        <3>4. QED
            BY <1>1, <1>3, <2>3, <2>4, <2>5, <3>1, <3>2, <3>3 DEF p
    <2>7. CASE p # "badChecksum"
        <3>1. GoodPackets(<<x>>) = <<p>> /\ <<p>> \in Seq(Packets)
            BY <1>1, <2>2, <2>7, GoodOne
        <3>2. p \in GoodNames
            BY <1>1, <1>6, <2>7 DEF GoodNames
        <3>3. Got \o <<p>> = Append(Got, p)
            BY <1>1, <1>4, AppendIsConcat
        <3>4. QED
            BY <1>1, <1>3, <2>3, <2>4, <2>5, <3>1, <3>2, <3>3 DEF p
    <2>8. QED
        BY <2>6, <2>7
<1>7. QED
    BY <1>5, <1>6

\* What the peer sends is behind what has arrived.
LEMMA PeerSendsFlows ==
    ASSUME ConnInv, FlowInv, PeerSends
    PROVE  FlowInv'
<1>0. /\ nd \in NodeType /\ arriving \in Seq(InUnits) /\ peerNext \in Nat
      /\ peerNext < Len(PeerPackets) /\ peerNext' = peerNext + 1 /\ nd.connected # FALSE
      /\ Len(PeerPackets) \in Nat
    BY ConnectionAssumption DEF ConnInv, ConnTypes, PeerSends, NodeType
<1>1. nd' = nd /\ ndUser' = ndUser /\ arriving' = arriving \o UnitsOf(PeerPackets[peerNext'])
    BY DEF PeerSends, peerRest
<1>2. PICK u \in Seq(InUnits) : u = UnitsOf(PeerPackets[peerNext']) /\ Framed(u)
          /\ Got' = Got \o GoodPackets(u) /\ GoodPackets(u) \in Seq(Packets)
    BY <1>0, GotGrows
<1>3. PICK g \in Seq(Packets) : g = GoodPackets(u)
    BY <1>2
<1>4. PICK old \in Seq(Packets) : old = Got
    BY <1>0, GotType
<1>5. Len(Within(Got', {"version"})) <= 1 => Len(Within(Got, {"version"})) <= 1
    <2>1. PICK a \in Seq(Packets) : a = Within(old, {"version"})
        BY WithinType
    <2>2. PICK b \in Seq(Packets) : b = Within(g, {"version"})
        BY WithinType
    <2>3. Within(Got', {"version"}) = a \o b
        BY <1>2, <1>3, <1>4, <2>1, <2>2, VersionsConcat
    <2>4. Len(a \o b) = Len(a) + Len(b) /\ Len(a) \in Nat /\ Len(b) \in Nat
        BY LenProperties, ConcatProperties
    <2>5. QED
        BY <1>4, <2>1, <2>3, <2>4
<1>6. ndUser # "start"
    BY <1>0 DEF FlowInv
<1>7. ASSUME nd.closed = FALSE
      PROVE  nd.handled \o GoodPackets(nd.in \o arriving') = Got' /\ Framed(nd.in \o arriving')
    <2>0. nd.handled \o GoodPackets(nd.in \o arriving) = Got /\ Framed(nd.in \o arriving)
        BY <1>7 DEF FlowInv
    <2>1. PICK h \in Seq(Packets) : h = nd.handled
        BY <1>0 DEF NodeType
    <2>2. PICK i \in Seq(InUnits) : i = nd.in
        BY <1>0 DEF NodeType
    <2>3. PICK x \in Seq(InUnits) : x = i \o arriving
        <3>1. i \o arriving \in Seq(InUnits)
            BY <1>0, ConcatProperties
        <3>2. QED
            BY <3>1
    <2>4. x \o u = i \o (arriving \o u)
        BY <1>0, <2>3, InThree
    <2>5. GoodPackets(x \o u) = GoodPackets(x) \o GoodPackets(u) /\ Framed(x \o u)
        BY <1>2, <2>0, <2>2, <2>3, GoodConcat, FramedParts
    <2>6. PICK y \in Seq(Packets) : y = GoodPackets(x)
        BY GoodType
    <2>7. (h \o y) \o g = h \o (y \o g)
        BY PacketsThree
    <2>8. h \o y = Got
        BY <2>0, <2>1, <2>2, <2>3, <2>6
    <2>9. h \o GoodPackets(x \o u) = Got'
        BY <1>2, <1>3, <2>5, <2>6, <2>7, <2>8
    <2>10. nd.in \o arriving' = x \o u
        BY <1>1, <1>2, <2>2, <2>4
    <2>11. QED
        BY <2>1, <2>5, <2>9, <2>10
<1>8. peerNext' <= Len(PeerPackets)
    BY <1>0
<1>9. QED
    BY <1>1, <1>5, <1>6, <1>7, <1>8 DEF FlowInv

\* NodeNew and NodeConnect, NodeClose up to its join, and NodeFree.
LEMMA LifeFlows ==
    ASSUME ConnInv, FlowInv,
           NodeConnect \/ NodeClose \/ NodeCloseCancel \/ NodeCloseJoin \/ NodeFree
    PROVE  FlowInv'
<1>0. nd \in NodeType /\ nd.closed \in BOOLEAN
    BY DEF ConnInv, ConnTypes, NodeType
<1>1. peerNext' = peerNext /\ arriving' = arriving
    BY DEF NodeConnect, NodeClose, NodeCloseCancel, NodeCloseJoin, NodeFree, connRest
<1>2. Got' = Got
    BY <1>1 DEF Got, Sent
<1>3. CASE NodeConnect
    <2>1. /\ nd'.closed = FALSE /\ nd'.verackSent = FALSE /\ nd'.connected = FALSE
          /\ nd'.wire = <<>> /\ nd'.version = <<>> /\ nd'.out = <<>>
          /\ nd'.handled = <<>> /\ nd'.in = <<>>
        BY <1>3 DEF NodeConnect, FreshNode
    <2>2. ndUser' = "sendVersion" /\ arriving = <<>> /\ peerNext = 0
        BY <1>3 DEF NodeConnect, FlowInv
    <2>3. Got = <<>>
        <3>1. Sent = <<>>
            BY <2>2 DEF Sent
        <3>2. QED
            BY <3>1, WithinEmpty DEF Got
    <2>4. GoodPackets(<<>>) = <<>>
        <3>1. PICK h : h = Within(<<>>, GoodHeaders) /\ h = <<>>
            BY WithinEmpty
        <3>2. GoodPackets(<<>>) = [i \in 1 .. Len(h) |-> h[i].of]
            BY <3>1 DEF GoodPackets
        <3>3. Len(h) = 0
            BY <3>1
        <3>4. [i \in 1 .. Len(h) |-> h[i].of] = <<>>
            BY <3>3
        <3>5. QED
            BY <3>2, <3>4
    <2>5. <<>> \o <<>> = <<>> /\ Framed(<<>>)
        BY DEF Framed
    <2>6. QED
        BY <1>1, <1>2, <2>1, <2>2, <2>3, <2>4, <2>5 DEF FlowInv, Unused
<1>4. CASE NodeClose
    <2>1. /\ nd'.closed = nd.closed /\ nd'.handled = nd.handled /\ nd'.in = nd.in
          /\ nd'.wire = nd.wire /\ nd'.version = nd.version /\ nd'.out = nd.out
          /\ nd'.verackSent = nd.verackSent
        BY <1>0, <1>4 DEF NodeClose, NodeType
    <2>2. ndUser = "idle" /\ ndUser' = "closing"
        BY <1>4 DEF NodeClose
    <2>3. QED
        BY <1>1, <2>1, <2>2, FlowStays
<1>5. CASE NodeCloseCancel
    <2>1. nd'.closed = TRUE /\ nd'.wire = nd.wire
        BY <1>0, <1>5 DEF NodeCloseCancel, NodeType
    <2>2. ndUser = "closing" /\ ndUser' = "joining"
        BY <1>5 DEF NodeCloseCancel
    <2>3. Len(Within(Got, {"version"})) <= 1 => WireGood(nd.wire)
        BY <1>0, <2>2, GreetedGood DEF FlowInv
    <2>4. QED
        BY <1>1, <1>2, <2>1, <2>2, <2>3 DEF FlowInv
<1>6. CASE NodeCloseJoin \/ NodeFree
    <2>1. nd.closed = TRUE /\ ndUser' \in {"free", "freed"}
        BY <1>6 DEF NodeCloseJoin, NodeFree, FlowInv
    <2>2. nd'.closed = TRUE /\ nd'.wire = nd.wire
        BY <1>0, <1>6, <2>1 DEF NodeCloseJoin, NodeFree, NodeReset, NodeType
    <2>3. QED
        BY <1>1, <1>2, <2>1, <2>2 DEF FlowInv
<1>7. QED
    BY <1>3, <1>4, <1>5, <1>6

\* The connection thread, and the peer that reads or goes away.
LEMMA OthersFlow ==
    ASSUME ConnInv, FlowInv, ThreadStep \/ PeerReads \/ PeerCloses
    PROVE  FlowInv'
<1>0. nd \in NodeType
    BY DEF ConnInv, ConnTypes
<1>1. peerNext' = peerNext /\ arriving' = arriving /\ ndUser' = ndUser
    BY DEF ThreadStep, OpenConnection, ConnectCancelled, CheckAttempt, SetConnection,
           SetConnected, ThreadCleanup, conRest, PeerReads, PeerCloses, peerRest
<1>2. /\ nd'.closed = nd.closed /\ nd'.handled = nd.handled /\ nd'.in = nd.in
      /\ nd'.wire = nd.wire /\ nd'.version = nd.version /\ nd'.out = nd.out
      /\ nd'.verackSent = nd.verackSent
    BY <1>0 DEF ThreadStep, OpenConnection, ConnectCancelled, CheckAttempt, SetConnection,
           SetConnected, ThreadCleanup, PeerReads, PeerCloses, NodeType
<1>3. ndUser # "start" \/ nd'.connected = FALSE
    <2>1. CASE ThreadStep
        <3>1. con.pc # "done"
            BY <2>1 DEF ThreadStep, OpenConnection, ConnectCancelled, CheckAttempt, SetConnection,
                   SetConnected, ThreadCleanup
        <3>2. QED
            BY <3>1 DEF ConnInv, ThreadInv
    <2>2. CASE PeerReads \/ PeerCloses
        <3>1. nd'.connected = nd.connected
            BY <1>0, <2>2 DEF PeerReads, PeerCloses, NodeType
        <3>2. QED
            BY <3>1 DEF FlowInv
    <2>3. QED
        BY <2>1, <2>2
<1>4. ndUser \notin {"start", "sendVersion"} \/ Unused(nd')
    BY <1>2 DEF FlowInv, Unused
<1>5. QED
    BY <1>1, <1>2, <1>3, <1>4, FlowStays

\* The start.
LEMMA FlowInit == ConnInit => FlowInv
<1> SUFFICES ASSUME ConnInit PROVE FlowInv
    OBVIOUS
<1>1. /\ nd.closed = FALSE /\ nd.verackSent = FALSE /\ nd.connected = FALSE
      /\ nd.wire = <<>> /\ nd.version = <<>> /\ nd.out = <<>>
      /\ nd.handled = <<>> /\ nd.in = <<>>
    BY DEF ConnInit, FreshNode
<1>2. ndUser = "start" /\ arriving = <<>> /\ peerNext = 0 /\ peerNext <= Len(PeerPackets)
    BY ConnectionAssumption DEF ConnInit
<1>3. Got = <<>>
    <2>1. Sent = <<>>
        BY <1>2 DEF Sent
    <2>2. QED
        BY <2>1, WithinEmpty DEF Got
<1>4. GoodPackets(<<>>) = <<>>
    <2>1. PICK h : h = Within(<<>>, GoodHeaders) /\ h = <<>>
        BY WithinEmpty
    <2>2. GoodPackets(<<>>) = [i \in 1 .. Len(h) |-> h[i].of]
        BY <2>1 DEF GoodPackets
    <2>3. Len(h) = 0
        BY <2>1
    <2>4. [i \in 1 .. Len(h) |-> h[i].of] = <<>>
        BY <2>3
    <2>5. QED
        BY <2>2, <2>4
<1>5. <<>> \o <<>> = <<>> /\ Framed(<<>>)
    BY DEF Framed
<1>6. QED
    BY <1>1, <1>2, <1>3, <1>4, <1>5 DEF FlowInv, Unused

\* Every step keeps both streams.
LEMMA FlowStep == ConnInv /\ FlowInv /\ [ConnNext]_connVars => ConnInv' /\ FlowInv'
<1> SUFFICES ASSUME ConnInv, FlowInv, [ConnNext]_connVars PROVE ConnInv' /\ FlowInv'
    OBVIOUS
<1>1. CASE ConnNext
    <2>1. ConnInv'
        BY <1>1, SendKeeps, SendOneKeeps, ProcessKeeps, LifeKeeps, ThreadKeeps, PeerKeeps
        DEF ConnNext, ManagerStep
    <2>2. FlowInv'
        BY <1>1, VersionFlows, SendsFlow, ProcessFlows, LifeFlows, OthersFlow, PeerSendsFlows
        DEF ConnNext, ManagerStep, PeerStep
    <2>3. QED
        BY <2>1, <2>2
<1>2. CASE UNCHANGED connVars
    <2>1. ConnInv'
        BY <1>2 DEF connVars, ConnInv, ConnTypes, ThreadInv, SocketInv
    <2>2. FlowInv'
        BY <1>2 DEF connVars, FlowInv, Got, Sent, Unused, Greeted
    <2>3. QED
        BY <2>1, <2>2
<1>3. QED
    BY <1>1, <1>2

\* However the stream of the peer is cut into reads, whatever junk and wrong
\* checksums are in it, and whatever the handling of a packet sends: the packets
\* handled, in the buffer and in the socket are those with a right checksum that
\* the peer has sent, in order.
THEOREM PacketsInOrder == ConnSpec => []HandledInOrder
<1>1. ConnInv /\ FlowInv => HandledInOrder
    <2> SUFFICES ASSUME ConnInv, FlowInv, nd.connected /\ ~nd.closed /\ ~nd.undefined
                 PROVE  nd.handled \o GoodPackets(nd.in \o arriving)
                            = Within(SubSeq(PeerPackets, 1, peerNext), GoodNames)
        BY DEF HandledInOrder
    <2>1. nd.closed = FALSE
        BY DEF ConnInv, ConnTypes, NodeType
    <2>2. QED
        BY <2>1 DEF FlowInv, Got, Sent
<1>2. QED
    BY <1>1, FlowStep, ConnInitKeeps, FlowInit, PTL DEF ConnSpec

\* The peer greets once.
OneVersion == Len(Within(PeerPackets, {"version"})) <= 1

\* Then no more than one version has been sent at any time.
LEMMA OneVersionSent ==
    ASSUME OneVersion, peerNext \in Nat, peerNext <= Len(PeerPackets)
    PROVE  Len(Within(Got, {"version"})) <= 1
<1>0. PeerPackets \in Seq(Packets) /\ Len(PeerPackets) \in Nat
    BY ConnectionAssumption
<1>1. PICK a \in Seq(Packets) : a = Sent
    BY GotType
<1>2. PICK b \in Seq(Packets) : b = SubSeq(PeerPackets, peerNext + 1, Len(PeerPackets))
    <2>1. \A i \in peerNext + 1 .. Len(PeerPackets) : PeerPackets[i] \in Packets
        BY <1>0
    <2>2. SubSeq(PeerPackets, peerNext + 1, Len(PeerPackets)) \in Seq(Packets)
        BY <1>0, <2>1, SubSeqProperties
    <2>3. QED
        BY <2>2
<1>3. a \o b = PeerPackets
    <2>1. 1 \in 1 .. Len(PeerPackets) + 1 /\ peerNext \in 1 - 1 .. Len(PeerPackets)
          /\ Len(PeerPackets) \in peerNext .. Len(PeerPackets)
        BY <1>0
    <2>2. SubSeq(PeerPackets, 1, peerNext) \o SubSeq(PeerPackets, peerNext + 1, Len(PeerPackets))
              = SubSeq(PeerPackets, 1, Len(PeerPackets))
        BY <1>0, <2>1, ConcatAdjacentSubSeq
    <2>3. SubSeq(PeerPackets, 1, Len(PeerPackets)) = PeerPackets
        BY <1>0, SubSeqFull
    <2>4. QED
        BY <1>1, <1>2, <2>2, <2>3 DEF Sent
<1>4. PICK x \in Seq(Packets) : x = Within(a, {"version"})
    BY WithinType
<1>5. PICK y \in Seq(Packets) : y = Within(b, {"version"})
    BY WithinType
<1>6. Within(PeerPackets, {"version"}) = x \o y
    BY <1>3, <1>4, <1>5, VersionsConcat
<1>7. Len(x \o y) = Len(x) + Len(y) /\ Len(x) \in Nat /\ Len(y) \in Nat
    BY LenProperties, ConcatProperties
<1>8. Len(x) <= 1
    BY <1>6, <1>7 DEF OneVersion
<1>9. Within(Got, {"version"}) = x
    <2>1. Within(Within(a, GoodNames), {"version"}) = Within(a, GoodNames \cap {"version"})
        BY WithinTwice
    <2>2. GoodNames \cap {"version"} = {"version"}
        BY DEF GoodNames, Packets
    <2>3. QED
        BY <1>1, <1>4, <2>1, <2>2 DEF Got
<1>10. QED
    BY <1>8, <1>9

\* However the kernel cuts what is sent, and although the verack is put in front
\* of the queue: a peer that greets once reads the version, the verack and then
\* whole packets, of which the last one may be cut.
THEOREM WireInOrder ==
    ASSUME OneVersion
    PROVE  ConnSpec => []WireWellFormed
<1>1. ConnInv /\ FlowInv => WireWellFormed
    <2> SUFFICES ASSUME ConnInv, FlowInv PROVE WireWellFormed
        OBVIOUS
    <2>0. nd \in NodeType /\ peerNext \in Nat /\ peerNext <= Len(PeerPackets)
        BY DEF ConnInv, ConnTypes, FlowInv
    <2>1. Len(Within(Got, {"version"})) <= 1
        BY <2>0, OneVersionSent
    <2>2. nd.closed \in BOOLEAN
        BY <2>0 DEF NodeType
    <2>3. WireGood(nd.wire)
        <3>1. CASE nd.closed = TRUE
            BY <2>1, <3>1 DEF FlowInv
        <3>2. CASE nd.closed = FALSE /\ ndUser \in {"start", "sendVersion"}
            <4>1. nd.wire = <<>>
                BY <3>2 DEF FlowInv, Unused
            <4>2. QED
                BY <4>1 DEF WireGood
        <3>3. CASE nd.closed = FALSE /\ ndUser \notin {"start", "sendVersion"}
            BY <2>0, <2>1, <3>3, GreetedGood DEF FlowInv
        <3>4. QED
            BY <2>2, <3>1, <3>2, <3>3
    <2>4. 2 * 1 - 1 = 1 /\ 2 * 2 - 1 = 3
        OBVIOUS
    <2>5. QED
        BY <2>3, <2>4 DEF WireGood, WireWellFormed, WirePacketAt
<1>2. QED
    BY <1>1, FlowStep, ConnInitKeeps, FlowInit, PTL DEF ConnSpec
=============================================================================
