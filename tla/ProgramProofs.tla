---------------------------- MODULE ProgramProofs ----------------------------
(***************************************************************************)
(* Proofs about what the program around the library is told: the events    *)
(* that were handed to their listeners (Notifications), the answers of the *)
(* command line program (CommandLine), what comes of a transaction that    *)
(* was to be published (Publish), the peers that are known to it           *)
(* (PeerTable), which transactions are confirmed (TransactionTable), the   *)
(* clients of its web server (Webserver), and the addresses that its       *)
(* filter reaches and that it gives out (WalletLedger).                    *)
(***************************************************************************)
EXTENDS Notifications, CommandLine, Publish, PeerTable, TransactionTable, Webserver, WalletLedger,
        SubsequenceProofs, FiniteSetTheorems, TLAPS

-----------------------------------------------------------------------------
(* Notifications *)

\* The calls that are outstanding, and the names they are made for.
NoteTypes ==
    /\ funcs \in [EventNames -> Seq(Listeners)]
    /\ toCall \in Seq(EventNames \X Listeners)
    /\ queuedNames \in Seq(EventNames)
    /\ noteOwner \in NoteThreads \cup {NoThread}
    /\ drained \in BOOLEAN

\* Once the queue was found empty nobody adds to it until the names are taken:
\* the mutex is held by the thread that takes them.
NoteInv ==
    /\ NoteTypes
    /\ drained => toCall = <<>> /\ noteOwner # NoThread
    /\ ReturnedNamesWereHeard

\* A name that was queued stays when another is.
LEMMA StaysQueued ==
    ASSUME NEW q \in Seq(EventNames), NEW n \in EventNames
    PROVE  /\ Contains(Append(q, n), n)
           /\ \A m : Contains(q, m) => Contains(Append(q, n), m)
<1>1. ASSUME NEW m, Contains(q, m) PROVE Contains(Append(q, n), m)
    <2>1. PICK i \in 1..Len(q) : q[i] = m
        BY <1>1 DEF Contains
    <2>2. i \in 1..Len(Append(q, n)) /\ Append(q, n)[i] = m
        BY <2>1
    <2>3. QED
        BY <2>2 DEF Contains
<1>2. Len(q) + 1 \in 1..Len(Append(q, n)) /\ Append(q, n)[Len(q) + 1] = n
    OBVIOUS
<1>3. QED
    BY <1>1, <1>2 DEF Contains

\* Firing an event queues its calls together with its name.
LEMMA FireKept ==
    ASSUME NoteInv, NEW t \in NoteThreads, NEW n \in EventNames, NotificationsFire(t, n)
    PROVE  NoteInv'
<1> DEFINE calls == [i \in 1..Len(funcs[n]) |-> <<n, funcs[n][i]>>]
<1>0. /\ funcs[n] \in Seq(Listeners) /\ toCall \in Seq(EventNames \X Listeners)
      /\ queuedNames \in Seq(EventNames)
    BY DEF NoteInv, NoteTypes
<1>1. calls \in Seq(EventNames \X Listeners) /\ \A i \in DOMAIN calls : calls[i][1] = n
    BY <1>0
<1>2. toCall' = toCall \o calls /\ queuedNames' = Append(queuedNames, n)
    BY DEF NotificationsFire
<1> HIDE DEF calls
<1>3. NoteTypes'
    BY <1>0, <1>1, <1>2 DEF NoteInv, NoteTypes, NotificationsFire
<1>4. ~drained
    BY NotificationsAssumption DEF NotificationsFire, MayEnter, NoteInv
<1>5. ASSUME NEW i \in DOMAIN toCall' PROVE Contains(queuedNames', toCall'[i][1])
    <2>1. CASE i \in DOMAIN toCall
        <3>1. toCall'[i] = toCall[i]
            BY <1>0, <1>1, <1>2, <2>1
        <3>2. Contains(queuedNames, toCall[i][1])
            BY <2>1 DEF NoteInv, ReturnedNamesWereHeard
        <3>3. QED
            BY <1>0, <1>2, <3>1, <3>2, StaysQueued
    <2>2. CASE i \notin DOMAIN toCall
        <3>1. i - Len(toCall) \in DOMAIN calls /\ toCall'[i] = calls[i - Len(toCall)]
            BY <1>0, <1>1, <1>2, <2>2
        <3>2. toCall'[i][1] = n
            BY <1>1, <3>1
        <3>3. QED
            BY <1>0, <1>2, <3>2, StaysQueued
    <2>3. QED
        BY <2>1, <2>2
<1>6. QED
    BY <1>3, <1>4, <1>5 DEF NoteInv, ReturnedNamesWereHeard, NotificationsFire

\* Every step keeps the names of the calls that are outstanding.
LEMMA NoteStep == NoteInv /\ [NoteNext]_noteVars => NoteInv'
<1> SUFFICES ASSUME NoteInv, [NoteNext]_noteVars PROVE NoteInv'
    OBVIOUS
<1>0. /\ funcs \in [EventNames -> Seq(Listeners)] /\ toCall \in Seq(EventNames \X Listeners)
      /\ queuedNames \in Seq(EventNames)
    BY DEF NoteInv, NoteTypes
<1>1. CASE UNCHANGED noteVars
    BY <1>1 DEF noteVars, NoteInv, NoteTypes, ReturnedNamesWereHeard
<1>2. ASSUME NEW t \in NoteThreads, NEW n \in EventNames, NEW f \in Listeners,
             NotificationsAddListener(t, n, f)
      PROVE  NoteInv'
    BY <1>0, <1>2 DEF NotificationsAddListener, NoteInv, NoteTypes, ReturnedNamesWereHeard
<1>3. ASSUME NEW t \in NoteThreads, ProcessBegin(t) \/ ProcessDrained(t) PROVE NoteInv'
    <2>1. NoteTypes' /\ ReturnedNamesWereHeard'
        BY <1>3 DEF ProcessBegin, ProcessDrained, NoteInv, NoteTypes, ReturnedNamesWereHeard
    <2>2. drained' => toCall' = <<>> /\ noteOwner' # NoThread
        BY <1>3, NotificationsAssumption, Zenon DEF ProcessBegin, ProcessDrained, NoteInv
    <2>3. QED
        BY <2>1, <2>2 DEF NoteInv
<1>4. ASSUME NEW t \in NoteThreads, ProcessCall(t) PROVE NoteInv'
    <2>1. /\ toCall' \in Seq(EventNames \X Listeners)
          /\ \A i \in DOMAIN toCall' : i + 1 \in DOMAIN toCall /\ toCall'[i] = toCall[i + 1]
        BY <1>0, <1>4 DEF ProcessCall
    <2>2. QED
        BY <1>4, <2>1 DEF ProcessCall, NoteInv, NoteTypes, ReturnedNamesWereHeard
<1>5. ASSUME NEW t \in NoteThreads, ProcessReturn(t) PROVE NoteInv'
    <2>1. toCall' = <<>> /\ queuedNames' = <<>>
        BY <1>5 DEF ProcessReturn, NoteInv
    <2>2. ReturnedNamesWereHeard'
        BY <2>1 DEF ReturnedNamesWereHeard
    <2>3. /\ funcs' \in [EventNames -> Seq(Listeners)] /\ noteOwner' = NoThread
          /\ toCall' \in Seq(EventNames \X Listeners) /\ queuedNames' \in Seq(EventNames)
        BY <1>0, <1>5, <2>1 DEF ProcessReturn
    <2>4. drained' = FALSE
        BY <1>5 DEF ProcessReturn
    <2>5. QED
        BY <2>2, <2>3, <2>4, Zenon DEF NoteInv, NoteTypes
<1>6. QED
    BY <1>1, <1>2, <1>3, <1>4, <1>5, FireKept DEF NoteNext

\* For any number of threads, events and listeners: when
\* NotificationsProcessReturningEventNames takes the names, no call of a
\* listener is outstanding for one of them, also when listeners fire further
\* events and other threads fire at the same time.
THEOREM NamesWereHeard == NoteSpec => []ReturnedNamesWereHeard
<1>1. NoteInit => NoteInv
    <2> SUFFICES ASSUME NoteInit PROVE NoteInv
        OBVIOUS
    <2>1. /\ funcs \in [EventNames -> Seq(Listeners)] /\ noteOwner = NoThread
          /\ toCall \in Seq(EventNames \X Listeners) /\ queuedNames \in Seq(EventNames)
        BY DEF NoteInit
    <2>2. ReturnedNamesWereHeard
        BY DEF NoteInit, ReturnedNamesWereHeard
    <2>3. drained = FALSE
        BY DEF NoteInit
    <2>4. QED
        BY <2>1, <2>2, <2>3, Zenon DEF NoteInv, NoteTypes
<1>2. NoteInv => ReturnedNamesWereHeard
    BY DEF NoteInv
<1>3. QED
    BY <1>1, <1>2, NoteStep, PTL DEF NoteSpec

-----------------------------------------------------------------------------
(* The command line program *)

\* Unless a node has renewed the data with a smaller count, the data reaches as
\* far as the count that is saved.  While the node runs, nothing was answered.
CliInv ==
    /\ savedAhead \in Int /\ table.depth \in Int /\ args.ahead \in Int
    /\ shallow \in BOOLEAN
    /\ ~shallow => table.depth >= savedAhead
    /\ process = "node" => reply.asked.is = "none"
    /\ AnswersRight

\* The arguments of a run.
LEMMA CommandTypes ==
    ASSUME NEW a \in Commands
    PROVE  /\ AheadOf(a) \in Int /\ a.ask \in Questions
           /\ a.ask.is \in {"none", "address", "tx"}
           /\ a.ask.is = "address" => a.ask.index \in Nat
<1>1. a.ahead \in Int /\ a.ask \in Questions /\ DefaultAhead \in Nat
    BY CommandLineAssumption
<1>2. AheadOf(a) \in Int
    BY <1>1 DEF AheadOf
<1>3. a.ask.is \in {"none", "address", "tx"} /\ (a.ask.is = "address" => a.ask.index \in Nat)
    BY <1>1 DEF Questions, NoQuestion
<1>4. QED
    BY <1>1, <1>2, <1>3

\* A transaction is passed if it is in the table and its funding transaction is
\* known.
LEMMA TransactionPassed ==
    ASSUME NEW t, NEW q, NEW have, NEW b, CheckTransaction(t, q, have, b) = 0
    PROVE  q.of \in t.roots /\ q.needs \in have
BY DEF CheckTransaction, InTable

\* The data that a run which answers a question looks into is for the roots that
\* are registered, and reaches as far as the run asks for.
LEMMA TableCurrent ==
    ASSUME CliInv, NEW a \in Commands, TrackerOf(a), NEW roots
    PROVE  /\ TableAfter(a, roots).roots = roots
           /\ TableAfter(a, roots).depth \in Int
           /\ Rebuilds(a, roots) \/ ~shallow => TableAfter(a, roots).depth >= AheadOf(a)
           /\ Rebuilds(a, roots) => TableAfter(a, roots).depth = AheadOf(a)
           /\ ~Rebuilds(a, roots) => TableAfter(a, roots) = table
<1>0. /\ AheadOf(a) \in Int /\ savedAhead \in Int /\ table.depth \in Int
      /\ ~shallow => table.depth >= savedAhead
    BY CommandTypes DEF CliInv
<1>1. CASE Rebuilds(a, roots)
    <2>1. TableAfter(a, roots) = [roots |-> roots, depth |-> AheadOf(a)]
        BY <1>1 DEF TableAfter
    <2>2. QED
        BY <1>0, <1>1, <2>1
<1>2. CASE ~Rebuilds(a, roots)
    <2>1. TableAfter(a, roots) = table /\ table.roots = roots /\ ~(savedAhead < AheadOf(a))
        BY <1>2 DEF TableAfter, Rebuilds, TableStale
    <2>2. QED
        BY <1>0, <1>2, <2>1
<1>3. QED
    BY <1>1, <1>2

\* A run keeps the invariant.
LEMMA RunKept ==
    ASSUME CliInv, NEW a \in Commands, Run(a)
    PROVE  CliInv'
<1> DEFINE roots == RootsOf(XpubsAfter(a), VaultAfter(a))
           now == TableAfter(a, roots)
           have == fundings \cup (IF a.funding THEN {"f"} ELSE {})
           seen == IF DatabaseOf(a) THEN have ELSE {}
           result == IF a.ask.is = "tx" THEN CheckTransaction(now, a.ask, seen, FALSE) ELSE 0
           goesOn == a.node /\ a.ask.is # "address" /\ (a.ask.is = "tx" => result >= 1)
<1>0. /\ AheadOf(a) \in Int /\ a.ask.is \in {"none", "address", "tx"}
      /\ a.ask.is = "address" => a.ask.index \in Nat
      /\ savedAhead \in Int /\ table.depth \in Int /\ shallow \in BOOLEAN
      /\ ~shallow => table.depth >= savedAhead
    BY CommandTypes DEF CliInv
<1>1. /\ args' = [ask |-> a.ask, ahead |-> AheadOf(a)] /\ net' = net
      /\ xpubs' = XpubsAfter(a) /\ process = "none"
    BY DEF Run
<1>2. args'.ahead = AheadOf(a)
    BY <1>1
<1>3. CASE ScriptFails(a)
    <2>1. /\ reply' = [asked |-> NoQuestion, exit |-> 1]
          /\ savedAhead' = savedAhead /\ table' = table /\ shallow' = shallow
          /\ process' = process
        BY <1>3 DEF Run
    <2>2. reply'.asked.is = "none"
        BY <2>1 DEF NoQuestion
    <2>3. AnswersRight'
        BY <2>2 DEF AnswersRight
    <2>4. QED
        BY <1>0, <1>2, <2>1, <2>2, <2>3 DEF CliInv
<1>4. CASE ~ScriptFails(a)
    <2>1. /\ vault' = VaultAfter(a) /\ table' = now /\ fundings' = have
          /\ savedAhead' = IF TrackerOf(a) /\ Rebuilds(a, roots) THEN AheadOf(a) ELSE savedAhead
          /\ shallow' = IF TrackerOf(a) /\ Rebuilds(a, roots) THEN FALSE ELSE shallow
          /\ reply' =
               CASE goesOn -> NoAnswer
                 [] a.ask.is = "address" ->
                      [asked |-> a.ask, exit |-> IF Confirms(now, a.ask) THEN 0 ELSE 1]
                 [] a.ask.is = "tx" /\ ~goesOn -> [asked |-> a.ask, exit |-> IF result = 0 THEN 0 ELSE 1]
                 [] OTHER -> [asked |-> NoQuestion, exit |-> 10]
          /\ process' = IF goesOn THEN "node" ELSE "none"
        BY <1>4 DEF Run
    <2>2. RootsOf(xpubs, vault)' = roots
        BY <1>1, <2>1 DEF RootsOf
    <2>3. NoAnswer.asked.is = "none" /\ NoQuestion.is = "none"
        BY DEF NoAnswer, NoQuestion
    <2>4. /\ savedAhead' \in Int /\ table'.depth \in Int /\ shallow' \in BOOLEAN
          /\ ~shallow' => table'.depth >= savedAhead'
        <3>1. CASE ~TrackerOf(a)
            BY <1>0, <2>1, <3>1 DEF TableAfter
        <3>2. CASE TrackerOf(a)
            <4> HIDE DEF roots
            <4>1. CASE Rebuilds(a, roots)
                BY <1>0, <2>1, <3>2, <4>1, TableCurrent
            <4>2. CASE ~Rebuilds(a, roots)
                BY <1>0, <2>1, <3>2, <4>2, TableCurrent
            <4>3. QED
                BY <4>1, <4>2
        <3>3. QED
            BY <3>1, <3>2
    <2> HIDE DEF roots, now, have, result, seen
    <2>5. CASE goesOn \/ a.ask.is = "none"
        <3>1. reply'.asked.is = "none"
            BY <2>1, <2>3, <2>5
        <3>2. AnswersRight'
            BY <3>1 DEF AnswersRight
        <3>3. QED
            BY <1>0, <1>2, <2>4, <3>1, <3>2 DEF CliInv
    <2>6. CASE a.ask.is = "address"
        <3>1. /\ reply' = [asked |-> a.ask, exit |-> IF Confirms(now, a.ask) THEN 0 ELSE 1]
              /\ process' = "none"
            BY <2>1, <2>6
        <3>2. reply'.asked = a.ask /\ (reply'.exit = 0 <=> Confirms(now, a.ask))
            BY <3>1
        <3>3. TrackerOf(a)
            BY <2>6 DEF TrackerOf
        <3>4. now.roots = roots /\ now.depth \in Int /\ (~shallow' => now.depth >= AheadOf(a))
            BY <2>1, <3>3, TableCurrent DEF now
        <3>5. Confirms(now, a.ask) => a.ask.of \in roots /\ a.ask.kind = "own"
            BY <3>4 DEF Confirms, InTable
        <3>6. net = "main" /\ a.ask.kind = "own" /\ a.ask.of \in roots /\ a.ask.index < AheadOf(a)
                /\ ~shallow' => Confirms(now, a.ask)
            BY <1>0, <2>6, <3>4 DEF Confirms, InTable
        <3>7. AnswersRight'
            BY <1>1, <1>2, <2>2, <2>6, <3>2, <3>5, <3>6 DEF AnswersRight
        <3>8. QED
            BY <1>0, <1>2, <2>4, <3>1, <3>7 DEF CliInv
    <2>7. CASE a.ask.is = "tx" /\ ~goesOn
        <3>1. /\ reply' = [asked |-> a.ask, exit |-> IF result = 0 THEN 0 ELSE 1]
              /\ process' = "none"
            BY <2>1, <2>7
        <3>2. reply'.asked = a.ask /\ (reply'.exit = 0 => result = 0)
            BY <3>1
        <3>3. result = 0 => a.ask.of \in now.roots /\ a.ask.needs \in seen
            BY <2>7, TransactionPassed DEF result
        <3>4. seen \subseteq fundings'
            BY <2>1 DEF seen
        <3>5. AnswersRight'
            BY <2>1, <2>7, <3>2, <3>3, <3>4 DEF AnswersRight
        <3>6. QED
            BY <1>0, <1>2, <2>4, <3>1, <3>5 DEF CliInv
    <2>8. QED
        BY <1>0, <2>5, <2>6, <2>7
<1>5. QED
    BY <1>3, <1>4

\* Every step of a run keeps the invariant.
LEMMA CliStep == CliInv /\ [CliNext]_cliVars => CliInv'
<1> SUFFICES ASSUME CliInv, [CliNext]_cliVars PROVE CliInv'
    OBVIOUS
<1>1. CASE UNCHANGED cliVars
    BY <1>1 DEF cliVars, CliInv, AnswersRight, RootsOf
<1>2. CASE NodeRenews
    <2>1. /\ table' = [roots |-> RootsOf(xpubs, vault), depth |-> args.ahead]
          /\ shallow' = (shallow \/ args.ahead < savedAhead)
          /\ process = "node" /\ process' = process /\ reply' = reply /\ args' = args
          /\ savedAhead' = savedAhead
        BY <1>2 DEF NodeRenews
    <2>2. reply'.asked.is = "none" /\ table'.depth = args.ahead
        BY <2>1 DEF CliInv
    <2>3. AnswersRight'
        BY <2>2 DEF AnswersRight
    <2>4. shallow' \in BOOLEAN /\ (~shallow' => ~(args.ahead < savedAhead))
        BY <2>1, Zenon
    <2>5. args.ahead \in Int /\ savedAhead \in Int
        BY DEF CliInv
    <2>6. ~shallow' => table'.depth >= savedAhead'
        BY <2>1, <2>2, <2>4, <2>5
    <2>7. QED
        BY <2>1, <2>2, <2>3, <2>4, <2>5, <2>6 DEF CliInv
<1>3. CASE NodeFinds
    <2>1. /\ fundings' = {"f"} /\ args.ask.is = "tx"
          /\ LET result == CheckTransaction(table, args.ask, fundings', TRUE)
             IN  /\ reply' = IF result = 0 THEN [asked |-> args.ask, exit |-> 0] ELSE reply
                 /\ process' = IF result = 0 THEN "none" ELSE "node"
          /\ process = "node" /\ args' = args /\ table' = table /\ shallow' = shallow
          /\ savedAhead' = savedAhead
        BY <1>3 DEF NodeFinds
    <2>2. CASE CheckTransaction(table, args.ask, fundings', TRUE) = 0
        <3>1. args.ask.of \in table.roots
            BY <2>2, TransactionPassed
        <3>2. reply'.asked = args.ask /\ process' = "none"
            BY <2>1, <2>2
        <3>3. AnswersRight'
            BY <2>1, <3>1, <3>2 DEF AnswersRight
        <3>4. QED
            BY <2>1, <3>2, <3>3 DEF CliInv
    <2>3. CASE CheckTransaction(table, args.ask, fundings', TRUE) # 0
        <3>1. reply'.asked.is = "none"
            BY <2>1, <2>3 DEF CliInv
        <3>2. AnswersRight'
            BY <3>1 DEF AnswersRight
        <3>3. QED
            BY <2>1, <3>1, <3>2 DEF CliInv
    <2>4. QED
        BY <2>2, <2>3
<1>4. CASE NodeStops
    <2>1. /\ reply' = [asked |-> NoQuestion, exit |-> 10]
          /\ process' = "none" /\ args' = args /\ table' = table /\ shallow' = shallow
          /\ savedAhead' = savedAhead
        BY <1>4 DEF NodeStops
    <2>2. reply'.asked.is = "none"
        BY <2>1 DEF NoQuestion
    <2>3. AnswersRight'
        BY <2>2 DEF AnswersRight
    <2>4. QED
        BY <2>1, <2>2, <2>3 DEF CliInv
<1>5. QED
    BY <1>1, <1>2, <1>3, <1>4, RunKept DEF CliNext

\* For any xpubs, any arguments and any number of runs over the same directory:
\* an address that is confirmed belongs to a root that is registered, one of a
\* registered root within the look-ahead is confirmed, and a transaction that is
\* passed has its funding transaction, whatever the earlier runs left behind.
THEOREM AnswersStayRight == CliSpec => []AnswersRight
<1>1. CliInit => CliInv
    <2> SUFFICES ASSUME CliInit PROVE CliInv
        OBVIOUS
    <2>1. /\ savedAhead = 0 /\ table.depth = 0 /\ args.ahead = DefaultAhead /\ shallow = FALSE
          /\ process = "none" /\ reply = NoAnswer
        BY DEF CliInit
    <2>2. reply.asked.is = "none"
        BY <2>1 DEF NoAnswer, NoQuestion
    <2>3. AnswersRight
        BY <2>2 DEF AnswersRight
    <2>4. DefaultAhead \in Int
        BY CommandLineAssumption
    <2>5. shallow \in BOOLEAN
        BY <2>1, Zenon
    <2>6. QED
        BY <2>1, <2>2, <2>3, <2>4, <2>5 DEF CliInv
<1>2. CliInv => AnswersRight
    BY DEF CliInv
<1>3. QED
    BY <1>1, <1>2, CliStep, PTL DEF CliSpec

-----------------------------------------------------------------------------
(* Publishing a transaction *)

\* The entries of sendTxOnResults and the answers.
PubTypes ==
    /\ sendTxOnResults \in Seq(Entries)
    /\ onResults \in [PubTxs -> Seq({"none", "timeout"})]
    /\ chosenNodes \in [PubTxs -> Nat]
    /\ halted \in BOOLEAN

\* A transaction that is asked for has been announced.
PubInv == PubTypes /\ getDatas \subseteq seenTxs /\ OneAnswerEach

\* How many callers wait for an answer about t, in a list of entries.
Waits(list, t) == Len(Within(list, EntriesOf(t)))

\* That is a number.
LEMMA WaitsType == ASSUME NEW list \in Seq(Entries), NEW t PROVE Waits(list, t) \in Nat
<1>1. Within(list, EntriesOf(t)) \in Seq(Entries)
    BY WithinType
<1>2. QED
    BY <1>1 DEF Waits

\* What one has been answered, and how many wait, in terms of Waits.
AnswersOf(t, answers, seen, list, chosen, stopped) ==
    /\ answers = <<>> \/ t \in seen \/ answers[Len(answers)] = "timeout"
    /\ ~stopped => Len(answers) + Waits(list, t) = chosen
    /\ \A i \in DOMAIN answers : answers[i] = "timeout" => i = Len(answers) /\ stopped

\* OneAnswerEach, transaction by transaction.
LEMMA OneAnswerIs ==
    OneAnswerEach <=> \A t \in PubTxs : AnswersOf(t, onResults[t], seenTxs, sendTxOnResults,
                                                  chosenNodes[t], halted)
BY DEF OneAnswerEach, AnswersOf, Waits

\* The same of the next state.
LEMMA OneAnswerNext ==
    OneAnswerEach' <=> \A t \in PubTxs : AnswersOf(t, onResults'[t], seenTxs', sendTxOnResults',
                                                   chosenNodes'[t], halted')
BY DEF OneAnswerEach, AnswersOf, Waits

\* While the program runs, the answers given are all that of success.
LEMMA AnswersWhileRunning ==
    ASSUME NEW t, NEW a \in Seq({"none", "timeout"}), NEW seen, NEW list, NEW c,
           AnswersOf(t, a, seen, list, c, FALSE)
    PROVE  /\ \A i \in DOMAIN a : a[i] = "none"
           /\ a # <<>> => t \in seen
           /\ Len(a) + Waits(list, t) = c
<1>1. /\ a = <<>> \/ t \in seen \/ a[Len(a)] = "timeout"
      /\ Len(a) + Waits(list, t) = c
      /\ \A i \in DOMAIN a : a[i] # "timeout"
    BY DEF AnswersOf
<1>2. \A i \in DOMAIN a : a[i] \in {"none", "timeout"}
    OBVIOUS
<1>3. a # <<>> => Len(a) \in DOMAIN a
    OBVIOUS
<1>4. QED
    BY <1>1, <1>2, <1>3

\* The loop over the chosen nodes adds entries for its transaction only.
LEMMA WaitsMore ==
    ASSUME NEW list \in Seq(Entries), NEW half \in Nat, NEW t \in PubTxs, NEW u \in PubTxs
    PROVE  /\ list \o Waiting(half, t) \in Seq(Entries)
           /\ Waits(list \o Waiting(half, t), u)
                = Waits(list, u) + (IF u = t THEN half ELSE 0)
<1>1. PICK w : w = Waiting(half, t)
    OBVIOUS
<1>2. [tx |-> t, expired |-> FALSE] \in EntriesOf(t) /\ EntriesOf(t) \subseteq Entries
    BY DEF EntriesOf, Entries
<1>3. w \in Seq(EntriesOf(t)) /\ Len(w) = half
    <2>1. w = [i \in 1 .. half |-> [tx |-> t, expired |-> FALSE]]
        BY <1>1 DEF Waiting
    <2>2. PICK e \in EntriesOf(t) : e = [tx |-> t, expired |-> FALSE]
        BY <1>2
    <2>3. w = [i \in 1 .. half |-> e]
        BY <2>1, <2>2
    <2>4. QED
        BY <2>3
<1>4. w \in Seq(Entries)
    BY <1>2, <1>3
<1>5. Within(list \o w, EntriesOf(u)) = Within(list, EntriesOf(u)) \o Within(w, EntriesOf(u))
    BY <1>4, WithinConcat
<1>6. PICK a \in Seq(Entries) : a = Within(list, EntriesOf(u))
    BY WithinType
<1>7. CASE u = t
    <2>1. Within(w, EntriesOf(u)) = w
        BY <1>3, <1>7, WithinAllOrNone
    <2>2. Len(a \o w) = Len(a) + half /\ list \o w \in Seq(Entries)
        BY <1>3, <1>4
    <2>3. Within(list \o w, EntriesOf(u)) = a \o w
        BY <1>5, <1>6, <2>1
    <2>4. Waits(list \o w, u) = Waits(list, u) + half
        BY <1>6, <2>2, <2>3 DEF Waits
    <2>5. QED
        BY <1>1, <1>7, <2>2, <2>4
<1>8. CASE u # t
    <2>1. EntriesOf(t) \cap EntriesOf(u) = {}
        BY <1>8 DEF EntriesOf
    <2>2. Within(w, EntriesOf(u)) = <<>>
        BY <1>3, <2>1, WithinAllOrNone
    <2>3. a \o <<>> = a /\ Len(a) \in Nat
        OBVIOUS
    <2>4. QED
        BY <1>1, <1>4, <1>5, <1>6, <1>8, <2>2, <2>3 DEF Waits
<1>9. QED
    BY <1>7, <1>8

\* Taking out the entries of t leaves those of the others.
LEMMA WaitsFewer ==
    ASSUME NEW list \in Seq(Entries), NEW t \in PubTxs, NEW u \in PubTxs
    PROVE  /\ WithoutMatching(list, t) \in Seq(Entries)
           /\ Waits(WithoutMatching(list, t), u) = IF u = t THEN 0 ELSE Waits(list, u)
<1> DEFINE rest == Entries \ EntriesOf(t)
<1>1. WithoutMatching(list, t) = Within(list, rest)
    BY DEF WithoutMatching
<1>2. Within(Within(list, rest), EntriesOf(u)) = Within(list, rest \cap EntriesOf(u))
    BY WithinTwice
<1>3. CASE u = t
    <2>1. Entries \cap (rest \cap EntriesOf(u)) = {}
        BY <1>3
    <2>2. Within(list, rest \cap EntriesOf(u)) = <<>>
        BY <2>1, WithinAllOrNone
    <2>3. QED
        BY <1>1, <1>2, <1>3, <2>2, WithinType DEF Waits
<1>4. CASE u # t
    <2>1. (rest \cap EntriesOf(u)) \cap Entries = EntriesOf(u) \cap Entries
        BY <1>4 DEF EntriesOf
    <2>2. Within(list, rest \cap EntriesOf(u)) = Within(list, EntriesOf(u))
        BY <2>1, WithinSame
    <2>3. QED
        BY <1>1, <1>2, <1>4, <2>2, WithinType DEF Waits
<1>5. QED
    BY <1>3, <1>4

\* NodeManagerSendTx with a callback adds as many entries as nodes it chose.
LEMMA SendTxsKept ==
    ASSUME PubInv, ~halted, NEW ts, NEW callback \in BOOLEAN, SendTxs(ts, callback),
           callback => \E t \in PubTxs : ts = {t}
    PROVE  PubInv'
<1> DEFINE half == Cardinality(PubNodes) \div 2
           t == CHOOSE x \in ts : TRUE
<1>0. /\ sendTxOnResults \in Seq(Entries) /\ onResults \in [PubTxs -> Seq({"none", "timeout"})]
      /\ chosenNodes \in [PubTxs -> Nat] /\ getDatas \subseteq seenTxs
      /\ \A u \in PubTxs : AnswersOf(u, onResults[u], seenTxs, sendTxOnResults, chosenNodes[u], halted)
    BY OneAnswerIs DEF PubInv, PubTypes
<1>1. half \in Nat
    <2>1. Cardinality(PubNodes) \in Nat
        BY PublishAssumption, FS_CardinalityType
    <2>2. QED
        BY <2>1
<1>2. /\ sendTxOnResults' = IF callback THEN sendTxOnResults \o Waiting(half, t)
                            ELSE sendTxOnResults
      /\ chosenNodes' = IF callback THEN [chosenNodes EXCEPT ![t] = @ + half] ELSE chosenNodes
      /\ onResults' = onResults /\ seenTxs' = seenTxs /\ getDatas' = getDatas
    BY DEF SendTxs
<1>3. halted' = halted
    BY DEF SendTxs
<1> HIDE DEF half, t
<1>4. CASE ~callback
    BY <1>0, <1>2, <1>3, <1>4, OneAnswerNext DEF PubInv, PubTypes
<1>5. CASE callback
    <2>1. t \in PubTxs
        BY <1>5 DEF t
    <2>2. chosenNodes' \in [PubTxs -> Nat]
        BY <1>0, <1>1, <1>2, <1>5, <2>1
    <2>3. sendTxOnResults' \in Seq(Entries)
        BY <1>0, <1>1, <1>2, <1>5, <2>1, WaitsMore
    <2>4. ASSUME NEW u \in PubTxs
          PROVE  AnswersOf(u, onResults'[u], seenTxs', sendTxOnResults', chosenNodes'[u], halted')
        <3>1. Waits(sendTxOnResults', u)
                = Waits(sendTxOnResults, u) + (IF u = t THEN half ELSE 0)
            BY <1>0, <1>1, <1>2, <1>5, <2>1, WaitsMore
        <3>2. chosenNodes'[u] = chosenNodes[u] + (IF u = t THEN half ELSE 0)
            BY <1>0, <1>1, <1>2, <1>5, <2>1
        <3>3. /\ onResults[u] \in Seq({"none", "timeout"}) /\ Len(onResults[u]) \in Nat
              /\ Waits(sendTxOnResults, u) \in Nat /\ chosenNodes[u] \in Nat
            BY <1>0, WaitsType
        <3>4. AnswersOf(u, onResults[u], seenTxs, sendTxOnResults, chosenNodes[u], halted)
            BY <1>0
        <3>5. ~halted' => Len(onResults'[u]) + Waits(sendTxOnResults', u) = chosenNodes'[u]
            <4>1. Len(onResults[u]) + Waits(sendTxOnResults, u) = chosenNodes[u]
                BY <3>4 DEF AnswersOf
            <4>2. QED
                BY <1>1, <1>2, <3>1, <3>2, <3>3, <4>1
        <3>6. QED
            BY <1>2, <1>3, <3>4, <3>5 DEF AnswersOf
    <2>5. PubTypes'
        BY <1>0, <1>2, <1>3, <2>2, <2>3 DEF PubTypes, PubInv
    <2>6. QED
        BY <1>0, <1>2, <2>4, <2>5, OneAnswerNext DEF PubInv
<1>6. QED
    BY <1>4, <1>5

\* A transaction that arrives answers its callers and takes out their entries.
LEMMA TxArrivedKept ==
    ASSUME PubInv, NEW t \in PubTxs, TxArrived(t)
    PROVE  PubInv'
<1> DEFINE n == Len(Within(sendTxOnResults, EntriesOf(t)))
           answers == [i \in 1 .. n |-> "none"]
<1>0. /\ sendTxOnResults \in Seq(Entries) /\ onResults \in [PubTxs -> Seq({"none", "timeout"})]
      /\ chosenNodes \in [PubTxs -> Nat] /\ getDatas \subseteq seenTxs
      /\ \A u \in PubTxs : AnswersOf(u, onResults[u], seenTxs, sendTxOnResults, chosenNodes[u], halted)
    BY OneAnswerIs DEF PubInv, PubTypes
<1>1. /\ onResults' = [onResults EXCEPT ![t] = @ \o answers]
      /\ sendTxOnResults' = WithoutMatching(sendTxOnResults, t)
      /\ getDatas' = getDatas \ {t} /\ t \in getDatas
      /\ chosenNodes' = chosenNodes /\ seenTxs' = seenTxs
    BY DEF TxArrived
<1>2. halted = FALSE /\ halted' = FALSE
    BY DEF TxArrived, PubInv, PubTypes
<1>3. n = Waits(sendTxOnResults, t) /\ n \in Nat
    BY <1>0, WaitsType DEF Waits
<1> HIDE DEF n
<1>4. answers \in Seq({"none", "timeout"}) /\ Len(answers) = n /\ \A i \in 1 .. n : answers[i] = "none"
    BY <1>3
<1> HIDE DEF answers
<1>5. onResults' \in [PubTxs -> Seq({"none", "timeout"})]
    <2>1. onResults[t] \o answers \in Seq({"none", "timeout"})
        BY <1>0, <1>4
    <2>2. QED
        BY <1>0, <1>1, <2>1
<1>6. sendTxOnResults' \in Seq(Entries)
    BY <1>0, <1>1, WaitsFewer
<1>7. ASSUME NEW u \in PubTxs
      PROVE  AnswersOf(u, onResults'[u], seenTxs', sendTxOnResults', chosenNodes'[u], halted')
    <2>0. PICK a \in Seq({"none", "timeout"}) : a = onResults[u]
        BY <1>0
    <2>1. /\ \A i \in DOMAIN a : a[i] = "none"
          /\ a # <<>> => u \in seenTxs
          /\ Len(a) + Waits(sendTxOnResults, u) = chosenNodes[u]
        <3>1. AnswersOf(u, a, seenTxs, sendTxOnResults, chosenNodes[u], FALSE)
            BY <1>0, <1>2, <2>0
        <3>2. QED
            BY <3>1, AnswersWhileRunning
    <2>2. Waits(sendTxOnResults', u) = IF u = t THEN 0 ELSE Waits(sendTxOnResults, u)
        BY <1>0, <1>1, WaitsFewer
    <2>3. CASE u = t
        <3>1. onResults'[u] = a \o answers
            BY <1>0, <1>1, <2>0, <2>3
        <3>2. PICK b : b = a \o answers
            OBVIOUS
        <3>3. Len(b) = Len(a) + n /\ \A i \in DOMAIN b : b[i] = "none"
            <4>1. Len(a) \in Nat /\ Len(b) = Len(a) + n /\ DOMAIN b = 1 .. Len(a) + n
                <5>1. b \in Seq({"none", "timeout"}) /\ Len(b) = Len(a) + Len(answers)
                    BY <1>4, <3>2, ConcatProperties
                <5>2. QED
                    BY <1>4, <5>1, LenProperties
            <4>2. \A i \in 1 .. Len(a) + n : b[i] = IF i <= Len(a) THEN a[i] ELSE answers[i - Len(a)]
                BY <1>3, <1>4, <3>2
            <4>3. ASSUME NEW i \in DOMAIN b PROVE b[i] = "none"
                <5>1. CASE i <= Len(a)
                    BY <2>1, <4>1, <4>2, <5>1
                <5>2. CASE ~(i <= Len(a))
                    <6>1. i - Len(a) \in 1 .. n
                        BY <1>3, <4>1, <5>2
                    <6>2. QED
                        BY <1>4, <4>1, <4>2, <5>2, <6>1
                <5>3. QED
                    BY <5>1, <5>2
            <4>4. QED
                BY <4>1, <4>3
        <3>4. u \in seenTxs'
            BY <1>0, <1>1, <2>3
        <3>5. Len(b) + Waits(sendTxOnResults', u) = chosenNodes'[u]
            BY <1>1, <1>3, <2>1, <2>2, <2>3, <3>3
        <3>6. QED
            BY <3>1, <3>2, <3>3, <3>4, <3>5 DEF AnswersOf
    <2>4. CASE u # t
        <3>1. onResults'[u] = a
            BY <1>0, <1>1, <2>0, <2>4
        <3>2. Len(a) + Waits(sendTxOnResults', u) = chosenNodes'[u]
            BY <1>1, <2>1, <2>2, <2>4
        <3>3. QED
            BY <1>1, <2>1, <3>1, <3>2 DEF AnswersOf
    <2>5. QED
        BY <2>3, <2>4
<1>8. PubTypes'
    BY <1>0, <1>1, <1>2, <1>5, <1>6 DEF PubTypes
<1>9. QED
    BY <1>0, <1>1, <1>7, <1>8, OneAnswerNext DEF PubInv

\* An announcement, a time limit: of one transaction the answer x is added,
\* with which the program stops.
LEMMA LastAnswer ==
    ASSUME PubInv, ~halted, halted', NEW t, NEW x \in {"none", "timeout"},
           x = "timeout" \/ t \in seenTxs',
           seenTxs \subseteq seenTxs', UNCHANGED <<sendTxOnResults, chosenNodes, getDatas>>,
           onResults' = [onResults EXCEPT ![t] = Append(@, x)]
    PROVE  PubInv'
<1>0. /\ sendTxOnResults \in Seq(Entries) /\ onResults \in [PubTxs -> Seq({"none", "timeout"})]
      /\ chosenNodes \in [PubTxs -> Nat] /\ getDatas \subseteq seenTxs
      /\ \A u \in PubTxs : AnswersOf(u, onResults[u], seenTxs, sendTxOnResults, chosenNodes[u], halted)
    BY OneAnswerIs DEF PubInv, PubTypes
<1>1. halted = FALSE /\ halted \in BOOLEAN
    BY DEF PubInv, PubTypes
<1>2. ASSUME NEW u \in PubTxs, u = t PROVE onResults'[u] = Append(onResults[u], x)
    BY <1>0, <1>2
<1>3. ASSUME NEW u \in PubTxs, u # t PROVE onResults'[u] = onResults[u]
    BY <1>0, <1>3
<1>4. onResults' \in [PubTxs -> Seq({"none", "timeout"})]
    <2>1. CASE t \in PubTxs
        <3>1. Append(onResults[t], x) \in Seq({"none", "timeout"})
            BY <1>0, <2>1
        <3>2. QED
            BY <1>0, <3>1
    <2>2. CASE t \notin PubTxs
        BY <1>0, <2>2
    <2>3. QED
        BY <2>1, <2>2
<1>5. ASSUME NEW u \in PubTxs
      PROVE  AnswersOf(u, onResults'[u], seenTxs', sendTxOnResults', chosenNodes'[u], halted')
    <2>0. PICK a \in Seq({"none", "timeout"}) : a = onResults[u]
        BY <1>0
    <2>1. /\ \A i \in DOMAIN a : a[i] = "none"
          /\ a # <<>> => u \in seenTxs
        BY <1>0, <1>1, <2>0, AnswersWhileRunning
    <2>2. CASE u = t
        <3>1. PICK b : b = Append(a, x)
            OBVIOUS
        <3>2. Len(b) = Len(a) + 1 /\ b[Len(b)] = x /\ \A i \in DOMAIN b : i # Len(b) => b[i] = "none"
            BY <2>1, <3>1
        <3>3. onResults'[u] = b
            BY <1>2, <2>0, <2>2, <3>1
        <3>4. QED
            BY <2>2, <3>2, <3>3 DEF AnswersOf
    <2>3. CASE u # t
        BY <1>3, <2>0, <2>1, <2>3 DEF AnswersOf
    <2>4. QED
        BY <2>2, <2>3
<1>6. PubTypes'
    <2>1. halted' = TRUE
        BY DEF PubInv
    <2>2. QED
        BY <1>0, <1>4, <2>1 DEF PubTypes
<1>7. QED
    BY <1>0, <1>5, <1>6, OneAnswerNext DEF PubInv

\* When the time limit passes, as many wait as before.
LEMMA TimeLimitKept ==
    ASSUME PubInv, TimeLimitPasses
    PROVE  PubInv'
<1> DEFINE old == sendTxOnResults
           late == [i \in DOMAIN old |-> [old[i] EXCEPT !.expired = TRUE]]
<1>0. /\ old \in Seq(Entries) /\ onResults \in [PubTxs -> Seq({"none", "timeout"})]
      /\ chosenNodes \in [PubTxs -> Nat] /\ getDatas \subseteq seenTxs
      /\ \A u \in PubTxs : AnswersOf(u, onResults[u], seenTxs, old, chosenNodes[u], halted)
    BY OneAnswerIs DEF PubInv, PubTypes
<1>1. /\ sendTxOnResults' = late
      /\ onResults' = onResults /\ chosenNodes' = chosenNodes /\ seenTxs' = seenTxs
      /\ getDatas' = getDatas
    BY DEF TimeLimitPasses
<1>2. halted' = halted /\ halted \in BOOLEAN
    BY DEF TimeLimitPasses, PubInv, PubTypes
<1>3. ASSUME NEW e \in Entries
      PROVE  /\ [e EXCEPT !.expired = TRUE] \in Entries
             /\ [e EXCEPT !.expired = TRUE].tx = e.tx
    BY DEF Entries
<1>4. late \in Seq(Entries) /\ Len(late) = Len(old) /\ Len(old) \in Nat
    <2>1. DOMAIN old = 1 .. Len(old) /\ Len(old) \in Nat /\ \A i \in 1 .. Len(old) : old[i] \in Entries
        BY <1>0
    <2> HIDE DEF old
    <2>2. \A i \in 1 .. Len(old) : [old[i] EXCEPT !.expired = TRUE] \in Entries
        BY <1>3, <2>1
    <2>3. QED
        BY <2>1, <2>2
<1>5. ASSUME NEW u \in PubTxs PROVE Waits(late, u) = Waits(old, u)
    <2>1. ASSUME NEW i \in 1 .. Len(old) PROVE old[i] \in EntriesOf(u) <=> late[i] \in EntriesOf(u)
        <3>1. old[i] \in Entries /\ i \in DOMAIN old
            BY <1>0
        <3>2. late[i] = [old[i] EXCEPT !.expired = TRUE]
            BY <3>1, Zenon
        <3> HIDE DEF late, old
        <3>3. QED
            BY <1>3, <3>1, <3>2 DEF EntriesOf
    <2> HIDE DEF late, old
    <2>2. QED
        BY <1>0, <1>4, <2>1, WithinAlike DEF Waits
<1> HIDE DEF late, old
<1>6. ASSUME NEW u \in PubTxs
      PROVE  AnswersOf(u, onResults'[u], seenTxs', sendTxOnResults', chosenNodes'[u], halted')
    BY <1>0, <1>1, <1>2, <1>5 DEF AnswersOf
<1>7. PubTypes'
    BY <1>0, <1>1, <1>2, <1>4 DEF PubTypes
<1>8. QED
    BY <1>0, <1>1, <1>6, <1>7, OneAnswerNext DEF PubInv

\* An announcement.
LEMMA InventoryKept ==
    ASSUME PubInv, NEW t \in PubTxs, InventoryTx(t)
    PROVE  PubInv'
<1> DEFINE waits == \E e \in ToSet(sendTxOnResults) : e.tx = t
<1>0. /\ \A u \in PubTxs : AnswersOf(u, onResults[u], seenTxs, sendTxOnResults, chosenNodes[u], halted)
      /\ PubTypes /\ getDatas \subseteq seenTxs
    BY OneAnswerIs DEF PubInv
<1>1. /\ seenTxs' = seenTxs \cup {t} /\ sendTxOnResults' = sendTxOnResults
      /\ chosenNodes' = chosenNodes
    BY DEF InventoryTx
<1>2. ~halted
    BY DEF InventoryTx
<1>3. CASE KnownByHash(t) /\ waits
    <2>1. /\ onResults' = [onResults EXCEPT ![t] = Append(@, "none")]
          /\ getDatas' = getDatas /\ halted'
        BY <1>3 DEF InventoryTx
    <2>2. "none" \in {"none", "timeout"}
        OBVIOUS
    <2>3. QED
        BY <1>1, <1>2, <2>1, <2>2, LastAnswer
<1>4. CASE ~(KnownByHash(t) /\ waits)
    <2>1. onResults' = onResults /\ getDatas' \subseteq getDatas \cup {t}
        BY <1>4 DEF InventoryTx
    <2>2. halted' = FALSE /\ halted = FALSE
        <3>1. halted \in BOOLEAN
            BY <1>0 DEF PubTypes
        <3>2. CASE ~KnownByHash(t)
            BY <1>2, <3>1, <3>2 DEF InventoryTx
        <3>3. CASE KnownByHash(t)
            <4>1. halted' = waits
                BY <3>3 DEF InventoryTx
            <4> HIDE DEF waits
            <4>2. QED
                BY <1>2, <1>4, <3>1, <3>3, <4>1
        <3>4. QED
            BY <3>2, <3>3
    <2>3. PubTypes'
        BY <1>0, <1>1, <2>1, <2>2 DEF PubTypes
    <2>4. ASSUME NEW u \in PubTxs
          PROVE  AnswersOf(u, onResults'[u], seenTxs', sendTxOnResults', chosenNodes'[u], halted')
        BY <1>0, <1>1, <2>1, <2>2 DEF AnswersOf
    <2>5. QED
        BY <1>0, <1>1, <2>1, <2>3, <2>4, OneAnswerNext DEF PubInv
<1>5. QED
    BY <1>3, <1>4

\* Every step keeps the account of answers.
LEMMA PublishStep == PubInv /\ [PublishNext]_pubVars => PubInv'
<1> SUFFICES ASSUME PubInv, [PublishNext]_pubVars PROVE PubInv'
    OBVIOUS
<1>0. ASSUME UNCHANGED <<sendTxOnResults, onResults, chosenNodes, getDatas, seenTxs>>,
             halted' \in BOOLEAN, halted => halted'
      PROVE  PubInv'
    <2>1. \A u \in PubTxs : AnswersOf(u, onResults[u], seenTxs, sendTxOnResults, chosenNodes[u], halted)
        BY OneAnswerIs DEF PubInv
    <2>2. ASSUME NEW u \in PubTxs
          PROVE  AnswersOf(u, onResults'[u], seenTxs', sendTxOnResults', chosenNodes'[u], halted')
        BY <1>0, <2>1 DEF AnswersOf
    <2>3. PubTypes'
        BY <1>0 DEF PubInv, PubTypes
    <2>4. QED
        BY <1>0, <2>2, <2>3, OneAnswerNext DEF PubInv
<1>1. CASE UNCHANGED pubVars
    BY <1>0, <1>1 DEF pubVars, PubInv, PubTypes
<1>2. ASSUME NEW t \in PubTxs, NEW callback \in BOOLEAN, NodeManagerSendTx(t, callback)
      PROVE  PubInv'
    <2>1. ~halted /\ SendTxs({t}, callback)
        BY <1>2 DEF NodeManagerSendTx
    <2>2. QED
        BY <2>1, SendTxsKept
<1>3. ASSUME PublishWaitingTransactions PROVE PubInv'
    <2>1. ~halted /\ SendTxs(unconfirmed, FALSE) /\ FALSE \in BOOLEAN
        BY <1>3 DEF PublishWaitingTransactions
    <2>2. QED
        BY <2>1, SendTxsKept
<1>4. ASSUME NEW t \in PubTxs, Confirmed(t) PROVE PubInv'
    BY <1>0, <1>4 DEF Confirmed, PubInv, PubTypes
<1>5. ASSUME MessageRejects PROVE PubInv'
    <2>1. halted' = TRUE
        BY <1>5 DEF MessageRejects
    <2>2. QED
        BY <1>0, <1>5, <2>1 DEF MessageRejects
<1>6. ASSUME SendTxTimeout PROVE PubInv'
    <2>1. PICK t : onResults' = [onResults EXCEPT ![t] = Append(@, "timeout")]
        BY <1>6 DEF SendTxTimeout
    <2>2. /\ ~halted /\ seenTxs' = seenTxs
          /\ UNCHANGED <<sendTxOnResults, chosenNodes, getDatas>>
        BY <1>6 DEF SendTxTimeout
    <2>3. halted'
        BY <1>6 DEF SendTxTimeout
    <2>4. "timeout" \in {"none", "timeout"} /\ seenTxs \subseteq seenTxs'
        BY <2>2
    <2>5. QED
        BY <2>1, <2>2, <2>3, <2>4, LastAnswer
<1>7. QED
    BY <1>1, <1>2, <1>3, <1>4, <1>5, <1>6, TxArrivedKept, InventoryKept, TimeLimitKept DEF PublishNext

\* For any nodes, transactions and number of calls: every caller of
\* NodeManagerSendTx has been answered once for each node chosen, or still
\* waits; success is reported only of a transaction that a node announced, and
\* a timeout is the last thing that is reported.
THEOREM EachCallerAnsweredOnce == PublishSpec => []OneAnswerEach
<1>1. PublishInit => PubInv
    <2> SUFFICES ASSUME PublishInit PROVE PubInv
        OBVIOUS
    <2>1. /\ sendTxOnResults = <<>> /\ onResults = [t \in PubTxs |-> <<>>]
          /\ chosenNodes = [t \in PubTxs |-> 0] /\ getDatas = {}
        BY DEF PublishInit
    <2>2. halted = FALSE
        BY DEF PublishInit
    <2>3. PubTypes
        <3>1. <<>> \in Seq(Entries) /\ <<>> \in Seq({"none", "timeout"})
            OBVIOUS
        <3>2. QED
            BY <2>1, <2>2, <3>1 DEF PubTypes
    <2>4. ASSUME NEW t \in PubTxs
          PROVE  AnswersOf(t, onResults[t], seenTxs, sendTxOnResults, chosenNodes[t], halted)
        <3>1. onResults[t] = <<>> /\ chosenNodes[t] = 0 /\ Waits(sendTxOnResults, t) = 0
            BY <2>1, WithinEmpty DEF Waits
        <3>2. QED
            BY <3>1 DEF AnswersOf
    <2>5. QED
        BY <2>1, <2>3, <2>4, OneAnswerIs DEF PubInv
<1>2. PubInv => OneAnswerEach
    BY DEF PubInv
<1>3. QED
    BY <1>1, <1>2, PublishStep, PTL DEF PublishSpec

-----------------------------------------------------------------------------
(* The table of peers and its cache *)

\* The rows.
PeerRows == [id : Nat, ip : PeerIps, manual : BOOLEAN]

\* The database thread.
WriterType ==
    {WriterIdle} \cup [at : {"deleted", "add"}, ip : PeerIps, add : BOOLEAN]

\* The table, the list that was read, and the cache are rows; the database
\* thread works on an address unless it is idle.
PeerTypes ==
    /\ nodesTable \in Seq(PeerRows) /\ nodeListCache \in Seq(PeerRows)
    /\ lister.rows \in Seq(PeerRows)
    /\ nodeIds \in Nat
    /\ writer \in WriterType

\* Unless the two threads met between two steps that belong together: the list
\* that was selected is the table until it is cached, and the address that the
\* database thread is deleting is not in the table.
CacheFollows ==
    ~cacheRaced =>
        /\ \A r \in ToSet(nodeListCache) :
               r \in ToSet(nodesTable) \/ (writer.at = "deleted" /\ r.ip = writer.ip)
        /\ nodeListCache # <<>> /\ ~cacheBegun => ToSet(nodesTable) \subseteq ToSet(nodeListCache)
        /\ lister.at = "selected" => ToSet(lister.rows) = ToSet(nodesTable)
        /\ writer.at = "deleted" => \A r \in ToSet(nodesTable) : r.ip # writer.ip

PeerInv == PeerTypes /\ CacheFollows

\* What is left of a list of rows without those of an address.
LEMMA RowsKept ==
    ASSUME NEW s \in Seq(PeerRows), NEW ip \in PeerIps
    PROVE  /\ Within(s, RowsNotAt(ip)) \in Seq(PeerRows)
           /\ ToSet(Within(s, RowsNotAt(ip))) = {r \in ToSet(s) : r.ip # ip}
<1>1. ToSet(s) \subseteq PeerRows
    BY DEF ToSet
<1>2. \A r \in PeerRows : r \in RowsNotAt(ip) <=> r.ip # ip
    BY DEF PeerRows, RowsNotAt
<1>3. ToSet(s) \cap RowsNotAt(ip) = {r \in ToSet(s) : r.ip # ip}
    BY <1>1, <1>2
<1>4. QED
    BY <1>3, WithinType, WithinElements

\* The select has all rows of the table, manual ones first.
LEMMA SelectsAll ==
    ASSUME NEW s \in Seq(PeerRows)
    PROVE  SelectRows(s) \in Seq(PeerRows) /\ ToSet(SelectRows(s)) = ToSet(s)
<1>1. ToSet(s) \subseteq PeerRows
    BY DEF ToSet
<1>2. \A r \in PeerRows : r \in RowsBy(TRUE) \/ r \in RowsBy(FALSE)
    <2>1. ASSUME NEW r \in PeerRows PROVE r \in RowsBy(r.manual) /\ r.manual \in BOOLEAN
        BY DEF PeerRows, RowsBy
    <2>2. ASSUME NEW r \in PeerRows PROVE r.manual = TRUE \/ r.manual = FALSE
        BY <2>1
    <2>3. QED
        BY <2>1, <2>2, Zenon
<1>3. PICK m \in Seq(PeerRows), n \in Seq(PeerRows) :
          m = Within(s, RowsBy(TRUE)) /\ n = Within(s, RowsBy(FALSE))
    BY WithinType
<1>4. ToSet(m) = ToSet(s) \cap RowsBy(TRUE) /\ ToSet(n) = ToSet(s) \cap RowsBy(FALSE)
    BY <1>3, WithinElements
<1>5. m \o n \in Seq(PeerRows) /\ ToSet(m \o n) = ToSet(m) \cup ToSet(n)
    BY ElementsConcat
<1>6. SelectRows(s) = m \o n
    BY <1>3 DEF SelectRows
<1>7. QED
    BY <1>1, <1>2, <1>4, <1>5, <1>6

\* The rows that are inserted join the table and the cache.
LEMMA InsertAdds ==
    ASSUME PeerTypes, NEW ips \in Seq(PeerIps), NEW manual \in BOOLEAN, Insert(ips, manual)
    PROVE  /\ nodesTable' \in Seq(PeerRows) /\ nodeListCache' \in Seq(PeerRows) /\ nodeIds' \in Nat
           /\ cacheBegun' = (cacheBegun \/ nodeListCache = <<>>)
           /\ \E new : /\ ToSet(nodesTable') = ToSet(nodesTable) \cup new
                       /\ ToSet(nodeListCache') = ToSet(nodeListCache) \cup new
<1>1. PICK rows : rows = NewRows(ips, manual)
    OBVIOUS
<1>2. /\ nodesTable' = nodesTable \o rows
      /\ nodeListCache' = IF manual THEN rows \o nodeListCache ELSE nodeListCache \o rows
      /\ nodeIds' = nodeIds + Len(ips)
      /\ cacheBegun' = (cacheBegun \/ nodeListCache = <<>>)
    BY <1>1 DEF Insert
<1>3. /\ nodesTable \in Seq(PeerRows) /\ nodeListCache \in Seq(PeerRows) /\ nodeIds \in Nat
    BY DEF PeerTypes
<1>4. rows \in Seq(PeerRows)
    <2>1. ASSUME NEW i \in 1 .. Len(ips)
          PROVE  [id |-> nodeIds + i, ip |-> ips[i], manual |-> manual] \in PeerRows
        <3>1. nodeIds + i \in Nat /\ ips[i] \in PeerIps
            BY <1>3
        <3>2. QED
            BY <3>1 DEF PeerRows
    <2>2. Len(ips) \in Nat
        OBVIOUS
    <2>3. QED
        BY <1>1, <2>1, <2>2 DEF NewRows
<1>5. nodesTable' \in Seq(PeerRows) /\ ToSet(nodesTable') = ToSet(nodesTable) \cup ToSet(rows)
    BY <1>2, <1>3, <1>4, ElementsConcat
<1>6. nodeListCache' \in Seq(PeerRows) /\ ToSet(nodeListCache') = ToSet(nodeListCache) \cup ToSet(rows)
    <2>1. CASE manual
        BY <1>2, <1>3, <1>4, <2>1, ElementsConcat
    <2>2. CASE ~manual
        BY <1>2, <1>3, <1>4, <2>2, ElementsConcat
    <2>3. QED
        BY <2>1, <2>2
<1>7. nodeIds' \in Nat
    BY <1>2, <1>3
<1>8. QED
    BY <1>2, <1>5, <1>6, <1>7

\* DatabaseNodeList reads the cache, or selects the table and caches it.
LEMMA ListKept ==
    ASSUME PeerInv, NodeListRead \/ NodeListCached \/ NodeListEnough \/ NodeListTrimmed
    PROVE  PeerInv'
<1>0. PeerTypes /\ CacheFollows
    BY DEF PeerInv
<1>1. CASE NodeListRead
    <2>1. /\ lister' = IF nodeListCache # <<>> THEN [at |-> "listed", rows |-> nodeListCache]
                       ELSE [at |-> "selected", rows |-> SelectRows(nodesTable)]
          /\ UNCHANGED <<nodesTable, nodeListCache, nodeIds, writer>>
        BY <1>1 DEF NodeListRead
    <2>2. UNCHANGED <<cacheRaced, cacheBegun>>
        BY <1>1 DEF NodeListRead
    <2>3. /\ SelectRows(nodesTable) \in Seq(PeerRows)
          /\ ToSet(SelectRows(nodesTable)) = ToSet(nodesTable)
        BY <1>0, SelectsAll DEF PeerTypes
    <2>4. lister'.rows \in Seq(PeerRows) /\ (lister'.at = "selected" => ToSet(lister'.rows) = ToSet(nodesTable))
        BY <1>0, <2>1, <2>3 DEF PeerTypes
    <2>5. PeerTypes'
        BY <1>0, <2>1, <2>4 DEF PeerTypes
    <2>6. CacheFollows'
        BY <1>0, <2>1, <2>2, <2>4 DEF CacheFollows
    <2>7. QED
        BY <2>5, <2>6 DEF PeerInv
<1>2. CASE NodeListCached
    <2>1. /\ lister.at = "selected" /\ nodeListCache' = lister.rows
          /\ lister' = [lister EXCEPT !.at = "listed"]
          /\ UNCHANGED <<nodesTable, nodeIds, writer>>
        BY <1>2 DEF NodeListCached
    <2>2. cacheRaced' = cacheRaced
        BY <1>2 DEF NodeListCached
    <2>3. lister'.at # "selected" /\ lister'.rows = lister.rows
        BY <2>1
    <2>4. PeerTypes'
        BY <1>0, <2>1, <2>3 DEF PeerTypes
    <2>5. CacheFollows'
        <3>1. SUFFICES ASSUME ~cacheRaced PROVE CacheFollows'
            BY <2>2 DEF CacheFollows
        <3>2. ToSet(nodeListCache') = ToSet(nodesTable')
            BY <1>0, <2>1, <3>1 DEF CacheFollows
        <3>3. writer.at = "deleted" => \A r \in ToSet(nodesTable) : r.ip # writer.ip
            BY <1>0, <3>1 DEF CacheFollows
        <3>4. QED
            BY <2>1, <2>3, <3>2, <3>3 DEF CacheFollows
    <2>6. QED
        BY <2>4, <2>5 DEF PeerInv
<1>3. CASE NodeListEnough \/ NodeListTrimmed
    <2>1. /\ UNCHANGED <<nodesTable, nodeListCache, nodeIds, writer>>
          /\ lister' = ListIdle \/ lister' = [lister EXCEPT !.at = "trim"]
        BY <1>3 DEF NodeListEnough, NodeListTrimmed
    <2>2. UNCHANGED <<cacheRaced, cacheBegun>>
        BY <1>3 DEF NodeListEnough, NodeListTrimmed
    <2>3. lister.at \in {"listed", "trim"}
        BY <1>3 DEF NodeListEnough, NodeListTrimmed
    <2>4. lister'.at # "selected" /\ lister'.rows \in Seq(PeerRows)
        <3>1. CASE lister' = ListIdle
            <4>1. <<>> \in Seq(PeerRows)
                OBVIOUS
            <4>2. QED
                BY <3>1, <4>1 DEF ListIdle
        <3>2. CASE lister' = [lister EXCEPT !.at = "trim"]
            <4>1. lister'.rows = lister.rows /\ (lister'.at = "trim" \/ lister'.at = lister.at)
                BY <3>2
            <4>2. QED
                BY <1>0, <2>3, <4>1 DEF PeerTypes
        <3>3. QED
            BY <2>1, <3>1, <3>2
    <2>5. PeerTypes'
        BY <1>0, <2>1, <2>4 DEF PeerTypes
    <2>6. CacheFollows'
        BY <1>0, <2>1, <2>2, <2>4 DEF CacheFollows
    <2>7. QED
        BY <2>5, <2>6 DEF PeerInv
<1>4. QED
    BY <1>1, <1>2, <1>3

\* An insertion while neither thread is between two steps that belong together.
LEMMA InsertKept ==
    ASSUME PeerInv, NEW ips \in Seq(PeerIps), NEW manual \in BOOLEAN, Insert(ips, manual),
           cacheRaced' \/ (/\ ~cacheRaced /\ lister'.at # "selected" /\ writer'.at # "deleted"
                           /\ writer.at # "deleted"),
           lister'.rows \in Seq(PeerRows),
           writer' \in WriterType
    PROVE  PeerInv'
<1>0. PeerTypes /\ CacheFollows
    BY DEF PeerInv
<1>1. /\ nodesTable' \in Seq(PeerRows) /\ nodeListCache' \in Seq(PeerRows) /\ nodeIds' \in Nat
      /\ cacheBegun' = (cacheBegun \/ nodeListCache = <<>>)
    BY <1>0, InsertAdds
<1>2. PICK new : /\ ToSet(nodesTable') = ToSet(nodesTable) \cup new
                 /\ ToSet(nodeListCache') = ToSet(nodeListCache) \cup new
    BY <1>0, InsertAdds
<1>3. PeerTypes'
    BY <1>1 DEF PeerTypes
<1>4. CacheFollows'
    <2>1. SUFFICES ASSUME ~cacheRaced' PROVE CacheFollows'
        BY DEF CacheFollows
    <2>2. ~cacheRaced /\ lister'.at # "selected" /\ writer'.at # "deleted" /\ writer.at # "deleted"
        BY <2>1
    <2>3. ToSet(nodeListCache) \subseteq ToSet(nodesTable)
        BY <1>0, <2>2 DEF CacheFollows
    <2>4. ~cacheBegun' => ToSet(nodesTable) \subseteq ToSet(nodeListCache)
        BY <1>0, <1>1, <2>2 DEF CacheFollows
    <2>5. QED
        BY <1>2, <2>2, <2>3, <2>4 DEF CacheFollows
<1>5. QED
    BY <1>3, <1>4 DEF PeerInv

\* DatabaseRemoveNodeByIp, the table first and then the cache.
LEMMA RemoveByIpKept ==
    ASSUME PeerInv,
           RemoveByIpCache \/ \E ip \in PeerIps, add \in BOOLEAN : RemoveByIpTable(ip, add)
    PROVE  PeerInv'
<1>0. PeerTypes /\ CacheFollows
    BY DEF PeerInv
<1>00. nodesTable \in Seq(PeerRows) /\ nodeListCache \in Seq(PeerRows)
    BY <1>0 DEF PeerTypes
<1>1. ASSUME NEW ip \in PeerIps, NEW add \in BOOLEAN, RemoveByIpTable(ip, add) PROVE PeerInv'
    <2>1. /\ writer.at = "idle" /\ writer' = [at |-> "deleted", ip |-> ip, add |-> add]
          /\ nodesTable' = Within(nodesTable, RowsNotAt(ip))
          /\ UNCHANGED <<nodeListCache, nodeIds, lister>>
        BY <1>1 DEF RemoveByIpTable
    <2>2. cacheBegun' = cacheBegun /\ cacheRaced' = (cacheRaced \/ lister.at = "selected")
        BY <1>1 DEF RemoveByIpTable, Racing
    <2>3. nodesTable' \in Seq(PeerRows) /\ ToSet(nodesTable') = {r \in ToSet(nodesTable) : r.ip # ip}
        BY <1>00, <2>1, RowsKept
    <2>4. writer'.at = "deleted" /\ writer'.ip = ip
        BY <2>1
    <2>5. PeerTypes'
        <3>1. writer' \in WriterType
            BY <2>1 DEF WriterType
        <3>2. QED
            BY <1>0, <2>1, <2>3, <3>1 DEF PeerTypes
    <2>6. CacheFollows'
        <3>1. SUFFICES ASSUME ~cacheRaced' PROVE CacheFollows'
            BY DEF CacheFollows
        <3>2. ~cacheRaced /\ lister.at # "selected"
            BY <2>2, <3>1
        <3>3. ToSet(nodeListCache) \subseteq ToSet(nodesTable)
            BY <1>0, <2>1, <3>2 DEF CacheFollows
        <3>4. nodeListCache # <<>> /\ ~cacheBegun' => ToSet(nodesTable) \subseteq ToSet(nodeListCache)
            BY <1>0, <2>2, <3>2 DEF CacheFollows
        <3>5. QED
            BY <2>1, <2>3, <2>4, <3>2, <3>3, <3>4 DEF CacheFollows
    <2>7. QED
        BY <2>5, <2>6 DEF PeerInv
<1>2. ASSUME RemoveByIpCache PROVE PeerInv'
    <2>1. /\ writer.at = "deleted"
          /\ nodeListCache' = Within(nodeListCache, RowsNotAt(writer.ip))
          /\ writer' = IF writer.add THEN [writer EXCEPT !.at = "add"] ELSE WriterIdle
          /\ UNCHANGED <<nodesTable, nodeIds, lister>>
        BY <1>2 DEF RemoveByIpCache, DropCached
    <2>2. cacheBegun' = cacheBegun /\ cacheRaced' = (cacheRaced \/ lister.at = "selected")
        BY <1>2 DEF RemoveByIpCache, Racing
    <2>3. writer.ip \in PeerIps
        BY <1>0, <2>1 DEF PeerTypes, WriterType, WriterIdle
    <2>4. /\ nodeListCache' \in Seq(PeerRows)
          /\ ToSet(nodeListCache') = {r \in ToSet(nodeListCache) : r.ip # writer.ip}
        BY <1>00, <2>1, <2>3, RowsKept
    <2>5. writer'.at # "deleted" /\ writer' \in WriterType
        <3>1. writer \in [at : {"deleted", "add"}, ip : PeerIps, add : BOOLEAN]
            BY <1>0, <2>1 DEF PeerTypes, WriterType, WriterIdle
        <3>2. CASE writer.add
            <4>1. writer' = [writer EXCEPT !.at = "add"]
                BY <2>1, <3>2
            <4>2. QED
                BY <3>1, <4>1 DEF WriterType
        <3>3. CASE ~writer.add
            BY <2>1, <3>3 DEF WriterIdle, WriterType
        <3>4. QED
            BY <3>2, <3>3
    <2>6. PeerTypes'
        BY <1>0, <2>1, <2>3, <2>4, <2>5 DEF PeerTypes
    <2>7. CacheFollows'
        <3>1. SUFFICES ASSUME ~cacheRaced' PROVE CacheFollows'
            BY DEF CacheFollows
        <3>2. ~cacheRaced /\ lister.at # "selected"
            BY <2>2, <3>1
        <3>3. /\ \A r \in ToSet(nodeListCache) : r \in ToSet(nodesTable) \/ r.ip = writer.ip
              /\ \A r \in ToSet(nodesTable) : r.ip # writer.ip
            BY <1>0, <2>1, <3>2 DEF CacheFollows
        <3>4. nodeListCache' # <<>> => nodeListCache # <<>>
            BY <2>1, WithinEmpty
        <3>5. nodeListCache # <<>> /\ ~cacheBegun' => ToSet(nodesTable) \subseteq ToSet(nodeListCache)
            BY <1>0, <2>2, <3>2 DEF CacheFollows
        <3>6. QED
            BY <2>1, <2>4, <2>5, <3>2, <3>3, <3>4, <3>5 DEF CacheFollows
    <2>8. QED
        BY <2>6, <2>7 DEF PeerInv
<1>3. QED
    BY <1>1, <1>2

\* trimNodeListIfNeeded removes a row from the table and from the cache.
LEMMA RemoveNodeKept ==
    ASSUME PeerInv, NEW row, DatabaseRemoveNode(row)
    PROVE  PeerInv'
<1>0. PeerTypes /\ CacheFollows
    BY DEF PeerInv
<1>1. nodesTable \in Seq(PeerRows) /\ nodeListCache \in Seq(PeerRows)
    BY <1>0 DEF PeerTypes
<1>2. /\ nodesTable' = Within(nodesTable, RowsBut(row.id))
      /\ nodeListCache' = Within(nodeListCache, RowsBut(row.id))
      /\ lister.at = "trim" /\ UNCHANGED <<nodeIds, lister, writer>>
    BY DEF DatabaseRemoveNode
<1>3. UNCHANGED <<cacheRaced, cacheBegun>>
    BY DEF DatabaseRemoveNode
<1>4. PICK id : id = row.id
    OBVIOUS
<1>5. ASSUME NEW s \in Seq(PeerRows)
      PROVE  /\ Within(s, RowsBut(id)) \in Seq(PeerRows)
             /\ ToSet(Within(s, RowsBut(id))) = {r \in ToSet(s) : r.id # id}
    <2>1. ToSet(s) \subseteq PeerRows
        BY DEF ToSet
    <2>2. \A r \in PeerRows : r \in RowsBut(id) <=> r.id # id
        BY DEF PeerRows, RowsBut
    <2>3. ToSet(s) \cap RowsBut(id) = {r \in ToSet(s) : r.id # id}
        BY <2>1, <2>2
    <2>4. QED
        BY <2>3, WithinType, WithinElements
<1>6. /\ nodesTable' \in Seq(PeerRows) /\ nodeListCache' \in Seq(PeerRows)
      /\ ToSet(nodesTable') = {r \in ToSet(nodesTable) : r.id # id}
      /\ ToSet(nodeListCache') = {r \in ToSet(nodeListCache) : r.id # id}
    BY <1>1, <1>2, <1>4, <1>5
<1>7. nodeListCache' # <<>> => nodeListCache # <<>>
    BY <1>2, WithinEmpty
<1>8. PeerTypes'
    BY <1>0, <1>2, <1>6 DEF PeerTypes
<1>9. CacheFollows'
    <2>1. SUFFICES ASSUME ~cacheRaced PROVE CacheFollows'
        BY <1>3 DEF CacheFollows
    <2>2. /\ \A r \in ToSet(nodeListCache) :
               r \in ToSet(nodesTable) \/ (writer.at = "deleted" /\ r.ip = writer.ip)
          /\ nodeListCache # <<>> /\ ~cacheBegun => ToSet(nodesTable) \subseteq ToSet(nodeListCache)
          /\ writer.at = "deleted" => \A r \in ToSet(nodesTable) : r.ip # writer.ip
        BY <1>0, <2>1 DEF CacheFollows
    <2>3. QED
        BY <1>2, <1>3, <1>6, <1>7, <2>2 DEF CacheFollows
<1>10. QED
    BY <1>8, <1>9 DEF PeerInv

\* Every step of either thread keeps the cache in step with the table.
LEMMA PeersStep == PeerInv /\ [PeerNext]_peerVars => PeerInv'
<1> SUFFICES ASSUME PeerInv, [PeerNext]_peerVars PROVE PeerInv'
    OBVIOUS
<1>0. PeerTypes /\ CacheFollows
    BY DEF PeerInv
<1>1. CASE UNCHANGED peerVars
    BY <1>0, <1>1 DEF peerVars, PeerInv, PeerTypes, CacheFollows
<1>2. <<>> \in Seq(PeerRows) /\ TRUE \in BOOLEAN /\ FALSE \in BOOLEAN
    OBVIOUS
<1>3. ASSUME NodeListDefaults PROVE PeerInv'
    <2>1. Insert(DefaultPeers, FALSE) /\ lister' = ListIdle /\ writer' = writer
        BY <1>3 DEF NodeListDefaults
    <2>2. cacheRaced' = (cacheRaced \/ writer.at = "deleted")
        BY <1>3 DEF NodeListDefaults
    <2>3. DefaultPeers \in Seq(PeerIps) /\ writer' \in WriterType
        BY <1>0, <2>1, PeerTableAssumption DEF PeerTypes
    <2>4. lister'.at # "selected" /\ lister'.rows \in Seq(PeerRows)
        BY <1>2, <2>1 DEF ListIdle
    <2>5. cacheRaced' \/ (/\ ~cacheRaced /\ lister'.at # "selected" /\ writer'.at # "deleted"
                          /\ writer.at # "deleted")
        BY <2>1, <2>2, <2>4
    <2>6. QED
        BY <1>2, <2>1, <2>3, <2>4, <2>5, InsertKept
<1>4. ASSUME NEW ip \in PeerIps, AddManualNode(ip) PROVE PeerInv'
    <2>1. Insert(<<ip>>, TRUE) /\ lister' = lister /\ lister.at = "idle" /\ writer' = writer
        BY <1>4 DEF AddManualNode
    <2>2. cacheRaced' = (cacheRaced \/ writer.at = "deleted")
        BY <1>4 DEF AddManualNode
    <2>3. <<ip>> \in Seq(PeerIps) /\ writer' \in WriterType /\ lister'.rows \in Seq(PeerRows)
        BY <1>0, <2>1 DEF PeerTypes
    <2>4. cacheRaced' \/ (/\ ~cacheRaced /\ lister'.at # "selected" /\ writer'.at # "deleted"
                          /\ writer.at # "deleted")
        BY <2>1, <2>2
    <2>5. QED
        BY <1>2, <2>1, <2>3, <2>4, InsertKept
<1>5. ASSUME AddressAdded PROVE PeerInv'
    <2>1. /\ Insert(<<writer.ip>>, FALSE) /\ lister' = lister
          /\ writer.at = "add" /\ writer' = WriterIdle
        BY <1>5 DEF AddressAdded
    <2>2. cacheRaced' = (cacheRaced \/ lister.at = "selected")
        BY <1>5 DEF AddressAdded, Racing
    <2>3. writer.ip \in PeerIps /\ writer' \in WriterType /\ lister'.rows \in Seq(PeerRows)
        BY <1>0, <2>1 DEF PeerTypes, WriterType, WriterIdle
    <2>4. <<writer.ip>> \in Seq(PeerIps)
        BY <2>3
    <2>5. cacheRaced' \/ (/\ ~cacheRaced /\ lister'.at # "selected" /\ writer'.at # "deleted"
                          /\ writer.at # "deleted")
        BY <2>1, <2>2 DEF WriterIdle
    <2>6. QED
        BY <1>2, <2>1, <2>3, <2>4, <2>5, InsertKept
<1>6. ASSUME PeerRestart PROVE PeerInv'
    <2>1. /\ nodeListCache' = <<>> /\ lister' = ListIdle /\ writer' = WriterIdle
          /\ UNCHANGED <<nodesTable, nodeIds>>
        BY <1>6 DEF PeerRestart
    <2>2. PeerTypes'
        BY <1>0, <1>2, <2>1 DEF PeerTypes, ListIdle, WriterType
    <2>3. lister'.at # "selected" /\ writer'.at # "deleted" /\ ToSet(nodeListCache') = {}
        BY <2>1 DEF ListIdle, WriterIdle, ToSet
    <2>4. QED
        BY <2>1, <2>2, <2>3 DEF PeerInv, CacheFollows
<1>7. QED
    BY <1>1, <1>3, <1>4, <1>5, <1>6, ListKept, RemoveNodeKept, RemoveByIpKept DEF PeerNext

\* For any addresses, default peers and limits, and however the two threads
\* take turns: the cached peers are rows of the table, and all of them, but for
\* the two races that CachedPeersKnown names.
THEOREM CacheIsTable == PeerSpec => []CachedPeersKnown
<1>1. PeerInit => PeerInv
    <2> SUFFICES ASSUME PeerInit PROVE PeerInv
        OBVIOUS
    <2>1. /\ nodesTable = <<>> /\ nodeListCache = <<>> /\ nodeIds = 0
          /\ lister = ListIdle /\ writer = WriterIdle
        BY DEF PeerInit
    <2>2. <<>> \in Seq(PeerRows)
        OBVIOUS
    <2>3. PeerTypes
        BY <2>1, <2>2 DEF PeerTypes, ListIdle, WriterType
    <2>4. ToSet(nodeListCache) = {} /\ lister.at # "selected" /\ writer.at # "deleted"
        BY <2>1 DEF ListIdle, WriterIdle, ToSet
    <2>5. QED
        BY <2>1, <2>3, <2>4 DEF PeerInv, CacheFollows
<1>2. PeerInv => CachedPeersKnown
    <2>1. ToSet(nodeListCache) = {nodeListCache[i] : i \in DOMAIN nodeListCache}
        BY DEF ToSet
    <2>2. ToSet(nodesTable) = {nodesTable[i] : i \in DOMAIN nodesTable}
        BY DEF ToSet
    <2>3. QED
        BY <2>1, <2>2 DEF PeerInv, CacheFollows, CachedPeersKnown
<1>3. QED
    BY <1>1, <1>2, PeersStep, PTL DEF PeerSpec

-----------------------------------------------------------------------------
(* The web server *)

\* The lists of clients and the states of their sockets.
WebTypes ==
    /\ pending \in Seq(Clients) /\ handed \in Seq(Clients) /\ served \in Seq(Clients)
    /\ socket \in [Clients -> {"away", "waiting", "open", "closed"}]

OpenClients == {c \in Clients : socket[c] = "open"}

\* Beyond ClientsAccounted: the client that the program holds is one, and one
\* of those that were returned; a client that was returned has been accepted,
\* so that it is not accepted again.
WebInv ==
    /\ WebTypes
    /\ server = "up" =>
        /\ ClientsAccounted
        /\ handed = <<>> \/ \E c \in Clients : handed = <<c>>
        /\ ToSet(handed) \subseteq ToSet(served)
        /\ \A c \in ToSet(served) : socket[c] \in {"open", "closed"}

\* The first ready client leaves the list, which keeps the others in order.
LEMMA HandOver ==
    ASSUME NEW q \in Seq(Clients), NEW buf, HandToWorker(q, buf),
           served \in Seq(Clients), IsInjective(served), IsInjective(q),
           ToSet(q) \cap ToSet(served) = {}
    PROVE  /\ pending' \in Seq(Clients) /\ handed' \in Seq(Clients) /\ served' \in Seq(Clients)
           /\ IsInjective(pending') /\ IsInjective(served')
           /\ ToSet(pending') \cup ToSet(handed') = ToSet(q)
           /\ ToSet(pending') \cap ToSet(served') = {}
           /\ handed' = <<>> \/ \E c \in Clients : handed' = <<c>>
           /\ ToSet(handed') \subseteq ToSet(served')
           /\ ToSet(served') \subseteq ToSet(served) \cup ToSet(q)
<1> DEFINE able == {c \in Clients : buf[c] >= RequestPieces}
<1>1. PICK ready \in Seq(Clients) : ready = Ready(q, buf) /\ ToSet(ready) = ToSet(q) \cap able
    BY WithinType, WithinElements DEF Ready
<1>2. CASE ready = <<>>
    <2>1. pending' = q /\ handed' = <<>> /\ served' = served
        BY <1>1, <1>2 DEF HandToWorker
    <2>2. ToSet(<<>>) = {} /\ <<>> \in Seq(Clients)
        BY DEF ToSet
    <2>3. QED
        BY <2>1, <2>2
<1>3. CASE ready # <<>>
    <2>1. PICK c : c = ready[1]
        OBVIOUS
    <2>2. c \in Clients /\ c \in ToSet(q)
        <3>1. 1 \in DOMAIN ready
            BY <1>3
        <3>2. c \in ToSet(ready) /\ c \in Clients
            BY <2>1, <3>1 DEF ToSet
        <3>3. QED
            BY <1>1, <3>2
    <2>3. pending' = RemoveClient(q, c) /\ handed' = <<c>> /\ served' = Append(served, c)
        BY <1>1, <1>3, <2>1 DEF HandToWorker
    <2>4. /\ pending' \in Seq(Clients) /\ IsInjective(pending')
          /\ ToSet(pending') = ToSet(q) \cap (Clients \ {c})
        BY <2>3, WithinType, WithinElements, WithinDistinct DEF RemoveClient
    <2>5. ToSet(q) \subseteq Clients
        BY DEF ToSet
    <2>6. served' \in Seq(Clients) /\ IsInjective(served') /\ ToSet(served') = ToSet(served) \cup {c}
        BY <2>2, <2>3, ElementsAppend, DistinctAppend
    <2>7. handed' \in Seq(Clients) /\ ToSet(handed') = {c}
        BY <2>2, <2>3 DEF ToSet
    <2>8. QED
        BY <2>2, <2>3, <2>4, <2>5, <2>6, <2>7
<1>4. QED
    BY <1>2, <1>3

\* A list and a client that is accepted.
LEMMA AcceptedList ==
    ASSUME NEW q \in Seq(Clients), IsInjective(q), NEW new,
           new = <<>> \/ \E c \in Clients : c \notin ToSet(q) /\ new = <<c>>
    PROVE  /\ q \o new \in Seq(Clients) /\ IsInjective(q \o new)
           /\ ToSet(q \o new) = ToSet(q) \cup ToSet(new)
<1>1. CASE new = <<>>
    <2>1. q \o new = q /\ ToSet(new) = {}
        BY <1>1, ConcatEmptySeq DEF ToSet
    <2>2. QED
        BY <2>1
<1>2. ASSUME NEW c \in Clients, c \notin ToSet(q), new = <<c>>
      PROVE  /\ q \o new \in Seq(Clients) /\ IsInjective(q \o new)
             /\ ToSet(q \o new) = ToSet(q) \cup ToSet(new)
    <2>1. q \o new = Append(q, c) /\ ToSet(new) = {c}
        <3>1. <<>> \in Seq(Clients) /\ Append(<<>>, c) = <<c>> /\ q \o <<>> = q
            BY ConcatEmptySeq
        <3>2. q \o Append(<<>>, c) = Append(q \o <<>>, c)
            BY <3>1, ConcatAppend
        <3>3. ToSet(new) = {c}
            BY <1>2 DEF ToSet
        <3>4. QED
            BY <1>2, <3>1, <3>2, <3>3
    <2>2. Append(q, c) \in Seq(Clients) /\ ToSet(Append(q, c)) = ToSet(q) \cup {c}
        BY ElementsAppend
    <2>3. IsInjective(Append(q, c))
        BY <1>2, DistinctAppend
    <2>4. QED
        BY <2>1, <2>2, <2>3
<1>3. QED
    BY <1>1, <1>2

\* A round of select: clients are accepted, read, ended and handed over.
LEMMA SelectKept ==
    ASSUME WebInv, WaitSelect
    PROVE  WebInv'
<1>0. /\ server = "up" /\ handed = <<>>
      /\ pending \in Seq(Clients) /\ served \in Seq(Clients)
      /\ socket \in [Clients -> {"away", "waiting", "open", "closed"}]
      /\ IsInjective(pending) /\ IsInjective(served)
      /\ ToSet(pending) \cap ToSet(served) = {}
      /\ \A c \in ToSet(served) : socket[c] \in {"open", "closed"}
    BY DEF WaitSelect, WebInv, WebTypes, ClientsAccounted
<1>1. OpenClients = ToSet(pending)
    <2>1. ToSet(<<>>) = {}
        BY DEF ToSet
    <2>2. QED
        BY <1>0, <2>1 DEF WebInv, ClientsAccounted, OpenClients
<1>2. PICK new, ended, buf :
          /\ new \in {<<>>} \cup {<<c>> : c \in {d \in Clients : socket[d] = "waiting"}}
          /\ ended \subseteq ToSet(pending)
          /\ socket' = [c \in Clients |-> IF c \in ended THEN "closed"
                                          ELSE IF new = <<c>> THEN "open" ELSE socket[c]]
          /\ HandToWorker(RemoveEnded(pending \o new, ended), buf)
    BY DEF WaitSelect
<1>3. new = <<>> \/ \E c \in Clients : socket[c] = "waiting" /\ new = <<c>>
    BY <1>2
<1>4. new = <<>> \/ \E c \in Clients : c \notin ToSet(pending) /\ new = <<c>>
    BY <1>1, <1>3 DEF OpenClients
<1>5. PICK all : all = pending \o new
    OBVIOUS
<1>6. all \in Seq(Clients) /\ IsInjective(all) /\ ToSet(all) = ToSet(pending) \cup ToSet(new)
    BY <1>0, <1>4, <1>5, AcceptedList
<1>7. PICK q \in Seq(Clients) : q = RemoveEnded(all, ended)
    BY <1>6, WithinType DEF RemoveEnded
<1>8. IsInjective(q) /\ ToSet(q) = ToSet(all) \cap (Clients \ ended)
    BY <1>6, <1>7, WithinElements, WithinDistinct DEF RemoveEnded
<1>9. \A c : c \in ToSet(new) <=> new = <<c>>
    <2>1. CASE new = <<>>
        BY <2>1 DEF ToSet
    <2>2. ASSUME NEW d \in Clients, new = <<d>> PROVE \A c : c \in ToSet(new) <=> new = <<c>>
        <3>1. ToSet(new) = {d}
            BY <2>2 DEF ToSet
        <3>2. QED
            BY <2>2, <3>1
    <2>3. QED
        BY <1>3, <2>1, <2>2
<1>10. \A c \in ToSet(new) : c \in Clients /\ socket[c] = "waiting"
    BY <1>3, <1>9
<1>11. ToSet(q) \cap ToSet(served) = {}
    BY <1>0, <1>6, <1>8, <1>10
<1>12. /\ pending' \in Seq(Clients) /\ handed' \in Seq(Clients) /\ served' \in Seq(Clients)
       /\ IsInjective(pending') /\ IsInjective(served')
       /\ ToSet(pending') \cup ToSet(handed') = ToSet(q)
       /\ ToSet(pending') \cap ToSet(served') = {}
       /\ handed' = <<>> \/ \E c \in Clients : handed' = <<c>>
       /\ ToSet(handed') \subseteq ToSet(served')
       /\ ToSet(served') \subseteq ToSet(served) \cup ToSet(q)
    BY <1>0, <1>2, <1>5, <1>7, <1>8, <1>11, HandOver
<1>13. /\ socket' \in [Clients -> {"away", "waiting", "open", "closed"}]
       /\ \A c \in Clients : socket'[c] = IF c \in ended THEN "closed"
                                          ELSE IF c \in ToSet(new) THEN "open" ELSE socket[c]
    BY <1>0, <1>2, <1>9
<1>14. ASSUME NEW c \in Clients PROVE socket'[c] = "open" <=> c \in ToSet(q)
    <2>1. socket[c] = "open" <=> c \in ToSet(pending)
        BY <1>1 DEF OpenClients
    <2>2. QED
        BY <1>2, <1>6, <1>8, <1>10, <1>13, <2>1
<1>15. ToSet(q) \subseteq Clients /\ ToSet(served) \subseteq Clients
    BY <1>0 DEF ToSet
<1>16. {c \in Clients : socket'[c] = "open"} = ToSet(pending') \cup ToSet(handed')
    BY <1>12, <1>14, <1>15
<1>17. \A c \in ToSet(served') : socket'[c] \in {"open", "closed"}
    BY <1>0, <1>10, <1>12, <1>13, <1>14, <1>15
<1>18. QED
    BY <1>12, <1>13, <1>16, <1>17 DEF WebInv, WebTypes, ClientsAccounted

\* Every step keeps the account of the clients.
LEMMA WebStep == WebInv /\ [WebNext]_webVars => WebInv'
<1> SUFFICES ASSUME WebInv, [WebNext]_webVars PROVE WebInv'
    OBVIOUS
<1>0. /\ pending \in Seq(Clients) /\ handed \in Seq(Clients) /\ served \in Seq(Clients)
      /\ socket \in [Clients -> {"away", "waiting", "open", "closed"}]
    BY DEF WebInv, WebTypes
<1>1. ASSUME UNCHANGED <<pending, socket, handed, served, server>> PROVE WebInv'
    BY <1>1 DEF WebInv, WebTypes, ClientsAccounted
<1>2. ASSUME NEW c \in Clients, Connect(c) PROVE WebInv'
    <2>1. /\ socket[c] = "away" /\ server = "up" /\ socket' = [socket EXCEPT ![c] = "waiting"]
          /\ UNCHANGED <<pending, handed, served, server>>
        BY <1>2 DEF Connect
    <2>2. socket' \in [Clients -> {"away", "waiting", "open", "closed"}]
        BY <1>0, <2>1
    <2>3. \A d \in Clients : socket'[d] = IF d = c THEN "waiting" ELSE socket[d]
        BY <1>0, <2>1
    <2>4. {d \in Clients : socket'[d] = "open"} = {d \in Clients : socket[d] = "open"}
        BY <2>1, <2>3
    <2>5. \A d \in ToSet(served) : d \in Clients /\ d # c
        <3>1. ToSet(served) \subseteq Clients
            BY <1>0 DEF ToSet
        <3>2. QED
            BY <2>1, <3>1 DEF WebInv
    <2>6. QED
        BY <1>0, <2>1, <2>2, <2>3, <2>4, <2>5 DEF WebInv, WebTypes, ClientsAccounted
<1>3. ASSUME WaitReady PROVE WebInv'
    <2>1. /\ server = "up" /\ handed = <<>> /\ HandToWorker(pending, buffered)
          /\ UNCHANGED <<socket, server>>
        BY <1>3 DEF WaitReady
    <2>2. /\ IsInjective(pending) /\ IsInjective(served)
          /\ ToSet(pending) \cap ToSet(served) = {}
          /\ OpenClients = ToSet(pending) \cup ToSet(handed)
          /\ \A c \in ToSet(served) : socket[c] \in {"open", "closed"}
        BY <2>1 DEF WebInv, ClientsAccounted, OpenClients
    <2>3. /\ pending' \in Seq(Clients) /\ handed' \in Seq(Clients) /\ served' \in Seq(Clients)
          /\ IsInjective(pending') /\ IsInjective(served')
          /\ ToSet(pending') \cup ToSet(handed') = ToSet(pending)
          /\ ToSet(pending') \cap ToSet(served') = {}
          /\ handed' = <<>> \/ \E c \in Clients : handed' = <<c>>
          /\ ToSet(handed') \subseteq ToSet(served')
          /\ ToSet(served') \subseteq ToSet(served) \cup ToSet(pending)
        BY <1>0, <2>1, <2>2, HandOver
    <2>4. ToSet(handed) = {}
        BY <2>1 DEF ToSet
    <2>5. {c \in Clients : socket'[c] = "open"} = ToSet(pending') \cup ToSet(handed')
        BY <2>1, <2>2, <2>3, <2>4 DEF OpenClients
    <2>6. \A c \in ToSet(served') : socket'[c] \in {"open", "closed"}
        BY <2>1, <2>2, <2>3, <2>4 DEF OpenClients
    <2>7. QED
        BY <1>0, <2>1, <2>3, <2>5, <2>6 DEF WebInv, WebTypes, ClientsAccounted
<1>4. ASSUME ClientEnd PROVE WebInv'
    <2>1. /\ server = "up" /\ handed # <<>> /\ socket' = [socket EXCEPT ![handed[1]] = "closed"]
          /\ handed' = <<>> /\ UNCHANGED <<pending, served, server>>
        BY <1>4 DEF ClientEnd
    <2>2. PICK c \in Clients : handed = <<c>>
        BY <2>1 DEF WebInv
    <2>3. handed[1] = c /\ ToSet(handed) = {c} /\ ToSet(handed') = {} /\ handed' \in Seq(Clients)
        BY <2>1, <2>2 DEF ToSet
    <2>4. /\ socket' \in [Clients -> {"away", "waiting", "open", "closed"}]
          /\ \A d \in Clients : socket'[d] = IF d = c THEN "closed" ELSE socket[d]
        BY <1>0, <2>1, <2>3
    <2>5. /\ {d \in Clients : socket[d] = "open"} = ToSet(pending) \cup {c}
          /\ ToSet(pending) \cap ToSet(served) = {} /\ c \in ToSet(served)
          /\ IsInjective(pending) /\ IsInjective(served)
          /\ \A d \in ToSet(served) : socket[d] \in {"open", "closed"}
        BY <2>1, <2>3 DEF WebInv, ClientsAccounted
    <2>6. ToSet(pending) \subseteq Clients /\ ToSet(served) \subseteq Clients
        BY <1>0 DEF ToSet
    <2>7. {d \in Clients : socket'[d] = "open"} = ToSet(pending)
        BY <2>4, <2>5, <2>6
    <2>8. QED
        BY <1>0, <2>1, <2>3, <2>4, <2>5, <2>6, <2>7 DEF WebInv, WebTypes, ClientsAccounted
<1>5. ASSUME WebserverEnd PROVE WebInv'
    <2>1. /\ server' = "ended" /\ pending' = <<>> /\ UNCHANGED <<socket, handed, served>>
        BY <1>5 DEF WebserverEnd
    <2>2. <<>> \in Seq(Clients)
        OBVIOUS
    <2>3. QED
        BY <1>0, <2>1, <2>2 DEF WebInv, WebTypes
<1>6. CASE UNCHANGED webVars
    BY <1>1, <1>6 DEF webVars
<1>7. ASSUME NEW c \in Clients, Send(c) \/ HangUp(c) \/ Break(c) PROVE WebInv'
    BY <1>1, <1>7 DEF Send, HangUp, Break
<1>8. QED
    BY <1>2, <1>3, <1>4, <1>5, <1>6, <1>7, SelectKept DEF WebNext

\* For any clients, sizes of requests and limits: while the server runs no
\* client is lost, none is returned by WebserverWaitForClient twice, and the
\* sockets that are open are those of the clients that are pending or held.
THEOREM NoClientLost == WebSpec => []ClientsAccounted
<1>1. WebInit => WebInv
    <2> SUFFICES ASSUME WebInit PROVE WebInv
        OBVIOUS
    <2>1. /\ pending = <<>> /\ handed = <<>> /\ served = <<>>
          /\ socket = [c \in Clients |-> "away"]
        BY DEF WebInit
    <2>2. <<>> \in Seq(Clients) /\ IsInjective(<<>>) /\ ToSet(<<>>) = {}
        BY DEF IsInjective, ToSet
    <2>3. {c \in Clients : socket[c] = "open"} = {}
        BY <2>1
    <2>4. ClientsAccounted
        BY <2>1, <2>2, <2>3 DEF ClientsAccounted
    <2>5. QED
        BY <2>1, <2>2, <2>4 DEF WebInv, WebTypes
<1>2. WebInv => ClientsAccounted
    BY DEF WebInv, ClientsAccounted
<1>3. QED
    BY <1>1, <1>2, WebStep, PTL DEF WebSpec

-----------------------------------------------------------------------------
(* TransactionTable *)

\* The rows of both tables.
BlockRow == [hash : Nat, time : Nat]
TxRow == [height : Nat \cup {-1}, time : Nat, fee : {0, 1}, rejectCode : Nat]
TableTypes ==
    /\ clockTime \in Nat
    /\ DOMAIN blockRows \subseteq 1 .. MaxHeight
    /\ \A h \in DOMAIN blockRows : blockRows[h] \in BlockRow
    /\ IsFiniteSet(DOMAIN txRows)
    /\ \A t \in DOMAIN txRows : txRows[t] \in TxRow /\ txRows[t].time <= clockTime
    /\ DOMAIN txBlock \subseteq DOMAIN txRows

\* A transaction with a height is in a block of that height that is stored, and
\* the last block it was added with was replaced by smaller ones only.
SeenInBlock ==
    \A t \in DOMAIN txRows :
        LET h == txRows[t].height
        IN  /\ t \in DOMAIN txBlock <=> h > 0
            /\ h # 0
            /\ h > 0 => /\ h \in DOMAIN blockRows /\ txBlock[t].height = h
                        /\ txBlock[t].hash \in Nat /\ blockRows[h].hash <= txBlock[t].hash

TableInv == TableTypes /\ SeenInBlock

\* A finite set of numbers that is not empty has a largest one.
LEMMA LargestExists ==
    ASSUME NEW S, S \subseteq Nat, S # {}, NEW b \in Nat, \A x \in S : x <= b
    PROVE  Max(S) \in S /\ \A x \in S : x <= Max(S)
<1> DEFINE Bounds == {n \in Nat : \A x \in S : x <= n}
<1>1. PICK m \in Bounds : \A n \in Bounds : ~(<<n, m>> \in OpToRel(<, Nat))
    BY WFMin, NatLessThanWellFounded
<1>2. m \in Nat /\ \A x \in S : x <= m
    OBVIOUS
<1>3. \A n \in Bounds : ~(n < m)
    BY <1>1, <1>2 DEF OpToRel
<1>4. m \in S
    <2>1. SUFFICES ASSUME m \notin S PROVE FALSE
        OBVIOUS
    <2>2. \A x \in S : x <= m - 1
        BY <1>2, <2>1
    <2>3. m - 1 \in Nat
        <3>1. PICK x \in S : TRUE
            OBVIOUS
        <3>2. x \in Nat /\ x <= m - 1
            BY <2>2
        <3>3. QED
            BY <1>2, <3>2
    <2>4. m - 1 \in Bounds
        BY <2>2, <2>3
    <2>5. QED
        BY <1>2, <1>3, <2>4
<1>5. \E x \in S : \A y \in S : x >= y
    BY <1>2, <1>4
<1>6. Max(S) \in S /\ \A y \in S : Max(S) >= y
    BY <1>5 DEF Max
<1>7. QED
    BY <1>6

\* So has a finite one.
LEMMA LargestOfFinite ==
    ASSUME NEW S, S \subseteq Nat, S # {}, IsFiniteSet(S)
    PROVE  Max(S) \in S
<1> DEFINE Bounded(U) == \E b \in Nat : \A x \in U : x <= b
           Bad == {n \in Nat : \E U \in SUBSET Nat :
                       IsFiniteSet(U) /\ Cardinality(U) = n /\ ~Bounded(U)}
<1>1. SUFFICES Bad = {}
    <2>1. ASSUME Bad = {} PROVE \E b \in Nat : \A x \in S : x <= b
        BY <2>1, FS_CardinalityType
    <2>2. QED
        BY <2>1, LargestExists
<1>2. SUFFICES ASSUME Bad # {} PROVE FALSE
    OBVIOUS
<1>3. PICK n \in Bad : \A m \in Bad : ~(<<m, n>> \in OpToRel(<, Nat))
    BY <1>2, WFMin, NatLessThanWellFounded
<1>4. n \in Nat /\ \A m \in Bad : ~(m < n)
    BY <1>3 DEF OpToRel
<1>5. PICK U \in SUBSET Nat : IsFiniteSet(U) /\ Cardinality(U) = n /\ ~Bounded(U)
    OBVIOUS
<1>6. U # {}
    BY <1>5
<1>7. PICK x \in U : TRUE
    BY <1>6
<1>8. PICK V : V = U \ {x}
    OBVIOUS
<1>9. IsFiniteSet(V) /\ Cardinality(V) = n - 1 /\ n - 1 \in Nat /\ V \in SUBSET Nat
    <2>1. IsFiniteSet(V) /\ Cardinality(V) = Cardinality(U) - 1
        BY <1>5, <1>7, <1>8, FS_RemoveElement
    <2>2. Cardinality(V) \in Nat
        BY <2>1, FS_CardinalityType
    <2>3. V \in SUBSET Nat
        BY <1>8
    <2>4. QED
        BY <1>5, <2>1, <2>2, <2>3
<1>10. Bounded(V)
    <2>1. n - 1 < n
        BY <1>4
    <2>2. n - 1 \notin Bad
        BY <1>4, <1>9, <2>1
    <2>3. QED
        BY <1>9, <2>2
<1>11. PICK b \in Nat : \A y \in V : y <= b
    BY <1>10
<1>12. \A y \in U : y <= b + x
    BY <1>7, <1>8, <1>11
<1>13. QED
    BY <1>5, <1>7, <1>12

\* The sum of the fees of transactions that all have the fee 1.
LEMMA SumOfOnes ==
    ASSUME NEW S, IsFiniteSet(S), \A t \in S : txRows[t].fee = 1
    PROVE  TotalFee(S) = Cardinality(S)
<1> DEFINE Parts == SUBSET S
           some(U) == CHOOSE x \in U : TRUE
           Body(g) == [U \in Parts |->
                          IF U = {} THEN 0 ELSE g[U \ {some(U)}] + txRows[some(U)].fee]
           iter == CHOOSE g : g = Body(g)
           sizes == [U \in Parts |-> Cardinality(U)]
<1>0. S \in Parts
    OBVIOUS
<1>1. TotalFee(S) = iter[S]
    BY Zenon DEF TotalFee, FoldSet, MapThenFoldSet
<1>2. \A U \in Parts :
          /\ IsFiniteSet(U) /\ Cardinality(U) \in Nat
          /\ Cardinality(U) = 0 <=> U = {}
    BY FS_Subset, FS_CardinalityType, FS_EmptySet
<1>3. \A U \in Parts : U # {} =>
          /\ some(U) \in U /\ txRows[some(U)].fee = 1
          /\ U \ {some(U)} \in Parts
          /\ Cardinality(U \ {some(U)}) = Cardinality(U) - 1
    <2>1. ASSUME NEW U \in Parts, U # {}
          PROVE  some(U) \in U /\ U \ {some(U)} \in Parts /\ txRows[some(U)].fee = 1
        <3>1. some(U) \in U
            BY <2>1
        <3> HIDE DEF some
        <3>2. QED
            BY <3>1
    <2> HIDE DEF Parts, some
    <2>2. ASSUME NEW U \in Parts, U # {}
          PROVE  Cardinality(U \ {some(U)}) = Cardinality(U) - 1
        <3>1. IsFiniteSet(U)
            BY <1>2
        <3>2. PICK x : x = some(U)
            OBVIOUS
        <3>3. x \in U
            BY <2>1, <2>2, <3>2
        <3>4. Cardinality(U \ {x}) = Cardinality(U) - 1
            BY <3>1, <3>3, FS_RemoveElement
        <3>5. QED
            BY <3>2, <3>4
    <2>3. QED
        BY <2>1, <2>2
<1> HIDE DEF some, Parts
<1>4. sizes = Body(sizes)
    <2>1. ASSUME NEW U \in Parts
          PROVE  sizes[U] = IF U = {} THEN 0 ELSE sizes[U \ {some(U)}] + txRows[some(U)].fee
        <3>1. Cardinality(U) \in Nat /\ (Cardinality(U) = 0 <=> U = {}) /\ sizes[U] = Cardinality(U)
            BY <1>2
        <3>2. ASSUME U # {}
              PROVE  /\ sizes[U \ {some(U)}] = Cardinality(U) - 1
                     /\ txRows[some(U)].fee = 1
            BY <1>3, <3>2
        <3> HIDE DEF sizes
        <3>3. QED
            BY <3>1, <3>2
    <2>2. sizes = [U \in Parts |-> sizes[U]]
        OBVIOUS
    <2> HIDE DEF sizes
    <2>3. QED
        BY <2>1, <2>2, Zenon
<1>5. iter = Body(iter)
    <2>1. \E g : g = Body(g)
        BY <1>4
    <2> HIDE DEF Body
    <2>2. QED
        BY <2>1
<1>6. PICK f : f = Body(f) /\ TotalFee(S) = f[S]
    BY <1>1, <1>5
<1> HIDE DEF iter
<1>7. \A U \in Parts : f[U] = Cardinality(U)
    <2> DEFINE Bad == {n \in Nat : \E U \in Parts : Cardinality(U) = n /\ f[U] # n}
    <2>1. SUFFICES ASSUME Bad # {} PROVE FALSE
        <3>1. ASSUME NEW U \in Parts, f[U] # Cardinality(U) PROVE Cardinality(U) \in Bad
            <4>1. Cardinality(U) \in Nat
                BY <1>2
            <4>2. QED
                BY <3>1, <4>1
        <3>2. QED
            BY <3>1
    <2>2. PICK n \in Bad : \A m \in Bad : ~(<<m, n>> \in OpToRel(<, Nat))
        BY <2>1, WFMin, NatLessThanWellFounded
    <2>3. n \in Nat /\ \A m \in Bad : ~(m < n)
        BY <2>2 DEF OpToRel
    <2>4. PICK U \in Parts : Cardinality(U) = n /\ f[U] # n
        OBVIOUS
    <2>5. f[U] = IF U = {} THEN 0 ELSE f[U \ {some(U)}] + txRows[some(U)].fee
        BY <1>6
    <2>6. U # {}
        BY <1>2, <2>4, <2>5
    <2>7. /\ U \ {some(U)} \in Parts /\ Cardinality(U \ {some(U)}) = n - 1
          /\ txRows[some(U)].fee = 1 /\ n - 1 \in Nat
        <3>1. /\ U \ {some(U)} \in Parts /\ txRows[some(U)].fee = 1
              /\ Cardinality(U \ {some(U)}) = Cardinality(U) - 1
            BY <1>3, <2>6
        <3>2. PICK V \in Parts : V = U \ {some(U)}
            BY <3>1
        <3>3. Cardinality(V) \in Nat
            BY <1>2
        <3>4. QED
            BY <2>4, <3>1, <3>2, <3>3
    <2>8. f[U \ {some(U)}] = n - 1
        BY <2>3, <2>7
    <2>9. QED
        BY <2>3, <2>4, <2>5, <2>6, <2>7, <2>8
<1>8. QED
    <2>1. f[S] = Cardinality(S)
        BY <1>0, <1>7
    <2>2. QED
        BY <1>6, <2>1

\* What is averaged is 1, and so is every fee that may raise it.
LEMMA FeeBounded ==
    ASSUME TableTypes
    PROVE  DatabaseEstimateFee(1) <= 1
<1> DEFINE counted == {t \in DOMAIN txRows : txRows[t].fee # 0 /\ txRows[t].rejectCode = 0}
           mined == {t \in counted : TransactionTimeDelta(t).confirmed}
           late == {t \in counted \ mined : TransactionTimeDelta(t).delta > 1}
           total == TotalFee(mined)
           estimate == {total \div Cardinality(mined)} \cup {txRows[t].fee : t \in late}
<1>1. DatabaseEstimateFee(1) = IF mined = {} THEN 0 ELSE Max(estimate)
    BY DEF DatabaseEstimateFee
<1>2. \A t \in counted : txRows[t].fee = 1
    BY DEF TableTypes, TxRow
<1>3. IsFiniteSet(mined)
    BY FS_Subset DEF TableTypes
<1>4. mined \subseteq counted /\ late \subseteq counted
    OBVIOUS
<1>5. total = Cardinality(mined)
    <2>1. \A t \in mined : txRows[t].fee = 1
        BY <1>2, <1>4
    <2> HIDE DEF mined
    <2>2. QED
        BY <1>3, <2>1, SumOfOnes
<1> HIDE DEF counted, mined, late, total
<1>6. CASE mined # {}
    <2>1. Cardinality(mined) \in Nat \ {0}
        BY <1>3, <1>6, FS_EmptySet, FS_CardinalityType
    <2>2. total \div Cardinality(mined) = 1
        BY <1>5, <2>1
    <2>3. \A x \in estimate : x = 1
        BY <1>2, <1>4, <2>2
    <2>4. 1 \in estimate
        BY <2>2
    <2> HIDE DEF estimate
    <2>5. Max(estimate) \in estimate
        BY <2>3, <2>4, LargestExists
    <2>6. QED
        BY <1>1, <1>6, <2>3, <2>5
<1>7. QED
    BY <1>1, <1>6

\* The invariant says what the property does.
LEMMA TableInvSuffices ==
    ASSUME TableInv
    PROVE  ConfirmationKept
<1>1. ASSUME NEW t \in DOMAIN txRows
      PROVE  LET h == DatabaseTransactionHeight(t)
             IN  /\ t \in DOMAIN txBlock <=> h > 0
                 /\ h > 0 => /\ h = txBlock[t].height
                             /\ DatabaseConfirmations(t) \in 1 .. DatabaseHighestHeight(blockRows)
                             /\ t \notin DatabaseTransactionsToPublish
                             /\ TransactionTimeDelta(t).confirmed
                             /\ DatabaseHashOf(blockRows, h) <= txBlock[t].hash
                 /\ DatabaseTransactionTime(t) <= clockTime
                 /\ t \in DatabaseTransactionsToPublish => DatabaseConfirmations(t) = -1
    <2> DEFINE h == txRows[t].height
    <2>1. txRows[t] \in TxRow /\ txRows[t].time <= clockTime /\ h \in Nat \cup {-1}
        BY DEF TableInv, TableTypes, TxRow
    <2>2. /\ t \in DOMAIN txBlock <=> h > 0
          /\ h # 0
          /\ h > 0 => /\ h \in DOMAIN blockRows /\ txBlock[t].height = h
                      /\ blockRows[h].hash <= txBlock[t].hash
        BY DEF TableInv, SeenInBlock
    <2>3. DatabaseTransactionHeight(t) = h /\ DatabaseTransactionTime(t) <= clockTime
        BY <2>1 DEF DatabaseTransactionHeight, DatabaseTransactionTime
    <2> HIDE DEF h
    <2>4. t \in DatabaseTransactionsToPublish <=> h < 1 /\ txRows[t].time > clockTime - PublishTime
        BY DEF DatabaseTransactionsToPublish, h
    <2>5. TransactionTimeDelta(t).confirmed = (h \in DOMAIN blockRows)
        BY DEF TransactionTimeDelta, h
    <2>6. CASE h > 0
        <3>1. DOMAIN blockRows \subseteq 1 .. MaxHeight /\ h \in DOMAIN blockRows /\ MaxHeight \in Nat
            BY <2>2, <2>6, TransactionTableAssumption DEF TableInv, TableTypes
        <3>2. \A x \in DOMAIN blockRows : x \in Nat /\ x >= 1 /\ x <= MaxHeight
            BY <3>1
        <3>3. PICK H : H = DOMAIN blockRows
            OBVIOUS
        <3>4. H \subseteq Nat /\ H # {} /\ \A x \in H : x <= MaxHeight
            BY <3>1, <3>2, <3>3
        <3>5. Max(H) \in H /\ \A x \in H : x <= Max(H)
            BY <3>1, <3>4, LargestExists
        <3>6. DatabaseHighestHeight(blockRows) = Max(H) /\ Max(H) \in Nat /\ h <= Max(H) /\ h >= 1
            BY <3>1, <3>2, <3>3, <3>4, <3>5 DEF DatabaseHighestHeight, MaxOrZero
        <3>7. DatabaseConfirmations(t) = Max(H) + 1 - h
            BY <2>1, <2>3, <2>6, <3>6 DEF DatabaseConfirmations
        <3>8. DatabaseConfirmations(t) \in 1 .. DatabaseHighestHeight(blockRows)
            BY <3>2, <3>1, <3>6, <3>7
        <3>9. DatabaseHashOf(blockRows, h) = blockRows[h].hash
            BY <3>1 DEF DatabaseHashOf
        <3>10. t \notin DatabaseTransactionsToPublish
            BY <2>4, <3>1, <3>2
        <3>11. QED
            BY <2>2, <2>3, <2>5, <2>6, <3>1, <3>8, <3>9, <3>10
    <2>7. CASE h = -1
        <3>1. DatabaseConfirmations(t) = -1 /\ ~(h > 0)
            BY <2>3, <2>7 DEF DatabaseConfirmations
        <3>2. QED
            BY <2>2, <2>3, <3>1
    <2>8. QED
        BY <2>1, <2>2, <2>6, <2>7 DEF h
<1>2. DatabaseEstimateFee(1) <= 1
    BY FeeBounded DEF TableInv
<1>3. QED
    BY <1>1, <1>2 DEF ConfirmationKept

\* Initially blocks may be stored already, and no transaction is.
LEMMA TableStarts ==
    ASSUME TableInit
    PROVE  TableInv
<1>1. Max(BlockIds) \in Nat
    BY LargestOfFinite, TransactionTableAssumption
<1>2. PICK H \in SUBSET (2 .. MaxHeight) : blockRows \in [H -> {[hash |-> Max(BlockIds), time |-> 1]}]
    BY DEF TableInit
<1>3. \A h \in DOMAIN blockRows : blockRows[h] \in BlockRow
    BY <1>1, <1>2 DEF BlockRow
<1>4. DOMAIN blockRows \subseteq 1 .. MaxHeight
    BY <1>2
<1>5. clockTime \in Nat /\ DOMAIN txRows = {} /\ DOMAIN txBlock = {}
    BY DEF TableInit, NoRows
<1>6. QED
    BY <1>3, <1>4, <1>5, FS_EmptySet DEF TableInv, TableTypes, SeenInBlock

\* A block is added, or replaces a larger one; it keeps its height either way.
LEMMA BlockStoredKeeps ==
    ASSUME TableInv, NEW h \in 1 .. MaxHeight, NEW b \in BlockIds, BlockStored(h, b)
    PROVE  TableInv'
<1>1. /\ blockRows' = [x \in DOMAIN blockRows \cup {h} |->
                          IF x = h THEN [hash |-> b, time |-> clockTime] ELSE blockRows[x]]
      /\ h \in DOMAIN blockRows => b < blockRows[h].hash
      /\ txRows' = txRows /\ clockTime' = clockTime /\ txBlock' = txBlock
    BY DEF BlockStored, WithEntry
<1>2. b \in Nat /\ clockTime \in Nat
    BY TransactionTableAssumption DEF TableInv, TableTypes
<1>3. /\ DOMAIN blockRows' = DOMAIN blockRows \cup {h}
      /\ \A x \in DOMAIN blockRows' :
            blockRows'[x] = IF x = h THEN [hash |-> b, time |-> clockTime] ELSE blockRows[x]
    BY <1>1
<1>4. \A x \in DOMAIN blockRows : blockRows[x] \in BlockRow
    BY DEF TableInv, TableTypes
<1>5. \A x \in DOMAIN blockRows' : blockRows'[x] \in BlockRow
    BY <1>2, <1>3, <1>4 DEF BlockRow
<1>6. TableTypes'
    BY <1>1, <1>3, <1>5 DEF TableInv, TableTypes
<1>7. \A x \in DOMAIN blockRows : blockRows'[x].hash <= blockRows[x].hash
    BY <1>1, <1>2, <1>3, <1>4 DEF BlockRow
<1>8. ASSUME NEW t \in DOMAIN txRows, txRows[t].height > 0
      PROVE  /\ txRows[t].height \in DOMAIN blockRows'
             /\ blockRows'[txRows[t].height].hash <= txBlock[t].hash
    <2>1. PICK x \in DOMAIN blockRows : x = txRows[t].height
        BY <1>8 DEF TableInv, SeenInBlock
    <2>2. blockRows[x].hash <= txBlock[t].hash /\ txBlock[t].hash \in Nat
        BY <1>8, <2>1 DEF TableInv, SeenInBlock
    <2>3. x \in DOMAIN blockRows' /\ blockRows'[x] \in BlockRow
        BY <1>3, <1>5
    <2>4. QED
        BY <1>4, <1>7, <2>1, <2>2, <2>3 DEF BlockRow
<1>9. SeenInBlock'
    BY <1>1, <1>8 DEF TableInv, SeenInBlock
<1>10. QED
    BY <1>6, <1>9 DEF TableInv

\* A row that changed, or is new, while the others and the blocks stay.
LEMMA RowKeeps ==
    ASSUME TableInv, NEW t, NEW row \in TxRow,
           blockRows' = blockRows, clockTime' = clockTime,
           txRows' = [x \in DOMAIN txRows \cup {t} |-> IF x = t THEN row ELSE txRows[x]],
           DOMAIN txBlock' \subseteq DOMAIN txRows \cup {t},
           \A x \in DOMAIN txRows \ {t} :
               /\ x \in DOMAIN txBlock' <=> x \in DOMAIN txBlock
               /\ x \in DOMAIN txBlock => txBlock'[x] = txBlock[x],
           row.time <= clockTime, row.height # 0,
           t \in DOMAIN txBlock' <=> row.height > 0,
           row.height > 0 => /\ row.height \in DOMAIN blockRows /\ txBlock'[t].height = row.height
                             /\ txBlock'[t].hash \in Nat
                             /\ blockRows[row.height].hash <= txBlock'[t].hash
    PROVE  TableInv'
<1>1. /\ DOMAIN txRows' = DOMAIN txRows \cup {t}
      /\ txRows'[t] = row
      /\ \A x \in DOMAIN txRows \ {t} : txRows'[x] = txRows[x]
    OBVIOUS
<1>2. IsFiniteSet(DOMAIN txRows')
    BY <1>1, FS_AddElement DEF TableInv, TableTypes
<1>3. \A x \in DOMAIN txRows' : txRows'[x] \in TxRow /\ txRows'[x].time <= clockTime
    BY <1>1 DEF TableInv, TableTypes
<1>4. TableTypes'
    BY <1>1, <1>2, <1>3 DEF TableInv, TableTypes
<1>5. ASSUME NEW x \in DOMAIN txRows \ {t}
      PROVE  LET h == txRows'[x].height
             IN  /\ x \in DOMAIN txBlock' <=> h > 0
                 /\ h # 0
                 /\ h > 0 => /\ h \in DOMAIN blockRows /\ txBlock'[x].height = h
                             /\ txBlock'[x].hash \in Nat
                             /\ blockRows[h].hash <= txBlock'[x].hash
    BY <1>1 DEF TableInv, SeenInBlock
<1>6. SeenInBlock'
    BY <1>1, <1>5 DEF SeenInBlock
<1>7. QED
    BY <1>4, <1>6 DEF TableInv

\* A transaction is added, in a block or outside of one.
LEMMA AddTransactionKeeps ==
    ASSUME TableInv, NEW t \in TableTxs, NEW h \in -1 .. MaxHeight, AddTransaction(t, h)
    PROVE  TableInv'
<1>0. /\ h = -1 \/ h \in DOMAIN blockRows
      /\ h \in Nat \cup {-1} /\ h # 0
      /\ clockTime \in Nat /\ DOMAIN txBlock \subseteq DOMAIN txRows
    BY TransactionTableAssumption DEF AddTransaction, TableInv, TableTypes
<1>1. h \in DOMAIN blockRows => blockRows[h].hash \in Nat /\ blockRows[h].time \in Nat
    BY DEF TableInv, TableTypes, BlockRow
<1>2. /\ blockRows' = blockRows /\ clockTime' = clockTime
      /\ txBlock' = IF h > 0 THEN WithEntry(txBlock, t, [height |-> h, hash |-> blockRows[h].hash])
                    ELSE txBlock
    BY DEF AddTransaction
<1>3. h > 0 => /\ DOMAIN txBlock' = DOMAIN txBlock \cup {t}
               /\ txBlock'[t] = [height |-> h, hash |-> blockRows[h].hash]
               /\ \A x \in DOMAIN txBlock \ {t} : txBlock'[x] = txBlock[x]
    BY <1>2 DEF WithEntry
<1>4. \A x \in DOMAIN txRows \ {t} :
          /\ x \in DOMAIN txBlock' <=> x \in DOMAIN txBlock
          /\ x \in DOMAIN txBlock => txBlock'[x] = txBlock[x]
    BY <1>2, <1>3
<1>5. DOMAIN txBlock' \subseteq DOMAIN txRows \cup {t}
    BY <1>0, <1>2, <1>3
<1>6. h > 0 => /\ t \in DOMAIN txBlock' /\ txBlock'[t].height = h
               /\ txBlock'[t].hash = blockRows[h].hash
    BY <1>3
<1>7. CASE t \notin DOMAIN txRows
    <2> DEFINE row == [height |-> h, time |-> clockTime, fee |-> 0, rejectCode |-> 0]
    <2>1. row \in TxRow /\ row.time <= clockTime /\ row.height = h
        BY <1>0 DEF TxRow
    <2>2. txRows' = [x \in DOMAIN txRows \cup {t} |-> IF x = t THEN row ELSE txRows[x]]
        BY <1>7 DEF AddTransaction, WithEntry
    <2>3. ~(h > 0) => t \notin DOMAIN txBlock'
        BY <1>0, <1>2, <1>7
    <2> HIDE DEF row
    <2>4. h > 0 => h \in DOMAIN blockRows
        BY <1>0
    <2>5. QED
        BY <1>0, <1>1, <1>2, <1>4, <1>5, <1>6, <2>1, <2>2, <2>3, <2>4, RowKeeps
<1>8. CASE t \in DOMAIN txRows
    <2> DEFINE time == EarlierTime(txRows[t].time, TimeOfHeight(blockRows, h))
               row == [txRows[t] EXCEPT !.height = h, !.time = time]
    <2>1. h > 0 /\ h \in DOMAIN blockRows
        BY <1>0, <1>8 DEF AddTransaction, Updates
    <2>2. txRows' = [txRows EXCEPT ![t].height = h, ![t].time = time]
        BY <1>8 DEF AddTransaction
    <2>3. txRows[t] \in TxRow /\ txRows[t].time <= clockTime
        BY <1>8 DEF TableInv, TableTypes
    <2>4. time \in Nat /\ time <= clockTime
        BY <1>0, <1>1, <2>1, <2>3 DEF EarlierTime, TimeOfHeight, TxRow
    <2> HIDE DEF time
    <2>5. row \in TxRow /\ row.time = time /\ row.height = h
        BY <1>0, <2>3, <2>4 DEF TxRow
    <2>6. txRows' = [x \in DOMAIN txRows \cup {t} |-> IF x = t THEN row ELSE txRows[x]]
        BY <1>8, <2>2, <2>3 DEF TxRow
    <2> HIDE DEF row
    <2>7. QED
        BY <1>1, <1>2, <1>4, <1>5, <1>6, <2>1, <2>4, <2>5, <2>6, RowKeeps
<1>9. QED
    BY <1>7, <1>8

\* What only changes the fees or the codes of rows.
LEMMA RowsAlike ==
    ASSUME TableInv, blockRows' = blockRows, clockTime' = clockTime, txBlock' = txBlock,
           DOMAIN txRows' = DOMAIN txRows,
           \A x \in DOMAIN txRows : /\ txRows'[x] \in TxRow
                                    /\ txRows'[x].height = txRows[x].height
                                    /\ txRows'[x].time = txRows[x].time
    PROVE  TableInv'
<1>1. TableTypes'
    BY DEF TableInv, TableTypes
<1>2. SeenInBlock'
    BY DEF TableInv, SeenInBlock
<1>3. QED
    BY <1>1, <1>2 DEF TableInv

\* Fees are recorded.
LEMMA FeesKeep ==
    ASSUME TableInv, NEW interesting, NEW funded, UpdateTransactionFees(interesting, funded)
    PROVE  TableInv'
<1>1. /\ blockRows' = blockRows /\ clockTime' = clockTime /\ txBlock' = txBlock
      /\ DOMAIN txRows' = DOMAIN txRows
      /\ \A x \in DOMAIN txRows : \/ txRows'[x] = txRows[x]
                                  \/ txRows'[x] = [txRows[x] EXCEPT !.fee = CalculateTransactionFee(x, funded)]
    BY DEF UpdateTransactionFees, DatabaseRecordTransactionFee
<1>2. ASSUME NEW x \in DOMAIN txRows
      PROVE  /\ txRows'[x] \in TxRow
             /\ txRows'[x].height = txRows[x].height /\ txRows'[x].time = txRows[x].time
    <2>1. txRows[x] \in TxRow
        BY DEF TableInv, TableTypes
    <2>2. PICK fee \in {0, 1} : fee = CalculateTransactionFee(x, funded)
        BY DEF CalculateTransactionFee
    <2>3. QED
        BY <1>1, <2>1, <2>2 DEF TxRow
<1>3. QED
    BY <1>1, <1>2, RowsAlike

\* A rejection is noted.
LEMMA SetTransactionKeeps ==
    ASSUME TableInv, NEW t, NEW code \in Nat, DatabaseSetTransaction(t, code)
    PROVE  TableInv'
<1>1. /\ blockRows' = blockRows /\ clockTime' = clockTime /\ txBlock' = txBlock
      /\ txRows' = [txRows EXCEPT ![t].rejectCode = code]
    BY DEF DatabaseSetTransaction
<1>2. DOMAIN txRows' = DOMAIN txRows
    BY <1>1
<1>3. ASSUME NEW x \in DOMAIN txRows
      PROVE  /\ txRows'[x] \in TxRow
             /\ txRows'[x].height = txRows[x].height /\ txRows'[x].time = txRows[x].time
    BY <1>1 DEF TableInv, TableTypes, TxRow
<1>4. QED
    BY <1>1, <1>2, <1>3, RowsAlike

\* A transaction is deleted, from the table and from what is remembered of it.
LEMMA DeleteTransactionKeeps ==
    ASSUME TableInv, NEW t, DatabaseDeleteTransaction(t)
    PROVE  TableInv'
<1>1. /\ blockRows' = blockRows /\ clockTime' = clockTime
      /\ DOMAIN txRows' = DOMAIN txRows \ {t} /\ DOMAIN txBlock' = DOMAIN txBlock \ {t}
      /\ \A x \in DOMAIN txRows' : txRows'[x] = txRows[x]
      /\ \A x \in DOMAIN txBlock' : txBlock'[x] = txBlock[x]
    BY DEF DatabaseDeleteTransaction, WithoutEntry
<1>2. IsFiniteSet(DOMAIN txRows')
    BY <1>1, FS_RemoveElement DEF TableInv, TableTypes
<1>3. TableTypes'
    BY <1>1, <1>2 DEF TableInv, TableTypes
<1>4. ASSUME NEW x \in DOMAIN txRows'
      PROVE  LET h == txRows'[x].height
             IN  /\ x \in DOMAIN txBlock' <=> h > 0
                 /\ h # 0
                 /\ h > 0 => /\ h \in DOMAIN blockRows /\ txBlock'[x].height = h
                             /\ txBlock'[x].hash \in Nat
                             /\ blockRows[h].hash <= txBlock'[x].hash
    BY <1>1 DEF TableInv, SeenInBlock
<1>5. SeenInBlock'
    BY <1>1, <1>4 DEF SeenInBlock
<1>6. QED
    BY <1>3, <1>5 DEF TableInv

\* Every step keeps the invariant.
LEMMA TableStepKeeps ==
    ASSUME TableInv, [TableNext]_tableVars
    PROVE  TableInv'
<1>1. CASE ClockTicks
    <2>1. clockTime' = clockTime + 1 /\ blockRows' = blockRows /\ txRows' = txRows /\ txBlock' = txBlock
        BY <1>1 DEF ClockTicks
    <2>2. \A x \in DOMAIN txRows : txRows[x].time \in Nat /\ txRows[x].time <= clockTime + 1
        BY DEF TableInv, TableTypes, TxRow
    <2>3. TableTypes'
        BY <2>1, <2>2 DEF TableInv, TableTypes
    <2>4. QED
        BY <2>1, <2>3 DEF TableInv, SeenInBlock
<1>2. CASE ResetTables
    <2>1. /\ DOMAIN blockRows' = {} /\ DOMAIN txRows' = {} /\ DOMAIN txBlock' = {}
          /\ clockTime' = clockTime
        BY <1>2 DEF ResetTables, NoRows
    <2>2. QED
        BY <2>1, FS_EmptySet DEF TableInv, TableTypes, SeenInBlock
<1>3. CASE \E h \in 1 .. MaxHeight, b \in BlockIds : BlockStored(h, b)
    BY <1>3, BlockStoredKeeps
<1>4. CASE \E t \in TableTxs : \/ \E h \in -1 .. MaxHeight : AddTransaction(t, h)
                               \/ DatabaseDeleteTransaction(t)
                               \/ DatabaseSetTransaction(t, 16)
    BY <1>4, AddTransactionKeeps, DeleteTransactionKeeps, SetTransactionKeeps
<1>5. CASE \E interesting, funded \in SUBSET TableTxs : UpdateTransactionFees(interesting, funded)
    BY <1>5, FeesKeep
<1>6. CASE UNCHANGED tableVars
    BY <1>6 DEF tableVars, TableInv, TableTypes, SeenInBlock
<1>7. QED
    BY <1>1, <1>2, <1>3, <1>4, <1>5, <1>6 DEF TableNext

\* A transaction that was seen in a block stays confirmed, at the height of the
\* last one, and is not published again, for any number of transactions,
\* heights and hashes, and whatever adds, replaced blocks, deletions, recorded
\* fees and resets come in between (DatabaseAddTransaction, DatabaseAddBlock).
THEOREM TransactionsStayConfirmed == TableSpec => []ConfirmationKept
<1>1. TableInit => TableInv
    BY TableStarts
<1>2. TableInv /\ [TableNext]_tableVars => TableInv'
    BY TableStepKeeps
<1>3. TableInv => ConfirmationKept
    BY TableInvSuffices
<1>4. QED
    BY <1>1, <1>2, <1>3, PTL DEF TableSpec

-----------------------------------------------------------------------------
(* WalletLedger *)

\* A set of numbers that is not empty has a least one, and it is its minimum.
LEMMA LeastIsMin ==
    ASSUME NEW S \in SUBSET Nat, S # {}
    PROVE  Min(S) \in S /\ \A y \in S : Min(S) <= y
<1>1. \E x \in S : \A y \in S : ~(<<y, x>> \in OpToRel(<, Nat))
    BY WFMin, NatLessThanWellFounded
<1>2. PICK x \in S : \A y \in S : ~(<<y, x>> \in OpToRel(<, Nat))
    BY <1>1
<1>3. \A y \in S : ~(y < x)
    BY <1>2 DEF OpToRel
<1>4. \A y \in S : x <= y
    BY <1>3
<1> QED
    BY <1>4 DEF Min

\* Where a scan over the addresses of a chain ends: with 0 or a used address,
\* that no other follows closely, and with the first such.
LEMMA ScanResult ==
    ASSUME NEW m \in Nat, NEW used \in SUBSET (0 .. m), NEW i \in Nat
    PROVE  /\ ScanUsed(i, used) \in Nat
           /\ \/ ScanUsed(i, used) = 0
              \/ ScanUsed(i, used) \in used /\ ScanUsed(i, used) >= i
           /\ ScanEnds(i, ScanUsed(i, used), used)
           /\ \A y \in {0} \cup {u \in used : u >= i} :
                 ScanEnds(i, y, used) => ScanUsed(i, used) <= y
<1> DEFINE Visited == {0} \cup {u \in used : u >= i}
           Ends == {x \in Visited : ScanEnds(i, x, used)}
<1>1. Visited \in SUBSET (0 .. m) /\ 0 \in Visited
    <2>1. 0 \in 0 .. m
        OBVIOUS
    <2>2. {u \in used : u >= i} \subseteq used
        OBVIOUS
    <2> QED
        BY <2>1, <2>2
<1>2. PICK x \in Visited : \A y \in Visited : y <= x
    <2>1. Visited \subseteq Nat /\ Visited # {} /\ \A y \in Visited : y <= m
        BY <1>1
    <2> HIDE DEF Visited
    <2>2. Max(Visited) \in Visited /\ \A y \in Visited : y <= Max(Visited)
        BY <2>1, LargestExists
    <2> QED
        BY <2>2
<1>3. \A u \in used : u >= i /\ u > x => FALSE
    BY <1>1, <1>2
<1>4. x \in Ends
    BY <1>2, <1>3 DEF ScanEnds
<1>5. Ends \in SUBSET Nat
    BY <1>1
<1>6. ScanUsed(i, used) = Min(Ends)
    BY DEF ScanUsed
<1> HIDE DEF Ends
<1>7. Min(Ends) \in Ends /\ \A y \in Ends : Min(Ends) <= y
    BY <1>4, <1>5, LeastIsMin
<1>8. Min(Ends) \in Nat
    BY <1>5, <1>7
<1> QED
    BY <1>6, <1>7, <1>8 DEF Ends

\* The n-th unused address: that many after a paid one, or after the beginning,
\* with none of those between paid, and the first such.
LEMMA UnusedResult ==
    ASSUME NEW m \in Nat, NEW paid \in SUBSET (0 .. m), NEW n \in Nat, n < ScanAhead
    PROVE  \E s \in StartsUnpaid(n, paid) :
              /\ s \in Nat
              /\ UnusedFrom(n, paid) = s + n
              /\ \A t \in StartsUnpaid(n, paid) : s <= t
<1>1. StartsUnpaid(n, paid) \in SUBSET Nat
    BY DEF StartsUnpaid
<1>2. StartsUnpaid(n, paid) # {}
    <2>1. CASE paid = {}
        <3>1. 0 \in StartsUnpaid(n, paid)
            BY <2>1 DEF StartsUnpaid
        <3> QED
            BY <3>1
    <2>2. CASE paid # {}
        <3>1. PICK u \in paid : \A v \in paid : v <= u
            <4>1. paid \subseteq Nat /\ \A v \in paid : v <= m
                OBVIOUS
            <4> QED
                BY <2>2, <4>1, LargestExists
        <3>2. \A v \in paid : v < u + 1
            BY <3>1
        <3>3. u + 1 \in StartsUnpaid(n, paid)
            BY <3>2 DEF StartsUnpaid
        <3> QED
            BY <3>3
    <2> QED
        BY <2>1, <2>2
<1>3. UnusedFrom(n, paid) = Min(StartsUnpaid(n, paid)) + n
    BY DEF UnusedFrom
<1> QED
    BY <1>1, <1>2, <1>3, LeastIsMin

\* What is given out as the n-th unused address is not paid, and comes later
\* the greater n is.
LEMMA UnusedAreNew ==
    ASSUME NEW m \in Nat, NEW paid \in SUBSET (0 .. m), NEW n \in Nat, n < ScanAhead
    PROVE  /\ UnusedFrom(n, paid) \in Nat
           /\ UnusedFrom(n, paid) \notin paid
           /\ \A k \in Nat : k < n => UnusedFrom(k, paid) < UnusedFrom(n, paid)
<1>0. ScanAhead \in Nat
    BY WalletLedgerAssumption
<1>1. PICK s \in StartsUnpaid(n, paid) : s \in Nat /\ UnusedFrom(n, paid) = s + n
    BY UnusedResult
<1>2. s + n \notin paid
    BY <1>1 DEF StartsUnpaid
<1>3. ASSUME NEW k \in Nat, k < n
      PROVE  UnusedFrom(k, paid) < UnusedFrom(n, paid)
    <2>1. k < ScanAhead
        BY <1>0, <1>3
    <2>2. PICK t \in StartsUnpaid(k, paid) :
              /\ t \in Nat /\ UnusedFrom(k, paid) = t + k
              /\ \A r \in StartsUnpaid(k, paid) : t <= r
        BY <2>1, UnusedResult
    <2>3. \A u \in paid : u \in Nat /\ (u < s \/ u > s + n)
        BY <1>1 DEF StartsUnpaid
    <2>4. \A u \in paid : u < s \/ u > s + k
        BY <1>1, <1>3, <2>3
    <2>5. s \in StartsUnpaid(k, paid)
        BY <1>1, <2>4 DEF StartsUnpaid
    <2> QED
        BY <1>1, <1>3, <2>2, <2>5
<1> QED
    BY <1>1, <1>2, <1>3

\* A scan over more used addresses goes at least as far.
LEMMA ScanGoesFurther ==
    ASSUME NEW m \in Nat, NEW used \in SUBSET (0 .. m), NEW paid \in SUBSET used
    PROVE  ScanUsed(0, paid) <= ScanUsed(0, used)
<1>0. ScanAhead \in Nat
    BY WalletLedgerAssumption
<1>1. PICK x \in Nat : x = ScanUsed(0, used)
    BY ScanResult
<1>2. \A u \in used : u > x => u >= x + ScanAhead
    <2>1. ScanEnds(0, x, used)
        BY <1>1, ScanResult
    <2> QED
        BY <2>1 DEF ScanEnds
<1> DEFINE Upto == {0} \cup {u \in paid : u <= x}
<1>3. Upto \in SUBSET (0 .. m) /\ 0 \in Upto
    <2>1. 0 \in 0 .. m
        OBVIOUS
    <2>2. {u \in paid : u <= x} \subseteq used
        OBVIOUS
    <2> QED
        BY <2>1, <2>2
<1>4. PICK y \in Upto : \A z \in Upto : z <= y
    <2>1. Upto \subseteq Nat /\ Upto # {} /\ \A z \in Upto : z <= m
        BY <1>3
    <2> HIDE DEF Upto
    <2>2. Max(Upto) \in Upto /\ \A z \in Upto : z <= Max(Upto)
        BY <2>1, LargestExists
    <2> QED
        BY <2>2
<1>5. y \in Nat /\ y <= x
    BY <1>3, <1>4
<1>6. \A u \in paid : u > y => u >= y + ScanAhead
    <2>1. SUFFICES ASSUME NEW u \in paid, u > y PROVE u >= y + ScanAhead
        OBVIOUS
    <2>2. u \in Nat /\ u \in used
        OBVIOUS
    <2>3. u > x
        BY <1>4, <1>5, <2>1, <2>2
    <2> QED
        BY <1>0, <1>2, <1>5, <2>2, <2>3
<1>7. ScanEnds(0, y, paid)
    BY <1>6 DEF ScanEnds
<1>8. y \in {0} \cup {u \in paid : u >= 0}
    BY <1>4
<1>9. paid \in SUBSET (0 .. m)
    OBVIOUS
<1>10. ScanUsed(0, paid) \in Nat /\ ScanUsed(0, paid) <= y
    BY <1>7, <1>8, <1>9, ScanResult
<1> QED
    BY <1>1, <1>5, <1>10

\* A scan that begins later ends no earlier, if it finds a used address before
\* it would give up.
LEMMA LaterScanGoesFurther ==
    ASSUME NEW m \in Nat, NEW used \in SUBSET (0 .. m), NEW i \in Nat,
           i = 0 \/ used \cap (i .. ScanAhead - 1) # {}
    PROVE  ScanUsed(0, used) <= ScanUsed(i, used)
<1>0. ScanAhead \in Nat
    BY WalletLedgerAssumption
<1>1. CASE i = 0
    BY <1>1, ScanResult
<1>2. CASE i # 0
    <2>1. PICK u \in used : u >= i /\ u < ScanAhead /\ u \in Nat
        BY <1>0, <1>2
    <2>2. PICK y \in Nat : y = ScanUsed(i, used)
        BY ScanResult
    <2>3. ScanEnds(i, y, used) /\ (y = 0 \/ (y \in used /\ y >= i))
        BY <2>2, ScanResult
    <2>4. y # 0
        BY <1>0, <1>2, <2>1, <2>3 DEF ScanEnds
    <2>5. \A v \in used : v > y => v >= y + ScanAhead
        BY <2>3, <2>4 DEF ScanEnds
    <2>6. ScanEnds(0, y, used)
        BY <2>5 DEF ScanEnds
    <2>7. y \in {0} \cup {v \in used : v >= 0}
        BY <2>2, <2>3, <2>4
    <2> QED
        BY <2>2, <2>6, <2>7, ScanResult
<1> QED
    BY <1>1, <1>2

\* The indices of the addresses of a chain are bounded.
LEMMA IndicesBounded ==
    /\ MaxIndex \in Nat
    /\ \A c \in Chains : /\ UsedIndices(c) \subseteq 0 .. MaxIndex
                         /\ PaidIndices(c) \subseteq UsedIndices(c)
    /\ UNION {PaidIndices(c) : c \in Chains} \subseteq 0 .. MaxIndex
<1>1. \A c \in Chains : /\ UsedIndices(c) \subseteq 0 .. MaxIndex
                        /\ PaidIndices(c) \subseteq UsedIndices(c)
    BY DEF UsedIndices, PaidIndices
<1>2. UNION {PaidIndices(c) : c \in Chains} \subseteq 0 .. MaxIndex
    BY <1>1
<1> QED
    BY <1>1, <1>2, WalletLedgerAssumption

\* The n-th unused address of a chain, for n in the range that n is taken into.
LEMMA UnusedWalletIs ==
    ASSUME NEW c \in Chains, NEW n \in 0 .. ScanAhead - 1
    PROVE  n \in Nat /\ n < ScanAhead /\ UnusedWallet(c, n) = UnusedFrom(n, PaidIndices(c))
<1>0. ScanAhead \in Nat \ {0}
    BY WalletLedgerAssumption
<1>1. n \in Nat /\ n < ScanAhead
    BY <1>0
<1>2. n % ScanAhead = n
    BY <1>0, <1>1
<1> QED
    BY <1>1, <1>2 DEF UnusedWallet

\* The addresses that are given out are not paid and differ from each other.
LEMMA GivenAreNew ==
    ASSUME NEW c \in Chains
    PROVE  /\ \A n \in 0 .. ScanAhead - 1 : /\ UnusedWallet(c, n) \in Nat
                                            /\ UnusedWallet(c, n) \notin PaidIndices(c)
           /\ \A n, k \in 0 .. ScanAhead - 1 :
                 n # k => UnusedWallet(c, n) # UnusedWallet(c, k)
<1>0. ScanAhead \in Nat
    BY WalletLedgerAssumption
<1>1. MaxIndex \in Nat /\ PaidIndices(c) \in SUBSET (0 .. MaxIndex)
    BY IndicesBounded
<1>2. ASSUME NEW n \in 0 .. ScanAhead - 1
      PROVE  /\ UnusedWallet(c, n) \in Nat
             /\ UnusedWallet(c, n) \notin PaidIndices(c)
    <2>1. n \in Nat /\ n < ScanAhead /\ UnusedWallet(c, n) = UnusedFrom(n, PaidIndices(c))
        BY UnusedWalletIs
    <2>2. /\ UnusedFrom(n, PaidIndices(c)) \in Nat
          /\ UnusedFrom(n, PaidIndices(c)) \notin PaidIndices(c)
        BY <1>1, <2>1, UnusedAreNew
    <2> QED
        BY <2>1, <2>2
<1>3. ASSUME NEW n \in 0 .. ScanAhead - 1, NEW k \in 0 .. ScanAhead - 1, k < n
      PROVE  UnusedWallet(c, k) < UnusedWallet(c, n)
    <2>1. k \in Nat /\ UnusedWallet(c, k) = UnusedFrom(k, PaidIndices(c))
        BY UnusedWalletIs
    <2>2. n \in Nat /\ n < ScanAhead /\ UnusedWallet(c, n) = UnusedFrom(n, PaidIndices(c))
        BY UnusedWalletIs
    <2>3. UnusedFrom(k, PaidIndices(c)) < UnusedFrom(n, PaidIndices(c))
        BY <1>1, <1>3, <2>1, <2>2, UnusedAreNew
    <2> QED
        BY <2>1, <2>2, <2>3
<1>4. ASSUME NEW n \in 0 .. ScanAhead - 1, NEW k \in 0 .. ScanAhead - 1, n # k
      PROVE  UnusedWallet(c, n) # UnusedWallet(c, k)
    <2>1. n < k \/ k < n
        BY <1>0, <1>4
    <2>2. UnusedWallet(c, n) \in Nat /\ UnusedWallet(c, k) \in Nat
        BY <1>2
    <2> QED
        BY <1>3, <2>1, <2>2
<1> QED
    BY <1>2, <1>4

\* What can be signed for is not beyond the last used address.
LEMMA ActiveAreUsed ==
    ASSUME NEW c \in Chains
    PROVE  \A i \in ActiveDerivations(c) : i <= LastUsedAddress(c)
<1>1. /\ MaxIndex \in Nat /\ UsedIndices(c) \in SUBSET (0 .. MaxIndex)
      /\ PaidIndices(c) \in SUBSET UsedIndices(c)
    BY IndicesBounded
<1>2. PICK a \in Nat : a = ScanUsed(0, PaidIndices(c))
    BY <1>1, ScanResult
<1>3. PICK b \in Nat : b = LastUsedAddress(c)
    BY <1>1, ScanResult DEF LastUsedAddress
<1>4. a <= b
    BY <1>1, <1>2, <1>3, ScanGoesFurther DEF LastUsedAddress
<1>5. ActiveDerivations(c) \subseteq 0 .. a
    BY <1>2 DEF ActiveDerivations
<1> QED
    BY <1>2, <1>3, <1>4, <1>5

\* A vault whose scan reaches its paid addresses reaches those given out, but
\* the last.
LEMMA GivenHavePaths ==
    ASSUME NEW c \in Chains, PaidIndices(c) \subseteq VaultScan(Chains),
           NEW n \in 0 .. ScanAhead - 2
    PROVE  VaultPathForScriptHash(Chains, <<c, UnusedWallet(c, n)>>) # <<>>
<1> DEFINE Paid == UNION {PaidIndices(d) : d \in Chains}
<1>0. ScanAhead \in Nat
    BY WalletLedgerAssumption
<1>1. /\ MaxIndex \in Nat /\ PaidIndices(c) \in SUBSET (0 .. MaxIndex)
      /\ Paid \in SUBSET (0 .. MaxIndex) /\ PaidIndices(c) \subseteq Paid
    BY IndicesBounded
<1>2. VaultScan(Chains) = 0 .. ScanUsed(0, Paid) + ScanAhead - 1
    BY DEF VaultScan
<1> HIDE DEF Paid
<1>3. PICK w \in Nat : w = ScanUsed(0, Paid)
    BY <1>1, ScanResult
<1>4. \A u \in Paid : u > w => u >= w + ScanAhead
    <2>1. ScanEnds(0, w, Paid)
        BY <1>1, <1>3, ScanResult
    <2> QED
        BY <1>1, <2>1 DEF ScanEnds
<1>5. VaultScan(Chains) = 0 .. w + ScanAhead - 1
    BY <1>2, <1>3
<1>6. \A u \in PaidIndices(c) : u <= w
    <2>1. SUFFICES ASSUME NEW u \in PaidIndices(c) PROVE u <= w
        OBVIOUS
    <2>2. u \in 0 .. w + ScanAhead - 1 /\ u \in Paid
        BY <1>1, <1>5
    <2> QED
        BY <1>0, <1>3, <1>4, <2>2
<1>7. n \in Nat /\ n < ScanAhead /\ n \in 0 .. ScanAhead - 1 /\ n <= ScanAhead - 2
    BY <1>0
<1>8. PICK s \in StartsUnpaid(n, PaidIndices(c)) :
          s \in Nat /\ UnusedFrom(n, PaidIndices(c)) = s + n
    BY <1>1, <1>7, UnusedResult
<1>9. s <= w + 1
    <2>1. s = 0 \/ \E u \in PaidIndices(c) : s = u + 1
        BY <1>8 DEF StartsUnpaid
    <2>2. \A u \in PaidIndices(c) : u \in Nat
        BY <1>1
    <2> QED
        BY <1>3, <1>6, <2>1, <2>2
<1>10. UnusedWallet(c, n) = s + n
    BY <1>7, <1>8, UnusedWalletIs
<1>11. UnusedWallet(c, n) \in VaultScan(Chains)
    BY <1>0, <1>3, <1>5, <1>7, <1>8, <1>9, <1>10
<1> QED
    BY <1>11 DEF VaultPathForScriptHash

\* Each transaction of another chain is analysed, or one with its height and
\* time is.
LEMMA ChangeIsAnalysed ==
    ASSUME NEW c, NEW d, NEW tx \in TransactionsFor(d)
    PROVE  \E u \in AnalyzerTransactions(c, d) : u = tx \/ u.stamp = tx.stamp
<1> DEFINE listed == TransactionsFor(c)
           added == {t \in TransactionsFor(d) : \A u \in listed : u.stamp # t.stamp}
           First(t) == CHOOSE u \in added : u.stamp = t.stamp
<1>1. AnalyzerTransactions(c, d) = listed \cup {First(t) : t \in added}
    BY DEF AnalyzerTransactions
<1>2. CASE \E u \in listed : u.stamp = tx.stamp
    BY <1>1, <1>2
<1>3. CASE \A u \in listed : u.stamp # tx.stamp
    <2>1. tx \in added
        BY <1>3
    <2>2. First(tx) \in added /\ First(tx).stamp = tx.stamp
        BY <2>1
    <2>3. First(tx) \in AnalyzerTransactions(c, d)
        BY <1>1, <2>1
    <2> QED
        BY <2>2, <2>3
<1> QED
    BY <1>2, <1>3

\* The filter of a chain reaches far enough, or the scan that would extend it
\* gets nowhere.
FilterIsWide(c) ==
    \/ lookAhead[c] - LastUsedAddress(c) >= ScanAhead
    \/ /\ lookAhead[c] - BloomAhead > 0
       /\ UsedIndices(c) \cap (lookAhead[c] - BloomAhead .. ScanAhead - 1) = {}

LedgerTypes ==
    /\ keyRoots \subseteq Chains /\ trackedRoots \subseteq Chains
    /\ lookAhead \in [Chains -> Int]
    /\ storing \in Seq(WorldTxs)

\* A filter was made for a chain with a last used address, and is wide enough
\* after a checkup; what is not in the database waits for it.
LedgerInv ==
    /\ LedgerTypes
    /\ \A c \in trackedRoots : lookAhead[c] - BloomAhead \in Nat
    /\ upToDate => \A c \in keyRoots : FilterIsWide(c)
    /\ allTransactions \subseteq storedTxs \cup ToSet(storing)

\* The last used address, and the one that a later scan finds, are numbers.
LEMMA LastUsedIsNat ==
    ASSUME NEW c \in Chains, NEW i \in Nat
    PROVE  LastUsedAddress(c) \in Nat /\ ScanUsed(i, UsedIndices(c)) \in Nat
<1>1. MaxIndex \in Nat /\ UsedIndices(c) \in SUBSET (0 .. MaxIndex)
    BY IndicesBounded
<1> QED
    BY <1>1, ScanResult DEF LastUsedAddress

\* A filter that a checkup finds wide enough is: its scan goes at least as far
\* as one from the first address, unless it gets nowhere.
LEMMA CheckupIsRight ==
    ASSUME NEW c \in Chains, lookAhead[c] \in Int, lookAhead[c] - BloomAhead \in Nat,
           UnusedAddresses(c) >= ScanAhead
    PROVE  FilterIsWide(c)
<1> DEFINE start == lookAhead[c] - BloomAhead
<1>0. ScanAhead \in Nat /\ BloomAhead \in Nat
    BY WalletLedgerAssumption
<1>1. MaxIndex \in Nat /\ UsedIndices(c) \in SUBSET (0 .. MaxIndex)
    BY IndicesBounded
<1>2. PICK y \in Nat : y = ScanUsed(start, UsedIndices(c))
    BY LastUsedIsNat
<1>3. PICK x \in Nat : x = LastUsedAddress(c)
    BY LastUsedIsNat
<1>4. lookAhead[c] - y >= ScanAhead
    BY <1>2 DEF UnusedAddresses, ScanStart
<1>5. CASE start = 0 \/ UsedIndices(c) \cap (start .. ScanAhead - 1) # {}
    <2>1. x <= y
        BY <1>1, <1>2, <1>3, <1>5, LaterScanGoesFurther DEF LastUsedAddress
    <2>2. lookAhead[c] - x >= ScanAhead
        BY <1>0, <1>2, <1>3, <1>4, <2>1
    <2> QED
        BY <1>3, <2>2 DEF FilterIsWide
<1>6. CASE start # 0 /\ UsedIndices(c) \cap (start .. ScanAhead - 1) = {}
    <2>1. start > 0
        BY <1>6
    <2> QED
        BY <1>6, <2>1 DEF FilterIsWide
<1> QED
    BY <1>5, <1>6

\* The ledger starts without a transaction or a filter.
LEMMA LedgerStarts == LedgerInit => LedgerInv
<1>1. SUFFICES ASSUME LedgerInit PROVE LedgerInv
    OBVIOUS
<1>2. keyRoots \subseteq Chains /\ trackedRoots = {} /\ storing = <<>> /\ allTransactions = {}
    BY <1>1 DEF LedgerInit
<1>3. lookAhead \in [Chains -> Int]
    BY <1>1 DEF LedgerInit
<1>4. LedgerTypes
    BY <1>2, <1>3 DEF LedgerTypes
<1>5. ~upToDate
    BY <1>1 DEF LedgerInit
<1> QED
    BY <1>2, <1>4, <1>5 DEF LedgerInv

\* Adding to the transactions that wait keeps those that do.
LEMMA WaitingAppended ==
    ASSUME NEW s \in Seq(WorldTxs), NEW tx \in WorldTxs
    PROVE  Append(s, tx) \in Seq(WorldTxs) /\ ToSet(s) \cup {tx} \subseteq ToSet(Append(s, tx))
<1>1. /\ Append(s, tx) \in Seq(WorldTxs)
      /\ Len(Append(s, tx)) = Len(s) + 1
      /\ \A i \in 1 .. Len(s) : Append(s, tx)[i] = s[i]
      /\ Append(s, tx)[Len(s) + 1] = tx
    OBVIOUS
<1>2. DOMAIN Append(s, tx) = 1 .. Len(s) + 1 /\ Len(s) \in Nat /\ DOMAIN s = 1 .. Len(s)
    BY <1>1
<1>3. ASSUME NEW t \in ToSet(s) PROVE t \in ToSet(Append(s, tx))
    <2>1. PICK i \in 1 .. Len(s) : t = s[i]
        BY <1>2 DEF ToSet
    <2>2. i \in 1 .. Len(s) + 1 /\ Append(s, tx)[i] = t
        BY <1>1, <1>2, <2>1
    <2> QED
        BY <1>2, <2>2 DEF ToSet
<1>4. tx \in ToSet(Append(s, tx))
    <2>1. Len(s) + 1 \in 1 .. Len(s) + 1
        BY <1>2
    <2> QED
        BY <1>1, <1>2, <2>1 DEF ToSet
<1> QED
    BY <1>1, <1>3, <1>4

\* Of the transactions that wait the first is taken.
LEMMA WaitingTaken ==
    ASSUME NEW s \in Seq(WorldTxs), s # <<>>
    PROVE  Tail(s) \in Seq(WorldTxs) /\ ToSet(s) \subseteq {Head(s)} \cup ToSet(Tail(s))
<1>1. /\ Tail(s) \in Seq(WorldTxs) /\ Len(Tail(s)) = Len(s) - 1
      /\ \A i \in 1 .. Len(s) - 1 : Tail(s)[i] = s[i + 1]
      /\ Head(s) = s[1] /\ Len(s) \in Nat /\ DOMAIN s = 1 .. Len(s)
    OBVIOUS
<1>2. DOMAIN Tail(s) = 1 .. Len(s) - 1
    BY <1>1
<1>3. ASSUME NEW t \in ToSet(s), t # Head(s) PROVE t \in ToSet(Tail(s))
    <2>1. PICK i \in 1 .. Len(s) : t = s[i]
        BY <1>1 DEF ToSet
    <2>2. i # 1
        BY <1>1, <1>3, <2>1
    <2>3. i - 1 \in 1 .. Len(s) - 1 /\ (i - 1) + 1 = i
        BY <1>1, <2>2
    <2>4. Tail(s)[i - 1] = t
        BY <1>1, <2>1, <2>3
    <2> QED
        BY <1>2, <2>3, <2>4 DEF ToSet
<1> QED
    BY <1>1, <1>3

\* Nothing that the width of a filter depends on changes.
LEMMA WidthUnchanged ==
    ASSUME UNCHANGED <<allTransactions, lookAhead>>, NEW c
    PROVE  /\ UsedIndices(c)' = UsedIndices(c) /\ LastUsedAddress(c)' = LastUsedAddress(c)
           /\ FilterIsWide(c)' = FilterIsWide(c)
<1>1. UsedIndices(c)' = UsedIndices(c)
    BY DEF UsedIndices
<1>2. LastUsedAddress(c)' = LastUsedAddress(c)
    BY <1>1 DEF LastUsedAddress
<1> QED
    BY <1>1, <1>2 DEF FilterIsWide

\* The filter is made or found wide enough.
LEMMA CheckupKeeps ==
    LedgerInv /\ (UpdateBloomFilter \/ CheckupFindsNothing) => LedgerInv'
<1> SUFFICES ASSUME LedgerInv, UpdateBloomFilter \/ CheckupFindsNothing PROVE LedgerInv'
    OBVIOUS
<1>0. ScanAhead \in Nat /\ BloomAhead \in Nat /\ BloomAhead >= ScanAhead
    BY WalletLedgerAssumption
<1>1. CASE UpdateBloomFilter
    <2>1. /\ trackedRoots' = keyRoots /\ keyRoots' = keyRoots /\ storing' = storing
          /\ allTransactions' = allTransactions /\ storedTxs' = storedTxs
          /\ lookAhead' = [c \in Chains |->
                               IF c \in keyRoots THEN LastUsedAddress(c) + BloomAhead ELSE 0]
        BY <1>1 DEF UpdateBloomFilter
    <2>2. \A c \in Chains : LastUsedAddress(c) \in Nat
        BY LastUsedIsNat
    <2>3. keyRoots \subseteq Chains /\ storing \in Seq(WorldTxs)
        BY DEF LedgerInv, LedgerTypes
    <2>4. \A c \in Chains : lookAhead'[c] \in Int
        BY <1>0, <2>1, <2>2
    <2>5. LedgerTypes'
        BY <2>1, <2>3, <2>4 DEF LedgerTypes
    <2>6. ASSUME NEW c \in keyRoots
          PROVE  lookAhead'[c] - BloomAhead \in Nat /\ FilterIsWide(c)'
        <3>1. PICK x \in Nat : x = LastUsedAddress(c)
            BY <2>2, <2>3
        <3>2. lookAhead'[c] = x + BloomAhead
            BY <2>1, <2>3, <3>1
        <3>3. UsedIndices(c)' = UsedIndices(c)
            BY <2>1 DEF UsedIndices
        <3>4. LastUsedAddress(c)' = x
            BY <3>1, <3>3 DEF LastUsedAddress
        <3>5. lookAhead'[c] - x >= ScanAhead /\ lookAhead'[c] - BloomAhead \in Nat
            BY <1>0, <3>2
        <3> QED
            BY <3>4, <3>5 DEF FilterIsWide
    <2>7. allTransactions' \subseteq storedTxs' \cup ToSet(storing')
        BY <2>1 DEF LedgerInv
    <2> QED
        BY <2>1, <2>5, <2>6, <2>7 DEF LedgerInv
<1>2. CASE CheckupFindsNothing
    <2>1. UNCHANGED <<allTransactions, keyRoots, trackedRoots, lookAhead, storing, storedTxs>>
        BY <1>2 DEF CheckupFindsNothing
    <2>2. ASSUME NEW c \in keyRoots PROVE FilterIsWide(c)
        <3>1. c \in trackedRoots /\ c \in Chains /\ lookAhead[c] \in Int
            BY <1>2 DEF CheckupFindsNothing, NeedsUpdate, LedgerInv, LedgerTypes
        <3>2. lookAhead[c] - BloomAhead \in Nat
            BY <3>1 DEF LedgerInv
        <3>3. UnusedAddresses(c) \in Int
            <4>1. ScanUsed(lookAhead[c] - BloomAhead, UsedIndices(c)) \in Nat
                BY <3>1, <3>2, LastUsedIsNat
            <4> QED
                BY <3>1, <4>1 DEF UnusedAddresses, ScanStart
        <3>4. UnusedAddresses(c) >= ScanAhead
            BY <1>0, <1>2, <3>1, <3>3 DEF CheckupFindsNothing, NeedsUpdate
        <3> QED
            BY <3>1, <3>2, <3>4, CheckupIsRight
    <2>3. \A c \in keyRoots : FilterIsWide(c)'
        BY <2>1, <2>2, WidthUnchanged
    <2> QED
        BY <2>1, <2>3 DEF LedgerInv, LedgerTypes
<1> QED
    BY <1>1, <1>2

\* A transaction is added or removed, stored, or read back after a restart.
LEMMA LedgerTransactionsKeep ==
    ASSUME LedgerInv,
           \/ \E tx \in WorldTxs : AddsTransaction(tx) \/ RemoveTransaction(tx)
           \/ StoreTransaction \/ Restart
    PROVE  LedgerInv'
<1>1. ASSUME NEW tx \in WorldTxs, AddsTransaction(tx) PROVE LedgerInv'
    <2>1. /\ allTransactions' = allTransactions \cup {tx} /\ storing' = Append(storing, tx)
          /\ upToDate' = FALSE
          /\ UNCHANGED <<keyRoots, trackedRoots, lookAhead, storedTxs>>
        BY <1>1 DEF AddsTransaction
    <2>2. /\ storing' \in Seq(WorldTxs)
          /\ ToSet(storing) \cup {tx} \subseteq ToSet(storing')
        BY <2>1, WaitingAppended DEF LedgerInv, LedgerTypes
    <2>3. LedgerTypes'
        BY <2>1, <2>2 DEF LedgerInv, LedgerTypes
    <2> QED
        BY <2>1, <2>2, <2>3 DEF LedgerInv
<1>2. ASSUME NEW tx \in WorldTxs, RemoveTransaction(tx) PROVE LedgerInv'
    <2>1. /\ allTransactions' \subseteq allTransactions /\ upToDate' = FALSE
          /\ UNCHANGED <<keyRoots, trackedRoots, lookAhead, storing, storedTxs>>
        BY <1>2 DEF RemoveTransaction
    <2> QED
        BY <2>1 DEF LedgerInv, LedgerTypes
<1>3. CASE StoreTransaction
    <2>1. /\ storing # <<>> /\ storedTxs' = storedTxs \cup {Head(storing)}
          /\ storing' = Tail(storing)
          /\ UNCHANGED <<allTransactions, keyRoots, trackedRoots, lookAhead, upToDate>>
        BY <1>3 DEF StoreTransaction
    <2>2. /\ storing' \in Seq(WorldTxs)
          /\ ToSet(storing) \subseteq {Head(storing)} \cup ToSet(storing')
        BY <2>1, WaitingTaken DEF LedgerInv, LedgerTypes
    <2>3. LedgerTypes'
        BY <2>1, <2>2 DEF LedgerInv, LedgerTypes
    <2>4. upToDate' => \A c \in keyRoots' : FilterIsWide(c)'
        BY <2>1, WidthUnchanged DEF LedgerInv
    <2> QED
        BY <2>1, <2>2, <2>3, <2>4 DEF LedgerInv
<1>4. CASE Restart
    <2>1. /\ allTransactions' = storedTxs /\ storing' = <<>> /\ upToDate' = FALSE
          /\ UNCHANGED <<keyRoots, trackedRoots, lookAhead, storedTxs>>
        BY <1>4 DEF Restart
    <2>2. LedgerTypes'
        BY <2>1 DEF LedgerInv, LedgerTypes
    <2> QED
        BY <2>1, <2>2 DEF LedgerInv
<1> QED
    BY <1>1, <1>2, <1>3, <1>4

\* Every step keeps the invariant.
LEMMA LedgerStepKeeps == LedgerInv /\ [LedgerNext]_ledgerVars => LedgerInv'
<1> SUFFICES ASSUME LedgerInv, [LedgerNext]_ledgerVars PROVE LedgerInv'
    OBVIOUS
<1>1. ASSUME NEW tx \in WorldTxs, Happens(tx) PROVE LedgerInv'
    <2>1. UNCHANGED <<allTransactions, keyRoots, trackedRoots, lookAhead, storing, storedTxs,
                      upToDate>>
        BY <1>1 DEF Happens
    <2>2. upToDate' => \A c \in keyRoots' : FilterIsWide(c)'
        BY <2>1, WidthUnchanged DEF LedgerInv
    <2> QED
        BY <2>1, <2>2 DEF LedgerInv, LedgerTypes
<1>2. ASSUME NEW c \in Chains, AddRoot(c) PROVE LedgerInv'
    <2>1. /\ keyRoots' = keyRoots \cup {c} /\ upToDate' = FALSE
          /\ UNCHANGED <<allTransactions, trackedRoots, lookAhead, storing, storedTxs>>
        BY <1>2 DEF AddRoot
    <2> QED
        BY <2>1 DEF LedgerInv, LedgerTypes
<1>3. CASE UNCHANGED ledgerVars
    <2>1. UNCHANGED <<allTransactions, keyRoots, trackedRoots, lookAhead, storing, storedTxs,
                      upToDate>>
        BY <1>3 DEF ledgerVars
    <2>2. upToDate' => \A c \in keyRoots' : FilterIsWide(c)'
        BY <2>1, WidthUnchanged DEF LedgerInv
    <2> QED
        BY <2>1, <2>2 DEF LedgerInv, LedgerTypes
<1> QED
    BY <1>1, <1>2, <1>3, CheckupKeeps, LedgerTransactionsKeep DEF LedgerNext

\* The invariant, and what holds of the addresses in any state, make up the
\* property.
LEMMA LedgerInvSuffices == LedgerInv => FilterReachesAhead
<1> SUFFICES ASSUME LedgerInv PROVE FilterReachesAhead
    OBVIOUS
<1>1. keyRoots \subseteq Chains
    BY DEF LedgerInv, LedgerTypes
<1>2. upToDate => \A c \in keyRoots :
          LET wasLast == lookAhead[c] - BloomAhead
          IN  \/ lookAhead[c] - LastUsedAddress(c) >= ScanAhead
              \/ wasLast > 0 /\ UsedIndices(c) \cap (wasLast .. ScanAhead - 1) = {}
    BY DEF LedgerInv, FilterIsWide
<1>3. ASSUME NEW c \in keyRoots
      PROVE  LET given == [n \in 0 .. ScanAhead - 1 |-> UnusedWallet(c, n)]
             IN  /\ \A n \in DOMAIN given : given[n] >= 0 /\ given[n] \notin PaidIndices(c)
                 /\ \A n, m \in DOMAIN given : n # m => given[n] # given[m]
                 /\ \A i \in ActiveDerivations(c) : i <= LastUsedAddress(c)
                 /\ PaidIndices(c) \subseteq VaultScan(Chains) =>
                       \A n \in 0 .. ScanAhead - 2 :
                           VaultPathForScriptHash(Chains, <<c, given[n]>>) # <<>>
    <2> DEFINE given == [n \in 0 .. ScanAhead - 1 |-> UnusedWallet(c, n)]
    <2>0. c \in Chains /\ ScanAhead \in Nat
        BY <1>1, WalletLedgerAssumption
    <2>1. DOMAIN given = 0 .. ScanAhead - 1 /\ \A n \in 0 .. ScanAhead - 1 : given[n] = UnusedWallet(c, n)
        OBVIOUS
    <2> HIDE DEF given
    <2>2. \A n \in DOMAIN given : given[n] >= 0 /\ given[n] \notin PaidIndices(c)
        BY <2>0, <2>1, GivenAreNew
    <2>3. \A n, m \in DOMAIN given : n # m => given[n] # given[m]
        BY <2>0, <2>1, GivenAreNew
    <2>4. \A i \in ActiveDerivations(c) : i <= LastUsedAddress(c)
        BY <2>0, ActiveAreUsed
    <2>5. ASSUME PaidIndices(c) \subseteq VaultScan(Chains), NEW n \in 0 .. ScanAhead - 2
          PROVE  VaultPathForScriptHash(Chains, <<c, given[n]>>) # <<>>
        <3>1. n \in 0 .. ScanAhead - 1
            BY <2>0
        <3>2. given[n] = UnusedWallet(c, n)
            BY <2>1, <3>1
        <3> QED
            BY <2>0, <2>5, <3>2, GivenHavePaths
    <2> QED
        BY <2>2, <2>3, <2>4, <2>5 DEF given
<1>4. \A c, d \in keyRoots : \A tx \in TransactionsFor(d) :
          \E u \in AnalyzerTransactions(c, d) : u = tx \/ u.stamp = tx.stamp
    BY ChangeIsAnalysed
<1>5. allTransactions \subseteq storedTxs \cup ToSet(storing)
    BY DEF LedgerInv
<1> QED
    BY <1>2, <1>3, <1>4, <1>5 DEF FilterReachesAhead

\* After a checkup the filter reaches beyond the last used address, unless the
\* scan that would extend it gets nowhere; the addresses given out are new, and
\* no transaction is lost but those that wait for the database, for any number
\* of transactions, chains and addresses, and whatever is added, removed,
\* stored and read back in between (TTBloomFilterNeedsUpdate,
\* TTUpdateBloomFilter, TTUnusedWallet, TTAnalyzerFor).
THEOREM FilterKeepsAhead == LedgerInit /\ [][LedgerNext]_ledgerVars => []FilterReachesAhead
<1>1. LedgerInit => LedgerInv
    BY LedgerStarts
<1>2. LedgerInv /\ [LedgerNext]_ledgerVars => LedgerInv'
    BY LedgerStepKeeps
<1>3. LedgerInv => FilterReachesAhead
    BY LedgerInvSuffices
<1>4. QED
    BY <1>1, <1>2, <1>3, PTL
=============================================================================
