------------------------------ MODULE Payments ------------------------------
(***************************************************************************)
(* The analysis of a wallet's history (TransactionAnalyzer.c): deposits,   *)
(* withdrawals, change and what is unspent, and the search for outputs     *)
(* that cover a payment.                                                   *)
(*                                                                         *)
(* A transaction is [txid, ins, outs]: an input is <<txid, output number>>, *)
(* an output [ours, amount].  A history is a sequence of transactions.     *)
(***************************************************************************)
EXTENDS Integers, Sequences, FiniteSets, FiniteSetsExt, SequencesExt

CONSTANTS
    Histories,     \* the histories that are analysed
    Amounts,       \* the amounts of payments and of the events that cover them
    MaxEvents,     \* bound: how many events are searched
    DustLimit      \* DUST_LIMIT

ASSUME PaymentsAssumption == Amounts \subseteq Nat \ {0} /\ DustLimit \in Nat

VARIABLES
    history,   \* the history that is analysed
    payment    \* [amount, events, result]: the last search for a payment

payVars == <<history, payment>>

SearchCrash == [crash |-> TRUE, event |-> 0]

-----------------------------------------------------------------------------
(* Events.                                                                 *)

\* transactionForTxid.
IsListed(T, txid) == \E i \in DOMAIN T : T[i].txid = txid
TransactionForTxid(T, txid) == T[CHOOSE i \in DOMAIN T : T[i].txid = txid]

\* An input whose transaction is not listed ends allEvents with a null pointer.
EventsCrash(T) == \E i \in DOMAIN T : \E in \in ToSet(T[i].ins) : ~IsListed(T, in[1])

\* Mutant: an input is ours if its transaction has an output that is.
FundedByAny(T, in) == \E o \in ToSet(TransactionForTxid(T, in[1]).outs) : o.ours
SelfFunded(T, in) ==
    LET outs == TransactionForTxid(T, in[1]).outs
    IN  in[2] \in DOMAIN outs /\ outs[in[2]].ours

\* inputReferencing.
InputReferencing(T, txid, n) ==
    \E i \in DOMAIN T : \E in \in ToSet(T[i].ins) : in = <<txid, n>>

\* The events of a transaction before transfers are made one event: [types,
\* amount, output].
OutputEvents(T, tx) ==
    LET selfFunded == \E in \in ToSet(tx.ins) : SelfFunded(T, in)
        types(n) == IF tx.outs[n].ours
                    THEN {IF selfFunded THEN "change" ELSE "deposit"}
                         \cup (IF InputReferencing(T, tx.txid, n) THEN {} ELSE {"unspent"})
                    ELSE IF selfFunded THEN {"withdrawal"} ELSE {}
        all == [n \in DOMAIN tx.outs |-> [types |-> types(n), amount |-> tx.outs[n].amount, output |-> n]]
    IN  SelectSeq(all, LAMBDA e : e.types # {})

\* allEvents: a transaction of ours to ourselves is one event, its first; any
\* other that we funded has a fee, of the amount 0.
TransactionEvents(T, tx) ==
    LET events == OutputEvents(T, tx)
        selfFunded == \E in \in ToSet(tx.ins) : SelfFunded(T, in)
        internal == \A e \in ToSet(events) : "withdrawal" \notin e.types
    IN  IF ~selfFunded THEN events
        ELSE IF internal /\ events # <<>>
        THEN <<[events[1] EXCEPT !.types = @ \cup {"transfer"}]>>
        ELSE Append(events, [types |-> {"fee"}, amount |-> 0, output |-> 1])

AllEvents(T) == FlattenSeq([i \in DOMAIN T |-> TransactionEvents(T, T[i])])

\* TATotalAmount of the events with a type.
TotalAmount(events, type) ==
    FoldLeft(LAMBDA sum, e : IF type \in e.types THEN sum + e.amount ELSE sum, 0, events)

\* TAEvents takes each transaction's Datas for an event.  The type it reads is
\* half of an aligned pointer, whose lowest four bits (deposit to unspent) are 0.
TAEvents(T, types) ==
    SelectSeq([i \in DOMAIN T |-> [types |-> {"transfer", "fee"}, amount |-> 0, output |-> 1]],
              LAMBDA e : e.types \cap types # {})

TATotalBalance(T) ==
    TotalAmount(TAEvents(T, {"deposit"}), "deposit")
        - TotalAmount(TAEvents(T, {"withdrawal"}), "withdrawal")

-----------------------------------------------------------------------------
(* Payments.                                                               *)

\* The events that the loop looks at: the loop's start also sets the count.
Searched(events) == {1, 2}

\* TAPaymentCandidateSearch of the amounts of events: the event that leaves
\* least, without dust if there is one; the first two events only, and a null
\* pointer if neither covers the amount.  With a single event it reads beyond
\* the array.
TAPaymentCandidateSearch(amount, events) ==
    LET covers == {j \in Searched(events) \cap DOMAIN events : events[j] >= amount}
        clean == {j \in covers : events[j] - amount > DustLimit \/ events[j] = amount}
        among == IF clean # {} THEN clean ELSE covers
        least == {j \in among : \A k \in among : events[j] <= events[k]}
    IN  IF events = <<>> THEN [crash |-> FALSE, event |-> 0]
        ELSE IF covers = {} THEN SearchCrash
        ELSE [crash |-> FALSE, event |-> Max(least)]

\* TAPaymentCandidateRemainder.
TAPaymentCandidateRemainder(p) ==
    IF p.result.event = 0 THEN 0 ELSE p.events[p.result.event] - p.amount

PayInit == history = <<>> /\ payment = [amount |-> 0, events |-> <<>>, result |-> SearchCrash]

\* One history or one search is enough: neither depends on an earlier one.
AnalyzerNew == history = <<>> /\ payment.amount = 0

\* TANew and TAEvents.
Analyse(T) == AnalyzerNew /\ history' = T /\ UNCHANGED payment

SearchPayment(amount, events) ==
    /\ AnalyzerNew
    /\ Len(events) # 1
    /\ payment' = [amount |-> amount, events |-> events,
                   result |-> TAPaymentCandidateSearch(amount, events)]
    /\ UNCHANGED history

PayNext ==
    \/ \E T \in Histories : Analyse(T)
    \/ \E n \in 0 .. MaxEvents : \E events \in [1 .. n -> Amounts], amount \in Amounts :
          SearchPayment(amount, events)

-----------------------------------------------------------------------------
(* Properties.                                                             *)

\* The events that allEvents makes of a history account for all of our money:
\* deposits less withdrawals is what is unspent and the fees we paid, however
\* outputs are spent further on, as long as no transaction is funded by others
\* as well; each unspent output of ours is an unspent event, except in a
\* transfer.  What TATotalBalance reads of them is 0 all the same.
EventsAccount ==
    LET T == history
        ours(tx) == {in \in ToSet(tx.ins) : SelfFunded(T, in)}
        outs(tx, P(_)) == FoldLeft(LAMBDA sum, o : IF P(o) THEN sum + o.amount ELSE sum, 0, tx.outs)
        spent(tx) == FoldSet(LAMBDA in, sum : sum + TransactionForTxid(T, in[1]).outs[in[2]].amount,
                             0, ours(tx))
        fee(tx) == IF ours(tx) = {} THEN 0 ELSE spent(tx) - outs(tx, LAMBDA o : TRUE)
        total(f(_)) == FoldLeft(LAMBDA sum, tx : sum + f(tx), 0, T)
        unspent == total(LAMBDA tx : outs(tx, LAMBDA o : o.ours) - spent(tx))
        events == AllEvents(T)
    IN  T # <<>> /\ ~EventsCrash(T) /\ (\A i \in DOMAIN T : ours(T[i]) \in {{}, ToSet(T[i].ins)}) =>
          /\ TotalAmount(events, "deposit") - TotalAmount(events, "withdrawal") = unspent + total(fee)
          /\ TotalAmount(events, "unspent") = unspent \/ TotalAmount(events, "transfer") > 0
          /\ TATotalBalance(T) = 0

\* "Searches through 'events' in reverse order" (TransactionAnalyzer.h): an
\* event that covers the payment is found.
PaymentFound ==
    (\E j \in DOMAIN payment.events : payment.events[j] >= payment.amount) =>
        ~payment.result.crash /\ TAPaymentCandidateRemainder(payment) >= 0
=============================================================================
