------------------------------- MODULE Signing -------------------------------
(***************************************************************************)
(* Transaction.c: what a wallet, its co-signers and a hardware signer do   *)
(* to the inputs of one transaction before it is published.  Scripts, hashes *)
(* and signatures are terms: a hash is equal to another when what is       *)
(* hashed is, and a signature fits the digest it was made for.  Outputs,   *)
(* sequences and lock times are part of every digest and do not change.    *)
(***************************************************************************)
EXTENDS Integers, Sequences, SequencesExt

CONSTANTS
    Fundings,       \* the sequences of funding scripts a transaction may have
    WalletScripts,  \* the scripts TransactionAddScripts is given
    SignItems,      \* the sequences of keys and scripts TransactionSign is given
    CoSigners,      \* the keys that sign digests elsewhere
    MaxSignCalls    \* bound on the calls

VARIABLES
    inputs,     \* transaction.inputs: funding script, script data, witness
    finalized,  \* what the last call of TransactionFinalize returned
    signCalls,  \* the functions called so far
    signCount,  \* and how often
    signing     \* "alive", or "aborted" after abort()

signVars == <<inputs, finalized, signCalls, signCount, signing>>

\* The terms: keys, signatures, scripts and what hashes to them.
None == [is |-> "none"]
Blank == [is |-> "empty"]
Prv(k) == [is |-> "priv", key |-> k]
Pub(k) == [is |-> "pub", key |-> k]
Sig(k, d) == [is |-> "sig", key |-> k, digest |-> d]
P2pkh(k) == [is |-> "p2pkh", key |-> k]
P2wpkh(k) == [is |-> "p2wpkh", key |-> k]
P2wsh(s) == [is |-> "p2wsh", script |-> s]
P2sh(s) == [is |-> "p2sh", script |-> s]
\* A script of CHECKSIG and CHECKMULTISIG operators, in the order they run.
Checks(cs) == [is |-> "checks", checks |-> cs]
One(k) == [need |-> 1, keys |-> <<k>>, multi |-> FALSE]
\* multisigScript, vaultScript: two thirds of the keys, at least one; the
\* keys come sorted.
Quorum(ks) ==
    [need |-> IF (Len(ks) * 2) \div 3 < 1 THEN 1 ELSE (Len(ks) * 2) \div 3,
     keys |-> ks, multi |-> TRUE]
MultisigScript(ks) == Checks(<<Quorum(ks)>>)
VaultScript(master, ks) == Checks(<<One(master), Quorum(ks)>>)

\* scriptData: nothing, a script, or pushes.
Raw(s) == [is |-> "raw", script |-> s]
Pushes(q) == [is |-> "pushes", items |-> q]
ReadPushes(d) == IF d.is = "pushes" THEN d.items ELSE <<>>
LastOf(q) == IF q = <<>> THEN None ELSE q[Len(q)]

InputType(in) ==
    IF in.funding.is = "none" THEN "unknown"
    ELSE IF in.funding.is = "checks" THEN "p2pk" ELSE in.funding.is
Legacy(in) == InputType(in) \in {"p2pk", "p2pkh", "p2sh"}

\* allPubKeys, allCheckSigs: the operators are put at the front one by one.
AllCheckSigs(s) == IF s.is = "checks" THEN Reverse(s.checks) ELSE <<>>
\* A plausible slip: the keys in the order the operators run.
AllPubKeysForward(s) ==
    IF s.is = "checks"
    THEN FlattenSeq([i \in 1..Len(s.checks) |-> s.checks[i].keys]) ELSE <<>>
AllPubKeys(s) ==
    FlattenSeq([i \in 1..Len(AllCheckSigs(s)) |-> AllCheckSigs(s)[i].keys])

SetScript(tx, i, d) == [tx EXCEPT ![i].data = d]
SetStack(tx, i, q) == [tx EXCEPT ![i].stack = q]

\* TransactionDigest covers the script data of every input;
\* TransactionWitnessDigest only that of its own.
Digest(tx) == [index |-> 0, scripts |-> [j \in DOMAIN tx |-> tx[j].data]]
WitnessDigest(i, s) == [index |-> i, script |-> s]
Verify(item, d, k) == item.is = "sig" /\ item.key = k /\ item.digest = d

\* How these functions begin and end: the script data of the legacy inputs is
\* put aside, and what is in the dictionary at the end is put back.
PutAside(tx) == [i \in DOMAIN tx |-> IF Legacy(tx[i]) THEN tx[i].data ELSE None]
Cleared(tx) ==
    [i \in DOMAIN tx |-> IF Legacy(tx[i]) THEN [tx[i] EXCEPT !.data = None] ELSE tx[i]]
PutBack(tx, aside) ==
    [i \in DOMAIN tx |-> IF aside[i].is = "none" THEN tx[i]
                         ELSE [tx[i] EXCEPT !.data = aside[i]]]

-----------------------------------------------------------------------------
\* TransactionFinalize.

\* The signatures of a stack in the order of the keys; after one is taken the
\* loop goes on behind the one that follows it.
SignatureTaken(sigs, i, script, k) ==
    LET Step(acc, j) ==
          IF j >= acc.next /\ j <= Len(acc.left)
             /\ Verify(acc.left[j], WitnessDigest(i, script), k)
          THEN [left |-> RemoveAt(acc.left, j), sorted |-> Append(acc.sorted, acc.left[j]),
                next |-> j + 1]
          ELSE [acc EXCEPT !.next = j + 1]
    IN  FoldLeft(Step, [left |-> sigs.left, sorted |-> sigs.sorted, next |-> 1],
                 [j \in 1..Len(sigs.left) |-> j])
SortedStack(stack, i) ==
    LET script == LastOf(stack)
        Step(acc, k) == SignatureTaken(acc, i, script, k)
    IN  Append(FoldLeft(Step, [left |-> Front(stack), sorted |-> <<>>, next |-> 1],
                        AllPubKeys(script)).sorted, script)
Sortable(tx, i) ==
    Len(tx[i].stack) > 2 => Len(SortedStack(tx[i].stack, i)) = Len(tx[i].stack)
SortSignatures(tx) ==
    [i \in DOMAIN tx |->
        IF Len(tx[i].stack) > 2 /\ Sortable(tx, i)
        THEN [tx[i] EXCEPT !.stack = SortedStack(tx[i].stack, i)] ELSE tx[i]]

SumOf(cs) == FoldLeft(LAMBDA n, c : n + c.need, 0, cs)
Exact(stack) == Len(stack) - 1 = SumOf(AllCheckSigs(LastOf(stack)))
WithBlanks(stack) ==
    LET Step(acc, c) ==
          [at |-> acc.at + c.need,
           new |-> acc.new \o (IF c.multi THEN <<Blank>> ELSE <<>>)
                           \o SubSeq(stack, acc.at + 1, acc.at + c.need)]
    IN  Append(FoldLeft(Step, [at |-> 0, new |-> <<>>], AllCheckSigs(LastOf(stack))).new,
               LastOf(stack))
CorrectMultisig(stack) ==
    IF Len(stack) > 1 /\ Exact(stack) THEN WithBlanks(stack) ELSE stack
CorrectMultisigSignatures(tx) ==
    [i \in DOMAIN tx |-> [tx[i] EXCEPT !.stack = CorrectMultisig(tx[i].stack)]]

FinalizeResult(tx) == \A i \in DOMAIN tx : Sortable(tx, i)
Finalize(tx) ==
    PutBack(CorrectMultisigSignatures(SortSignatures(Cleared(tx))), PutAside(tx))

-----------------------------------------------------------------------------
\* TransactionSign: three loops over the items, each over the inputs.

Pairs(items, n) ==
    [m \in 1..(Len(items) * n) |-> <<items[1 + (m - 1) \div n], 1 + ((m - 1) % n)>>]
InsertBeforeLast(q, x) == InsertAt(q, Len(q), x)
Has(q, x) == \E j \in DOMAIN q : q[j] = x

\* The first loop.  For P2PK and P2PKH inputs the funding script is put in place
\* to be signed, and is left there when the item is not a key.
SignFunding(st, p) ==
    LET item == p[1]
        i == p[2]
        in == st.tx[i]
        shown == SetScript(st.tx, i, Raw(in.funding))
        mine == item.is = "priv"
    IN  CASE InputType(in) = "p2pk" ->
               IF ~mine THEN [st EXCEPT !.tx = shown]
               ELSE [tx |-> SetScript(st.tx, i, None),
                     sigs |-> IF Has(AllPubKeys(in.funding), item.key)
                              THEN [st.sigs EXCEPT ![i] = Pushes(Append(ReadPushes(@),
                                        Sig(item.key, Digest(shown))))]
                              ELSE st.sigs]
          [] InputType(in) = "p2pkh" ->
               IF ~mine THEN [st EXCEPT !.tx = shown]
               ELSE [tx |-> SetScript(st.tx, i, None),
                     sigs |-> IF in.funding = P2pkh(item.key)
                              THEN [st.sigs EXCEPT ![i] =
                                        Pushes(<<Sig(item.key, Digest(shown)), Pub(item.key)>>)]
                              ELSE st.sigs]
          [] InputType(in) = "p2wpkh" /\ mine /\ in.funding = P2wpkh(item.key) ->
               [st EXCEPT !.tx = SetStack(@, i,
                   <<Sig(item.key, WitnessDigest(i, P2pkh(item.key))), Pub(item.key)>>)]
          [] InputType(in) = "p2sh" /\ in.funding = P2sh(item) ->
               [st EXCEPT !.sigs[i] = Pushes(<<item>>)]
          [] InputType(in) = "p2wsh" /\ in.funding = P2wsh(item) ->
               [st EXCEPT !.tx = SetStack(@, i, <<item>>)]
          [] OTHER -> st

\* The second: the witness script of a nested P2WSH input.
SignNested(st, p) ==
    IF /\ InputType(st.tx[p[2]]) = "p2sh"
       /\ ReadPushes(st.sigs[p[2]]) # <<>>
       /\ LastOf(ReadPushes(st.sigs[p[2]])) = P2wsh(p[1])
    THEN [st EXCEPT !.tx = SetStack(@, p[2], <<p[1]>>)] ELSE st

\* The third: signatures for scripts.
SignWitness(st, i, k) ==
    LET stack == st.tx[i].stack
        sig == Sig(k, WitnessDigest(i, LastOf(stack)))
    IN  IF /\ InputType(st.tx[i]) = "p2wsh" \/ stack # <<>>
           /\ Has(AllPubKeys(LastOf(stack)), k)
           /\ ~Has(stack, sig)
        THEN [st EXCEPT !.tx = SetStack(@, i, InsertBeforeLast(stack, sig))] ELSE st
SignScript(st, p) ==
    LET i == p[2]
        k == p[1].key
        held == ReadPushes(st.sigs[i])
    IN  IF p[1].is # "priv" THEN st
        ELSE IF InputType(st.tx[i]) = "p2sh" /\ LastOf(held) = P2wpkh(k)
        THEN [st EXCEPT !.tx = SetStack(@, i,
                  <<Sig(k, WitnessDigest(i, P2pkh(k))), Pub(k)>>)]
        ELSE IF InputType(st.tx[i]) = "p2sh" /\ Has(AllPubKeys(LastOf(held)), k)
        THEN SignWitness([st EXCEPT !.sigs[i] =
                  Pushes(InsertBeforeLast(held, Sig(k, Digest(st.tx))))], i, k)
        ELSE SignWitness(st, i, k)

Signed(tx, items) ==
    LET all == Pairs(items, Len(tx))
        start == [tx |-> Cleared(tx), sigs |-> PutAside(tx)]
        end == FoldLeft(SignScript, FoldLeft(SignNested, FoldLeft(SignFunding, start, all), all), all)
    IN  PutBack(end.tx, end.sigs)

-----------------------------------------------------------------------------
\* Scripts, public keys, digests and signatures handed over one by one.

AddScript(tx, s) ==
    LET Given(in) ==
          IF InputType(in) = "p2sh"
          THEN LET shown == IF in.funding = P2sh(s)
                            THEN [in EXCEPT !.data = Pushes(<<s>>)] ELSE in
               IN  IF LastOf(ReadPushes(shown.data)) = P2wsh(s)
                   THEN [shown EXCEPT !.stack = <<s>>] ELSE shown
          ELSE IF InputType(in) = "p2wsh" /\ in.funding = P2wsh(s)
          THEN [in EXCEPT !.stack = <<s>>] ELSE in
    IN  [i \in DOMAIN tx |-> Given(tx[i])]
\* TransactionAddScripts repeats until nothing fits any more; a script that
\* did is not tried again.
AddScripts(tx, ss) ==
    FoldLeft(AddScript, tx, ss \o ss)

AddPubKey(tx, k) ==
    LET Given(in) ==
          CASE InputType(in) = "p2sh" /\ LastOf(ReadPushes(in.data)) = P2wpkh(k) ->
                 [in EXCEPT !.stack = <<Pub(k)>>]
            [] InputType(in) = "p2pkh" /\ in.funding = P2pkh(k) ->
                 [in EXCEPT !.data = Pushes(<<Pub(k)>>)]
            [] InputType(in) = "p2wpkh" /\ in.funding = P2wpkh(k) ->
                 [in EXCEPT !.stack = <<Pub(k)>>]
            [] OTHER -> in
    IN  [i \in DOMAIN tx |-> Given(tx[i])]

\* mainPubKeys, as keys, or "" for data that is not one.
MainPubKeys(in, sig) ==
    LET last == LastOf(ReadPushes(sig))
    IN  AllPubKeys(last) \o AllPubKeys(in.funding)
          \o <<IF last.is = "pub" THEN last.key ELSE "">>

DigestsFor(tx, k, exceptSigned) ==
    LET bare == Cleared(tx)
        Script(i) == LastOf(tx[i].stack)
        SignedBy(i) == \E j \in 1..(Len(tx[i].stack) - 1) :
                          Verify(tx[i].stack[j], WitnessDigest(i, Script(i)), k)
    IN  {Digest(SetScript(bare, i, Raw(tx[i].funding))) : i \in
            {i \in DOMAIN tx : Has(MainPubKeys(tx[i], PutAside(tx)[i]), k)}}
        \cup {WitnessDigest(i, P2pkh(k)) : i \in {i \in DOMAIN tx : Script(i) = Pub(k)}}
        \cup {WitnessDigest(i, Script(i)) : i \in
                {i \in DOMAIN tx : Has(AllPubKeys(Script(i)), k)
                                   /\ ~(exceptSigned /\ SignedBy(i))}}

\* TransactionAddSignature.  The loop over the public keys of an input has
\* an index of the same name: a legacy signature is stored for the input whose
\* number is that of the key.  Beyond the inputs the program writes past the array.
AddLegacySignature(st, i, sig) ==
    LET keys == MainPubKeys(st.tx[i], st.sigs[i])
        shown == Digest(SetScript(st.tx, i, Raw(st.tx[i].funding)))
        Step(acc, m) ==
          IF ~Verify(sig, shown, keys[m]) THEN acc
          ELSE IF m \notin DOMAIN acc.sigs THEN [acc EXCEPT !.lost = TRUE]
          ELSE [acc EXCEPT !.sigs[m] = Pushes(Append(ReadPushes(@), sig))]
    IN  FoldLeft(Step, st, Reverse([m \in 1..Len(keys) |-> m]))
AddWitnessSignature(stack, i, sig) ==
    LET last == LastOf(stack)
        fits == Len(SelectSeq(AllPubKeys(last),
                              LAMBDA k : Verify(sig, WitnessDigest(i, last), k)))
        front == IF last.is = "pub" /\ Verify(sig, WitnessDigest(i, P2pkh(last.key)), last.key)
                 THEN 1 ELSE 0
    IN  [j \in 1..(fits + front) |-> sig] \o stack
AddSignature(tx, sig) ==
    LET Step(st, i) ==
          LET legacy == AddLegacySignature(st, i, sig)
              bare == SetScript(legacy.tx, i, None)
          IN  [legacy EXCEPT !.tx = SetStack(bare, i,
                                    AddWitnessSignature(bare[i].stack, i, sig))]
        end == FoldLeft(Step, [tx |-> Cleared(tx), sigs |-> PutAside(tx), lost |-> FALSE],
                        [i \in 1..Len(tx) |-> i])
    IN  [tx |-> PutBack(end.tx, end.sigs), lost |-> end.lost]

\* TransactionValidateSignature looks at witnesses only.
ValidateSignature(tx, i) ==
    LET stack == tx[i].stack
        script == LastOf(stack)
        Count(c) == Len(SelectSeq(
            [m \in 1..(Len(c.keys) * (Len(stack) - 1)) |->
                <<c.keys[1 + (m - 1) \div (Len(stack) - 1)],
                  stack[1 + ((m - 1) % (Len(stack) - 1))]>>],
            LAMBDA p : Verify(p[2], WitnessDigest(i, script), p[1])))
    IN  \/ Len(stack) = 2 /\ script.is = "pub"
           /\ Verify(stack[1], WitnessDigest(i, P2pkh(script.key)), script.key)
        \/ script.is # "checks"
        \/ \A c \in Range(script.checks) :
              IF Len(stack) = 1 THEN FALSE
              ELSE IF c.multi THEN Count(c) = c.need ELSE Count(c) >= 1

-----------------------------------------------------------------------------
NewInput(f) == [funding |-> f, data |-> None, stack |-> <<>>]

SignInit ==
    /\ \E fs \in Fundings : inputs = [i \in 1..Len(fs) |-> NewInput(fs[i])]
    /\ finalized = FALSE
    /\ signCalls = {}
    /\ signCount = 0
    /\ signing = "alive"

CallSign(name) ==
    /\ signing = "alive"
    /\ signCount < MaxSignCalls
    /\ signCount' = signCount + 1
    /\ signCalls' = signCalls \cup {name}

\* TransactionSign finalizes, and aborts when that fails.
TransactionSign ==
    \E items \in SignItems :
        /\ CallSign(IF \A j \in DOMAIN items : items[j].is = "priv" THEN "keys" ELSE "items")
        /\ LET tx == Signed(inputs, items)
           IN  /\ inputs' = Finalize(tx)
               /\ finalized' = FinalizeResult(Cleared(tx))
               /\ signing' = IF FinalizeResult(Cleared(tx)) THEN "alive" ELSE "aborted"
TransactionAddScripts ==
    /\ CallSign("scripts")
    /\ inputs' = AddScripts(inputs, WalletScripts)
    /\ finalized' = FALSE
    /\ UNCHANGED signing
TransactionAddPubKey ==
    /\ CallSign("pubkey")
    /\ \E k \in CoSigners : inputs' = AddPubKey(inputs, k)
    /\ finalized' = FALSE
    /\ UNCHANGED signing
\* A signer asks for the digests of its key and its signature comes back.
TransactionAddSignature ==
    /\ CallSign("signature")
    /\ \E k \in CoSigners, x \in BOOLEAN : \E d \in DigestsFor(inputs, k, x) :
           LET r == AddSignature(inputs, Sig(k, d))
           IN  /\ inputs' = r.tx
               /\ signing' = IF r.lost THEN "aborted" ELSE "alive"
    /\ finalized' = FALSE
TransactionFinalize ==
    /\ CallSign("finalize")
    /\ inputs' = Finalize(inputs)
    /\ finalized' = FinalizeResult(Cleared(inputs))
    /\ UNCHANGED signing

SignNext ==
    \/ TransactionSign
    \/ TransactionAddScripts
    \/ TransactionAddPubKey
    \/ TransactionAddSignature
    \/ TransactionFinalize

-----------------------------------------------------------------------------
\* What a node of the network accepts: the operators take their signatures
\* from the end of the stack; those of a CHECKMULTISIG are in the order of its
\* keys, below them is one more element, and nothing is left over.
Ordered(sigs, c, d) ==
    \E f \in [1..c.need -> 1..Len(c.keys)] :
        /\ \A a, b \in 1..c.need : a < b => f[a] < f[b]
        /\ \A a \in 1..c.need : Verify(sigs[a], d, c.keys[f[a]])
RunCheck(st, c) ==
    LET n == c.need + (IF c.multi THEN 1 ELSE 0)
        from == Len(st.stack) - c.need + 1
    IN  IF ~st.ok \/ Len(st.stack) < n THEN [st EXCEPT !.ok = FALSE]
        ELSE [st EXCEPT !.ok = Ordered(SubSeq(st.stack, from, Len(st.stack)), c, st.digest)
                               /\ (c.multi => st.stack[from - 1] = Blank),
                        !.stack = SubSeq(@, 1, Len(@) - n)]
WitnessAccepted(i, stack) ==
    LET script == LastOf(stack)
    IN  IF script.is = "pub"
        THEN Len(stack) = 2 /\ Verify(stack[1], WitnessDigest(i, P2pkh(script.key)), script.key)
        ELSE LET end == FoldLeft(RunCheck, [ok |-> TRUE, stack |-> Front(stack),
                                            digest |-> WitnessDigest(i, script)], script.checks)
             IN  end.ok /\ end.stack = <<>>
LegacyAccepted(tx, i) ==
    LET q == ReadPushes(tx[i].data)
        shown == Digest(SetScript([j \in DOMAIN tx |-> [tx[j] EXCEPT !.data = None]],
                                  i, Raw(tx[i].funding)))
    IN  q # <<>> /\ Verify(q[1], shown, tx[i].funding.key)
                 /\ q[2] = Pub(tx[i].funding.key)

\* A transaction whose signatures TransactionFinalize has sorted, and
\* TransactionValidateSignatures has counted, is accepted by the network for
\* every input with more than a script or a key in its witness, in whatever
\* order the signers came, as long as none signed it twice; and the P2PKH
\* inputs that TransactionSign signed with nothing but keys are, too.
FinalizedIsAccepted ==
    /\ finalized /\ (\A i \in DOMAIN inputs : ValidateSignature(inputs, i)) =>
          \A i \in DOMAIN inputs :
             Len(inputs[i].stack) > 1 /\ IsInjective(inputs[i].stack)
                => WitnessAccepted(i, inputs[i].stack)
    /\ signCalls \subseteq {"keys", "finalize"} =>
          \A i \in DOMAIN inputs :
             InputType(inputs[i]) = "p2pkh" /\ inputs[i].data.is # "none"
                => LegacyAccepted(inputs, i)
=============================================================================
