------------------------------ MODULE MCWallet ------------------------------
(***************************************************************************)
(* The parts of the wallet library that keep their state to themselves,    *)
(* for TLC: a behaviour is one of any single part, chosen at the start,    *)
(* while the variables of the others stay as they are.  The parts that     *)
(* interact, the synchronisation with its queue and its blocks, have       *)
(* models of their own (MCChainSync, MCBlockStore, WorkQueue).             *)
(***************************************************************************)
EXTENDS KeyStore, Connection, DataPool, Dictionary, Encodings, HdWallets,
        Publish, PeerTable, TransactionTable, MerkleTree, WalletLedger,
        Payments, Signing, BloomFilter, Webserver, Notifications, CommandLine

VARIABLE part  \* the part whose behaviour this is

-----------------------------------------------------------------------------
(* Constants.                                                              *)

\* Connection: what the peer sends.
MCPeer == <<"version", "junk", "verack", "ping", "badChecksum">>

\* Encodings: arrays of short elements, and ones at the size of a block.
BytesOf(n) == [i \in 1 .. n |-> 9]
MCDatas ==
    UNION {[1 .. n -> {<<>>, <<1>>, <<2, 5>>}] : n \in 0 .. 3}
        \cup {<<BytesOf(15)>>, <<BytesOf(16)>>, <<BytesOf(17), <<255>>>>, <<BytesOf(33)>>}
MCStrings == {Append(s, 0) : s \in UNION {[1 .. n -> {Separator, 97}] : n \in 0 .. 5}}
MCNumbers == {0, 1, 252, 253, 254, 255, 256, 257, 65535, 65536, 16777216}
MCPushes == UNION {[1 .. n -> {0, 1, 75, 76, 255, 256}] : n \in 0 .. 2} \cup {<<1, 0, 300>>}
MCScriptNums == {0, 1, 127, 128, 255, 256, 32767, 32768, 700000, 8388608}
MCHashes == {[i \in 1 .. n |-> (i * k) % 256] : n \in {20, 32}, k \in {0, 1, 76}}
MCEntropy == {[i \in 1 .. n |-> (i * k) % 256] : n \in {16, 20, 24, 28, 32, 36, 40}, k \in {0, 3, 77}}
MCInputs ==
    [prev : {[i \in 1 .. 32 |-> i % 5], [i \in 1 .. 32 |-> (i * 7) % 9]}, index : {1},
     script : {<<>>, BytesOf(4), BytesOf(253)}, sequence : {2}, witness : {<<>>, <<BytesOf(2), <<>>>>}]
MCOutputs == [value : {0, 300}, script : {BytesOf(1), BytesOf(2)}]
MCTxs ==
    {[version |-> 2, inputs |-> ins, outputs |-> outs, locktime |-> 70000] :
        ins \in {<<>>} \cup {<<in>> : in \in MCInputs}
                  \cup {ij \in MCInputs \X MCInputs :
                          ij[1].prev # ij[2].prev /\ Len(ij[1].script) < 253 /\ Len(ij[2].script) < 253},
        outs \in {<<>>, <<[value |-> 1, script |-> <<>>]>>}
                   \cup {<<o, [value |-> 300, script |-> BytesOf(2)]>> : o \in MCOutputs}}
MCMessages == {[i \in 1 .. n |-> (i * 37) % 256] : n \in {0, 2, 16, 55, 56, 64, 111, 112, 119, 120, 129}}
\* A state keeps the blocks themselves; a byte of the digest mixes some of
\* their bytes, so that together they depend on each byte of the last block.
MCCompress(state, block) == Append(state, block)
MCDigestByte(state, i) ==
    LET last == state[Len(state)]
        at(j) == IF j <= Len(last) THEN j * last[j] ELSE 0
        before == IF Len(state) > 1 THEN state[Len(state) - 1][i] ELSE 0
    IN  (at(i) + at(i + 20) + at(i + 40) + at(i + 44) + at(i + 64) + 5 * before + i * Len(state)) % 256
MCCipher(key, block) == [i \in 1 .. 16 |-> (block[(i % 16) + 1] + key[i] + i) % 256]
MCInvCipher(key, block) ==
    [i \in 1 .. 16 |-> LET j == ((i + 14) % 16) + 1 IN (block[j] - key[j] - j) % 256]
MCChecksum(d) == [i \in 1 .. 4 |-> (d[1] * i + d[2] + d[Len(d)]) % 256]

\* PeerTable: the peers that are built in.
MCDefaultPeers == <<"d1">>

\* WalletLedger: two deposits, a payment to the wallet itself and one that only
\* spends.
Deposit(id, i) ==
    [txid |-> id, pays |-> {<<"deposit", i>>}, signs |-> {}, spends |-> {"other"},
     outs |-> 2, stamp |-> 1]
MCWorld ==
    {Deposit("b", 1), Deposit("c", 2),
     [txid |-> "s", pays |-> {<<"change", 0>>, <<"deposit", 3>>}, signs |-> {<<"deposit", 1>>},
      spends |-> {"b"}, outs |-> 2, stamp |-> 2],
     [txid |-> "w", pays |-> {}, signs |-> {}, spends |-> {"c"}, outs |-> 1, stamp |-> 1]}

\* Payments: a deposit, with a payment that has change or is a transfer, and
\* one that spends the change.
Out(ours, amount) == [ours |-> ours, amount |-> amount]
Origin == [txid |-> "o", ins |-> <<>>, outs |-> <<Out(FALSE, 9), Out(FALSE, 9)>>]
MCHistories ==
    {<<Origin,
       [txid |-> "a", ins |-> <<<<"o", 1>>>>, outs |-> <<Out(TRUE, 5), Out(x, 3)>>],
       [txid |-> "b", ins |-> second, outs |-> <<Out(y, 2), Out(z, 2)>>],
       [txid |-> "c", ins |-> <<<<"b", n>>>>, outs |-> <<Out(w, 1)>>]>> :
        x \in BOOLEAN, y \in BOOLEAN, z \in BOOLEAN, w \in BOOLEAN, n \in {1, 2},
        second \in {<<<<"a", 1>>>>, <<<<"a", 2>>>>, <<<<"a", 1>>, <<"a", 2>>>>, <<<<"o", 2>>>>}}

\* Signing: every way of locking an output, alone and beside another.
Vault == VaultScript("m", <<"a", "b", "c">>)
TwoOfThree == MultisigScript(<<"a", "b", "c">>)
MCFundings ==
    {<<P2wsh(Vault), P2pkh("a")>>, <<P2pkh("a"), P2pkh("b")>>, <<P2sh(P2wsh(Vault))>>,
     <<P2wpkh("a"), P2sh(P2wpkh("b"))>>, <<MultisigScript(<<"a", "b">>)>>,
     <<P2sh(TwoOfThree), P2wsh(TwoOfThree)>>}
MCWalletScripts == <<P2wsh(Vault), Vault, P2wpkh("b"), TwoOfThree>>
MCSignItems ==
    {<<Prv("a")>>, <<Prv("b"), Prv("a")>>, <<Prv("m")>>, <<Vault, P2wsh(Vault), Prv("b")>>,
     <<TwoOfThree, P2wpkh("b"), Prv("c")>>}

\* BloomFilter.
MCMurmur(e, s) == e * 7 + s * 5 + ((e * s) % 3)
MCSizeFor(n) == n \div 2
MCHashesFor(n, b) == (b * 8) \div n

\* CommandLine: the flags of a run.
Quiet == [add |-> {}, remove |-> {}, script |-> FALSE, list |-> FALSE, node |-> FALSE,
          funding |-> FALSE, ahead |-> -1, time |-> 0, ask |-> NoQuestion]
AddressQuestions ==
    [is : {"address"}, of : {"x", "v"}, index : {0, 1}, kind : {"own"}]
        \cup {[is |-> "address", of |-> "x", index |-> 0, kind |-> "nested"]}
TxQuestions == [is : {"tx"}, of : {"x"}, index : {0}, needs : {"f"}, unnamed : BOOLEAN]
MCCommands ==
    {[Quiet EXCEPT !.add = s] : s \in SUBSET Xpubs}
    \cup {[Quiet EXCEPT !.remove = {"x"}, !.list = l] : l \in BOOLEAN}
    \cup {[Quiet EXCEPT !.script = TRUE], [Quiet EXCEPT !.funding = TRUE]}
    \cup {[Quiet EXCEPT !.ask = q, !.ahead = n, !.add = s] :
            q \in AddressQuestions, n \in {-1, 1}, s \in {{}, {"x"}}}
    \cup {[Quiet EXCEPT !.ask = q, !.remove = {"x"}] : q \in AddressQuestions}
    \cup {[Quiet EXCEPT !.ask = q, !.ahead = n, !.node = d, !.time = t, !.funding = f] :
            q \in TxQuestions \cup {NoQuestion}, n \in {-1, 1}, d \in BOOLEAN,
            t \in {0, 2}, f \in BOOLEAN}

-----------------------------------------------------------------------------
(* Any one part.                                                           *)

Parts == {"keys", "connection", "pools", "dictionary", "encodings", "hd", "publish",
          "peers", "table", "merkle", "ledger", "payments", "signing", "bloom",
          "web", "notes", "cli"}

Only(p, vars) == IF part = p THEN TRUE ELSE UNCHANGED vars

OthersUnchanged ==
    /\ UNCHANGED part
    /\ Only("keys", keyVars) /\ Only("connection", connVars) /\ Only("pools", poolVars)
    /\ Only("dictionary", dictVars) /\ Only("encodings", codeVars) /\ Only("hd", hdVars)
    /\ Only("publish", pubVars) /\ Only("peers", peerVars) /\ Only("table", tableVars)
    /\ Only("merkle", merkleVars) /\ Only("ledger", ledgerVars) /\ Only("payments", payVars)
    /\ Only("signing", signVars) /\ Only("bloom", bloomVars) /\ Only("web", webVars)
    /\ Only("notes", noteVars) /\ Only("cli", cliVars)

\* A part with several initial states has one of them when it is not chosen.
OneStart ==
    /\ part # "pools" => datas = NoDatas(1)
    /\ part # "table" => DOMAIN blockRows = {}
    /\ part # "ledger" => keyRoots = Chains
    /\ part # "signing" => inputs = <<NewInput(MultisigScript(<<"a", "b">>))>>
    /\ part # "bloom" => filter = NewFilter(1)
    /\ part # "cli" => net = "main"

Init ==
    /\ part \in Parts
    /\ KeyInit /\ ConnInit /\ PoolInit /\ DictInit /\ CodeInit /\ HdInit /\ PublishInit
    /\ PeerInit /\ TableInit /\ MerkleInit /\ LedgerInit /\ PayInit /\ SignInit
    /\ BloomInit /\ WebInit /\ NoteInit /\ CliInit
    /\ OneStart

Next ==
    /\ OthersUnchanged
    /\ \/ part = "keys" /\ KeyNext
       \/ part = "connection" /\ ConnNext
       \/ part = "pools" /\ PoolNext
       \/ part = "dictionary" /\ DictNext
       \/ part = "encodings" /\ CodeNext
       \/ part = "hd" /\ HdNext
       \/ part = "publish" /\ PublishNext
       \/ part = "peers" /\ PeerNext
       \/ part = "table" /\ TableNext
       \/ part = "merkle" /\ MerkleNext
       \/ part = "ledger" /\ LedgerNext
       \/ part = "payments" /\ PayNext
       \/ part = "signing" /\ SignNext
       \/ part = "bloom" /\ BloomNext
       \/ part = "web" /\ WebNext
       \/ part = "notes" /\ NoteNext
       \/ part = "cli" /\ CliNext

allVars == <<part, keyVars, connVars, poolVars, dictVars, codeVars, hdVars, pubVars, peerVars,
             tableVars, merkleVars, ledgerVars, payVars, signVars, bloomVars, webVars,
             noteVars, cliVars>>

Spec == Init /\ [][Next]_allVars
=============================================================================
