------------------------------ MODULE Encodings ------------------------------
(***************************************************************************)
(* How values become bytes and come back: the arrays and strings of        *)
(* Data.c; the integers, pushes, script numbers, hexadecimal, padding,     *)
(* addresses and mnemonics of BTCUtil.c; the transactions of               *)
(* Transaction.c.  Bytes are numbers 0 .. 255 and every length is real,    *)
(* since what goes wrong here goes wrong at a length.                      *)
(***************************************************************************)
EXTENDS TextForms, Hashing

CONSTANTS
    DatasInputs,    \* arrays of Data to serialize
    StringInputs,   \* strings (with their NUL) to split at Separator
    NumberInputs,   \* numbers to write as variable length integers
    PushInputs,     \* lists of lengths of what is pushed by a script
    ScriptInputs,   \* numbers to write as script numbers
    HashInputs,     \* hashes of 20 or 32 bytes to pay to
    EntropyInputs,  \* keys to write as words
    TxInputs,       \* transactions to serialize
    MessageInputs,  \* messages to hash and to encrypt
    Checksum(_)     \* the first four bytes of hash256, of any four

VARIABLE coded  \* what has been encoded, and how

codeVars == <<coded>>

Separator == 47 \* '/'

-----------------------------------------------------------------------------
(* Data and Datas.                                                         *)

\* memcmp of what both have, then the length.
DataCompare(a, b) ==
    LET common == {i \in DOMAIN a \cap DOMAIN b : a[i] # b[i]}
        first == CHOOSE i \in common : \A j \in common : i <= j
    IN  IF common = {} THEN Len(a) - Len(b) ELSE a[first] - b[first]

DataAppend(a, b) == a \o b
DataCopyDataPart(d, start, length) == SubSeq(d, start + 1, start + length)
DataDelete(d, start, length) == SubSeq(d, 1, start) \o SubSeq(d, start + length + 1, Len(d))
DataTrimFront(d, n) == DataDelete(d, 0, n)
DataInsert(d, index, ins) == SubSeq(d, 1, index) \o ins \o SubSeq(d, index + 1, Len(d))

\* The bytes of an unsigned integer of w bytes, least significant first.
RECURSIVE UintD(_, _)
UintD(n, w) == IF w = 0 THEN <<>> ELSE <<n % 256>> \o UintD(n \div 256, w - 1)

RECURSIVE UintValue(_)
UintValue(d) == IF d = <<>> THEN 0 ELSE d[1] + 256 * UintValue(Tail(d))

\* DatasSerialize: for each element its length in four bytes and its bytes.
DatasSerialize(ds) == FlattenSeq([i \in DOMAIN ds |-> UintD(Len(ds[i]), 4) \o ds[i]])

\* Mutant: an element that ends with the data is not taken.
HasMore(d, length) == length < Len(d) - 4
\* if(length > data.length - i) break;
HasAll(d, length) == length <= Len(d) - 4

\* DatasDeserialize stops at the first element that is not all there.
RECURSIVE DatasDeserialize(_)
DatasDeserialize(d) ==
    IF Len(d) < 4 THEN <<>>
    ELSE LET length == UintValue(SubSeq(d, 1, 4))
         IN  IF ~HasAll(d, length) THEN <<>>
             ELSE <<DataCopyDataPart(d, 4, length)>>
                  \o DatasDeserialize(SubSeq(d, 5 + length, Len(d)))

\* DictionarySerialize and DictionaryDeserialize: keys and values alternate;
\* an odd number aborts.
DictionarySerialize(entriesOf) ==
    DatasSerialize(FlattenSeq([i \in DOMAIN entriesOf |-> <<entriesOf[i].key, entriesOf[i].value>>]))
DictionaryDeserialize(d) ==
    LET ds == DatasDeserialize(d)
    IN  IF Len(ds) % 2 = 1 THEN <<"abort">>
        ELSE [i \in 1 .. Len(ds) \div 2 |-> [key |-> ds[2 * i - 1], value |-> ds[2 * i]]]

\* DictionaryIntersection: the keys of both, with the values of the smaller
\* dictionary (of the first if they are as large).
DictionaryIntersection(a, b) ==
    LET keys(d) == {d[i].key : i \in DOMAIN d}
        smaller == IF Len(a) > Len(b) THEN b ELSE a
        larger == IF Len(a) > Len(b) THEN a ELSE b
    IN  SelectSeq(smaller, LAMBDA e : e.key \in keys(larger))

\* StringMutateEnsureNullByte, StringCopy, StringAdd and StringPrefix.
EnsureNull(s) == IF s # <<>> /\ s[Len(s)] = 0 THEN s ELSE Append(s, 0)
StringAdd(s, t) == EnsureNull(SubSeq(s, 1, Len(s) - 1) \o t)
StringPrefix(prefix, s) == EnsureNull(prefix \o s)

\* StringComponents: `last` is the last component so far, i where it looks for
\* the separator.  After a split i is 0, and then the
\* loop's i++ takes it to the second character.
RECURSIVE SplitFrom(_, _)
SplitFrom(last, i) ==
    IF i > Len(last) THEN <<last>>
    ELSE IF last[i] # Separator THEN SplitFrom(last, i + 1)
    ELSE LET first == Append(SubSeq(last, 1, i - 1), 0)
             rest == SubSeq(last, i + 1, Len(last))
         IN  <<first>> \o SplitFrom(rest, 2)

StringComponents(s) == SplitFrom(s, 1)

-----------------------------------------------------------------------------
(* Integers, pushes and scripts.                                           *)

\* varIntD: a number below 256 is one byte, also 253, 254 and 255.
varIntD(n) ==
    IF n < 256 THEN UintD(n, 1)
    ELSE IF n < 65536 THEN <<253>> \o UintD(n, 2)
    ELSE <<254>> \o UintD(n, 4)

\* uintreadP: at the end of the data nothing more is read, and it yields 0.
ReadUint(d, w) ==
    IF Len(d) >= w THEN [value |-> UintValue(SubSeq(d, 1, w)), rest |-> SubSeq(d, w + 1, Len(d))]
    ELSE [value |-> 0, rest |-> <<>>]

readVarInt(d) ==
    LET first == ReadUint(d, 1)
    IN  CASE first.value < 253 -> first
          [] first.value = 253 -> ReadUint(first.rest, 2)
          [] first.value = 254 -> ReadUint(first.rest, 4)
          [] OTHER -> ReadUint(first.rest, 8)

PUSHDATA1 == 76
PUSHDATA2 == 77
PUSHDATA4 == 78

pushData(amount) ==
    IF amount >= 65536 THEN <<PUSHDATA4>> \o UintD(amount, 4)
    ELSE IF amount >= 256 THEN <<PUSHDATA2>> \o UintD(amount, 2)
    ELSE IF amount >= PUSHDATA1 THEN <<PUSHDATA1>> \o UintD(amount, 1)
    ELSE UintD(amount, 1)

scriptPush(d) == pushData(Len(d)) \o d
writePushes(items) == FlattenSeq([i \in DOMAIN items |-> scriptPush(items[i])])

isPushData(d) == d # <<>> /\ d[1] > 0 /\ d[1] <= PUSHDATA4

\* readPushDataWithOp, of a byte for which isPushData holds.
readPushData(d) ==
    LET first == ReadUint(d, 1)
    IN  CASE first.value = PUSHDATA1 -> ReadUint(first.rest, 1)
          [] first.value = PUSHDATA2 -> ReadUint(first.rest, 2)
          [] first.value = PUSHDATA4 -> ReadUint(first.rest, 4)
          [] OTHER -> first

\* readBytes: all of it, or nothing and the end.
readBytes(n, d) ==
    IF Len(d) >= n THEN [data |-> SubSeq(d, 1, n), rest |-> SubSeq(d, n + 1, Len(d))]
    ELSE [data |-> <<>>, rest |-> <<>>]

\* readPushes stops at what is not a push, an empty element (OP_0) included.
RECURSIVE readPushes(_)
readPushes(d) ==
    IF ~isPushData(d) THEN <<>>
    ELSE LET length == readPushData(d)
             bytes == readBytes(length.value, length.rest)
         IN  <<bytes.data>> \o readPushes(bytes.rest)

\* scriptToTokens: [op, data, error] for each operation of a script.
RECURSIVE scriptToTokens(_)
scriptToTokens(d) ==
    IF d = <<>> THEN <<>>
    ELSE IF ~isPushData(d) THEN <<[op |-> d[1], data |-> <<>>, error |-> FALSE]>>
                                \o scriptToTokens(Tail(d))
    ELSE LET length == readPushData(d)
             bytes == readBytes(length.value, length.rest)
         IN  <<[op |-> d[1], data |-> bytes.data, error |-> Len(bytes.data) # length.value]>>
             \o scriptToTokens(bytes.rest)

\* encodeScriptNum of a number that is not negative (jimmyScript's heights).
RECURSIVE Magnitude(_)
Magnitude(n) == IF n = 0 THEN <<>> ELSE <<n % 256>> \o Magnitude(n \div 256)

encodeScriptNum(n) ==
    LET d == Magnitude(n)
    IN  IF d # <<>> /\ d[Len(d)] >= 128 THEN Append(d, 0) ELSE d

\* What a script interpreter reads: the top bit is the sign.
ScriptNumValue(d) ==
    IF d = <<>> THEN 0
    ELSE IF d[Len(d)] < 128 THEN UintValue(d)
    ELSE -UintValue([d EXCEPT ![Len(d)] = @ - 128])

\* toHex and fromHex, with a character as the number it stands for.
toHex(d) == [i \in 1 .. 2 * Len(d) |-> IF i % 2 = 1 THEN d[(i + 1) \div 2] \div 16
                                       ELSE d[i \div 2] % 16]
fromHex(s) == [i \in 1 .. Len(s) \div 2 |-> s[2 * i - 1] * 16 + s[2 * i]]

\* padData16 and unpadData16 around AES: a whole block more if it fits exactly.
padData16(d) == LET n == 16 - (Len(d) % 16) IN d \o [i \in 1 .. n |-> n]
unpadData16(d) ==
    IF d = <<>> THEN d
    ELSE IF d[Len(d)] > Len(d) \/ d[Len(d)] > 16 THEN <<"null">>
    ELSE SubSeq(d, 1, Len(d) - d[Len(d)])

\* encryptAES and decryptAES: a key of the wrong length, and a text that is not
\* whole blocks, are refused.
InitVector(nonce) == SubSeq(sha256(UintD(nonce, 8)), 1, 16)
encryptAES(d, key, nonce) ==
    IF Len(key) # 32 THEN <<"null">> ELSE AES_CBC_encrypt_buffer(key, InitVector(nonce), padData16(d))
decryptAES(d, key, nonce) ==
    IF Len(key) # 32 \/ Len(d) % 16 # 0 THEN <<"null">>
    ELSE unpadData16(AES_CBC_decrypt_buffer(key, InitVector(nonce), d))

-----------------------------------------------------------------------------
(* Scripts and addresses.  An address is its form, its prefix and the      *)
(* characters after that.                                                  *)

OP_DUP == 118
OP_EQUAL == 135
OP_EQUALVERIFY == 136
OP_HASH160 == 169
OP_CHECKSIG == 172

p2pkhPubScript(hash) == <<OP_DUP, OP_HASH160, 20>> \o hash \o <<OP_EQUALVERIFY, OP_CHECKSIG>>
p2shPubScript(hash) == <<OP_HASH160>> \o scriptPush(hash) \o <<OP_EQUAL>>
p2wpkhPubScript(hash) == <<0>> \o scriptPush(hash)
p2wshPubScript(hash) == <<0>> \o scriptPush(hash)
p2wshHashFromPubScript(script) ==
    IF Len(script) = 34 /\ script[1] = 0 /\ script[2] = 32 THEN SubSeq(script, 3, 34) ELSE <<>>

MainPrefix == <<98, 99>>    \* "bc"
TestPrefix == <<116, 98>>   \* "tb"
NoAddress == [form |-> "null", prefix |-> <<>>, chars |-> <<>>]
base58Address(hash, version) ==
    [form |-> "base58", prefix |-> <<>>,
     chars |-> EncodeBase58(<<version>> \o hash \o Checksum(<<version>> \o hash))]
toSegwit(program, prefix) ==
    [form |-> "segwit", prefix |-> prefix, chars |-> segwit_addr_encode(prefix, 0, program).data]
fromSegwit(a) == segwit_addr_decode(a.prefix, a.chars).data

\* The version byte of each kind on both networks.
P2PKH == {0, 111}
P2SH == {5, 196}

\* addressToPubScript takes the bytes of either form by their number only, and
\* those of any witness version for version 0.
PubScriptOf(d) ==
    CASE Len(d) = 20 -> p2wpkhPubScript(d)
      [] Len(d) = 32 -> p2wshPubScript(d)
      [] Len(d) = 25 /\ SubSeq(d, 22, 25) = Checksum(SubSeq(d, 1, 21)) ->
            IF d[1] \in P2PKH THEN p2pkhPubScript(SubSeq(d, 2, 21))
            ELSE IF d[1] \in P2SH THEN p2shPubScript(SubSeq(d, 2, 21)) ELSE <<>>
      [] OTHER -> <<>>
addressToPubScript(a) ==
    PubScriptOf(IF a.form = "segwit" THEN fromSegwit(a) ELSE DecodeBase58(a.chars))

\* pubScriptToAddress knows the prefixes of the main network only.
AddressOf(t) ==
    LET ops == [i \in DOMAIN t |-> t[i].op]
    IN  CASE ops = <<OP_DUP, OP_HASH160, 20, OP_EQUALVERIFY, OP_CHECKSIG>> ->
                base58Address(t[3].data, 0)
          [] ops = <<OP_HASH160, 20, OP_EQUAL>> -> base58Address(t[2].data, 5)
          [] ops \in {<<0, 20>>, <<0, 32>>} -> toSegwit(t[2].data, MainPrefix)
          [] OTHER -> NoAddress
pubScriptToAddress(script) == AddressOf(scriptToTokens(script))

\* The addresses that p2pkhAddress and its like make for a hash, by network.
AddressesOf(hash, main) ==
    IF Len(hash) = 20
    THEN {base58Address(hash, IF main THEN 0 ELSE 111), base58Address(hash, IF main THEN 5 ELSE 196),
          toSegwit(hash, IF main THEN MainPrefix ELSE TestPrefix)}
    ELSE {toSegwit(hash, IF main THEN MainPrefix ELSE TestPrefix)}

-----------------------------------------------------------------------------
(* Transactions: [version, inputs, outputs, locktime] of inputs [prev,     *)
(* index, script, sequence, witness] and outputs [value, script].          *)

TransactionInputData(in) ==
    in.prev \o UintD(in.index, 4) \o varIntD(Len(in.script)) \o in.script \o UintD(in.sequence, 4)
TransactionOutputData(out) == UintD(out.value, 8) \o varIntD(Len(out.script)) \o out.script
TransactionInputWitnessData(in) ==
    varIntD(Len(in.witness))
      \o FlattenSeq([i \in DOMAIN in.witness |-> varIntD(Len(in.witness[i])) \o in.witness[i]])
TransactionHasWitnessData(tx) == \E i \in DOMAIN tx.inputs : tx.inputs[i].witness # <<>>

Listed(written) == varIntD(Len(written)) \o FlattenSeq(written)

\* TransactionTx is hashed for the txid, TransactionWtx for the wtxid;
\* TransactionData goes over the wire.
TransactionTx(tx) ==
    UintD(tx.version, 4) \o Listed([i \in DOMAIN tx.inputs |-> TransactionInputData(tx.inputs[i])])
      \o Listed([i \in DOMAIN tx.outputs |-> TransactionOutputData(tx.outputs[i])]) \o UintD(tx.locktime, 4)
TransactionData(tx) ==
    LET witness == TransactionHasWitnessData(tx)
        plain == TransactionTx(tx)
    IN  IF ~witness THEN plain
        ELSE SubSeq(plain, 1, 4) \o <<0, 1>> \o SubSeq(plain, 5, Len(plain) - 4)
               \o FlattenSeq([i \in DOMAIN tx.inputs |-> TransactionInputWitnessData(tx.inputs[i])])
               \o UintD(tx.locktime, 4)
TransactionWtx(tx) == TransactionData(tx)

ReadSized(d) == LET n == readVarInt(d) IN readBytes(n.value, n.rest)
ReadInput(d) ==
    LET prev == readBytes(32, d)
        index == ReadUint(prev.rest, 4)
        script == ReadSized(index.rest)
        sequence == ReadUint(script.rest, 4)
    IN  [data |-> [prev |-> prev.data, index |-> index.value, script |-> script.data,
                   sequence |-> sequence.value, witness |-> <<>>],
         rest |-> sequence.rest]
ReadOutput(d) ==
    LET value == ReadUint(d, 8)
        script == ReadSized(value.rest)
    IN  [data |-> [value |-> value.value, script |-> script.data], rest |-> script.rest]

\* count times what Read reads, and what is left.
ReadMany(count, d, Read(_)) ==
    FoldLeft(LAMBDA s, i : LET one == Read(s.rest)
                           IN  [data |-> Append(s.data, one.data), rest |-> one.rest],
             [data |-> <<>>, rest |-> d], [i \in 1 .. count |-> i])
ReadListed(d, Read(_)) == LET count == readVarInt(d) IN ReadMany(count.value, count.rest, Read)
ReadStack(d) == ReadListed(d, ReadSized)

\* TransactionNew: no inputs and some output look like the mark of a witness.
\* What is missing at the end is read as zeros; what is left over aborts.  Each
\* operator goes on after the part it is named for.
Aborted == [version |-> -1]
AfterStacks(version, mark, inputs, outputs, stacks) ==
    LET locktime == ReadUint(stacks.rest, 4)
    IN  IF locktime.rest # <<>> THEN Aborted
        ELSE [version |-> version, outputs |-> outputs, locktime |-> locktime.value,
              inputs |-> [i \in DOMAIN inputs |->
                             IF mark THEN [inputs[i] EXCEPT !.witness = stacks.data[i]]
                             ELSE inputs[i]]]
AfterOutputs(version, mark, inputs, outputs) ==
    AfterStacks(version, mark, inputs, outputs.data,
                ReadMany(IF mark THEN Len(inputs) ELSE 0, outputs.rest, ReadStack))
AfterInputs(version, mark, inputs) ==
    AfterOutputs(version, mark, inputs.data, ReadListed(inputs.rest, ReadOutput))
AfterVersion(version) ==
    LET rest == version.rest
        mark == Len(rest) > 1 /\ rest[1] = 0 /\ rest[2] # 0
    IN  AfterInputs(version.value, mark,
                   ReadListed(IF mark THEN SubSeq(rest, 3, Len(rest)) ELSE rest, ReadInput))
TransactionNew(d) == AfterVersion(ReadUint(d, 4))

\* The kind of witness that TransactionNew takes an input of such a
\* transaction for, by its script.
WitnessFlag(in) ==
    IF in.script = <<>> THEN IF Len(in.witness) = 2 THEN "p2wpkh" ELSE "p2wsh"
    ELSE IF Len(in.script) > 3 /\ in.script[1] \in 3 .. 39 /\ in.script[2] = 0
    THEN CASE in.script[3] = 32 -> "p2wsh" [] in.script[3] = 20 -> "p2wpkh" [] OTHER -> "error"
    ELSE "none"

\* TransactionSort, with inputSorter and outputSorter (BIP 69).
Before(a, b, tie) == DataCompare(a, b) < 0 \/ (DataCompare(a, b) = 0 /\ tie)
TransactionSort(tx) ==
    [tx EXCEPT
        !.inputs = SortSeq(@, LAMBDA a, b : Before(Reverse(a.prev), Reverse(b.prev), a.index < b.index)),
        !.outputs = SortSeq(@, LAMBDA a, b : a.value < b.value
                               \/ (a.value = b.value /\ DataCompare(a.script, b.script) < 0))]

-----------------------------------------------------------------------------
(* Encoding one thing after another.                                       *)

CodeInit == coded = [kind |-> "none"]

CodeDatas(ds) == coded' = [kind |-> "datas", value |-> ds]
CodeString(s) == coded' = [kind |-> "string", value |-> s]
CodeNumber(n) == coded' = [kind |-> "number", value |-> n]
CodePushes(ls) == coded' = [kind |-> "pushes", value |-> [i \in DOMAIN ls |-> [j \in 1 .. ls[i] |-> i]]]
CodeScriptNum(n) == coded' = [kind |-> "scriptnum", value |-> n]
CodeAddress(h) == coded' = [kind |-> "hash", value |-> h]
CodeMnemonic(d) == coded' = [kind |-> "entropy", value |-> d]
CodeTransaction(tx) == coded' = [kind |-> "tx", value |-> tx]

CodeMessage(d) == coded' = [kind |-> "message", value |-> d]

CodeNext ==
    /\ coded.kind = "none"
    /\ \/ \E ds \in DatasInputs : CodeDatas(ds)
       \/ \E s \in StringInputs : CodeString(s)
       \/ \E n \in NumberInputs : CodeNumber(n)
       \/ \E ls \in PushInputs : CodePushes(ls)
       \/ \E n \in ScriptInputs : CodeScriptNum(n)
       \/ \E h \in HashInputs : CodeAddress(h)
       \/ \E d \in EntropyInputs : CodeMnemonic(d)
       \/ \E tx \in TxInputs : CodeTransaction(tx)
       \/ \E d \in MessageInputs : CodeMessage(d)

-----------------------------------------------------------------------------
(* Properties.                                                             *)

\* Whatever is left of a serialized array (a file that was being written when
\* the program stopped, bsSave), DatasDeserialize returns exactly the elements
\* that are complete, in order; all of them from all of it.  Of a dictionary
\* that was cut within a pair, it aborts or drops the pair.
PrefixRead(ds) ==
        LET all == DatasSerialize(ds)
            end(k) == Len(DatasSerialize(SubSeq(ds, 1, k)))
        IN  \A cut \in 0 .. Len(all) :
                LET k == CHOOSE k \in 0 .. Len(ds) :
                            /\ end(k) <= cut
                            /\ k = Len(ds) \/ end(k + 1) > cut
                    left == SubSeq(all, 1, cut)
                IN  /\ DatasDeserialize(left) = SubSeq(ds, 1, k)
                    /\ DictionaryDeserialize(left) =
                          IF k % 2 = 1 THEN <<"abort">>
                          ELSE [i \in 1 .. k \div 2 |-> [key |-> ds[2 * i - 1], value |-> ds[2 * i]]]

\* What DataInsert put in, DataDelete takes out, at any index, and DataTrimFront
\* what DataAppend had in front of it.
CutAndPaste(a, b) ==
    /\ \A n \in 0 .. Len(a) : DataDelete(DataInsert(a, n, b), n, Len(b)) = a
    /\ DataTrimFront(DataAppend(a, b), Len(a)) = b

\* A dictionary comes back from its bytes, and has the same keys in common
\* with another whichever of them is larger.
DictionariesKept(a, b) ==
    LET keys(d) == {d[i].key : i \in DOMAIN d}
    IN  /\ DictionaryDeserialize(DictionarySerialize(a)) = a
        /\ keys(DictionaryIntersection(a, b)) = keys(a) \cap keys(b)
        /\ ToSet(DictionaryIntersection(a, b)) \subseteq ToSet(IF Len(a) > Len(b) THEN b ELSE a)

\* Of an address with one character changed, or two neighbours swapped, nothing
\* is decoded; the room for Base58 digits is enough in both directions.
AddressesSafe(a) ==
    LET swapped(i) == [a.chars EXCEPT ![i] = a.chars[i + 1], ![i + 1] = a.chars[i]]
        wrong == {[a.chars EXCEPT ![i] = (@ + k) % 32] : i \in DOMAIN a.chars, k \in {1, 16}}
                   \cup {swapped(i) : i \in 1 .. Len(a.chars) - 1}
        bytes == DecodeBase58(a.chars)
    IN  IF a.form = "segwit"
        THEN \A c \in wrong \ {a.chars} : fromSegwit([a EXCEPT !.chars = c]) = <<>>
        ELSE /\ Len(a.chars) - LeadingZeros(a.chars) <= RoomBase58(bytes)
             /\ Len(bytes) - LeadingZeros(bytes) <= RoomBase256(a.chars)

\* A key comes back from its words, three for every four bytes; with the last
\* bit of the last word changed it does not.
MnemonicKept(d) ==
    LET HashOf(x) == Checksum(x)[1]
        words == toMnemonic(d, HashOf(d)).data
        last == words[Len(words)]
        wrong == [words EXCEPT ![Len(words)] = IF last % 2 = 0 THEN last + 1 ELSE last - 1]
    IN  /\ 4 * Len(words) = 3 * Len(d)
        /\ fromMnemonic(words, HashOf(WithoutChecksum(words))) = Text(d)
        /\ fromMnemonic(wrong, HashOf(WithoutChecksum(wrong))) = NoText

\* A transaction with inputs comes back from its bytes (TransactionCopy), if no
\* script or witness is of 253 to 255 bytes; one without inputs that pays
\* somebody does not.  Its txid does not depend on the witness; of a beginning
\* of its bytes TransactionNew makes another transaction or aborts; the sorted
\* transaction is one of its arrangements, and the same for all of them.  A
\* script around a witness program is taken for the program it is.
TransactionKept(tx, bytes) ==
    LET ins == tx.inputs
        lengths == {Len(in.script) : in \in ToSet(ins)} \cup {Len(o.script) : o \in ToSet(tx.outputs)}
                     \cup UNION {{Len(w) : w \in ToSet(in.witness)} : in \in ToSet(ins)}
        readable == lengths \cap 253 .. 255 = {} /\ (ins = <<>> => tx.outputs = <<>>)
        bare == [tx EXCEPT !.inputs = [i \in DOMAIN ins |-> [ins[i] EXCEPT !.witness = <<>>]]]
        sorted == TransactionSort(tx)
        turned == [tx EXCEPT !.inputs = Reverse(@), !.outputs = Reverse(@)]
    IN  /\ readable => TransactionNew(bytes) = tx
        /\ ins = <<>> /\ tx.outputs # <<>> => TransactionNew(bytes) # tx
        /\ TransactionTx(tx) = TransactionTx(bare) /\ TransactionTx(bare) = TransactionWtx(bare)
        /\ readable => \A n \in 0 .. Len(bytes) - 1 : TransactionNew(SubSeq(bytes, 1, n)) # tx
        /\ ToSet(sorted.inputs) = ToSet(ins) /\ ToSet(sorted.outputs) = ToSet(tx.outputs)
        /\ TransactionSort(turned) = sorted
        /\ \A in \in ToSet(ins) : \A hash \in HashInputs :
              WitnessFlag([in EXCEPT !.script = scriptPush(p2wshPubScript(hash))])
                 = IF Len(hash) = 32 THEN "p2wsh" ELSE "p2wpkh"

\* The hash functions compress the message, the mark and the length in bits,
\* in whole blocks, for a message of any length and given in any two pieces.
\* HMAC is the hash of the hash, PBKDF2 is made of HMACs although it takes a
\* shorter way, and a text that was encrypted can be read with its nonce, not
\* with another and not when its end is missing.
HashedWhole(d) ==
    LET padded(size, field, length) ==
            LET n == Len(d) + 1 + field
            IN  d \o <<128>> \o Zeros((size - (n % size)) % size) \o length
        bits == 8 * Len(d)
        digest(all, size, out) == DigestOf(Absorb(InitialState, Whole(all, size)), out)
        pieces(h, n) == Final(h, Update(h, Update(h, Begun(h), SubSeq(d, 1, n)),
                                        SubSeq(d, n + 1, Len(d))))
        mac(h, key, m) == HashWith(h, Masked(KeyBlock(h, key), 92)
                                      \o HashWith(h, Masked(KeyBlock(h, key), 54) \o m))
        once(h) == mac(h, d, <<7>> \o BigEndian(1, 4))
        twice(h) == XorBytes(once(h), mac(h, d, once(h)))
        key == Zeros(32)
        secret == encryptAES(d, key, 5)
    IN  /\ sha256(d) = digest(padded(64, 8, BigEndian(bits, 8)), 64, 32)
        /\ sha512(d) = digest(padded(128, 16, BigEndian(bits, 16)), 128, 64)
        /\ ripemd160(d) = digest(padded(64, 8, LittleEndian(bits, 8)), 64, 20)
        /\ \A n \in {0, 1, 63, 64, Len(d)} \cap 0 .. Len(d) :
              pieces(Sha256, n) = sha256(d) /\ pieces(Sha512, n) = sha512(d)
        /\ \A h \in {Sha256, Sha512} :
              /\ CCHmac(h, d, <<9>>) = mac(h, d, <<9>>) /\ CCHmac(h, <<9>>, d) = mac(h, <<9>>, d)
              /\ PBKDF2(h, d, <<7>>, 2, h.size) = twice(h)
              /\ PBKDF2(h, d, <<7>>, 1, h.size + 1)
                    = once(h) \o SubSeq(mac(h, d, <<7>> \o BigEndian(2, 4)), 1, 1)
        /\ decryptAES(secret, key, 5) = d
        /\ d # <<>> => decryptAES(secret, key, 6) # d
        /\ decryptAES(SubSeq(secret, 1, Len(secret) - 16), key, 5) # d \/ d = <<>>

\* What is encoded is read back.  Strings: the components joined by separators
\* are the string, each ends with a NUL, and a separator stays in a component
\* only as its first character.  Variable length integers: except for 253 to
\* 255, which varIntD writes as the marks of longer ones.  Pushes: up to the
\* first empty element; of all pushes as tokens, none is in error.  Script
\* numbers and padding: always.  Arrays: what is left of one (PrefixRead), and
\* what is put in and taken out; dictionaries as a whole.
\* Addresses: of the main network there and back; one of the test network pays
\* to the same script, and comes back as the address of the main network; damage
\* is noticed (AddressesSafe).  Keys as words (MnemonicKept), transactions
\* (TransactionKept), and messages that are hashed or encrypted (HashedWhole).
CodesRoundTrip ==
    LET v == coded.value
    IN  CASE coded.kind = "string" ->
               LET cs == StringComponents(v)
               IN  /\ FlattenSeq([i \in DOMAIN cs |-> IF i = Len(cs) THEN cs[i]
                             ELSE Append(Front(cs[i]), Separator)]) = v
                   /\ \A i \in DOMAIN cs : /\ cs[i] = EnsureNull(cs[i])
                                           /\ \A j \in 2 .. Len(cs[i]) : cs[i][j] # Separator
                   /\ \A c \in ToSet(cs) : StringAdd(<<0>>, Front(c)) = StringPrefix(Front(c), <<0>>)
          [] coded.kind = "number" ->
               /\ readVarInt(varIntD(v) \o <<7>>) = [value |-> v, rest |-> <<7>>]
                     <=> v \notin 253 .. 255
               /\ readPushData(pushData(v) \o <<7>>) = [value |-> v, rest |-> <<7>>]
          [] coded.kind = "pushes" ->
               LET full == SelectInSeq(v, LAMBDA d : d = <<>>)
               IN  /\ readPushes(writePushes(v)) = IF full = 0 THEN v ELSE SubSeq(v, 1, full - 1)
                   /\ LET tokens == scriptToTokens(writePushes(v))
                      IN  /\ [i \in DOMAIN tokens |-> tokens[i].data] = v
                          /\ \A i \in DOMAIN tokens : ~tokens[i].error
          [] coded.kind = "scriptnum" -> ScriptNumValue(encodeScriptNum(v)) = v
          [] coded.kind = "datas" ->
               /\ PrefixRead(v)
               /\ \A i \in DOMAIN v : /\ unpadData16(padData16(v[i])) = v[i]
                                      /\ Len(padData16(v[i])) % 16 = 0
                                      /\ fromHex(toHex(v[i])) = v[i]
                                      /\ \A j \in DOMAIN v :
                                            /\ (DataCompare(v[i], v[j]) = 0) = (v[i] = v[j])
                                            /\ CutAndPaste(v[i], v[j])
               /\ LET pairs == [i \in DOMAIN v |-> [key |-> v[i], value |-> <<i>>]]
                  IN  IsInjective(v) => \A n \in DOMAIN v :
                         /\ DictionariesKept(pairs, SubSeq(pairs, n, Len(v)))
                         /\ DictionariesKept(SubSeq(pairs, 1, n), SubSeq(pairs, n, Len(v)))
          [] coded.kind = "hash" ->
               /\ \A a \in AddressesOf(v, TRUE) : /\ pubScriptToAddress(addressToPubScript(a)) = a
                                                  /\ AddressesSafe(a)
               /\ \A a \in AddressesOf(v, FALSE) :
                     \E back \in AddressesOf(v, TRUE) :
                        /\ pubScriptToAddress(addressToPubScript(a)) = back
                        /\ addressToPubScript(back) = addressToPubScript(a)
               /\ Cardinality({addressToPubScript(a) : a \in AddressesOf(v, TRUE)})
                     = Cardinality(AddressesOf(v, TRUE))
               /\ p2wshHashFromPubScript(p2wshPubScript(v)) = IF Len(v) = 32 THEN v ELSE <<>>
          [] coded.kind = "entropy" -> MnemonicKept(v)
          [] coded.kind = "tx" -> TransactionKept(v, TransactionData(v))
          [] coded.kind = "message" -> HashedWhole(v)
          [] OTHER -> TRUE
=============================================================================
