------------------------------ MODULE TextForms ------------------------------
(***************************************************************************)
(* Bytes as text: Base58 (base58.cpp), Bech32 and segregated witness       *)
(* addresses (segwit_addr.c), and the words of a mnemonic (mnemonic.c).    *)
(* A character or a word is the number it stands for in its alphabet or    *)
(* list, lower and upper case alike; a text that is refused is NoText.     *)
(***************************************************************************)
EXTENDS Integers, Sequences, FiniteSets, SequencesExt, Bitwise

NoText == [ok |-> FALSE, data |-> <<>>]
Text(data) == [ok |-> TRUE, data |-> data]

-----------------------------------------------------------------------------
(* Regrouping bits, the most significant first.                            *)

BitsOf(v, w) == [i \in 1 .. w |-> (v \div 2 ^ (w - i)) % 2]
AllBits(s, w) == FlattenSeq([i \in DOMAIN s |-> BitsOf(s[i], w)])
NumberOf(bits) == FoldLeft(LAMBDA n, b : 2 * n + b, 0, bits)
Groups(bits, w) ==
    [i \in 1 .. Len(bits) \div w |-> NumberOf(SubSeq(bits, (i - 1) * w + 1, i * w))]

\* What is left over is padded with zeros, or must be less than a whole input
\* and zero.
convert_bits(in, inbits, outbits, pad) ==
    LET bits == AllBits(in, inbits)
        left == SubSeq(bits, Len(bits) - (Len(bits) % outbits) + 1, Len(bits))
        zeros == [i \in 1 .. outbits - Len(left) |-> 0]
    IN  IF pad THEN Text(Groups(IF left = <<>> THEN bits ELSE bits \o zeros, outbits))
        ELSE IF 1 \in ToSet(left) \/ Len(left) >= inbits THEN NoText
        ELSE Text(Groups(bits, outbits))

-----------------------------------------------------------------------------
(* Base58.                                                                 *)

\* "b58 = b58 * 256 + ch", and the other way round: digits with the least
\* significant first.
RECURSIVE MultiplyAdd(_, _, _, _)
MultiplyAdd(digits, factor, base, carry) ==
    IF digits = <<>> /\ carry = 0 THEN <<>>
    ELSE LET c == carry + factor * (IF digits = <<>> THEN 0 ELSE digits[1])
         IN  <<c % base>> \o MultiplyAdd(IF digits = <<>> THEN <<>> ELSE Tail(digits),
                                         factor, base, c \div base)

LeadingZeros(s) == LET k == SelectInSeq(s, LAMBDA d : d # 0) IN IF k = 0 THEN Len(s) ELSE k - 1
Rebased(s, from, to) ==
    LET zeros == LeadingZeros(s)
    IN  SubSeq(s, 1, zeros)
          \o Reverse(FoldLeft(LAMBDA digits, d : MultiplyAdd(digits, from, to, d), <<>>,
                              SubSeq(s, zeros + 1, Len(s))))

EncodeBase58(bytes) == Rebased(bytes, 256, 58)
DecodeBase58(chars) == Rebased(chars, 58, 256)

\* The room that the two set aside for the digits after the leading zeros;
\* assert(carry == 0) says that it is enough.
RoomBase58(bytes) == ((Len(bytes) - LeadingZeros(bytes)) * 138) \div 100 + 1
RoomBase256(chars) == ((Len(chars) - LeadingZeros(chars)) * 733) \div 1000 + 1

-----------------------------------------------------------------------------
(* Bech32.  A prefix is a sequence of characters in ASCII.                 *)

Generator == <<996825010, 642813549, 513874426, 1027748829, 705979059>>

\* The generators that the five bits shifted out select, added together.
Selected == [top \in 0 .. 31 |->
    LET term(k) == IF (top \div 2 ^ (k - 1)) % 2 = 1 THEN Generator[k] ELSE 0
    IN  (((term(1) ^^ term(2)) ^^ term(3)) ^^ term(4)) ^^ term(5)]

\* bech32_polymod_step and the "^" of the next symbol after it.
bech32_polymod_step(pre, symbol) ==
    ((pre % 2 ^ 25) * 32 + symbol) ^^ Selected[pre \div 2 ^ 25]

\* The checksum of a prefix and of what follows the '1'.
Polymod(hrp, symbols) ==
    LET values == [i \in DOMAIN hrp |-> hrp[i] \div 32] \o <<0>>
                    \o [i \in DOMAIN hrp |-> hrp[i] % 32] \o symbols
        chk[i \in 0 .. Len(values)] ==
            IF i = 0 THEN 1 ELSE bech32_polymod_step(chk[i - 1], values[i])
    IN  chk[Len(values)]

bech32_encode(hrp, data) ==
    LET chk == Polymod(hrp, data \o <<0, 0, 0, 0, 0, 0>>) ^^ 1
    IN  IF \/ \E i \in DOMAIN hrp : hrp[i] \notin 33 .. 126 \/ hrp[i] \in 65 .. 90
           \/ Len(hrp) + 7 + Len(data) > 90
           \/ \E i \in DOMAIN data : data[i] >= 32
        THEN NoText
        ELSE Text(data \o [i \in 1 .. 6 |-> (chk \div 32 ^ (6 - i)) % 32])

bech32_decode(hrp, symbols) ==
    IF \/ Len(hrp) + 1 + Len(symbols) \notin 8 .. 90 \/ hrp = <<>> \/ Len(symbols) < 6
       \/ Polymod(hrp, symbols) # 1
    THEN NoText ELSE Text(SubSeq(symbols, 1, Len(symbols) - 6))

segwit_addr_encode(hrp, version, program) ==
    IF version > 16 \/ (version = 0 /\ Len(program) \notin {20, 32}) \/ Len(program) \notin 2 .. 40
    THEN NoText
    ELSE bech32_encode(hrp, <<version>> \o convert_bits(program, 8, 5, TRUE).data)

segwit_addr_decode(hrp, symbols) ==
    LET plain == bech32_decode(hrp, symbols)
        program == convert_bits(Tail(plain.data), 5, 8, FALSE)
    IN  IF ~plain.ok \/ plain.data = <<>> \/ Len(plain.data) > 65 THEN NoText
        ELSE IF \/ plain.data[1] > 16 \/ ~program.ok \/ Len(program.data) \notin 2 .. 40
                \/ (plain.data[1] = 0 /\ Len(program.data) \notin {20, 32})
        THEN NoText ELSE program

-----------------------------------------------------------------------------
(* Mnemonics: a word for every eleven bits.                                *)

WordBits == 11
mnemonic_from_bytes(bytes) ==
    LET words == Groups(AllBits(bytes, 8), WordBits)
    IN  IF words = <<>> THEN NoText ELSE Text(words)
mnemonic_to_bytes(words) == convert_bits(words, WordBits, 8, TRUE).data

\* len_to_mask, as the number of bits of the checksum.
len_to_mask(length) == IF length \in {16, 20, 24, 28, 32, 36, 40} THEN length \div 4 ELSE 0

\* The bytes of the checksum, made of the first byte of the hash, twice: as a
\* char it is negative from 128 on and fills the second byte with ones.
ChecksumBytes(hash, bits) ==
    LET top(b, n) == b - (b % 2 ^ (8 - n))
    IN  IF bits <= 8 THEN <<top(hash, bits)>>
        ELSE <<hash, top(IF hash >= 128 THEN 255 ELSE hash, bits - 8)>>
toMnemonic(data, hash) == mnemonic_from_bytes(data \o ChecksumBytes(hash, len_to_mask(Len(data))))

\* fromMnemonic: the bytes but the last, or the last two of a long one.
WithoutChecksum(words) ==
    LET bytes == mnemonic_to_bytes(words)
        written == Len(bytes) - 1
    IN  SubSeq(bytes, 1, IF written > 32 THEN written - 1 ELSE written)
\* `hash` is the first byte of the hash of those.
fromMnemonic(words, hash) ==
    LET data == WithoutChecksum(words)
    IN  IF toMnemonic(data, hash) = Text(words) THEN Text(data) ELSE NoText
=============================================================================
