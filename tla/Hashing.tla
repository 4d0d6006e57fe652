------------------------------- MODULE Hashing -------------------------------
(***************************************************************************)
(* What the hash functions feed to their compression functions (sha256.c,  *)
(* sha512.c, rmd160.c), the codes and keys made of them                    *)
(* (hmac_and_pbkdf.h) and the chaining of AES (aes.c).  The functions on   *)
(* one block are constants; every length and every padding is real.        *)
(***************************************************************************)
EXTENDS Integers, Sequences, SequencesExt, Bitwise

CONSTANTS
    Compress(_, _),   \* sha256_transform and its like: a state and a block
    DigestByte(_, _), \* a byte of the digest that is read from a state
    Cipher(_, _),     \* AES of one block with a key
    InvCipher(_, _)   \* and back

InitialState == <<>>   \* the constants of the hash, nothing compressed yet
DigestOf(state, size) == [i \in 1 .. size |-> DigestByte(state, i)]

Zeros(n) == [i \in 1 .. n |-> 0]
Filled(d, size) == d \o Zeros(size - Len(d))
LittleEndian(n, w) == [i \in 1 .. w |-> IF i > 3 THEN 0 ELSE (n \div 256 ^ (i - 1)) % 256]
BigEndian(n, w) == Reverse(LittleEndian(n, w))
XorBytes(a, b) == [i \in DOMAIN a |-> a[i] ^^ b[i]]

Whole(d, size) == [i \in 1 .. Len(d) \div size |-> SubSeq(d, (i - 1) * size + 1, i * size)]
Rest(d, size) == SubSeq(d, Len(d) - (Len(d) % size) + 1, Len(d))
Absorb(state, blocks) ==
    LET after[i \in 0 .. Len(blocks)] ==
            IF i = 0 THEN state ELSE Compress(after[i - 1], blocks[i])
    IN  after[Len(blocks)]

-----------------------------------------------------------------------------
(* SHA-256: the bytes are collected one by one in a block of 64.           *)

sha256_init == [state |-> InitialState, data |-> <<>>, bitlen |-> 0]
sha256_update(ctx, d) ==
    LET all == ctx.data \o d
        whole == Whole(all, 64)
    IN  [state |-> Absorb(ctx.state, whole), data |-> Rest(all, 64),
         bitlen |-> ctx.bitlen + 512 * Len(whole)]

\* The mark and the length do not fit into the same block from 56 bytes on.
sha256_final(ctx) ==
    LET n == Len(ctx.data)
        marked == Append(ctx.data, 128)
        length == BigEndian(ctx.bitlen + 8 * n, 8)
        blocks == IF n < 56 THEN <<Filled(marked, 56) \o length>>
                  ELSE <<Filled(marked, 64), Zeros(56) \o length>>
    IN  DigestOf(Absorb(ctx.state, blocks), 32)
sha256(d) == sha256_final(sha256_update(sha256_init, d))

-----------------------------------------------------------------------------
(* SHA-512: only what is left over is copied to the buffer.                *)

mbedtls_sha512_init_and_start == [state |-> InitialState, buffer |-> Zeros(128), total |-> 0]
mbedtls_sha512_update(ctx, d) ==
    LET left == ctx.total % 128
        fill == 128 - left
        fills == left > 0 /\ Len(d) >= fill
        more == IF fills THEN SubSeq(d, fill + 1, Len(d)) ELSE d
        at == IF fills THEN 0 ELSE left
        first == IF fills THEN <<SubSeq(ctx.buffer, 1, left) \o SubSeq(d, 1, fill)>> ELSE <<>>
        tail == Rest(more, 128)
    IN  [state |-> Absorb(ctx.state, first \o Whole(more, 128)), total |-> ctx.total + Len(d),
         buffer |-> SubSeq(ctx.buffer, 1, at) \o tail \o SubSeq(ctx.buffer, at + Len(tail) + 1, 128)]

\* The padding and the length are given to mbedtls_sha512_update as well.
mbedtls_sha512_finish(ctx) ==
    LET last == ctx.total % 128
        padn == IF last < 112 THEN 112 - last ELSE 240 - last
        padded == mbedtls_sha512_update(ctx, Filled(<<128>>, padn))
    IN  DigestOf(mbedtls_sha512_update(padded, BigEndian(8 * ctx.total, 16)).state, 64)
sha512(d) == mbedtls_sha512_finish(mbedtls_sha512_update(mbedtls_sha512_init_and_start, d))

-----------------------------------------------------------------------------
(* RIPEMD-160: words and length are little endian.                         *)

MDfinish(state, rest, length) ==
    LET marked == Append(rest, 128)
        bits == LittleEndian(8 * length, 8)
    IN  Absorb(state, IF Len(rest) > 55 THEN <<Filled(marked, 64), Zeros(56) \o bits>>
                      ELSE <<Filled(marked, 56) \o bits>>)
ripemd160(d) == DigestOf(MDfinish(Absorb(InitialState, Whole(d, 64)), Rest(d, 64), Len(d)), 20)

-----------------------------------------------------------------------------
(* HMAC and PBKDF2, for either hash.                                       *)

Sha256 == [name |-> "sha256", block |-> 64, size |-> 32]
Sha512 == [name |-> "sha512", block |-> 128, size |-> 64]

Begun(h) == IF h.name = "sha256" THEN sha256_init ELSE mbedtls_sha512_init_and_start
Update(h, ctx, d) ==
    IF h.name = "sha256" THEN sha256_update(ctx, d) ELSE mbedtls_sha512_update(ctx, d)
Final(h, ctx) == IF h.name = "sha256" THEN sha256_final(ctx) ELSE mbedtls_sha512_finish(ctx)
HashWith(h, d) == Final(h, Update(h, Begun(h), d))

KeyBlock(h, key) == Filled(IF Len(key) > h.block THEN HashWith(h, key) ELSE key, h.block)
Masked(block, mask) == [i \in DOMAIN block |-> block[i] ^^ mask]
HMAC_INIT(h, key) ==
    [inner |-> Update(h, Begun(h), Masked(KeyBlock(h, key), 54)),
     outer |-> Update(h, Begun(h), Masked(KeyBlock(h, key), 92))]
HMAC_UPDATE(h, ctx, d) == [ctx EXCEPT !.inner = Update(h, @, d)]
HMAC_FINAL(h, ctx) == Final(h, Update(h, ctx.outer, Final(h, ctx.inner)))
CCHmac(h, key, d) == HMAC_FINAL(h, HMAC_UPDATE(h, HMAC_INIT(h, key), d))

\* md_pad: what follows a digest, after the block of the key, in the last block.
md_pad(h, digest) == Filled(Append(digest, 128), h.block - 4) \o BigEndian(8 * (h.block + h.size), 4)

\* PBKDF2_F: from the second round on each hash is one block, put together
\* here and compressed without the hash's own padding.
PBKDF2_F(h, start, counter, salt, iterations) ==
    LET first == HMAC_FINAL(h, HMAC_UPDATE(h, HMAC_UPDATE(h, start, salt), BigEndian(counter, 4)))
        shortcut(ctx, digest) == DigestOf(Compress(ctx.state, md_pad(h, digest)), h.size)
        round[i \in 1 .. iterations] ==
            IF i = 1 THEN [u |-> first, result |-> first]
            ELSE LET u == shortcut(start.outer, shortcut(start.inner, round[i - 1].u))
                 IN  [u |-> u, result |-> XorBytes(round[i - 1].result, u)]
    IN  round[iterations].result

PBKDF2(h, password, salt, iterations, nout) ==
    LET start == HMAC_INIT(h, password)
        needed == (nout + h.size - 1) \div h.size
    IN  SubSeq(FlattenSeq([c \in 1 .. needed |-> PBKDF2_F(h, start, c, salt, iterations)]), 1, nout)

-----------------------------------------------------------------------------
(* AES in CBC mode.                                                        *)

AES_CBC_encrypt_buffer(key, iv, d) ==
    LET blocks == Whole(d, 16)
        out[i \in 0 .. Len(blocks)] ==
            IF i = 0 THEN iv ELSE Cipher(key, XorBytes(blocks[i], out[i - 1]))
    IN  FlattenSeq([i \in DOMAIN blocks |-> out[i]])
AES_CBC_decrypt_buffer(key, iv, d) ==
    LET blocks == Whole(d, 16)
    IN  FlattenSeq([i \in DOMAIN blocks |->
            XorBytes(InvCipher(key, blocks[i]), IF i = 1 THEN iv ELSE blocks[i - 1])])
=============================================================================
