----------------------------- MODULE BloomFilter -----------------------------
(***************************************************************************)
(* The Bloom filters of BTCUtil.c, which tell a peer what transactions the *)
(* wallet asks for.  A filter is the set of the bits that are set, with the *)
(* size and the number of hashes it was made with.                         *)
(***************************************************************************)
EXTENDS Integers

CONSTANTS
    Elements,       \* what may be added
    Estimates,      \* the numbers of elements a filter is made for
    Murmur(_, _),   \* murmur3(element, seed), any number
    SizeFor(_),     \* calculateBloomSize for the rate of the wallet, in bytes
    HashesFor(_, _),\* bloomHashCount(elements, size)
    Seed, Tweak,    \* BLOOM_SEED and the tweak of the filter, which is 0
    MaxBytes,       \* 36000: the limit on the size
    MaxHashes,      \* 50: the limit on the hashes
    WordSize        \* 2^32: seeds are computed in 32 bits

ASSUME BloomAssumption ==
    /\ MaxBytes \in Nat /\ MaxHashes \in Nat /\ WordSize \in Nat \ {0}
    /\ Seed \in Nat /\ Tweak \in Nat
    /\ \A e \in Elements, s \in 0..(WordSize - 1) : Murmur(e, s) \in Nat
    /\ \A n \in Estimates \cup {3} : /\ n \in Nat \ {0}
                                     /\ SizeFor(n) \in Nat
                                     /\ \A b \in 0..MaxBytes : HashesFor(n, b) \in Nat
    \* A filter without bytes is made without hashes: 0 * 8 / n * log(2).
    /\ \A n \in Estimates \cup {3} : HashesFor(n, 0) = 0

VARIABLES
    filter,     \* [bits, size, hashes]: the filter of the wallet
    watched     \* the elements added to it since it was made

bloomVars == <<filter, watched>>

Smaller(a, b) == IF a < b THEN a ELSE b

\* bloomFilter: an empty filter for a number of elements, at least three.
NewFilter(estimate) ==
    LET n == IF estimate < 3 THEN 3 ELSE estimate
        size == Smaller(SizeFor(n), MaxBytes)
    IN  [bits |-> {}, size |-> size, hashes |-> Smaller(HashesFor(n, size), MaxHashes)]

\* The bit of the i-th hash of an element.
BitOf(f, e, i) == Murmur(e, (i * Seed + Tweak) % WordSize) % (f.size * 8)
\* The bits bloomFilterAddElement sets, and those bloomFilterCheckElement tests;
\* a slip of the latter: one hash too many.
BitsSet(f, e) == {BitOf(f, e, i) : i \in 0..(f.hashes - 1)}
BitsTestedOneMore(f, e) == {BitOf(f, e, i) : i \in 0..f.hashes}
BitsTested(f, e) == {BitOf(f, e, i) : i \in 0..(f.hashes - 1)}

WithElement(f, e) == [f EXCEPT !.bits = @ \cup BitsSet(f, e)]
CheckElement(f, e) == BitsTested(f, e) \subseteq f.bits

BloomInit == \E n \in Estimates : filter = NewFilter(n) /\ watched = {}

\* bloomFilterAddElement: to the filter in use (TTTempBloomFilterAdd), or one
\* element after the other to a new one (bloomFilterArray).
BloomFilterAddElement(e) ==
    /\ filter' = WithElement(filter, e)
    /\ watched' = watched \cup {e}
BloomFilterNew(n) ==
    /\ filter' = NewFilter(n)
    /\ watched' = {}

BloomNext ==
    \/ \E e \in Elements : BloomFilterAddElement(e)
    \/ \E n \in Estimates : BloomFilterNew(n)

BloomSpec == BloomInit /\ [][BloomNext]_bloomVars

-----------------------------------------------------------------------------
\* A filter never misses what was added to it, however many elements were
\* added after that and whatever the hash function is: bloomFilterCheckElement,
\* and the peer, which does the same, find each one.
NothingMissed == \A e \in watched : CheckElement(filter, e)
=============================================================================
