------------------------------ MODULE HdWallets ------------------------------
(***************************************************************************)
(* Hierarchical wallets and shared secrets (BTCUtil.c).  A private wallet  *)
(* (the signer's) and a public one (a watcher's) derive the same path; a   *)
(* watcher finds the signer's addresses only if both arrive at the same    *)
(* keys.  Two parties with each other's public keys rotate a secret.       *)
(*                                                                         *)
(* Keys are numbers modulo Order and a public key is the number of its     *)
(* private key (the curve is external).  hmacSha512 is a random function:  *)
(* `oracle` is what it has answered so far, a left half of 0 .. Order,     *)
(* where Order stands for every number that is no valid key, and a right   *)
(* half.  An index is hardened from Hardened on, and 2 * Hardened is 2^32. *)
(***************************************************************************)
EXTENDS Integers, Sequences, Functions, FiniteSetsExt

CONSTANTS
    Order,      \* the order of the curve
    Hardened,   \* 0x80000000
    MaxDepth,   \* bound: how many derivations follow each other
    MaxRetries  \* bound: how many indices in a row are no valid keys

ASSUME HdWalletsAssumption ==
    Order \in Nat \ {0, 1} /\ Hardened \in Nat \ {0} /\ MaxRetries \in 0 .. Hardened - 1

VARIABLES
    signer,   \* the private wallet: [version, depth, parent, index, chain, key]
    watcher,  \* the public wallet, or Null
    oracle,   \* what hmacSha512 has answered
    requested, \* the index of the derivation: [index, open]
    zeroHash, \* it has answered with a left half of 0
    rotated   \* the secrets of both parties after ecdhKeyRotate, and the amount

hdVars == <<signer, watcher, oracle, requested, zeroHash, rotated>>

Null == [version |-> "null"]
Indices == 0 .. 2 * Hardened - 1

\* pubKey: none for 0 or a number that is no valid key.
PubKeyOf(k) == IF k \in 1 .. Order - 1 THEN k ELSE 0
\* secp256k1_ec_privkey_tweak_add and secp256k1_ec_pubkey_combine; 0 is failure.
AddToPrivKey(tweak, k) == IF tweak = Order THEN 0 ELSE (tweak + k) % Order
AddPubKeys(a, b) == IF a = 0 \/ b = 0 THEN 0 ELSE (a + b) % Order

\* pubKeyFromHdWallet.
PubKeyFromHdWallet(w) == [pub |-> PubKeyOf(w.key)]

\* publicHdWallet replaces version and key; of a public wallet it is the wallet.
PublicHdWallet(w) == IF w.version = "priv" THEN [w EXCEPT !.version = "pub"] ELSE w

\* Mutant: the private key is hashed for every index.
HashPrivate(w, i) == IF w.version = "priv" THEN [priv |-> w.key] ELSE [pub |-> w.key]

\* What is hashed with the chain code and the index.
HashedKey(w, i) == IF w.version = "priv" /\ i >= Hardened THEN [priv |-> w.key]
                   ELSE PubKeyFromHdWallet(w)

Query(w, i) == <<w.chain, HashedKey(w, i), i>>

\* The key of the child, 0 if there is none.
ChildKey(w, left) ==
    IF w.version = "priv" THEN AddToPrivKey(left, w.key)
    ELSE AddPubKeys(w.key, PubKeyOf(left))

Child(w, i, hash) ==
    [w EXCEPT !.depth = @ + 1, !.parent = PubKeyFromHdWallet(w), !.index = i,
              !.chain = hash.right, !.key = ChildKey(w, hash.left)]

\* childKeyDerivation, with the answers O of the hash function, does not go on
\* from an index: a public wallet has no hardened children, O lacks an answer,
\* or the index has a valid key.
StopsAt(w, i, O) ==
    \/ w.version = "pub" /\ i >= Hardened
    \/ Query(w, i) \notin DOMAIN O
    \/ ChildKey(w, O[Query(w, i)].left) # 0

\* What it returns there; "ask" if O lacks an answer.
ChildAt(w, i, O) ==
    IF w.version = "pub" /\ i >= Hardened THEN Null
    ELSE IF Query(w, i) \notin DOMAIN O THEN [version |-> "ask", query |-> Query(w, i)]
    ELSE Child(w, i, O[Query(w, i)])

\* The n-th index that is tried: indices have 32 bits.
Tried(i, n) == (i + n) % (2 * Hardened)

\* An index without a valid key is passed over for the next one.
ChildKeyDerivation(w, i, O) ==
    LET stops == {n \in 0 .. MaxRetries : StopsAt(w, Tried(i, n), O)}
    IN  IF w = Null THEN Null
        ELSE IF stops = {} THEN [version |-> "bound"]
        ELSE ChildAt(w, Tried(i, Min(stops)), O)

-----------------------------------------------------------------------------
Root == [version |-> "priv", depth |-> 0, parent |-> [pub |-> 0], index |-> 0,
         chain |-> 0, key |-> 1]

\* privKeyToHdWallet and publicHdWallet.
HdInit ==
    /\ signer = Root /\ watcher = PublicHdWallet(Root)
    /\ oracle = <<>> /\ requested = [index |-> 0, open |-> FALSE] /\ zeroHash = FALSE
    /\ rotated = [a |-> 0, b |-> 0, amount |-> 0, asked |-> FALSE]

\* hdWallet and ckd: the next index of the path.
Request(i) ==
    /\ signer.depth < MaxDepth /\ watcher # Null /\ ~requested.open
    /\ requested' = [index |-> i, open |-> TRUE]
    /\ UNCHANGED <<signer, watcher, oracle, zeroHash, rotated>>

\* The hash function answers a query that one of the two derivations makes.
Answer(left) ==
    /\ requested.open
    /\ \E w \in {signer, watcher} :
          LET r == ChildKeyDerivation(w, requested.index, oracle)
          IN  /\ r.version = "ask"
              /\ oracle' = [q \in DOMAIN oracle \cup {r.query} |->
                               IF q = r.query THEN [left |-> left, right |-> signer.depth + 1]
                               ELSE oracle[q]]
    /\ zeroHash' = (zeroHash \/ left = 0)
    /\ UNCHANGED <<signer, watcher, requested, rotated>>

\* Both derive the child of the index.
Derive ==
    /\ requested.open
    /\ LET s == ChildKeyDerivation(signer, requested.index, oracle)
           w == ChildKeyDerivation(watcher, requested.index, oracle)
       IN  /\ s.version = "priv" /\ w.version \in {"pub", "null"}
           /\ signer' = s /\ watcher' = w
    /\ oracle' = <<>> /\ requested' = [requested EXCEPT !.open = FALSE]
    /\ UNCHANGED <<zeroHash, rotated>>

\* setTestnet, a new vault: the watcher is given the public part again.
Republish ==
    /\ watcher = Null
    /\ watcher' = PublicHdWallet(signer)
    /\ UNCHANGED <<signer, oracle, requested, zeroHash, rotated>>

\* ecdhKey: the product, which is what both sides compute.
EcdhKey(priv, pub) == (priv * pub) % Order

\* ecdhKeyRotate: the secret is hashed with the amount, and the hash added to
\* the own private key and to the other's public key.
EcdhKeyRotate(priv, pub, tweak, amount) ==
    IF amount = 0 THEN EcdhKey(priv, pub)
    ELSE IF AddToPrivKey(tweak, priv) = 0 \/ AddToPrivKey(tweak, pub) = 0 THEN 0
    ELSE EcdhKey(AddToPrivKey(tweak, priv), AddToPrivKey(tweak, pub))

Rotate(a, b, tweak, amount) ==
    /\ ~rotated.asked /\ signer = Root /\ ~requested.open
    /\ rotated' = [a |-> EcdhKeyRotate(a, PubKeyOf(b), tweak, amount),
                   b |-> EcdhKeyRotate(b, PubKeyOf(a), tweak, amount),
                   amount |-> amount, asked |-> TRUE]
    /\ UNCHANGED <<signer, watcher, oracle, requested, zeroHash>>

HdNext ==
    \/ \E i \in Indices : Request(i)
    \/ \E left \in 0 .. Order : Answer(left)
    \/ Derive \/ Republish
    \/ \E a, b, tweak \in 1 .. Order - 1, amount \in 0 .. 1 : Rotate(a, b, tweak, amount)

-----------------------------------------------------------------------------
(* Properties.                                                             *)

\* A watcher that knows a wallet's public part derives, along every path, the
\* keys whose private parts the signer derives, with the same chain codes and
\* fingerprints, even where indices have to be passed over; it derives nothing
\* (and never another key) where the path is hardened for it.  The exception is
\* a hash of 0, which addToPrivKey accepts and addPubKeys does not.  Two
\* parties that rotate a secret by the same amount get the same secret.
WatcherFollowsSigner ==
    /\ zeroHash \/ watcher \in {Null, PublicHdWallet(signer)}
    /\ watcher = Null /\ ~zeroHash => signer.index >= Hardened \/ requested.index >= Hardened
    /\ rotated.a = rotated.b
=============================================================================
