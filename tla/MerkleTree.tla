------------------------------ MODULE MerkleTree ------------------------------
(***************************************************************************)
(* Merkle blocks (MerkleBlock.c): the partial tree that a peer sends with  *)
(* a filtered block, and what the program makes of it.  The program walks  *)
(* the tree by the flags alone: it knows the height of the tree, but never *)
(* asks whether a right child exists.                                      *)
(*                                                                         *)
(* hash256 is a constructor: a hash is <<"hash", what was hashed>>, a txid *)
(* <<"tx", number>>, and Null no data.                                     *)
(***************************************************************************)
EXTENDS Integers, Sequences, FiniteSets, SequencesExt

CONSTANTS
    MaxTxs,     \* bound: the transactions of a block
    FlagByte,   \* 8: flags are padded to a multiple of it
    MaxDamage   \* bound: how often a message is damaged on its way

ASSUME MerkleTreeAssumption == FlagByte \in Nat \ {0}

VARIABLES
    merkle,   \* the message: [count, root, hashes, flags, short]
    matched,  \* the transactions that the peer's filter matched
    damage    \* how often the message was damaged

merkleVars == <<merkle, matched, damage>>

NoHashValue == <<>>
Txid(i) == <<"tx", i>>
Hash256(parts) == <<"hash", SelectSeq(parts, LAMBDA p : p # NoHashValue)>>

\* calculateTreeWidth: the nodes at a height, 0 for the transactions.
TreeWidth(count, height) == (count + 2 ^ height - 1) \div 2 ^ height
TreeHeight(count) == CHOOSE h \in 0 .. count :
                        TreeWidth(count, h) <= 1 /\ \A g \in 0 .. h - 1 : TreeWidth(count, g) > 1

-----------------------------------------------------------------------------
(* The peer (BIP 37).                                                      *)

RECURSIVE NodeHash(_, _, _)
NodeHash(count, height, pos) ==
    IF height = 0 THEN Txid(pos)
    ELSE LET left == NodeHash(count, height - 1, 2 * pos)
             right == IF 2 * pos + 1 < TreeWidth(count, height - 1)
                      THEN NodeHash(count, height - 1, 2 * pos + 1) ELSE left
         IN  Hash256(<<left, right>>)

\* The flags and hashes of the node at a position, depth first.
RECURSIVE Partial(_, _, _, _)
Partial(count, M, height, pos) ==
    LET below == {i \in M : i \div 2 ^ height = pos}
        right == 2 * pos + 1
        l == Partial(count, M, height - 1, 2 * pos)
        r == IF right < TreeWidth(count, height - 1) THEN Partial(count, M, height - 1, right)
             ELSE [flags |-> <<>>, hashes |-> <<>>]
    IN  IF below = {} \/ height = 0
        THEN [flags |-> <<below # {}>>, hashes |-> <<NodeHash(count, height, pos)>>]
        ELSE [flags |-> <<TRUE>> \o l.flags \o r.flags, hashes |-> l.hashes \o r.hashes]

Padded(flags) ==
    flags \o [i \in 1 .. (FlagByte - (Len(flags) % FlagByte)) % FlagByte |-> FALSE]

-----------------------------------------------------------------------------
(* The program.                                                            *)

\* MerkleBlockValid.
MerkleBlockValid(m) ==
    LET n == Len(m.hashes)
    IN  ~m.short /\ (n > 1 => m.hashes[n] # m.hashes[n - 1])

NextElement(hashes) == IF hashes = <<>> THEN NoHashValue ELSE Head(hashes)
RestOf(hashes) == IF hashes = <<>> THEN <<>> ELSE Tail(hashes)

\* Mutant: a missing right child is hashed as no data.
RightAsIs(left, right) == right
RightOrLeft(left, right) == IF right = NoHashValue THEN left ELSE right

\* calculatedMerkleRootFlexible: s is [flags, hashes, matches, root], of which
\* the flags and hashes are those that are left.
RECURSIVE CalculatedMerkleRoot(_, _)
CalculatedMerkleRoot(s, height) ==
    IF s.flags = <<>> THEN [s EXCEPT !.root = NoHashValue]
    ELSE LET rest == [s EXCEPT !.flags = Tail(@)]
             element == NextElement(s.hashes)
             taken == [rest EXCEPT !.hashes = RestOf(@), !.root = element]
         IN  IF ~Head(s.flags) THEN taken
             ELSE IF height = 0 THEN [taken EXCEPT !.matches = Append(@, element)]
             ELSE LET left == CalculatedMerkleRoot(rest, height - 1)
                      right == CalculatedMerkleRoot(left, height - 1)
                  IN  [right EXCEPT !.root =
                          Hash256(<<left.root, RightOrLeft(left.root, right.root)>>)]

Calculated(m) ==
    IF ~MerkleBlockValid(m) THEN [root |-> NoHashValue, matches |-> <<>>]
    ELSE CalculatedMerkleRoot([flags |-> m.flags, hashes |-> m.hashes, matches |-> <<>>,
                               root |-> NoHashValue], TreeHeight(m.count))

\* matchingTxIdsIfValidRoot.
MatchingTxIds(m) ==
    LET c == Calculated(m)
    IN  IF c.root = NoHashValue \/ c.root # m.root THEN <<>> ELSE c.matches

-----------------------------------------------------------------------------
MerkleInit ==
    /\ merkle = [count |-> 0, root |-> NoHashValue, hashes |-> <<>>, flags |-> <<>>, short |-> TRUE]
    /\ matched = {} /\ damage = 0

PeerSendsMerkle(count, M) ==
    /\ merkle.count = 0
    /\ LET tree == Partial(count, M, TreeHeight(count), 0)
       IN  merkle' = [count |-> count, root |-> NodeHash(count, TreeHeight(count), 0),
                      hashes |-> tree.hashes, flags |-> Padded(tree.flags), short |-> FALSE]
    /\ matched' = M /\ UNCHANGED damage

\* A message changes on its way: a flag, a hash, a hash less, too short for
\* merkleHashes and merkleFlags, too short for a header.
Changed(m) ==
    LET at == DOMAIN m.hashes
    IN  {[m EXCEPT !.flags[i] = ~@] : i \in DOMAIN m.flags}
        \cup {[m EXCEPT !.hashes[ij[1]] = m.hashes[ij[2]]] : ij \in at \X at}
        \cup {[m EXCEPT !.hashes = RemoveAt(@, i)] : i \in at}
        \cup {[m EXCEPT !.hashes = <<>>, !.flags = <<>>], [m EXCEPT !.short = TRUE]}

DamageMerkle ==
    /\ merkle.count > 0 /\ damage < MaxDamage
    /\ damage' = damage + 1
    /\ merkle' \in Changed(merkle)
    /\ UNCHANGED matched

MerkleNext ==
    \/ \E count \in 1 .. MaxTxs : \E M \in SUBSET (0 .. count - 1) : PeerSendsMerkle(count, M)
    \/ DamageMerkle

-----------------------------------------------------------------------------
(* Properties.                                                             *)

\* From an intact message the program gets the root of the header and exactly
\* the transactions that the filter matched, in the order of the block, for
\* every number of transactions, also where levels of the tree are odd.  From
\* a damaged one it gets transactions of the block or none, or an empty id
\* where a flag stands for a child that does not exist.
MatchesFound ==
    merkle.count > 0 =>
        LET found == MatchingTxIds(merkle)
            all == [i \in 1 .. merkle.count |-> Txid(i - 1)]
        IN  IF damage = 0
            THEN /\ Calculated(merkle).root = merkle.root
                 /\ found = SelectSeq(all, LAMBDA t : t[2] \in matched)
            ELSE ToSet(found) \subseteq ToSet(all) \cup {NoHashValue}
=============================================================================
