---------------------------- MODULE KeyStoreProofs ----------------------------
(***************************************************************************)
(* What KeyStore.tla checks on small instances, proved for every set of    *)
(* keys, wallets and names and every bound: nonces never repeat, keys that *)
(* were acknowledged are never lost, wherever the program stops, and what  *)
(* the key manager derives agrees with what is stored.  At the end, that   *)
(* public and private wallets derive the same keys (HdWallets).            *)
(***************************************************************************)
EXTENDS KeyStore, HdWallets, SubsequenceProofs, TLAPS

-----------------------------------------------------------------------------
(* The inductive invariants.                                               *)

\* A content of the storage file has a value for each item.
IsContent(c) == c = [item \in Items |-> c[item]]

\* What the file holds, or will hold when the save under way ends.
Stored == IF bsSaving = <<>> THEN bsFile ELSE bsSaving[1]

CounterOf(c) == IF c["nonceCounter"] = NoKey THEN 0 ELSE c["nonceCounter"]

\* A content is ahead of the nonces: its counter is beyond those that were
\* returned with its prefix, if it has one.
Ahead(c) ==
    /\ c["nonceCounter"] \in Nat \cup {NoKey}
    /\ c["noncePrefix"] \in (1 .. entropy) \cup {NoKey}
    /\ c["noncePrefix"] # NoKey =>
           \A i \in DOMAIN nonces : nonces[i][1] = c["noncePrefix"] => nonces[i][2] < CounterOf(c)

\* A nonce is made of a prefix that was drawn; the prefix in memory is that of
\* the file; while KMNextNonce saves the next counter, its own is unused.
NonceInv ==
    /\ entropy \in Nat
    /\ nonces \in Seq(Nat \X Nat)
    /\ \A i \in DOMAIN nonces : nonces[i][1] <= entropy
    /\ IsContent(bsFile)
    /\ bsSaving = <<>> \/ (bsSaving = <<bsSaving[1]>> /\ IsContent(bsSaving[1]))
    /\ bsSaving # <<>> <=> ui.pc = "save"
    /\ Ahead(Stored)
    /\ ui.pc # "init" => kmPrefix = Stored["noncePrefix"] /\ kmPrefix # NoKey
    /\ ui.pc = "save" /\ ui.then = "nonce" =>
           /\ ui.index \in Nat /\ Stored["nonceCounter"] = ui.index + 1
           /\ \A i \in DOMAIN nonces : nonces[i][1] = kmPrefix => nonces[i][2] < ui.index
    /\ NoncesUnique

\* Where the user's thread is and what it holds.
UiType ==
    [pc : {"init", "idle", "save", "add", "addWrite", "swap", "swapFirst", "swapSecond",
           "swapEnd", "netSeed", "netHashes"},
     key : Keys \cup {NoKey}, index : Nat, then : {"return", "swap", "nonce"}]

\* Where the reading thread is, and the list it has read.
ReaderType == [pc : {"idle", "seed", "hashes"}, net : Nets, result : Seq(Keys)]

\* What may be under way to a key file.
KeyWrites == [net : Nets, index : KeyIndex, key : Keys]

\* The types of what the keys depend on.
KeyTypes ==
    /\ keyFile \in [Nets -> [KeyIndex -> Keys \cup {NoKey}]]
    /\ keyWriting = <<>> \/ (keyWriting = <<keyWriting[1]>> /\ keyWriting[1] \in KeyWrites)
    /\ kmTestnet \in Nets
    /\ kmHashCache \in Seq(Keys)
    /\ ui \in UiType
    /\ reader \in ReaderType
    /\ acked \in [Nets -> SUBSET Keys]
    /\ swapSeen \in BOOLEAN

\* The key file of the network in use at the index of the key that is added.
NewFile == keyFile[kmTestnet][ui.index]

\* What is being written, and what an import has written, at each of its steps.
WriteSteps ==
    /\ keyWriting # <<>> <=> ui.pc \in {"addWrite", "swapFirst", "swapEnd"}
    /\ keyWriting # <<>> => keyWriting[1].net = kmTestnet
    /\ ui.pc \in {"add", "addWrite", "swap", "swapFirst", "swapSecond", "swapEnd"} =>
           ui.index \in KeyIndex /\ ui.key \in Keys
    /\ ui.pc = "addWrite" => /\ keyWriting[1].index = ui.index /\ keyWriting[1].key = ui.key
                             /\ kmHashCache = <<>> /\ reader.pc # "hashes"
    /\ ui.pc = "swap" => NewFile = ui.key
    /\ ui.pc \in {"swapFirst", "swapSecond", "swapEnd"} => ui.index # 0
    /\ ui.pc = "swapFirst" => /\ keyWriting[1].index = ui.index
                              /\ keyWriting[1].key = keyFile[kmTestnet][0]
    /\ ui.pc \in {"swapSecond", "swapEnd"} => NewFile # NoKey
    /\ ui.pc = "swapEnd" => keyWriting[1].index = 0 /\ keyWriting[1].key = ui.key

\* The files of the network in use that the call under way is about to write,
\* or is writing, though they may hold a key.
Doomed ==
    IF ui.pc \in {"addWrite", "swap", "swapFirst"} THEN {ui.index}
    ELSE IF ui.pc \in {"swapSecond", "swapEnd"} THEN {0} ELSE {}

Held(net, key) ==
    \E i \in KeyIndex : keyFile[net][i] = key /\ (net = kmTestnet => i \notin Doomed)

\* The file at the index that the length of the cached list gives is free, unless
\* the network is just being changed; in the middle of an import it is not the
\* file that is written.
CacheFits ==
    kmHashCache # <<>> /\ ui.pc \notin {"netSeed", "netHashes"} /\ Len(kmHashCache) \in KeyIndex =>
        /\ keyFile[kmTestnet][Len(kmHashCache)] = NoKey
        /\ ui.pc = "swapFirst" => Len(kmHashCache) # ui.index

\* The index of a new key is free, and every acknowledged key is in a file that
\* nothing is about to overwrite.
Kept ==
    /\ CacheFits
    /\ ui.pc = "add" => NewFile = NoKey
    /\ \A net \in Nets : \A key \in acked[net] : Held(net, key)

\* All this unless the list was read from a file that an import was writing.
KeyInv ==
    /\ KeyTypes
    /\ WriteSteps
    /\ ~swapSeen => Kept

-----------------------------------------------------------------------------
(* Calls that only save an item.                                           *)

\* The items that are not about nonces.
OtherItems == Items \ {"noncePrefix", "nonceCounter"}

\* Where the items of the nonces are in the file: the counter comes first.
LEMMA NonceItems ==
    /\ \A i \in 1 .. 13 : /\ ItemOrder[i] = "nonceCounter" <=> i = 7
                          /\ ItemOrder[i] = "noncePrefix" <=> i = 8
    /\ Len(ItemOrder) = 13
    /\ "nonceCounter" \in Items /\ "noncePrefix" \in Items
<1>1. Len(ItemOrder) = 13 /\ DOMAIN ItemOrder = 1 .. 13
  BY DEF ItemOrder
<1>2. ItemOrder[7] = "nonceCounter" /\ ItemOrder[8] = "noncePrefix"
  BY DEF ItemOrder
<1>3. \A i \in 1 .. 13 : /\ ItemOrder[i] = "nonceCounter" => i = 7
                         /\ ItemOrder[i] = "noncePrefix" => i = 8
  BY DEF ItemOrder
<1>4. "nonceCounter" \in Items /\ "noncePrefix" \in Items
  BY <1>1, <1>2 DEF Items
<1> QED  BY <1>1, <1>2, <1>3, <1>4

\* The items the calls save are items of the file, and not those of the nonces.
LEMMA ItemNames ==
    {KeyNameItem, WalletsItem, MultisigItem, VaultItem, SortItem, "privKeyHashForDeviceKey"}
        \subseteq OtherItems
<1>1. /\ ItemOrder[1] = "KeyNameDict" /\ ItemOrder[2] = "KeyNameDictTestNet"
      /\ ItemOrder[3] = "knownHDWalletsKey" /\ ItemOrder[4] = "knownHDWalletsKeyMainNet"
      /\ ItemOrder[5] = "multisigObjectsKey" /\ ItemOrder[6] = "multisigObjectsKeyTestNet"
      /\ ItemOrder[9] = "privKeyHashForDeviceKey" /\ ItemOrder[10] = "sortHashesKey"
      /\ ItemOrder[11] = "sortHashesKeyTestNet" /\ ItemOrder[12] = "vaultObjectsKey"
      /\ ItemOrder[13] = "vaultObjectsKeyTestNet" /\ DOMAIN ItemOrder = 1 .. 13
  BY DEF ItemOrder
<1>2. {"KeyNameDict", "KeyNameDictTestNet", "knownHDWalletsKey", "knownHDWalletsKeyMainNet",
       "multisigObjectsKey", "multisigObjectsKeyTestNet", "privKeyHashForDeviceKey",
       "sortHashesKey", "sortHashesKeyTestNet", "vaultObjectsKey", "vaultObjectsKeyTestNet"}
          \subseteq Items
  BY <1>1 DEF Items
<1> QED  BY <1>2 DEF OtherItems, KeyNameItem, WalletsItem, MultisigItem, VaultItem, SortItem, Item

\* A call of the user's thread that saves an item and returns nothing.
Saves == ui.pc = "idle" /\ \E item \in OtherItems : \E value : SaveItem(item, value)

\* What the user's thread can begin: to save an item, to draw a nonce, to add a
\* key, to fill the cache of masters or to change the network.
LEMMA CallKinds ==
    ASSUME UiCall
    PROVE  \/ Saves \/ NextNonce
           \/ \E k \in Keys, then \in {"return", "swap"} : AddIndex(k, then)
           \/ VaultMasterHdWalletAtIndex(0)
           \/ \E net \in Nets : SetTestnet(net)
<1>1. ASSUME NEW i, NEW name, SetKeyName(i, name) PROVE Saves
  BY <1>1, ItemNames DEF SetKeyName, Call, Saves
<1>2. ASSUME NEW w, NEW u, NEW t, SetHDWalletForUUID(w, u, t) PROVE Saves
  BY <1>2, ItemNames DEF SetHDWalletForUUID, Call, Saves
<1>3. ASSUME NEW k, NEW u, SetPrivKeyHashForDevice(k, u) PROVE Saves
  BY <1>3, ItemNames DEF SetPrivKeyHashForDevice, Call, Saves
<1>4. ASSUME NEW w, NEW n, AddMultisig(w, n) PROVE Saves
  BY <1>4, ItemNames DEF AddMultisig, Call, Saves
<1>5. ASSUME NEW mw, NEW w, NEW n, AddVaultObserver(mw, w, n) PROVE Saves
  BY <1>5, ItemNames DEF AddVaultObserver, Call, Saves
<1>6. ASSUME NEW w, NEW n, AddVault(w, n) PROVE Saves
  BY <1>5, <1>6 DEF AddVault
<1>7. ASSUME NEW i, RemoveMultisig(i) \/ RemoveVault(i) PROVE Saves
  BY <1>7, ItemNames DEF RemoveMultisig, RemoveVault, Call, Saves
<1>8. ASSUME NEW h, SetSortHashes(h) \/ SetHiddenHashes(h) PROVE Saves
  BY <1>8, ItemNames DEF SetSortHashes, SetHiddenHashes, Call, Saves
<1> QED  BY <1>1, <1>2, <1>3, <1>4, <1>5, <1>6, <1>7, <1>8 DEF UiCall

-----------------------------------------------------------------------------
(* Types and the steps of an import.                                       *)

\* A nonempty set of numbers has a least one.
LEMMA LeastNatural ==
    ASSUME NEW S, S \subseteq Nat, S # {}
    PROVE  \E m \in S : \A k \in S : m <= k
<1> DEFINE R == OpToRel(<, Nat)
<1>1. IsWellFoundedOn(R, Nat)
  BY NatLessThanWellFounded
<1>2. \A x, y \in Nat : x < y => <<x, y>> \in R
  BY DEF OpToRel
<1> HIDE DEF R
<1>3. PICK m \in S : \A k \in S : ~(<<k, m>> \in R)
  BY <1>1, WFMin
<1>4. ASSUME NEW k \in S PROVE m <= k
  <2>1. m \in Nat /\ k \in Nat
    OBVIOUS
  <2>2. ~(k < m)
    BY <1>2, <1>3, <2>1
  <2> QED  BY <2>1, <2>2
<1> QED  BY <1>4

\* KMAllPrivKeys stops: there is a first index without a key, and what it
\* returns are the keys before it.
LEMMA KeyCount ==
    ASSUME KeyTypes, NEW net \in Nets
    PROVE  /\ PrivKeyCount(net) \in 0 .. MaxKeyFile + 1
           /\ \A i \in 0 .. PrivKeyCount(net) - 1 : PrivKeyAtIndex(net, i) # NoKey
           /\ PrivKeyAtIndex(net, PrivKeyCount(net)) = NoKey
           /\ AllPrivKeys(net) \in Seq(Keys)
           /\ Len(AllPrivKeys(net)) = PrivKeyCount(net)
<1> USE KeyStoreAssumption
<1> DEFINE free == {n \in 0 .. MaxKeyFile + 1 : PrivKeyAtIndex(net, n) = NoKey}
<1>1. MaxKeyFile + 1 \in free
  BY DEF PrivKeyAtIndex, KeyIndex
<1>2. PICK m \in free : \A k \in free : m <= k
  <2>1. free \subseteq Nat /\ free # {}
    BY <1>1
  <2> HIDE DEF free
  <2> QED  BY <2>1, LeastNatural
<1>3. \E n \in 0 .. MaxKeyFile + 1 :
          /\ \A i \in 0 .. n - 1 : PrivKeyAtIndex(net, i) # NoKey
          /\ PrivKeyAtIndex(net, n) = NoKey
  <2>1. m \in 0 .. MaxKeyFile + 1 /\ PrivKeyAtIndex(net, m) = NoKey
    BY <1>2
  <2>2. \A i \in 0 .. m - 1 : PrivKeyAtIndex(net, i) # NoKey
    BY <1>2, <2>1
  <2> QED  BY <2>1, <2>2
<1>4. /\ PrivKeyCount(net) \in 0 .. MaxKeyFile + 1
      /\ \A i \in 0 .. PrivKeyCount(net) - 1 : PrivKeyAtIndex(net, i) # NoKey
      /\ PrivKeyAtIndex(net, PrivKeyCount(net)) = NoKey
  BY <1>3 DEF PrivKeyCount
<1>5. \A i \in 1 .. PrivKeyCount(net) : PrivKeyAtIndex(net, i - 1) \in Keys
  <2> SUFFICES ASSUME NEW i \in 1 .. PrivKeyCount(net) PROVE PrivKeyAtIndex(net, i - 1) \in Keys
    OBVIOUS
  <2>1. i - 1 \in 0 .. PrivKeyCount(net) - 1
    BY <1>4
  <2>2. PrivKeyAtIndex(net, i - 1) # NoKey
    BY <1>4, <2>1
  <2> QED  BY <2>2 DEF PrivKeyAtIndex, KeyTypes
<1>6. AllPrivKeys(net) \in Seq(Keys) /\ Len(AllPrivKeys(net)) = PrivKeyCount(net)
  BY <1>4, <1>5 DEF AllPrivKeys
<1> QED  BY <1>4, <1>6

\* KMAllPrivKeyHashes returns keys.
LEMMA HashesType == KeyTypes => AllPrivKeyHashes \in Seq(Keys)
BY KeyCount DEF AllPrivKeyHashes, KeyTypes

\* The steps that leave the key files, the lists and the user's thread where
\* they are, or move the thread between calls that do not touch keys.
keySide == <<keyFile, keyWriting, kmTestnet, kmHashCache, reader, acked, swapSeen>>

\* Such a step keeps the types and the steps of an import.
LEMMA SideFrame ==
    ASSUME KeyTypes, WriteSteps, UNCHANGED keySide,
           ui.pc \in {"init", "idle", "save"},
           ui' \in UiType, ui'.pc \in {"init", "idle", "save"}
    PROVE  KeyTypes' /\ WriteSteps'
BY DEF KeyTypes, WriteSteps, keySide, NewFile

\* The counter KMNextNonce reads is a number.
LEMMA CounterType ==
    ASSUME NonceInv, ui.pc = "idle"
    PROVE  bsSaving = <<>> /\ Stored = bsFile /\ NonceCounter \in Nat /\ NonceCounter = CounterOf(Stored)
BY DEF NonceInv, Stored, Ahead, NonceCounter, CounterOf, bsLoad

\* No call of the user's thread breaks types or the steps of an import.
LEMMA CallTypes ==
    ASSUME NonceInv, KeyTypes, WriteSteps, UiCall
    PROVE  KeyTypes' /\ WriteSteps'
<1> USE KeyStoreAssumption
<1>1. CASE Saves
  <2>1. ui'= [UiIdle EXCEPT !.pc = "save"] /\ UNCHANGED keySide
    BY <1>1 DEF Saves, SaveItem, keySide
  <2>2. ui' \in UiType /\ ui'.pc = "save"
    BY <2>1 DEF UiIdle, UiType
  <2> QED  BY <1>1, <2>1, <2>2, SideFrame DEF Saves
<1>2. CASE NextNonce
  <2>1. ui' = [UiIdle EXCEPT !.pc = "save", !.then = "nonce", !.index = NonceCounter]
        /\ UNCHANGED keySide /\ ui.pc = "idle"
    BY <1>2 DEF NextNonce, Call, keySide
  <2>2. NonceCounter \in Nat
    BY <2>1, CounterType
  <2>3. ui' \in UiType /\ ui'.pc = "save"
    BY <2>1, <2>2 DEF UiIdle, UiType
  <2> QED  BY <2>1, <2>3, SideFrame
<1>3. ASSUME NEW k \in Keys, NEW then \in {"return", "swap"}, AddIndex(k, then)
      PROVE  KeyTypes' /\ WriteSteps'
  <2>1. /\ ui' = [pc |-> "add", key |-> k, index |-> Len(AllPrivKeyHashes), then |-> then]
        /\ ui.pc = "idle" /\ Len(AllPrivKeyHashes) \in KeyIndex
        /\ kmHashCache' = AllPrivKeyHashes
        /\ UNCHANGED <<keyFile, keyWriting, kmTestnet, reader, acked, swapSeen>>
    BY <1>3 DEF AddIndex, Call, keyRest
  <2>2. ui' \in UiType /\ ui'.pc = "add" /\ ui'.index \in KeyIndex /\ ui'.key \in Keys
    BY <2>1 DEF UiType, KeyIndex
  <2>3. kmHashCache' \in Seq(Keys)
    BY <2>1, HashesType
  <2> QED  BY <2>1, <2>2, <2>3 DEF KeyTypes, WriteSteps
<1>4. CASE VaultMasterHdWalletAtIndex(0)
  <2>1. UNCHANGED keySide /\ ui' = ui /\ ui.pc = "idle"
    BY <1>4 DEF VaultMasterHdWalletAtIndex, Call, keySide
  <2>2. ui' \in UiType /\ ui'.pc = "idle"
    BY <2>1 DEF KeyTypes
  <2> QED  BY <2>1, <2>2, SideFrame
<1>5. ASSUME NEW net \in Nets, SetTestnet(net)
      PROVE  KeyTypes' /\ WriteSteps'
  <2>1. /\ ui' = [UiIdle EXCEPT !.pc = "netSeed"] /\ kmTestnet' = net /\ ui.pc = "idle"
        /\ UNCHANGED <<keyFile, keyWriting, kmHashCache, reader, acked, swapSeen>>
    BY <1>5 DEF SetTestnet, Call, netRest
  <2>2. ui' \in UiType /\ ui'.pc = "netSeed"
    BY <2>1 DEF UiIdle, UiType
  <2> QED  BY <2>1, <2>2 DEF KeyTypes, WriteSteps
<1> QED  BY <1>1, <1>2, <1>3, <1>4, <1>5, CallKinds

\* Beginning and ending to write a key file keeps it a file of keys.
LEMMA KeyWriteTypes ==
    ASSUME KeyTypes
    PROVE  /\ \A net \in Nets, i \in KeyIndex, key \in Keys :
                  KeyWriteBegin(net, i, key) =>
                      /\ keyFile' \in [Nets -> [KeyIndex -> Keys \cup {NoKey}]]
                      /\ keyWriting' # <<>> /\ keyWriting' = <<keyWriting'[1]>>
                      /\ keyWriting'[1] \in KeyWrites
                      /\ keyWriting'[1] = [net |-> net, index |-> i, key |-> key]
                      /\ \A n \in Nets, j \in KeyIndex :
                             keyFile'[n][j] = IF n = net /\ j = i THEN NoKey ELSE keyFile[n][j]
           /\ KeyWriteEnd =>
                  /\ keyFile' \in [Nets -> [KeyIndex -> Keys \cup {NoKey}]]
                  /\ keyWriting' = <<>>
                  /\ \A n \in Nets, j \in KeyIndex :
                         keyFile'[n][j] = IF n = keyWriting[1].net /\ j = keyWriting[1].index
                                          THEN keyWriting[1].key ELSE keyFile[n][j]
<1>1. ASSUME NEW net \in Nets, NEW i \in KeyIndex, NEW key \in Keys, KeyWriteBegin(net, i, key)
      PROVE  /\ keyFile' \in [Nets -> [KeyIndex -> Keys \cup {NoKey}]]
             /\ keyWriting' # <<>> /\ keyWriting' = <<keyWriting'[1]>>
             /\ keyWriting'[1] \in KeyWrites
             /\ keyWriting'[1] = [net |-> net, index |-> i, key |-> key]
             /\ \A n \in Nets, j \in KeyIndex :
                    keyFile'[n][j] = IF n = net /\ j = i THEN NoKey ELSE keyFile[n][j]
  BY <1>1 DEF KeyWriteBegin, KeyTypes, KeyWrites
<1>2. ASSUME KeyWriteEnd
      PROVE  /\ keyFile' \in [Nets -> [KeyIndex -> Keys \cup {NoKey}]]
             /\ keyWriting' = <<>>
             /\ \A n \in Nets, j \in KeyIndex :
                    keyFile'[n][j] = IF n = keyWriting[1].net /\ j = keyWriting[1].index
                                     THEN keyWriting[1].key ELSE keyFile[n][j]
  BY <1>2 DEF KeyWriteEnd, KeyTypes, KeyWrites
<1> QED  BY <1>1, <1>2

\* No step of a call of the user's thread breaks types or the steps of an import.
LEMMA UiStepTypes ==
    ASSUME NonceInv, KeyTypes, WriteSteps, UiStep
    PROVE  KeyTypes' /\ WriteSteps'
<1> USE KeyStoreAssumption
<1>i. UiIdle \in UiType /\ UiIdle.pc = "idle"
  BY DEF UiIdle, UiType
<1>u. \A l \in {"addWrite", "swap", "swapFirst", "swapSecond", "swapEnd", "netHashes"} :
         /\ [ui EXCEPT !.pc = l] \in UiType /\ [ui EXCEPT !.pc = l].pc = l
         /\ [ui EXCEPT !.pc = l].index = ui.index /\ [ui EXCEPT !.pc = l].key = ui.key
         /\ [ui EXCEPT !.pc = l].then = ui.then
  BY DEF KeyTypes, UiType
<1>1. CASE InitLoad
  <2>1. UNCHANGED keySide /\ ui.pc = "init"
        /\ (ui' = UiIdle \/ ui' = [UiIdle EXCEPT !.pc = "save"])
    BY <1>1 DEF InitLoad, keySide
  <2>2. ui' \in UiType /\ ui'.pc \in {"idle", "save"}
    BY <2>1 DEF UiIdle, UiType
  <2> QED  BY <2>1, <2>2, SideFrame
<1>2. CASE SaveReturns
  <2>1. UNCHANGED keySide /\ ui.pc = "save" /\ ui' = UiIdle
    BY <1>2 DEF SaveReturns, keySide
  <2> QED  BY <2>1, <1>i, SideFrame
<1>3. CASE AddWrite
  <2>1. /\ ui.pc = "add" /\ reader.pc # "hashes" /\ kmHashCache' = <<>>
        /\ KeyWriteBegin(kmTestnet, ui.index, ui.key)
        /\ ui' = [ui EXCEPT !.pc = "addWrite"]
        /\ UNCHANGED <<kmTestnet, reader, acked, swapSeen>>
    BY <1>3 DEF AddWrite, HashMutexFree, keyRest
  <2>2. ui.index \in KeyIndex /\ ui.key \in Keys /\ kmTestnet \in Nets
    BY <2>1 DEF WriteSteps, KeyTypes
  <2>3. /\ keyFile' \in [Nets -> [KeyIndex -> Keys \cup {NoKey}]]
        /\ keyWriting' # <<>> /\ keyWriting' = <<keyWriting'[1]>>
        /\ keyWriting'[1] \in KeyWrites
        /\ keyWriting'[1] = [net |-> kmTestnet, index |-> ui.index, key |-> ui.key]
    BY <2>1, <2>2, KeyWriteTypes
  <2>4. KeyTypes'
    BY <2>1, <2>3, <1>u DEF KeyTypes
  <2>5. WriteSteps'
    BY <2>1, <2>2, <2>3, <1>u DEF WriteSteps
  <2> QED  BY <2>4, <2>5
<1>4. CASE AddReturns
  <2>1. /\ ui.pc = "addWrite" /\ KeyWriteEnd
        /\ UNCHANGED <<kmTestnet, kmHashCache, reader, swapSeen>>
        /\ \/ ui' = UiIdle /\ Acknowledge(ui.key)
           \/ ui' = [ui EXCEPT !.pc = "swap"] /\ acked' = acked
    BY <1>4 DEF AddReturns, keyRest
  <2>2. /\ keyFile' \in [Nets -> [KeyIndex -> Keys \cup {NoKey}]] /\ keyWriting' = <<>>
        /\ ui.index \in KeyIndex /\ ui.key \in Keys /\ kmTestnet \in Nets
        /\ keyFile'[kmTestnet][ui.index] = ui.key
    BY <2>1, KeyWriteTypes DEF WriteSteps, KeyTypes
  <2>3. CASE ui' = UiIdle /\ Acknowledge(ui.key)
    <3>1. acked' \in [Nets -> SUBSET Keys]
      BY <2>2, <2>3 DEF Acknowledge, KeyTypes
    <3> QED  BY <2>1, <2>2, <2>3, <3>1, <1>i DEF KeyTypes, WriteSteps
  <2>4. CASE ui' = [ui EXCEPT !.pc = "swap"] /\ acked' = acked
    <3>1. ui' \in UiType /\ ui'.pc = "swap" /\ ui'.index = ui.index /\ ui'.key = ui.key
      BY <2>4, <1>u
    <3> QED  BY <2>1, <2>2, <2>4, <3>1 DEF KeyTypes, WriteSteps, NewFile
  <2> QED  BY <2>1, <2>3, <2>4
<1>5. CASE SwapFirst
  <2>0. /\ ui.pc = "swap" /\ ui.index \in KeyIndex /\ ui.key \in Keys /\ kmTestnet \in Nets
        /\ 0 \in KeyIndex
        /\ UNCHANGED <<kmTestnet, kmHashCache, reader, swapSeen>>
    BY <1>5 DEF SwapFirst, keyRest, WriteSteps, KeyTypes, KeyIndex
  <2>1. CASE ui' = UiIdle /\ Acknowledge(ui.key) /\ UNCHANGED <<keyFile, keyWriting>>
    BY <2>0, <2>1, <1>i DEF Acknowledge, KeyTypes, WriteSteps
  <2>2. CASE /\ PrivKeyAtIndex(kmTestnet, 0) # NoKey /\ ui.index # 0
             /\ PrivKeyAtIndex(kmTestnet, ui.index) # NoKey
             /\ KeyWriteBegin(kmTestnet, ui.index, PrivKeyAtIndex(kmTestnet, 0))
             /\ ui' = [ui EXCEPT !.pc = "swapFirst", !.key = PrivKeyAtIndex(kmTestnet, ui.index)]
             /\ acked' = acked
    <3>1. /\ keyFile[kmTestnet][0] \in Keys /\ PrivKeyAtIndex(kmTestnet, 0) = keyFile[kmTestnet][0]
          /\ PrivKeyAtIndex(kmTestnet, ui.index) \in Keys
      BY <2>0, <2>2 DEF PrivKeyAtIndex, KeyTypes
    <3>2. /\ keyFile' \in [Nets -> [KeyIndex -> Keys \cup {NoKey}]]
          /\ keyWriting' # <<>> /\ keyWriting' = <<keyWriting'[1]>>
          /\ keyWriting'[1] \in KeyWrites
          /\ keyWriting'[1] = [net |-> kmTestnet, index |-> ui.index, key |-> keyFile[kmTestnet][0]]
          /\ keyFile'[kmTestnet][0] = keyFile[kmTestnet][0]
      BY <2>0, <2>2, <3>1, KeyWriteTypes
    <3>3. /\ ui' \in UiType /\ ui'.pc = "swapFirst" /\ ui'.index = ui.index /\ ui'.key \in Keys
      BY <2>2, <3>1 DEF KeyTypes, UiType
    <3>4. KeyTypes'
      BY <2>0, <2>2, <3>2, <3>3 DEF KeyTypes
    <3>5. WriteSteps'
      BY <2>0, <2>2, <3>2, <3>3 DEF WriteSteps
    <3> QED  BY <3>4, <3>5
  <2>3. SwapOrder[1] = ui.index
    BY DEF SwapOrder
  <2> QED  BY <1>5, <2>0, <2>1, <2>2, <2>3 DEF SwapFirst
<1>6. CASE SwapFirstDone
  <2>1. /\ ui.pc = "swapFirst" /\ KeyWriteEnd /\ ui' = [ui EXCEPT !.pc = "swapSecond"]
        /\ UNCHANGED <<kmTestnet, kmHashCache, reader, acked, swapSeen>>
    BY <1>6 DEF SwapFirstDone, keyRest
  <2>2. /\ keyFile' \in [Nets -> [KeyIndex -> Keys \cup {NoKey}]] /\ keyWriting' = <<>>
        /\ ui.index \in KeyIndex /\ ui.key \in Keys /\ kmTestnet \in Nets /\ ui.index # 0
        /\ keyFile'[kmTestnet][ui.index] \in Keys
    BY <2>1, KeyWriteTypes DEF WriteSteps, KeyTypes, KeyWrites
  <2>4. KeyTypes'
    BY <2>1, <2>2, <1>u DEF KeyTypes
  <2>5. WriteSteps'
    BY <2>1, <2>2, <1>u DEF WriteSteps, NewFile
  <2> QED  BY <2>4, <2>5
<1>7. CASE SwapSecond
  <2>1. /\ ui.pc = "swapSecond" /\ KeyWriteBegin(kmTestnet, 0, ui.key)
        /\ ui' = [ui EXCEPT !.pc = "swapEnd"]
        /\ UNCHANGED <<kmTestnet, kmHashCache, reader, acked, swapSeen>>
    BY <1>7 DEF SwapSecond, keyRest, SwapOrder
  <2>2. ui.index \in KeyIndex /\ ui.key \in Keys /\ kmTestnet \in Nets /\ 0 \in KeyIndex
        /\ ui.index # 0 /\ NewFile # NoKey
    BY <2>1 DEF WriteSteps, KeyTypes, KeyIndex
  <2>3. /\ keyFile' \in [Nets -> [KeyIndex -> Keys \cup {NoKey}]]
        /\ keyWriting' # <<>> /\ keyWriting' = <<keyWriting'[1]>>
        /\ keyWriting'[1] \in KeyWrites
        /\ keyWriting'[1] = [net |-> kmTestnet, index |-> 0, key |-> ui.key]
        /\ keyFile'[kmTestnet][ui.index] = NewFile
    BY <2>1, <2>2, KeyWriteTypes DEF NewFile
  <2>4. KeyTypes'
    BY <2>1, <2>3, <1>u DEF KeyTypes
  <2>5. WriteSteps'
    BY <2>1, <2>2, <2>3, <1>u DEF WriteSteps, NewFile
  <2> QED  BY <2>4, <2>5
<1>8. CASE SwapReturns
  <2>1. /\ ui.pc = "swapEnd" /\ KeyWriteEnd /\ ui' = UiIdle /\ Acknowledge(ui.key)
        /\ UNCHANGED <<kmTestnet, kmHashCache, reader, swapSeen>>
    BY <1>8 DEF SwapReturns, keyRest
  <2>2. /\ keyFile' \in [Nets -> [KeyIndex -> Keys \cup {NoKey}]] /\ keyWriting' = <<>>
        /\ ui.key \in Keys /\ kmTestnet \in Nets
    BY <2>1, KeyWriteTypes DEF WriteSteps, KeyTypes
  <2>3. acked' \in [Nets -> SUBSET Keys]
    BY <2>1, <2>2 DEF Acknowledge, KeyTypes
  <2> QED  BY <2>1, <2>2, <2>3, <1>i DEF KeyTypes, WriteSteps
<1>9. CASE SetTestnetSeed
  <2>1. /\ ui.pc = "netSeed" /\ ui' = [ui EXCEPT !.pc = "netHashes"]
        /\ UNCHANGED <<keyFile, keyWriting, kmTestnet, kmHashCache, reader, acked, swapSeen>>
    BY <1>9 DEF SetTestnetSeed, netRest
  <2> QED  BY <2>1, <1>u DEF KeyTypes, WriteSteps
<1>10. CASE SetTestnetHashes
  <2>1. /\ ui.pc = "netHashes" /\ ui' = UiIdle /\ kmHashCache' = <<>>
        /\ UNCHANGED <<keyFile, keyWriting, kmTestnet, reader, acked, swapSeen>>
    BY <1>10 DEF SetTestnetHashes, netRest
  <2> QED  BY <2>1, <1>i DEF KeyTypes, WriteSteps
<1> QED  BY <1>1, <1>2, <1>3, <1>4, <1>5, <1>6, <1>7, <1>8, <1>9, <1>10 DEF UiStep

\* The reading thread between calls, and at the beginning of each.
LEMMA ReaderStarts ==
    /\ ReaderIdle \in ReaderType
    /\ \A l \in {"idle", "seed", "hashes"}, n \in Nets :
           LET r == [ReaderIdle EXCEPT !.pc = l, !.net = n]
           IN  r \in ReaderType /\ r.pc = l /\ r.result = <<>>
    /\ \A l \in {"idle", "seed", "hashes"} :
           LET r == [ReaderIdle EXCEPT !.pc = l]
           IN  r \in ReaderType /\ r.pc = l /\ r.result = <<>>
<1>1. <<>> \in Seq(Keys) /\ "main" \in Nets
  BY DEF Nets
<1> QED  BY <1>1 DEF ReaderIdle, ReaderType

\* No step of the reading thread breaks types or the steps of an import.
LEMMA ReaderTypes ==
    ASSUME KeyTypes, WriteSteps, ReaderStep
    PROVE  KeyTypes' /\ WriteSteps'
<1>0. UNCHANGED <<keyFile, keyWriting, kmTestnet, ui, acked>>
  BY DEF ReaderStep, HdWalletIndex, HdWalletIndexSeed, ReadHashes, ReadHashesNext, readRest
<1>1. CASE HdWalletIndex
  <2>1. /\ reader' = [ReaderIdle EXCEPT !.pc = "seed", !.net = kmTestnet]
        /\ UNCHANGED <<kmHashCache, swapSeen>>
    BY <1>1 DEF HdWalletIndex
  <2>2. reader' \in ReaderType
        /\ reader'.pc # "hashes"
    BY <2>1, ReaderStarts DEF KeyTypes
  <2> QED  BY <1>0, <2>1, <2>2 DEF KeyTypes, WriteSteps, NewFile
<1>2. CASE HdWalletIndexSeed
  <2>1. reader' = ReaderIdle /\ UNCHANGED <<kmHashCache, swapSeen>>
    BY <1>2 DEF HdWalletIndexSeed
  <2>2. reader' \in ReaderType
        /\ reader'.pc # "hashes"
    BY <2>1, ReaderStarts DEF ReaderIdle
  <2> QED  BY <1>0, <2>1, <2>2 DEF KeyTypes, WriteSteps, NewFile
<1>3. CASE ReadHashes
  <2>1. /\ reader' = [ReaderIdle EXCEPT !.pc = "hashes"] /\ ui.pc # "addWrite"
        /\ UNCHANGED <<kmHashCache, swapSeen>>
    BY <1>3 DEF ReadHashes, HashMutexFree
  <2>2. reader' \in ReaderType
    BY <2>1, ReaderStarts DEF ReaderIdle
  <2> QED  BY <1>0, <2>1, <2>2 DEF KeyTypes, WriteSteps, NewFile
<1>4. CASE ReadHashesNext
  <2>0. reader.pc = "hashes" /\ ui.pc # "addWrite"
    BY <1>4 DEF ReadHashesNext, WriteSteps
  <2>1. /\ swapSeen' \in BOOLEAN /\ kmHashCache' \in Seq(Keys)
        /\ reader' \in ReaderType
    <3> DEFINE key == PrivKeyAtIndex(kmTestnet, Len(reader.result))
    <3>1. key \in Keys \cup {NoKey} /\ reader.result \in Seq(Keys)
      BY DEF KeyTypes, PrivKeyAtIndex, ReaderType
    <3>2. CASE key # NoKey
      <4>1. Append(reader.result, key) \in Seq(Keys)
        BY <3>1, <3>2
      <4>2. reader' = [reader EXCEPT !.result = Append(reader.result, key)] /\ kmHashCache' = kmHashCache
        BY <1>4, <3>2 DEF ReadHashesNext
      <4> HIDE DEF key
      <4> QED  BY <1>4, <4>1, <4>2 DEF ReadHashesNext, KeyTypes, ReaderType
    <3>3. CASE key = NoKey
      BY <1>4, <3>1, <3>3, ReaderStarts DEF ReadHashesNext, KeyTypes
    <3> QED  BY <3>2, <3>3
  <2> QED  BY <1>0, <2>0, <2>1 DEF KeyTypes, WriteSteps, NewFile
<1> QED  BY <1>1, <1>2, <1>3, <1>4 DEF ReaderStep

\* What a stop leaves of the key files: as they were, or with the one that was
\* being written complete.
LEMMA CrashFiles ==
    ASSUME KeyTypes, Crash
    PROVE  /\ keyFile' \in [Nets -> [KeyIndex -> Keys \cup {NoKey}]]
           /\ keyWriting = <<>> => keyFile' = keyFile
           /\ keyWriting # <<>> =>
                  \/ keyFile' = keyFile
                  \/ \A n \in Nets, j \in KeyIndex :
                         keyFile'[n][j] = IF n = keyWriting[1].net /\ j = keyWriting[1].index
                                          THEN keyWriting[1].key ELSE keyFile[n][j]
<1>1. CASE keyFile' = keyFile
  BY <1>1 DEF KeyTypes
<1>2. CASE /\ keyWriting # <<>>
           /\ keyFile' = [keyFile EXCEPT ![keyWriting[1].net][keyWriting[1].index] = keyWriting[1].key]
  BY <1>2 DEF KeyTypes, KeyWrites
<1> QED  BY <1>1, <1>2 DEF Crash

\* A stop breaks neither types nor the steps of an import.
LEMMA CrashTypes ==
    ASSUME KeyTypes, WriteSteps, Crash
    PROVE  KeyTypes' /\ WriteSteps'
<1>1. /\ keyWriting' = <<>> /\ kmTestnet' = "main" /\ kmHashCache' = <<>>
      /\ ui' = [UiIdle EXCEPT !.pc = "init"] /\ reader' = ReaderIdle
      /\ UNCHANGED <<acked, swapSeen>>
  BY DEF Crash
<1>2. ui' \in UiType /\ ui'.pc = "init"
  BY <1>1 DEF UiIdle, UiType
<1>3. reader' \in ReaderType
  BY <1>1, ReaderStarts
<1> QED  BY <1>1, <1>2, <1>3, CrashFiles DEF KeyTypes, WriteSteps, Nets

-----------------------------------------------------------------------------
(* Nonces.                                                                 *)

\* What a save that was cut off can leave of the items of the nonces: neither
\* of them, the counter alone, or both.
LEMMA TornNonces ==
    ASSUME NEW c, NEW f \in TornFiles(c)
    PROVE  /\ IsContent(f)
           /\ f["nonceCounter"] \in {c["nonceCounter"], NoKey}
           /\ f["noncePrefix"] \in {c["noncePrefix"], NoKey}
           /\ f["noncePrefix"] # NoKey => f["nonceCounter"] = c["nonceCounter"]
<1>1. PICK n \in 1 .. 14 : f = ReadPrefix(c, n)
  BY NonceItems DEF TornFiles
<1>2. f = [item \in Items |-> IF \E i \in 1 .. n - 1 : ItemOrder[i] = item
                              THEN c[item] ELSE NoKey]
  BY <1>1 DEF ReadPrefix
<1>3. IsContent(f)
  BY <1>2 DEF IsContent
<1>4. (\E i \in 1 .. n - 1 : ItemOrder[i] = "nonceCounter") <=> n > 7
  BY NonceItems
<1>5. (\E i \in 1 .. n - 1 : ItemOrder[i] = "noncePrefix") <=> n > 8
  BY NonceItems
<1>6. f["nonceCounter"] = (IF n > 7 THEN c["nonceCounter"] ELSE NoKey)
      /\ f["noncePrefix"] = (IF n > 8 THEN c["noncePrefix"] ELSE NoKey)
  BY <1>2, <1>4, <1>5, NonceItems
<1> QED  BY <1>3, <1>6

\* What is saved replaces one item.
LEMMA SaveEffect ==
    ASSUME NonceInv, NEW item \in Items, NEW value, BsSaveBegin(item, value)
    PROVE  /\ bsSaving = <<>> /\ IsContent(bsFile') /\ bsSaving' # <<>>
           /\ bsSaving' = <<bsSaving'[1]>> /\ IsContent(bsSaving'[1])
           /\ Stored' = bsSaving'[1]
           /\ \A i \in Items : Stored'[i] = IF i = item THEN value ELSE Stored[i]
<1>1. bsSaving = <<>> /\ Stored = bsFile /\ bsFile = [i \in Items |-> bsFile[i]]
  BY DEF BsSaveBegin, BsUnlocked, Stored, NonceInv, IsContent
<1>2. bsSaving' = <<[bsFile EXCEPT ![item] = value]>> /\ bsFile' = [i \in Items |-> NoKey]
  BY DEF BsSaveBegin
<1> DEFINE c == [bsFile EXCEPT ![item] = value]
<1>3. IsContent(c) /\ \A i \in Items : c[i] = IF i = item THEN value ELSE Stored[i]
  BY <1>1 DEF IsContent
<1>4. bsSaving' = <<c>>
  BY <1>2
<1> HIDE DEF c
<1>5. bsSaving'[1] = c /\ bsSaving' # <<>> /\ Stored' = c
  BY <1>4 DEF Stored
<1>6. IsContent(bsFile')
  BY <1>2 DEF IsContent
<1> QED  BY <1>1, <1>3, <1>4, <1>5, <1>6

\* Steps that touch neither the storage nor the nonces, and neither begin nor
\* end a save, keep the invariant.
LEMMA NonceFrame ==
    ASSUME NonceInv, UNCHANGED <<bsFile, bsSaving, kmPrefix, entropy, nonces>>,
           \/ ui' = ui
           \/ ui.pc \notin {"init", "save"} /\ ui'.pc \notin {"init", "save"}
    PROVE  NonceInv'
BY DEF NonceInv, Stored, Ahead, CounterOf, NoncesUnique

\* KMInit leaves a prefix in memory that is the one on file: a new one has
\* been returned with no nonce.
LEMMA InitNonce ==
    ASSUME NonceInv, InitLoad
    PROVE  NonceInv'
<1> USE KeyStoreAssumption
<1>0. ui.pc = "init" /\ bsSaving = <<>> /\ Stored = bsFile /\ nonces' = nonces
  BY DEF InitLoad, BsUnlocked, Stored
<1>1. CASE bsFile["noncePrefix"] # NoKey
  <2>1. /\ kmPrefix' = bsFile["noncePrefix"] /\ ui' = UiIdle /\ UNCHANGED <<bsFile, bsSaving, entropy>>
    BY <1>1 DEF InitLoad, bsLoad
  <2>2. Stored' = Stored /\ ui'.pc = "idle"
    BY <2>1 DEF Stored, UiIdle
  <2> QED  BY <1>0, <1>1, <2>1, <2>2 DEF NonceInv, Ahead, CounterOf, NoncesUnique
<1>2. CASE bsFile["noncePrefix"] = NoKey
  <2>1. /\ entropy' = entropy + 1 /\ kmPrefix' = entropy + 1
        /\ BsSaveBegin("noncePrefix", entropy + 1)
        /\ ui' = [UiIdle EXCEPT !.pc = "save"]
    BY <1>2 DEF InitLoad, bsLoad
  <2>2. ui'.pc = "save" /\ ui'.then = "return" /\ entropy \in Nat
    BY <2>1 DEF UiIdle, NonceInv
  <2>3. /\ IsContent(bsFile') /\ bsSaving' # <<>>
        /\ bsSaving' = <<bsSaving'[1]>> /\ IsContent(bsSaving'[1])
        /\ Stored'["noncePrefix"] = entropy + 1
        /\ Stored'["nonceCounter"] = Stored["nonceCounter"]
    BY <2>1, SaveEffect, NonceItems
  <2>4. Ahead(Stored)'
    <3>1. \A i \in DOMAIN nonces' : nonces'[i][1] <= entropy
      BY <1>0 DEF NonceInv
    <3>2. \A i \in DOMAIN nonces' : nonces'[i][1] \in Nat
      BY <1>0 DEF NonceInv
    <3> QED  BY <2>1, <2>2, <2>3, <3>1, <3>2 DEF Ahead, NonceInv
  <2>5. \A i \in DOMAIN nonces' : nonces'[i][1] <= entropy'
    BY <1>0, <2>1, <2>2 DEF NonceInv
  <2> QED  BY <1>0, <2>1, <2>2, <2>3, <2>4, <2>5 DEF NonceInv, NoncesUnique
<1> QED  BY <1>1, <1>2

\* While KMNextNonce saves the next counter, nothing was returned with its own.
LEMMA NextNonceNonce ==
    ASSUME NonceInv, NextNonce
    PROVE  NonceInv'
<1> USE KeyStoreAssumption
<1>0. /\ ui.pc = "idle" /\ BsSaveBegin("nonceCounter", NonceCounter + 1)
      /\ ui' = [UiIdle EXCEPT !.pc = "save", !.then = "nonce", !.index = NonceCounter]
      /\ UNCHANGED <<kmPrefix, entropy, nonces>>
  BY DEF NextNonce, Call
<1>1. ui'.pc = "save" /\ ui'.then = "nonce" /\ ui'.index = NonceCounter
  BY <1>0 DEF UiIdle
<1>2. /\ IsContent(bsFile') /\ bsSaving' # <<>>
      /\ bsSaving' = <<bsSaving'[1]>> /\ IsContent(bsSaving'[1])
      /\ Stored'["noncePrefix"] = Stored["noncePrefix"]
      /\ Stored'["nonceCounter"] = NonceCounter + 1
  BY <1>0, SaveEffect, NonceItems
<1>3. NonceCounter \in Nat /\ NonceCounter = CounterOf(Stored)
  BY <1>0, CounterType
<1>4. \A i \in DOMAIN nonces : nonces[i][1] \in Nat /\ nonces[i][2] \in Nat
  BY DEF NonceInv
<1>5. \A i \in DOMAIN nonces : nonces[i][1] = kmPrefix => nonces[i][2] < NonceCounter
  BY <1>0, <1>3 DEF NonceInv, Ahead
<1>6. CounterOf(Stored)' = NonceCounter + 1
  BY <1>2, <1>3 DEF CounterOf
<1>7. Ahead(Stored)'
  BY <1>0, <1>2, <1>3, <1>4, <1>5, <1>6 DEF Ahead, NonceInv
<1> QED  BY <1>0, <1>1, <1>2, <1>3, <1>5, <1>7 DEF NonceInv, NoncesUnique

\* Saving another item keeps the items of the nonces.
LEMMA SavesNonce ==
    ASSUME NonceInv, Saves
    PROVE  NonceInv'
<1>0. PICK item \in OtherItems : \E value : SaveItem(item, value)
  BY DEF Saves
<1>1. PICK value : SaveItem(item, value)
  BY <1>0
<1>2. /\ BsSaveBegin(item, value) /\ ui' = [UiIdle EXCEPT !.pc = "save"]
      /\ UNCHANGED <<kmPrefix, entropy, nonces>> /\ ui.pc = "idle"
  BY <1>1 DEF SaveItem, Saves
<1>3. ui'.pc = "save" /\ ui'.then = "return"
  BY <1>2 DEF UiIdle
<1>4. /\ IsContent(bsFile') /\ bsSaving' # <<>>
      /\ bsSaving' = <<bsSaving'[1]>> /\ IsContent(bsSaving'[1])
      /\ Stored'["noncePrefix"] = Stored["noncePrefix"]
      /\ Stored'["nonceCounter"] = Stored["nonceCounter"]
  BY <1>2, SaveEffect, NonceItems DEF OtherItems
<1>5. Ahead(Stored)'
  BY <1>2, <1>4 DEF Ahead, NonceInv, CounterOf
<1> QED  BY <1>2, <1>3, <1>4, <1>5 DEF NonceInv, NoncesUnique

\* The nonce that KMNextNonce returns is new.
LEMMA ReturnNonce ==
    ASSUME NonceInv, SaveReturns
    PROVE  NonceInv'
<1>0. /\ ui.pc = "save" /\ bsSaving # <<>> /\ bsFile' = bsSaving[1] /\ bsSaving' = <<>>
      /\ ui' = UiIdle /\ UNCHANGED <<kmPrefix, entropy>>
      /\ nonces' = IF ui.then = "nonce" THEN Append(nonces, <<kmPrefix, ui.index>>) ELSE nonces
  BY DEF SaveReturns, BsSaveEnd
<1>1. Stored' = Stored /\ IsContent(bsFile') /\ ui'.pc = "idle"
  BY <1>0 DEF Stored, UiIdle, NonceInv
<1>2. CASE ui.then # "nonce"
  BY <1>0, <1>1, <1>2 DEF NonceInv, Ahead, CounterOf, NoncesUnique
<1>3. CASE ui.then = "nonce"
  <2>1. /\ nonces' = Append(nonces, <<kmPrefix, ui.index>>)
        /\ ui.index \in Nat /\ kmPrefix \in Nat /\ kmPrefix <= entropy /\ kmPrefix = Stored["noncePrefix"]
        /\ Stored["nonceCounter"] = ui.index + 1
        /\ \A i \in DOMAIN nonces : nonces[i][1] = kmPrefix => nonces[i][2] < ui.index
    BY <1>0, <1>3 DEF NonceInv, Ahead
  <2>2. nonces \in Seq(Nat \X Nat) /\ nonces' \in Seq(Nat \X Nat)
    BY <2>1 DEF NonceInv
  <2>3. /\ DOMAIN nonces = 1 .. Len(nonces) /\ DOMAIN nonces' = 1 .. Len(nonces) + 1
        /\ Len(nonces) \in Nat
        /\ \A i \in DOMAIN nonces : nonces'[i] = nonces[i]
        /\ nonces'[Len(nonces) + 1] = <<kmPrefix, ui.index>>
    BY <2>1, <2>2
  <2>4. \A i \in DOMAIN nonces : nonces[i] # <<kmPrefix, ui.index>>
    <3> SUFFICES ASSUME NEW i \in DOMAIN nonces, nonces[i] = <<kmPrefix, ui.index>>
                 PROVE  FALSE
      OBVIOUS
    <3>1. nonces[i][1] = kmPrefix /\ nonces[i][2] = ui.index
      OBVIOUS
    <3>2. ui.index < ui.index
      BY <2>1, <3>1
    <3> QED  BY <2>1, <3>2
  <2>5. NoncesUnique'
    <3> SUFFICES ASSUME NEW i \in DOMAIN nonces', NEW j \in DOMAIN nonces',
                        nonces'[i] = nonces'[j]
                 PROVE  i = j
      BY DEF NoncesUnique
    <3>1. CASE i \in DOMAIN nonces /\ j \in DOMAIN nonces
      BY <2>3, <3>1 DEF NonceInv, NoncesUnique
    <3>2. CASE i = Len(nonces) + 1 \/ j = Len(nonces) + 1
      BY <2>3, <2>4, <3>2
    <3> QED  BY <2>3, <3>1, <3>2
  <2>6. CounterOf(Stored') = ui.index + 1
    BY <1>1, <2>1, KeyStoreAssumption DEF CounterOf
  <2>7. \A i \in DOMAIN nonces' : nonces'[i][1] = kmPrefix => nonces'[i][2] < ui.index + 1
    <3> SUFFICES ASSUME NEW i \in DOMAIN nonces', nonces'[i][1] = kmPrefix
                 PROVE  nonces'[i][2] < ui.index + 1
      OBVIOUS
    <3>1. CASE i \in DOMAIN nonces
      <4>1. nonces[i][2] \in Nat /\ nonces[i][2] < ui.index
        BY <2>1, <2>2, <2>3, <3>1
      <4> QED  BY <2>1, <2>3, <3>1, <4>1
    <3>2. CASE i = Len(nonces) + 1
      BY <2>1, <2>3, <3>2
    <3> QED  BY <2>3, <3>1, <3>2
  <2>8. \A i \in DOMAIN nonces' : nonces'[i][1] <= entropy
    BY <2>1, <2>3 DEF NonceInv
  <2>9. Ahead(Stored)'
    BY <1>0, <1>1, <2>1, <2>6, <2>7 DEF Ahead, NonceInv, CounterOf
  <2> QED  BY <1>0, <1>1, <2>1, <2>2, <2>5, <2>8, <2>9 DEF NonceInv
<1> QED  BY <1>2, <1>3

\* A stop in the middle of a save loses the counter only together with the
\* prefix.
LEMMA CrashNonce ==
    ASSUME NonceInv, Crash
    PROVE  NonceInv'
<1> USE KeyStoreAssumption
<1>0. /\ bsSaving' = <<>> /\ ui' = [UiIdle EXCEPT !.pc = "init"] /\ UNCHANGED <<entropy, nonces>>
  BY DEF Crash
<1>1. ui'.pc = "init" /\ Stored' = bsFile'
  BY <1>0 DEF UiIdle, Stored
<1>2. CASE bsSaving = <<>>
  <2>1. bsFile' = bsFile /\ Stored = bsFile
    BY <1>2 DEF Crash, Stored
  <2> QED  BY <1>0, <1>1, <2>1 DEF NonceInv, Ahead, CounterOf, NoncesUnique
<1>3. CASE bsSaving # <<>>
  <2>1. bsFile' \in TornFiles(bsSaving[1]) /\ Stored = bsSaving[1]
    BY <1>3 DEF Crash, Stored
  <2>2. /\ IsContent(bsFile')
        /\ bsFile'["nonceCounter"] \in {Stored["nonceCounter"], NoKey}
        /\ bsFile'["noncePrefix"] \in {Stored["noncePrefix"], NoKey}
        /\ bsFile'["noncePrefix"] # NoKey => bsFile'["nonceCounter"] = Stored["nonceCounter"]
    BY <2>1, TornNonces
  <2>3. Ahead(Stored)'
    BY <1>0, <1>1, <2>2 DEF NonceInv, Ahead, CounterOf
  <2> QED  BY <1>0, <1>1, <2>2, <2>3 DEF NonceInv, NoncesUnique
<1> QED  BY <1>2, <1>3

\* Every step keeps the invariant of the nonces.
LEMMA NonceStep ==
    ASSUME NonceInv, KeyTypes, [KeyNext]_keyVars
    PROVE  NonceInv'
<1>1. CASE UNCHANGED keyVars
  BY <1>1, NonceFrame DEF keyVars
<1>2. CASE UiCall
  <2>1. ASSUME NEW k \in Keys, NEW then \in {"return", "swap"}, AddIndex(k, then)
        PROVE  NonceInv'
    BY <2>1, NonceFrame DEF AddIndex, Call, keyRest
  <2>2. CASE VaultMasterHdWalletAtIndex(0)
    BY <2>2, NonceFrame DEF VaultMasterHdWalletAtIndex
  <2>3. ASSUME NEW net \in Nets, SetTestnet(net)
        PROVE  NonceInv'
    BY <2>3, NonceFrame DEF SetTestnet, Call, netRest, UiIdle
  <2> QED  BY <1>2, <2>1, <2>2, <2>3, CallKinds, SavesNonce, NextNonceNonce
<1>3. CASE UiStep
  <2>1. CASE AddWrite \/ AddReturns \/ SwapFirst \/ SwapFirstDone \/ SwapSecond \/ SwapReturns
    <3>1. UNCHANGED <<bsFile, bsSaving, kmPrefix, entropy, nonces>>
      BY <2>1 DEF AddWrite, AddReturns, SwapFirst, SwapFirstDone, SwapSecond, SwapReturns, keyRest
    <3>2. ui.pc \notin {"init", "save"} /\ ui'.pc \notin {"init", "save"}
      <4> USE DEF UiIdle, KeyTypes, UiType
      <4>1. CASE AddWrite
        BY <4>1 DEF AddWrite
      <4>2. CASE AddReturns
        BY <4>2 DEF AddReturns
      <4>3. CASE SwapFirst
        <5>1. ui.pc = "swap" /\ (ui' = UiIdle \/ \E k : ui' = [ui EXCEPT !.pc = "swapFirst", !.key = k])
          BY <4>3 DEF SwapFirst
        <5>2. ASSUME NEW k, ui' = [ui EXCEPT !.pc = "swapFirst", !.key = k]
              PROVE  ui'.pc = "swapFirst"
          BY <5>2
        <5>3. UiIdle.pc = "idle"
          OBVIOUS
        <5> QED  BY <5>1, <5>2, <5>3
      <4>4. CASE SwapFirstDone \/ SwapSecond \/ SwapReturns
        BY <4>4 DEF SwapFirstDone, SwapSecond, SwapReturns
      <4> QED  BY <2>1, <4>1, <4>2, <4>3, <4>4
    <3> QED  BY <3>1, <3>2, NonceFrame
  <2>2. CASE SetTestnetSeed \/ SetTestnetHashes
    <3>1. UNCHANGED <<bsFile, bsSaving, kmPrefix, entropy, nonces>>
      BY <2>2 DEF SetTestnetSeed, SetTestnetHashes, netRest
    <3>2. ui.pc \notin {"init", "save"} /\ ui'.pc \notin {"init", "save"}
      BY <2>2 DEF SetTestnetSeed, SetTestnetHashes, UiIdle, KeyTypes, UiType
    <3> QED  BY <3>1, <3>2, NonceFrame
  <2> QED  BY <1>3, <2>1, <2>2, InitNonce, ReturnNonce DEF UiStep
<1>4. CASE ReaderStep
  BY <1>4, NonceFrame
     DEF ReaderStep, HdWalletIndex, HdWalletIndexSeed, ReadHashes, ReadHashesNext, readRest
<1> QED  BY <1>1, <1>2, <1>3, <1>4, CrashNonce DEF KeyNext

-----------------------------------------------------------------------------
(* Acknowledged keys.                                                      *)

\* Steps that leave the key files, the network and the acknowledged keys, and
\* are not in the middle of adding a key, lose nothing.
LEMMA KeptFrame ==
    ASSUME KeyTypes, WriteSteps, Kept, UNCHANGED <<keyFile, acked>>,
           ui.pc \in {"init", "idle", "save", "netSeed", "netHashes"},
           ui'.pc \in {"init", "idle", "save", "netSeed", "netHashes"},
           CacheFits'
    PROVE  Kept'
<1>1. Doomed = {} /\ Doomed' = {}
  BY DEF Doomed
<1> QED  BY <1>1 DEF Kept, Held

\* A call of the user's thread loses no key, and the index it finds is free.
LEMMA CallKeeps ==
    ASSUME NonceInv, KeyTypes, WriteSteps, Kept, UiCall
    PROVE  Kept'
<1>1. CASE Saves
  <2>1. ui'.pc = "save" /\ ui.pc = "idle" /\ UNCHANGED keySide
    BY <1>1 DEF Saves, SaveItem, UiIdle, keySide
  <2>2. CacheFits'
    BY <2>1 DEF keySide, Kept, CacheFits
  <2> QED  BY <2>1, <2>2, KeptFrame DEF keySide
<1>2. CASE NextNonce
  <2>1. ui'.pc = "save" /\ ui.pc = "idle" /\ UNCHANGED keySide
    BY <1>2 DEF NextNonce, Call, UiIdle, keySide
  <2>2. CacheFits'
    BY <2>1 DEF keySide, Kept, CacheFits
  <2> QED  BY <2>1, <2>2, KeptFrame DEF keySide
<1>3. ASSUME NEW k \in Keys, NEW then \in {"return", "swap"}, AddIndex(k, then)
      PROVE  Kept'
  <2>1. /\ ui'.pc = "add" /\ ui'.index = Len(AllPrivKeyHashes)
        /\ ui.pc = "idle" /\ Len(AllPrivKeyHashes) \in KeyIndex
        /\ kmHashCache' = AllPrivKeyHashes
        /\ UNCHANGED <<keyFile, kmTestnet, acked>>
    BY <1>3 DEF AddIndex, Call
  <2>2. keyFile[kmTestnet][Len(AllPrivKeyHashes)] = NoKey
    <3>1. CASE kmHashCache # <<>>
      BY <2>1, <3>1 DEF AllPrivKeyHashes, Kept, CacheFits
    <3>2. CASE kmHashCache = <<>>
      <4>1. AllPrivKeyHashes = AllPrivKeys(kmTestnet) /\ kmTestnet \in Nets
        BY <3>2 DEF AllPrivKeyHashes, KeyTypes
      <4>2. PrivKeyAtIndex(kmTestnet, Len(AllPrivKeyHashes)) = NoKey
        BY <4>1, KeyCount
      <4> QED  BY <2>1, <4>2 DEF PrivKeyAtIndex
    <3> QED  BY <3>1, <3>2
  <2>3. Doomed = {} /\ Doomed' = {}
    BY <2>1 DEF Doomed
  <2> QED  BY <2>1, <2>2, <2>3 DEF Kept, CacheFits, Held, NewFile
<1>4. CASE VaultMasterHdWalletAtIndex(0)
  BY <1>4 DEF VaultMasterHdWalletAtIndex, Kept, CacheFits, NewFile, Held, Doomed
<1>5. ASSUME NEW net \in Nets, SetTestnet(net)
      PROVE  Kept'
  <2>1. ui'.pc = "netSeed" /\ ui.pc = "idle" /\ UNCHANGED <<keyFile, acked>>
    BY <1>5 DEF SetTestnet, Call, UiIdle, netRest
  <2>2. CacheFits'
    BY <2>1 DEF CacheFits
  <2> QED  BY <2>1, <2>2, KeptFrame
<1> QED  BY <1>1, <1>2, <1>3, <1>4, <1>5, CallKinds

\* Adding and importing a key loses none: every file that is written is free,
\* or what it held is in another file by then.
LEMMA ImportKeeps ==
    ASSUME KeyTypes, WriteSteps, Kept,
           AddWrite \/ AddReturns \/ SwapFirst \/ SwapFirstDone \/ SwapSecond \/ SwapReturns
    PROVE  Kept'
<1> USE KeyStoreAssumption
<1>t. /\ kmTestnet \in Nets /\ kmTestnet' = kmTestnet /\ 0 \in KeyIndex
      /\ ui.index \in KeyIndex /\ ui.key \in Keys
  BY DEF AddWrite, AddReturns, SwapFirst, SwapFirstDone, SwapSecond, SwapReturns, KeyTypes,
         WriteSteps, KeyIndex
<1>i. UiIdle.pc = "idle"
  BY DEF UiIdle
<1>u. \A l \in {"addWrite", "swap", "swapFirst", "swapSecond", "swapEnd"} :
         /\ [ui EXCEPT !.pc = l].pc = l /\ [ui EXCEPT !.pc = l].index = ui.index
  BY DEF KeyTypes, UiType
<1>1. CASE AddWrite
  <2>1. /\ ui.pc = "add" /\ ui' = [ui EXCEPT !.pc = "addWrite"] /\ kmHashCache' = <<>>
        /\ KeyWriteBegin(kmTestnet, ui.index, ui.key) /\ acked' = acked
    BY <1>1 DEF AddWrite
  <2>2. ui'.pc = "addWrite" /\ ui'.index = ui.index
    BY <2>1, <1>u
  <2>3. \A n \in Nets, j \in KeyIndex :
            keyFile'[n][j] = IF n = kmTestnet /\ j = ui.index THEN NoKey ELSE keyFile[n][j]
    BY <2>1, <1>t, KeyWriteTypes
  <2>4. Doomed' = {ui.index}
    BY <2>2 DEF Doomed
  <2>5. ASSUME NEW net \in Nets, NEW key \in acked[net] PROVE Held(net, key)'
    <3>1. PICK i \in KeyIndex : keyFile[net][i] = key
      BY DEF Kept, Held
    <3>2. key # NoKey
      BY DEF KeyTypes
    <3>3. net = kmTestnet => i # ui.index
      BY <2>1, <3>1, <3>2 DEF Kept, NewFile
    <3> QED  BY <1>t, <2>3, <2>4, <3>1, <3>3 DEF Held
  <2> QED  BY <2>1, <2>2, <2>5 DEF Kept, CacheFits
<1>2. CASE AddReturns
  <2>1. /\ ui.pc = "addWrite" /\ KeyWriteEnd /\ kmHashCache' = kmHashCache
        /\ \/ ui' = UiIdle /\ Acknowledge(ui.key)
           \/ ui' = [ui EXCEPT !.pc = "swap"] /\ acked' = acked
    BY <1>2 DEF AddReturns
  <2>2. \A n \in Nets, j \in KeyIndex :
            keyFile'[n][j] = IF n = kmTestnet /\ j = ui.index THEN ui.key ELSE keyFile[n][j]
    BY <2>1, KeyWriteTypes DEF WriteSteps
  <2>3. kmHashCache' = <<>> /\ ui'.pc \in {"idle", "swap"} /\ Doomed = {ui.index}
    BY <2>1, <1>i, <1>u DEF WriteSteps, Doomed
  <2>4. ASSUME NEW net \in Nets, NEW key \in acked[net] PROVE Held(net, key)'
    <3>1. PICK i \in KeyIndex : keyFile[net][i] = key /\ (net = kmTestnet => i # ui.index)
      BY <2>3 DEF Kept, Held
    <3>2. Doomed' \subseteq {ui.index}
      BY <2>1, <1>i, <1>u DEF Doomed
    <3> QED  BY <1>t, <2>2, <3>1, <3>2 DEF Held
  <2>5. ASSUME ui' = UiIdle, NEW key, key = ui.key PROVE Held(kmTestnet, key)'
    BY <1>t, <2>2, <2>5, <1>i DEF Held, Doomed
  <2>6. \A net \in Nets : \A key \in acked'[net] :
            key \in acked[net] \/ (net = kmTestnet /\ key = ui.key /\ ui' = UiIdle)
    BY <2>1 DEF Acknowledge, KeyTypes
  <2>7. \A net \in Nets : \A key \in acked'[net] : Held(net, key)'
    BY <1>t, <2>4, <2>5, <2>6
  <2> QED  BY <2>3, <2>7 DEF Kept, CacheFits
<1>3. CASE SwapFirst
  <2>0. ui.pc = "swap" /\ kmHashCache' = kmHashCache /\ NewFile = ui.key /\ Doomed = {ui.index}
    BY <1>3 DEF SwapFirst, WriteSteps, Doomed
  <2>1. CASE ui' = UiIdle /\ Acknowledge(ui.key) /\ UNCHANGED <<keyFile, keyWriting>>
    <3>1. Doomed' = {} /\ ui'.pc = "idle"
      BY <2>1, <1>i DEF Doomed
    <3>2. \A net \in Nets : \A key \in acked'[net] :
              key \in acked[net] \/ (net = kmTestnet /\ key = ui.key)
      BY <2>1 DEF Acknowledge, KeyTypes
    <3>3. \A net \in Nets : \A key \in acked'[net] : Held(net, key)'
      BY <1>t, <2>0, <2>1, <3>1, <3>2 DEF Kept, Held, NewFile
    <3>4. CacheFits'
      BY <1>t, <2>0, <2>1, <3>1 DEF Kept, CacheFits
    <3> QED  BY <3>1, <3>3, <3>4 DEF Kept
  <2>2. CASE /\ KeyWriteBegin(kmTestnet, ui.index, PrivKeyAtIndex(kmTestnet, 0))
             /\ PrivKeyAtIndex(kmTestnet, 0) # NoKey
             /\ ui' = [ui EXCEPT !.pc = "swapFirst", !.key = PrivKeyAtIndex(kmTestnet, ui.index)]
             /\ acked' = acked
    <3>1. ui'.pc = "swapFirst" /\ ui'.index = ui.index /\ Doomed' = {ui.index}
      BY <2>2 DEF KeyTypes, UiType, Doomed
    <3>2. PrivKeyAtIndex(kmTestnet, 0) \in Keys
      BY <1>t, <2>2 DEF PrivKeyAtIndex, KeyTypes
    <3>3. \A n \in Nets, j \in KeyIndex :
              keyFile'[n][j] = IF n = kmTestnet /\ j = ui.index THEN NoKey ELSE keyFile[n][j]
      BY <1>t, <2>2, <3>2, KeyWriteTypes
    <3>4. ASSUME NEW net \in Nets, NEW key \in acked[net] PROVE Held(net, key)'
      <4>1. PICK i \in KeyIndex : keyFile[net][i] = key /\ (net = kmTestnet => i # ui.index)
        BY <2>0 DEF Kept, Held
      <4> QED  BY <1>t, <3>1, <3>3, <4>1 DEF Held
    <3>5. CacheFits'
      <4> SUFFICES ASSUME kmHashCache # <<>>, Len(kmHashCache) \in KeyIndex
                   PROVE  /\ keyFile'[kmTestnet][Len(kmHashCache)] = NoKey
                          /\ Len(kmHashCache) # ui.index
        BY <1>t, <2>0, <3>1 DEF CacheFits
      <4>1. keyFile[kmTestnet][Len(kmHashCache)] = NoKey
        BY <2>0 DEF Kept, CacheFits
      <4>2. Len(kmHashCache) # ui.index
        BY <1>t, <2>0, <4>1 DEF NewFile
      <4> QED  BY <1>t, <3>3, <4>1, <4>2
    <3> QED  BY <2>2, <3>1, <3>4, <3>5 DEF Kept
  <2>3. SwapOrder[1] = ui.index
    BY DEF SwapOrder
  <2> QED  BY <1>3, <2>0, <2>1, <2>2, <2>3 DEF SwapFirst
<1>4. CASE SwapFirstDone
  <2>1. /\ ui.pc = "swapFirst" /\ ui' = [ui EXCEPT !.pc = "swapSecond"] /\ KeyWriteEnd
        /\ UNCHANGED <<kmHashCache, acked>>
    BY <1>4 DEF SwapFirstDone
  <2>2. ui'.pc = "swapSecond" /\ Doomed = {ui.index} /\ Doomed' = {0} /\ ui.index # 0
    BY <2>1, <1>u DEF Doomed, WriteSteps
  <2>3. \A n \in Nets, j \in KeyIndex :
            keyFile'[n][j] = IF n = kmTestnet /\ j = ui.index THEN keyFile[kmTestnet][0]
                             ELSE keyFile[n][j]
    BY <2>1, KeyWriteTypes DEF WriteSteps
  <2>4. ASSUME NEW net \in Nets, NEW key \in acked[net] PROVE Held(net, key)'
    <3>1. PICK i \in KeyIndex : keyFile[net][i] = key /\ (net = kmTestnet => i # ui.index)
      BY <2>2 DEF Kept, Held
    <3>2. CASE net = kmTestnet /\ i = 0
      <4>1. keyFile'[net][ui.index] = key
        BY <1>t, <2>3, <3>1, <3>2
      <4> QED  BY <1>t, <2>2, <4>1 DEF Held
    <3>3. CASE ~(net = kmTestnet /\ i = 0)
      <4>1. keyFile'[net][i] = key
        BY <1>t, <2>3, <3>1, <3>3
      <4> QED  BY <1>t, <2>2, <3>3, <4>1 DEF Held
    <3> QED  BY <3>2, <3>3
  <2>5. CacheFits'
    BY <1>t, <2>1, <2>2, <2>3 DEF Kept, CacheFits
  <2> QED  BY <2>1, <2>2, <2>4, <2>5 DEF Kept
<1>5. CASE SwapSecond
  <2>1. /\ ui.pc = "swapSecond" /\ ui' = [ui EXCEPT !.pc = "swapEnd"]
        /\ KeyWriteBegin(kmTestnet, 0, ui.key) /\ UNCHANGED <<kmHashCache, acked>>
    BY <1>5 DEF SwapSecond, SwapOrder
  <2>2. ui'.pc = "swapEnd" /\ Doomed = {0} /\ Doomed' = {0}
    BY <2>1, <1>u DEF Doomed
  <2>3. \A n \in Nets, j \in KeyIndex :
            keyFile'[n][j] = IF n = kmTestnet /\ j = 0 THEN NoKey ELSE keyFile[n][j]
    BY <1>t, <2>1, KeyWriteTypes
  <2>4. ASSUME NEW net \in Nets, NEW key \in acked[net] PROVE Held(net, key)'
    <3>1. PICK i \in KeyIndex : keyFile[net][i] = key /\ (net = kmTestnet => i # 0)
      BY <2>2 DEF Kept, Held
    <3> QED  BY <1>t, <2>2, <2>3, <3>1 DEF Held
  <2>5. CacheFits'
    BY <1>t, <2>1, <2>2, <2>3 DEF Kept, CacheFits
  <2> QED  BY <2>1, <2>2, <2>4, <2>5 DEF Kept
<1>6. CASE SwapReturns
  <2>1. /\ ui.pc = "swapEnd" /\ ui' = UiIdle /\ KeyWriteEnd /\ Acknowledge(ui.key)
        /\ kmHashCache' = kmHashCache
    BY <1>6 DEF SwapReturns
  <2>2. ui'.pc = "idle" /\ Doomed = {0} /\ Doomed' = {}
    BY <2>1, <1>i DEF Doomed
  <2>3. \A n \in Nets, j \in KeyIndex :
            keyFile'[n][j] = IF n = kmTestnet /\ j = 0 THEN ui.key ELSE keyFile[n][j]
    BY <2>1, KeyWriteTypes DEF WriteSteps
  <2>4. ASSUME NEW net \in Nets, NEW key \in acked[net] PROVE Held(net, key)'
    <3>1. PICK i \in KeyIndex : keyFile[net][i] = key /\ (net = kmTestnet => i # 0)
      BY <2>2 DEF Kept, Held
    <3> QED  BY <1>t, <2>2, <2>3, <3>1 DEF Held
  <2>5. ASSUME NEW key, key = ui.key PROVE Held(kmTestnet, key)'
    BY <1>t, <2>2, <2>3, <2>5 DEF Held
  <2>6. \A net \in Nets : \A key \in acked'[net] :
            key \in acked[net] \/ (net = kmTestnet /\ key = ui.key)
    BY <2>1 DEF Acknowledge, KeyTypes
  <2>7. \A net \in Nets : \A key \in acked'[net] : Held(net, key)'
    BY <1>t, <2>4, <2>5, <2>6
  <2>8. CacheFits'
    <3>1. kmHashCache \in Seq(Keys)
      BY DEF KeyTypes
    <3>2. kmHashCache # <<>> => Len(kmHashCache) # 0
      BY <3>1
    <3> QED  BY <1>t, <2>1, <2>2, <2>3, <3>2 DEF Kept, CacheFits
  <2> QED  BY <2>2, <2>7, <2>8 DEF Kept
<1> QED  BY <1>1, <1>2, <1>3, <1>4, <1>5, <1>6

\* The other steps of the user's thread lose no key.
LEMMA OtherStepKeeps ==
    ASSUME KeyTypes, WriteSteps, Kept,
           InitLoad \/ SaveReturns \/ SetTestnetSeed \/ SetTestnetHashes
    PROVE  Kept'
<1>1. CASE InitLoad
  <2>1. ui.pc = "init" /\ ui'.pc \in {"idle", "save"} /\ UNCHANGED keySide
    BY <1>1 DEF InitLoad, UiIdle, keySide
  <2>2. CacheFits'
    BY <2>1 DEF Kept, CacheFits, keySide
  <2> QED  BY <2>1, <2>2, KeptFrame DEF keySide
<1>2. CASE SaveReturns
  <2>1. ui.pc = "save" /\ ui'.pc = "idle" /\ UNCHANGED keySide
    BY <1>2 DEF SaveReturns, UiIdle, keySide
  <2>2. CacheFits'
    BY <2>1 DEF Kept, CacheFits, keySide
  <2> QED  BY <2>1, <2>2, KeptFrame DEF keySide
<1>3. CASE SetTestnetSeed
  <2>1. ui.pc = "netSeed" /\ ui'.pc = "netHashes" /\ UNCHANGED <<keyFile, acked>>
    BY <1>3 DEF SetTestnetSeed, KeyTypes, UiType, netRest
  <2>2. CacheFits'
    BY <2>1 DEF CacheFits
  <2> QED  BY <2>1, <2>2, KeptFrame
<1>4. CASE SetTestnetHashes
  <2>1. ui.pc = "netHashes" /\ ui'.pc = "idle" /\ kmHashCache' = <<>> /\ UNCHANGED <<keyFile, acked>>
    BY <1>4 DEF SetTestnetHashes, UiIdle, netRest
  <2>2. CacheFits'
    BY <2>1 DEF CacheFits
  <2> QED  BY <2>1, <2>2, KeptFrame
<1> QED  BY <1>1, <1>2, <1>3, <1>4

\* The reading thread caches a list that fits, unless it has read a file that
\* an import was writing.
LEMMA ReaderKeeps ==
    ASSUME KeyTypes, WriteSteps, Kept, ReaderStep, ~swapSeen'
    PROVE  Kept'
<1>0. UNCHANGED <<keyFile, kmTestnet, ui, acked>>
  BY DEF ReaderStep, HdWalletIndex, HdWalletIndexSeed, ReadHashes, ReadHashesNext, readRest
<1>1. CacheFits'
  <2>1. CASE kmHashCache' = kmHashCache
    BY <1>0, <2>1 DEF Kept, CacheFits
  <2>2. CASE ReadHashesNext /\ kmHashCache' # kmHashCache
    <3>1. /\ PrivKeyAtIndex(kmTestnet, Len(reader.result)) = NoKey
          /\ kmHashCache' = reader.result
      BY <2>2 DEF ReadHashesNext
    <3>2. ui.pc # "swapFirst"
      BY <2>2 DEF ReadHashesNext
    <3> QED  BY <1>0, <3>1, <3>2 DEF CacheFits, PrivKeyAtIndex
  <2> QED  BY <2>1, <2>2 DEF ReaderStep, HdWalletIndex, HdWalletIndexSeed, ReadHashes
<1> QED  BY <1>0, <1>1 DEF Kept, NewFile, Held, Doomed

\* A stop in the middle of a write loses no acknowledged key.
LEMMA CrashKeeps ==
    ASSUME KeyTypes, WriteSteps, Kept, Crash
    PROVE  Kept'
<1>1. /\ kmHashCache' = <<>> /\ ui' = [UiIdle EXCEPT !.pc = "init"] /\ acked' = acked
  BY DEF Crash
<1>2. ui'.pc = "init" /\ Doomed' = {}
  BY <1>1 DEF UiIdle, Doomed
<1>3. ASSUME NEW net \in Nets, NEW key \in acked[net] PROVE Held(net, key)'
  <2>1. PICK i \in KeyIndex : keyFile[net][i] = key /\ (net = kmTestnet => i \notin Doomed)
    BY DEF Kept, Held
  <2>2. CASE keyFile' = keyFile
    BY <1>2, <2>1, <2>2 DEF Held
  <2>3. CASE /\ keyWriting # <<>>
             /\ \A n \in Nets, j \in KeyIndex :
                    keyFile'[n][j] = IF n = keyWriting[1].net /\ j = keyWriting[1].index
                                     THEN keyWriting[1].key ELSE keyFile[n][j]
    <3>1. keyWriting[1].net = kmTestnet /\ keyWriting[1].index \in Doomed
      BY <2>3 DEF WriteSteps, Doomed
    <3>2. keyFile'[net][i] = key
      BY <2>1, <2>3, <3>1
    <3> QED  BY <1>2, <3>2 DEF Held
  <2> QED  BY <2>2, <2>3, CrashFiles
<1> QED  BY <1>1, <1>2, <1>3 DEF Kept, CacheFits

-----------------------------------------------------------------------------
(* Theorems.                                                               *)

\* Every step keeps the invariants together.
LEMMA KeyStep == NonceInv /\ KeyInv /\ [KeyNext]_keyVars => NonceInv' /\ KeyInv'
<1> SUFFICES ASSUME NonceInv, KeyInv, [KeyNext]_keyVars
             PROVE  NonceInv' /\ KeyInv'
  OBVIOUS
<1>0. KeyTypes /\ WriteSteps /\ (~swapSeen => Kept)
  BY DEF KeyInv
<1>1. NonceInv'
  BY <1>0, NonceStep
<1>2. KeyTypes' /\ WriteSteps'
  <2>1. CASE UNCHANGED keyVars
    BY <1>0, <2>1 DEF keyVars, KeyTypes, WriteSteps, NewFile
  <2> QED  BY <1>0, <2>1, CallTypes, UiStepTypes, ReaderTypes, CrashTypes DEF KeyNext
<1>3. ASSUME ~swapSeen' PROVE Kept'
  <2>0. ~swapSeen
    <3>1. swapSeen \in BOOLEAN
      BY <1>0 DEF KeyTypes
    <3>2. CASE UNCHANGED swapSeen
      BY <1>3, <3>2
    <3>3. CASE ReadHashesNext
      BY <1>3, <3>1, <3>3 DEF ReadHashesNext
    <3>4. UiCall => UNCHANGED swapSeen
      BY CallKinds DEF Saves, SaveItem, NextNonce, AddIndex, VaultMasterHdWalletAtIndex,
                       SetTestnet, keyRest, netRest
    <3>5. UiStep => UNCHANGED swapSeen
      BY DEF UiStep, InitLoad, SaveReturns, AddWrite, AddReturns, SwapFirst, SwapFirstDone,
             SwapSecond, SwapReturns, SetTestnetSeed, SetTestnetHashes, keyRest, netRest
    <3> QED  BY <3>2, <3>3, <3>4, <3>5
             DEF KeyNext, ReaderStep, HdWalletIndex, HdWalletIndexSeed, ReadHashes, Crash, keyVars
  <2>1. CASE UNCHANGED keyVars
    BY <1>0, <2>0, <2>1 DEF keyVars, Kept, CacheFits, NewFile, Held, Doomed
  <2> QED  BY <1>0, <1>3, <2>0, <2>1, CallKeeps, ImportKeeps, OtherStepKeeps, ReaderKeeps, CrashKeeps
           DEF KeyNext, UiStep
<1> QED  BY <1>1, <1>2, <1>3 DEF KeyInv

\* The key manager starts, on no files at all, with the invariants.
LEMMA KeyInitInv == KeyInit => NonceInv /\ KeyInv
<1> SUFFICES ASSUME KeyInit PROVE NonceInv /\ KeyInv
  OBVIOUS
<1> USE KeyStoreAssumption
<1>1. ui.pc = "init" /\ ui \in UiType
  BY DEF KeyInit, UiIdle, UiType
<1>2. Stored = bsFile /\ IsContent(bsFile) /\ nonces = <<>> /\ entropy = 0 /\ bsSaving = <<>>
      /\ bsFile["noncePrefix"] = NoKey /\ bsFile["nonceCounter"] = NoKey
  BY NonceItems DEF KeyInit, Stored, IsContent
<1>3. NonceInv
  BY <1>1, <1>2 DEF NonceInv, Ahead, CounterOf, NoncesUnique
<1>4. KeyTypes
  <2>1. keyFile \in [Nets -> [KeyIndex -> Keys \cup {NoKey}]] /\ keyWriting = <<>>
    BY DEF KeyInit
  <2>2. acked \in [Nets -> SUBSET Keys] /\ swapSeen \in BOOLEAN
    BY DEF KeyInit
  <2>3. kmTestnet \in Nets /\ kmHashCache \in Seq(Keys) /\ reader \in ReaderType
    BY ReaderStarts DEF KeyInit, Nets
  <2> QED  BY <1>1, <2>1, <2>2, <2>3 DEF KeyTypes
<1>5. WriteSteps
  BY <1>1 DEF KeyInit, WriteSteps
<1>6. Kept
  BY <1>1 DEF KeyInit, Kept, CacheFits
<1> QED  BY <1>3, <1>4, <1>5, <1>6 DEF KeyInv

\* The invariants of the key manager hold in every run of the program, with any
\* number of restarts.
THEOREM KeyInvariance == KeySpec => [](NonceInv /\ KeyInv)
BY KeyInitInv, KeyStep, PTL DEF KeySpec

\* KMNextNonce never returns a nonce twice, wherever the program stops: a file
\* cut off in the middle of a save that has lost the counter has lost the prefix.
THEOREM NoncesNeverRepeat == KeySpec => []NoncesUnique
<1>1. NonceInv /\ KeyInv => NoncesUnique
  BY DEF NonceInv
<1> QED  BY <1>1, KeyInvariance, PTL

\* A key whose addition or import was acknowledged stays in a key file, through
\* later imports and stops at any step, unless the list of hashes was read from a
\* file that an import was writing.
THEOREM KeysSurvive == KeySpec => []AckedKeysSurvive
<1>1. NonceInv /\ KeyInv => AckedKeysSurvive
  BY DEF KeyInv, Kept, Held, AckedKeysSurvive
<1> QED  BY <1>1, KeyInvariance, PTL

-----------------------------------------------------------------------------
(* What is derived: counts of keys, and the network of the seed.           *)

\* A file that holds a key, or is being rewritten.
Filled(net, i) ==
    \/ PrivKeyAtIndex(net, i) # NoKey
    \/ keyWriting # <<>> /\ keyWriting[1].net = net /\ keyWriting[1].index = i

\* The files up to the length of a list of hashes are filled.
Covers(list) == \A i \in 0 .. Len(list) - 1 : Filled(kmTestnet, i)

\* The cached list is as long as there are keys, and one that is being read is
\* not longer, unless the network is just being changed.  An import rewrites
\* files that hold a key.
CacheCounts ==
    /\ ui.pc \notin {"netSeed", "netHashes"} =>
           /\ kmHashCache # <<>> => Covers(kmHashCache) /\ ~Filled(kmTestnet, Len(kmHashCache))
           /\ reader.pc = "hashes" => Covers(reader.result)
    /\ ui.pc \in {"swapFirst", "swapSecond"} => keyFile[kmTestnet][0] # NoKey

\* The seed, and the file a seed is made from, are of the network in use.
SeedNet ==
    ui.pc # "netSeed" =>
        /\ \A s \in 1 .. Len(kmMainSeed) : kmMainSeed[s].net = kmTestnet
        /\ reader.pc = "seed" => reader.net = kmTestnet

DerivedInv == SeedNet /\ (~swapSeen => CacheCounts)

\* Steps of the user's thread that leave the files and the network alone.
LEMMA CountsFrame ==
    ASSUME CacheCounts, SeedNet,
           UNCHANGED <<keyFile, keyWriting, kmTestnet, kmMainSeed, reader>>,
           ui.pc \notin {"netSeed", "netHashes", "swapFirst", "swapSecond"},
           ui'.pc \notin {"swapFirst", "swapSecond"},
           kmHashCache' \in {<<>>, kmHashCache}
    PROVE  CacheCounts' /\ SeedNet'
<1>1. \A i : Filled(kmTestnet, i)' = Filled(kmTestnet, i)
    BY DEF Filled, PrivKeyAtIndex
<1>2. kmHashCache' # <<>> => Covers(kmHashCache') /\ ~Filled(kmTestnet, Len(kmHashCache'))
    BY DEF CacheCounts
<1>3. reader.pc = "hashes" => Covers(reader.result)
    BY DEF CacheCounts
<1>4. CacheCounts'
    BY <1>1, <1>2, <1>3 DEF CacheCounts, Covers
<1>5. SeedNet'
    BY DEF SeedNet
<1>6. QED
    BY <1>4, <1>5

\* The list that is cached for a new key has as many hashes as there are keys.
LEMMA ListCounts ==
    ASSUME KeyTypes, CacheCounts, keyWriting = <<>>, ui.pc \notin {"netSeed", "netHashes"}
    PROVE  /\ Covers(AllPrivKeyHashes) /\ ~Filled(kmTestnet, Len(AllPrivKeyHashes))
           /\ AllPrivKeyHashes \in Seq(Keys)
<1>0. kmTestnet \in Nets
    BY DEF KeyTypes
<1>1. CASE kmHashCache # <<>>
    BY <1>1, HashesType DEF AllPrivKeyHashes, CacheCounts
<1>2. CASE kmHashCache = <<>>
    <2>1. /\ AllPrivKeyHashes = AllPrivKeys(kmTestnet)
          /\ Len(AllPrivKeyHashes) = PrivKeyCount(kmTestnet)
          /\ PrivKeyAtIndex(kmTestnet, PrivKeyCount(kmTestnet)) = NoKey
          /\ PrivKeyCount(kmTestnet) \in 0 .. MaxKeyFile + 1
        BY <1>0, <1>2, KeyCount DEF AllPrivKeyHashes
    <2>2. \A i \in 0 .. PrivKeyCount(kmTestnet) - 1 : PrivKeyAtIndex(kmTestnet, i) # NoKey
        BY <1>0, KeyCount
    <2>3. QED
        BY <2>1, <2>2, HashesType DEF Covers, Filled
<1>3. QED
    BY <1>1, <1>2

\* An import rewrites files that hold a key: what is filled stays the same.
LEMMA SwapFilled ==
    ASSUME KeyTypes, WriteSteps, CacheCounts,
           SwapFirst \/ SwapFirstDone \/ SwapSecond \/ SwapReturns
    PROVE  /\ \A i \in Nat : Filled(kmTestnet, i)' = Filled(kmTestnet, i)
           /\ ui'.pc \in {"swapFirst", "swapSecond"} => keyFile'[kmTestnet][0] # NoKey
           /\ ui'.pc \in {"idle", "swapFirst", "swapSecond", "swapEnd"}
<1> USE KeyStoreAssumption
<1>0. /\ kmTestnet \in Nets /\ kmTestnet' = kmTestnet /\ 0 \in KeyIndex
      /\ ui.index \in KeyIndex /\ ui.key \in Keys /\ ui.index \in Nat
    BY DEF SwapFirst, SwapFirstDone, SwapSecond, SwapReturns, KeyTypes, WriteSteps, KeyIndex
<1>1. \A j \in KeyIndex : keyFile[kmTestnet][j] \in Keys \cup {NoKey}
    BY <1>0 DEF KeyTypes
<1>2. ASSUME NEW i \in KeyIndex, NEW key \in Keys, KeyWriteBegin(kmTestnet, i, key),
             keyFile[kmTestnet][i] # NoKey
      PROVE  \A j \in Nat : Filled(kmTestnet, j)' = Filled(kmTestnet, j)
    <2>1. /\ keyWriting = <<>> /\ keyWriting' # <<>>
          /\ keyWriting'[1].net = kmTestnet /\ keyWriting'[1].index = i
          /\ \A j \in KeyIndex : keyFile'[kmTestnet][j] =
                                    IF j = i THEN NoKey ELSE keyFile[kmTestnet][j]
        <3>1. /\ keyWriting' # <<>> /\ keyWriting'[1] = [net |-> kmTestnet, index |-> i, key |-> key]
              /\ \A n \in Nets, j \in KeyIndex :
                    keyFile'[n][j] = IF n = kmTestnet /\ j = i THEN NoKey ELSE keyFile[n][j]
            BY <1>0, <1>2, KeyWriteTypes
        <3>2. QED
            BY <1>0, <1>2, <3>1 DEF KeyWriteBegin
    <2>2. QED
        BY <1>0, <1>2, <2>1 DEF Filled, PrivKeyAtIndex
<1>3. ASSUME KeyWriteEnd, keyWriting[1].net = kmTestnet
      PROVE  /\ \A j \in Nat : Filled(kmTestnet, j)' = Filled(kmTestnet, j)
             /\ \A j \in KeyIndex : keyFile[kmTestnet][j] # NoKey => keyFile'[kmTestnet][j] # NoKey
    <2>1. /\ keyWriting # <<>> /\ keyWriting[1] \in KeyWrites /\ keyWriting' = <<>>
          /\ \A j \in KeyIndex : keyFile'[kmTestnet][j] =
                  IF j = keyWriting[1].index THEN keyWriting[1].key ELSE keyFile[kmTestnet][j]
        <3>1. /\ keyWriting' = <<>>
              /\ \A n \in Nets, j \in KeyIndex :
                    keyFile'[n][j] = IF n = keyWriting[1].net /\ j = keyWriting[1].index
                                     THEN keyWriting[1].key ELSE keyFile[n][j]
            BY <1>3, KeyWriteTypes
        <3>2. keyWriting # <<>> /\ keyWriting[1] \in KeyWrites
            BY <1>3 DEF KeyWriteEnd, KeyTypes
        <3>3. QED
            BY <1>0, <1>3, <3>1, <3>2
    <2>2. keyWriting[1].index \in KeyIndex /\ keyWriting[1].key \in Keys
        BY <2>1 DEF KeyWrites
    <2>3. QED
        BY <1>0, <1>3, <2>1, <2>2 DEF Filled, PrivKeyAtIndex
<1>4. CASE SwapFirst
    <2> DEFINE a == PrivKeyAtIndex(kmTestnet, 0)
               b == PrivKeyAtIndex(kmTestnet, ui.index)
    <2>0. ui.pc = "swap" /\ a = keyFile[kmTestnet][0] /\ b = keyFile[kmTestnet][ui.index]
        BY <1>0, <1>4 DEF SwapFirst, PrivKeyAtIndex
    <2>1. CASE a = NoKey \/ b = NoKey \/ ui.index = 0
        <3>1. ui' = UiIdle /\ UNCHANGED <<keyFile, keyWriting>>
            BY <1>4, <2>1 DEF SwapFirst
        <3>2. ui'.pc = "idle"
            BY <3>1 DEF UiIdle
        <3>3. QED
            BY <1>0, <3>1, <3>2 DEF Filled, PrivKeyAtIndex
    <2>2. CASE ~(a = NoKey \/ b = NoKey \/ ui.index = 0)
        <3>1. /\ KeyWriteBegin(kmTestnet, ui.index, a)
              /\ ui' = [ui EXCEPT !.pc = "swapFirst", !.key = b]
            BY <1>4, <2>2 DEF SwapFirst, SwapOrder
        <3>2. ui'.pc = "swapFirst"
            BY <3>1 DEF KeyTypes, UiType
        <3>3. a \in Keys /\ ui.index # 0
            BY <1>0, <1>1, <2>0, <2>2
        <3>4. keyFile'[kmTestnet][0] = a
            <4> HIDE DEF a, b
            <4>1. \A n \in Nets, j \in KeyIndex :
                     keyFile'[n][j] = IF n = kmTestnet /\ j = ui.index THEN NoKey ELSE keyFile[n][j]
                BY <1>0, <3>1, <3>3, KeyWriteTypes
            <4>2. QED
                BY <1>0, <2>0, <3>3, <4>1
        <3>5. \A j \in Nat : Filled(kmTestnet, j)' = Filled(kmTestnet, j)
            BY <1>0, <1>2, <2>0, <2>2, <3>1, <3>3
        <3>6. QED
            BY <2>2, <3>2, <3>4, <3>5
    <2>3. QED
        BY <2>1, <2>2
<1>5. CASE SwapFirstDone
    <2>1. ui.pc = "swapFirst" /\ KeyWriteEnd /\ ui' = [ui EXCEPT !.pc = "swapSecond"]
        BY <1>5 DEF SwapFirstDone
    <2>2. ui'.pc = "swapSecond" /\ keyWriting[1].net = kmTestnet
        BY <2>1 DEF KeyTypes, UiType, WriteSteps, KeyWriteEnd
    <2>3. keyFile[kmTestnet][0] # NoKey
        BY <2>1 DEF CacheCounts
    <2>4. QED
        BY <1>0, <1>3, <2>1, <2>2, <2>3
<1>6. CASE SwapSecond
    <2>1. /\ ui.pc = "swapSecond" /\ KeyWriteBegin(kmTestnet, 0, ui.key)
          /\ ui' = [ui EXCEPT !.pc = "swapEnd"]
        BY <1>6 DEF SwapSecond, SwapOrder
    <2>2. ui'.pc = "swapEnd"
        BY <2>1 DEF KeyTypes, UiType
    <2>3. keyFile[kmTestnet][0] # NoKey
        BY <2>1 DEF CacheCounts
    <2>4. QED
        BY <1>0, <1>2, <2>1, <2>2, <2>3
<1>7. CASE SwapReturns
    <2>1. ui.pc = "swapEnd" /\ KeyWriteEnd /\ ui' = UiIdle
        BY <1>7 DEF SwapReturns
    <2>2. ui'.pc = "idle" /\ keyWriting[1].net = kmTestnet
        BY <2>1 DEF UiIdle, WriteSteps, KeyWriteEnd
    <2>3. QED
        BY <1>3, <2>1, <2>2
<1>8. QED
    BY <1>4, <1>5, <1>6, <1>7

\* The steps of an import change neither counts nor the seed.
LEMMA SwapDerived ==
    ASSUME KeyTypes, WriteSteps, SeedNet, CacheCounts,
           SwapFirst \/ SwapFirstDone \/ SwapSecond \/ SwapReturns
    PROVE  CacheCounts'
<1>1. /\ UNCHANGED <<kmTestnet, kmHashCache, reader>>
      /\ ui.pc \in {"swap", "swapFirst", "swapSecond", "swapEnd"}
    BY DEF SwapFirst, SwapFirstDone, SwapSecond, SwapReturns, keyRest
<1>2. /\ \A i \in Nat : Filled(kmTestnet, i)' = Filled(kmTestnet, i)
      /\ ui'.pc \in {"swapFirst", "swapSecond"} => keyFile'[kmTestnet][0] # NoKey
    BY SwapFilled
<1>3. \A list \in Seq(Keys) : /\ Len(list) \in Nat
                              /\ \A i \in 0 .. Len(list) - 1 : i \in Nat
    OBVIOUS
<1>4. kmHashCache \in Seq(Keys) /\ reader.result \in Seq(Keys)
    BY DEF KeyTypes, ReaderType
<1>5. /\ kmHashCache # <<>> => Covers(kmHashCache) /\ ~Filled(kmTestnet, Len(kmHashCache))
      /\ reader.pc = "hashes" => Covers(reader.result)
    BY <1>1 DEF CacheCounts
<1>6. kmHashCache' # <<>> => Covers(kmHashCache)' /\ ~Filled(kmTestnet, Len(kmHashCache))'
    BY <1>1, <1>2, <1>3, <1>4, <1>5 DEF Covers
<1>7. reader'.pc = "hashes" => Covers(reader.result)'
    BY <1>1, <1>2, <1>3, <1>4, <1>5 DEF Covers
<1>8. QED
    BY <1>1, <1>2, <1>6, <1>7 DEF CacheCounts

\* Calls of the user's thread.
LEMMA CallDerived ==
    ASSUME KeyTypes, WriteSteps, DerivedInv, UiCall
    PROVE  DerivedInv'
<1>0. ui.pc = "idle" => keyWriting = <<>>
    BY DEF WriteSteps
<1>1. ASSUME ui.pc = "idle", ui'.pc \in {"idle", "save"}, kmHashCache' = kmHashCache,
             UNCHANGED <<keyFile, keyWriting, kmTestnet, kmMainSeed, reader, swapSeen>>
      PROVE  DerivedInv'
    <2>1. SeedNet'
        BY <1>1 DEF DerivedInv, SeedNet
    <2>2. QED
        BY <1>1, <2>1, CountsFrame DEF DerivedInv
<1>2. CASE Saves
    <2>1. /\ ui.pc = "idle" /\ ui' = [UiIdle EXCEPT !.pc = "save"] /\ kmHashCache' = kmHashCache
          /\ UNCHANGED <<keyFile, keyWriting, kmTestnet, kmMainSeed, reader, swapSeen>>
        BY <1>2 DEF Saves, SaveItem
    <2>2. ui'.pc = "save"
        BY <2>1 DEF UiIdle
    <2>3. QED
        BY <1>1, <2>1, <2>2
<1>3. CASE NextNonce
    <2>1. /\ ui.pc = "idle" /\ kmHashCache' = kmHashCache
          /\ ui' = [UiIdle EXCEPT !.pc = "save", !.then = "nonce", !.index = NonceCounter]
          /\ UNCHANGED <<keyFile, keyWriting, kmTestnet, kmMainSeed, reader, swapSeen>>
        BY <1>3 DEF NextNonce, Call
    <2>2. ui'.pc = "save"
        BY <2>1 DEF UiIdle
    <2>3. QED
        BY <1>1, <2>1, <2>2
<1>4. ASSUME NEW key \in Keys, NEW then, AddIndex(key, then) PROVE DerivedInv'
    <2>1. /\ ui.pc = "idle" /\ reader.pc # "hashes" /\ kmHashCache' = AllPrivKeyHashes
          /\ ui' = [pc |-> "add", key |-> key, index |-> Len(AllPrivKeyHashes), then |-> then]
          /\ UNCHANGED <<keyFile, keyWriting, kmTestnet, kmMainSeed, reader, swapSeen>>
        BY <1>4 DEF AddIndex, Call, HashMutexFree, keyRest
    <2>2. ui'.pc = "add"
        BY <2>1
    <2>3. SeedNet'
        BY <2>1, <2>2 DEF DerivedInv, SeedNet
    <2>4. ASSUME ~swapSeen' PROVE CacheCounts'
        <3>1. CacheCounts
            BY <2>1, <2>4 DEF DerivedInv
        <3>2. Covers(AllPrivKeyHashes) /\ ~Filled(kmTestnet, Len(AllPrivKeyHashes))
            BY <1>0, <2>1, <3>1, ListCounts
        <3>3. PICK list : list = AllPrivKeyHashes
            OBVIOUS
        <3>4. Covers(list) /\ ~Filled(kmTestnet, Len(list)) /\ kmHashCache' = list
            BY <2>1, <3>2, <3>3
        <3>5. \A i : Filled(kmTestnet, i)' = Filled(kmTestnet, i)
            BY <2>1 DEF Filled, PrivKeyAtIndex
        <3>6. Covers(kmHashCache') /\ ~Filled(kmTestnet, Len(kmHashCache'))
            BY <3>4
        <3>7. Covers(kmHashCache)' /\ ~Filled(kmTestnet, Len(kmHashCache))'
            BY <2>1, <3>4, <3>5 DEF Covers
        <3>8. QED
            BY <2>1, <2>2, <3>7 DEF CacheCounts
    <2>5. QED
        BY <2>3, <2>4 DEF DerivedInv
<1>5. CASE VaultMasterHdWalletAtIndex(0)
    <2>1. /\ ui.pc = "idle" /\ ui' = ui /\ kmHashCache' = kmHashCache
          /\ UNCHANGED <<keyFile, keyWriting, kmTestnet, kmMainSeed, reader, swapSeen>>
        BY <1>5 DEF VaultMasterHdWalletAtIndex, Call
    <2>2. QED
        BY <1>1, <2>1
<1>6. ASSUME NEW net \in Nets, SetTestnet(net) PROVE DerivedInv'
    <2>1. ui' = [UiIdle EXCEPT !.pc = "netSeed"]
        BY <1>6 DEF SetTestnet
    <2>2. ui'.pc = "netSeed"
        BY <2>1 DEF UiIdle
    <2>3. QED
        BY <2>2 DEF DerivedInv, SeedNet, CacheCounts
<1>7. QED
    BY <1>2, <1>3, <1>4, <1>5, <1>6, CallKinds

\* The steps of a call.
LEMMA UiStepDerived ==
    ASSUME KeyTypes, WriteSteps, DerivedInv, UiStep
    PROVE  DerivedInv'
<1>0. ui \in UiType /\ kmTestnet \in Nets
    BY DEF KeyTypes
<1>1. CASE InitLoad \/ SaveReturns
    <2>1. /\ ui.pc \in {"init", "save"} /\ ui'.pc \in {"idle", "save"} /\ kmHashCache' = kmHashCache
          /\ UNCHANGED <<keyFile, keyWriting, kmTestnet, kmMainSeed, reader, swapSeen>>
        BY <1>1 DEF InitLoad, SaveReturns, UiIdle
    <2>2. SeedNet'
        BY <2>1 DEF DerivedInv, SeedNet
    <2>3. QED
        BY <2>1, <2>2, CountsFrame DEF DerivedInv
<1>2. CASE AddWrite \/ AddReturns
    <2>1. /\ ui.pc \in {"add", "addWrite"} /\ UNCHANGED <<kmTestnet, kmMainSeed, reader>>
          /\ reader.pc # "hashes" /\ kmHashCache' = <<>>
        BY <1>2 DEF AddWrite, AddReturns, keyRest, HashMutexFree, WriteSteps
    <2>2. ui'.pc \in {"addWrite", "idle", "swap"}
        BY <1>0, <1>2 DEF AddWrite, AddReturns, UiType, UiIdle
    <2>3. SeedNet'
        BY <2>1, <2>2 DEF DerivedInv, SeedNet
    <2>4. CacheCounts'
        BY <2>1, <2>2 DEF CacheCounts
    <2>5. QED
        BY <2>3, <2>4 DEF DerivedInv
<1>3. CASE SwapFirst \/ SwapFirstDone \/ SwapSecond \/ SwapReturns
    <2>1. UNCHANGED <<kmTestnet, kmMainSeed, reader, swapSeen>>
        BY <1>3 DEF SwapFirst, SwapFirstDone, SwapSecond, SwapReturns, keyRest
    <2>2. ui.pc \in {"swap", "swapFirst", "swapSecond", "swapEnd"}
        BY <1>3 DEF SwapFirst, SwapFirstDone, SwapSecond, SwapReturns
    <2>3. SeedNet'
        BY <2>1, <2>2 DEF DerivedInv, SeedNet
    <2>4. QED
        BY <1>3, <2>1, <2>3, SwapDerived DEF DerivedInv
<1>4. CASE SetTestnetSeed
    <2>1. /\ ui' = [ui EXCEPT !.pc = "netHashes"] /\ kmMainSeed' = <<>> /\ reader.pc # "seed"
          /\ reader' = reader
        BY <1>4 DEF SetTestnetSeed, ResetSeed, SeedMutexFree, netRest
    <2>2. ui'.pc = "netHashes"
        BY <1>0, <2>1 DEF UiType
    <2>3. QED
        BY <2>1, <2>2 DEF DerivedInv, SeedNet, CacheCounts
<1>5. CASE SetTestnetHashes
    <2>1. /\ ui.pc = "netHashes" /\ ui' = UiIdle /\ kmHashCache' = <<>> /\ reader.pc # "hashes"
          /\ UNCHANGED <<kmTestnet, kmMainSeed, reader>>
        BY <1>5 DEF SetTestnetHashes, HashMutexFree, netRest
    <2>2. ui'.pc = "idle"
        BY <2>1 DEF UiIdle
    <2>3. QED
        BY <2>1, <2>2 DEF DerivedInv, SeedNet, CacheCounts
<1>6. QED
    BY <1>1, <1>2, <1>3, <1>4, <1>5 DEF UiStep

\* The reading thread: what it reads while no import writes is what is there.
LEMMA ReaderDerived ==
    ASSUME KeyTypes, WriteSteps, DerivedInv, ReaderStep
    PROVE  DerivedInv'
<1>0. UNCHANGED <<keyFile, keyWriting, kmTestnet, ui>> /\ reader.result \in Seq(Keys)
    BY DEF ReaderStep, HdWalletIndex, HdWalletIndexSeed, ReadHashes, ReadHashesNext, readRest,
           KeyTypes, ReaderType
<1>1. \A i : Filled(kmTestnet, i)' = Filled(kmTestnet, i)
    BY <1>0 DEF Filled, PrivKeyAtIndex
<1>2. ReaderIdle.pc = "idle" /\ \A list : Covers(list)' = Covers(list)
    BY <1>0, <1>1 DEF ReaderIdle, Covers
<1>3. CASE HdWalletIndex
    <2>1. /\ reader' = [ReaderIdle EXCEPT !.pc = "seed", !.net = kmTestnet]
          /\ UNCHANGED <<kmHashCache, kmMainSeed, swapSeen>>
        BY <1>3 DEF HdWalletIndex
    <2>2. reader'.pc = "seed" /\ reader'.net = kmTestnet
        BY <2>1 DEF ReaderIdle
    <2>3. SeedNet'
        BY <1>0, <2>1, <2>2 DEF DerivedInv, SeedNet
    <2>4. CacheCounts => CacheCounts'
        BY <1>0, <1>1, <1>2, <2>1, <2>2 DEF CacheCounts
    <2>5. QED
        BY <2>1, <2>3, <2>4 DEF DerivedInv
<1>4. CASE HdWalletIndexSeed
    <2>1. /\ reader.pc = "seed" /\ reader' = ReaderIdle /\ UNCHANGED <<kmHashCache, swapSeen>>
          /\ kmMainSeed' = <<[net |-> reader.net, key |-> PrivKeyAtIndex(reader.net, 0)]>>
        BY <1>4 DEF HdWalletIndexSeed
    <2>2. Len(kmMainSeed') = 1 /\ kmMainSeed'[1].net = reader.net
        BY <2>1
    <2>3. SeedNet'
        BY <1>0, <1>2, <2>1, <2>2 DEF DerivedInv, SeedNet
    <2>4. CacheCounts => CacheCounts'
        BY <1>0, <1>1, <1>2, <2>1 DEF CacheCounts
    <2>5. QED
        BY <2>1, <2>3, <2>4 DEF DerivedInv
<1>5. CASE ReadHashes
    <2>1. /\ reader' = [ReaderIdle EXCEPT !.pc = "hashes"]
          /\ UNCHANGED <<kmHashCache, kmMainSeed, swapSeen>>
        BY <1>5 DEF ReadHashes
    <2>2. reader'.pc = "hashes" /\ reader'.result = <<>>
        BY <2>1 DEF ReaderIdle
    <2>3. SeedNet'
        BY <1>0, <2>1, <2>2 DEF DerivedInv, SeedNet
    <2>4. Covers(<<>>)
        BY DEF Covers
    <2>5. CacheCounts => CacheCounts'
        BY <1>0, <1>1, <1>2, <2>1, <2>2, <2>4 DEF CacheCounts
    <2>6. QED
        BY <2>1, <2>3, <2>5 DEF DerivedInv
<1>6. CASE ReadHashesNext
    <2> DEFINE list == reader.result
               key == PrivKeyAtIndex(kmTestnet, Len(list))
    <2>1. reader.pc = "hashes" /\ kmMainSeed' = kmMainSeed /\ reader'.pc # "seed"
        BY <1>2, <1>6 DEF ReadHashesNext, KeyTypes, ReaderType
    <2>2. SeedNet'
        BY <1>0, <2>1 DEF DerivedInv, SeedNet
    <2>3. ASSUME ~swapSeen' PROVE CacheCounts'
        <3>1. ~swapSeen /\ ui.pc \notin {"swapFirst", "swapEnd"}
            BY <1>6, <2>3 DEF ReadHashesNext, KeyTypes
        <3>2. keyWriting = <<>> /\ CacheCounts
            BY <2>1, <3>1 DEF WriteSteps, DerivedInv
        <3>3. CASE key # NoKey
            <4>1. reader' = [reader EXCEPT !.result = Append(@, key)] /\ kmHashCache' = kmHashCache
                BY <1>6, <3>3 DEF ReadHashesNext
            <4>2. reader'.result = Append(list, key)
                BY <4>1 DEF KeyTypes, ReaderType
            <4>3. Filled(kmTestnet, Len(list))
                BY <3>3 DEF Filled
            <4>4. Covers(list) => Covers(Append(list, key))
                BY <1>0, <4>3 DEF Covers
            <4> HIDE DEF list, key
            <4>5. PICK longer : longer = Append(list, key)
                OBVIOUS
            <4>6. ui.pc \notin {"netSeed", "netHashes"} => Covers(longer)
                BY <2>1, <3>2, <4>4, <4>5 DEF CacheCounts, list
            <4>7. \A i \in 0 .. Len(longer) - 1 : Filled(kmTestnet, i)' = Filled(kmTestnet, i)
                BY <1>1
            <4>8. ui.pc \notin {"netSeed", "netHashes"} => Covers(reader.result)'
                BY <1>0, <4>2, <4>5, <4>6, <4>7 DEF Covers
            <4>9. /\ kmHashCache' = kmHashCache /\ ui' = ui
                  /\ Covers(kmHashCache)' = Covers(kmHashCache)
                  /\ Filled(kmTestnet, Len(kmHashCache))' = Filled(kmTestnet, Len(kmHashCache))
                BY <1>0, <1>1, <4>1 DEF Covers
            <4>10. keyFile'[kmTestnet'][0] = keyFile[kmTestnet][0]
                BY <1>0
            <4>11. QED
                BY <3>2, <4>8, <4>9, <4>10 DEF CacheCounts
        <3>4. CASE key = NoKey
            <4>1. reader' = ReaderIdle /\ kmHashCache' = list
                BY <1>6, <3>4 DEF ReadHashesNext
            <4>2. ~Filled(kmTestnet, Len(list))
                BY <3>2, <3>4 DEF Filled
            <4>3. ui.pc \notin {"netSeed", "netHashes"} => Covers(list)
                BY <2>1, <3>2 DEF CacheCounts
            <4> HIDE DEF list, key
            <4>4. ui.pc \notin {"netSeed", "netHashes"} =>
                      Covers(kmHashCache)' /\ ~Filled(kmTestnet, Len(kmHashCache))'
                BY <1>0, <1>1, <4>1, <4>2, <4>3 DEF Covers
            <4>5. QED
                BY <1>0, <1>2, <3>2, <4>1, <4>4 DEF CacheCounts
        <3>5. QED
            BY <3>3, <3>4
    <2>4. QED
        BY <2>2, <2>3 DEF DerivedInv
<1>7. QED
    BY <1>3, <1>4, <1>5, <1>6 DEF ReaderStep

\* A stop empties the caches.
LEMMA CrashDerived == Crash => DerivedInv'
<1> SUFFICES ASSUME Crash PROVE DerivedInv'
    OBVIOUS
<1>1. /\ kmHashCache' = <<>> /\ kmMainSeed' = <<>> /\ ui'.pc = "init"
      /\ reader'.pc = "idle"
    BY DEF Crash, UiIdle, ReaderIdle
<1>2. QED
    BY <1>1 DEF DerivedInv, SeedNet, CacheCounts

\* Every step keeps what is derived.
LEMMA DerivedStep ==
    ASSUME KeyTypes, WriteSteps, DerivedInv, [KeyNext]_keyVars
    PROVE  DerivedInv'
<1>1. CASE UNCHANGED keyVars
    <2>1. UNCHANGED <<keyFile, keyWriting, kmTestnet, kmHashCache, kmMainSeed, ui, reader, swapSeen>>
        BY <1>1 DEF keyVars
    <2>2. \A i : Filled(kmTestnet, i)' = Filled(kmTestnet, i)
        BY <2>1 DEF Filled, PrivKeyAtIndex
    <2>3. CacheCounts' = CacheCounts
        BY <2>1, <2>2 DEF CacheCounts, Covers
    <2>4. SeedNet' = SeedNet
        BY <2>1 DEF SeedNet
    <2>5. QED
        BY <2>1, <2>3, <2>4 DEF DerivedInv
<1>2. QED
    BY <1>1, CallDerived, UiStepDerived, ReaderDerived, CrashDerived DEF KeyNext

\* Nothing is derived at the start.
LEMMA DerivedStarts == KeyInit => DerivedInv
<1> SUFFICES ASSUME KeyInit PROVE DerivedInv
    OBVIOUS
<1>1. kmHashCache = <<>> /\ kmMainSeed = <<>> /\ ui.pc = "init" /\ reader.pc = "idle"
    BY DEF KeyInit, UiIdle, ReaderIdle
<1>2. QED
    BY <1>1 DEF DerivedInv, SeedNet, CacheCounts

\* Between calls the cached list is as long as there are keys.
LEMMA CountsAgree ==
    ASSUME KeyTypes, WriteSteps, DerivedInv, ui.pc = "idle", ~swapSeen
    PROVE  /\ kmHashCache # <<>> => Len(kmHashCache) = PrivKeyCount(kmTestnet)
           /\ \A s \in 1 .. Len(kmMainSeed) : kmMainSeed[s].net = kmTestnet
<1> DEFINE n == Len(kmHashCache)
           m == PrivKeyCount(kmTestnet)
<1>1. keyWriting = <<>> /\ kmTestnet \in Nets /\ kmHashCache \in Seq(Keys)
    BY DEF WriteSteps, KeyTypes
<1>2. \A i : Filled(kmTestnet, i) <=> PrivKeyAtIndex(kmTestnet, i) # NoKey
    BY <1>1 DEF Filled
<1>3. ASSUME kmHashCache # <<>> PROVE n = m
    <2>1. /\ \A i \in 0 .. n - 1 : PrivKeyAtIndex(kmTestnet, i) # NoKey
          /\ PrivKeyAtIndex(kmTestnet, n) = NoKey
        BY <1>2, <1>3 DEF DerivedInv, CacheCounts, Covers
    <2>2. /\ m \in 0 .. MaxKeyFile + 1
          /\ \A i \in 0 .. m - 1 : PrivKeyAtIndex(kmTestnet, i) # NoKey
          /\ PrivKeyAtIndex(kmTestnet, m) = NoKey
        BY <1>1, KeyCount
    <2>3. n \in Nat
        BY <1>1
    <2> HIDE DEF n, m
    <2>4. m \in Nat
        BY <2>2, KeyStoreAssumption
    <2>5. ~(n < m) /\ ~(m < n)
        BY <2>1, <2>2, <2>3, <2>4
    <2>6. QED
        BY <2>3, <2>4, <2>5
<1>4. QED
    BY <1>3 DEF DerivedInv, SeedNet

\* The numbers in S below n.
Below(S, n) == {x \in S : x < n}

\* There is one more of them below the next number if n is in S.
LEMMA BelowNext ==
    ASSUME NEW S, S \subseteq Nat, IsFiniteSet(S), NEW n \in Nat
    PROVE  /\ Cardinality(Below(S, n)) \in Nat
           /\ Cardinality(Below(S, n)) <= Cardinality(S)
           /\ Cardinality(Below(S, n + 1)) = IF n \in S THEN Cardinality(Below(S, n)) + 1
                                             ELSE Cardinality(Below(S, n))
<1>1. PICK D : D = Below(S, n)
    OBVIOUS
<1>2. D \in SUBSET S /\ n \notin D
    BY <1>1 DEF Below
<1>3. IsFiniteSet(D) /\ Cardinality(D) <= Cardinality(S)
    BY <1>2, FS_Subset
<1>4. Cardinality(D) \in Nat
    BY <1>3, FS_CardinalityType
<1>5. Below(S, n + 1) = IF n \in S THEN D \cup {n} ELSE D
    <2>1. \A x \in S : x < n + 1 <=> x < n \/ x = n
        OBVIOUS
    <2>2. QED
        BY <1>1, <2>1 DEF Below
<1>6. Cardinality(D \cup {n}) = Cardinality(D) + 1
    BY <1>2, <1>3, FS_AddElement
<1>7. QED
    BY <1>1, <1>3, <1>4, <1>5, <1>6

\* A dictionary has an entry at every place before that of a given one.
LEMMA EntriesBefore ==
    ASSUME NEW S, S \subseteq Nat, IsFiniteSet(S), NEW u \in S,
           NEW k \in Nat, k <= Cardinality(Below(S, u))
    PROVE  EntryAt(S, k) # {}
<1> DEFINE below(n) == Cardinality(Below(S, n))
           past == {n \in Nat : below(n) > k}
<1> HIDE DEF below
<1>0. \A n \in Nat : /\ below(n) \in Nat
                     /\ below(n + 1) = IF n \in S THEN below(n) + 1 ELSE below(n)
    <2>1. ASSUME NEW n \in Nat
          PROVE  /\ below(n) \in Nat
                 /\ below(n + 1) = IF n \in S THEN below(n) + 1 ELSE below(n)
        BY BelowNext DEF below
    <2>2. QED
        BY <2>1
<1>1. u + 1 \in past
    BY <1>0 DEF below
<1>2. PICK n \in past : \A m \in past : n <= m
    <2>1. past \subseteq Nat /\ past # {}
        BY <1>1
    <2> HIDE DEF past
    <2>2. QED
        BY <2>1, LeastNatural
<1>3. below(0) = 0
    <2>1. \A x \in S : ~(x < 0)
        OBVIOUS
    <2>2. Below(S, 0) = {}
        BY <2>1 DEF Below
    <2>3. QED
        BY <2>2, FS_EmptySet DEF below
<1>4. n # 0 /\ n - 1 \in Nat /\ (n - 1) + 1 = n
    BY <1>2, <1>3
<1>5. ~(below(n - 1) > k)
    BY <1>2, <1>4
<1>6. n - 1 \in S /\ below(n - 1) = k
    <2>1. PICK m \in Nat : m = n - 1 /\ n = m + 1
        BY <1>4
    <2>2. /\ below(m) \in Nat /\ below(n) > k /\ ~(below(m) > k)
          /\ below(n) = IF m \in S THEN below(m) + 1 ELSE below(m)
        BY <1>0, <1>2, <1>5, <2>1
    <2>3. m \in S /\ below(m) = k
        BY <2>2
    <2>4. QED
        BY <2>1, <2>3
<1>7. QED
    BY <1>6 DEF EntryAt, below, Below

\* A wallet entered by hand is at its place in the dictionary, and no place
\* before it is empty: it is among the roots.
LEMMA ManualFound ==
    ASSUME DOMAIN KnownHDWallets \subseteq Uuids, NEW u \in DOMAIN KnownHDWallets,
           KnownHDWallets[u].type = "Manual"
    PROVE  KnownHDWallets[u].data \in AllHdWalletPubRoots.manual
<1> DEFINE manual == {x \in DOMAIN KnownHDWallets : KnownHDWallets[x].type = "Manual"}
           n == Cardinality(Below(manual, u))
<1>1. manual \in SUBSET Uuids /\ manual \subseteq Nat /\ u \in manual /\ u \in Nat
    BY KeyStoreAssumption
<1>2. IsFiniteSet(manual) /\ Cardinality(manual) <= Cardinality(Uuids)
    BY <1>1, FS_Subset, KeyStoreDataAssumption
<1>3. Cardinality(Uuids) \in Nat /\ Cardinality(manual) \in Nat
    BY <1>2, FS_CardinalityType, KeyStoreDataAssumption
<1> HIDE DEF manual
<1>4. n \in 0 .. Cardinality(Uuids)
    <2>1. n \in Nat /\ n <= Cardinality(manual)
        BY <1>1, <1>2, BelowNext
    <2>2. QED
        BY <1>2, <1>3, <2>1
<1>5. ASSUME NEW k \in 0 .. n PROVE HdWalletForManualWallets(k) # {}
    <2>1. k \in Nat /\ k <= n
        BY <1>4
    <2>2. EntryAt(manual, k) # {}
        BY <1>1, <1>2, <2>1, EntriesBefore
    <2>3. QED
        BY <2>2 DEF HdWalletForManualWallets, manual
<1>6. u \in EntryAt(manual, n)
    BY <1>1 DEF EntryAt, Below
<1>7. KnownHDWallets[u].data \in HdWalletForManualWallets(n)
    BY <1>6 DEF HdWalletForManualWallets, manual
<1> HIDE DEF n
<1>8. QED
    BY <1>4, <1>5, <1>7 DEF AllHdWalletPubRoots

-----------------------------------------------------------------------------
(* What is stored.                                                         *)

\* What is kept of a vault.
VaultEntries == [name : Names, wallets : SUBSET Wallets, master : Wallets \cup {NoKey}]

\* The dictionary of known wallets, and the list of vaults.
WalletDict(d) == DOMAIN d \subseteq Uuids /\ \A u \in DOMAIN d : d[u] \in WalletEntries
VaultList(s) == s \in Seq(VaultEntries)

\* The items they are stored under.
WalletItems == {"knownHDWalletsKey", "knownHDWalletsKeyMainNet"}
VaultItems == {"vaultObjectsKey", "vaultObjectsKeyTestNet"}

\* The known wallets and the vaults of a content of the storage file.
StoredTyped(c) ==
    /\ \A item \in WalletItems : WalletDict(DictOf(c[item]))
    /\ \A item \in VaultItems : VaultList(DictOf(c[item]))

StoredTypes == StoredTyped(bsFile) /\ (bsSaving # <<>> => StoredTyped(bsSaving[1]))

\* They are items of the file.
LEMMA StoredItems == WalletItems \cup VaultItems \subseteq Items
<1>1. /\ ItemOrder[3] = "knownHDWalletsKey" /\ ItemOrder[4] = "knownHDWalletsKeyMainNet"
      /\ ItemOrder[12] = "vaultObjectsKey" /\ ItemOrder[13] = "vaultObjectsKeyTestNet"
      /\ DOMAIN ItemOrder = 1 .. 13
    BY DEF ItemOrder
<1>2. QED
    BY <1>1 DEF Items, WalletItems, VaultItems

\* An item that is missing or cut is read as an empty dictionary and as an empty
\* list.
LEMMA NothingStored ==
    ASSUME NEW c, NEW d, StoredTyped(c), \A item \in Items : d[item] \in {c[item], NoKey}
    PROVE  StoredTyped(d)
<1>1. WalletDict(DictOf(NoKey)) /\ VaultList(DictOf(NoKey))
    BY DEF WalletDict, VaultList, DictOf
<1>3. QED
    BY <1>1, StoredItems DEF StoredTyped

\* A dictionary that is changed, and a list that grows or shrinks.
LEMMA EntriesKept ==
    /\ \A d, u : WalletDict(d) => WalletDict(DictWithout(d, u))
    /\ \A d : \A u \in Uuids, v \in WalletEntries : WalletDict(d) => WalletDict(DictWith(d, u, v))
    /\ \A s : \A v \in VaultEntries : VaultList(s) => VaultList(Append(s, v))
    /\ \A s : \A i \in 1 .. 2 : VaultList(s) => VaultList(WithoutIndex(s, i))
<1>1. \A d, u : WalletDict(d) => WalletDict(DictWithout(d, u))
    BY DEF WalletDict, DictWithout
<1>2. \A d : \A u \in Uuids, v \in WalletEntries : WalletDict(d) => WalletDict(DictWith(d, u, v))
    BY DEF WalletDict, DictWith
<1>3. \A s : \A v \in VaultEntries : VaultList(s) => VaultList(Append(s, v))
    BY DEF VaultList
<1>4. ASSUME NEW s \in Seq(VaultEntries), NEW i \in 1 .. 2 PROVE WithoutIndex(s, i) \in Seq(VaultEntries)
    <2>1. CASE i \in DOMAIN s
        <3>1. SubSeq(s, 1, i - 1) \in Seq(VaultEntries) /\ SubSeq(s, i + 1, Len(s)) \in Seq(VaultEntries)
            BY <2>1
        <3>2. QED
            BY <2>1, <3>1, ConcatProperties DEF WithoutIndex
    <2>2. CASE i \notin DOMAIN s
        BY <2>2 DEF WithoutIndex
    <2>3. QED
        BY <2>1, <2>2
<1>5. QED
    BY <1>1, <1>2, <1>3, <1>4 DEF VaultList

\* What may be saved under an item.
Fits(item, v) ==
    /\ item \in WalletItems => WalletDict(v)
    /\ item \in VaultItems => VaultList(v)

\* A save begins: the file is emptied, and what it will hold is typed.
LEMMA SaveTyped ==
    ASSUME StoredTypes, IsContent(bsFile), NEW item, NEW v, BsSaveBegin(item, v), Fits(item, v)
    PROVE  StoredTypes'
<1>1. PICK c : c = [bsFile EXCEPT ![item] = v]
    OBVIOUS
<1>2. DictOf(v) = v \/ DictOf(v) = DictOf(NoKey)
    BY DEF DictOf
<1>3. WalletDict(DictOf(NoKey)) /\ VaultList(DictOf(NoKey))
    BY DEF WalletDict, VaultList, DictOf
<1>4. DOMAIN bsFile = Items
    BY DEF IsContent
<1>5. \A i \in Items : c[i] = IF i = item THEN v ELSE bsFile[i]
    BY <1>1, <1>4
<1>7. StoredTyped(c)
    BY <1>2, <1>3, <1>5, StoredItems DEF StoredTypes, StoredTyped, Fits, WalletItems, VaultItems
<1>8. bsSaving' = <<c>> /\ bsFile' = [i \in Items |-> NoKey]
    BY <1>1 DEF BsSaveBegin
<1>9. \A i \in Items : bsFile'[i] \in {c[i], NoKey}
    BY <1>8
<1>10. StoredTyped(bsFile')
    BY <1>7, <1>9, NothingStored
<1>11. StoredTyped(bsFile)' /\ bsSaving'[1] = c
    BY <1>8, <1>10 DEF StoredTyped
<1>12. QED
    BY <1>7, <1>11 DEF StoredTypes, StoredTyped

\* The items are those of the network in use.
LEMMA ItemKinds ==
    /\ WalletsItem \in WalletItems /\ WalletsItem \notin VaultItems
    /\ VaultItem \in VaultItems /\ VaultItem \notin WalletItems
    /\ \A item \in {KeyNameItem, MultisigItem, SortItem, "privKeyHashForDeviceKey",
                    "nonceCounter", "noncePrefix"} :
           item \notin WalletItems \cup VaultItems
BY DEF WalletsItem, VaultItem, KeyNameItem, MultisigItem, SortItem, Item, WalletItems, VaultItems

\* The dictionary of known wallets and the list of vaults that are loaded.
LEMMA LoadedTypes ==
    ASSUME StoredTypes
    PROVE  WalletDict(DictOf(bsLoad(WalletsItem))) /\ VaultList(DictOf(bsLoad(VaultItem)))
BY ItemKinds DEF StoredTypes, StoredTyped, bsLoad

\* No call saves anything else under the items of wallets and vaults.
LEMMA CallStored ==
    ASSUME StoredTypes, IsContent(bsFile), UiCall
    PROVE  StoredTypes'
<1>1. ASSUME NEW item, NEW v, SaveItem(item, v), Fits(item, v) PROVE StoredTypes'
    BY <1>1, SaveTyped DEF SaveItem
<1>2. ASSUME NEW item, NEW v, SaveItem(item, v), item \notin WalletItems \cup VaultItems
      PROVE  StoredTypes'
    BY <1>1, <1>2 DEF Fits
<1>3. ASSUME UNCHANGED <<bsFile, bsSaving>> PROVE StoredTypes'
    BY <1>3 DEF StoredTypes, StoredTyped
<1>4. ASSUME NextNonce PROVE StoredTypes'
    <2>1. BsSaveBegin("nonceCounter", NonceCounter + 1)
        BY <1>4 DEF NextNonce
    <2>2. Fits("nonceCounter", NonceCounter + 1)
        BY ItemKinds DEF Fits
    <2>3. QED
        BY <2>1, <2>2, SaveTyped
<1>5. ASSUME NEW i, NEW name, SetKeyName(i, name) PROVE StoredTypes'
    BY <1>2, <1>5, ItemKinds DEF SetKeyName
<1>6. ASSUME NEW w \in Wallets \cup {NoKey}, NEW u \in Uuids, NEW t \in {"KoinKeep", "Manual"},
             SetHDWalletForUUID(w, u, t)
      PROVE  StoredTypes'
    <2>1. PICK d : d = DictOf(bsLoad(WalletsItem)) /\ WalletDict(d)
        BY LoadedTypes
    <2>2. CASE w = NoKey
        <3>1. SaveItem(WalletsItem, DictWithout(d, u))
            BY <1>6, <2>1, <2>2 DEF SetHDWalletForUUID
        <3>2. Fits(WalletsItem, DictWithout(d, u))
            BY <2>1, EntriesKept, ItemKinds DEF Fits
        <3>3. QED
            BY <1>1, <3>1, <3>2
    <2>3. CASE w # NoKey
        <3>1. PICK e \in WalletEntries : e = [data |-> w, type |-> t]
            BY <2>3 DEF WalletEntries
        <3>2. SaveItem(WalletsItem, DictWith(d, u, e))
            BY <1>6, <2>1, <2>3, <3>1 DEF SetHDWalletForUUID
        <3>3. Fits(WalletsItem, DictWith(d, u, e))
            BY <2>1, EntriesKept, ItemKinds DEF Fits
        <3>4. QED
            BY <1>1, <3>2, <3>3
    <2>4. QED
        BY <2>2, <2>3
<1>7. ASSUME NEW k, NEW u, SetPrivKeyHashForDevice(k, u) PROVE StoredTypes'
    BY <1>2, <1>7, ItemKinds DEF SetPrivKeyHashForDevice
<1>8. ASSUME NEW w, NEW n, AddMultisig(w, n) PROVE StoredTypes'
    BY <1>2, <1>8, ItemKinds DEF AddMultisig
<1>9. ASSUME NEW mw \in Wallets \cup {NoKey}, NEW w \in Wallets, NEW n \in Names,
             AddVaultObserver(mw, {w}, n)
      PROVE  StoredTypes'
    <2>1. PICK s : s = DictOf(bsLoad(VaultItem)) /\ VaultList(s)
        BY LoadedTypes
    <2>2. PICK v \in VaultEntries : v = [name |-> n, wallets |-> {w}, master |-> mw]
        BY DEF VaultEntries
    <2>3. SaveItem(VaultItem, Append(s, v))
        BY <1>9, <2>1, <2>2 DEF AddVaultObserver
    <2>4. Fits(VaultItem, Append(s, v))
        BY <2>1, EntriesKept, ItemKinds DEF Fits
    <2>5. QED
        BY <1>1, <2>3, <2>4
<1>10. ASSUME NEW w \in Wallets, NEW n \in Names, AddVault({w}, n) PROVE StoredTypes'
    BY <1>9, <1>10 DEF AddVault
<1>11. ASSUME NEW i \in 1 .. 2, RemoveMultisig(i) PROVE StoredTypes'
    BY <1>2, <1>11, ItemKinds DEF RemoveMultisig
<1>12. ASSUME NEW i \in 1 .. 2, RemoveVault(i) PROVE StoredTypes'
    <2>1. PICK s : s = DictOf(bsLoad(VaultItem)) /\ VaultList(s)
        BY LoadedTypes
    <2>2. SaveItem(VaultItem, WithoutIndex(s, i))
        BY <1>12, <2>1 DEF RemoveVault
    <2>3. Fits(VaultItem, WithoutIndex(s, i))
        BY <2>1, EntriesKept, ItemKinds DEF Fits
    <2>4. QED
        BY <1>1, <2>2, <2>3
<1>13. ASSUME NEW h, SetSortHashes(h) \/ SetHiddenHashes(h) PROVE StoredTypes'
    BY <1>2, <1>13, ItemKinds DEF SetSortHashes, SetHiddenHashes
<1>14. ASSUME NEW k, NEW then, AddIndex(k, then) PROVE StoredTypes'
    BY <1>3, <1>14 DEF AddIndex, keyRest
<1>15. ASSUME VaultMasterHdWalletAtIndex(0) PROVE StoredTypes'
    BY <1>3, <1>15 DEF VaultMasterHdWalletAtIndex
<1>16. ASSUME NEW net, SetTestnet(net) PROVE StoredTypes'
    BY <1>3, <1>16 DEF SetTestnet, netRest
<1>17. QED
    BY <1>4, <1>5, <1>6, <1>7, <1>8, <1>9, <1>10, <1>11, <1>12, <1>13, <1>14, <1>15, <1>16
       DEF UiCall

\* No step stores anything else, and a save that is cut off leaves items away.
LEMMA StoredStep ==
    ASSUME NonceInv, StoredTypes, [KeyNext]_keyVars
    PROVE  StoredTypes'
<1>0. IsContent(bsFile)
    BY DEF NonceInv
<1>1. ASSUME UNCHANGED <<bsFile, bsSaving>> PROVE StoredTypes'
    BY <1>1 DEF StoredTypes, StoredTyped
<1>2. CASE UiCall
    BY <1>0, <1>2, CallStored
<1>3. CASE InitLoad
    <2>1. CASE BsSaveBegin("noncePrefix", entropy')
        <3>1. Fits("noncePrefix", entropy')
            BY ItemKinds DEF Fits
        <3>2. QED
            BY <1>0, <2>1, <3>1, SaveTyped
    <2>2. QED
        BY <1>1, <1>3, <2>1 DEF InitLoad
<1>4. CASE SaveReturns
    BY <1>4 DEF SaveReturns, BsSaveEnd, StoredTypes, StoredTyped
<1>5. CASE UiStep /\ ~InitLoad /\ ~SaveReturns
    BY <1>1, <1>5 DEF UiStep, AddWrite, AddReturns, SwapFirst, SwapFirstDone, SwapSecond,
                      SwapReturns, SetTestnetSeed, SetTestnetHashes, keyRest, netRest
<1>6. CASE ReaderStep
    BY <1>1, <1>6 DEF ReaderStep, HdWalletIndex, HdWalletIndexSeed, ReadHashes, ReadHashesNext,
                      readRest
<1>7. CASE Crash
    <2>1. bsSaving' = <<>>
        BY <1>7 DEF Crash
    <2>2. StoredTyped(bsFile')
        <3>1. CASE bsSaving = <<>>
            BY <1>7, <3>1 DEF Crash, StoredTypes
        <3>2. CASE bsSaving # <<>>
            <4>1. PICK c : c = bsSaving[1] /\ StoredTyped(c)
                BY <3>2 DEF StoredTypes
            <4>2. PICK n \in 1 .. Len(ItemOrder) + 1 : bsFile' = ReadPrefix(c, n)
                BY <1>7, <3>2, <4>1 DEF Crash, TornFiles
            <4>3. \A i \in Items : bsFile'[i] \in {c[i], NoKey}
                BY <4>2 DEF ReadPrefix
            <4>4. QED
                BY <4>1, <4>3, NothingStored
        <3>3. QED
            BY <3>1, <3>2
    <2>3. QED
        BY <2>1, <2>2 DEF StoredTypes, StoredTyped
<1>8. CASE UNCHANGED keyVars
    BY <1>1, <1>8 DEF keyVars
<1>9. QED
    BY <1>2, <1>3, <1>4, <1>5, <1>6, <1>7, <1>8 DEF KeyNext, UiStep

\* Nothing is stored at the start.
LEMMA StoredStarts == KeyInit => StoredTypes
<1> SUFFICES ASSUME KeyInit PROVE StoredTypes
    OBVIOUS
<1>1. bsFile = [item \in Items |-> NoKey] /\ bsSaving = <<>>
    BY DEF KeyInit
<1>3. WalletDict(DictOf(NoKey)) /\ VaultList(DictOf(NoKey))
    BY DEF WalletDict, VaultList, DictOf
<1>4. QED
    BY <1>1, <1>3, StoredItems DEF StoredTypes, StoredTyped

-----------------------------------------------------------------------------
(* The masters of vaults.                                                  *)

\* A serialised entry is never a wallet: no vault counts as one of own keys.
LEMMA NoOwnMasters ==
    ASSUME WalletDict(KnownHDWallets), NEW v \in VaultEntries
    PROVE  OwnKeyIndices(v) = {}
<1>1. ASSUME NEW w \in v.wallets PROVE UuidsFromHDWallet(w) = {}
    <2>1. w \in Wallets
        BY <1>1 DEF VaultEntries
    <2>2. w \notin WalletEntries
        BY <2>1, KeyStoreDataAssumption
    <2>3. \A u \in DOMAIN KnownHDWallets : KnownHDWallets[u] # w
        BY <2>2 DEF WalletDict
    <2>4. QED
        BY <2>3 DEF UuidsFromHDWallet
<1>2. QED
    BY <1>1 DEF OwnKeyIndices

\* The master of a vault is at the place that counts the vaults with a master.
LEMMA MasterFound ==
    ASSUME WalletDict(KnownHDWallets), VaultList(Vaults), NEW i \in DOMAIN Vaults,
           Vaults[i].master # NoKey
    PROVE  VaultMaster(Cardinality({j \in 1 .. i : Vaults[j].master # NoKey})) = Vaults[i].master
<1>0. PICK s \in Seq(VaultEntries) : s = Vaults
    BY DEF VaultList
<1>1. PICK S : S = {v \in {s[j] : j \in DOMAIN s} : v.master # NoKey}
    OBVIOUS
<1>2. PICK own : own = Within(s, {v \in {s[j] : j \in DOMAIN s} : OwnKeyIndices(v) # {}})
    OBVIOUS
<1>3. PICK observed : observed = Within(s, S)
    OBVIOUS
<1>4. own = <<>>
    <2>1. VaultEntries \cap {v \in {s[j] : j \in DOMAIN s} : OwnKeyIndices(v) # {}} = {}
        BY NoOwnMasters
    <2>2. QED
        BY <1>0, <1>2, <2>1, WithinAllOrNone
<1>5. VaultMasterHdWallets = [k \in 1 .. Len(own) + Len(observed) |->
            IF k <= Len(own)
            THEN CHOOSE j \in OwnKeyIndices(own[k]) :
                     \A n \in OwnKeyIndices(own[k]) : j <= n
            ELSE observed[k - Len(own)].master]
    BY <1>0, <1>1, <1>2, <1>3 DEF VaultMasterHdWallets
<1>6. observed \in Seq(VaultEntries) /\ Len(observed) \in Nat /\ Len(own) = 0
    <2>1. observed \in Seq(VaultEntries)
        BY <1>3, WithinType
    <2>2. QED
        BY <1>4, <2>1
<1>7. \A k \in 1 .. Len(observed) : VaultMaster(k) = observed[k].master
    <2>1. PICK all : all = VaultMasterHdWallets
        OBVIOUS
    <2>2. DOMAIN all = 1 .. Len(observed)
        BY <1>5, <1>6, <2>1
    <2>3. ASSUME NEW k \in 1 .. Len(observed) PROVE all[k] = observed[k].master
        <3>1. k \in 1 .. Len(own) + Len(observed) /\ ~(k <= Len(own)) /\ k - Len(own) = k
            BY <1>6
        <3>2. QED
            BY <1>5, <2>1, <3>1
    <2>4. QED
        BY <2>1, <2>2, <2>3 DEF VaultMaster
<1>8. \A j \in 1 .. Len(s) : s[j] \in S <=> s[j].master # NoKey
    BY <1>0, <1>1
<1>9. i \in 1 .. Len(s) /\ s[i] \in S
    BY <1>0, <1>8
<1>10. {j \in 1 .. i : s[j] \in S} = {j \in 1 .. i : s[j].master # NoKey}
    BY <1>8, <1>9
<1>11. PICK n : n = Cardinality({j \in 1 .. i : s[j] \in S})
    OBVIOUS
<1>12. n \in 1 .. Len(observed) /\ observed[n] = s[i]
    <2>1. \A k \in 1 .. Len(s) : s[k] \in S =>
              /\ Cardinality({j \in 1 .. k : s[j] \in S}) \in 1 .. Len(Within(s, S))
              /\ Within(s, S)[Cardinality({j \in 1 .. k : s[j] \in S})] = s[k]
        BY WithinCounts
    <2>2. QED
        BY <1>3, <1>9, <1>11, <2>1
<1>13. QED
    BY <1>0, <1>7, <1>10, <1>11, <1>12

-----------------------------------------------------------------------------
\* What the key manager derives agrees with what is stored, for any number of
\* keys, wallets and vaults and through any stops: between calls the cached
\* hashes and the seed are those of the files and of the network in use, no
\* wallet entered by hand is left out of the roots of the Bloom filter, and each
\* vault's master is at its place in the list of masters.
THEOREM DerivedIsStored == KeySpec => []DerivedFromStored
<1> DEFINE Inv == NonceInv /\ KeyInv /\ DerivedInv /\ StoredTypes
<1>1. KeyInit => Inv
    BY KeyInitInv, DerivedStarts, StoredStarts
<1>2. Inv /\ [KeyNext]_keyVars => Inv'
    <2>1. SUFFICES ASSUME Inv, [KeyNext]_keyVars PROVE Inv'
        OBVIOUS
    <2>2. KeyTypes /\ WriteSteps
        BY <2>1 DEF KeyInv
    <2>3. QED
        BY <2>1, <2>2, KeyStep, DerivedStep, StoredStep
<1>3. Inv => DerivedFromStored
    <2>1. SUFFICES ASSUME Inv PROVE DerivedFromStored
        OBVIOUS
    <2>2. KeyTypes /\ WriteSteps
        BY <2>1 DEF KeyInv
    <2>3. WalletDict(KnownHDWallets) /\ VaultList(Vaults)
        BY <2>1, LoadedTypes DEF KnownHDWallets, Vaults
    <2>4. DOMAIN KnownHDWallets \subseteq Uuids
        BY <2>3 DEF WalletDict
    <2>5. QED
        BY <2>1, <2>2, <2>3, <2>4, CountsAgree, ManualFound, MasterFound DEF DerivedFromStored
<1> HIDE DEF Inv
<1>4. QED
    BY <1>1, <1>2, <1>3, PTL DEF KeySpec

-----------------------------------------------------------------------------
(* HdWallets                                                               *)

\* A wallet that derives private keys has a valid one.
PrivWallets ==
    [version : {"priv"}, depth : Nat, parent : [pub : Nat], index : Nat, chain : Nat,
     key : 1 .. Order - 1]

\* Answers of the hash function, none of them with a left half of 0.
GoodAnswers(O) == \A q \in DOMAIN O : O[q].left \in 1 .. Order

HdTypes ==
    /\ signer \in PrivWallets
    /\ requested \in [index : Indices, open : BOOLEAN]
    /\ zeroHash \in BOOLEAN
    /\ \A q \in DOMAIN oracle : oracle[q].left \in 0 .. Order /\ oracle[q].right \in Nat

\* A derivation is asked for only while there is a watcher, and the answers that
\* both use contain no 0 unless zeroHash says so.
HdInv ==
    /\ HdTypes
    /\ requested.open => watcher # Null
    /\ zeroHash \/ GoodAnswers(oracle)
    /\ WatcherFollowsSigner

\* The minimum of a set of numbers that is not empty.
LEMMA MinIsLeast ==
    ASSUME NEW S, S \subseteq Nat, S # {}
    PROVE  Min(S) \in S /\ \A k \in S : Min(S) <= k
<1>1. \E m \in S : \A k \in S : m <= k
  BY LeastNatural
<1> QED  BY <1>1 DEF Min

\* The public part of a wallet is of version "pub" and has its key and chain code.
LEMMA PublicPart ==
    ASSUME NEW w \in PrivWallets
    PROVE  /\ PublicHdWallet(w) = [w EXCEPT !.version = "pub"]
           /\ PublicHdWallet(w).version = "pub" /\ PublicHdWallet(w).key = w.key
           /\ PublicHdWallet(w).chain = w.chain
           /\ w # Null /\ PublicHdWallet(w) # Null
<1>1. w.version = "priv" /\ w = [version |-> w.version, depth |-> w.depth, parent |-> w.parent,
                                 index |-> w.index, chain |-> w.chain, key |-> w.key]
  BY DEF PrivWallets
<1>2. PublicHdWallet(w) = [w EXCEPT !.version = "pub"]
  BY <1>1 DEF PublicHdWallet
<1>3. /\ PublicHdWallet(w).version = "pub" /\ PublicHdWallet(w).key = w.key
      /\ PublicHdWallet(w).chain = w.chain
  BY <1>2 DEF PrivWallets
<1>4. Null.version = "null"
  BY DEF Null
<1> QED  BY <1>1, <1>2, <1>3, <1>4

\* Below the hardened indices both hash the same and get the same key, if the
\* hash is not 0.
LEMMA SameHashSameKey ==
    ASSUME NEW w \in PrivWallets, NEW i \in Nat, i < Hardened
    PROVE  /\ Query(PublicHdWallet(w), i) = Query(w, i)
           /\ \A left \in 1 .. Order : ChildKey(PublicHdWallet(w), left) = ChildKey(w, left)
<1>0. Hardened \in Nat /\ Order \in Nat /\ Order > 1
  BY HdWalletsAssumption
<1>1. w.version = "priv" /\ w.key \in 1 .. Order - 1
  BY DEF PrivWallets
<1>2. PubKeyOf(w.key) = w.key
  BY <1>1 DEF PubKeyOf
<1>3. HashedKey(w, i) = PubKeyFromHdWallet(w)
  BY <1>0 DEF HashedKey
<1>4. HashedKey(PublicHdWallet(w), i) = PubKeyFromHdWallet(w)
  BY PublicPart DEF HashedKey, PubKeyFromHdWallet
<1>5. Query(PublicHdWallet(w), i) = Query(w, i)
  BY <1>3, <1>4, PublicPart DEF Query
<1>6. ASSUME NEW left \in 1 .. Order
      PROVE  ChildKey(PublicHdWallet(w), left) = ChildKey(w, left)
  <2>1. ChildKey(w, left) = AddToPrivKey(left, w.key)
    BY <1>1 DEF ChildKey
  <2>2. ChildKey(PublicHdWallet(w), left) = AddPubKeys(w.key, PubKeyOf(left))
    BY PublicPart DEF ChildKey
  <2>3. CASE left = Order
    <3>1. AddToPrivKey(left, w.key) = 0
      BY <2>3 DEF AddToPrivKey
    <3>2. PubKeyOf(left) = 0
      BY <1>0, <2>3 DEF PubKeyOf
    <3> QED  BY <2>1, <2>2, <3>1, <3>2 DEF AddPubKeys
  <2>4. CASE left # Order
    <3>1. left \in 1 .. Order - 1
      BY <1>0, <2>4
    <3>2. AddToPrivKey(left, w.key) = (left + w.key) % Order
      BY <2>4 DEF AddToPrivKey
    <3>3. PubKeyOf(left) = left /\ left # 0 /\ w.key # 0
      BY <1>1, <3>1 DEF PubKeyOf
    <3>4. AddPubKeys(w.key, PubKeyOf(left)) = (w.key + left) % Order
      BY <3>3 DEF AddPubKeys
    <3>5. left + w.key = w.key + left
      BY <1>1, <3>1
    <3> QED  BY <2>1, <2>2, <3>2, <3>4, <3>5
  <2> QED  BY <2>3, <2>4
<1> QED  BY <1>5, <1>6

\* There both stop at the same indices, and one that is no public key's stops
\* wherever the other does not because of a hardened index.
LEMMA SameStops ==
    ASSUME NEW w \in PrivWallets, NEW O, GoodAnswers(O), NEW i \in Nat, i < Hardened
    PROVE  StopsAt(PublicHdWallet(w), i, O) <=> StopsAt(w, i, O)
<1>0. Hardened \in Nat
  BY HdWalletsAssumption
<1>1. ~(i >= Hardened)
  BY <1>0
<1>2. Query(PublicHdWallet(w), i) = Query(w, i)
  BY SameHashSameKey
<1>3. CASE Query(w, i) \in DOMAIN O
  <2>1. O[Query(w, i)].left \in 1 .. Order
    BY <1>3 DEF GoodAnswers
  <2>2. ChildKey(PublicHdWallet(w), O[Query(w, i)].left) = ChildKey(w, O[Query(w, i)].left)
    BY <2>1, SameHashSameKey
  <2> QED  BY <1>1, <1>2, <1>3, <2>2 DEF StopsAt
<1>4. CASE Query(w, i) \notin DOMAIN O
  BY <1>2, <1>4 DEF StopsAt
<1> QED  BY <1>3, <1>4

\* A child, field by field.
LEMMA ChildFields ==
    ASSUME NEW v, NEW w,
           w \in [version : {v}, depth : Nat, parent : [pub : Nat], index : Nat, chain : Nat,
                 key : 1 .. Order - 1],
           NEW i, NEW hash, NEW s, s = Child(w, i, hash)
    PROVE  s = [version |-> v, depth |-> w.depth + 1, parent |-> PubKeyFromHdWallet(w),
                index |-> i, chain |-> hash.right, key |-> ChildKey(w, hash.left)]
  BY DEF Child

\* And the public wallet's child is the public part of the private one's.
LEMMA SameChild ==
    ASSUME NEW w \in PrivWallets, NEW i \in Nat, i < Hardened,
           NEW hash, hash.left \in 1 .. Order
    PROVE  /\ Child(w, i, hash).version = "priv"
           /\ Child(PublicHdWallet(w), i, hash) = PublicHdWallet(Child(w, i, hash))
<1>1. w.version = "priv" /\ w = [version |-> w.version, depth |-> w.depth, parent |-> w.parent,
                                 index |-> w.index, chain |-> w.chain, key |-> w.key]
  BY DEF PrivWallets
<1>2. ChildKey(PublicHdWallet(w), hash.left) = ChildKey(w, hash.left)
  BY SameHashSameKey
<1>3. PubKeyFromHdWallet(PublicHdWallet(w)) = PubKeyFromHdWallet(w)
  BY PublicPart DEF PubKeyFromHdWallet
<1>4. PICK p : p = PublicHdWallet(w)
  OBVIOUS
<1>5. p \in [version : {"pub"}, depth : Nat, parent : [pub : Nat], index : Nat, chain : Nat,
             key : 1 .. Order - 1] /\ p.depth = w.depth
  BY <1>1, <1>4, PublicPart DEF PrivWallets
<1>6. PICK s : s = Child(w, i, hash)
  OBVIOUS
<1>7. s = [version |-> "priv", depth |-> w.depth + 1, parent |-> PubKeyFromHdWallet(w),
           index |-> i, chain |-> hash.right, key |-> ChildKey(w, hash.left)]
  BY <1>6, ChildFields DEF PrivWallets
<1>8. PICK t : t = Child(p, i, hash)
  OBVIOUS
<1>9. t = [version |-> "pub", depth |-> p.depth + 1, parent |-> PubKeyFromHdWallet(p),
           index |-> i, chain |-> hash.right, key |-> ChildKey(p, hash.left)]
  BY <1>5, <1>8, ChildFields
<1>10. t = [version |-> "pub", depth |-> w.depth + 1, parent |-> PubKeyFromHdWallet(w),
            index |-> i, chain |-> hash.right, key |-> ChildKey(w, hash.left)]
  BY <1>2, <1>3, <1>4, <1>5, <1>9
<1>11. PublicHdWallet(s) = [s EXCEPT !.version = "pub"]
  BY <1>7 DEF PublicHdWallet
<1>12. PublicHdWallet(s) = t
  BY <1>7, <1>10, <1>11
<1> QED  BY <1>4, <1>6, <1>7, <1>8, <1>12

\* What a derivation returns: the child at the first index where it stops.
LEMMA DerivationStops ==
    ASSUME NEW w, w # Null, NEW i \in Indices, NEW O,
           ChildKeyDerivation(w, i, O).version # "bound"
    PROVE  \E n \in 0 .. MaxRetries :
              /\ StopsAt(w, Tried(i, n), O)
              /\ ChildKeyDerivation(w, i, O) = ChildAt(w, Tried(i, n), O)
              /\ \A k \in 0 .. MaxRetries : StopsAt(w, Tried(i, k), O) => n <= k
<1> DEFINE stops == {n \in 0 .. MaxRetries : StopsAt(w, Tried(i, n), O)}
<1>1. stops \subseteq Nat
  OBVIOUS
<1>2. stops # {}
  BY DEF ChildKeyDerivation
<1>3. ChildKeyDerivation(w, i, O) = ChildAt(w, Tried(i, Min(stops)), O)
  BY <1>2 DEF ChildKeyDerivation
<1> HIDE DEF stops
<1>4. Min(stops) \in stops /\ \A k \in stops : Min(stops) <= k
  BY <1>1, <1>2, MinIsLeast
<1> QED  BY <1>3, <1>4 DEF stops

\* The indices that are tried are below 2^32, and are not taken modulo that for
\* an index that is not hardened.
LEMMA TriedIndices ==
    ASSUME NEW i \in Indices, NEW n \in 0 .. MaxRetries
    PROVE  Tried(i, n) \in Nat /\ (i < Hardened => Tried(i, n) = i + n)
<1>0. Hardened \in Nat /\ Hardened > 0 /\ MaxRetries \in Nat /\ MaxRetries < Hardened
  BY HdWalletsAssumption
<1>1. PICK m \in Nat : m = 2 * Hardened /\ m > 0 /\ m > i /\ (i < Hardened => i + n < m)
  BY <1>0 DEF Indices
<1>2. i \in Nat /\ n \in Nat /\ i + n \in Nat
  BY <1>0 DEF Indices
<1>3. (i + n) % m \in Nat /\ (i + n < m => (i + n) % m = i + n)
  BY <1>1, <1>2
<1> QED  BY <1>1, <1>3 DEF Tried

\* From a wallet and its public part, the public part of the same child is
\* derived, or nothing where the path is hardened.
LEMMA DerivedTogether ==
    ASSUME NEW w \in PrivWallets, NEW O, GoodAnswers(O), NEW i \in Indices,
           NEW s, s = ChildKeyDerivation(w, i, O), s.version = "priv",
           NEW p, p = ChildKeyDerivation(PublicHdWallet(w), i, O), p.version \in {"pub", "null"}
    PROVE  p = PublicHdWallet(s) \/ (p = Null /\ (s.index >= Hardened \/ i >= Hardened))
<1>0. Hardened \in Nat /\ MaxRetries \in Nat /\ i \in Nat
  BY HdWalletsAssumption DEF Indices
<1>a. w # Null /\ PublicHdWallet(w) # Null /\ PublicHdWallet(w).version = "pub"
      /\ w.version = "priv"
  BY PublicPart DEF PrivWallets
<1>1. PICK n \in 0 .. MaxRetries :
          /\ StopsAt(PublicHdWallet(w), Tried(i, n), O)
          /\ p = ChildAt(PublicHdWallet(w), Tried(i, n), O)
          /\ \A k \in 0 .. MaxRetries : StopsAt(PublicHdWallet(w), Tried(i, k), O) => n <= k
  BY <1>a, DerivationStops
<1>2. PICK m \in 0 .. MaxRetries :
          /\ StopsAt(w, Tried(i, m), O)
          /\ s = ChildAt(w, Tried(i, m), O)
          /\ \A k \in 0 .. MaxRetries : StopsAt(w, Tried(i, k), O) => m <= k
  BY <1>a, DerivationStops
<1>3. n <= m
  <2>1. SUFFICES ASSUME m < n PROVE FALSE
    BY <1>0
  <2>2. ~StopsAt(PublicHdWallet(w), Tried(i, m), O)
    BY <1>0, <1>1, <2>1
  <2>3. Tried(i, m) \in Nat
    BY TriedIndices
  <2>4. Tried(i, m) < Hardened
    BY <1>0, <1>a, <2>2, <2>3 DEF StopsAt
  <2> QED  BY <1>2, <2>2, <2>3, <2>4, SameStops
<1>4. PICK j \in Nat : j = Tried(i, n)
  BY TriedIndices
<1>5. CASE j < Hardened
  <2>1. StopsAt(w, j, O)
    BY <1>1, <1>4, <1>5, SameStops
  <2>2. m = n
    BY <1>0, <1>2, <1>3, <1>4, <2>1
  <2>3. ~(j >= Hardened) /\ Query(PublicHdWallet(w), j) = Query(w, j)
    BY <1>0, <1>5, SameHashSameKey
  <2>4. s = ChildAt(w, j, O) /\ p = ChildAt(PublicHdWallet(w), j, O)
    BY <1>1, <1>2, <1>4, <2>2
  <2>5. Query(w, j) \in DOMAIN O
    <3>1. SUFFICES ASSUME Query(w, j) \notin DOMAIN O PROVE FALSE
      OBVIOUS
    <3>2. p.version = "ask"
      BY <2>3, <2>4, <3>1 DEF ChildAt
    <3> QED  BY <3>2
  <2>6. /\ s = Child(w, j, O[Query(w, j)])
        /\ p = Child(PublicHdWallet(w), j, O[Query(w, j)])
    BY <2>3, <2>4, <2>5 DEF ChildAt
  <2>7. O[Query(w, j)].left \in 1 .. Order
    BY <2>5 DEF GoodAnswers
  <2> QED  BY <1>5, <2>6, <2>7, SameChild
<1>6. CASE j >= Hardened
  <2>1. p = Null
    BY <1>1, <1>4, <1>6, <1>a DEF ChildAt
  <2>2. ASSUME i < Hardened PROVE s.index >= Hardened
    <3>1. Tried(i, n) = i + n /\ Tried(i, m) = i + m
      BY <2>2, TriedIndices
    <3>2. Tried(i, m) >= Hardened
      BY <1>0, <1>3, <1>4, <1>6, <3>1
    <3>3. s = Child(w, Tried(i, m), O[Query(w, Tried(i, m))])
      <4>1. s # [version |-> "ask", query |-> Query(w, Tried(i, m))]
        OBVIOUS
      <4> QED  BY <1>2, <1>a, <4>1 DEF ChildAt
    <3>4. s.index = Tried(i, m)
      BY <3>3 DEF Child, PrivWallets
    <3> QED  BY <3>2, <3>4
  <2> QED  BY <1>0, <2>1, <2>2
<1> QED  BY <1>0, <1>4, <1>5, <1>6

\* A private wallet that is derived has a valid key.
LEMMA DerivedIsValid ==
    ASSUME NEW w \in PrivWallets, NEW i \in Indices, NEW O,
           \A q \in DOMAIN O : O[q].left \in 0 .. Order /\ O[q].right \in Nat,
           NEW s, s = ChildKeyDerivation(w, i, O), s.version = "priv"
    PROVE  s \in PrivWallets
<1>0. Order \in Nat /\ Order > 1
  BY HdWalletsAssumption
<1>a. w # Null /\ w.version = "priv" /\ w.key \in 1 .. Order - 1 /\ w.depth \in Nat
  BY PublicPart DEF PrivWallets
<1>1. PICK n \in 0 .. MaxRetries :
          StopsAt(w, Tried(i, n), O) /\ s = ChildAt(w, Tried(i, n), O)
  BY <1>a, DerivationStops
<1>2. PICK j \in Nat : j = Tried(i, n)
  BY TriedIndices
<1>3. Query(w, j) \in DOMAIN O
  <2>1. SUFFICES ASSUME Query(w, j) \notin DOMAIN O PROVE FALSE
    OBVIOUS
  <2>2. s.version = "ask"
    BY <1>1, <1>2, <1>a, <2>1 DEF ChildAt
  <2> QED  BY <2>2
<1>4. PICK hash : hash = O[Query(w, j)]
  OBVIOUS
<1>5. s = Child(w, j, hash) /\ ChildKey(w, hash.left) # 0
  BY <1>1, <1>2, <1>3, <1>4, <1>a DEF ChildAt, StopsAt
<1>6. hash.left \in 0 .. Order /\ hash.right \in Nat
  BY <1>3, <1>4
<1>7. ChildKey(w, hash.left) \in 1 .. Order - 1
  <2>1. ChildKey(w, hash.left) = (hash.left + w.key) % Order
    BY <1>5, <1>a DEF ChildKey, AddToPrivKey
  <2>2. hash.left + w.key \in Nat
    BY <1>a, <1>6
  <2>3. (hash.left + w.key) % Order \in 0 .. Order - 1
    BY <1>0, <2>2
  <2> QED  BY <1>0, <1>5, <2>1, <2>3
<1>8. PubKeyFromHdWallet(w) \in [pub : Nat]
  BY <1>a DEF PubKeyFromHdWallet, PubKeyOf
<1>9. s = [version |-> "priv", depth |-> w.depth + 1, parent |-> PubKeyFromHdWallet(w),
           index |-> j, chain |-> hash.right, key |-> ChildKey(w, hash.left)]
  BY <1>5 DEF Child, PrivWallets
<1> QED  BY <1>2, <1>6, <1>7, <1>8, <1>9, <1>a DEF PrivWallets

\* Both begin with the root.
LEMMA HdStarts == HdInit => HdInv
<1> SUFFICES ASSUME HdInit PROVE HdInv
  OBVIOUS
<1>0. Order \in Nat /\ Order > 1 /\ Hardened \in Nat /\ Hardened > 0
  BY HdWalletsAssumption
<1>1. Root \in PrivWallets
  BY <1>0 DEF Root, PrivWallets
<1>2. signer = Root /\ watcher = PublicHdWallet(Root) /\ zeroHash = FALSE /\ oracle = <<>>
  BY DEF HdInit
<1>3. requested \in [index : Indices, open : BOOLEAN] /\ ~requested.open
  BY <1>0 DEF HdInit, Indices
<1>4. DOMAIN oracle = {}
  BY <1>2
<1>5. HdTypes /\ GoodAnswers(oracle)
  BY <1>1, <1>2, <1>3, <1>4 DEF HdTypes, GoodAnswers
<1>6. watcher # Null /\ watcher = PublicHdWallet(signer)
  BY <1>1, <1>2, PublicPart
<1>7. rotated.a = rotated.b
  BY DEF HdInit
<1> QED  BY <1>3, <1>5, <1>6, <1>7 DEF HdInv, WatcherFollowsSigner

\* Both derive the child of the requested index.
LEMMA DeriveKeeps == HdInv /\ Derive => HdInv'
<1> SUFFICES ASSUME HdInv, Derive PROVE HdInv'
  OBVIOUS
<1>1. PICK s : s = ChildKeyDerivation(signer, requested.index, oracle)
  OBVIOUS
<1>2. PICK w : w = ChildKeyDerivation(watcher, requested.index, oracle)
  OBVIOUS
<1>3. /\ requested.open /\ s.version = "priv" /\ w.version \in {"pub", "null"}
      /\ signer' = s /\ watcher' = w /\ oracle' = <<>>
      /\ requested' = [requested EXCEPT !.open = FALSE]
      /\ zeroHash' = zeroHash /\ rotated' = rotated
  BY <1>1, <1>2 DEF Derive
<1>4. /\ signer \in PrivWallets /\ requested.index \in Indices /\ watcher # Null
      /\ zeroHash \in BOOLEAN /\ requested \in [index : Indices, open : BOOLEAN]
      /\ \A q \in DOMAIN oracle : oracle[q].left \in 0 .. Order /\ oracle[q].right \in Nat
  BY <1>3 DEF HdInv, HdTypes
<1>5. s \in PrivWallets
  BY <1>1, <1>3, <1>4, DerivedIsValid
<1>6. /\ requested' \in [index : Indices, open : BOOLEAN]
      /\ ~requested'.open /\ requested'.index = requested.index
  BY <1>3, <1>4
<1>7. DOMAIN oracle' = {}
  BY <1>3
<1>8. HdTypes' /\ GoodAnswers(oracle')
  BY <1>3, <1>4, <1>5, <1>6, <1>7 DEF HdTypes, GoodAnswers
<1>9. ASSUME ~zeroHash
      PROVE  w = PublicHdWallet(s)
             \/ (w = Null /\ (s.index >= Hardened \/ requested.index >= Hardened))
  <2>1. GoodAnswers(oracle) /\ watcher = PublicHdWallet(signer)
    BY <1>4, <1>9 DEF HdInv, WatcherFollowsSigner
  <2> QED  BY <1>1, <1>2, <1>3, <1>4, <2>1, DerivedTogether
<1>10. PublicHdWallet(s) # Null
  BY <1>5, PublicPart
<1>11. rotated'.a = rotated'.b
  BY <1>3 DEF HdInv, WatcherFollowsSigner
<1>12. zeroHash' \/ watcher' \in {Null, PublicHdWallet(signer')}
  BY <1>3, <1>9
<1>13. watcher' = Null /\ ~zeroHash' => signer'.index >= Hardened \/ requested'.index >= Hardened
  BY <1>3, <1>6, <1>9, <1>10
<1>14. WatcherFollowsSigner'
  BY <1>11, <1>12, <1>13 DEF WatcherFollowsSigner, PublicHdWallet, Null
<1> QED  BY <1>6, <1>8, <1>14 DEF HdInv

\* A query is answered, with 0 too, which is noted.
LEMMA AnswerKeeps ==
    ASSUME HdInv, NEW left \in 0 .. Order, Answer(left)
    PROVE  HdInv'
<1>0. Order \in Nat
  BY HdWalletsAssumption
<1>1. PICK w \in {signer, watcher} :
          oracle' = [q \in DOMAIN oracle \cup {ChildKeyDerivation(w, requested.index, oracle).query} |->
                        IF q = ChildKeyDerivation(w, requested.index, oracle).query
                        THEN [left |-> left, right |-> signer.depth + 1] ELSE oracle[q]]
  BY DEF Answer
<1>2. PICK query : query = ChildKeyDerivation(w, requested.index, oracle).query
  OBVIOUS
<1>3. oracle' = [q \in DOMAIN oracle \cup {query} |->
                    IF q = query THEN [left |-> left, right |-> signer.depth + 1] ELSE oracle[q]]
  BY <1>1, <1>2
<1>4. /\ zeroHash' = (zeroHash \/ left = 0)
      /\ UNCHANGED <<signer, watcher, requested, rotated>>
  BY DEF Answer
<1>5. signer.depth + 1 \in Nat
  BY DEF HdInv, HdTypes, PrivWallets
<1>6. /\ DOMAIN oracle' = DOMAIN oracle \cup {query}
      /\ oracle'[query].left = left /\ oracle'[query].right \in Nat
      /\ \A q \in DOMAIN oracle : q # query => oracle'[q] = oracle[q]
  BY <1>3, <1>5
<1>7. HdTypes'
  BY <1>4, <1>6 DEF HdInv, HdTypes
<1>8. zeroHash' \/ GoodAnswers(oracle')
  <2>1. SUFFICES ASSUME ~zeroHash' PROVE GoodAnswers(oracle')
    OBVIOUS
  <2>2. ~zeroHash /\ left # 0
    BY <1>4, <2>1
  <2>3. GoodAnswers(oracle) /\ left \in 1 .. Order
    BY <1>0, <2>2 DEF HdInv
  <2> QED  BY <1>6, <2>3 DEF GoodAnswers
<1>9. requested'.open => watcher' # Null
  BY <1>4 DEF HdInv
<1>10. WatcherFollowsSigner'
  BY <1>4 DEF HdInv, WatcherFollowsSigner, PublicHdWallet, Null
<1> QED  BY <1>7, <1>8, <1>9, <1>10 DEF HdInv, Null

\* Both products are of the same two numbers.
LEMMA RotatedAlike ==
    ASSUME NEW a \in 1 .. Order - 1, NEW b \in 1 .. Order - 1, NEW tweak \in 1 .. Order - 1,
           NEW amount
    PROVE  EcdhKeyRotate(a, PubKeyOf(b), tweak, amount) = EcdhKeyRotate(b, PubKeyOf(a), tweak, amount)
<1>0. Order \in Nat /\ Order > 1
  BY HdWalletsAssumption
<1>1. PubKeyOf(a) = a /\ PubKeyOf(b) = b
  BY DEF PubKeyOf
<1>2. \A x, y \in Int : EcdhKey(x, y) = EcdhKey(y, x)
  <2>1. \A x, y \in Int : x * y = y * x
    OBVIOUS
  <2> QED  BY <2>1 DEF EcdhKey
<1>3. AddToPrivKey(tweak, a) \in Int /\ AddToPrivKey(tweak, b) \in Int
  BY <1>0 DEF AddToPrivKey
<1>4. a \in Int /\ b \in Int
  BY <1>0
<1>5. CASE amount = 0
  BY <1>1, <1>2, <1>4, <1>5 DEF EcdhKeyRotate
<1>6. CASE amount # 0
  <2>1. EcdhKey(AddToPrivKey(tweak, a), AddToPrivKey(tweak, b)) =
            EcdhKey(AddToPrivKey(tweak, b), AddToPrivKey(tweak, a))
    BY <1>2, <1>3
  <2> QED  BY <1>1, <1>6, <2>1 DEF EcdhKeyRotate
<1> QED  BY <1>5, <1>6

\* The other steps.
LEMMA HdStepKeeps == HdInv /\ [HdNext]_hdVars => HdInv'
<1> SUFFICES ASSUME HdInv, [HdNext]_hdVars PROVE HdInv'
  OBVIOUS
<1>1. ASSUME NEW i \in Indices, Request(i) PROVE HdInv'
  <2>1. /\ watcher # Null /\ requested' = [index |-> i, open |-> TRUE]
        /\ UNCHANGED <<signer, watcher, oracle, zeroHash, rotated>>
    BY <1>1 DEF Request
  <2>2. requested' \in [index : Indices, open : BOOLEAN]
    BY <2>1
  <2>3. HdTypes'
    BY <2>1, <2>2 DEF HdInv, HdTypes
  <2>4. WatcherFollowsSigner'
    BY <2>1 DEF HdInv, WatcherFollowsSigner, PublicHdWallet, Null
  <2> QED  BY <2>1, <2>3, <2>4 DEF HdInv, Null, GoodAnswers
<1>2. ASSUME NEW left \in 0 .. Order, Answer(left) PROVE HdInv'
  BY <1>2, AnswerKeeps
<1>3. CASE Derive
  BY <1>3, DeriveKeeps
<1>4. CASE Republish
  <2>1. /\ watcher' = PublicHdWallet(signer)
        /\ UNCHANGED <<signer, oracle, requested, zeroHash, rotated>>
    BY <1>4 DEF Republish
  <2>2. watcher' # Null
    BY <2>1, PublicPart DEF HdInv, HdTypes
  <2>3. HdTypes'
    BY <2>1 DEF HdInv, HdTypes
  <2>4. watcher' = PublicHdWallet(signer')
    BY <2>1
  <2>5. rotated'.a = rotated'.b
    BY <2>1 DEF HdInv, WatcherFollowsSigner
  <2>6. watcher' \in {Null, PublicHdWallet(signer')}
    BY <2>4
  <2>7. WatcherFollowsSigner'
    BY <2>2, <2>5, <2>6 DEF WatcherFollowsSigner, PublicHdWallet, Null
  <2>8. zeroHash' \/ GoodAnswers(oracle')
    BY <2>1 DEF HdInv, GoodAnswers
  <2> QED  BY <2>2, <2>3, <2>7, <2>8 DEF HdInv, Null
<1>5. ASSUME NEW a \in 1 .. Order - 1, NEW b \in 1 .. Order - 1,
             NEW tweak \in 1 .. Order - 1, NEW amount \in 0 .. 1, Rotate(a, b, tweak, amount)
      PROVE  HdInv'
  <2>1. /\ rotated' = [a |-> EcdhKeyRotate(a, PubKeyOf(b), tweak, amount),
                        b |-> EcdhKeyRotate(b, PubKeyOf(a), tweak, amount),
                        amount |-> amount, asked |-> TRUE]
        /\ UNCHANGED <<signer, watcher, oracle, requested, zeroHash>>
    BY <1>5 DEF Rotate
  <2>2. rotated'.a = rotated'.b
    BY <2>1, RotatedAlike
  <2>3. HdTypes'
    BY <2>1 DEF HdInv, HdTypes
  <2>4. WatcherFollowsSigner'
    BY <2>1, <2>2 DEF HdInv, WatcherFollowsSigner, PublicHdWallet, Null
  <2> QED  BY <2>1, <2>3, <2>4 DEF HdInv, Null, GoodAnswers
<1>6. CASE UNCHANGED hdVars
  BY <1>6 DEF hdVars, HdInv, HdTypes, GoodAnswers, WatcherFollowsSigner, PublicHdWallet, Null
<1> QED  BY <1>1, <1>2, <1>3, <1>4, <1>5, <1>6 DEF HdNext

\* A watcher derives the keys whose private parts the signer derives, or nothing
\* where the path is hardened, along paths of any length, for a curve of any
\* order and whatever the hash function answers but 0 (childKeyDerivation); and
\* a rotated secret is the same on both sides (ecdhKeyRotate).
THEOREM WatcherSeesSigner == HdInit /\ [][HdNext]_hdVars => []WatcherFollowsSigner
<1>1. HdInit => HdInv
  BY HdStarts
<1>2. HdInv /\ [HdNext]_hdVars => HdInv'
  BY HdStepKeeps
<1>3. HdInv => WatcherFollowsSigner
  BY DEF HdInv
<1> QED  BY <1>1, <1>2, <1>3, PTL
=============================================================================
