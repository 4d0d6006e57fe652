------------------------------ MODULE KeyStore ------------------------------
(***************************************************************************)
(* The key manager (KeyManager.c) and the key-value storage below it       *)
(* (BasicStorage.c).                                                       *)
(*                                                                         *)
(* One thread (the user's) calls the operations that change something; a   *)
(* second one (the Bloom filter checkup of the node manager) reads wallets *)
(* and so fills the caches.  Every save rewrites the whole storage file in *)
(* place, a private key is written into a file of its own, and the program *)
(* may stop at any point, in the middle of a write included.               *)
(*                                                                         *)
(* Data is abstract: a private key, an hdWallet, a name and a uuid are     *)
(* elements of constant sets, and hash functions are injective, so that a  *)
(* key stands for its hash.  Serialisation is modelled where the code      *)
(* depends on it: a serialised dictionary never equals an hdWallet.        *)
(***************************************************************************)
EXTENDS Integers, Sequences, FiniteSets, Subsequences

CONSTANTS
    Keys,        \* private keys
    Wallets,     \* hdWallet data of other devices
    Names,       \* names of keys, multisigs and vaults
    Uuids,       \* identifiers of devices, numbers: dictionaries are in their order
    NoKey,       \* the empty Data: a missing, cut or unset value
    MaxKeyFile,  \* bound: the highest index of a key file
    MaxOps,      \* bound: the number of calls of the user's thread
    MaxCrashes,  \* bound: how often the program stops
    KeyCalls     \* the calls the user's thread makes in an instance

ASSUME KeyStoreAssumption ==
    /\ MaxKeyFile \in Nat /\ MaxOps \in Nat /\ MaxCrashes \in Nat
    /\ Uuids \subseteq Nat
    /\ NoKey \notin Keys \cup Wallets \cup Names \cup Nat

\* What is kept of another device's wallet, and that it is not that wallet.
WalletEntries == [data : Wallets, type : {"KoinKeep", "Manual"}]

ASSUME KeyStoreDataAssumption == IsFiniteSet(Uuids) /\ Wallets \cap WalletEntries = {}

VARIABLES
    bsFile,      \* the storage file: item -> value, NoKey when absent or cut
    bsSaving,    \* <<content>> while a save writes the file, <<>> otherwise
    keyFile,     \* network -> index -> the private key in that file, or NoKey
    keyWriting,  \* <<[net, index, key]>> while a key file is written
    kmTestnet,   \* self->testnet
    kmHashCache, \* self->privKeyHashCache
    kmMainSeed,  \* self->mainSeed: <<>> or <<[net, key]>> it was made from
    kmMasterCache, \* self->vaultMasterHdWalletCache: key -> network
    kmPrefix,    \* self->noncePrefix
    ui,          \* where the user's thread is: [pc, key, index, then]
    reader,      \* where the reading thread is: [pc, net, result]
    entropy,     \* how much entropy has been drawn
    nonces,      \* every nonce KMNextNonce returned, in order, over all runs
    acked,       \* network -> the keys whose addition returned to the caller
    swapSeen,    \* the reading thread has read a key file a swap was writing
    kmOps, kmCrashes

keyVars == <<bsFile, bsSaving, keyFile, keyWriting, kmTestnet, kmHashCache,
             kmMainSeed, kmMasterCache, kmPrefix, ui, reader, entropy, nonces,
             acked, swapSeen, kmOps, kmCrashes>>

Nets == {"main", "test"}
KeyIndex == 0 .. MaxKeyFile

-----------------------------------------------------------------------------
(* The storage file.                                                       *)

\* The items in the order in which the file holds them: a dictionary is kept
\* sorted by the bytes of its keys, and saveEverything writes it in order.
ItemOrder == <<"KeyNameDict", "KeyNameDictTestNet", "knownHDWalletsKey",
               "knownHDWalletsKeyMainNet", "multisigObjectsKey",
               "multisigObjectsKeyTestNet", "nonceCounter", "noncePrefix",
               "privKeyHashForDeviceKey", "sortHashesKey",
               "sortHashesKeyTestNet", "vaultObjectsKey",
               "vaultObjectsKeyTestNet">>

Items == {ItemOrder[i] : i \in DOMAIN ItemOrder}

\* Mutant: the file is written in the opposite order.
ReadSuffix(content, n) ==
    [item \in Items |-> IF \E i \in n + 1 .. Len(ItemOrder) : ItemOrder[i] = item
                        THEN content[item] ELSE NoKey]

\* What loadEverything finds of a file whose writing stopped before the value
\* of the item at position n was complete: the items before it.  The item
\* itself is read with an empty value, or not at all when its key is cut.
ReadPrefix(content, n) ==
    [item \in Items |-> IF \E i \in 1 .. n - 1 : ItemOrder[i] = item
                        THEN content[item] ELSE NoKey]

\* Every content a save that was cut off can leave in the file.
TornFiles(content) == {ReadPrefix(content, n) : n \in 1 .. Len(ItemOrder) + 1}

BsUnlocked == bsSaving = <<>>

bsLoad(item) == bsFile[item]

\* basicStorageSave: load everything, replace one item, open the file for
\* writing (which empties it) and begin to write.
BsSaveBegin(item, value) ==
    /\ BsUnlocked
    /\ bsSaving' = <<[bsFile EXCEPT ![item] = value]>>
    /\ bsFile' = [i \in Items |-> NoKey]

\* The file is closed and the mutex given up.
BsSaveEnd ==
    /\ bsSaving # <<>>
    /\ bsFile' = bsSaving[1]
    /\ bsSaving' = <<>>

-----------------------------------------------------------------------------
(* Reading keys.                                                           *)

\* KMPrivKeyAtIndex: a file that is missing or holds fewer than 32 bytes
\* yields the empty Data.
PrivKeyAtIndex(net, i) == IF i \in KeyIndex THEN keyFile[net][i] ELSE NoKey

\* KMAllPrivKeys: the keys up to the first index without one.
PrivKeyCount(net) ==
    CHOOSE n \in 0 .. MaxKeyFile + 1 :
        /\ \A i \in 0 .. n - 1 : PrivKeyAtIndex(net, i) # NoKey
        /\ PrivKeyAtIndex(net, n) = NoKey

AllPrivKeys(net) == [i \in 1 .. PrivKeyCount(net) |-> PrivKeyAtIndex(net, i - 1)]

\* KMAllPrivKeyHashes for the user's thread: the cache, unless it is empty.
AllPrivKeyHashes ==
    IF kmHashCache # <<>> THEN kmHashCache ELSE AllPrivKeys(kmTestnet)

HashMutexFree == reader.pc # "hashes" /\ ui.pc # "addWrite"
SeedMutexFree == reader.pc # "seed"

-----------------------------------------------------------------------------
(* The user's thread.                                                      *)

UiIdle == [pc |-> "idle", key |-> NoKey, index |-> 0, then |-> "return"]

\* A call may be made while the thread is idle and the bound is not reached.
Call(name) ==
    /\ ui.pc = "idle" /\ name \in KeyCalls
    /\ kmOps < MaxOps
    /\ kmOps' = kmOps + 1

\* KMInit: load the prefix of the nonces, or draw one and save it.
InitLoad ==
    /\ ui.pc = "init" /\ BsUnlocked
    /\ IF bsLoad("noncePrefix") # NoKey
       THEN /\ kmPrefix' = bsLoad("noncePrefix")
            /\ ui' = UiIdle
            /\ UNCHANGED <<bsFile, bsSaving, entropy>>
       ELSE /\ entropy' = entropy + 1
            /\ kmPrefix' = entropy'
            /\ BsSaveBegin("noncePrefix", entropy')
            /\ ui' = [UiIdle EXCEPT !.pc = "save"]
    /\ UNCHANGED <<keyFile, keyWriting, kmTestnet, kmHashCache, kmMainSeed,
                   kmMasterCache, reader, nonces, acked, swapSeen,
                   kmOps, kmCrashes>>

NonceCounter == IF bsLoad("nonceCounter") = NoKey THEN 0 ELSE bsLoad("nonceCounter")

\* KMNextNonce: the nonce is returned once the next counter is on file.
NextNonce ==
    /\ Call("NextNonce")
    /\ BsSaveBegin("nonceCounter", NonceCounter + 1)
    /\ ui' = [UiIdle EXCEPT !.pc = "save", !.then = "nonce", !.index = NonceCounter]
    /\ UNCHANGED <<keyFile, keyWriting, kmTestnet, kmHashCache, kmMainSeed,
                   kmMasterCache, kmPrefix, reader, entropy, nonces, acked,
                   swapSeen, kmCrashes>>

\* A call that loads one item, changes it and saves it.
SaveItem(item, value) ==
    /\ BsSaveBegin(item, value)
    /\ ui' = [UiIdle EXCEPT !.pc = "save"]
    /\ UNCHANGED <<keyFile, keyWriting, kmTestnet, kmHashCache, kmMainSeed,
                   kmMasterCache, kmPrefix, reader, entropy, nonces, acked,
                   swapSeen, kmCrashes>>

\* The save ends and the call returns; KMNextNonce returns its nonce.
SaveReturns ==
    /\ ui.pc = "save"
    /\ BsSaveEnd
    /\ nonces' = IF ui.then = "nonce"
                 THEN Append(nonces, <<kmPrefix, ui.index>>) ELSE nonces
    /\ ui' = UiIdle
    /\ UNCHANGED <<keyFile, keyWriting, kmTestnet, kmHashCache, kmMainSeed,
                   kmMasterCache, kmPrefix, reader, entropy, acked, swapSeen,
                   kmOps, kmCrashes>>

Item(main, test) == IF kmTestnet = "test" THEN test ELSE main
KeyNameItem == Item("KeyNameDict", "KeyNameDictTestNet")
WalletsItem == Item("knownHDWalletsKeyMainNet", "knownHDWalletsKey")
MultisigItem == Item("multisigObjectsKey", "multisigObjectsKeyTestNet")
VaultItem == Item("vaultObjectsKey", "vaultObjectsKeyTestNet")
SortItem == Item("sortHashesKey", "sortHashesKeyTestNet")

\* DictDeserialize and DatasDeserialize of an item that may be empty.
DictOf(v) == IF v = NoKey THEN <<>> ELSE v
DictWith(d, k, v) == [x \in DOMAIN d \cup {k} |-> IF x = k THEN v ELSE d[x]]
DictWithout(d, k) == [x \in DOMAIN d \ {k} |-> d[x]]
DictValue(d, k) == IF k \in DOMAIN d THEN d[k] ELSE NoKey
WithoutIndex(s, i) == IF i \in DOMAIN s
                      THEN SubSeq(s, 1, i - 1) \o SubSeq(s, i + 1, Len(s))
                      ELSE s

\* KMSetKeyName: an empty name removes the entry.
SetKeyName(i, name) ==
    /\ Call("SetKeyName")
    /\ LET dict == DictOf(bsLoad(KeyNameItem))
       IN  SaveItem(KeyNameItem, IF name = NoKey THEN DictWithout(dict, i)
                                 ELSE DictWith(dict, i, name))

\* KMSetHDWalletForUUID: the value kept is a serialised dictionary.
SetHDWalletForUUID(wallet, uuid, type) ==
    /\ Call("SetHDWalletForUUID")
    /\ LET dict == DictOf(bsLoad(WalletsItem))
       IN  SaveItem(WalletsItem,
                    IF wallet = NoKey THEN DictWithout(dict, uuid)
                    ELSE DictWith(dict, uuid, [data |-> wallet, type |-> type]))

\* KMSetPrivKeyHashForDevice.
SetPrivKeyHashForDevice(hash, uuid) ==
    /\ Call("SetPrivKeyHashForDevice")
    /\ SaveItem("privKeyHashForDeviceKey",
                DictWith(DictOf(bsLoad("privKeyHashForDeviceKey")), uuid, hash))

\* KMAddMultisig and KMRemoveMultisig.
AddMultisig(wallets, name) ==
    /\ Call("AddMultisig")
    /\ SaveItem(MultisigItem, Append(DictOf(bsLoad(MultisigItem)),
                                     [name |-> name, wallets |-> wallets]))

RemoveMultisig(i) ==
    /\ Call("RemoveMultisig")
    /\ SaveItem(MultisigItem, WithoutIndex(DictOf(bsLoad(MultisigItem)), i))

\* KMAddVault, KMAddVaultObserver (with a master) and KMRemoveVault.
AddVaultObserver(master, wallets, name) ==
    /\ Call("AddVault")
    /\ SaveItem(VaultItem, Append(DictOf(bsLoad(VaultItem)),
                   [name |-> name, wallets |-> wallets, master |-> master]))

AddVault(wallets, name) == AddVaultObserver(NoKey, wallets, name)

RemoveVault(i) ==
    /\ Call("RemoveVault")
    /\ SaveItem(VaultItem, WithoutIndex(DictOf(bsLoad(VaultItem)), i))

\* KMSetSortHashes, and KMSetHiddenHashes, which saves under the same item.
SetSortHashes(hashes) == Call("SetHashes") /\ SaveItem(SortItem, hashes)
SetHiddenHashes(hashes) == Call("SetHashes") /\ SaveItem(SortItem, hashes)

-----------------------------------------------------------------------------
(* Adding and importing private keys.                                      *)

\* fopen for writing empties the file; it holds the key once it is closed.
KeyWriteBegin(net, i, key) ==
    /\ keyWriting = <<>>
    /\ keyWriting' = <<[net |-> net, index |-> i, key |-> key]>>
    /\ keyFile' = [keyFile EXCEPT ![net][i] = NoKey]

KeyWriteEnd ==
    /\ keyWriting # <<>>
    /\ LET w == keyWriting[1]
       IN  keyFile' = [keyFile EXCEPT ![w.net][w.index] = w.key]
    /\ keyWriting' = <<>>

keyRest == <<bsFile, bsSaving, kmMasterCache, kmPrefix, reader, entropy, nonces,
             swapSeen, kmCrashes>>

\* KMAddPrivKey (then = "return") or KMImportMasterPrivKey (then = "swap"):
\* the index is the number of known keys, found before the mutex is taken.
AddIndex(key, then) ==
    /\ Call(IF then = "swap" THEN "Import" ELSE "Add")
    /\ HashMutexFree
    /\ Len(AllPrivKeyHashes) \in KeyIndex
    /\ kmHashCache' = AllPrivKeyHashes
    /\ ui' = [pc |-> "add", key |-> key, index |-> Len(AllPrivKeyHashes), then |-> then]
    /\ UNCHANGED <<keyFile, keyWriting, kmTestnet, kmMainSeed, acked>>
    /\ UNCHANGED keyRest

\* The cache is emptied and the file written with the mutex held.
AddWrite ==
    /\ ui.pc = "add" /\ HashMutexFree
    /\ kmHashCache' = <<>>
    /\ KeyWriteBegin(kmTestnet, ui.index, ui.key)
    /\ ui' = [ui EXCEPT !.pc = "addWrite"]
    /\ UNCHANGED <<kmTestnet, kmMainSeed, acked, kmOps>>
    /\ UNCHANGED keyRest

Acknowledge(key) == acked' = [acked EXCEPT ![kmTestnet] = @ \cup {key}]

AddReturns ==
    /\ ui.pc = "addWrite"
    /\ KeyWriteEnd
    /\ IF ui.then = "return"
       THEN Acknowledge(ui.key) /\ ui' = UiIdle
       ELSE ui' = [ui EXCEPT !.pc = "swap"] /\ UNCHANGED acked
    /\ UNCHANGED <<kmTestnet, kmHashCache, kmMainSeed, kmOps>>
    /\ UNCHANGED keyRest

\* Mutant: the new key is put in its place first.
SwapNewFirst == <<0, ui.index>>

\* KMSwapPrivKey(0, index) writes the key of index 0 to the new index first.
SwapOrder == <<ui.index, 0>>

\* Both keys are read; nothing is done when one is missing or they coincide.
SwapFirst ==
    /\ ui.pc = "swap"
    /\ LET a == PrivKeyAtIndex(kmTestnet, 0)
           b == PrivKeyAtIndex(kmTestnet, ui.index)
       IN  IF a = NoKey \/ b = NoKey \/ ui.index = 0
           THEN /\ Acknowledge(ui.key)
                /\ ui' = UiIdle
                /\ UNCHANGED <<keyFile, keyWriting>>
           ELSE /\ KeyWriteBegin(kmTestnet, SwapOrder[1], IF SwapOrder[1] = 0 THEN b ELSE a)
                /\ ui' = [ui EXCEPT !.pc = "swapFirst",
                                    !.key = IF SwapOrder[1] = 0 THEN a ELSE b]
                /\ UNCHANGED acked
    /\ UNCHANGED <<kmTestnet, kmHashCache, kmMainSeed, kmOps>>
    /\ UNCHANGED keyRest

SwapFirstDone ==
    /\ ui.pc = "swapFirst"
    /\ KeyWriteEnd
    /\ ui' = [ui EXCEPT !.pc = "swapSecond"]
    /\ UNCHANGED <<kmTestnet, kmHashCache, kmMainSeed, acked, kmOps>>
    /\ UNCHANGED keyRest

SwapSecond ==
    /\ ui.pc = "swapSecond"
    /\ KeyWriteBegin(kmTestnet, SwapOrder[2], ui.key)
    /\ ui' = [ui EXCEPT !.pc = "swapEnd"]
    /\ UNCHANGED <<kmTestnet, kmHashCache, kmMainSeed, acked, kmOps>>
    /\ UNCHANGED keyRest

SwapReturns ==
    /\ ui.pc = "swapEnd"
    /\ KeyWriteEnd
    /\ Acknowledge(ui.key)
    /\ ui' = UiIdle
    /\ UNCHANGED <<kmTestnet, kmHashCache, kmMainSeed, kmOps>>
    /\ UNCHANGED keyRest

\* KMVaultMasterHdWalletAtIndex: the wallet is made for the network in use
\* and kept under the private key alone.
VaultMasterHdWalletAtIndex(i) ==
    /\ Call("VaultMaster")
    /\ LET key == PrivKeyAtIndex(kmTestnet, i)
       IN  kmMasterCache' = IF key \in DOMAIN kmMasterCache THEN kmMasterCache
                            ELSE DictWith(kmMasterCache, key, kmTestnet)
    /\ UNCHANGED <<bsFile, bsSaving, keyFile, keyWriting, kmTestnet, kmHashCache,
                   kmMainSeed, kmPrefix, ui, reader, entropy, nonces, acked,
                   swapSeen, kmCrashes>>

-----------------------------------------------------------------------------
(* Changing the network: the flag first, then each cache under its mutex.  *)

netRest == <<bsFile, bsSaving, keyFile, keyWriting, kmMasterCache, kmPrefix,
             reader, entropy, nonces, acked, swapSeen, kmCrashes>>

SetTestnet(net) ==
    /\ Call("SetTestnet")
    /\ kmTestnet' = net
    /\ ui' = [UiIdle EXCEPT !.pc = "netSeed"]
    /\ UNCHANGED <<kmHashCache, kmMainSeed>>
    /\ UNCHANGED netRest

\* Mutant: the seed is kept.
ResetNoSeed == UNCHANGED kmMainSeed

ResetSeed == kmMainSeed' = <<>>

SetTestnetSeed ==
    /\ ui.pc = "netSeed" /\ SeedMutexFree
    /\ ResetSeed
    /\ ui' = [ui EXCEPT !.pc = "netHashes"]
    /\ UNCHANGED <<kmTestnet, kmHashCache, kmOps>>
    /\ UNCHANGED netRest

SetTestnetHashes ==
    /\ ui.pc = "netHashes" /\ HashMutexFree
    /\ kmHashCache' = <<>>
    /\ ui' = UiIdle
    /\ UNCHANGED <<kmTestnet, kmMainSeed, kmOps>>
    /\ UNCHANGED netRest

-----------------------------------------------------------------------------
(* The reading thread.                                                     *)

ReaderIdle == [pc |-> "idle", net |-> "main", result |-> <<>>]

readRest == <<bsFile, bsSaving, keyFile, keyWriting, kmTestnet, kmMasterCache,
              kmPrefix, ui, entropy, nonces, acked, kmOps, kmCrashes>>

\* KMHdWalletIndex(0) with no seed yet: the mutex is taken and the name of
\* the key file is made from the network in use ...
HdWalletIndex ==
    /\ reader.pc = "idle" /\ ui.pc # "init" /\ BsUnlocked
    /\ DictValue(DictOf(bsLoad(KeyNameItem)), 0) # NoKey
    /\ kmMainSeed = <<>>
    /\ reader' = [ReaderIdle EXCEPT !.pc = "seed", !.net = kmTestnet]
    /\ UNCHANGED <<kmHashCache, kmMainSeed, swapSeen>>
    /\ UNCHANGED readRest

\* ... and what the file holds by then becomes the seed, an empty key too.
HdWalletIndexSeed ==
    /\ reader.pc = "seed"
    /\ kmMainSeed' = <<[net |-> reader.net, key |-> PrivKeyAtIndex(reader.net, 0)]>>
    /\ reader' = ReaderIdle
    /\ UNCHANGED <<kmHashCache, swapSeen>>
    /\ UNCHANGED readRest

\* KMAllPrivKeyHashes, called for the vaults, with an empty cache: the key
\* files are read one by one, each of the network in use at that moment.
ReadHashes ==
    /\ reader.pc = "idle" /\ ui.pc # "init"
    /\ HashMutexFree /\ kmHashCache = <<>>
    /\ reader' = [ReaderIdle EXCEPT !.pc = "hashes"]
    /\ UNCHANGED <<kmHashCache, kmMainSeed, swapSeen>>
    /\ UNCHANGED readRest

ReadHashesNext ==
    /\ reader.pc = "hashes"
    /\ LET key == PrivKeyAtIndex(kmTestnet, Len(reader.result))
       IN  IF key # NoKey
           THEN /\ reader' = [reader EXCEPT !.result = Append(@, key)]
                /\ UNCHANGED kmHashCache
           ELSE /\ kmHashCache' = reader.result
                /\ reader' = ReaderIdle
    /\ swapSeen' = (swapSeen \/ ui.pc \in {"swapFirst", "swapEnd"})
    /\ UNCHANGED kmMainSeed
    /\ UNCHANGED readRest

-----------------------------------------------------------------------------
\* The program stops, at any point, and is started again on what the files
\* hold: a storage file that was being written is cut somewhere, a key file
\* that was being written counts as empty unless it was complete.
Crash ==
    /\ kmCrashes < MaxCrashes
    /\ kmCrashes' = kmCrashes + 1
    /\ IF bsSaving = <<>> THEN bsFile' = bsFile
                          ELSE bsFile' \in TornFiles(bsSaving[1])
    /\ bsSaving' = <<>>
    /\ IF keyWriting = <<>>
       THEN keyFile' = keyFile
       ELSE LET w == keyWriting[1]
            IN  \/ keyFile' = keyFile
                \/ keyFile' = [keyFile EXCEPT ![w.net][w.index] = w.key]
    /\ keyWriting' = <<>>
    /\ kmTestnet' = "main" /\ kmHashCache' = <<>> /\ kmMainSeed' = <<>>
    /\ kmMasterCache' = <<>> /\ kmPrefix' = 0
    /\ ui' = [UiIdle EXCEPT !.pc = "init"]
    /\ reader' = ReaderIdle
    /\ UNCHANGED <<entropy, nonces, acked, swapSeen, kmOps>>

KeyInit ==
    /\ bsFile = [item \in Items |-> NoKey] /\ bsSaving = <<>>
    /\ keyFile = [net \in Nets |-> [i \in KeyIndex |-> NoKey]]
    /\ keyWriting = <<>>
    /\ kmTestnet = "main" /\ kmHashCache = <<>> /\ kmMainSeed = <<>>
    /\ kmMasterCache = <<>> /\ kmPrefix = 0
    /\ ui = [UiIdle EXCEPT !.pc = "init"]
    /\ reader = ReaderIdle
    /\ entropy = 0 /\ nonces = <<>>
    /\ acked = [net \in Nets |-> {}] /\ swapSeen = FALSE
    /\ kmOps = 0 /\ kmCrashes = 0

UiCall ==
    \/ NextNonce
    \/ \E i \in 0 .. 1, name \in Names \cup {NoKey} : SetKeyName(i, name)
    \/ \E w \in Wallets \cup {NoKey}, u \in Uuids, t \in {"KoinKeep", "Manual"} :
           SetHDWalletForUUID(w, u, t)
    \/ \E k \in Keys, u \in Uuids : SetPrivKeyHashForDevice(k, u)
    \/ \E w \in Wallets, n \in Names : AddMultisig({w}, n)
    \/ \E w \in Wallets, n \in Names : AddVault({w}, n)
    \/ \E mw \in Wallets, w \in Wallets, n \in Names : AddVaultObserver(mw, {w}, n)
    \/ \E i \in 1 .. 2 : RemoveMultisig(i) \/ RemoveVault(i)
    \/ \E k \in Keys : SetSortHashes(<<k>>) \/ SetHiddenHashes(<<k>>)
    \/ \E k \in Keys, then \in {"return", "swap"} : AddIndex(k, then)
    \/ VaultMasterHdWalletAtIndex(0)
    \/ \E net \in Nets : SetTestnet(net)

UiStep ==
    \/ InitLoad \/ SaveReturns
    \/ AddWrite \/ AddReturns
    \/ SwapFirst \/ SwapFirstDone \/ SwapSecond \/ SwapReturns
    \/ SetTestnetSeed \/ SetTestnetHashes

ReaderStep == HdWalletIndex \/ HdWalletIndexSeed \/ ReadHashes \/ ReadHashesNext

KeyNext == UiCall \/ UiStep \/ ReaderStep \/ Crash

KeySpec == KeyInit /\ [][KeyNext]_keyVars

-----------------------------------------------------------------------------
(* What the wallets and the vaults are, as the readers compute them.       *)

\* KMNamedKeyCount: names up to the first index without one.
NamedKeys == {i \in 0 .. 1 : \A j \in 0 .. i :
                  DictValue(DictOf(bsLoad(KeyNameItem)), j) # NoKey}

KnownHDWallets == DictOf(bsLoad(WalletsItem))

\* The entry of a dictionary that i elements of the set of keys precede.
EntryAt(keys, i) == {u \in keys : Cardinality({x \in keys : x < u}) = i}

\* KMHdWalletForManualWallets(index): at most one wallet.
HdWalletForManualWallets(i) ==
    LET manual == {u \in DOMAIN KnownHDWallets : KnownHDWallets[u].type = "Manual"}
    IN  {KnownHDWallets[u].data : u \in EntryAt(manual, i)}

\* KMAllHdWalletPubRoots: the named keys of this device up to the first gap,
\* then the manual wallets up to the first index without one.
AllHdWalletPubRoots ==
    [own |-> NamedKeys,
     manual |-> UNION {HdWalletForManualWallets(i) :
                    i \in {n \in 0 .. Cardinality(Uuids) :
                              \A k \in 0 .. n : HdWalletForManualWallets(k) # {}}}]

\* KMUuidFromHDWallet compares the serialised entry with the wallet.
UuidsFromHDWallet(wallet) ==
    {u \in DOMAIN KnownHDWallets : KnownHDWallets[u] = wallet}

\* The positions, in the list of key hashes, of the keys behind the wallets
\* of a vault.
OwnKeyIndices(vault) ==
    {i \in DOMAIN AllPrivKeyHashes :
        \E w \in vault.wallets : \E u \in UuidsFromHDWallet(w) :
            DictValue(DictOf(bsLoad("privKeyHashForDeviceKey")), u) = AllPrivKeyHashes[i]}

Vaults == DictOf(bsLoad(VaultItem))

\* KMVaultMasterHdWallets: the masters of own keys in a first pass over the
\* vaults, those of observers in a second.
VaultMasterHdWallets ==
    LET all == {Vaults[i] : i \in DOMAIN Vaults}
        own == Within(Vaults, {v \in all : OwnKeyIndices(v) # {}})
        observed == Within(Vaults, {v \in all : v.master # NoKey})
    IN  [i \in 1 .. Len(own) + Len(observed) |->
            IF i <= Len(own)
            THEN CHOOSE j \in OwnKeyIndices(own[i]) :
                     \A n \in OwnKeyIndices(own[i]) : j <= n
            ELSE observed[i - Len(own)].master]

\* DatasAt(KMVaultMasterHdWallets, i), which KMVaultAllHdWallets and
\* KMVaultScriptDerivation use for the vault with index i.
VaultMaster(i) == IF i \in DOMAIN VaultMasterHdWallets
                  THEN VaultMasterHdWallets[i] ELSE NoKey

-----------------------------------------------------------------------------
(* Properties.                                                             *)

\* KMNextNonce never returns the same nonce twice, whatever saves are cut off
\* by the program stopping: the counter comes before the prefix in the file,
\* so a file that lost the counter has lost the prefix too.
NoncesUnique ==
    \A i, j \in DOMAIN nonces : nonces[i] = nonces[j] => i = j

\* A key whose addition or import returned is held by a key file for ever:
\* neither a later import nor a stop in the middle of one loses it.  The one
\* exception is a list of hashes read while an import was writing: KMSwapPrivKey
\* does not take the mutex of the list, which is then cached too short.
AckedKeysSurvive ==
    ~swapSeen => \A net \in Nets : \A key \in acked[net] :
        \E i \in KeyIndex : keyFile[net][i] = key

\* What the key manager derives agrees with what is stored.  Between calls of
\* the user's thread the cached hashes are those of as many keys as there are
\* files of the network in use (KMAddPrivKey takes the index of the new key
\* from them), and the seed is of that network; every wallet the user entered
\* by hand is among the roots from which the Bloom filter is made, whatever
\* else is known and in whatever order it was added and removed; and the list
\* of vault masters has the master of a vault at the place that counts only the
\* vaults with one (a vault's own index finds it only if all before it have one).
DerivedFromStored ==
    /\ (ui.pc = "idle" /\ ~swapSeen) =>
           /\ kmHashCache # <<>> => Len(kmHashCache) = PrivKeyCount(kmTestnet)
           /\ \A s \in 1 .. Len(kmMainSeed) : kmMainSeed[s].net = kmTestnet
    /\ BsUnlocked => \A u \in DOMAIN KnownHDWallets :
           KnownHDWallets[u].type = "Manual" =>
               KnownHDWallets[u].data \in AllHdWalletPubRoots.manual
    /\ BsUnlocked => \A i \in DOMAIN Vaults :
           Vaults[i].master # NoKey =>
               VaultMaster(Cardinality({j \in 1 .. i : Vaults[j].master # NoKey}))
                   = Vaults[i].master
=============================================================================
