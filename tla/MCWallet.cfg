SPECIFICATION Spec
CONSTANTS
    Keys = {k1, k2}
    Wallets = {w1}
    Names = {n1}
    Uuids = {1, 2}
    NoKey = NoKey
    MaxKeyFile = 2
    MaxOps = 3
    MaxCrashes = 1
    KeyCalls = {"NextNonce", "SetKeyName", "SetHDWalletForUUID", "SetPrivKeyHashForDevice", "AddMultisig", "RemoveMultisig", "AddVault", "RemoveVault", "SetHashes", "Import", "Add", "VaultMaster", "SetTestnet"}
    PeerPackets <- MCPeer
    SendCap = 3
    ReadMax = 3
    BacklogMax = 5
    PacketsPerProcess = 2
    MaxSends = 1
    Blocks = {1, 2, 3, 4}
    MaxPools = 2
    MaxEmptied = 1
    DictKeys = {1, 2, 3, 4}
    DictValues = {5, 6}
    NoValue = 0
    DatasInputs <- MCDatas
    StringInputs <- MCStrings
    NumberInputs <- MCNumbers
    PushInputs <- MCPushes
    ScriptInputs <- MCScriptNums
    HashInputs <- MCHashes
    EntropyInputs <- MCEntropy
    TxInputs <- MCTxs
    MessageInputs <- MCMessages
    Compress <- MCCompress
    DigestByte <- MCDigestByte
    Cipher <- MCCipher
    InvCipher <- MCInvCipher
    Checksum <- MCChecksum
    Order = 5
    Hardened = 2
    MaxDepth = 2
    MaxRetries = 1
    PubNodes = {p1, p2, p3, p4}
    PubTxs = {t1, t2}
    LegacyTxs = {t1}
    SweepTxs = {t2}
    MaxCalls = 2
    PeerIps = {"d1", "d2"}
    DefaultPeers <- MCDefaultPeers
    FewNodes = 1
    NodeStorage = 2
    MaxNodeIds = 2
    MaxRestarts = 1
    TableTxs = {a1}
    MaxHeight = 3
    BlockIds = {1, 2}
    MaxTime = 3
    PublishTime = 1
    LocatorRun = 1
    MaxTxs = 7
    FlagByte = 8
    MaxDamage = 1
    WorldTxs <- MCWorld
    Chains = {"deposit", "change"}
    ScanAhead = 3
    BloomAhead = 3
    MaxIndex = 5
    MaxWaiting = 1
    Histories <- MCHistories
    Amounts = {1, 2, 3}
    MaxEvents = 3
    DustLimit = 1
    Fundings <- MCFundings
    WalletScripts <- MCWalletScripts
    SignItems <- MCSignItems
    CoSigners = {"a", "b", "c", "m"}
    MaxSignCalls = 4
    Elements = {1, 2, 3, 4, 5}
    Estimates = {1, 4, 9}
    Murmur <- MCMurmur
    SizeFor <- MCSizeFor
    HashesFor <- MCHashesFor
    Seed = 11
    Tweak = 0
    MaxBytes = 3
    MaxHashes = 4
    WordSize = 16
    Clients = {c1, c2}
    RequestPieces = 2
    MaxBacklog = 2
    MaxPieces = 3
    EventNames = {e1, e2}
    Listeners = {l1}
    NoteThreads = {u1, u2}
    NoThread = NoThread
    MaxFired = 3
    MaxListeners = 2
    Xpubs = {"x", "y"}
    VaultName = "v"
    Commands <- MCCommands
    DefaultAhead = 2
    MaxRuns = 3
INVARIANTS
    NoncesUnique AckedKeysSurvive DerivedFromStored
     HandledInOrder SocketsAccounted
     CodesRoundTrip WatcherFollowsSigner  CachedPeersKnown
    ConfirmationKept LocatorFillsGap MatchesFound  
    FinalizedIsAccepted NothingMissed ClientsAccounted ReturnedNamesWereHeard 
PROPERTIES
    DictionaryIsMap
CHECK_DEADLOCK FALSE
