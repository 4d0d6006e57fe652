SPECIFICATION Spec
CONSTANTS
    Hashes <- TreeHashes
    Genesis = 0
    Prev <- TreePrev
    Prefix <- OwnPrefix
    Depth <- TreeDepth
    Checkpoints = {6}
    Invalid = {7}
    Adders = {main, db}
    Readers = {main}
    Resetters = {main}
    CacheSize = 2
    NoHash = NoHash
INVARIANTS
    TypeOK
    HeightIsDepth
    StoredBlocksFound
