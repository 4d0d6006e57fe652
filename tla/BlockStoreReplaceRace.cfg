SPECIFICATION Spec
CONSTANTS
    Hashes <- ForkHashes
    Genesis = 0
    Prev <- ForkPrev
    Prefix <- ForkPrefix
    Depth <- ForkDepth
    Checkpoints = {}
    Invalid = {}
    Adders = {main, db}
    Readers = {}
    Resetters = {}
    CacheSize = 3
    NoHash = NoHash
PROPERTIES
    SmallerReplacesLarger
