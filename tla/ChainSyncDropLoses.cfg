SPECIFICATION Spec
CONSTANTS
    Ptrs = {p1, p2, p3}
    NoNode = NoNode
    NodeCount = 2
    MaxHeight = 4
    FirstTip = 4
    Matches <- SmallMatches
    Wanted <- Matched
    WalletHeight = 0
    Margin = 0
    BatchSize = 2
    HeadersSize = 2
    Milestone = 2
    MinCount = 1
    MaxFailRate = 95
    RejectLimit = 3
    Reuse = FALSE
    MaxQueue = 2
    Limit <- Drop
INVARIANT UpToDate
SYMMETRY SymmetricPtrs
