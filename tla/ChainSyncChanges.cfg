SPECIFICATION Spec
CONSTANTS
    Ptrs = {p1, p2}
    NoNode = NoNode
    NodeCount = 1
    MaxHeight = 2
    FirstTip = 1
    Matches <- FirstMatches
    Wanted = {}
    WalletHeight = 0
    Margin = 0
    BatchSize = 1
    HeadersSize = 2
    Milestone = 2
    MinCount = 1
    MaxFailRate = 95
    RejectLimit = 3
    Reuse = FALSE
    MaxQueue = 1
    Limit <- Changes
INVARIANT TypeOK
 
SYMMETRY SymmetricPtrs
CHECK_DEADLOCK FALSE
