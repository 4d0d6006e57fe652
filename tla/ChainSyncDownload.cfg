SPECIFICATION FairSpec
CONSTANTS
    Ptrs = {p1, p2, p3}
    NoNode = NoNode
    NodeCount = 2
    MaxHeight = 5
    FirstTip = 5
    Matches <- SmallMatches
    Wanted <- Matched
    WalletHeight = 2
    Margin = 1
    BatchSize = 2
    HeadersSize = 2
    Milestone = 2
    MinCount = 1
    MaxFailRate = 95
    RejectLimit = 11
    Reuse = FALSE
    MaxQueue = 2
    Limit <- None
INVARIANT DownloadedOrUnderWay
PROPERTY AllStored
