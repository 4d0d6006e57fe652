SPECIFICATION FairSpec
CONSTANTS
    Ptrs = {p1, p2}
    NoNode = NoNode
    NodeCount = 2
    MaxHeight = 3
    FirstTip = 3
    Matches <- FirstMatches
    Wanted <- FirstWanted
    WalletHeight = 0
    Margin = 0
    BatchSize = 2
    HeadersSize = 2
    Milestone = 2
    MinCount = 1
    MaxFailRate = 95
    RejectLimit = 11
    Reuse = FALSE
    MaxQueue = 1
    Limit <- DropRestart
 
PROPERTY Synchronises
