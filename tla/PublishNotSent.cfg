INIT PublishInit
NEXT PublishNext
CONSTANTS
    PubNodes = {p1, p2, p3, p4}
    PubTxs = {t1, t2}
    LegacyTxs = {t1}
    SweepTxs = {t2}
    MaxCalls = 2
INVARIANTS
    PublishedIsSent
CHECK_DEADLOCK FALSE
