SPECIFICATION FairSpec
CONSTANTS
    f1 = f1
    f2 = f2
    f3 = f3
    d1 = d1
    Nobody = Nobody
    Feeds = {f1, f2, f3}
    Downloads = {d1}
    Interval = 2
    MaxAttempts = 2
    BaseDelay = 1
    MaxDelay = 1
INVARIANT TypeOK
INVARIANT LockIsSound
PROPERTY PacedRequests
PROPERTY EveryCallEnds
