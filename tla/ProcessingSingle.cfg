SPECIFICATION FairSpec
CONSTANTS
    r1 = r1
    p1 = p1
    Runs = {r1}
    Papers = {p1}
    MaxAttempts = 3
    MaxChunks = 2
    MaxFaults = 3
INVARIANT TypeOK
INVARIANT MarkedIsCurrent
PROPERTY SettledIsFrozen
PROPERTY LifecycleSpec
PROPERTY EventuallySettled
