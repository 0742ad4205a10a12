SPECIFICATION FairSpec
CONSTANTS
    r1 = r1
    Runs = {r1}
    Backfills = {}
    Window = {}
    Papers = {1, 2, 3, 4}
    UpdatedAt <- MinutesOfFour
    Malformed = {1}
    Revisable = {2}
    PageSize = 2
    Limit = 3
    MaxAttempts = 2
    MaxFaults = 1
INVARIANT TypeOK
INVARIANT CheckpointIsBacked
PROPERTY EventuallyTraced
PROPERTY LifecycleSpec
