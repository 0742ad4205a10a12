SPECIFICATION Spec
CONSTANTS
    r1 = r1
    b1 = b1
    Runs = {r1, b1}
    Backfills = {b1}
    Window = {1, 2}
    Papers = {1, 2, 3, 4}
    UpdatedAt <- MinutesOfFour
    Malformed = {}
    Revisable = {}
    PageSize = 2
    Limit = 3
    MaxAttempts = 1
    MaxFaults = 1
INVARIANT NothingSkipped
PROPERTY CheckpointNeverRewinds
