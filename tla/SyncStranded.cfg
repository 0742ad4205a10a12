SPECIFICATION Spec
CONSTANTS
    r1 = r1
    Runs = {r1}
    Backfills = {}
    Window = {}
    Papers = {1, 2, 3, 4}
    UpdatedAt <- MinutesOfFour
    Malformed = {}
    Revisable = {}
    PageSize = 2
    Limit = 3
    MaxAttempts = 2
    MaxFaults = 0
INVARIANT PassedIsSettled
