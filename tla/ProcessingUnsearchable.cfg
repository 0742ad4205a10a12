SPECIFICATION Spec
CONSTANTS
    r1 = r1
    p1 = p1
    Runs = {r1}
    Papers = {p1}
    MaxAttempts = 2
    MaxChunks = 2
    MaxFaults = 0
INVARIANT IndexedIsSearchable
