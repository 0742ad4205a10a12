SPECIFICATION Spec
CONSTANTS
    r1 = r1
    r2 = r2
    p1 = p1
    Runs = {r1, r2}
    Papers = {p1}
    MaxAttempts = 2
    MaxChunks = 2
    MaxFaults = 1
INVARIANT MarkedIsSearchable
INVARIANT RowsOfOnePass
INVARIANT StoredIsSettled
INVARIANT FailedIsLettered
INVARIANT BudgetOverspend
