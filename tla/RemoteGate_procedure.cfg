SPECIFICATION Spec
CONSTANTS
    r1 = r1
    r2 = r2
    p1 = p1
    p2 = p2
    Roles = {r1, r2}
    Paths = {p1, p2}
    NoPath = none
    NoOperation = null
    MaxRuns = 4
    MaxFaults = 2
    Careless = FALSE
INVARIANTS TypeOK ExecutedOnce CleanupComplete
CHECK_DEADLOCK FALSE
