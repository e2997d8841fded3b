SPECIFICATION Spec
CONSTANTS
    Roles = {builder, reviewer}
    NoRole = NoRole
    MaxRuns = 3
    MaxFaults = 2
    PollAttempts = 2
SYMMETRY Symmetry
INVARIANTS CreatedOnce RunNeverSubstituted GoneBeforeItsWorkspace
