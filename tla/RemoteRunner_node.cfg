SPECIFICATION Spec
CONSTANTS
    a1 = a1
    Assignments = {a1}
    Earlier = a2
    a2 = a2
    NoAssignment = none
    MaxPending = 3
    MaxInputs = 1
    MaxPiStarts = 2
    MaxFaults = 1
INVARIANTS TypeOK SubmittedOnce DeliveredIsDurable TakeoverCarried
PROPERTIES ServedAgain
CHECK_DEADLOCK FALSE
