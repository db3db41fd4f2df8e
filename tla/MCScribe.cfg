\* two sessions of one scenario, two requests at once
CONSTANTS
    x = x
    y = y
    r1 = r1
    r2 = r2
    None = None
    Session <- Sessions
    Request <- Requests
    MaxSteps = 1
    MaxNudges = 1
    MaxCalls = 2
    KeepTail = 2
    Limit = 4
    MaxWrites = 2
SPECIFICATION Spec
INVARIANTS AskedWellFormed
PROPERTIES NoVersionLost
SYMMETRY Doubles
CHECK_DEADLOCK FALSE
