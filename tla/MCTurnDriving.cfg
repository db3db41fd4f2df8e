\* three participants, a referee play waits on, fair scheduling
CONSTANTS
    a = a
    b = b
    c = c
    InitOrder <- Order3
    Referee = Referee
    NoOne = NoOne
    Nobody = Nobody
    Everyone = Everyone
    Driving = TRUE
    RetireAfter = 2
    MinRounds = 1
    MaxRounds = 2
    MaxInbox = 1
    MaxElims = 2
    Faults = FALSE
    Repeats = FALSE
SPECIFICATION FairSpec
INVARIANTS TypeOK GateFollowsFloor
PROPERTIES ImplementsFloor RotationProgresses
CHECK_DEADLOCK FALSE
