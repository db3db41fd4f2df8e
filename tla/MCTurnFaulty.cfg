\* any await of the host may raise, and the referee may repeat itself
CONSTANTS
    a = a
    b = b
    c = c
    InitOrder <- Order2
    Referee = Referee
    NoOne = NoOne
    Nobody = Nobody
    Everyone = Everyone
    Driving = FALSE
    RetireAfter = 2
    MinRounds = 1
    MaxRounds = 2
    MaxInbox = 1
    MaxElims = 2
    Faults = TRUE
    Repeats = TRUE
SPECIFICATION Spec
INVARIANTS CuedVerdictStands
CHECK_DEADLOCK FALSE
PROPERTIES NoSecondTurn
