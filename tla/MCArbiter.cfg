\* two calls of the referee at once, failing queries and appends, a restart
CONSTANTS
    r1 = r1
    r2 = r2
    ann = ann
    bob = bob
    None = None
    Ref <- Two
    Agent <- Both
    Roster = {ann}
    Delta <- Points
    MinRounds = 1
    MaxRefCalls = 3
    MaxRound = 2
    MaxRestarts = 1
SPECIFICATION Spec
INVARIANTS BoardCoversChronicle OnlyOverlappingVerdicts
PROPERTIES CallsEnd
CHECK_DEADLOCK FALSE
