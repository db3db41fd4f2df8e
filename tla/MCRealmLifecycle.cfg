\* two runs of one realm id, failing calls, a crash
CONSTANTS
    player = player
    judge = judge
    Roster <- Pair
    Referee = judge
    Policy <- Policies
    Cap = 1
    TickErrors = 2
    MaxStarts = 2
    MaxFaults = 2
    MaxCrashes = 1
SPECIFICATION FairSpec
INVARIANTS TypeOK RollbackComplete ArchivedIsClean NeverOvercharged
PROPERTIES StopEndsRun EmptyRealmEnds ShutdownEnds
CHECK_DEADLOCK FALSE
