\* two writers and a cold reader, a failed append and a restart
CONSTANTS
    a = a
    b = b
    judge = judge
    w1 = w1
    w2 = w2
    h1 = h1
    None = None
    Refused = Refused
    Decl <- Duel
    Writers <- Pair
    Readers <- Guest
    Calls <- Race
    Players <- Both
    Rounds <- OneRound
    PageLimit = 1
    MaxRows = 3
    MaxReads = 1
    MaxFails = 1
    Restarts = 1
    Cancels = FALSE
SPECIFICATION Spec
INVARIANTS LiveFollowsLog LogReplays
PROPERTY ImplementsSerial
CHECK_DEADLOCK FALSE
