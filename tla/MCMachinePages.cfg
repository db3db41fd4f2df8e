\* a player pages through a log with rows it may not see; calls queue behind failures and lost calls
CONSTANTS
    a = a
    b = b
    judge = judge
    w1 = w1
    w2 = w2
    h1 = h1
    None = None
    Refused = Refused
    Decl <- Duel
    Writers <- Pair
    Readers <- Guest
    Calls <- Mixed
    Players <- Both
    Rounds <- OneRound
    PageLimit = 1
    MaxRows = 2
    MaxReads = 2
    MaxFails = 1
    Restarts = 1
    Cancels = TRUE
SPECIFICATION FairSpec
INVARIANTS PagingSkipsNothing
PROPERTIES CallsAnswered
CHECK_DEADLOCK FALSE
