\* two agents, private rooms and requests, an await that raises, fair scheduling
CONSTANTS
    ann = ann
    bob = bob
    fetch = fetch
    gone = gone
    barred = barred
    s1 = s1
    s2 = s2
    None = None
    System = System
    Stranger = Stranger
    RefereeId = None
    NoQuota = NoQuota
    RunCode = RunCode
    Agent <- Two
    Messaging <- BothWrite
    DmQuota <- Allowance
    MaxSends = 2
    MaxPosts = 1
    MaxRounds = 1
    MaxFaults = 1
    Slot <- Slots
    Caller <- AnnTwice
    Tool <- Tools
    Grants <- AnnGrants
    Installed = {fetch, barred}
    QuotaOf <- Quotas
    QuotaBy <- Singled
    HasContainer = {ann}
    MaxRequests = 3
    MaxActs = 2
SPECIFICATION Spec
INVARIANTS AllowanceHeld BridgedOnce QuotaWithinOverlap
PROPERTIES GatesReopen RequestsAnswered
CHECK_DEADLOCK FALSE
