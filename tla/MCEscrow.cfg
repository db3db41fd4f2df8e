\* restarts, failed appends and doubled calls
CONSTANTS
    ann = ann
    bob = bob
    judge = judge
    a1 = a1
    a2 = a2
    b1 = b1
    r1 = r1
    r2 = r2
    Players = {ann, bob}
    Referee = judge
    Slots = {a1, a2, b1, r1, r2}
    Owner <- Owners
    Payloads = {1, 2}
    Numbers = {1}
    Rulesets = {"majority"}
    Tie = Tie
    Error = Error
    None = None
    MaxRestarts = 1
    MaxFaults = 1
    MaxCalls = 4
SPECIFICATION Spec
INVARIANTS MemoryCoversChronicle
PROPERTIES AckedMovesCount ImplementsBox
SYMMETRY Doubles
CHECK_DEADLOCK FALSE
