\* hand after hand, every move of players and dealer, a hole card, two rows per tick, failing mentions
CONSTANTS
    p = p
    q = q
    r = r
    Dealer = dealer
    Seating <- Circle
    card1 = card1
    card2 = card2
    None = None
    Refused = Refused
    Decl <- Declaration
    TableCalls <- TableTalk
    MaxFresh = 2
    Faults = TRUE
SPECIFICATION TableSpec
INVARIANTS ActorCanMove ParkedMeansClosed WakesArrive FreshSecretsHidden
CHECK_DEADLOCK FALSE
