\* a realm of the server, and a reaper
CONSTANTS
    n1 = n1
    project = project
    ada = ada
    bob = bob
    plain = plain
    game = game
    size = size
    who = who
    blank = blank
    low = low
    high = high
    r1 = r1
    r2 = r2
    azure = azure
    plan = plan
    None = None
    Unset = Unset
    NaN = NaN
    Name = {n1}
    Version = {plain, game}
    File <- Files
    Manifest = project
    Agent = {ada, bob}
    Holds <- Held
    Shipped <- Bundled
    Sound <- Accepted
    Text <- Values
    Empty = blank
    Number <- Reads
    Truths = {}
    Says <- Texts
    Supplied <- Some
    Provider = {azure, plan}
    Default = azure
    PlugIn = {plan}
    Seed <- Seeds
    Profile <- Profiles
    Realm <- Realms
    Capacity = 1
    Consents <- Agreed
    Overrides <- Asked
    MaxLaunches = 3
    MaxAsked = 3
    MaxCrashes = 1
SPECIFICATION Spec
INVARIANTS LiveRealmsSpared
CHECK_DEADLOCK FALSE
