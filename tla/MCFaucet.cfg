SPECIFICATION FairSpec
CONSTANTS
    Parties = {p1, p2, p3}
    Requests = {h1, h2}
    DailyBudget = 1
    LifetimeCap = 2
    Window = 1
    StarterRetries = 1
    MaxTime = 1
    MaxSends = 2
    StoreMayFail = TRUE
INVARIANTS
    TypeOK
    WindowBudget
    FaucetHolds
PROPERTIES
    GrantsAreKept
    ChainMoves
