SPECIFICATION FairSpec
CONSTANTS
    h1 = h1
    h2 = h2
    h3 = h3
    p1 = p1
    p2 = p2
    MarkMode = "enforce"
    Handlers <- OneHandler
    Participants <- OneParticipant
    Transient <- AnyReason
    MaxSubmissions = 3
    DbMayFail = FALSE
    ValidationMayRefuse = TRUE
    ConfirmMayFail = TRUE
INVARIANTS
    DoubtIsMarked
PROPERTIES
    RelayRefusalIsTrue
    Recovers
