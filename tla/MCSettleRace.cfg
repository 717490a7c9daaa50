SPECIFICATION Spec
CONSTANTS
    h1 = h1
    h2 = h2
    h3 = h3
    p1 = p1
    p2 = p2
    MarkMode = "enforce"
    Handlers <- TwoHandlers
    Participants <- OneParticipant
    Transient <- Locks
    MaxSubmissions = 2
    DbMayFail = FALSE
    ValidationMayRefuse = FALSE
    ConfirmMayFail = FALSE
PROPERTIES
    RelayRefusalIsTrue
