SPECIFICATION Spec
CONSTANTS
    h1 = h1
    h2 = h2
    p1 = p1
    p2 = p2
    MarkMode = "observe"
    Handlers <- TwoHandlers
    Participants <- OneParticipant
    Transient <- NoReason
    MaxSubmissions = 1
    DbMayFail = TRUE
    ValidationMayRefuse = FALSE
    ConfirmMayFail = TRUE
INVARIANT
    SuccessIsPaid
PROPERTY
    ObserveIsOff
