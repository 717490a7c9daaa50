SPECIFICATION Spec
CONSTANTS
    MaxRound = 4
    MaxTraffic = 5
    MaxAttempts = 2
    ReconcileRounds = 2
    MinBytes = 2
    MaxLag = 0
    SnapshotMayFail = FALSE
    RejectionMayLie = TRUE
INVARIANTS
    AtMostOneMarker
    NoByteClaimedTwice
    CarriedBytesAreClaimed
