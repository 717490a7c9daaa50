SPECIFICATION Spec
CONSTANTS
    MaxRound = 4
    MaxTraffic = 5
    MaxAttempts = 3
    ReconcileRounds = 2
    MinBytes = 2
    MaxLag = 0
    SnapshotMayFail = TRUE
    RejectionMayLie = FALSE
INVARIANT
    NoByteClaimedTwice
