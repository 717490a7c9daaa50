SPECIFICATION FairSpec
CONSTANTS
    MaxRound = 3
    MaxTraffic = 3
    MaxAttempts = 3
    ReconcileRounds = 1
    MinBytes = 2
    MaxLag = 1
    SnapshotMayFail = TRUE
    RejectionMayLie = FALSE
INVARIANTS
    TypeOK
    RowsAreTrue
PROPERTIES
    NeverResubmitsInDoubt
    LostAnswersAreFound
