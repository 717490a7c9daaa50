SPECIFICATION MCSpec
CONSTANTS
    MaxDepth = 8
    Precision = 2
    MaxNodes = 7
    MaxRoots = 2
    Now = 10
    TimingSkew = 2
    LetGrace = 1
    Namespace <- NamespaceOf
    Strangers = {"stranger", "registrar-user", "operator"}
    MaxEdits <- EditsOf
    Twice = {"amulet-accept", "registry-accept", "registry-preapproval",
             "batcher", "cancel", "withdrawal"}
    Intents = {"amulet-transfer", "amulet-transfer-provider",
               "registry-transfer", "registry-offer", "registry-merge",
               "amulet-accept", "registry-accept", "registry-preapproval",
               "amulet-preapproval", "batcher", "allocation",
               "allocation-empty", "fund", "orders", "cancel", "withdrawal"}
    p = p
    q = q
    here = here
    there = there
    call1 = call1
    call2 = call2
    asset = asset
    asset2 = asset2
    pay1 = pay1
    pay2 = pay2
    NoRow = NoRow
INVARIANTS
    HonestIsSigned
    OnlyTheIntentRuns
    SignedTermsAreExecuted
    NobodyElseIsNamed
    CreatedHoldingsAreTheCallers
    AllocationBudgets
    WasteIsOnesOwn
    ServedIsLive
    OutageSpendsNothing
    PaysOnceButForLostAnswers
PROPERTIES
    BansAreEarned
    RoutedByEvidence
\* the clocks are bounded, and the components come to rest
CHECK_DEADLOCK FALSE
