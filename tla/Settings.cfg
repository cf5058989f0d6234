SPECIFICATION Spec
CONSTANTS
    Ids = {p1, p2}
    MaxStop = 1
    Pnls <- MCSwing
    Floats <- MCZero
    InitialBalance = 10
    MaxOwnerOpens = 0
    OwnerMovesStops = TRUE
    MaxDay = 1
    ClockSkew = FALSE
    InitConfigs <- MCFlipStarts
    RiskConfigs <- MCOneOrTwo
    FlipBounds <- MCNearOrFar
    MaxFaults = 1
    MaxCrashes = 1
    LateOrders = FALSE
    EnvConfirmed <- MCTrue
    Requests <- MCControls
    MaxRequests = 1
SYMMETRY MCSymmetry
INVARIANTS
    RowStopNotAhead
PROPERTIES
    EntryWithinCap
    FlatFlipEntryInBounds
CHECK_DEADLOCK FALSE
