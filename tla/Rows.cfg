SPECIFICATION Spec
CONSTANTS
    Ids = {p1, p2}
    MaxStop = 0
    Pnls <- MCLoss
    Floats <- MCZero
    InitialBalance = 10
    MaxOwnerOpens = 1
    OwnerMovesStops = FALSE
    MaxDay = 1
    ClockSkew = FALSE
    InitConfigs <- MCFlipOrNot
    RiskConfigs <- MCNone
    FlipBounds <- MCBounds
    MaxFaults = 1
    MaxCrashes = 1
    LateOrders = TRUE
    EnvConfirmed <- MCTrue
    Requests <- MCDesk
    MaxRequests = 2
SYMMETRY MCSymmetry
INVARIANTS
    TypeOK
    ClosedRowMeansClosedPosition
    OneOpenRow
    OutcomeHasOneRow
    BookedIsFinal
PROPERTIES
    EntryWithinCap
    FlipEndStrandsNothingKnown
CHECK_DEADLOCK FALSE
