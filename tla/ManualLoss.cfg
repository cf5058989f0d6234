SPECIFICATION Spec
CONSTANTS
    Ids = {p1, p2}
    MaxStop = 0
    Pnls <- MCBigLoss
    Floats <- MCZero
    InitialBalance = 10
    MaxOwnerOpens = 0
    OwnerMovesStops = FALSE
    MaxDay = 1
    ClockSkew = FALSE
    InitConfigs <- MCLiveOne
    RiskConfigs <- MCNone
    FlipBounds <- MCBounds
    MaxFaults = 0
    MaxCrashes = 0
    LateOrders = FALSE
    EnvConfirmed <- MCTrue
    Requests <- MCClose
    MaxRequests = 1
SYMMETRY MCSymmetry
PROPERTIES
    NoEntryAfterDailyLoss
