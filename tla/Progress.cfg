SPECIFICATION FairSpec
CONSTANTS
    Ids = {p1, p2}
    MaxStop = 0
    Pnls <- MCBigLoss
    Floats <- MCZero
    InitialBalance = 10
    MaxOwnerOpens = 0
    OwnerMovesStops = FALSE
    MaxDay = 2
    ClockSkew = TRUE
    InitConfigs <- MCLiveOne
    RiskConfigs <- MCNone
    FlipBounds <- MCBounds
    MaxFaults = 1
    MaxCrashes = 1
    LateOrders = FALSE
    EnvConfirmed <- MCTrue
    Requests <- MCClose
    MaxRequests = 1
PROPERTIES
    ClosedPositionReconciled
    BotPositionTracked
    ManagesForever
CHECK_DEADLOCK FALSE
