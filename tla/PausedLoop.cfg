SPECIFICATION FairSpec
CONSTANTS
    Ids = {p1}
    MaxStop = 0
    Pnls <- MCLoss
    Floats <- MCZero
    InitialBalance = 10
    MaxOwnerOpens = 0
    OwnerMovesStops = FALSE
    MaxDay = 1
    ClockSkew = FALSE
    InitConfigs <- MCLiveOne
    RiskConfigs <- MCNone
    FlipBounds <- MCBounds
    MaxFaults = 0
    MaxCrashes = 0
    LateOrders = FALSE
    EnvConfirmed <- MCTrue
    Requests <- MCPause
    MaxRequests = 1
PROPERTIES
    PausedStillManaged
