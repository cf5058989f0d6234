SPECIFICATION Spec
CONSTANTS
    Ids = {p1}
    MaxStop = 0
    Pnls <- MCLoss
    Floats <- MCZero
    InitialBalance = 10
    MaxOwnerOpens = 0
    OwnerMovesStops = FALSE
    MaxDay = 1
    ClockSkew = FALSE
    InitConfigs <- MCPractice
    RiskConfigs <- MCNone
    FlipBounds <- MCBounds
    MaxFaults = 0
    MaxCrashes = 1
    LateOrders = FALSE
    EnvConfirmed <- MCEither
    Requests <- MCLive
    MaxRequests = 1
SYMMETRY MCSymmetry
PROPERTIES
    LiveOrderIsConfirmed
