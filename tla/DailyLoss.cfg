SPECIFICATION Spec
CONSTANTS
    Ids = {p1, p2}
    MaxStop = 0
    Pnls <- MCLossOrGain
    Floats <- MCZero
    InitialBalance = 10
    MaxOwnerOpens = 0
    OwnerMovesStops = FALSE
    MaxDay = 2
    ClockSkew = FALSE
    InitConfigs <- MCLiveTwo
    RiskConfigs <- MCNone
    FlipBounds <- MCBounds
    MaxFaults = 1
    MaxCrashes = 1
    LateOrders = FALSE
    EnvConfirmed <- MCTrue
    Requests <- MCPollClose
    MaxRequests = 1
SYMMETRY MCSymmetry
INVARIANTS
    NothingBookedTwice
PROPERTIES
    HaltIsLatched
    NoEntryPastLimit
    ImplementsTradeBook
CHECK_DEADLOCK FALSE
