SPECIFICATION Spec
CONSTANTS
    StopAtr = 3
    BreakevenAtr = 2
    TrailTriggerAtr = 4
    TrailAtr = 3
    RewardRisk = 2
    Window = 3
    Bars <- MCBars
    BarViews <- MCViews
    Hists <- MCHists
    MaxBars = 3
    Capital = 30
    HalfSpread = 1
    Contract = 1
    Volumes <- MCVolumes
    RiskPct = 10
    LossPct = 10
    MaxOpen = 2
    Times <- MCTimes
    Histories <- MCHistories
    Ranges <- MCRanges
    PageSize = 3
    MinBars = 5
    MaxFaults = 2
INVARIANTS
    BacktestTypeOK
    BreakerSeesEveryClose
    ExitFollowsEntry
    LossIsBounded
    CurveLeadsToBalance
    RunTypeOK
    RangeLoaded
    RunSettles
    ResultAddsUp
    DrawdownIsDeepest
PROPERTIES
    StopOnlyTightens
    EntryBeforeLimit
    WalkRaisesAtBorder
    OutcomeStays
