SPECIFICATION Spec
CONSTANTS
    MaxRisk = 40
    MaxUnitRisk = 5
    MaxVolume = 4
INVARIANTS
    Affordable
    Bounded
PROPERTIES
    Monotone
CHECK_DEADLOCK FALSE
