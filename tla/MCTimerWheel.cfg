CONSTANTS
    TIME_NEAR_SHIFT = 1
    TIME_LEVEL_SHIFT = 2
    MaxTimers = 2
    MaxTimeout = 10
SPECIFICATION Spec
INVARIANTS
    WellPlaced
    OnTime
    SetOrder
PROPERTIES
    EveryTimerFires
