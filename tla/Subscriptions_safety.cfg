SPECIFICATION Spec
CONSTANTS
    MaxSubs = 2
    MaxLimit = 2
    MaxCalls = 3
    MaxMessages = 2
    MaxFaults = 1
INVARIANTS
    TypeOK
    BelowMax
    NotStarved
    NoOrphans
    TimersOfLiveSubs
PROPERTIES
    DrainIsComplete
CHECK_DEADLOCK FALSE
