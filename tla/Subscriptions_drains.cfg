SPECIFICATION FairSpec
CONSTANTS
    MaxSubs = 2
    MaxLimit = 1
    MaxCalls = 3
    MaxMessages = 2
    MaxFaults = 0
PROPERTIES
    DrainEnds
CHECK_DEADLOCK FALSE
