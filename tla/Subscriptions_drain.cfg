SPECIFICATION Spec
CONSTANTS
    MaxSubs = 1
    MaxLimit = 1
    MaxCalls = 2
    MaxMessages = 1
    MaxFaults = 0
INVARIANTS
    DrainStopsServer
CHECK_DEADLOCK FALSE
