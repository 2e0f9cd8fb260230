SPECIFICATION FairSpec
CONSTANTS
    Configured = {a, b}
    Discovered = {}
    Settings <- LivenessSettings
    MaxCount = 1
    MaxTimers = 1
    MaxFaults = 2
PROPERTIES
    Recovers
    PromiseSettles
    GivesUp
CHECK_DEADLOCK FALSE
