SPECIFICATION FairSpec
CONSTANTS
    MaxCommands = 3
    MaxFaults = 2
    MaxPingOut = 1
    MayGiveUp = TRUE
PROPERTIES
    Recovers
    PongsSettle
    OutboundDrains
CHECK_DEADLOCK FALSE
