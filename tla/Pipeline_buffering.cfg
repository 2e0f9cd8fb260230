SPECIFICATION OutageSpec
CONSTANTS
    MaxCommands = 4
    MaxFaults = 2
    MaxPingOut = 1
    MayGiveUp = FALSE
PROPERTY BufferedPublishesAreKept
CHECK_DEADLOCK FALSE
