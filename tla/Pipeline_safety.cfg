SPECIFICATION Spec
CONSTANTS
    MaxCommands = 4
    MaxFaults = 2
    MaxPingOut = 1
    MayGiveUp = TRUE
INVARIANTS
    TypeOK
    PingAccounting
    NoStuckCommands
    OneHeartbeat
    OnceInOrder
PROPERTIES
    ImplementsDelivery
    ClosedIsFinal
    NothingDroppedWhileOpen
CHECK_DEADLOCK FALSE
