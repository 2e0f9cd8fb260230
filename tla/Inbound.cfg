SPECIFICATION FairSpec
CONSTANTS
    Yields = TRUE
    MaxPayload = 1
    MaxFrames = 3
    MaxConnections = 2
INVARIANTS
    TypeOK
    HandledAsSent
    EveryByteKept
PROPERTY
    EveryFrameHandled
CHECK_DEADLOCK FALSE
