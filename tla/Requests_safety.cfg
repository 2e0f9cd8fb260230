SPECIFICATION FairSpec
CONSTANTS
    MaxRequests = 2
    MaxAnswers = 3
    MaxFaults = 2
INVARIANTS
    TypeOK
    PendingIsTracked
    InboxFirst
PROPERTIES
    ImplementsPromises
    EverySettles
CHECK_DEADLOCK FALSE
