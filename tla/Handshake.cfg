SPECIFICATION FairSpec
CONSTANTS
    MaxFaults = 3
INVARIANTS
    TypeOK
    ReadyAsAgreed
    NeverStranded
PROPERTIES
    Recovers
CHECK_DEADLOCK FALSE
