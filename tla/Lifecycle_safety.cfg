SPECIFICATION Spec
CONSTANTS
    Configured = {a, b}
    Discovered = {c}
    Settings <- SafetySettings
    MaxCount = 1
    MaxTimers = 1
    MaxFaults = 1
INVARIANTS
    TypeOK
    StreamOfCurrent
    ConnectSettles
    OneWayForward
    EventsOnce
PROPERTIES
    NeverGivesUp
SYMMETRY Interchangeable
CHECK_DEADLOCK FALSE
