SPECIFICATION Spec
CONSTANTS
    Configured = {a, b}
    Discovered = {}
    Settings <- TimeoutSettings
    MaxCount = 1
    MaxTimers = 1
    MaxFaults = 1
PROPERTY
    TimeoutSparesEstablished
CHECK_DEADLOCK FALSE
