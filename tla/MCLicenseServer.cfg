\* Every save fault, two licences, two clients, each sold for one seat.
SPECIFICATION Spec
CONSTANTS
    Serial <- MCSerial
    Client <- MCClient
    Timeout = 1
    Limits = {1}
    Faults = {"open", "short", "torn"}
    MaxClock = 4
INVARIANTS
    SeatsWithinLimit
PROPERTIES
    OnlyOwnReleaseOrTimeoutEvicts
