\* Saves that succeed, one licence for two seats, three clients: the server
\* with its crashes, stops and restarts implements LicenseSeats.
SPECIFICATION Spec
CONSTANTS
    Serial <- OneSerial
    Client <- ThreeClients
    Timeout = 1
    Limits = {2}
    Faults = {}
    MaxClock = 5
PROPERTIES
    ImplementsSeats
