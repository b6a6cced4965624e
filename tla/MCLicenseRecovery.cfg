\* README.md:12: a restarted server has the sessions it authenticated.
SPECIFICATION SysSpec
CONSTANTS
    p1 = p1
    p2 = p2
    p3 = p3
    Serial <- OneSerial
    Client <- TwoClients
    Proc <- TwoProcs
    SerialOf <- SameSerial
    IdOf <- OwnId
    Timeout = 1
    Limits = {1}
    Faults = {"torn"}
    MaxClock = 4
INVARIANTS
    HeardKeepsSeat
