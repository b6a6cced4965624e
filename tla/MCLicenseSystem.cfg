\* Two processes compete for the one seat of a licence; saves may throw.
SPECIFICATION FairSysSpec
CONSTANTS
    p1 = p1
    p2 = p2
    p3 = p3
    Serial <- OneSerial
    Client <- TwoClients
    Proc <- TwoProcs
    SerialOf <- SameSerial
    IdOf <- OwnId
    Timeout = 1
    Limits = {1}
    Faults = {"open"}
    MaxClock = 4
INVARIANTS
    HeardKeepsSeat
    ReleasedStaysFree
PROPERTIES
    RejectedOnlyWhenFull
    EveryWaitEnds
