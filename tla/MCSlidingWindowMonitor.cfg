\* main.cpp:337 and 343 of LAB11/14.
SPECIFICATION Spec
CONSTANTS
    Total = 3
    SendWindow = 2
    ReceiveWindow = 2
    MaxQueue = 2
INVARIANTS
    AvailableIsAllowed
CHECK_DEADLOCK FALSE
