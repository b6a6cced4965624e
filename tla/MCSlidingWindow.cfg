\* A send window larger than the receive window.  The program ends.
SPECIFICATION FairSpec
CONSTANTS
    Total = 4
    SendWindow = 3
    ReceiveWindow = 2
    MaxQueue = 2
INVARIANTS
    FlagsAgree
    WindowsHold
PROPERTIES
    DeliversInOrder
    AllEnd
CHECK_DEADLOCK FALSE
