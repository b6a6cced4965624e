\* The programs end.
SPECIFICATION Spec
CONSTANTS
    s1 = s1
    s2 = s2
    s3 = s3
    r1 = r1
    Sender <- Senders
    Receiver <- OneReceiver
    Total <- Chunks
    Shape <- Lengths
    Rounds = 2
    Programs <- BothPrograms
INVARIANTS
    Tally
    OneFile
    NothingDropped
    ExitTellsTheTruth
SYMMETRY SameHeader
CHECK_DEADLOCK FALSE
