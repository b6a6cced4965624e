\* The program ends: BothEnd says that it does so when it should.
SPECIFICATION FairSpec
CONSTANTS
    FrameCount = 5
    MaxCopies = 4
INVARIANTS
    BitTellsNew
    StopsAfterAll
PROPERTIES
    DeliversInOrder
    BothEnd
CHECK_DEADLOCK FALSE
