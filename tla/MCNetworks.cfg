SPECIFICATION MCSpec
INVARIANTS
    NeverTooShort
    AnnouncedIsReached
    PathsAreShortest
    PlanIsSound
    WordsAreExact
    PiecesAddUp
    ReadWasShown
PROPERTIES
    RoutesSettle
CONSTANTS
    Router <- MCRouter
    Network = {n1}
    NoHop = 0
    RipLinks <- MCRipLinks
    RipAttached <- MCRipAttached
    RipInfinity = 4
    RipMaxFailures = 1
    Bridges = 2
    Station = {a, b}
    Broadcast = bc
    DNode = {1, 2, 3}
    Graphs <- MCGraphs
    IntMax = 32
    Floors = 2
    Place = {1, 2}
    Middle = 1
    ApNear <- MCApNear
    Channels24 = 2
    Channels5 = 2
    MaxApCount = 4
    Scheme = {"tdm_async", "tdm_sync", "fdm", "cdm", "rs232"}
    CodeByte = {0, 1, 4}
    CodeLength = 2
    CharBits = 2
    LineSymbol <- MCLineSymbol
    MaxDamage = 1
    PacketLengths = {20, 21, 28, 45, 60, 61, 85}
    PathMtu = {20, 27, 28, 36, 43, 44, 60}
    MaxHops = 3
    ColourScheme = {"binary", "octal"}
    Backgrounds <- MCBackgrounds
    StableFrames = 2
    Parts = 17
    Weights = {0, 3, 8, 9, 14, 17}
CHECK_DEADLOCK FALSE
