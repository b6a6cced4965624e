SPECIFICATION ApSpec
INVARIANT
    EveryFloorHas5GHz
CONSTANTS
    Floors = 2
    Place = {1, 2}
    Middle = 1
    ApNear <- MCApNear
    Channels24 = 2
    Channels5 = 2
    MaxApCount = 4
CHECK_DEADLOCK FALSE
