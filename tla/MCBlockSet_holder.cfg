SPECIFICATION Spec
CONSTANTS
    Width = 6
    FreeStride = 2
    TurnNum = 1
    TurnDen = 2
    FreeNum = 1
    FreeDen = 2
    StreakBank = 2
    NearHole = 4
    Word = 4
    Chunk = 3
    Keys <- MCKeys
    Prefills <- MCPrefills
    MaxCalls = 2
CHECK_DEADLOCK FALSE
INVARIANTS Ordered HolderFollows SpotHonest TurnAgrees
PROPERTY PositionsTold
