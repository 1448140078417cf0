SPECIFICATION Spec
CONSTANTS
    Width = 4
    FreeStride = 2
    TurnNum = 1
    TurnDen = 2
    FreeNum = 1
    FreeDen = 2
    StreakBank = 2
    NearHole = 4
    Word = 4
    Chunk = 3
    STRIDE = 2
    BDegree = 4
    Kinds = {"arena", "skip", "bimap", "mask", "bplus", "binary", "pinned"}
    KeysFor <- MCKeysOf
    Values <- MCValues
    PrefillsOf <- MCPrefillsOf
    MaxCalls = 2
CHECK_DEADLOCK FALSE
INVARIANTS AnswersAgree HoldersFollow WindowsBound ScansAgree
