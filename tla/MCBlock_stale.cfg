SPECIFICATION MCSpec
CONSTANTS
    v1 = v1  v2 = v2  v3 = v3  v4 = v4
    Ids = {v1, v2, v3}
    Values <- MCValues
    Caps = {16, 32}
    PushSizes = {8}
    Cuts = {0}
    Kinds <- MCKinds
    StackCaps = {64}
    Clients = {"values"}
INVARIANT RecordClean
