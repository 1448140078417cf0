SPECIFICATION MCSpec
CONSTANTS
    v1 = v1  v2 = v2  v3 = v3  v4 = v4
    Ids = {v1, v2, v3, v4}
    Values <- MCValues
    Caps = {16, 32}
    PushSizes = {8}
    Cuts = {0, 3}
    Kinds <- MCKinds
    StackCaps = {64, 80, 96}
    Clients = {"values", "units"}
SYMMETRY Symmetry
INVARIANTS TypeOK ValuesIntact HolesInOrder ZeroRecord ItemsReadBack
PROPERTIES LoadKeeps ErrUnwinds PopErases ErrLeaves LoadExact
