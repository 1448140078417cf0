SPECIFICATION Spec
CONSTANTS
    Nil = Nil
    t1 = t1  t2 = t2
    i1 = i1  i2 = i2  i3 = i3  i4 = i4  big = big
    Threads = {t1, t2}
    Items = {i1, i2, i3, i4}
    Units <- MCUnits
    PerBlock = 1
    Budget = 1
    OpKinds = {"push", "pop", "read", "lease", "flush", "len"}
    InitFiles <- MCTwoBlocks
    MaxBlocks = 3
    MaxOps = 2
    MaxFaults = 0
    MaxReopens = 0
    StaleLoads = TRUE
SYMMETRY Symmetry
INVARIANTS TypeOK LeasePinned ResidencyExact Conservation NoFalseCap
PROPERTY ImplementsBlocks
