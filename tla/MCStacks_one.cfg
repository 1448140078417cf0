SPECIFICATION Spec
CONSTANTS
    Nil = Nil
    t1 = t1  t2 = t2
    i1 = i1  i2 = i2  i3 = i3  i4 = i4  big = big
    Threads = {t1}
    Items = {i1, i2, i3, big}
    Units <- MCUnits
    PerBlock = 2
    Budget = 1
    OpKinds = {"push", "pop", "read", "lease", "flush", "len", "peek"}
    InitFiles <- MCSomeFiles
    MaxBlocks = 4
    MaxOps = 5
    MaxFaults = 0
    MaxReopens = 1
    StaleLoads = FALSE
INVARIANTS NothingAboveTop LenCounts NoneMeansEmpty
PROPERTIES ImplementsLifo BudgetKept
