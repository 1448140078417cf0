SPECIFICATION HistFairSpec
CONSTANTS
    Nil = Nil
    t1 = t1  t2 = t2
    i1 = i1  i2 = i2  i3 = i3  i4 = i4  big = big
    Threads = {t1, t2}
    Items = {i1, i2, i3}
    Units <- MCUnits
    PerBlock = 1
    Budget = 1
    OpKinds = {"push", "pop", "read", "flush"}
    InitFiles <- MCTwoBlocks
    MaxBlocks = 3
    MaxOps = 2
    MaxFaults = 1
    MaxReopens = 0
    StaleLoads = FALSE
INVARIANTS CleanIsOnFile FlushCovers
PROPERTY CallsEnd
