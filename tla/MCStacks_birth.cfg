SPECIFICATION HistSpec
CONSTANTS
    Nil = Nil
    t1 = t1  t2 = t2
    i1 = i1  i2 = i2  i3 = i3  i4 = i4  big = big
    Threads = {t1}
    Items = {i1, i2}
    Units <- MCUnits
    PerBlock = 1
    Budget = 2
    OpKinds = {"push", "pop"}
    InitFiles <- MCFresh
    MaxBlocks = 2
    MaxOps = 2
    MaxFaults = 1
    MaxReopens = 1
    StaleLoads = FALSE
INVARIANT ClosedFileReads
