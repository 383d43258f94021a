CONSTANTS
    t0 = t0  t1 = t1
    Main = t0
    Thread <- Pair
    N = 2
    TableLen = 1
    Val <- Ints
    MaxInt = 100
    MaxStores = 2
SPECIFICATION FairSpec
INVARIANTS
    ReportWasComputed
    DebugTellsOfRankZero
PROPERTY ReportEventuallyWritten
