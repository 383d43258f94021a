CONSTANTS
    t0 = t0  t1 = t1
    Main = t0
    Thread <- Single
    N = 2
    TableLen = 2
    Val <- Small
    MaxInt = 100
    MaxStores = 2
SPECIFICATION Spec
INVARIANTS
    TypeOK
    MaximumKept
    ReportIsMaximum
    ReportWhole
PROPERTIES
    NoMaximumLost
    ImplementsMaxRecorder
