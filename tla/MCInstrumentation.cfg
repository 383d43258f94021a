CONSTANTS
    d = d  a = a  k = k  b = b  fin1 = fin1  fin2 = fin2  c = c  fin3 = fin3  r = r
    F = F  G = G
    Value <- MCValue
    Function <- MCFunction
    Programs <- AllPrograms
    OverflowBitsThreshold = 32
    MaxDepth = 3
SPECIFICATION RunSpec
INVARIANTS
    TypeOK
    StoresExact
    IdsFitTable
    UndefinedOnlyBeforeTable
    ReportComplete
PROPERTIES
    KeepsContract
    Termination
