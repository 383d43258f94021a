CONSTANTS
    s = s  x = x  b0 = b0  b1 = b1  b3 = b3  i2 = i2  i3 = i3  c = c  f = f  g = g
    e0 = e0  p1 = p1  h1 = h1  p2 = p2  h2 = h2  u2 = u2  t2 = t2  p3 = p3  h3 = h3  q = q
    L1 = L1  L2 = L2  L3 = L3  M = M  G = G
    Value <- MCValue
    Block <- MCBlock
    Loop <- MCLoop
    Function <- MCFunction
    Programs <- MCPrograms
    Apps <- MCApps
    OverflowBitsThreshold = 32
SPECIFICATION AnalysisSpec
INVARIANTS
    AnalysisTypeOK
    LoopsMarkedExactly
    GraphRooted
    DetectionExact
    TraceIsTree
    HistoryReachesScale
PROPERTY AnalysisTermination
