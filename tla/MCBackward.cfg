CONSTANTS
    r = r  q = q  s = s  l = l  x = x  c = c  d = d  f = f  g = g  h = h  i = i  j = j  k = k
    Value <- MCValue
    Programs <- AllPrograms
SPECIFICATION FairSpec
INVARIANTS
    TypeOK
    RefsExact
    OriginFound
    EveryCallerTraced
    UndefinedOnlyForReason
PROPERTY Termination
