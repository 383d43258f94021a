CONSTANTS
    s = s  t = t  a = a  x = x  y = y  c = c  f = f  g = g
    Value <- MCValue
    Modules <- NestedModules
SPECIFICATION FairSpec
INVARIANT CallsExpandedToFixpoint
