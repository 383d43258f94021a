CONSTANTS
    s = s  t = t  a = a  x = x  y = y  c = c  f = f  g = g
    Value <- MCValue
    Modules <- AllModules
SPECIFICATION FairSpec
INVARIANTS
    TypeOK
    ExactGraph
    DirectFlowComplete
    NothingForgotten
    UndefinedByProgram
PROPERTIES
    ImplementsScaleFlow
    Termination
