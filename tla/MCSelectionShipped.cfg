CONSTANTS
    c1 = c1  c2 = c2  fn = fn  gn = gn  a = a  b = b
    scanf = scanf  mark = mark  rank = rank  init = init  main = main
    Value <- Values
    Name <- Names
    ManualAnnotationFnName = mark
    mpi_scale_functions <- RankSet
    functions_to_ignore <- InitSet
    UIntSize = 4
    Programs <- ShippedPrograms
    MaxRuns = 2
SPECIFICATION Spec
INVARIANT ArgumentsExist
