\* Eight individuals in two families, three points, up to two iterations.
SPECIFICATION FairGeneticSpec
CONSTANTS
    Genes = {1}
    MaxValue = 2
    Points <- MCPoints
    NoPoint = NoPoint
    Infinity = 2
    Chi2 <- MCChi2
    AbortCriterion = 0
    MaxIterations = 2
    FirstChi2s = {0, 2}
    FirstIterations = {0, 2}
    SizeOfPopulation = 8
INVARIANTS
    FittestIsInTheModel
    BestIsKept
    SavedChi2IsReached
PROPERTY
    OptimizationEnds
