\* The first point is drawn inside strict bounds as any other, or every process is
\* sent outside by the input file.
SPECIFICATION FairSpec
CONSTANTS
    Points <- MCPoints
    InBounds <- MCInBounds
    Passed <- MCPoints
    Infinity = 2
    Chi2 <- MCChi2
    StartPoint = "low"
    Steerings <- MCSteerings
    RunLengths = {0, 3}
    MaxRuns = 2
    MaxCrashes = 1
INVARIANTS
    OneEntryPerPoint
    BranchMatchesTree
    WeightsAddUp
PROPERTIES
    RunsEnd
    WeightsAreImmediate
