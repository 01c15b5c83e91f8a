\* Chains that go on where they stopped, with strict bounds and without, and chains
\* whose first point the input file or a step moves.  The queue holds two points.
SPECIFICATION HSpec
CONSTANTS
    Points <- MCPoints
    InBounds <- MCInBounds
    Passed <- MCPoints
    Infinity = 2
    Chi2 <- MCChi2
    StartPoint = "excluded"
    Steerings <- MCSteerings
    RunLengths = {1, 3}
    MaxRuns = 2
    MaxCrashes = 1
    Coordinates <- MCCoordinates
    Minimal = 1
    Maximal = 2
INVARIANTS
    SavedPointInBounds
    QueueIsEndOfChain
    ProposalHasMomentsOfQueue
    OnlyEditedCounterIsRefused
PROPERTY FiniteChi2IsKept
