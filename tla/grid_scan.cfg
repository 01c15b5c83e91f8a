\* Three parameters with 2 x 2 x 2 points and a model other than PhysicsModel
\* with two calculators that fail as they can.
SPECIFICATION FairScanSpec
CONSTANTS
    NumPars = 3
    Upper <- ThreeUpper
    Width <- ThreeWidths
    Top = 4
    Points <- ThreeParameters
    StartPoint <- ThreeLowerBounds
    Physics = FALSE
    NoPoint = NoPoint
    Torn = Torn
    NumCalcs = 2
INVARIANTS
    EachPointOnce
    EntryBelongsTogether
PROPERTIES
    ScanIsInOrder
    ScanEnds
