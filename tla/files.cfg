\* Three calculators, two points, one of which violates unitarity.
SPECIFICATION MCSpec
CONSTANTS
    Points = {p1, p2}
    StartPoint = p1
    NoPoint = NoPoint
    Torn = Torn
    NumCalcs = 3
    Physics = TRUE
    Files <- MCFiles
    Absent = Absent
    Rejected = {p2}
    Chains <- MCChains
INVARIANTS
    CarefulIsCurrent
    TrustedIsCurrent
    UnitarityIsRequired
PROPERTIES
    CarefulIsModel
    EvaluationsEnd
