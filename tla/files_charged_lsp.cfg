\* Three calculators, two points, one of which has a charged lightest particle.
SPECIFICATION MCSpec
CONSTANTS
    Points = {p1, p2}
    StartPoint = p1
    NoPoint = NoPoint
    Torn = Torn
    NumCalcs = 3
    Physics = TRUE
    Files <- MCFiles
    Absent = Absent
    Rejected = {p2}
    Chains <- MCChains
INVARIANT ChargedLspIsRefused
