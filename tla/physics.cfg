\* The input files of MCPhysicsModel, each evaluated at up to three points after the start.
SPECIFICATION Spec

CONSTANTS
    Absent = {"GM2CALC"}
    Inputs <- MCInputs
    Libraries <- BuiltWith
    Start = 1
    MaxPoints = 4
    NotANumber = NotANumber
    NotInvertible <- MCNotInvertible

INVARIANT ValuesAreOfThisPoint
INVARIANT ObservablesAsConfigured
INVARIANT Chi2InverseOfThisPoint

\* A model may be refused, the process may end, and the points come to an end.
CHECK_DEADLOCK FALSE
