\* A logarithmic axis that begins above one.
SPECIFICATION Spec
CONSTANTS
    Infinity = 1000
    Inputs <- HighInputs
INVARIANTS
    HistogramIsOfTheTree
CHECK_DEADLOCK FALSE
