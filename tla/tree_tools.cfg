\* Linear axes and a logarithmic one that begins below one.
SPECIFICATION Spec
CONSTANTS
    Infinity = 1000
    Inputs <- UsualInputs
INVARIANTS
    OptimumIsLowest
    EntriesAreTheirOwn
    HistogramIsOfTheTree
CHECK_DEADLOCK FALSE
