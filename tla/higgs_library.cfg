\* Three calculators of every configuration that runs something.
SPECIFICATION Spec
CONSTANTS
    NumInstances = 3
    Numbers = {1, 2}
    Analyses = {"LandH", "onlyH"}
    Data = {"latestresults", "toys"}
    Off = Off
    Configurations <- MCConfigurations
INVARIANTS
    RunIsItsOwn
    MeasurementsAreReal
