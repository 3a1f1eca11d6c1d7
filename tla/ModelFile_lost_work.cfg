\* One instance that crashes and starts again.
CONSTANTS
    i1 = i1
    i2 = i2
    Instances = {i1}
    NoOne = NoOne
    MaxFolder = 1
    MaxVersion = 2
    MaxCrashes = 1
SPECIFICATION Spec
CHECK_DEADLOCK FALSE
INVARIANTS
    WorkSurvivesRestart
