SPECIFICATION Spec
CONSTANTS
    Nodes = {n1, n2, n3}
    NoNode = NoNode
    Workers = {w1, w2}
    MaxTasks = 3
    SingleShot = {2}
    Wait <- Waits
    MaxSleep = 2
    MaxLate = 1
    UnknownErrors = FALSE
    RemoveAnyTime = FALSE
INVARIANTS
    
    HeldOnce
    SingleShotRunsOnce
PROPERTIES
    RemovedNeverRuns
SYMMETRY Symmetry
CHECK_DEADLOCK FALSE
