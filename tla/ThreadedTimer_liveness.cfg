SPECIFICATION Spec
CONSTANTS
    Nodes = {n1, n2}
    NoNode = NoNode
    Workers = {w1}
    MaxTasks = 2
    SingleShot = {}
    Wait <- Waits
    MaxSleep = 1
    MaxLate = 0
    UnknownErrors = TRUE
    RemoveAnyTime = TRUE
PROPERTIES
    TaskComesUp
    StoppedIsErased
    StopReturns
CHECK_DEADLOCK FALSE
