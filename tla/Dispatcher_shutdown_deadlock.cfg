\* A GRTTask is executing when the owner shuts down.
CONSTANTS
    g1 = g1
    NullTask = NullTask
    Tasks = {g1}
    SimpleTasks = {}
    Threaded = TRUE
    IsMainDispatcher = TRUE
    UnknownErrors = FALSE
    SyncHandlers = {}
    CanShutDown = TRUE
    MaxMessages = 0
    MaxDepth = 4
SPECIFICATION Spec
CHECK_DEADLOCK FALSE
PROPERTIES
    ShutdownCompletes
