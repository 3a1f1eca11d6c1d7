\* Two GRTTasks and a simple one, submitted in any order, nested or not, from
\* slots too, and a shutdown at any time.
CONSTANTS
    g1 = g1
    g2 = g2
    s1 = s1
    NullTask = NullTask
    Tasks = {g1, g2, s1}
    SimpleTasks = {s1}
    Threaded = TRUE
    IsMainDispatcher = TRUE
    UnknownErrors = FALSE
    SyncHandlers = {"started", "message", "failed"}
    CanShutDown = TRUE
    MaxMessages = 1
    MaxDepth = 5
SPECIFICATION Spec
SYMMETRY Symmetry
CHECK_DEADLOCK FALSE
INVARIANTS
    FinishedAfterExecution
    
    
    HandlersMirrorExecution
    
