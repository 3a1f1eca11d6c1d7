\* Nested tasks and calls from slots without a shutdown, threading disabled, and
\* simple tasks with a shutdown.
CONSTANTS
    g1 = g1
    s1 = s1
    o1 = o1
    o2 = o2
    o3 = o3
    NullTask = NullTask
    Tasks = {g1, s1}
    SimpleTasks = {s1}
    Threaded = TRUE
    IsMainDispatcher = TRUE
    UnknownErrors = FALSE
    SyncHandlers = {"started", "message", "failed"}
    CanShutDown = FALSE
    MaxMessages = 1
    MaxDepth = 6
SPECIFICATION SpecModes
CHECK_DEADLOCK FALSE
PROPERTIES
    ImplementsTaskService
    Answers
    UnthreadedAnswers
    ClosingCompletes
