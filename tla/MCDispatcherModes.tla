-------------------------- MODULE MCDispatcherModes --------------------------
(***************************************************************************)
(* Three dispatchers for TLC, one of which a behaviour is about: one that  *)
(* serves nested tasks in its worker thread, one without a thread, and one *)
(* that is shut down.  The first has the variables of Dispatcher, the two  *)
(* others share a second set of them; what a behaviour is not about stays  *)
(* in its initial state, where nothing is fair.                            *)
(***************************************************************************)
EXTENDS MCDispatcher

CONSTANTS o1, o2, o3

VARIABLES
    mode, oTaskQueue, oCallbackQueue, oBusy, oShutDown, oRunning, oAlive, oStack,
    oPhase, oFinished, oCancelled, oError, oHandlers, oCount, oDelivered

otherVars == <<oTaskQueue, oCallbackQueue, oBusy, oShutDown, oRunning, oAlive,
               oStack, oPhase, oFinished, oCancelled, oError, oHandlers, oCount,
               oDelivered>>

OtherTasks == {o1, o2, o3}

\* Threading disabled: everything runs in the calling thread.
Unthreaded == INSTANCE Dispatcher WITH
    Tasks <- OtherTasks, SimpleTasks <- {o3}, Threaded <- FALSE,
    SyncHandlers <- Kinds, CanShutDown <- TRUE, MaxMessages <- 0, MaxDepth <- 5,
    taskQueue <- oTaskQueue, callbackQueue <- oCallbackQueue, busy <- oBusy,
    shutDown <- oShutDown, wRuning <- oRunning, alive <- oAlive, stack <- oStack,
    phase <- oPhase, finished <- oFinished, cancelled <- oCancelled,
    error <- oError, handlers <- oHandlers, count <- oCount,
    delivered <- oDelivered

\* Simple tasks and a shutdown.
Closing == INSTANCE Dispatcher WITH
    Tasks <- OtherTasks, SimpleTasks <- OtherTasks,
    SyncHandlers <- {}, CanShutDown <- TRUE, MaxMessages <- 0,
    taskQueue <- oTaskQueue, callbackQueue <- oCallbackQueue, busy <- oBusy,
    shutDown <- oShutDown, wRuning <- oRunning, alive <- oAlive, stack <- oStack,
    phase <- oPhase, finished <- oFinished, cancelled <- oCancelled,
    error <- oError, handlers <- oHandlers, count <- oCount,
    delivered <- oDelivered

InitModes ==
    /\ mode \in {"serving", "unthreaded", "closing"}
    /\ Init
    /\ IF mode = "unthreaded" THEN Unthreaded!Init ELSE Closing!Init

NextModes ==
    /\ UNCHANGED mode
    /\ \/ mode = "serving" /\ Next /\ UNCHANGED otherVars
       \/ mode = "unthreaded" /\ Unthreaded!Next /\ UNCHANGED vars
       \/ mode = "closing" /\ Closing!Next /\ UNCHANGED vars

\* The fairness of the two others, each in its own mode
OtherFairness ==
    /\ \A th \in Threads :
          /\ WF_otherVars(mode = "unthreaded" /\ Unthreaded!Step(th))
          /\ WF_otherVars(mode = "closing" /\ Closing!Step(th))
    /\ WF_otherVars(mode = "closing" /\ Closing!Worker)
    /\ WF_otherVars(mode = "closing" /\ Closing!ShutdownReturns)

SpecModes ==
    /\ InitModes
    /\ [][NextModes]_<<mode, vars, otherVars>>
    /\ Fairness
    /\ OtherFairness

\* With the worker thread: every submitted task is executed or skipped, nested
\* ones too; add_task_and_wait returns; the client of an executed GRTTask hears
\* how it ended.
Answers == TaskSettles /\ WaitReturns /\ OutcomeReported

\* Without a thread add_task_and_wait returns too, and each outcome is told.
UnthreadedAnswers ==
    mode = "unthreaded" => Unthreaded!WaitReturns /\ Unthreaded!OutcomeReported

\* shutdown() with simple tasks returns, and nothing it was given is left then.
ClosingCompletes ==
    mode = "closing" =>
        ([]Closing!ShutdownDrains) /\ Closing!ShutdownCompletes
=============================================================================
