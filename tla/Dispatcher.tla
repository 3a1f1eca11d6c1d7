----------------------------- MODULE Dispatcher -----------------------------
(***************************************************************************)
(* bec::GRTDispatcher (backend/wbpublic/grt/grt_dispatcher.cpp): tasks are *)
(* queued by the main thread and run one after the other by a worker       *)
(* thread, which queues callbacks that the main thread runs when it is     *)
(* idle or waits for a task.  A task function may itself submit tasks to   *)
(* its dispatcher; those are run at once, nested, by the same thread.      *)
(*                                                                         *)
(* The activity of a thread is a stack of frames, innermost first: the     *)
(* tasks it executes ("exec"), its wait_task and flush_pending_callbacks   *)
(* loops ("wait", "flush"), the callbacks it runs (named by their kind)    *)
(* and the wait for the worker at the end of shutdown ("join").            *)
(***************************************************************************)
EXTENDS Naturals, Sequences, FiniteSets

CONSTANTS
    Tasks,             \* the task objects, each of them submitted at most once
    SimpleTasks,       \* those that are GRTSimpleTask; the others are GRTTask
    NullTask,          \* the GrtNullTask that ends the worker
    Threaded,          \* the dispatcher has a worker thread
    IsMainDispatcher,  \* it pushes message handlers for its tasks
    UnknownErrors,     \* task functions may throw what is no std::exception
    SyncHandlers,      \* callbacks whose client slots call add_task_and_wait
    CanShutDown,       \* the owner may shut the dispatcher down
    MaxMessages,       \* bound: messages a task sends
    MaxDepth           \* bound: frames of a thread's stack

Kinds == {"started", "message", "finished", "failed"}
Threads == {"main", "worker"}

ASSUME DispatcherAssumption ==
    /\ IsFiniteSet(Tasks)
    /\ SimpleTasks \subseteq Tasks
    /\ NullTask \notin Tasks
    /\ Threaded \in BOOLEAN
    /\ IsMainDispatcher \in BOOLEAN
    /\ UnknownErrors \in BOOLEAN
    /\ CanShutDown \in BOOLEAN
    /\ SyncHandlers \subseteq Kinds
    /\ MaxMessages \in Nat
    /\ MaxDepth \in Nat

VARIABLES
    taskQueue,      \* _task_queue
    callbackQueue,  \* _callback_queue
    busy,           \* _busy
    shutDown,       \* _shut_down and _shutdown_callback
    wRuning,        \* the count of the semaphore _w_runing
    alive,          \* the worker thread has not returned
    stack,          \* the frames of each thread
    phase,          \* where the execution of each task is
    finished,       \* GRTTaskBase::_finished
    cancelled,      \* GRTTaskBase::_cancelled
    error,          \* GRTTaskBase::_exception is set
    handlers,       \* the GRT's stack of message handlers, innermost first
    count,          \* the handler count the worker loop took before a task
    delivered       \* the callbacks each task has run so far

taskVars == <<phase, finished, cancelled, error>>
vars == <<taskQueue, callbackQueue, busy, shutDown, wRuning, alive, stack,
          taskVars, handlers, count, delivered>>

-----------------------------------------------------------------------------
Callback == [kind : Kinds, task : Tasks]
Frame == [at : {"exec", "wait", "flush", "join"} \cup Kinds,
          task : Tasks \cup {NullTask}]
Phases == {"new", "queued", "picked", "prepared", "body", "finishing",
           "leaving", "ended", "skipped"}

TypeOK ==
    /\ taskQueue \in Seq(Tasks \cup {NullTask})
    /\ callbackQueue \in Seq(Callback)
    /\ busy \in Nat
    /\ shutDown \in BOOLEAN
    /\ wRuning \in Nat
    /\ alive \in BOOLEAN
    /\ stack \in [Threads -> Seq(Frame)]
    /\ phase \in [Tasks -> Phases]
    /\ finished \in [Tasks -> BOOLEAN]
    /\ cancelled \in [Tasks -> BOOLEAN]
    /\ error \in [Tasks -> BOOLEAN]
    /\ handlers \in Seq(Tasks \cup {NullTask})
    /\ count \in Nat
    /\ delivered \in [Tasks -> Seq(Kinds)]

\* The dispatcher after start(): the main dispatcher's own message handler,
\* message_callback, is the bottom of the handler stack (here NullTask).
Init ==
    /\ taskQueue = <<>>
    /\ callbackQueue = <<>>
    /\ busy = 0
    /\ shutDown = FALSE
    /\ wRuning = 0
    /\ alive = Threaded
    /\ stack = [th \in Threads |-> <<>>]
    /\ phase = [t \in Tasks |-> "new"]
    /\ finished = [t \in Tasks |-> FALSE]
    /\ cancelled = [t \in Tasks |-> FALSE]
    /\ error = [t \in Tasks |-> FALSE]
    /\ handlers = IF IsMainDispatcher THEN <<NullTask>> ELSE <<>>
    /\ count = 0
    /\ delivered = [t \in Tasks |-> <<>>]

-----------------------------------------------------------------------------
(* Stacks of frames *)

Idle(th) == stack[th] = <<>>
At(th, what) == ~Idle(th) /\ Head(stack[th]).at = what
TopTask(th) == Head(stack[th]).task

Entered(th, what, t) == <<[at |-> what, task |-> t]>> \o stack[th]
Enter(th, what, t) == stack' = [stack EXCEPT ![th] = Entered(th, what, t)]
Return(th) == stack' = [stack EXCEPT ![th] = Tail(@)]

\* th is in the function of task t, or in its prologue or epilogue.
Executing(th, t, ph) == At(th, "exec") /\ TopTask(th) = t /\ phase[t] = ph

SetPhase(t, ph) == phase' = [phase EXCEPT ![t] = ph]

\* Places where a thread may call the dispatcher: the main thread between two
\* events, a task function, and the client slot connected to a callback.
InHandler(th, kinds) == \E k \in kinds : At(th, k)
InBody(th) == At(th, "exec") /\ phase[TopTask(th)] = "body"
ClientOn(th, kinds) ==
    /\ \/ th = "main" /\ Idle(th)
       \/ InBody(th)
       \/ InHandler(th, kinds)
    /\ Len(stack[th]) + 1 < MaxDepth
    /\ ~shutDown

-----------------------------------------------------------------------------
(* call_from_main_thread *)

Inline_Never(th) == FALSE
Inline(th) == th = "main" \/ ~Threaded

\* Does the _m method of a callback mark its task as finished before it runs
\* the client's slot?  failed_m does, finished_m does so afterwards.
FinishesFirst_Always(k) == k \in {"failed", "finished"}
FinishesFirst_Never(k) == FALSE
FinishesFirst(k) == k = "failed"

\* callback->execute() up to the client's slot.
BeginCallback(th, k, t) ==
    /\ Enter(th, k, t)
    /\ delivered' = [delivered EXCEPT ![t] = Append(@, k)]
    /\ finished' = [finished EXCEPT ![t] = @ \/ FinishesFirst(k)]

QueuedCallback_AtFront(k, t) == <<[kind |-> k, task |-> t]>> \o callbackQueue
QueuedCallback(k, t) == Append(callbackQueue, [kind |-> k, task |-> t])

CallFromMainThread(th, k, t) ==
    IF Inline(th)
    THEN BeginCallback(th, k, t) /\ UNCHANGED callbackQueue
    ELSE /\ callbackQueue' = QueuedCallback(k, t)
         /\ UNCHANGED <<stack, delivered, finished>>

\* Only a "finished" callback has somebody waiting on its semaphore: the
\* thread that executed the task.
Signal_Missing(t) == UNCHANGED phase
Signal(t) == SetPhase(t, "leaving")

\* The slot returns and the callback signals.
EndCallback(th) ==
    /\ InHandler(th, Kinds)
    /\ Return(th)
    /\ IF At(th, "finished")
       THEN /\ finished' = [finished EXCEPT ![TopTask(th)] = TRUE]
            /\ Signal(TopTask(th))
       ELSE UNCHANGED <<finished, phase>>
    /\ UNCHANGED <<taskQueue, callbackQueue, busy, shutDown, wRuning, alive,
                   cancelled, error, handlers, count, delivered>>

-----------------------------------------------------------------------------
(* flush_pending_callbacks: by the main thread's idle processing, and by a *)
(* thread in wait_task.                                                    *)

WaitOver(t) == finished[t] \/ cancelled[t]

FlushBegin(th) ==
    /\ \/ th = "main" /\ Idle(th)
       \/ At(th, "wait") /\ ~WaitOver(TopTask(th))
    /\ callbackQueue # <<>>
    /\ Enter(th, "flush", NullTask)
    /\ UNCHANGED <<taskQueue, callbackQueue, busy, shutDown, wRuning, alive,
                   taskVars, handlers, count, delivered>>

FlushStep(th) ==
    /\ At(th, "flush")
    /\ callbackQueue # <<>>
    /\ callbackQueue' = Tail(callbackQueue)
    /\ LET c == Head(callbackQueue) IN
       IF shutDown
       THEN /\ IF c.kind = "finished"
               THEN Signal(c.task)
               ELSE UNCHANGED phase
            /\ UNCHANGED <<stack, delivered, finished>>
       ELSE BeginCallback(th, c.kind, c.task) /\ UNCHANGED phase
    /\ UNCHANGED <<taskQueue, busy, shutDown, wRuning, alive, cancelled,
                   error, handlers, count>>

FlushEnd(th) ==
    /\ At(th, "flush")
    /\ callbackQueue = <<>>
    /\ Return(th)
    /\ UNCHANGED <<taskQueue, callbackQueue, busy, shutDown, wRuning, alive,
                   taskVars, handlers, count, delivered>>

\* wait_task returns.  A waiter that goes round its loop changes nothing.
WaitReturn(th) ==
    /\ At(th, "wait")
    /\ WaitOver(TopTask(th))
    /\ Return(th)
    /\ UNCHANGED <<taskQueue, callbackQueue, busy, shutDown, wRuning, alive,
                   taskVars, handlers, count, delivered>>

-----------------------------------------------------------------------------
(* add_task, add_task_and_wait, cancel_task *)

PushHandler(t) ==
    handlers' = IF IsMainDispatcher THEN <<t>> \o handlers ELSE handlers
PopHandler_Forgotten == UNCHANGED handlers
PopHandler ==
    handlers' = IF IsMainDispatcher /\ handlers # <<>>
                THEN Tail(handlers) ELSE handlers

PushTask_AtFront(t) == taskQueue' = <<t>> \o taskQueue
PushTask(t) == taskQueue' = Append(taskQueue, t)

CountBusy == busy' = busy + 1

\* below: the frames pushed under the execution of the task, if it is now.
Submit(th, t, below) ==
    /\ phase[t] = "new"
    /\ IF Threaded /\ th = "main"
       THEN /\ PushTask(t)
            /\ SetPhase(t, "queued")
            /\ stack' = [stack EXCEPT ![th] = below \o @]
            /\ UNCHANGED <<busy, handlers>>
       ELSE /\ CountBusy
            /\ PushHandler(t)
            /\ SetPhase(t, "prepared")
            /\ stack' = [stack EXCEPT
                           ![th] = <<[at |-> "exec", task |-> t]>> \o below \o @]
            /\ UNCHANGED taskQueue
    /\ UNCHANGED <<callbackQueue, shutDown, wRuning, alive, finished,
                   cancelled, error, count, delivered>>

AddTask(th, t) ==
    /\ ClientOn(th, Kinds)
    /\ Submit(th, t, <<>>)

AddTaskAndWait(th, t) ==
    /\ ClientOn(th, SyncHandlers)
    /\ Submit(th, t, <<[at |-> "wait", task |-> t]>>)

CancelTask(th, t) ==
    /\ ClientOn(th, Kinds)
    /\ ~cancelled[t]
    /\ cancelled' = [cancelled EXCEPT ![t] = TRUE]
    /\ UNCHANGED <<taskQueue, callbackQueue, busy, shutDown, wRuning, alive,
                   stack, phase, finished, error, handlers, count, delivered>>

-----------------------------------------------------------------------------
(* worker_thread *)

\* The pop; the task is neither in the queue nor counted as busy now.
PickTask ==
    /\ alive
    /\ Idle("worker")
    /\ taskQueue # <<>>
    /\ Head(taskQueue) # NullTask
    /\ taskQueue' = Tail(taskQueue)
    /\ Enter("worker", "exec", Head(taskQueue))
    /\ SetPhase(Head(taskQueue), "picked")
    /\ UNCHANGED <<callbackQueue, busy, shutDown, wRuning, alive, finished,
                   cancelled, error, handlers, count, delivered>>

PostRuning_Missing == UNCHANGED wRuning
PostRuning == wRuning' = wRuning + 1

PickNullTask ==
    /\ alive
    /\ Idle("worker")
    /\ taskQueue # <<>>
    /\ Head(taskQueue) = NullTask
    /\ taskQueue' = Tail(taskQueue)
    /\ alive' = FALSE
    /\ PostRuning
    /\ UNCHANGED <<callbackQueue, busy, shutDown, stack, taskVars, handlers,
                   count, delivered>>

IsCancelled(t) == cancelled[t]

\* _busy goes up and down again.
SkipTask(t) ==
    /\ Executing("worker", t, "picked")
    /\ IsCancelled(t)
    /\ Return("worker")
    /\ SetPhase(t, "skipped")
    /\ UNCHANGED <<taskQueue, callbackQueue, busy, shutDown, wRuning, alive,
                   finished, cancelled, error, handlers, count, delivered>>

\* _busy is incremented, the handler count taken, prepare_task called.
PrepareTask(t) ==
    /\ Executing("worker", t, "picked")
    /\ ~IsCancelled(t)
    /\ CountBusy
    /\ count' = Len(handlers)
    /\ PushHandler(t)
    /\ SetPhase(t, "prepared")
    /\ UNCHANGED <<taskQueue, callbackQueue, shutDown, wRuning, alive, stack,
                   finished, cancelled, error, delivered>>

-----------------------------------------------------------------------------
(* execute_task *)

Started(th, t) ==
    /\ Executing(th, t, "prepared")
    /\ SetPhase(t, "body")
    /\ IF t \in SimpleTasks
       THEN UNCHANGED <<callbackQueue, stack, delivered, finished>>
       ELSE CallFromMainThread(th, "started", t)
    /\ UNCHANGED <<taskQueue, busy, shutDown, wRuning, alive, cancelled,
                   error, handlers, count>>

Messages(t) == Len(SelectSeq(delivered[t], LAMBDA k : k = "message"))
               + Len(SelectSeq(callbackQueue,
                               LAMBDA c : c.kind = "message" /\ c.task = t))

\* The task function sends a message, which reaches the handler on top of
\* the stack and becomes a callback of the task that pushed it.
SendMessage(th, t) ==
    /\ Executing(th, t, "body")
    /\ handlers # <<>>
    /\ LET receiver == Head(handlers) IN
       /\ receiver \in Tasks \ SimpleTasks
       /\ Messages(receiver) < MaxMessages
       /\ CallFromMainThread(th, "message", receiver)
    /\ UNCHANGED <<taskQueue, busy, shutDown, wRuning, alive, phase,
                   cancelled, error, handlers, count>>

\* execute() returns (a GRTSimpleTask also catches a std::exception in it):
\* restore_callbacks and finished(), which for a GRTTask waits for the main
\* thread.
ExecuteReturns(th, t, failure) ==
    /\ Executing(th, t, "body")
    /\ failure => t \in SimpleTasks
    /\ PopHandler
    /\ error' = [error EXCEPT ![t] = failure]
    /\ IF t \in SimpleTasks
       THEN /\ finished' = [finished EXCEPT ![t] = TRUE]
            /\ SetPhase(t, "leaving")
            /\ UNCHANGED <<callbackQueue, stack, delivered>>
       ELSE /\ CallFromMainThread(th, "finished", t)
            /\ SetPhase(t, "finishing")
    /\ UNCHANGED <<taskQueue, busy, shutDown, wRuning, alive, cancelled, count>>

\* An exception reaches execute_task: restore_callbacks and failed().
ExecuteThrows(th, t) ==
    /\ Executing(th, t, "body")
    /\ t \in SimpleTasks => UnknownErrors
    /\ PopHandler
    /\ error' = [error EXCEPT ![t] = TRUE]
    /\ SetPhase(t, "leaving")
    /\ IF t \in SimpleTasks
       THEN UNCHANGED <<callbackQueue, stack, delivered, finished>>
       ELSE CallFromMainThread(th, "failed", t)
    /\ UNCHANGED <<taskQueue, busy, shutDown, wRuning, alive, cancelled, count>>

UncountBusy_UnlessError(t) == busy' = IF error[t] THEN busy ELSE busy - 1
UncountBusy(t) == busy' = busy - 1

\* _busy is decremented; the worker takes its next task, or execute_now
\* returns to the thread's enclosing frame.
LeaveTask(th, t) ==
    /\ Executing(th, t, "leaving")
    /\ UncountBusy(t)
    /\ SetPhase(t, "ended")
    /\ Return(th)
    /\ UNCHANGED <<taskQueue, callbackQueue, shutDown, wRuning, alive,
                   finished, cancelled, error, handlers, count, delivered>>

-----------------------------------------------------------------------------
(* shutdown *)

Shutdown ==
    /\ CanShutDown
    /\ ~shutDown
    /\ Idle("main")
    /\ shutDown' = TRUE
    /\ PopHandler
    /\ IF Threaded
       THEN /\ PushTask(NullTask)
            /\ Enter("main", "join", NullTask)
       ELSE UNCHANGED <<taskQueue, stack>>
    /\ UNCHANGED <<callbackQueue, busy, wRuning, alive, taskVars, count,
                   delivered>>

ShutdownReturns ==
    /\ At("main", "join")
    /\ wRuning > 0
    /\ wRuning' = wRuning - 1
    /\ Return("main")
    /\ UNCHANGED <<taskQueue, callbackQueue, busy, shutDown, alive, taskVars,
                   handlers, count, delivered>>

-----------------------------------------------------------------------------
\* What a thread does by itself once the client calls have been made.
Client(th, t) == AddTask(th, t) \/ AddTaskAndWait(th, t) \/ CancelTask(th, t)

Flush(th) == FlushBegin(th) \/ FlushStep(th) \/ FlushEnd(th)

Execute(th, t) ==
    \/ Started(th, t)
    \/ \E failure \in BOOLEAN : ExecuteReturns(th, t, failure)
    \/ ExecuteThrows(th, t)
    \/ LeaveTask(th, t)

Worker == \/ PickTask
          \/ PickNullTask
          \/ \E t \in Tasks : SkipTask(t) \/ PrepareTask(t)

Step(th) ==
    \/ Flush(th)
    \/ EndCallback(th)
    \/ WaitReturn(th)
    \/ \E t \in Tasks : Execute(th, t)

Next ==
    \/ \E th \in Threads : Step(th)
    \/ \E th \in Threads, t \in Tasks : Client(th, t) \/ SendMessage(th, t)
    \/ Worker
    \/ Shutdown
    \/ ShutdownReturns

Fairness ==
    /\ \A th \in Threads : WF_vars(Step(th))
    /\ WF_vars(Worker)
    /\ WF_vars(ShutdownReturns)

Spec == Init /\ [][Next]_vars /\ Fairness

-----------------------------------------------------------------------------
(* Safety *)

InCallback(th, k, t) ==
    \E i \in DOMAIN stack[th] : stack[th][i] = [at |-> k, task |-> t]
Pending(k, t) == \E i \in DOMAIN callbackQueue :
                     callbackQueue[i] = [kind |-> k, task |-> t]
Running == {"prepared", "body", "finishing", "leaving"}
FramesIn(th, phases) == SelectSeq(stack[th], LAMBDA f :
                            f.at = "exec" /\ phase[f.task] \in phases)
TasksOf(frames) == [i \in DOMAIN frames |-> frames[i].task]

\* wait_task of a task that nobody cancelled returns only when its function
\* has returned and its result and error are final: no other step of the
\* dispatcher, a callback run out of order or by the wrong thread, marks a
\* task as finished while it executes (wait_task, set_finished).
FinishedAfterExecution ==
    \A t \in Tasks : finished[t] => phase[t] \in {"leaving", "ended"}

\* The thread blocked in finished() can be released: its callback is in the
\* queue or being run, whichever threads flush the queue and whatever nested
\* flushes the slots start (call_from_main_thread with wait).
NoLostCallback ==
    \A t \in Tasks :
        phase[t] = "finishing" =>
            \/ Pending("finished", t)
            \/ \E th \in Threads : InCallback(th, "finished", t)

\* The slots of a task run in the order of its life: started once and first,
\* then messages, then one of finished and failed, once, and nothing after it.
CallbacksInOrder ==
    \A t \in Tasks :
        \A i \in DOMAIN delivered[t] :
            /\ (delivered[t][i] = "started") <=> (i = 1)
            /\ delivered[t][i] \in {"finished", "failed"} => i = Len(delivered[t])

\* A thread executes task u inside task t: u's frame is above t's on its stack.
Inside(t, u) ==
    \E th \in Threads : \E i, j \in DOMAIN stack[th] :
        /\ i < j
        /\ stack[th][i] = [at |-> "exec", task |-> t]
        /\ stack[th][j] = [at |-> "exec", task |-> u]

\* While the dispatcher is up the GRT's handler stack mirrors the nesting of
\* the executing tasks, so a message reaches the innermost of them
\* (prepare_task, restore_callbacks, SendMessage); and after a task without
\* error the worker finds as many handlers as before it (the check at 508).
HandlersMirrorExecution ==
    (IsMainDispatcher /\ ~shutDown) =>
        /\ handlers # <<>> /\ handlers[Len(handlers)] = NullTask
        /\ {handlers[i] : i \in 1 .. Len(handlers) - 1}
               = {t \in Tasks : phase[t] \in {"prepared", "body"}}
        /\ \A i, j \in 1 .. Len(handlers) - 1 :
              i < j => Inside(handlers[i], handlers[j])
        /\ \A t \in Tasks :
              (Len(stack["worker"]) = 1 /\ Executing("worker", t, "leaving") /\ ~error[t])
                  => count = Len(handlers)

\* get_busy's counter is exact at every moment of every nesting: it is the
\* number of tasks being executed, and returns to zero after failures.
BusyCountsExecution ==
    busy = Cardinality({t \in Tasks : phase[t] \in Running})

\* Once shutdown() has returned the worker is gone, everything submitted
\* before it has been executed or skipped, and nothing executes any more.
ShutdownDrains ==
    (Threaded /\ shutDown /\ ~At("main", "join")) =>
        /\ ~alive
        /\ \A t \in Tasks : phase[t] \in {"new", "ended", "skipped"}

(* Liveness *)

Waiting(th, t) == \E i \in DOMAIN stack[th] :
                      stack[th][i] = [at |-> "wait", task |-> t]

\* Every submitted task is executed or skipped.
TaskSettles ==
    \A t \in Tasks : (phase[t] = "queued") ~> (phase[t] \in {"ended", "skipped"})

\* add_task_and_wait returns.
WaitReturns ==
    \A th \in Threads, t \in Tasks : Waiting(th, t) ~> ~Waiting(th, t)

\* The client of a GRTTask that was executed hears how it ended.
OutcomeReported ==
    \A t \in Tasks \ SimpleTasks :
        (phase[t] = "ended") ~>
            (\E i \in DOMAIN delivered[t] : delivered[t][i] \in {"finished", "failed"})

\* shutdown() returns (the comment at lines 591-592 says how the worker gets
\* to its NullTask).
ShutdownCompletes == shutDown ~> Idle("main")

(* What comments of the code promise and it does not keep *)

\* Line 742: an exception in the worker thread is signalled to the waiter, so
\* the waiter of a task that has failed does not wait on.  It does if
\* UnknownErrors holds and the task is a simple one.
FailureSignalled ==
    \A t \in Tasks :
        (error[t] /\ Waiting("main", t)) ~> ~Waiting("main", t)

-----------------------------------------------------------------------------
(* The dispatcher implements TaskService.  A task the worker has popped and  *)
(* not yet prepared still waits; a task runs from prepare_task until the     *)
(* executing thread leaves it.                                               *)

Service == INSTANCE TaskService WITH
    Immediate <- ~Threaded,
    order     <- TasksOf(FramesIn("worker", {"picked"}))
                 \o SelectSeq(taskQueue, LAMBDA t : t # NullTask),
    running   <- TasksOf(FramesIn("worker", Running) \o FramesIn("main", Running)),
    submitted <- {t \in Tasks : phase[t] # "new"},
    cancelled <- {t \in Tasks : cancelled[t]},
    outcome   <- [t \in Tasks |-> IF error[t] THEN "failed"
                                  ELSE IF phase[t] \in {"finishing", "leaving", "ended"}
                                       THEN "ok" ELSE "none"],
    reported  <- {t \in Tasks : finished[t]}

\* Every behaviour of the threads, queues and callbacks is one of TaskService:
\* tasks start in the order of submission, one at a time, nested ones inside
\* their parent, those cancelled while they waited never, and each is reported
\* only after its outcome is decided.
ImplementsTaskService == Service!Spec
=============================================================================
