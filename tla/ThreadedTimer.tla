--------------------------- MODULE ThreadedTimer ---------------------------
(***************************************************************************)
(* The timer of library/base/threaded_timer.cpp: a thread wakes at its base*)
(* frequency, hands the tasks that are due to a pool of worker threads, and*)
(* erases the tasks marked as stopped from its list.  Clients add and      *)
(* remove tasks by id from any thread, callbacks included.                 *)
(*                                                                         *)
(* The pool holds the addresses of list nodes (TimerTask pointers), so a   *)
(* node is modelled as an address with contents: erasing a node leaves its *)
(* contents, and a task added later may be placed at the same address.     *)
(***************************************************************************)
EXTENDS Integers, Sequences, FiniteSets

CONSTANTS
    Nodes,          \* addresses of list nodes (bound: as many as there are)
    NoNode,         \* what an idle worker is on
    Workers,        \* the threads of the pool, WORKER_THREAD_COUNT
    MaxTasks,       \* bound: ids handed out
    SingleShot,     \* the ids of tasks added with single_shot
    Wait,           \* the wait time of each id, in periods of the main loop
    MaxSleep,       \* bound: periods the main loop oversleeps
    MaxLate,        \* bound: how far a task can fall behind
    UnknownErrors,  \* callbacks may throw what is no std::exception
    RemoveAnyTime   \* clients remove tasks that are scheduled or running, too

Ids == 1 .. MaxTasks

ASSUME TimerAssumption ==
    /\ NoNode \notin Nodes
    /\ MaxTasks \in Nat
    /\ SingleShot \subseteq Ids
    /\ Wait \in [Ids -> Nat \ {0}]
    /\ MaxSleep \in Nat \ {0}
    /\ MaxLate \in Nat
    /\ UnknownErrors \in BOOLEAN
    /\ RemoveAnyTime \in BOOLEAN

VARIABLES
    listed,     \* _tasks: the nodes in the list
    id,         \* TimerTask::task_id of each node, 0 before its first use
    left,       \* TimerTask::next_time of each node, relative to the clock
    fresh,      \* the listed nodes whose next_time is still 0
    stop,       \* TimerTask::stop
    scheduled,  \* TimerTask::scheduled
    nextId,     \* _next_id
    ticking,    \* the main loop holds _timer_lock
    todo,       \* the nodes its loop has not visited yet
    pool,       \* _pool: the queue of nodes no thread has taken yet
    at,         \* where each worker is in pool_function
    on,         \* the node each worker was given
    runs,       \* the id of the task each worker calls, 0 if it is idle
    state,      \* up; _terminate set; pool being freed; timer deleted
    looping,    \* the main loop has not returned
    removed,    \* history: what remove_task returned for each id
    ran         \* history: the ids whose callback has returned

taskVars == <<id, left, fresh, stop, scheduled>>
workerVars == <<at, on, runs>>
vars == <<listed, taskVars, nextId, ticking, todo, pool, workerVars, state,
          looping, removed, ran>>

TypeOK ==
    /\ listed \subseteq Nodes
    /\ id \in [Nodes -> 0 .. MaxTasks]
    /\ left \in [Nodes -> Int]
    /\ fresh \subseteq Nodes
    /\ stop \in [Nodes -> BOOLEAN]
    /\ scheduled \in [Nodes -> BOOLEAN]
    /\ nextId \in 1 .. MaxTasks + 1
    /\ \A n \in listed : id[n] \in 1 .. nextId - 1
    /\ ticking \in BOOLEAN
    /\ todo \subseteq listed
    /\ pool \in Seq(Nodes)
    /\ at \in [Workers -> {"idle", "callback", "thrown", "stopped"}]
    /\ on \in [Workers -> Nodes \cup {NoNode}]
    /\ runs \in [Workers -> 0 .. MaxTasks]
    /\ state \in {"up", "terminating", "draining", "freed"}
    /\ looping \in BOOLEAN
    /\ removed \in [Ids -> {"no", "true", "false"}]
    /\ ran \subseteq Ids

\* The constructor: the thread and the pool exist, the list is empty.
Init ==
    /\ listed = {}
    /\ id = [n \in Nodes |-> 0]
    /\ left = [n \in Nodes |-> 0]
    /\ fresh = {}
    /\ stop = [n \in Nodes |-> FALSE]
    /\ scheduled = [n \in Nodes |-> FALSE]
    /\ nextId = 1
    /\ ticking = FALSE
    /\ todo = {}
    /\ pool = <<>>
    /\ at = [w \in Workers |-> "idle"]
    /\ on = [w \in Workers |-> NoNode]
    /\ runs = [w \in Workers |-> 0]
    /\ state = "up"
    /\ looping = TRUE
    /\ removed = [i \in Ids |-> "no"]
    /\ ran = {}

-----------------------------------------------------------------------------
(* The clients: add_task, remove_task *)

ClientMayCall == ~ticking /\ state \in {"up", "terminating"}

NextId == nextId + 1

\* The value was checked before; the new element of the list is placed at any
\* address that is free.
AddTask(n) ==
    /\ ClientMayCall
    /\ nextId \in Ids
    /\ n \notin listed
    /\ listed' = listed \cup {n}
    /\ id' = [id EXCEPT ![n] = nextId]
    /\ left' = [left EXCEPT ![n] = 0]
    /\ fresh' = fresh \cup {n}
    /\ stop' = [stop EXCEPT ![n] = FALSE]
    /\ scheduled' = [scheduled EXCEPT ![n] = FALSE]
    /\ nextId' = NextId
    /\ UNCHANGED <<ticking, todo, pool, workerVars, state, looping, removed, ran>>

Queued(n) == \E i \in DOMAIN pool : pool[i] = n

\* g_thread_pool_move_to_front: the first entry for n, if there is one.
MovedToFront(n) ==
    IF Queued(n)
    THEN LET i == CHOOSE i \in DOMAIN pool :
                      pool[i] = n /\ \A j \in DOMAIN pool : pool[j] = n => i <= j
         IN  <<n>> \o SubSeq(pool, 1, i - 1) \o SubSeq(pool, i + 1, Len(pool))
    ELSE pool

MarkStopped_Missing(n) == UNCHANGED stop
MarkStopped(n) == stop' = [stop EXCEPT ![n] = TRUE]

\* An id that is not in the list changes nothing.  Clients forget an id they
\* have removed (bound: one removal of each).
RemoveTask(n) ==
    /\ ClientMayCall
    /\ n \in listed
    /\ removed[id[n]] = "no"
    /\ RemoveAnyTime \/ ~scheduled[n]
    /\ MarkStopped(n)
    /\ pool' = MovedToFront(n)
    /\ removed' = [removed EXCEPT ![id[n]] = IF Queued(n) THEN "false" ELSE "true"]
    /\ UNCHANGED <<listed, id, left, fresh, scheduled, nextId, ticking, todo,
                   workerVars, state, looping, ran>>

-----------------------------------------------------------------------------
(* main_loop *)

Later(m, n) == IF m < n THEN n ELSE m

\* The loop wakes up, takes the lock and gives new tasks their first time.
TickBegin ==
    /\ looping
    /\ ~ticking
    /\ state = "up"
    /\ ticking' = TRUE
    /\ todo' = listed
    /\ \E sleep \in 1 .. MaxSleep :
           left' = [n \in Nodes |->
                       IF n \notin listed THEN left[n]
                       ELSE IF n \in fresh THEN Wait[id[n]]
                       ELSE Later(left[n] - sleep, -MaxLate)]
    /\ fresh' = {}
    /\ UNCHANGED <<listed, id, stop, scheduled, nextId, pool, workerVars, state,
                   looping, removed, ran>>

Due_EvenScheduled(n) == left[n] <= 0 /\ ~stop[n]
Due(n) == ~scheduled[n] /\ left[n] <= 0 /\ ~stop[n]

Pushed(n) == Append(pool, n)

\* One round of the loop over the tasks.
Visit(n) ==
    /\ ticking
    /\ n \in todo
    /\ state = "up"
    /\ todo' = todo \ {n}
    /\ IF Due(n)
       THEN /\ scheduled' = [scheduled EXCEPT ![n] = TRUE]
            /\ left' = [left EXCEPT ![n] = @ + Wait[id[n]]]
            /\ pool' = Pushed(n)
       ELSE UNCHANGED <<scheduled, left, pool>>
    /\ UNCHANGED <<listed, id, fresh, stop, nextId, ticking, workerVars, state,
                   looping, removed, ran>>

IsStopped_OrScheduledOnce(n) == stop[n] \/ (scheduled[n] /\ id[n] \in SingleShot)
IsStopped_Never(n) == FALSE
IsStopped(n) == stop[n]

\* The loop is over or broken off: remove_if, and the lock is released.
TickEnd ==
    /\ ticking
    /\ todo = {} \/ state # "up"
    /\ listed' = {n \in listed : ~IsStopped(n)}
    /\ ticking' = FALSE
    /\ todo' = {}
    /\ UNCHANGED <<taskVars, nextId, pool, workerVars, state, looping, removed,
                   ran>>

Exiting_WithoutTasks == state # "up" /\ listed = {}
Exiting == state # "up"

LoopExit ==
    /\ looping
    /\ ~ticking
    /\ Exiting
    /\ looping' = FALSE
    /\ UNCHANGED <<listed, taskVars, nextId, ticking, todo, pool, workerVars,
                   state, removed, ran>>

-----------------------------------------------------------------------------
(* pool_function in a thread of the pool *)

TakeItem(w) ==
    /\ at[w] = "idle"
    /\ pool # <<>>
    /\ state \in {"up", "terminating"}
    /\ pool' = Tail(pool)
    /\ at' = [at EXCEPT ![w] = "callback"]
    /\ on' = [on EXCEPT ![w] = Head(pool)]
    /\ runs' = [runs EXCEPT ![w] = id[Head(pool)]]
    /\ UNCHANGED <<listed, taskVars, nextId, ticking, todo, state, looping,
                   removed, ran>>

Leave(w) ==
    /\ at' = [at EXCEPT ![w] = "idle"]
    /\ on' = [on EXCEPT ![w] = NoNode]
    /\ runs' = [runs EXCEPT ![w] = 0]
    /\ ran' = ran \cup {runs[w]}

Unschedule_Forgotten(n) == UNCHANGED scheduled
Unschedule(n) == scheduled' = [scheduled EXCEPT ![n] = FALSE]

StopFlag_NotSingleShot(n, doStop) == doStop
StopFlag(n, doStop) == doStop \/ id[n] \in SingleShot

\* The callback returns, or throws a std::exception (doStop, then).
Finish(w) ==
    /\ at[w] = "callback"
    /\ ~ticking
    /\ \E doStop \in BOOLEAN :
           stop' = [stop EXCEPT ![on[w]] = StopFlag(on[w], doStop)]
    /\ Unschedule(on[w])
    /\ Leave(w)
    /\ UNCHANGED <<listed, id, left, fresh, nextId, ticking, todo, pool, state,
                   looping, removed>>

\* catch (...): the MutexLock is a temporary, which takes the lock and gives
\* it back before the two flags are written.
Throw(w) ==
    /\ UnknownErrors
    /\ at[w] = "callback"
    /\ ~ticking
    /\ at' = [at EXCEPT ![w] = "thrown"]
    /\ UNCHANGED <<listed, taskVars, nextId, ticking, todo, pool, on, runs,
                   state, looping, removed, ran>>

ThrownStops(w) ==
    /\ at[w] = "thrown"
    /\ stop' = [stop EXCEPT ![on[w]] = TRUE]
    /\ at' = [at EXCEPT ![w] = "stopped"]
    /\ UNCHANGED <<listed, id, left, fresh, scheduled, nextId, ticking, todo,
                   pool, on, runs, state, looping, removed, ran>>

ThrownLeaves(w) ==
    /\ at[w] = "stopped"
    /\ Unschedule(on[w])
    /\ Leave(w)
    /\ UNCHANGED <<listed, id, left, fresh, stop, nextId, ticking, todo, pool,
                   state, looping, removed>>

-----------------------------------------------------------------------------
(* ThreadedTimer::stop and the destructor *)

Stop ==
    /\ state = "up"
    /\ state' = "terminating"
    /\ UNCHANGED <<listed, taskVars, nextId, ticking, todo, pool, workerVars,
                   looping, removed, ran>>

\* The main loop is joined; g_thread_pool_free discards what is pending ...
Discard ==
    /\ state = "terminating"
    /\ ~looping
    /\ state' = "draining"
    /\ pool' = <<>>
    /\ UNCHANGED <<listed, taskVars, nextId, ticking, todo, workerVars, looping,
                   removed, ran>>

\* ... and waits for the workers.
AllIdle == \A w \in Workers : at[w] = "idle"
Free ==
    /\ state = "draining"
    /\ AllIdle
    /\ state' = "freed"
    /\ UNCHANGED <<listed, taskVars, nextId, ticking, todo, pool, workerVars,
                   looping, removed, ran>>

-----------------------------------------------------------------------------
MainLoop == TickBegin \/ (\E n \in Nodes : Visit(n)) \/ TickEnd \/ LoopExit

Worker(w) == TakeItem(w) \/ Finish(w) \/ Throw(w) \/ ThrownStops(w) \/ ThrownLeaves(w)

Destructor == Discard \/ Free

Next ==
    \/ \E n \in Nodes : AddTask(n) \/ RemoveTask(n)
    \/ MainLoop
    \/ \E w \in Workers : Worker(w)
    \/ Stop
    \/ Destructor

\* Threads that can move do; callbacks return.  A worker that waits for the
\* lock gets it: the main loop sleeps a whole period without it.
Fairness ==
    /\ WF_vars(MainLoop)
    /\ \A w \in Workers : WF_vars(Worker(w)) /\ SF_vars(Finish(w))
    /\ WF_vars(Destructor)

Spec == Init /\ [][Next]_vars /\ Fairness

-----------------------------------------------------------------------------
(* Safety.  The first two hold if clients only remove tasks that are neither *)
(* scheduled nor running, and callbacks throw nothing but std::exceptions;   *)
(* see what the definitions at the end say of the others.                    *)

Running(n) == \E w \in Workers : on[w] = n
Held(n) == Queued(n) \/ Running(n)

\* No node is erased while the pool knows its address, so a worker never
\* reads or writes a task that is gone, nor one that has taken its place.
HeldIsListed == \A n \in Nodes : Held(n) => n \in listed

\* A task is handed out once at a time: its callback never runs twice at the
\* same time, and the flag "scheduled" tells exactly whether it is held (until
\* the destructor discards what is pending).
HeldOnce ==
    /\ \A i, j \in DOMAIN pool : pool[i] = pool[j] => i = j
    /\ \A v, w \in Workers : on[v] = on[w] /\ on[v] # NoNode => v = w
    /\ \A n \in Nodes : ~(Queued(n) /\ Running(n))
    /\ state \in {"up", "terminating"} =>
           \A n \in listed : scheduled[n] <=> Held(n)

\* A task added with single_shot runs once: when its callback has returned it
\* is not handed out again.
SingleShotRunsOnce ==
    \A n \in Nodes : Held(n) => id[n] \notin SingleShot \cap ran

\* A task that was removed while it was neither scheduled nor running is never
\* handed out again.
RemovedNeverRuns ==
    [][\A n \in listed :
          removed[id[n]] # "no" /\ ~Held(n) => ~Held(n)']_vars

\* When stop() has returned no callback is running, and none will (checked as
\* a part of StopReturns).
NothingRunsAfterStop ==
    state = "freed" =>
        /\ \A w \in Workers : at[w] = "idle"
        /\ ~looping
        /\ pool = <<>>

(* Liveness *)

\* A task in the list is handed out and run again and again, until it is stopped or
\* the timer is: no task starves behind others that are always due.
TaskComesUp ==
    \A n \in Nodes : (n \in listed) ~> (Running(n) \/ stop[n] \/ state # "up")

\* A task that is stopped and not held leaves the list, which does not grow
\* for ever; the flag is not lost once nobody is in the callback.
StoppedIsErased ==
    \A n \in Nodes :
        (n \in listed /\ stop[n] /\ ~Held(n)) ~> (n \notin listed \/ state # "up")

\* stop() returns, whatever the main loop and the workers were doing, and
\* nothing runs from then on.
StopReturns ==
    [](NothingRunsAfterStop /\ (state = "terminating" => <>(state = "freed")))

(* What comments of the code promise and it does not keep *)

\* Lines 123-124: a removed task can finish if it is running, and is then
\* removed on the next run of the scheduler.
RemovedLeavesTheList ==
    [][\A n \in listed :
          removed[id[n]] # "no" /\ TickEnd => n \notin listed']_vars

\* Line 123: a running task that is removed can finish as usual.
RunningIsListed == \A n \in Nodes : Running(n) => n \in listed
=============================================================================
