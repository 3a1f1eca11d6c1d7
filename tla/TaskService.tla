----------------------------- MODULE TaskService -----------------------------
(***************************************************************************)
(* What a GRTDispatcher promises its clients, without threads, queues of   *)
(* callbacks or handlers: tasks wait in the order of their submission, one *)
(* of them runs at a time, a running task may run further tasks inside it, *)
(* a task's outcome is decided by its function and reported afterwards.    *)
(***************************************************************************)
EXTENDS Naturals, Sequences

CONSTANTS Tasks,      \* the task objects
          Immediate   \* submitting a task runs it at once (no worker thread)

VARIABLES order,      \* the tasks that wait, first one first
          running,    \* the nest of running tasks, innermost first
          submitted,  \* the tasks handed over so far
          cancelled,  \* those that the client cancelled
          outcome,    \* how the function of each task ended
          reported    \* tasks that are finished for their clients

vars == <<order, running, submitted, cancelled, outcome, reported>>

Outcomes == {"none", "ok", "failed"}

Init ==
    /\ order = <<>>
    /\ running = <<>>
    /\ submitted = {}
    /\ cancelled = {}
    /\ outcome = [t \in Tasks |-> "none"]
    /\ reported = {}

Enqueue(t) ==
    /\ t \notin submitted
    /\ submitted' = submitted \cup {t}
    /\ order' = Append(order, t)
    /\ UNCHANGED <<running, cancelled, outcome, reported>>

RunNow(t) ==
    /\ Immediate \/ running # <<>>
    /\ t \notin submitted
    /\ submitted' = submitted \cup {t}
    /\ running' = <<t>> \o running
    /\ UNCHANGED <<order, cancelled, outcome, reported>>

Cancel(t) ==
    /\ t \notin cancelled
    /\ cancelled' = cancelled \cup {t}
    /\ UNCHANGED <<order, running, submitted, outcome, reported>>

\* The first task in the order starts when nothing runs, or is dropped.
Start ==
    /\ running = <<>>
    /\ order # <<>>
    /\ order' = Tail(order)
    /\ running' = IF Head(order) \in cancelled THEN <<>> ELSE <<Head(order)>>
    /\ UNCHANGED <<submitted, cancelled, outcome, reported>>

Decide(r) ==
    /\ running # <<>>
    /\ outcome[Head(running)] = "none"
    /\ outcome' = [outcome EXCEPT ![Head(running)] = r]
    /\ reported' \in {reported, reported \cup {Head(running)}}
    /\ UNCHANGED <<order, running, submitted, cancelled>>

Leave ==
    /\ running # <<>>
    /\ outcome[Head(running)] # "none"
    /\ running' = Tail(running)
    /\ UNCHANGED <<order, submitted, cancelled, outcome, reported>>

Report(t) ==
    /\ outcome[t] # "none"
    /\ t \notin reported
    /\ reported' = reported \cup {t}
    /\ UNCHANGED <<order, running, submitted, cancelled, outcome>>

Decision == \E r \in Outcomes \ {"none"} : Decide(r)

Next ==
    \/ \E t \in Tasks : Enqueue(t) \/ RunNow(t) \/ Cancel(t) \/ Report(t)
    \/ Start
    \/ Decision
    \/ Leave

Fairness ==
    /\ WF_vars(Start)
    /\ WF_vars(Decision)
    /\ WF_vars(Leave)
    /\ \A t \in Tasks : WF_vars(Report(t))

Spec == Init /\ [][Next]_vars /\ Fairness
=============================================================================
