------------------------------ MODULE OneShots ------------------------------
(***************************************************************************)
(* What GRTManager::run_once_when_idle promises: the tasks queued are run  *)
(* one after the other, in the order in which they were queued, each once, *)
(* unless they are disconnected before their turn or all are cancelled.    *)
(* Nothing is promised once a task has thrown.                             *)
(***************************************************************************)
EXTENDS Integers, Sequences, SequencesExt

CONSTANTS Tasks

VARIABLES
    pending,    \* the tasks that wait, in their order
    failed      \* a task has thrown

vars == <<pending, failed>>

Init ==
    /\ pending = <<>>
    /\ failed = FALSE

Queue(t) ==
    /\ pending' = Append(pending, t)
    /\ UNCHANGED failed

Run ==
    /\ pending # <<>>
    /\ pending' = Tail(pending)
    /\ UNCHANGED failed

Disconnect(t) ==
    /\ pending' = RemoveFirst(pending, t)
    /\ UNCHANGED failed

CancelAll ==
    /\ pending' = <<>>
    /\ UNCHANGED failed

Fail == failed'

Next ==
    \/ \E t \in Tasks : Queue(t) \/ Disconnect(t)
    \/ Run \/ CancelAll \/ Fail

Spec == Init /\ [][Next]_vars
=============================================================================
