----------------------------- MODULE IdleTasks -----------------------------
(***************************************************************************)
(* The idle tasks of backend/wbpublic/grt/grt_manager.cpp.  Any thread     *)
(* queues a function that the main thread is to run once when it is idle.  *)
(* There are two signals: one collects new functions while the slots of    *)
(* the other are called, and the two change places at each run.            *)
(*                                                                         *)
(* A slot may do what the main thread does: queue, disconnect, open a      *)
(* document (which blocks the idle tasks and shows dialogs), and run the   *)
(* idle tasks again, which must then do nothing.                           *)
(***************************************************************************)
EXTENDS Integers, Sequences, FiniteSets, SequencesExt

CONSTANTS
    Tasks,      \* the functions that are queued, each once
    Throwers,   \* those that throw
    Nothing,    \* the function connected to release the others
    NoTask      \* no slot is called

ASSUME IdleAssumption ==
    /\ Throwers \subseteq Tasks
    /\ Nothing \notin Tasks
    /\ NoTask \notin Tasks \cup {Nothing}

Signals == {0, 1}

VARIABLES
    slots,      \* _idle_signals: the slots of each signal
    current,    \* _current_idle_signal
    blocked,    \* _idle_blocked
    locked,     \* _idle_task_blocker_mutex is taken
    emitting,   \* a signal is being emitted: flipped is still to come, or not
    todo,       \* the slots the emission has still to call
    running,    \* the slot being called
    loading,    \* WBContext::open_document is between block and unblock
    fresh,      \* history: the functions not queued so far
    dropped,    \* history: those disconnected or cancelled before their turn
    done,       \* history: those called
    failed      \* history: a slot has thrown

callVars == <<locked, emitting, todo, running>>
history == <<fresh, dropped, done, failed>>
vars == <<slots, current, blocked, callVars, loading, history>>

TypeOK ==
    /\ slots \in [Signals -> Seq(Tasks \cup {Nothing})]
    /\ current \in Signals
    /\ blocked \in Nat
    /\ locked \in BOOLEAN
    /\ emitting \in {"no", "blocked", "calling"}
    /\ todo \in Seq(Tasks \cup {Nothing})
    /\ running \in Tasks \cup {Nothing, NoTask}
    /\ loading \in BOOLEAN
    /\ fresh \subseteq Tasks
    /\ dropped \subseteq Tasks
    /\ done \subseteq Tasks
    /\ failed \in BOOLEAN

Other(s) == 1 - s

Init ==
    /\ slots = [s \in Signals |-> <<>>]
    /\ current = 0
    /\ blocked = 0
    /\ locked = FALSE
    /\ emitting = "no"
    /\ todo = <<>>
    /\ running = NoTask
    /\ loading = FALSE
    /\ fresh = Tasks
    /\ dropped = {}
    /\ done = {}
    /\ failed = FALSE

-----------------------------------------------------------------------------
(* Any thread *)

\* The slots of the current signal after t was connected to it
Connected_AtFront(t) == <<t>> \o slots[current]
Connected(t) == Append(slots[current], t)

\* run_once_when_idle
Queue(t) ==
    /\ t \in fresh
    /\ fresh' = fresh \ {t}
    /\ slots' = [slots EXCEPT ![current] = Connected(t)]
    /\ UNCHANGED <<current, blocked, callVars, loading, dropped, done, failed>>

Waiting == Tasks \ (fresh \cup dropped \cup done)

\* The owner of a queued function goes, or disconnects it.  A slot that is
\* disconnected is not called any more by an emission under way.
Disconnect(t) ==
    /\ t \in Tasks \ (fresh \cup dropped)
    /\ slots' = [s \in Signals |-> RemoveFirst(slots[s], t)]
    /\ todo' = RemoveFirst(todo, t)
    /\ dropped' = dropped \cup {t}
    /\ UNCHANGED <<current, blocked, locked, emitting, running, loading, fresh,
                   done, failed>>

-----------------------------------------------------------------------------
(* The main thread: perform_idle_tasks *)

Quiet == ~locked /\ blocked = 0

Unblocked_Kept == blocked
Unblocked == blocked - 1

\* From the main loop, or from a slot (the wizards' progress page).
PerformBegin ==
    /\ Quiet
    /\ slots[current] # <<>>
    /\ locked' = TRUE
    /\ blocked' = blocked + 1
    /\ emitting' = "blocked"
    /\ UNCHANGED <<slots, current, todo, running, loading, history>>

\* Under _idle_mutex; the emission takes the slots that are connected then.
Flip ==
    /\ emitting = "blocked"
    /\ emitting' = "calling"
    /\ current' = Other(current)
    /\ todo' = slots[current]
    /\ UNCHANGED <<slots, blocked, locked, running, loading, history>>

CallSlot ==
    /\ emitting = "calling"
    /\ running = NoTask
    /\ todo # <<>>
    /\ running' = Head(todo)
    /\ todo' = Tail(todo)
    /\ done' = done \cup ({Head(todo)} \cap Tasks)
    /\ UNCHANGED <<slots, current, blocked, locked, emitting, loading, fresh,
                   dropped, failed>>

SlotReturns ==
    /\ running \notin Throwers \cup {NoTask}
    /\ ~loading
    /\ running' = NoTask
    /\ UNCHANGED <<slots, current, blocked, locked, emitting, todo, loading,
                   history>>

\* catch (...): the slots stay connected.
SlotThrows ==
    /\ running \in Throwers
    /\ ~loading
    /\ running' = NoTask
    /\ todo' = <<>>
    /\ emitting' = "no"
    /\ blocked' = Unblocked
    /\ locked' = FALSE
    /\ failed' = TRUE
    /\ UNCHANGED <<slots, current, loading, fresh, dropped, done>>

\* The signal that is done with
Spent_Current == current
Spent == Other(current)

\* disconnect_all_slots, and the dummy connection that frees the old ones.
PerformEnd ==
    /\ emitting = "calling"
    /\ running = NoTask
    /\ todo = <<>>
    /\ slots' = [slots EXCEPT ![Spent] = <<Nothing>>]
    /\ emitting' = "no"
    /\ blocked' = Unblocked
    /\ locked' = FALSE
    /\ UNCHANGED <<current, todo, running, loading, history>>

-----------------------------------------------------------------------------
(* The main thread, from its loop or from a slot *)

MainIsFree == emitting = "no" \/ running # NoTask

\* cancel_idle_tasks: returns without effect while anybody blocks.
CancelAll ==
    /\ MainIsFree
    /\ blocked = 0
    /\ current' = 0
    /\ slots' = [s \in Signals |-> <<>>]
    /\ dropped' = dropped \cup Waiting
    /\ UNCHANGED <<blocked, callVars, loading, fresh, done, failed>>

\* WBContext::open_document, around the loading of the file
LoadBegin ==
    /\ MainIsFree
    /\ ~loading
    /\ loading' = TRUE
    /\ blocked' = blocked + 1
    /\ UNCHANGED <<slots, current, callVars, history>>

LoadEnd ==
    /\ MainIsFree
    /\ loading
    /\ loading' = FALSE
    /\ blocked' = Unblocked
    /\ UNCHANGED <<slots, current, callVars, history>>

-----------------------------------------------------------------------------
Perform ==
    \/ PerformBegin \/ Flip \/ CallSlot
    \/ SlotReturns \/ SlotThrows \/ PerformEnd

Next ==
    \/ Perform
    \/ CancelAll \/ LoadBegin \/ LoadEnd
    \/ \E t \in Tasks : Queue(t) \/ Disconnect(t)

\* The main loop is idle again and again, between two files that are loaded,
\* too; slots return.
Fairness == SF_vars(Perform) /\ WF_vars(LoadEnd)

Spec == Init /\ [][Next]_vars /\ Fairness

-----------------------------------------------------------------------------
(* Properties *)

\* Nothing that was queued gets lost, whatever throws: a function that was
\* neither called nor disconnected is still connected (the two signals of
\* perform_idle_tasks change places before the slots are called).
NothingLost ==
    \A t \in Waiting : \E s \in Signals : t \in ToSet(slots[s])

\* The refinement: the slots an emission has still to call come before those
\* that were queued since; the dummy of an emission is nobody's task.
First == IF emitting = "calling" THEN todo ELSE slots[Other(current)]
Pending == RemoveFirst(First, Nothing) \o RemoveFirst(slots[current], Nothing)

Promise == INSTANCE OneShots WITH pending <- Pending

\* Until a slot throws, every function is called once and in its turn, and
\* none that was disconnected or cancelled, by a slot called before it, too.
ImplementsOneShots == Promise!Spec

\* As long as no slot throws, what was queued is called, disconnected or
\* cancelled in the end: every block is taken back, by the emissions and by
\* the loading of a file, in whatever order they end.
QueuedIsCalled ==
    [](~failed) => \A t \in Tasks : t \in Waiting ~> t \notin Waiting
=============================================================================
