---------------------------- MODULE MCGRTManager ----------------------------
(***************************************************************************)
(* Both halves of bec::GRTManager for TLC: its idle tasks and its timers.  *)
(* They share no state, so that their interleavings show nothing that each *)
(* does not show alone: a behaviour is one of the first or of the second.  *)
(***************************************************************************)
EXTENDS IdleTasks, ManagerTimers

VARIABLES
    half        \* which of the two a behaviour is about

\* One client asks for every second, the other for every other second.
Intervals ==
    [c \in Clients |-> IF c = CHOOSE d \in Clients : TRUE THEN 1 ELSE 2]

ASSUME TimersAssumption

InitBoth ==
    /\ half \in {"idle tasks", "timers"}
    /\ Init
    /\ TimersInit

NextOfOne ==
    /\ UNCHANGED half
    /\ \/ half = "idle tasks" /\ Next /\ UNCHANGED timerVars
       \/ half = "timers" /\ TimersNext /\ UNCHANGED vars

\* What is fair in one half is not enabled in the initial state of the other.
SpecBoth ==
    /\ InitBoth
    /\ [][NextOfOne]_<<half, vars, timerVars>>
    /\ Fairness
    /\ TimersFairness

\* What waits for the main loop comes up, idle tasks and timers alike.
ComesUp == QueuedIsCalled /\ TimerComesUp
=============================================================================
