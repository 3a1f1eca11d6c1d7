---------------------------- MODULE MCDispatcher ----------------------------
(***************************************************************************)
(* Instances of Dispatcher for TLC.  The tasks of one kind are             *)
(* interchangeable, which the runs of safety properties use.               *)
(***************************************************************************)
EXTENDS Dispatcher, TLC

Symmetry == Permutations(SimpleTasks) \cup Permutations(Tasks \ SimpleTasks)
=============================================================================
