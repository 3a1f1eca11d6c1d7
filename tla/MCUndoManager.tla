--------------------------- MODULE MCUndoManager ---------------------------
(* Instances of UndoManager for TLC *)
EXTENDS UndoManager, TLC

\* Values and addresses are interchangeable.
Symmetry == Permutations(Values) \cup Permutations(Addresses)
=============================================================================
