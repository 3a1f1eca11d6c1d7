-------------------------- MODULE MCThreadedTimer --------------------------
(* Instances of ThreadedTimer for TLC *)
EXTENDS ThreadedTimer, TLC

\* Wait times by id: every tick, every second tick, every tick.
Waits == [i \in Ids |-> IF i % 2 = 0 THEN 2 ELSE 1]

\* The nodes and the workers are interchangeable.
Symmetry == Permutations(Nodes) \cup Permutations(Workers)
=============================================================================
