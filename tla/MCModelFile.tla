---------------------------- MODULE MCModelFile ----------------------------
(* Instances of ModelFile for TLC *)
EXTENDS ModelFile, TLC

CONSTANTS i1, i2

\* The instances of the program are interchangeable.
Symmetry == Permutations(Instances)
=============================================================================
