---------------------------- MODULE MCSSHTunnels ----------------------------
(* An instance of SSHTunnels for TLC *)
EXTENDS SSHTunnels

CONSTANTS c1, c2, c3

\* Two callers want the same tunnel, the third one another.
SameAndOther == [c \in Callers |-> IF c = c3 THEN "other" ELSE "same"]
=============================================================================
