---------------------------- MODULE EditHistory ----------------------------
(***************************************************************************)
(* What undo and redo promise the user: the contents the document had are  *)
(* a line, undo and redo move along it one step at a time, a new edit ends *)
(* it.  Contents may be forgotten at the far ends of the line, and only    *)
(* there.                                                                  *)
(***************************************************************************)
EXTENDS Naturals, Sequences

CONSTANT Blank      \* the content of a new document

VARIABLES past,     \* the contents undo can bring back, oldest first
          present,  \* the content as of the last completed operation
          future    \* the contents redo can bring back, the next one first

vars == <<past, present, future>>

Init == past = <<>> /\ present = Blank /\ future = <<>>

Commit ==
    /\ past' = Append(past, present)
    /\ future' = <<>>

Undo ==
    /\ past # <<>>
    /\ past = Append(past', present')
    /\ future' = <<present>> \o future

Redo ==
    /\ future # <<>>
    /\ future = <<present'>> \o future'
    /\ past' = Append(past, present)

\* past keeps its end, future is kept or dropped
Forget ==
    /\ \E n \in 0 .. Len(past) : past' = SubSeq(past, n + 1, Len(past))
    /\ future' \in {future, <<>>}
    /\ UNCHANGED present

\* another document
Close == past' = <<>> /\ present' = Blank /\ future' = <<>>

Next == Commit \/ Undo \/ Redo \/ Forget \/ Close

Spec == Init /\ [][Next]_vars
=============================================================================
