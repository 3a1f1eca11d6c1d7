------------------------- MODULE UndoManagerProofs -------------------------
(***************************************************************************)
(* Proofs about the lists and the undo manager, for every limit, document  *)
(* and nesting: the undo of a recorded change gives back the list, the     *)
(* undo stack stays within the limit, changes are tracked exactly while    *)
(* groups are open, no operation of the manager throws, undo and redo      *)
(* implement the edit history, and a document that is not reported to have *)
(* unsaved changes is what was saved.                                      *)
(***************************************************************************)
EXTENDS UndoManager, SequenceTheorems, FunctionTheorems, FiniteSetTheorems, TLAPS

-----------------------------------------------------------------------------
(* The changes of a list: lemmas about the sequence operators they are made*)
(* of, and the undo of a recorded change.                                  *)

\* Sequences are equal if their items are.
LEMMA SameItems ==
    ASSUME NEW S, NEW s \in Seq(S), NEW t \in Seq(S), Len(s) = Len(t),
           \A i \in 1 .. Len(s) : s[i] = t[i]
    PROVE  s = t
  BY SeqEqual

\* An item is inserted at position i, and those from i on move up.
LEMMA InsertAtItems ==
    ASSUME NEW S, NEW s \in Seq(S), NEW i \in 1 .. Len(s) + 1, NEW e \in S
    PROVE  /\ InsertAt(s, i, e) \in Seq(S)
           /\ Len(InsertAt(s, i, e)) = Len(s) + 1
           /\ \A j \in 1 .. Len(s) + 1 :
                 InsertAt(s, i, e)[j] =
                    IF j < i THEN s[j] ELSE IF j = i THEN e ELSE s[j - 1]
<1> DEFINE front == SubSeq(s, 1, i - 1)
           back == SubSeq(s, i, Len(s))
           first == front \o <<e>>
<1>1. /\ Len(s) \in Nat
      /\ \A k \in 1 .. Len(s) : s[k] \in S
  BY LenProperties, ElementOfSeq
<1>2. /\ front \in Seq(S)
      /\ Len(front) = i - 1
      /\ \A j \in 1 .. i - 1 : front[j] = s[j]
  BY <1>1, SubSeqProperties
<1>3. /\ back \in Seq(S)
      /\ Len(back) = Len(s) - i + 1
      /\ \A j \in 1 .. Len(s) - i + 1 : back[j] = s[i + j - 1]
  BY <1>1, SubSeqProperties
<1>4. <<e>> \in Seq(S) /\ Len(<<e>>) = 1 /\ <<e>>[1] = e
  OBVIOUS
<1> HIDE DEF front, back
<1>5. /\ first \in Seq(S)
      /\ Len(first) = i
      /\ \A j \in 1 .. i : first[j] = IF j < i THEN s[j] ELSE e
  <2>1. /\ first \in Seq(S)
        /\ Len(first) = Len(front) + 1
        /\ \A j \in 1 .. Len(front) + 1 :
              first[j] = IF j <= Len(front) THEN front[j] ELSE <<e>>[j - Len(front)]
    BY <1>2, <1>4, ConcatProperties
  <2>2. Len(front) + 1 = i
    BY <1>1, <1>2
  <2> HIDE DEF first
  <2>3. ASSUME NEW j \in 1 .. i
        PROVE  first[j] = IF j < i THEN s[j] ELSE e
    <3>1. CASE j < i
      BY <1>1, <1>2, <2>1, <2>2, <3>1
    <3>2. CASE j = i
      BY <1>1, <1>2, <1>4, <2>1, <2>2, <3>2
    <3> QED  BY <1>1, <3>1, <3>2
  <2> QED  BY <2>1, <2>2, <2>3
<1> HIDE DEF first
<1>6. /\ first \o back \in Seq(S)
      /\ Len(first \o back) = Len(s) + 1
      /\ \A j \in 1 .. Len(s) + 1 :
            (first \o back)[j] = IF j <= i THEN first[j] ELSE back[j - i]
  <2>1. /\ first \o back \in Seq(S)
        /\ Len(first \o back) = Len(first) + Len(back)
        /\ \A j \in 1 .. Len(first) + Len(back) : (first \o back)[j] =
              IF j <= Len(first) THEN first[j] ELSE back[j - Len(first)]
    BY <1>1, <1>3, <1>5, ConcatProperties
  <2>2. Len(first) + Len(back) = Len(s) + 1
    BY <1>1, <1>3, <1>5
  <2> QED  BY <1>1, <1>3, <1>5, <2>1, <2>2
<1>7. InsertAt(s, i, e) = first \o back
  BY DEF InsertAt, first, front, back
<1> QED
  BY <1>1, <1>3, <1>5, <1>6, <1>7

\* The item at position i goes, and those behind it move down.
LEMMA RemoveAtItems ==
    ASSUME NEW S, NEW s \in Seq(S), NEW i \in 1 .. Len(s)
    PROVE  /\ RemoveAt(s, i) \in Seq(S)
           /\ Len(RemoveAt(s, i)) = Len(s) - 1
           /\ \A j \in 1 .. Len(s) - 1 :
                 RemoveAt(s, i)[j] = IF j < i THEN s[j] ELSE s[j + 1]
<1> DEFINE front == SubSeq(s, 1, i - 1)
           back == SubSeq(s, i + 1, Len(s))
<1>1. /\ Len(s) \in Nat
      /\ \A k \in 1 .. Len(s) : s[k] \in S
  BY LenProperties, ElementOfSeq
<1>2. /\ front \in Seq(S)
      /\ Len(front) = i - 1
      /\ \A j \in 1 .. i - 1 : front[j] = s[j]
  BY <1>1, SubSeqProperties
<1>3. /\ back \in Seq(S)
      /\ Len(back) = Len(s) - i
      /\ \A j \in 1 .. Len(s) - i : back[j] = s[i + j]
  BY <1>1, SubSeqProperties
<1> HIDE DEF front, back
<1>4. /\ front \o back \in Seq(S)
      /\ Len(front \o back) = Len(s) - 1
      /\ \A j \in 1 .. Len(s) - 1 :
            (front \o back)[j] = IF j <= i - 1 THEN front[j] ELSE back[j - (i - 1)]
  <2>1. /\ front \o back \in Seq(S)
        /\ Len(front \o back) = Len(front) + Len(back)
        /\ \A j \in 1 .. Len(front) + Len(back) : (front \o back)[j] =
              IF j <= Len(front) THEN front[j] ELSE back[j - Len(front)]
    BY <1>1, <1>2, <1>3, ConcatProperties
  <2>2. Len(front) + Len(back) = Len(s) - 1
    BY <1>1, <1>2, <1>3
  <2> QED  BY <1>1, <1>2, <1>3, <2>1, <2>2
<1>5. RemoveAt(s, i) = front \o back
  BY DEF RemoveAt, front, back
<1> QED
  BY <1>1, <1>2, <1>3, <1>4, <1>5

\* To append is to insert behind the last item.
LEMMA AppendIsInsert ==
    ASSUME NEW S, NEW s \in Seq(S), NEW e \in S
    PROVE  Append(s, e) = InsertAt(s, Len(s) + 1, e)
<1>1. Len(s) \in Nat
  BY LenProperties
<1>2. /\ Append(s, e) \in Seq(S)
      /\ Len(Append(s, e)) = Len(s) + 1
      /\ \A j \in 1 .. Len(s) + 1 :
            Append(s, e)[j] = IF j <= Len(s) THEN s[j] ELSE e
  BY <1>1, AppendProperties
<1>3. /\ InsertAt(s, Len(s) + 1, e) \in Seq(S)
      /\ Len(InsertAt(s, Len(s) + 1, e)) = Len(s) + 1
      /\ \A j \in 1 .. Len(s) + 1 :
            InsertAt(s, Len(s) + 1, e)[j] =
                IF j < Len(s) + 1 THEN s[j] ELSE IF j = Len(s) + 1 THEN e ELSE s[j - 1]
  <2>1. Len(s) + 1 \in 1 .. Len(s) + 1
    BY <1>1
  <2> DEFINE i == Len(s) + 1
  <2> HIDE DEF i
  <2>2. i \in 1 .. Len(s) + 1
    BY <2>1 DEF i
  <2>3. /\ InsertAt(s, i, e) \in Seq(S)
        /\ Len(InsertAt(s, i, e)) = Len(s) + 1
        /\ \A j \in 1 .. Len(s) + 1 :
              InsertAt(s, i, e)[j] =
                 IF j < i THEN s[j] ELSE IF j = i THEN e ELSE s[j - 1]
    BY <2>2, InsertAtItems
  <2> QED  BY <2>3 DEF i
<1>4. \A j \in 1 .. Len(s) + 1 : Append(s, e)[j] = InsertAt(s, Len(s) + 1, e)[j]
  BY <1>1, <1>2, <1>3
<1> QED
  BY <1>2, <1>3, <1>4, SameItems

\* Removing what was inserted gives back the list.
LEMMA RemoveInserted ==
    ASSUME NEW S, NEW s \in Seq(S), NEW i \in 1 .. Len(s) + 1, NEW e \in S
    PROVE  /\ RemoveAt(InsertAt(s, i, e), i) = s
           /\ InsertAt(s, i, e)[i] = e
<1> DEFINE t == InsertAt(s, i, e)
<1>1. Len(s) \in Nat
  BY LenProperties
<1>2. /\ t \in Seq(S)
      /\ Len(t) = Len(s) + 1
      /\ \A j \in 1 .. Len(s) + 1 :
            t[j] = IF j < i THEN s[j] ELSE IF j = i THEN e ELSE s[j - 1]
  BY InsertAtItems
<1> HIDE DEF t
<1>3. /\ RemoveAt(t, i) \in Seq(S)
      /\ Len(RemoveAt(t, i)) = Len(s)
      /\ \A j \in 1 .. Len(s) : RemoveAt(t, i)[j] = IF j < i THEN t[j] ELSE t[j + 1]
  <2>1. i \in 1 .. Len(t)
    BY <1>1, <1>2
  <2>2. /\ RemoveAt(t, i) \in Seq(S)
        /\ Len(RemoveAt(t, i)) = Len(t) - 1
        /\ \A j \in 1 .. Len(t) - 1 :
              RemoveAt(t, i)[j] = IF j < i THEN t[j] ELSE t[j + 1]
    BY <1>2, <2>1, RemoveAtItems
  <2> QED  BY <1>1, <1>2, <2>2
<1>4. \A j \in 1 .. Len(s) : RemoveAt(t, i)[j] = s[j]
  BY <1>1, <1>2, <1>3
<1>5. RemoveAt(t, i) = s
  BY <1>3, <1>4, SameItems
<1>6. t[i] = e
  BY <1>1, <1>2
<1> QED
  BY <1>5, <1>6 DEF t

\* Inserting what was removed gives back the list.
LEMMA InsertRemoved ==
    ASSUME NEW S, NEW s \in Seq(S), NEW i \in 1 .. Len(s)
    PROVE  InsertAt(RemoveAt(s, i), i, s[i]) = s
<1> DEFINE t == RemoveAt(s, i)
           e == s[i]
<1>1. Len(s) \in Nat /\ e \in S
  BY LenProperties, ElementOfSeq
<1>2. /\ t \in Seq(S)
      /\ Len(t) = Len(s) - 1
      /\ \A j \in 1 .. Len(s) - 1 : t[j] = IF j < i THEN s[j] ELSE s[j + 1]
  BY RemoveAtItems
<1>3. e = s[i]
  OBVIOUS
<1> HIDE DEF t, e
<1>4. /\ InsertAt(t, i, e) \in Seq(S)
      /\ Len(InsertAt(t, i, e)) = Len(s)
      /\ \A j \in 1 .. Len(s) :
            InsertAt(t, i, e)[j] = IF j < i THEN t[j] ELSE IF j = i THEN e ELSE t[j - 1]
  <2>1. i \in 1 .. Len(t) + 1
    BY <1>1, <1>2
  <2>2. /\ InsertAt(t, i, e) \in Seq(S)
        /\ Len(InsertAt(t, i, e)) = Len(t) + 1
        /\ \A j \in 1 .. Len(t) + 1 :
              InsertAt(t, i, e)[j] = IF j < i THEN t[j] ELSE IF j = i THEN e ELSE t[j - 1]
    BY <1>1, <1>2, <2>1, InsertAtItems
  <2> QED  BY <1>1, <1>2, <2>2
<1>5. ASSUME NEW j \in 1 .. Len(s)
      PROVE  InsertAt(t, i, e)[j] = s[j]
  <2>1. CASE j < i
    BY <1>1, <1>2, <1>4, <2>1
  <2>2. CASE j = i
    BY <1>1, <1>3, <1>4, <2>2
  <2>3. CASE j > i
    <3>1. j - 1 \in 1 .. Len(s) - 1 /\ ~(j - 1 < i)
      BY <1>1, <2>3
    <3>2. t[j - 1] = s[j]
      BY <1>1, <1>2, <3>1
    <3> QED  BY <1>1, <1>4, <2>3, <3>2
  <2> QED  BY <1>1, <2>1, <2>2, <2>3
<1>6. InsertAt(t, i, e) = s
  BY <1>4, <1>5, SameItems
<1> QED
  BY <1>6 DEF t, e

\* A reorder within the list takes an item out and inserts it again.
LEMMA ReorderedInserts ==
    ASSUME NEW S, NEW s \in Seq(S), NEW from \in 0 .. Len(s) - 1,
           NEW to \in 0 .. Len(s) - 1
    PROVE  /\ Reordered(s, from, to) = InsertAt(RemoveAt(s, from + 1), to + 1, s[from + 1])
           /\ RemoveAt(s, from + 1) \in Seq(S)
           /\ Len(RemoveAt(s, from + 1)) = Len(s) - 1
           /\ s[from + 1] \in S
<1> DEFINE rest == RemoveAt(s, from + 1)
           e == s[from + 1]
<1>1. Len(s) \in Nat /\ from + 1 \in 1 .. Len(s)
  BY LenProperties
<1>2. e \in S
  BY <1>1, ElementOfSeq
<1>3. rest \in Seq(S) /\ Len(rest) = Len(s) - 1
  BY <1>1, RemoveAtItems
<1>4. Reordered(s, from, to) =
        IF to >= Len(rest) THEN Append(rest, e) ELSE InsertAt(rest, to + 1, e)
  BY DEF Reordered
<1> HIDE DEF rest, e
<1>5. to >= Len(rest) => to + 1 = Len(rest) + 1
  BY <1>1, <1>3
<1>6. Append(rest, e) = InsertAt(rest, Len(rest) + 1, e)
  BY <1>2, <1>3, AppendIsInsert
<1>7. Reordered(s, from, to) = InsertAt(rest, to + 1, e)
  BY <1>4, <1>5, <1>6
<1> QED
  BY <1>2, <1>3, <1>7 DEF rest, e

-----------------------------------------------------------------------------
(* The four undo actions of a list *)

\* UndoListInsertAction::undo removes what insert_unchecked inserted.
LEMMA UndoneInsert ==
    ASSUME NEW S, NEW list \in Seq(S), NEW v \in S, NEW at \in Npos .. Len(list)
    PROVE  LET c == ListInsert(at, v)
           IN  Undone(Changed(list, c), Recorded(list, c)) = list
<1> DEFINE c == ListInsert(at, v)
           i == IF at = Npos THEN Len(list) + 1 ELSE at + 1
           after == InsertAt(list, i, v)
<1>1. Len(list) \in Nat
  BY LenProperties
<1>2. i \in 1 .. Len(list) + 1 /\ (at = Npos => i = Len(list) + 1)
  BY <1>1 DEF Npos
<1>3. Changed(list, c) = after
  <2>1. CASE at = Npos
    <3>1. Changed(list, c) = Append(list, v)
      BY <2>1 DEF Changed, ListInsert
    <3> QED  BY <2>1, <3>1, AppendIsInsert
  <2>2. CASE at # Npos
    BY <2>2 DEF Changed, ListInsert
  <2> QED  BY <2>1, <2>2
<1>4. Len(after) = Len(list) + 1
  BY <1>2, InsertAtItems
<1> HIDE DEF after
<1>5. Undone(after, Recorded(list, c)) =
        RemoveAt(after, (IF at = Npos THEN Len(after) - 1 ELSE at) + 1)
  BY DEF Undone, Reverting, Recorded, Changed, ListInsert, ListRemove
<1>6. (IF at = Npos THEN Len(after) - 1 ELSE at) + 1 = i
  BY <1>1, <1>4 DEF Npos
<1>7. RemoveAt(after, i) = list
  BY <1>2, RemoveInserted DEF after
<1> QED
  BY <1>3, <1>5, <1>6, <1>7

\* UndoListRemoveAction::undo inserts the value that remove took out.
LEMMA UndoneRemove ==
    ASSUME NEW S, NEW list \in Seq(S), NEW at \in 0 .. Len(list) - 1
    PROVE  LET c == ListRemove(at)
           IN  Undone(Changed(list, c), Recorded(list, c)) = list
<1> DEFINE c == ListRemove(at)
           after == RemoveAt(list, at + 1)
<1>1. Len(list) \in Nat /\ at + 1 \in 1 .. Len(list) /\ at # Npos
  BY LenProperties DEF Npos
<1>2. Changed(list, c) = after
  BY DEF Changed, ListRemove
<1> HIDE DEF after
<1>3. Undone(after, Recorded(list, c)) = InsertAt(after, at + 1, list[at + 1])
  BY <1>1 DEF Undone, Reverting, Recorded, Changed, ListInsert, ListRemove
<1>4. InsertAt(after, at + 1, list[at + 1]) = list
  BY <1>1, InsertRemoved DEF after
<1> QED
  BY <1>2, <1>3, <1>4

\* UndoListSetAction::undo sets the value that set_unchecked replaced.
LEMMA UndoneSet ==
    ASSUME NEW S, NEW list \in Seq(S), NEW v \in S, NEW at \in 0 .. Len(list) - 1
    PROVE  LET c == ListSet(at, v)
           IN  Undone(Changed(list, c), Recorded(list, c)) = list
<1> DEFINE c == ListSet(at, v)
           after == [list EXCEPT ![at + 1] = v]
           back == [after EXCEPT ![at + 1] = list[at + 1]]
<1>1. Len(list) \in Nat /\ at + 1 \in 1 .. Len(list)
  BY LenProperties
<1>2. Undone(Changed(list, c), Recorded(list, c)) = back
  BY DEF Undone, Reverting, Recorded, Changed, ListSet, ReplaceAt
<1>3. /\ after \in Seq(S) /\ Len(after) = Len(list)
      /\ \A j \in 1 .. Len(list) : j # at + 1 => after[j] = list[j]
  BY <1>1, ExceptSeq
<1> HIDE DEF after
<1>4. list[at + 1] \in S
  BY <1>1, ElementOfSeq
<1>5. /\ back \in Seq(S) /\ Len(back) = Len(list)
      /\ \A j \in 1 .. Len(list) :
            back[j] = IF j = at + 1 THEN list[at + 1] ELSE after[j]
  BY <1>1, <1>3, <1>4, ExceptSeq
<1> HIDE DEF back
<1>6. \A j \in 1 .. Len(list) : back[j] = list[j]
  BY <1>3, <1>5
<1>7. back = list
  BY <1>5, <1>6, SameItems
<1> QED
  BY <1>2, <1>7

\* UndoListReorderAction::undo moves the item back, if it was moved to a
\* position that is in the list.
LEMMA UndoneReorder ==
    ASSUME NEW S, NEW list \in Seq(S), NEW from \in 0 .. Len(list) - 1,
           NEW to \in 0 .. Len(list) - 1
    PROVE  LET c == ListReorder(from, to)
           IN  Undone(Changed(list, c), Recorded(list, c)) = list
<1> DEFINE c == ListReorder(from, to)
           rest == RemoveAt(list, from + 1)
           e == list[from + 1]
           after == InsertAt(rest, to + 1, e)
<1>1. /\ Len(list) \in Nat
      /\ from + 1 \in 1 .. Len(list)
      /\ to + 1 \in 1 .. Len(list)
  BY LenProperties
<1>2. /\ Reordered(list, from, to) = after
      /\ rest \in Seq(S) /\ Len(rest) = Len(list) - 1 /\ e \in S
  BY ReorderedInserts
<1>3. InsertAt(rest, from + 1, e) = list
  BY <1>1, InsertRemoved
<1> HIDE DEF rest, e
<1>4. to + 1 \in 1 .. Len(rest) + 1
  BY <1>1, <1>2
<1>5. /\ after \in Seq(S) /\ Len(after) = Len(list)
      /\ RemoveAt(after, to + 1) = rest
      /\ after[to + 1] = e
  <2>1. after \in Seq(S) /\ Len(after) = Len(rest) + 1
    <3> DEFINE i == to + 1
    <3>1. i \in 1 .. Len(rest) + 1 /\ rest \in Seq(S) /\ e \in S
      BY <1>2, <1>4
    <3> HIDE DEF i
    <3>2. InsertAt(rest, i, e) \in Seq(S) /\ Len(InsertAt(rest, i, e)) = Len(rest) + 1
      BY ONLY <3>1, InsertAtItems
    <3> QED  BY <3>2 DEF i
  <2>2. RemoveAt(after, to + 1) = rest /\ after[to + 1] = e
    BY <1>2, <1>4, RemoveInserted
  <2> QED  BY <1>1, <1>2, <2>1, <2>2
<1>6. Changed(list, c) = after
  BY <1>2 DEF Changed, ListReorder
<1> HIDE DEF after
<1>7. Undone(after, Recorded(list, c)) = Reordered(after, to, from)
  BY DEF Undone, Reverting, Recorded, Changed, ListReorder
<1>8. Reordered(after, to, from) =
        InsertAt(RemoveAt(after, to + 1), from + 1, after[to + 1])
  BY <1>1, <1>5, ReorderedInserts
<1> QED
  BY <1>3, <1>5, <1>6, <1>7, <1>8

\* The changes a client may ask of a list, but for a reorder to the position
\* behind the last item.
InListChanges(list, vals) ==
    {c \in Changes(list, vals) : c.op = "reorder" => c.to < Len(list)}

\* Whatever a list holds and whichever change of it is recorded: executing the
\* undo action on the changed list gives back the list (undo of
\* UndoListInsertAction, -RemoveAction, -SetAction and -ReorderAction).  The
\* excepted reorder is one whose undo reads past the end of the list.
THEOREM UndoRestoresList ==
    ASSUME NEW S, NEW list \in Seq(S), NEW c \in InListChanges(list, S)
    PROVE  Undone(Changed(list, c), Recorded(list, c)) = list
<1>1. CASE \E at \in Npos .. Len(list), v \in S : c = ListInsert(at, v)
  BY <1>1, UndoneInsert
<1>2. CASE \E at \in 0 .. Len(list) - 1 : c = ListRemove(at)
  BY <1>2, UndoneRemove
<1>3. CASE \E at \in 0 .. Len(list) - 1, v \in S : c = ListSet(at, v)
  BY <1>3, UndoneSet
<1>4. CASE \E from \in 0 .. Len(list) - 1, to \in 0 .. Len(list) :
              c = ListReorder(from, to)
  <2>1. PICK from \in 0 .. Len(list) - 1, to \in 0 .. Len(list) :
            c = ListReorder(from, to)
    BY <1>4
  <2>2. to < Len(list)
    BY <2>1 DEF InListChanges, ListReorder
  <2>3. to \in 0 .. Len(list) - 1
    BY <2>2, LenProperties
  <2> QED  BY <2>1, <2>3, UndoneReorder
<1> QED
  BY <1>1, <1>2, <1>3, <1>4 DEF InListChanges, Changes


IsSeq(s) == \E S : s \in Seq(S)

-----------------------------------------------------------------------------
(* Stacks *)

LEMMA Lengths ==
    ASSUME NEW s, IsSeq(s)
    PROVE  Len(s) \in Nat
  BY LenProperties DEF IsSeq

\* A group is pushed.
LEMMA Pushed ==
    ASSUME NEW s, IsSeq(s), NEW x
    PROVE  IsSeq(s \o <<x>>) /\ Len(s \o <<x>>) = Len(s) + 1
<1>1. PICK S : s \in Seq(S)
  BY DEF IsSeq
<1>2. s \in Seq(S \cup {x}) /\ <<x>> \in Seq(S \cup {x}) /\ Len(<<x>>) = 1
  BY <1>1, SeqMonotonic
<1> QED
  BY <1>2, ConcatProperties DEF IsSeq

\* A group is popped.
LEMMA Popped ==
    ASSUME NEW s, IsSeq(s)
    PROVE  IsSeq(Front(s)) /\ Len(Front(s)) \in Nat /\ Len(Front(s)) <= Len(s)
<1>1. PICK S : s \in Seq(S)
  BY DEF IsSeq
<1>2. Len(s) \in Nat /\ \A i \in 1 .. Len(s) : s[i] \in S
  BY <1>1, LenProperties, ElementOfSeq
<1>3. /\ SubSeq(s, 1, Len(s) - 1) \in Seq(S)
      /\ Len(SubSeq(s, 1, Len(s) - 1)) =
            IF 1 <= Len(s) - 1 THEN Len(s) - 1 - 1 + 1 ELSE 0
  <2>1. 1 \in Int /\ Len(s) - 1 \in Int /\ \A i \in 1 .. Len(s) - 1 : s[i] \in S
    BY <1>2
  <2> QED  BY <2>1, SubSeqProperties
<1> QED
  BY <1>2, <1>3 DEF IsSeq, Front

\* The group on top changes.
LEMMA Replaced ==
    ASSUME NEW s, IsSeq(s), NEW i, NEW x
    PROVE  IsSeq(ReplaceAt(s, i, x)) /\ Len(ReplaceAt(s, i, x)) = Len(s)
<1>1. PICK S : s \in Seq(S)
  BY DEF IsSeq
<1>2. Len(s) \in Nat /\ DOMAIN s = 1 .. Len(s) /\ \A j \in 1 .. Len(s) : s[j] \in S
  BY <1>1, LenProperties, ElementOfSeq
<1> DEFINE t == [s EXCEPT ![i] = x]
<1>3. t = [j \in 1 .. Len(s) |-> t[j]] /\ \A j \in 1 .. Len(s) : t[j] \in S \cup {x}
  BY <1>1, <1>2
<1> HIDE DEF t
<1>4. t \in Seq(S \cup {x})
  BY <1>2, <1>3, IsASeq
<1>5. DOMAIN t = 1 .. Len(s)
  BY <1>3
<1>6. Len(t) = Len(s)
  BY <1>2, <1>4, <1>5, LenProperties
<1> QED
  BY <1>4, <1>6 DEF t, ReplaceAt, IsSeq

\* trim_undo_stack keeps a stack a stack and brings it within the limit.
LEMMA TrimmedHolds ==
    ASSUME NEW s, IsSeq(s), NEW n \in Nat
    PROVE  /\ IsSeq(Trimmed(s, n))
           /\ Len(Trimmed(s, n)) \in Nat
           /\ n > 0 => Len(Trimmed(s, n)) <= n
<1>1. PICK S : s \in Seq(S)
  BY DEF IsSeq
<1>2. Len(s) \in Nat /\ \A i \in 1 .. Len(s) : s[i] \in S
  BY <1>1, LenProperties, ElementOfSeq
<1>3. CASE n > 0 /\ Len(s) > n
  <2> DEFINE m == Len(s) - n + 1
             e == Len(s)
  <2>1. m \in Int /\ e \in Int /\ m <= e /\ e - m + 1 = n
        /\ \A i \in m .. e : s[i] \in S
    BY <1>2, <1>3
  <2>2. Trimmed(s, n) = SubSeq(s, m, e)
    BY <1>3 DEF Trimmed
  <2> HIDE DEF m, e
  <2>3. SubSeq(s, m, e) \in Seq(S) /\ Len(SubSeq(s, m, e)) = n
    BY <2>1, SubSeqProperties
  <2>4. IsSeq(Trimmed(s, n))
    BY <2>2, <2>3 DEF IsSeq
  <2>5. Len(Trimmed(s, n)) = n
    BY <2>2, <2>3
  <2> QED  BY <2>4, <2>5
<1>4. CASE ~(n > 0 /\ Len(s) > n)
  <2>1. Trimmed(s, n) = s
    BY <1>4 DEF Trimmed
  <2> QED  BY <1>2, <1>4, <2>1
<1> QED
  BY <1>3, <1>4

LEMMA TopWithLength ==
    ASSUME NEW s, IsSeq(s), NEW items
    PROVE  IsSeq(TopWith(s, items)) /\ Len(TopWith(s, items)) = Len(s)
  BY Replaced DEF TopWith

\* Closing or dropping the group on top adds none.
LEMMA EndedShorter ==
    ASSUME NEW s, IsSeq(s)
    PROVE  IsSeq(Ended(s)) /\ Len(Ended(s)) \in Nat /\ Len(Ended(s)) <= Len(s)
<1>1. Len(s) \in Nat
  BY Lengths
<1>2. /\ IsSeq(Front(s)) /\ Len(Front(s)) \in Nat /\ Len(Front(s)) <= Len(s)
      /\ IsSeq(TopAppended(s, End)) /\ Len(TopAppended(s, End)) = Len(s)
  BY Popped, TopWithLength DEF TopAppended
<1> QED
  BY <1>1, <1>2 DEF Ended

LEMMA ShrunkShorter ==
    ASSUME NEW s, IsSeq(s), NEW start
    PROVE  IsSeq(Shrunk(s, start)) /\ Len(Shrunk(s, start)) \in Nat
           /\ Len(Shrunk(s, start)) <= Len(s)
<1>1. Len(s) \in Nat
  BY Lengths
<1>2. /\ IsSeq(Front(s)) /\ Len(Front(s)) \in Nat /\ Len(Front(s)) <= Len(s)
      /\ IsSeq(TopWith(s, SubSeq(Last(s).items, 1, start - 1)))
      /\ Len(TopWith(s, SubSeq(Last(s).items, 1, start - 1))) = Len(s)
  BY Popped, TopWithLength
<1> QED
  BY <1>1, <1>2 DEF Shrunk

-----------------------------------------------------------------------------
(* The limit *)

LimitInv == IsSeq(undo) /\ limit \in Nat /\ LimitHolds

LEMMA LimitInit == Init => LimitInv
<1>1. <<>> \in Seq({})
  OBVIOUS
<1> QED
  BY <1>1 DEF Init, LimitInv, IsSeq, LimitHolds

\* Whatever makes the stack no longer keeps the limit.
LEMMA ShorterKeeps ==
    ASSUME LimitInv, IsSeq(undo'), Len(undo') <= Len(undo), limit' = limit
    PROVE  LimitInv'
<1>1. Len(undo) \in Nat /\ Len(undo') \in Nat
  BY Lengths DEF LimitInv
<1> QED
  BY <1>1 DEF LimitInv, LimitHolds

LEMMA SameKeeps ==
    ASSUME LimitInv, undo' = undo, limit' = limit
    PROVE  LimitInv'
  BY DEF LimitInv, LimitHolds, IsSeq

LEMMA EndedKeeps ==
    ASSUME LimitInv, undo' = Ended(undo), limit' = limit
    PROVE  LimitInv'
<1>1. IsSeq(undo') /\ Len(undo') <= Len(undo)
  BY EndedShorter DEF LimitInv
<1> QED
  BY <1>1, ShorterKeeps

\* add_undo trims as soon as it pushes.
LEMMA AddUndoKeeps ==
    ASSUME LimitInv, NEW item, AddUndo(item), limit' = limit
    PROVE  LimitInv'
<1>1. CASE AddToOpen(item)
  <2>1. CASE undo' = undo
    BY <2>1, SameKeeps
  <2>2. CASE undo' = TopAppended(undo, item)
    <3>1. IsSeq(undo') /\ Len(undo') = Len(undo)
      BY <2>2, TopWithLength DEF TopAppended, LimitInv
    <3>2. Len(undo) \in Nat
      BY Lengths DEF LimitInv
    <3> QED  BY <3>1, <3>2, ShorterKeeps
  <2> QED  BY <1>1, <2>1, <2>2 DEF AddToOpen
<1>2. CASE AddOnTop(item)
  <2>1. CASE undo' = undo
    BY <2>1, SameKeeps
  <2>2. CASE \E x : undo' = Trimmed(undo \o <<x>>, limit)
    <3>1. PICK x : undo' = Trimmed(undo \o <<x>>, limit)
      BY <2>2
    <3>2. IsSeq(undo \o <<x>>)
      BY Pushed DEF LimitInv
    <3>3. IsSeq(undo') /\ Len(undo') \in Nat /\ (limit > 0 => Len(undo') <= limit)
      BY <3>1, <3>2, TrimmedHolds DEF LimitInv
    <3> QED  BY <3>3 DEF LimitInv, LimitHolds
  <2>3. undo' = undo \/ \E x : undo' = Trimmed(undo \o <<x>>, limit)
    BY <1>2 DEF AddOnTop
  <2> QED  BY <2>1, <2>2, <2>3
<1> QED
  BY <1>1, <1>2 DEF AddUndo

LEMMA LimitStep ==
    ASSUME LimitInv, [Next]_vars
    PROVE  LimitInv'
<1>1. CASE OpenGroup
  BY <1>1, AddUndoKeeps DEF OpenGroup
<1>2. ASSUME NEW c \in Changes(content, Values), Edit(c)
      PROVE  LimitInv'
  BY <1>2, AddUndoKeeps DEF Edit
<1>3. CASE EndGroup
  BY <1>3, EndedKeeps DEF EndGroup
<1>4. CASE CancelEmpty
  BY <1>4, EndedKeeps DEF CancelEmpty
<1>5. CASE CancelGroup
  BY <1>5, EndedKeeps DEF CancelGroup
<1>6. CASE Disable \/ Enable \/ Undo \/ Redo \/ Save
  BY <1>6, SameKeeps DEF Disable, Enable, Undo, Redo, Save, stacks
<1>7. CASE UndoBegins
  <2>1. CASE Recording
    BY <1>7, <2>1, AddUndoKeeps DEF UndoBegins
  <2>2. CASE ~Recording
    BY <1>7, <2>2, SameKeeps DEF UndoBegins, stacks
  <2> QED  BY <2>1, <2>2
<1>8. CASE UndoesAction
  <2>1. CASE Recording
    BY <1>8, <2>1, AddUndoKeeps DEF UndoesAction
  <2>2. CASE ~Recording
    BY <1>8, <2>2, SameKeeps DEF UndoesAction, stacks
  <2> QED  BY <2>1, <2>2
<1>9. CASE UndoEndsInner
  <2>1. (undo' = undo \/ undo' = Ended(undo)) /\ limit' = limit
    BY <1>9 DEF UndoEndsInner, stacks
  <2> QED  BY <2>1, SameKeeps, EndedKeeps
<1>10. CASE UndoReturns
  <2>1. undo' = Front(undo) /\ limit' = limit
    BY <1>10 DEF UndoReturns
  <2> QED  BY <2>1, Popped, ShorterKeeps DEF LimitInv
<1>11. CASE RedoReturns
  BY <1>11, EndedKeeps DEF RedoReturns
<1>12. CASE CancelReturns
  <2>1. undo' = Shrunk(undo, LastGroup(Last(undo).items)) /\ limit' = limit
    BY <1>12 DEF CancelReturns
  <2> QED  BY <2>1, ShrunkShorter, ShorterKeeps DEF LimitInv
<1>13. ASSUME NEW n \in Limits, SetLimit(n)
       PROVE  LimitInv'
  <2>1. n \in Nat /\ limit' = n /\ undo' = Trimmed(undo, n)
    BY <1>13, UndoAssumption DEF SetLimit
  <2>2. IsSeq(undo') /\ Len(undo') \in Nat /\ (n > 0 => Len(undo') <= n)
    BY <2>1, TrimmedHolds DEF LimitInv
  <2> QED  BY <2>1, <2>2 DEF LimitInv, LimitHolds
<1>14. CASE CloseDocument
  <2>1. undo' = <<>> /\ limit' = limit /\ <<>> \in Seq({})
    BY <1>14 DEF CloseDocument
  <2>2. IsSeq(undo') /\ Len(undo') = 0
    BY <2>1 DEF IsSeq
  <2> QED  BY <2>1, <2>2 DEF LimitInv, LimitHolds
<1>15. CASE UNCHANGED vars
  BY <1>15, SameKeeps DEF vars, stacks
<1> QED
  BY <1>1, <1>2, <1>3, <1>4, <1>5, <1>6, <1>7, <1>8, <1>9, <1>10, <1>11, <1>12,
     <1>13, <1>14, <1>15 DEF Next

\* The undo stack never holds more than the limit: add_undo trims it when a
\* group is pushed, by redo too, and set_undo_limit when the limit is lowered.
THEOREM LimitAlwaysHolds == Spec => []LimitHolds
<1>1. LimitInv => LimitHolds
  BY DEF LimitInv
<1> QED
  BY <1>1, LimitInit, LimitStep, PTL DEF Spec

-----------------------------------------------------------------------------
(* Tracking *)

Scopes == {"group", "disabled"}

TrackingInv ==
    /\ scopes \in Seq(Scopes)
    /\ tracking = CountOf(scopes, "group")
    /\ running = "cancel" => scopes # <<>> /\ Last(scopes) = "group"

LEMMA CountAppend ==
    ASSUME NEW S, NEW s \in Seq(S), NEW x \in S, NEW item
    PROVE  /\ CountOf(s, item) \in Nat
           /\ CountOf(Append(s, x), item) =
                 IF x = item THEN CountOf(s, item) + 1 ELSE CountOf(s, item)
<1> DEFINE A == {i \in DOMAIN s : s[i] = item}
           B == {i \in DOMAIN Append(s, x) : Append(s, x)[i] = item}
           n == Len(s)
<1>1. n \in Nat /\ DOMAIN s = 1 .. n
  BY LenProperties
<1>2. IsFiniteSet(A) /\ Cardinality(A) \in Nat
  <2>1. IsFiniteSet(1 .. n)
    BY <1>1, FS_Interval
  <2>2. A \in SUBSET (1 .. n)
    BY <1>1
  <2> HIDE DEF A, n
  <2> QED  BY <2>1, <2>2, FS_Subset, FS_CardinalityType
<1>3. /\ DOMAIN Append(s, x) = 1 .. n + 1
      /\ \A i \in 1 .. n : Append(s, x)[i] = s[i]
      /\ Append(s, x)[n + 1] = x
  BY <1>1, AppendProperties, LenProperties
<1>4. n + 1 \notin A
  BY <1>1
<1>5. B = IF x = item THEN A \cup {n + 1} ELSE A
  <2>1. \A i : i \in A <=> i \in 1 .. n /\ s[i] = item
    BY <1>1
  <2>2. \A i : i \in B <=> i \in 1 .. n + 1 /\ Append(s, x)[i] = item
    BY <1>3
  <2> HIDE DEF A, B
  <2>3. \A i : i \in B <=> i \in A \/ (i = n + 1 /\ x = item)
    BY <1>1, <1>3, <2>1, <2>2
  <2> QED  BY <2>3
<1> HIDE DEF A, B, n
<1>6. Cardinality(B) = IF x = item THEN Cardinality(A) + 1 ELSE Cardinality(A)
  BY <1>2, <1>4, <1>5, FS_AddElement
<1> QED
  BY <1>2, <1>6 DEF CountOf, A, B

LEMMA CountFront ==
    ASSUME NEW S, NEW s \in Seq(S), s # <<>>, NEW item
    PROVE  /\ Front(s) \in Seq(S)
           /\ CountOf(Front(s), item) =
                 IF Last(s) = item THEN CountOf(s, item) - 1 ELSE CountOf(s, item)
<1>1. Len(s) \in Nat /\ Len(s) >= 1 /\ \A i \in 1 .. Len(s) : s[i] \in S
  <2>1. Len(s) \in Nat /\ Len(s) # 0
    BY EmptySeq, LenProperties
  <2> QED  BY <2>1, ElementOfSeq
<1> DEFINE f == Front(s)
           e == Last(s)
<1>2. /\ f \in Seq(S) /\ Len(f) = Len(s) - 1
      /\ \A i \in 1 .. Len(s) - 1 : f[i] = s[i]
  <2> DEFINE m == Len(s) - 1
  <2>1. /\ 1 \in Int /\ m \in Int /\ m \in Nat
        /\ \A i \in 1 .. m : s[i] \in S
    BY <1>1
  <2>2. f = SubSeq(s, 1, m)
    BY DEF Front
  <2> HIDE DEF f, m
  <2>3. /\ SubSeq(s, 1, m) \in Seq(S)
        /\ Len(SubSeq(s, 1, m)) = IF 1 <= m THEN m - 1 + 1 ELSE 0
        /\ \A i \in 1 .. m - 1 + 1 : SubSeq(s, 1, m)[i] = s[1 + i - 1]
    BY <2>1, SubSeqProperties
  <2>4. f \in Seq(S) /\ Len(f) = m /\ \A i \in 1 .. m : f[i] = s[i]
    BY <2>1, <2>2, <2>3
  <2> QED  BY <2>4 DEF m
<1>3. e \in S /\ e = s[Len(s)]
  BY <1>1 DEF Last
<1> HIDE DEF f, e
<1>4. /\ Append(f, e) \in Seq(S) /\ Len(Append(f, e)) = Len(s)
      /\ \A i \in 1 .. Len(s) - 1 : Append(f, e)[i] = f[i]
      /\ Append(f, e)[Len(s)] = e
  <2>1. /\ Append(f, e) \in Seq(S) /\ Len(Append(f, e)) = Len(f) + 1
        /\ \A i \in 1 .. Len(f) : Append(f, e)[i] = f[i]
        /\ Append(f, e)[Len(f) + 1] = e
    BY <1>2, <1>3, AppendProperties
  <2>2. Len(f) + 1 = Len(s)
    BY <1>1, <1>2
  <2> QED  BY <1>2, <2>1, <2>2
<1>5. Append(f, e) = s
  <2>1. \A i \in 1 .. Len(s) : Append(f, e)[i] = s[i]
    BY <1>1, <1>2, <1>3, <1>4
  <2> QED  BY <1>4, <2>1, SeqEqual
<1>6. /\ CountOf(f, item) \in Nat
      /\ CountOf(s, item) =
            IF e = item THEN CountOf(f, item) + 1 ELSE CountOf(f, item)
  <2>1. /\ CountOf(f, item) \in Nat
        /\ CountOf(Append(f, e), item) =
              IF e = item THEN CountOf(f, item) + 1 ELSE CountOf(f, item)
    <3>1. f \in Seq(S) /\ e \in S
      BY <1>2, <1>3
    <3> QED  BY ONLY <3>1, CountAppend
  <2> QED  BY <1>5, <2>1
<1>7. CountOf(f, item) = IF e = item THEN CountOf(s, item) - 1 ELSE CountOf(s, item)
  <2> DEFINE m == CountOf(f, item)
             k == CountOf(s, item)
  <2>1. m \in Nat /\ (e = item => k = m + 1) /\ (e # item => k = m)
    BY <1>6
  <2> HIDE DEF m, k
  <2>2. m = IF e = item THEN k - 1 ELSE k
    BY <2>1
  <2> QED  BY <2>2 DEF m, k
<1> QED
  BY <1>2, <1>7 DEF f, e

LEMMA TrackingInit == Init => TrackingInv
<1>1. CountOf(<<>>, "group") = 0
  <2>1. {i \in DOMAIN <<>> : <<>>[i] = "group"} = {}
    OBVIOUS
  <2> QED  BY <2>1, FS_EmptySet DEF CountOf
<1> QED
  BY <1>1 DEF Init, TrackingInv

LEMMA TrackingStep ==
    ASSUME TrackingInv, [Next]_vars
    PROVE  TrackingInv'
<1> USE DEF TrackingInv
<1>1. CASE OpenGroup
  <2>1. /\ scopes' = Append(scopes, "group") /\ tracking' = tracking + 1
        /\ running' = running /\ running = "none"
    BY <1>1 DEF OpenGroup
  <2>2. "group" \in Scopes
    BY DEF Scopes
  <2>3. CountOf(scopes', "group") = CountOf(scopes, "group") + 1
    BY <2>1, <2>2, CountAppend
  <2> QED  BY <2>1, <2>2, <2>3
<1>2. CASE EndGroup \/ CancelEmpty \/ CancelReturns
  <2>1. /\ scopes # <<>> /\ Last(scopes) = "group"
        /\ scopes' = Front(scopes) /\ tracking' = tracking - 1
        /\ running' = "none"
    BY <1>2 DEF EndGroup, CancelEmpty, CancelReturns, InScope, TrackingAfter
  <2>2. scopes' \in Seq(Scopes) /\ CountOf(scopes', "group") = CountOf(scopes, "group") - 1
    BY <2>1, CountFront
  <2> QED  BY <2>1, <2>2
<1>3. CASE CancelGroup
  BY <1>3 DEF CancelGroup, InScope
<1>4. CASE Disable
  <2>1. /\ scopes' = Append(scopes, "disabled") /\ tracking' = tracking
        /\ running' = running /\ running = "none"
    BY <1>4 DEF Disable
  <2>2. "disabled" \in Scopes
    BY DEF Scopes
  <2>3. CountOf(scopes', "group") = CountOf(scopes, "group")
    BY <2>1, <2>2, CountAppend
  <2> QED  BY <2>1, <2>2, <2>3
<1>5. CASE Enable
  <2>1. /\ scopes # <<>> /\ Last(scopes) = "disabled"
        /\ scopes' = Front(scopes) /\ tracking' = tracking
        /\ running' = running /\ running = "none"
    BY <1>5 DEF Enable, InScope
  <2>2. scopes' \in Seq(Scopes) /\ CountOf(scopes', "group") = CountOf(scopes, "group")
    BY <2>1, CountFront
  <2> QED  BY <2>1, <2>2
<1>6. CASE UNCHANGED <<scopes, tracking>> /\ (running' = "cancel" => running = "cancel")
  BY <1>6
<1>7. ASSUME NEW c \in Changes(content, Values), Edit(c)
      PROVE  TrackingInv'
  BY <1>7, <1>6 DEF Edit
<1>8. ASSUME NEW n \in Limits, SetLimit(n)
      PROVE  TrackingInv'
  BY <1>8, <1>6 DEF SetLimit
<1>9. CASE Undo \/ Redo \/ Save \/ CloseDocument
  BY <1>9, <1>6 DEF Undo, Redo, Save, CloseDocument
<1>10. CASE UndoBegins \/ UndoesAction \/ UndoEndsInner
  BY <1>10, <1>6 DEF UndoBegins, UndoesAction, UndoEndsInner
<1>11. CASE UndoReturns \/ RedoReturns
  BY <1>11, <1>6 DEF UndoReturns, RedoReturns, Completes
<1>12. CASE UNCHANGED vars
  BY <1>12, <1>6 DEF vars
<1> QED
  BY <1>1, <1>2, <1>3, <1>4, <1>5, <1>7, <1>8, <1>9, <1>10, <1>11, <1>12 DEF Next

\* Whatever is opened, closed, cancelled and undone in whatever nesting, changes
\* are tracked exactly while a group is open (begin_, end_ and
\* cancel_undoable_action of grt.cpp).
THEOREM TrackingAlwaysBalanced == Spec => []TrackingBalanced
<1>1. TrackingInv => TrackingBalanced
  BY DEF TrackingInv, TrackingBalanced
<1> QED
  BY <1>1, TrackingInit, TrackingStep, PTL DEF Spec

-----------------------------------------------------------------------------
(* Undoing gives back what was: the invariant *)

Docs == Seq(Values)

Acts ==
    [kind : {"insert"}, at : Int]
    \cup [kind : {"remove", "set"}, at : Int, value : Values]
    \cup [kind : {"reorder"}, from : Int, to : Int]

Item == Acts \cup {Begin, End}

\* The action a, undone on the content y, gives x.
Takes(y, a, x) ==
    /\ Reverting(y, a) \in InListChanges(y, Values)
    /\ Changed(y, Reverting(y, a)) = x

\* The content is x before the item was added and y after it.
Between(x, item, y) ==
    IF item \in {Begin, End} THEN x = y ELSE item \in Acts /\ Takes(y, item, x)

\* The contents T[0] to T[n] are those before, between and after the first n items.
Trace(T, items, n) == \A i \in 1 .. n : Between(T[i - 1], items[i], T[i])

\* The first n items lead from the content x to y, and back.
TracedTo(items, n, x, y) ==
    \E T \in [0 .. n -> Docs] : T[0] = x /\ T[n] = y /\ Trace(T, items, n)

-----------------------------------------------------------------------------
(* A recorded action takes its change back, within the bounds of the list. *)

LEMMA EndsAreNoActs == Begin # End /\ Begin \notin Acts /\ End \notin Acts
  BY DEF Begin, End, Acts

\* What kinds of changes there are.
LEMMA ChangeCases ==
    ASSUME NEW list \in Docs, NEW c \in InListChanges(list, Values)
    PROVE  \/ \E at \in Npos .. Len(list), v \in Values : c = ListInsert(at, v)
           \/ \E at \in 0 .. Len(list) - 1 : c = ListRemove(at)
           \/ \E at \in 0 .. Len(list) - 1, v \in Values : c = ListSet(at, v)
           \/ \E from, to \in 0 .. Len(list) - 1 : c = ListReorder(from, to)
<1>1. Len(list) \in Nat
  BY LenProperties DEF Docs
<1>2. CASE \E from \in 0 .. Len(list) - 1, to \in 0 .. Len(list) :
              c = ListReorder(from, to)
  <2>1. PICK from \in 0 .. Len(list) - 1, to \in 0 .. Len(list) :
            c = ListReorder(from, to)
    BY <1>2
  <2>2. to < Len(list)
    BY <2>1 DEF InListChanges, ListReorder
  <2>3. to \in 0 .. Len(list) - 1
    BY <1>1, <2>2
  <2> QED  BY <2>1, <2>3
<1>3. CASE \/ \E at \in Npos .. Len(list), v \in Values : c = ListInsert(at, v)
           \/ \E at \in 0 .. Len(list) - 1 : c = ListRemove(at)
           \/ \E at \in 0 .. Len(list) - 1, v \in Values : c = ListSet(at, v)
  BY <1>3
<1> QED
  BY <1>2, <1>3 DEF InListChanges, Changes

LEMMA InsertRecorded ==
    ASSUME NEW list \in Docs, NEW v \in Values, NEW at \in Npos .. Len(list)
    PROVE  LET c == ListInsert(at, v)
               a == Recorded(list, c)
           IN  /\ Changed(list, c) \in Docs
               /\ a \in Acts
               /\ Reverting(Changed(list, c), a) \in InListChanges(Changed(list, c), Values)
<1> DEFINE c == ListInsert(at, v)
           i == IF at = Npos THEN Len(list) + 1 ELSE at + 1
           after == InsertAt(list, i, v)
<1>1. Len(list) \in Nat /\ at \in Int
  BY LenProperties DEF Docs, Npos
<1>2. i \in 1 .. Len(list) + 1 /\ (at = Npos => i = Len(list) + 1)
  BY <1>1 DEF Npos
<1>3. Changed(list, c) = after
  <2>1. CASE at = Npos
    <3>1. Changed(list, c) = Append(list, v)
      BY <2>1 DEF Changed, ListInsert
    <3> QED  BY <2>1, <3>1, AppendIsInsert DEF Docs
  <2>2. CASE at # Npos
    BY <2>2 DEF Changed, ListInsert
  <2> QED  BY <2>1, <2>2
<1>4. after \in Seq(Values) /\ Len(after) = Len(list) + 1
  BY <1>2, InsertAtItems DEF Docs
<1> HIDE DEF after
<1>5. Recorded(list, c) = [kind |-> "insert", at |-> at]
  BY DEF Recorded, ListInsert
<1>6. Recorded(list, c) \in Acts
  BY <1>1, <1>5 DEF Acts
<1>7. Reverting(after, Recorded(list, c)) = ListRemove(i - 1)
  BY <1>1, <1>4, <1>5 DEF Reverting, Npos
<1>8. i - 1 \in 0 .. Len(after) - 1
  BY <1>1, <1>2, <1>4
<1>9. ListRemove(i - 1) \in InListChanges(after, Values)
  BY <1>8 DEF InListChanges, Changes, ListRemove
<1> QED
  BY <1>3, <1>4, <1>6, <1>7, <1>9 DEF Docs

LEMMA RemoveRecorded ==
    ASSUME NEW list \in Docs, NEW at \in 0 .. Len(list) - 1
    PROVE  LET c == ListRemove(at)
               a == Recorded(list, c)
           IN  /\ Changed(list, c) \in Docs
               /\ a \in Acts
               /\ Reverting(Changed(list, c), a) \in InListChanges(Changed(list, c), Values)
<1> DEFINE c == ListRemove(at)
           after == RemoveAt(list, at + 1)
<1>1. Len(list) \in Nat /\ at \in Int /\ at + 1 \in 1 .. Len(list)
  BY LenProperties DEF Docs
<1>2. list[at + 1] \in Values
  BY <1>1, ElementOfSeq DEF Docs
<1>3. Changed(list, c) = after
  BY DEF Changed, ListRemove
<1>4. after \in Seq(Values) /\ Len(after) = Len(list) - 1
  BY <1>1, RemoveAtItems DEF Docs
<1> HIDE DEF after
<1>5. Recorded(list, c) = [kind |-> "remove", at |-> at, value |-> list[at + 1]]
  BY DEF Recorded, ListRemove
<1>6. Recorded(list, c) \in Acts
  BY <1>1, <1>2, <1>5 DEF Acts
<1>7. Reverting(after, Recorded(list, c)) = ListInsert(at, list[at + 1])
  BY <1>5 DEF Reverting
<1>8. at \in Npos .. Len(after)
  BY <1>1, <1>4 DEF Npos
<1>9. ListInsert(at, list[at + 1]) \in InListChanges(after, Values)
  BY <1>2, <1>8 DEF InListChanges, Changes, ListInsert
<1> QED
  BY <1>3, <1>4, <1>6, <1>7, <1>9 DEF Docs

LEMMA SetRecorded ==
    ASSUME NEW list \in Docs, NEW v \in Values, NEW at \in 0 .. Len(list) - 1
    PROVE  LET c == ListSet(at, v)
               a == Recorded(list, c)
           IN  /\ Changed(list, c) \in Docs
               /\ a \in Acts
               /\ Reverting(Changed(list, c), a) \in InListChanges(Changed(list, c), Values)
<1> DEFINE c == ListSet(at, v)
           after == [list EXCEPT ![at + 1] = v]
<1>1. Len(list) \in Nat /\ at \in Int /\ at + 1 \in 1 .. Len(list)
  BY LenProperties DEF Docs
<1>2. list[at + 1] \in Values
  BY <1>1, ElementOfSeq DEF Docs
<1>3. Changed(list, c) = after
  BY DEF Changed, ListSet, ReplaceAt
<1>4. after \in Seq(Values) /\ Len(after) = Len(list)
  BY <1>1, ExceptSeq DEF Docs
<1> HIDE DEF after
<1>5. Recorded(list, c) = [kind |-> "set", at |-> at, value |-> list[at + 1]]
  BY DEF Recorded, ListSet
<1>6. Recorded(list, c) \in Acts
  BY <1>1, <1>2, <1>5 DEF Acts
<1>7. Reverting(after, Recorded(list, c)) = ListSet(at, list[at + 1])
  BY <1>5 DEF Reverting
<1>8. ListSet(at, list[at + 1]) \in InListChanges(after, Values)
  BY <1>2, <1>4 DEF InListChanges, Changes, ListSet
<1> QED
  BY <1>3, <1>4, <1>6, <1>7, <1>8 DEF Docs

LEMMA ReorderRecorded ==
    ASSUME NEW list \in Docs, NEW from \in 0 .. Len(list) - 1, NEW to \in 0 .. Len(list) - 1
    PROVE  LET c == ListReorder(from, to)
               a == Recorded(list, c)
           IN  /\ Changed(list, c) \in Docs
               /\ a \in Acts
               /\ Reverting(Changed(list, c), a) \in InListChanges(Changed(list, c), Values)
<1> DEFINE c == ListReorder(from, to)
           rest == RemoveAt(list, from + 1)
           e == list[from + 1]
           after == InsertAt(rest, to + 1, e)
<1>1. Len(list) \in Nat /\ from \in Int /\ to \in Int
  BY LenProperties DEF Docs
<1>2. /\ Reordered(list, from, to) = after
      /\ rest \in Seq(Values) /\ Len(rest) = Len(list) - 1 /\ e \in Values
  BY ReorderedInserts DEF Docs
<1>3. Changed(list, c) = after
  BY <1>2 DEF Changed, ListReorder
<1> HIDE DEF rest, e
<1>4. after \in Seq(Values) /\ Len(after) = Len(list)
  <2> DEFINE i == to + 1
  <2>1. i \in 1 .. Len(rest) + 1
    BY <1>1, <1>2
  <2> HIDE DEF i
  <2>2. InsertAt(rest, i, e) \in Seq(Values) /\ Len(InsertAt(rest, i, e)) = Len(rest) + 1
    BY ONLY <1>2, <2>1, InsertAtItems
  <2> QED  BY <1>1, <1>2, <2>2 DEF i
<1> HIDE DEF after
<1>5. Recorded(list, c) = [kind |-> "reorder", from |-> from, to |-> to]
  BY DEF Recorded, ListReorder
<1>6. Recorded(list, c) \in Acts
  BY <1>1, <1>5 DEF Acts
<1>7. Reverting(after, Recorded(list, c)) = ListReorder(to, from)
  BY <1>5 DEF Reverting
<1>8. ListReorder(to, from) \in InListChanges(after, Values)
  <2>1. to \in 0 .. Len(after) - 1 /\ from \in 0 .. Len(after) /\ from < Len(after)
    BY <1>1, <1>4
  <2> QED  BY <2>1 DEF InListChanges, Changes, ListReorder
<1> QED
  BY <1>3, <1>4, <1>6, <1>7, <1>8 DEF Docs

LEMMA RecordedTakesBack ==
    ASSUME NEW list \in Docs, NEW c \in InListChanges(list, Values)
    PROVE  /\ Changed(list, c) \in Docs
           /\ Recorded(list, c) \in Acts
           /\ Between(list, Recorded(list, c), Changed(list, c))
<1>1. /\ Changed(list, c) \in Docs
      /\ Recorded(list, c) \in Acts
      /\ Reverting(Changed(list, c), Recorded(list, c))
            \in InListChanges(Changed(list, c), Values)
  <2>1. CASE \E at \in Npos .. Len(list), v \in Values : c = ListInsert(at, v)
    BY <2>1, InsertRecorded
  <2>2. CASE \E at \in 0 .. Len(list) - 1 : c = ListRemove(at)
    BY <2>2, RemoveRecorded
  <2>3. CASE \E at \in 0 .. Len(list) - 1, v \in Values : c = ListSet(at, v)
    BY <2>3, SetRecorded
  <2>4. CASE \E from, to \in 0 .. Len(list) - 1 : c = ListReorder(from, to)
    BY <2>4, ReorderRecorded
  <2> QED  BY <2>1, <2>2, <2>3, <2>4, ChangeCases
<1>2. Undone(Changed(list, c), Recorded(list, c)) = list
  BY UndoRestoresList DEF Docs
<1>3. Takes(Changed(list, c), Recorded(list, c), list)
  BY <1>1, <1>2 DEF Takes, Undone
<1>4. Recorded(list, c) \notin {Begin, End}
  BY <1>1, EndsAreNoActs
<1> QED
  BY <1>1, <1>3, <1>4 DEF Between

-----------------------------------------------------------------------------
(* Traces *)

\* Nothing happens between two contents that are the same.
LEMMA TracedBegin ==
    ASSUME NEW items, items[1] = Begin, NEW x \in Docs
    PROVE  TracedTo(items, 1, x, x)
<1> DEFINE T == [i \in 0 .. 1 |-> x]
<1>1. T \in [0 .. 1 -> Docs] /\ T[0] = x /\ T[1] = x
  OBVIOUS
<1>2. Trace(T, items, 1)
  <2>1. \A i \in 1 .. 1 : i = 1
    OBVIOUS
  <2>2. Between(T[0], items[1], T[1])
    BY <1>1 DEF Between
  <2> QED  BY <2>1, <2>2 DEF Trace
<1> HIDE DEF T
<1> QED
  BY <1>1, <1>2 DEF TracedTo

LEMMA TracedLonger ==
    ASSUME NEW items, NEW n \in Nat, NEW x, NEW y, NEW z \in Docs,
           TracedTo(items, n, x, y), Between(y, items[n + 1], z)
    PROVE  TracedTo(items, n + 1, x, z)
<1>1. PICK T \in [0 .. n -> Docs] : T[0] = x /\ T[n] = y /\ Trace(T, items, n)
  BY DEF TracedTo
<1> DEFINE U == [i \in 0 .. n + 1 |-> IF i = n + 1 THEN z ELSE T[i]]
<1>2. /\ U \in [0 .. n + 1 -> Docs]
      /\ U[0] = x /\ U[n + 1] = z /\ U[n] = y
      /\ \A i \in 0 .. n : U[i] = T[i]
  BY <1>1
<1> HIDE DEF U
<1>3. ASSUME NEW i \in 1 .. n + 1
      PROVE  Between(U[i - 1], items[i], U[i])
  <2>1. CASE i = n + 1
    <3>1. i - 1 = n
      BY <2>1
    <3> QED  BY <1>2, <2>1, <3>1
  <2>2. CASE i # n + 1
    <3>1. i \in 1 .. n /\ i \in 0 .. n /\ i - 1 \in 0 .. n
      BY <2>2
    <3>2. Between(T[i - 1], items[i], T[i])
      BY <1>1, <3>1 DEF Trace
    <3> QED  BY <1>2, <3>1, <3>2
  <2> QED  BY <2>1, <2>2
<1> QED
  BY <1>2, <1>3 DEF TracedTo, Trace

LEMMA TracedShorter ==
    ASSUME NEW items, NEW n \in Nat \ {0}, NEW x, NEW z, TracedTo(items, n, x, z)
    PROVE  \E y \in Docs : TracedTo(items, n - 1, x, y) /\ Between(y, items[n], z)
<1>1. PICK T \in [0 .. n -> Docs] : T[0] = x /\ T[n] = z /\ Trace(T, items, n)
  BY DEF TracedTo
<1> DEFINE U == [i \in 0 .. n - 1 |-> T[i]]
<1>2. /\ U \in [0 .. n - 1 -> Docs]
      /\ U[0] = x /\ U[n - 1] \in Docs /\ U[n - 1] = T[n - 1]
      /\ \A i \in 0 .. n - 1 : U[i] = T[i]
  BY <1>1
<1> HIDE DEF U
<1>3. Trace(U, items, n - 1)
  <2>1. ASSUME NEW i \in 1 .. n - 1
        PROVE  Between(U[i - 1], items[i], U[i])
    <3>1. i \in 1 .. n /\ i \in 0 .. n - 1 /\ i - 1 \in 0 .. n - 1
      OBVIOUS
    <3>2. Between(T[i - 1], items[i], T[i])
      BY <1>1, <3>1 DEF Trace
    <3> QED  BY <1>2, <3>1, <3>2
  <2> QED  BY <2>1 DEF Trace
<1>4. Between(U[n - 1], items[n], z)
  <2>1. n \in 1 .. n
    OBVIOUS
  <2> QED  BY <1>1, <1>2, <2>1 DEF Trace
<1>5. TracedTo(items, n - 1, x, U[n - 1])
  BY <1>2, <1>3 DEF TracedTo
<1> QED
  BY <1>2, <1>4, <1>5

LEMMA TracedNowhere ==
    ASSUME NEW items, NEW x, NEW y, TracedTo(items, 0, x, y)
    PROVE  x = y
  BY DEF TracedTo

LEMMA TracedDocs ==
    ASSUME NEW items, NEW n \in Nat, NEW x, NEW y, TracedTo(items, n, x, y)
    PROVE  x \in Docs /\ y \in Docs
  BY DEF TracedTo

\* What leads where depends on those items only.
LEMMA TracedSame ==
    ASSUME NEW s, NEW t, NEW n \in Nat, NEW x, NEW y, TracedTo(s, n, x, y),
           \A i \in 1 .. n : t[i] = s[i]
    PROVE  TracedTo(t, n, x, y)
<1>1. PICK T \in [0 .. n -> Docs] : T[0] = x /\ T[n] = y /\ Trace(T, s, n)
  BY DEF TracedTo
<1>2. Trace(T, t, n)
  BY <1>1 DEF Trace
<1> QED
  BY <1>1, <1>2 DEF TracedTo

-----------------------------------------------------------------------------
(* How many groups are open after the first items of a group *)

CountTo(items, n, x) == Cardinality({j \in 1 .. n : items[j] = x})

DepthAt(items, n) == CountTo(items, n, Begin) - CountTo(items, n, End)

\* What an item adds to the depth.
Weight(item) == IF item = Begin THEN 1 ELSE IF item = End THEN -1 ELSE 0

LEMMA PartOfInterval ==
    ASSUME NEW m \in Int, NEW n \in Int, NEW A \in SUBSET (m .. n)
    PROVE  IsFiniteSet(A) /\ Cardinality(A) \in Nat
<1>1. IsFiniteSet(m .. n)
  BY FS_Interval
<1>2. IsFiniteSet(A)
  BY <1>1, FS_Subset
<1> QED
  BY <1>2, FS_CardinalityType

LEMMA CountToStep ==
    ASSUME NEW items, NEW n \in Nat, NEW x
    PROVE  /\ CountTo(items, n, x) \in Nat
           /\ CountTo(items, 0, x) = 0
           /\ CountTo(items, n + 1, x) =
                 IF items[n + 1] = x THEN CountTo(items, n, x) + 1 ELSE CountTo(items, n, x)
<1> DEFINE A == {j \in 1 .. n : items[j] = x}
           B == {j \in 1 .. n + 1 : items[j] = x}
<1>1. IsFiniteSet(A) /\ Cardinality(A) \in Nat
  <2>1. 1 \in Int /\ n \in Int /\ A \in SUBSET (1 .. n)
    OBVIOUS
  <2> HIDE DEF A
  <2> QED  BY <2>1, PartOfInterval
<1>2. n + 1 \notin A
  OBVIOUS
<1>3. B = IF items[n + 1] = x THEN A \cup {n + 1} ELSE A
  <2>1. \A i : i \in 1 .. n + 1 <=> i \in 1 .. n \/ i = n + 1
    OBVIOUS
  <2>2. \A i : i \in B <=> i \in 1 .. n + 1 /\ items[i] = x
    OBVIOUS
  <2>3. \A i : i \in A <=> i \in 1 .. n /\ items[i] = x
    OBVIOUS
  <2> HIDE DEF A, B
  <2>4. CASE items[n + 1] = x
    <3>1. \A i : i \in B <=> i \in A \cup {n + 1}
      BY <2>1, <2>2, <2>3, <2>4
    <3> QED  BY <2>4, <3>1
  <2>5. CASE items[n + 1] # x
    <3>1. \A i : i \in B <=> i \in A
      BY <2>1, <2>2, <2>3, <2>5
    <3> QED  BY <2>5, <3>1
  <2> QED  BY <2>4, <2>5
<1>4. {j \in 1 .. 0 : items[j] = x} = {}
  OBVIOUS
<1> HIDE DEF A, B
<1>5. Cardinality(B) = IF items[n + 1] = x THEN Cardinality(A) + 1 ELSE Cardinality(A)
  BY <1>1, <1>2, <1>3, FS_AddElement
<1> QED
  BY <1>1, <1>4, <1>5, FS_EmptySet DEF CountTo, A, B

LEMMA CountToSame ==
    ASSUME NEW s, NEW t, NEW n \in Nat, NEW x, \A i \in 1 .. n : s[i] = t[i]
    PROVE  CountTo(s, n, x) = CountTo(t, n, x)
<1>1. {j \in 1 .. n : s[j] = x} = {j \in 1 .. n : t[j] = x}
  OBVIOUS
<1> QED
  BY <1>1 DEF CountTo

LEMMA CountIsCountTo ==
    ASSUME NEW S, NEW items \in Seq(S), NEW x
    PROVE  CountOf(items, x) = CountTo(items, Len(items), x)
  BY LenProperties DEF CountOf, CountTo

\* The items from i on are those that are not before it.
LEMMA CountOfRest ==
    ASSUME NEW S, NEW items \in Seq(S), NEW i \in 1 .. Len(items), NEW x
    PROVE  CountOf(SubSeq(items, i, Len(items)), x) =
               CountTo(items, Len(items), x) - CountTo(items, i - 1, x)
<1> DEFINE n == Len(items)
           m == n - i + 1
           rest == SubSeq(items, i, n)
           A == {j \in 1 .. n : items[j] = x}
           B == {j \in 1 .. i - 1 : items[j] = x}
           C == {j \in i .. n : items[j] = x}
           D == {j \in 1 .. m : rest[j] = x}
<1>1. n \in Nat /\ i \in 1 .. n /\ m \in Nat /\ \A j \in 1 .. n : items[j] \in S
  BY LenProperties, ElementOfSeq
<1> HIDE DEF n
<1>2. /\ rest \in Seq(S) /\ Len(rest) = m
      /\ \A j \in 1 .. m : rest[j] = items[i + j - 1]
  BY <1>1, SubSeqProperties
<1>3. IsFiniteSet(A) /\ IsFiniteSet(B) /\ IsFiniteSet(C)
      /\ Cardinality(A) \in Nat /\ Cardinality(B) \in Nat /\ Cardinality(C) \in Nat
  <2>1. 1 \in Int /\ n \in Int /\ i \in Int /\ i - 1 \in Int
    BY <1>1
  <2>2. A \in SUBSET (1 .. n) /\ B \in SUBSET (1 .. i - 1) /\ C \in SUBSET (i .. n)
    OBVIOUS
  <2> HIDE DEF A, B, C
  <2> QED  BY <2>1, <2>2, PartOfInterval
<1>4. A = B \cup C /\ B \cap C = {}
  <2>1. \A j : j \in 1 .. n <=> j \in 1 .. i - 1 \/ j \in i .. n
    BY <1>1
  <2>2. \A j : ~(j \in 1 .. i - 1 /\ j \in i .. n)
    BY <1>1
  <2> QED  BY <2>1, <2>2
<1> DEFINE f == [j \in C |-> j - i + 1]
<1> HIDE DEF rest
<1>5. f \in Bijection(C, D)
  <2>1. \A j \in C : j \in Int /\ j - i + 1 \in 1 .. m /\ rest[j - i + 1] = items[j] /\ items[j] = x
    <3> TAKE j \in C
    <3>1. j \in i .. n /\ items[j] = x
      OBVIOUS
    <3>2. j \in Int /\ j - i + 1 \in 1 .. m /\ i + (j - i + 1) - 1 = j
      BY <1>1, <3>1
    <3> QED  BY <1>2, <3>1, <3>2
  <2>2. \A j \in C : f[j] = j - i + 1 /\ f[j] \in D
    BY <2>1
  <2>3. f \in [C -> D]
    BY <2>2
  <2>4. \A j, k \in C : f[j] = f[k] => j = k
    BY <1>1, <2>1, <2>2
  <2>5. \A k \in D : \E j \in C : f[j] = k
    <3> TAKE k \in D
    <3>1. k \in 1 .. m /\ rest[k] = x
      OBVIOUS
    <3>2. k + i - 1 \in i .. n /\ (k + i - 1) - i + 1 = k /\ i + k - 1 = k + i - 1
      BY <1>1, <3>1
    <3>3. k + i - 1 \in C
      BY <1>2, <3>1, <3>2
    <3>4. f[k + i - 1] = k
      BY <3>2, <3>3
    <3> QED  BY <3>3, <3>4
  <2> HIDE DEF f, C, D
  <2> QED  BY <2>3, <2>4, <2>5, Fun_IsBij
<1> HIDE DEF A, B, C, D, f
<1>6. Cardinality(D) = Cardinality(C)
  BY <1>3, <1>5, FS_Bijection DEF ExistsBijection
<1>7. Cardinality(A) = Cardinality(B) + Cardinality(C)
  <2>1. /\ IsFiniteSet(B \cup C)
        /\ Cardinality(B \cup C) = Cardinality(B) + Cardinality(C) - Cardinality(B \cap C)
    BY <1>3, FS_Union
  <2>2. Cardinality(B \cap C) = 0
    BY <1>4, FS_EmptySet
  <2> QED  BY <1>3, <1>4, <2>1, <2>2
<1>8. CountOf(rest, x) = Cardinality(D)
  <2>1. DOMAIN rest = 1 .. m
    BY <1>2, LenProperties
  <2> QED  BY <2>1 DEF CountOf, D
<1>9. CountOf(rest, x) = Cardinality(A) - Cardinality(B)
  BY <1>3, <1>6, <1>7, <1>8
<1> QED
  BY <1>9 DEF CountTo, A, B, n, rest

LEMMA DepthStep ==
    ASSUME NEW items, NEW n \in Nat
    PROVE  /\ DepthAt(items, n) \in Int
           /\ DepthAt(items, 0) = 0
           /\ DepthAt(items, n + 1) = DepthAt(items, n) + Weight(items[n + 1])
<1>1. CountTo(items, n, Begin) \in Nat /\ CountTo(items, n, End) \in Nat
  BY CountToStep
<1>2. DepthAt(items, 0) = 0
  <2>1. CountTo(items, 0, Begin) = 0 /\ CountTo(items, 0, End) = 0
    BY CountToStep
  <2> QED  BY <2>1 DEF DepthAt
<1>3. /\ CountTo(items, n + 1, Begin) =
            IF items[n + 1] = Begin THEN CountTo(items, n, Begin) + 1 ELSE CountTo(items, n, Begin)
      /\ CountTo(items, n + 1, End) =
            IF items[n + 1] = End THEN CountTo(items, n, End) + 1 ELSE CountTo(items, n, End)
  BY CountToStep
<1>4. Begin # End
  BY EndsAreNoActs
<1> QED
  BY <1>1, <1>2, <1>3, <1>4 DEF DepthAt, Weight

LEMMA DepthBefore ==
    ASSUME NEW items, NEW n \in Nat \ {0}
    PROVE  /\ DepthAt(items, n) \in Int /\ DepthAt(items, n - 1) \in Int
           /\ DepthAt(items, n) = DepthAt(items, n - 1) + Weight(items[n])
<1>1. n - 1 \in Nat /\ (n - 1) + 1 = n
  OBVIOUS
<1> DEFINE m == n - 1
<1> HIDE DEF m
<1>2. m \in Nat /\ m + 1 = n
  BY <1>1 DEF m
<1>3. /\ DepthAt(items, m) \in Int
      /\ DepthAt(items, m + 1) = DepthAt(items, m) + Weight(items[m + 1])
      /\ DepthAt(items, m + 1) \in Int
  BY <1>2, DepthStep
<1> QED
  BY <1>2, <1>3 DEF m

LEMMA DepthSame ==
    ASSUME NEW s, NEW t, NEW n \in Nat, \A i \in 1 .. n : s[i] = t[i]
    PROVE  DepthAt(s, n) = DepthAt(t, n)
  BY CountToSame DEF DepthAt

LEMMA DepthIsDepthAt ==
    ASSUME NEW S, NEW items \in Seq(S)
    PROVE  Depth(items) = DepthAt(items, Len(items))
  BY CountIsCountTo DEF Depth, DepthAt

LEMMA DepthOfRest ==
    ASSUME NEW S, NEW items \in Seq(S), NEW i \in 1 .. Len(items)
    PROVE  Depth(SubSeq(items, i, Len(items))) =
               DepthAt(items, Len(items)) - DepthAt(items, i - 1)
<1> DEFINE n == Len(items)
           rest == SubSeq(items, i, n)
<1>1. n \in Nat /\ i - 1 \in Nat
  BY LenProperties
<1>2. \A x : CountOf(rest, x) = CountTo(items, n, x) - CountTo(items, i - 1, x)
  BY CountOfRest
<1>3. \A x : CountTo(items, n, x) \in Nat /\ CountTo(items, i - 1, x) \in Nat
  BY <1>1, CountToStep
<1> HIDE DEF n, rest
<1>4. /\ CountOf(rest, Begin) = CountTo(items, n, Begin) - CountTo(items, i - 1, Begin)
      /\ CountOf(rest, End) = CountTo(items, n, End) - CountTo(items, i - 1, End)
      /\ CountTo(items, n, Begin) \in Nat /\ CountTo(items, i - 1, Begin) \in Nat
      /\ CountTo(items, n, End) \in Nat /\ CountTo(items, i - 1, End) \in Nat
  BY <1>2, <1>3
<1>5. Depth(rest) = DepthAt(items, n) - DepthAt(items, i - 1)
  BY <1>4 DEF Depth, DepthAt
<1> QED
  BY <1>5 DEF n, rest

-----------------------------------------------------------------------------
(* Groups that are being filled and groups that are closed *)

\* The j-th open group begins with item q.
BeginsAt(items, m, q, j) ==
    /\ items[q] = Begin
    /\ DepthAt(items, q - 1) = j - 1
    /\ \A i \in q .. m : DepthAt(items, i) >= j

\* The first m items are a top-level group in which k groups are open.
Open(items, m, k) ==
    /\ m \in Nat \ {0} /\ k \in Nat \ {0}
    /\ items[1] = Begin
    /\ \A i \in 1 .. m : DepthAt(items, i) >= 1
    /\ DepthAt(items, m) = k
    /\ \A j \in 1 .. k : \E q \in 1 .. m : BeginsAt(items, m, q, j)

\* A top-level group that was closed, with something in it.
Closed(items) ==
    /\ Len(items) >= 3
    /\ Open(items, Len(items) - 1, 1)
    /\ items[Len(items)] = End

LEMMA OpenSame ==
    ASSUME NEW s, NEW t, NEW m, NEW k, Open(s, m, k), \A i \in 1 .. m : t[i] = s[i]
    PROVE  Open(t, m, k)
<1>1. m \in Nat \ {0} /\ k \in Nat \ {0}
  BY DEF Open
<1>2. ASSUME NEW i \in 0 .. m
      PROVE  DepthAt(t, i) = DepthAt(s, i)
  <2>1. i \in Nat /\ \A j \in 1 .. i : t[j] = s[j]
    BY <1>1
  <2> QED  BY <2>1, DepthSame
<1>3. t[1] = Begin /\ DepthAt(t, m) = k /\ \A i \in 1 .. m : DepthAt(t, i) >= 1
  <2>1. 1 \in 1 .. m /\ m \in 0 .. m /\ \A i \in 1 .. m : i \in 0 .. m
    BY <1>1
  <2> QED  BY <1>2, <2>1 DEF Open
<1>4. ASSUME NEW j \in 1 .. k
      PROVE  \E q \in 1 .. m : BeginsAt(t, m, q, j)
  <2>1. PICK q \in 1 .. m : BeginsAt(s, m, q, j)
    BY DEF Open
  <2>2. q - 1 \in 0 .. m /\ \A i \in q .. m : i \in 0 .. m
    BY <1>1
  <2>3. BeginsAt(t, m, q, j)
    BY <1>2, <2>1, <2>2 DEF BeginsAt
  <2> QED  BY <2>3
<1> QED
  BY <1>1, <1>3, <1>4 DEF Open

LEMMA OpenFirst ==
    ASSUME NEW items, items[1] = Begin
    PROVE  Open(items, 1, 1)
<1>1. DepthAt(items, 0) = 0 /\ DepthAt(items, 1) = 1
  <2>1. 0 \in Nat /\ Weight(items[1]) = 1 /\ 0 + 1 = 1
    BY DEF Weight
  <2>2. DepthAt(items, 0) = 0 /\ DepthAt(items, 0 + 1) = DepthAt(items, 0) + Weight(items[0 + 1])
    BY <2>1, DepthStep
  <2> QED  BY <2>1, <2>2
<1>2. BeginsAt(items, 1, 1, 1)
  BY <1>1 DEF BeginsAt
<1>3. \A i \in 1 .. 1 : i = 1
  OBVIOUS
<1> QED
  BY <1>1, <1>2, <1>3 DEF Open

LEMMA OpenNext ==
    ASSUME NEW items, NEW m, NEW k, Open(items, m, k),
           k + Weight(items[m + 1]) >= 1
    PROVE  Open(items, m + 1, k + Weight(items[m + 1]))
<1> DEFINE w == Weight(items[m + 1])
<1>1. /\ m \in Nat \ {0} /\ k \in Nat \ {0} /\ w \in {-1, 0, 1} /\ k + w >= 1
      /\ items[1] = Begin
      /\ (w = 1 <=> items[m + 1] = Begin)
      /\ DepthAt(items, m) = k
      /\ \A i \in 1 .. m : DepthAt(items, i) >= 1
  BY DEF Open, Weight
<1>2. DepthAt(items, m + 1) = k + w
  BY <1>1, DepthStep
<1> HIDE DEF w
<1>3. \A i \in 1 .. m + 1 : DepthAt(items, i) >= 1
  <2>1. \A i \in 1 .. m + 1 : i \in 1 .. m \/ i = m + 1
    BY <1>1
  <2> QED  BY <1>1, <1>2, <2>1
<1>4. ASSUME NEW j \in 1 .. k + w
      PROVE  \E q \in 1 .. m + 1 : BeginsAt(items, m + 1, q, j)
  <2>1. CASE j <= k
    <3>1. j \in 1 .. k
      BY <1>1, <2>1
    <3>2. PICK q \in 1 .. m : BeginsAt(items, m, q, j)
      BY <3>1 DEF Open
    <3>3. \A i \in q .. m + 1 : i \in q .. m \/ i = m + 1
      BY <1>1
    <3>4. DepthAt(items, m + 1) >= j
      BY <1>1, <1>2
    <3>5. BeginsAt(items, m + 1, q, j)
      BY <3>2, <3>3, <3>4 DEF BeginsAt
    <3> QED  BY <1>1, <3>5
  <2>2. CASE j > k
    <3>1. j = k + 1 /\ w = 1 /\ (m + 1) - 1 = m /\ m + 1 \in 1 .. m + 1
      BY <1>1, <2>2
    <3>2. \A i \in m + 1 .. m + 1 : i = m + 1
      BY <1>1
    <3>3. BeginsAt(items, m + 1, m + 1, j)
      BY <1>1, <1>2, <3>1, <3>2 DEF BeginsAt
    <3> QED  BY <3>1, <3>3
  <2> QED  BY <1>1, <2>1, <2>2
<1> QED
  BY <1>1, <1>2, <1>3, <1>4 DEF Open, w

\* The group that was closed last is the deepest that was open before.
LEMMA LastGroupIs ==
    ASSUME NEW items \in Seq(Item), NEW k, Open(items, Len(items) - 1, k),
           items[Len(items)] = End
    PROVE  /\ LastGroup(items) \in 1 .. Len(items) - 1
           /\ BeginsAt(items, Len(items) - 1, LastGroup(items), k)
<1> DEFINE n == Len(items)
           Is(i) == /\ DepthAt(items, i - 1) = k - 1
                    /\ \A j \in i + 1 .. n : DepthAt(items, j - 1) # k - 1
<1>1. n \in Nat /\ n - 1 \in Nat \ {0} /\ k \in Nat \ {0} /\ DOMAIN items = 1 .. n
  BY LenProperties DEF Open
<1>2. DepthAt(items, n) = k - 1
  <2>1. n \in Nat \ {0}
    BY <1>1
  <2>2. DepthAt(items, n) = DepthAt(items, n - 1) + Weight(items[n])
    BY <2>1, DepthBefore
  <2>3. DepthAt(items, n - 1) = k /\ Weight(items[n]) = -1
    BY EndsAreNoActs DEF Open, Weight
  <2> QED  BY <1>1, <2>2, <2>3
<1>3. ASSUME NEW i \in 1 .. n
      PROVE  /\ DepthAt(items, i - 1) \in Int
             /\ Depth(SubSeq(items, i, n)) = (k - 1) - DepthAt(items, i - 1)
  <2>1. i - 1 \in Nat
    BY <1>1
  <2> QED  BY <1>2, <2>1, DepthOfRest, DepthStep
<1>4. ASSUME NEW i \in 1 .. n
      PROVE  (/\ Depth(SubSeq(items, i, n)) = 0
              /\ \A j \in i + 1 .. n : Depth(SubSeq(items, j, n)) # 0) <=> Is(i)
  <2>1. \A j \in i + 1 .. n : j \in 1 .. n
    BY <1>1
  <2>2. \A j \in 1 .. n : Depth(SubSeq(items, j, n)) = 0 <=> DepthAt(items, j - 1) = k - 1
    BY <1>1, <1>3
  <2> HIDE DEF n
  <2> QED  BY <2>1, <2>2
<1>5. PICK q \in 1 .. n - 1 : BeginsAt(items, n - 1, q, k)
  <2>1. k \in 1 .. k
    BY <1>1
  <2> QED  BY <2>1 DEF Open
<1>6. q \in 1 .. n /\ Is(q)
  <2>1. \A j \in q + 1 .. n : j - 1 \in q .. n - 1 /\ j \in 1 .. n
    BY <1>1
  <2>2. \A j \in q + 1 .. n : DepthAt(items, j - 1) >= k /\ DepthAt(items, j - 1) \in Int
    BY <1>3, <1>5, <2>1 DEF BeginsAt
  <2>3. \A j \in q + 1 .. n : DepthAt(items, j - 1) # k - 1
    BY <1>1, <2>2
  <2> QED  BY <1>1, <1>5, <2>3 DEF BeginsAt
<1>7. ASSUME NEW i \in 1 .. n, Is(i)
      PROVE  i = q
  <2>1. CASE i < q
    <3>1. q \in i + 1 .. n
      BY <1>1, <2>1
    <3> QED  BY <1>6, <1>7, <3>1
  <2>2. CASE i > q
    <3>1. i \in q + 1 .. n
      BY <1>1, <2>2
    <3> QED  BY <1>6, <1>7, <3>1
  <2> QED  BY <1>1, <2>1, <2>2
<1> HIDE DEF Is
<1>8. LastGroup(items) = q
  <2> DEFINE Q(i) == /\ Depth(SubSeq(items, i, n)) = 0
                     /\ \A j \in i + 1 .. n : Depth(SubSeq(items, j, n)) # 0
  <2>1. LastGroup(items) = CHOOSE i \in 1 .. n : Q(i)
    BY <1>1 DEF LastGroup
  <2>2. Q(q) /\ \A i \in 1 .. n : Q(i) => i = q
    BY <1>4, <1>6, <1>7
  <2> HIDE DEF Q
  <2>3. \E i \in 1 .. n : Q(i)
    BY <1>6, <2>2
  <2>4. (CHOOSE i \in 1 .. n : Q(i)) = q
    BY <2>2, <2>3
  <2> QED  BY <2>1, <2>4
<1> QED
  BY <1>5, <1>8

\* Without the group closed last, the others are open still.
LEMMA OpenBefore ==
    ASSUME NEW items, NEW m, NEW k, Open(items, m, k),
           NEW start \in 1 .. m, BeginsAt(items, m, start, k)
    PROVE  /\ start = 1 <=> k = 1
           /\ start > 1 => Open(items, start - 1, k - 1)
<1>1. /\ m \in Nat \ {0} /\ k \in Nat \ {0} /\ start \in 1 .. m
      /\ DepthAt(items, start - 1) = k - 1
      /\ \A i \in start .. m : DepthAt(items, i) >= k
      /\ \A i \in 1 .. m : DepthAt(items, i) >= 1
      /\ items[1] = Begin
  BY DEF Open, BeginsAt
<1>2. start = 1 => k = 1
  <2>1. DepthAt(items, 0) = 0
    <3>1. 0 \in Nat
      OBVIOUS
    <3> QED  BY <3>1, DepthStep
  <2> QED  BY <1>1, <2>1
<1>3. start > 1 => k - 1 >= 1
  <2>1. start > 1 => start - 1 \in 1 .. m
    BY <1>1
  <2> QED  BY <1>1, <2>1
<1>4. ASSUME start > 1, NEW j \in 1 .. k - 1
      PROVE  \E q \in 1 .. start - 1 : BeginsAt(items, start - 1, q, j)
  <2>1. j \in 1 .. k
    BY <1>1
  <2>2. PICK q \in 1 .. m : BeginsAt(items, m, q, j)
    BY <2>1 DEF Open
  <2>3. DepthAt(items, q - 1) = j - 1 /\ \A i \in q .. m : DepthAt(items, i) >= j
    BY <2>2 DEF BeginsAt
  <2>4. q < start
    <3>1. CASE q = start
      BY <1>1, <2>3, <3>1
    <3>2. CASE q > start
      <4>1. q - 1 \in start .. m
        BY <1>1, <3>2
      <4>2. DepthAt(items, q - 1) >= k
        BY <1>1, <4>1
      <4> QED  BY <1>1, <2>3, <4>2
    <3> QED  BY <1>1, <3>1, <3>2
  <2>5. q \in 1 .. start - 1 /\ \A i \in q .. start - 1 : i \in q .. m
    BY <1>1, <2>4
  <2>6. BeginsAt(items, start - 1, q, j)
    BY <2>2, <2>3, <2>5 DEF BeginsAt
  <2> QED  BY <2>5, <2>6
<1>5. start > 1 => Open(items, start - 1, k - 1)
  <2>1. ASSUME start > 1
        PROVE  Open(items, start - 1, k - 1)
    <3>1. /\ start - 1 \in Nat \ {0} /\ k - 1 \in Nat \ {0}
          /\ \A i \in 1 .. start - 1 : i \in 1 .. m
      BY <1>1, <1>3, <2>1
    <3> QED  BY <1>1, <1>4, <2>1, <3>1 DEF Open
  <2> QED  BY <2>1
<1> QED
  BY <1>1, <1>2, <1>3, <1>5

\* A group in which there is more than its beginning.
LEMMA NotEmpty ==
    ASSUME NEW items \in Seq(Item), NEW k, Open(items, Len(items), k), items # <<Begin>>
    PROVE  Len(items) \in Nat /\ Len(items) >= 2
<1>1. Len(items) \in Nat \ {0} /\ items[1] = Begin
  BY DEF Open
<1>2. ASSUME Len(items) = 1
      PROVE  items = <<Begin>>
  <2>1. <<Begin>> \in Seq(Item) /\ Len(<<Begin>>) = 1 /\ <<Begin>>[1] = Begin
    BY DEF Item
  <2>2. \A i \in 1 .. 1 : i = 1
    OBVIOUS
  <2>3. \A i \in 1 .. 1 : items[i] = <<Begin>>[i]
    BY <1>1, <2>1, <2>2
  <2> QED  BY <1>2, <2>1, <2>3, SeqEqual
<1>3. Len(items) # 1
  BY <1>2
<1> DEFINE n == Len(items)
<1> HIDE DEF n
<1>4. n \in Nat \ {0} /\ n # 1
  BY <1>1, <1>3 DEF n
<1>5. n \in Nat /\ n >= 2
  BY <1>4
<1> QED
  BY <1>5 DEF n

LEMMA OpenDepth ==
    ASSUME NEW items \in Seq(Item), NEW k, Open(items, Len(items), k)
    PROVE  Depth(items) = k /\ k \in Nat \ {0}
  BY DepthIsDepthAt DEF Open

LEMMA ClosedDepth ==
    ASSUME NEW items \in Seq(Item), Closed(items)
    PROVE  /\ Depth(items) = 0
           /\ DepthAt(items, Len(items)) = 0
<1>1. Len(items) \in Nat \ {0}
  BY LenProperties DEF Closed
<1>2. DepthAt(items, Len(items)) = DepthAt(items, Len(items) - 1) + Weight(items[Len(items)])
  BY <1>1, DepthBefore
<1>3. DepthAt(items, Len(items) - 1) = 1 /\ Weight(items[Len(items)]) = -1
  BY EndsAreNoActs DEF Closed, Open, Weight
<1> QED
  BY <1>2, <1>3, DepthIsDepthAt

-----------------------------------------------------------------------------
(* Stacks of groups *)

Group == [address : Addresses, items : Seq(Item), before : Docs]

\* The first m groups lead to the content z, one after the other.
Chain(stack, m, z) ==
    \A i \in 1 .. m :
        /\ Closed(stack[i].items)
        /\ TracedTo(stack[i].items, Len(stack[i].items), stack[i].before,
                    IF i = m THEN z ELSE stack[i + 1].before)

Chained(stack, z) == Chain(stack, Len(stack), z)

\* The top group is being filled, k groups are open: the content was x and is y.
Filling(stack, k, x, y) ==
    LET m == Len(stack)
        items == stack[m].items
    IN  /\ stack # <<>>
        /\ Chain(stack, m - 1, x)
        /\ stack[m].before = x
        /\ Open(items, Len(items), k)
        /\ TracedTo(items, Len(items), x, y)

Built(stack, k, x, y) ==
    IF k = 0 THEN Chained(stack, x) /\ y = x ELSE Filling(stack, k, x, y)

LEMMA ChainSame ==
    ASSUME NEW s, NEW t, NEW m \in Nat, NEW z, Chain(s, m, z),
           \A i \in 1 .. m : t[i] = s[i]
    PROVE  Chain(t, m, z)
<1>1. ASSUME NEW i \in 1 .. m
      PROVE  /\ Closed(t[i].items)
             /\ TracedTo(t[i].items, Len(t[i].items), t[i].before,
                         IF i = m THEN z ELSE t[i + 1].before)
  <2>1. i # m => i + 1 \in 1 .. m
    OBVIOUS
  <2>2. /\ Closed(s[i].items)
        /\ TracedTo(s[i].items, Len(s[i].items), s[i].before,
                    IF i = m THEN z ELSE s[i + 1].before)
    BY DEF Chain
  <2>3. t[i] = s[i] /\ (i # m => t[i + 1] = s[i + 1])
    BY <2>1
  <2> QED  BY <2>2, <2>3
<1> QED
  BY <1>1 DEF Chain

\* The content before the top group is what the others lead to.
LEMMA ChainShorter ==
    ASSUME NEW s, NEW m \in Nat \ {0}, NEW z, Chain(s, m, z)
    PROVE  Chain(s, m - 1, s[m].before)
<1>1. ASSUME NEW i \in 1 .. m - 1
      PROVE  /\ Closed(s[i].items)
             /\ TracedTo(s[i].items, Len(s[i].items), s[i].before,
                         IF i = m - 1 THEN s[m].before ELSE s[i + 1].before)
  <2>1. i \in 1 .. m /\ i # m /\ (i = m - 1 => i + 1 = m)
    OBVIOUS
  <2>2. /\ Closed(s[i].items)
        /\ TracedTo(s[i].items, Len(s[i].items), s[i].before, s[i + 1].before)
    BY <2>1 DEF Chain
  <2> QED  BY <2>1, <2>2
<1> QED
  BY <1>1 DEF Chain

LEMMA ChainLonger ==
    ASSUME NEW s, NEW m \in Nat \ {0}, NEW x, NEW z, Chain(s, m - 1, x), s[m].before = x,
           Closed(s[m].items), TracedTo(s[m].items, Len(s[m].items), x, z)
    PROVE  Chain(s, m, z)
<1>1. ASSUME NEW i \in 1 .. m
      PROVE  /\ Closed(s[i].items)
             /\ TracedTo(s[i].items, Len(s[i].items), s[i].before,
                         IF i = m THEN z ELSE s[i + 1].before)
  <2>1. CASE i = m
    BY <2>1
  <2>2. CASE i # m
    <3>1. i \in 1 .. m - 1 /\ (i = m - 1 => i + 1 = m)
      BY <2>2
    <3>2. /\ Closed(s[i].items)
          /\ TracedTo(s[i].items, Len(s[i].items), s[i].before,
                      IF i = m - 1 THEN x ELSE s[i + 1].before)
      BY <3>1 DEF Chain
    <3>3. CASE i = m - 1
      BY <2>2, <3>1, <3>2, <3>3
    <3>4. CASE i # m - 1
      BY <2>2, <3>1, <3>2, <3>4
    <3> QED  BY <3>3, <3>4
  <2> QED  BY <2>1, <2>2
<1> QED
  BY <1>1 DEF Chain

\* The oldest d groups are forgotten.
LEMMA ChainTrimmed ==
    ASSUME NEW s, NEW t, NEW m \in Nat, NEW d \in Nat, d <= m, NEW z, Chain(s, m, z),
           \A i \in 1 .. m - d : t[i] = s[i + d]
    PROVE  Chain(t, m - d, z)
<1>1. ASSUME NEW i \in 1 .. m - d
      PROVE  /\ Closed(t[i].items)
             /\ TracedTo(t[i].items, Len(t[i].items), t[i].before,
                         IF i = m - d THEN z ELSE t[i + 1].before)
  <2>1. /\ i + d \in 1 .. m /\ (i = m - d <=> i + d = m)
        /\ i # m - d => i + 1 \in 1 .. m - d /\ (i + 1) + d = (i + d) + 1
    OBVIOUS
  <2>2. /\ Closed(s[i + d].items)
        /\ TracedTo(s[i + d].items, Len(s[i + d].items), s[i + d].before,
                    IF i + d = m THEN z ELSE s[(i + d) + 1].before)
    BY <2>1 DEF Chain
  <2>3. t[i] = s[i + d]
    OBVIOUS
  <2>4. i # m - d => t[i + 1] = s[(i + d) + 1]
    <3>1. ASSUME i # m - d
          PROVE  t[i + 1] = s[(i + d) + 1]
      <4>1. t[i + 1] = s[(i + 1) + d]
        BY <2>1, <3>1
      <4> QED  BY <2>1, <3>1, <4>1
    <3> QED  BY <3>1
  <2> QED  BY <2>1, <2>2, <2>3, <2>4
<1> QED
  BY <1>1 DEF Chain

LEMMA NoChain == \A z : Chained(<<>>, z)
  BY DEF Chained, Chain

-----------------------------------------------------------------------------
(* What the operations do to the groups of a stack *)

LEMMA StackTop ==
    ASSUME NEW s \in Seq(Group), s # <<>>
    PROVE  /\ Len(s) \in Nat \ {0} /\ Last(s) = s[Len(s)] /\ s[Len(s)] \in Group
           /\ s[Len(s)].items \in Seq(Item) /\ s[Len(s)].before \in Docs
<1>1. Len(s) \in Nat \ {0}
  BY EmptySeq
<1>2. s[Len(s)] \in Group
  BY <1>1, ElementOfSeq
<1> QED
  BY <1>1, <1>2 DEF Last, Group

LEMMA TopWithItems ==
    ASSUME NEW s \in Seq(Group), s # <<>>, NEW items \in Seq(Item)
    PROVE  LET t == TopWith(s, items)
           IN  /\ t \in Seq(Group) /\ t # <<>> /\ Len(t) = Len(s)
               /\ \A i \in 1 .. Len(s) - 1 : t[i] = s[i]
               /\ t[Len(s)].items = items
               /\ t[Len(s)].before = s[Len(s)].before
               /\ t[Len(s)].address = s[Len(s)].address
<1> DEFINE n == Len(s)
           g == [s[n] EXCEPT !.items = items]
           t == [s EXCEPT ![n] = g]
<1>1. n \in Nat \ {0} /\ s[n] \in Group /\ Last(s) = s[n]
  BY StackTop
<1>2. g \in Group /\ g.items = items /\ g.before = s[n].before /\ g.address = s[n].address
  BY <1>1 DEF Group
<1>3. TopWith(s, items) = t
  BY <1>1 DEF TopWith, ReplaceAt
<1>4. t \in Seq(Group) /\ Len(t) = n /\ \A i \in 1 .. n : t[i] = IF i = n THEN g ELSE s[i]
  <2>1. n \in 1 .. Len(s)
    BY <1>1
  <2> HIDE DEF g
  <2> QED  BY <1>2, <2>1, ExceptSeq
<1> HIDE DEF n, g, t
<1>5. t[n] = g /\ \A i \in 1 .. n - 1 : t[i] = s[i]
  BY <1>1, <1>4
<1>6. t # <<>>
  BY <1>1, <1>4, EmptySeq
<1> QED
  BY <1>2, <1>3, <1>4, <1>5, <1>6 DEF n

LEMMA FrontItems ==
    ASSUME NEW s \in Seq(Group), s # <<>>
    PROVE  /\ Front(s) \in Seq(Group) /\ Len(Front(s)) = Len(s) - 1
           /\ \A i \in 1 .. Len(s) - 1 : Front(s)[i] = s[i]
<1> DEFINE m == Len(s) - 1
<1>1. Len(s) \in Nat \ {0} /\ \A i \in 1 .. Len(s) : s[i] \in Group
  BY EmptySeq, ElementOfSeq
<1>2. 1 \in Int /\ m \in Int /\ m \in Nat /\ \A i \in 1 .. m : s[i] \in Group
  BY <1>1
<1>3. Front(s) = SubSeq(s, 1, m)
  BY DEF Front
<1> HIDE DEF m
<1>4. /\ SubSeq(s, 1, m) \in Seq(Group)
      /\ Len(SubSeq(s, 1, m)) = IF 1 <= m THEN m - 1 + 1 ELSE 0
      /\ \A i \in 1 .. m - 1 + 1 : SubSeq(s, 1, m)[i] = s[1 + i - 1]
  BY <1>2, SubSeqProperties
<1>5. Front(s) \in Seq(Group) /\ Len(Front(s)) = m /\ \A i \in 1 .. m : Front(s)[i] = s[i]
  BY <1>2, <1>3, <1>4
<1> QED
  BY <1>5 DEF m

LEMMA PushedItems ==
    ASSUME NEW s \in Seq(Group), NEW g \in Group
    PROVE  LET t == s \o <<g>>
           IN  /\ t \in Seq(Group) /\ t # <<>> /\ Len(t) = Len(s) + 1
               /\ \A i \in 1 .. Len(s) : t[i] = s[i]
               /\ t[Len(s) + 1] = g
<1>1. s \o <<g>> = Append(s, g)
  BY AppendIsConcat
<1> QED
  BY <1>1, AppendProperties

LEMMA TrimmedItems ==
    ASSUME NEW s \in Seq(Group), NEW n \in Nat
    PROVE  \E d \in Nat :
              /\ d <= Len(s) /\ (s # <<>> => d < Len(s))
              /\ Trimmed(s, n) \in Seq(Group) /\ Len(Trimmed(s, n)) = Len(s) - d
              /\ \A i \in 1 .. Len(s) - d : Trimmed(s, n)[i] = s[i + d]
<1>1. Len(s) \in Nat /\ (s # <<>> => Len(s) > 0) /\ \A i \in 1 .. Len(s) : s[i] \in Group
  BY EmptySeq, ElementOfSeq, LenProperties
<1>2. CASE n > 0 /\ Len(s) > n
  <2> DEFINE d == Len(s) - n
             a == d + 1
             b == Len(s)
  <2>1. /\ d \in Nat /\ d < Len(s) /\ Len(s) - d = n
        /\ a \in Int /\ b \in Int /\ a <= b /\ b - a + 1 = n
        /\ \A i \in a .. b : s[i] \in Group
        /\ a = Len(s) - n + 1
    BY <1>1, <1>2
  <2>2. Trimmed(s, n) = SubSeq(s, a, b)
    BY <1>2, <2>1 DEF Trimmed
  <2> HIDE DEF a, b
  <2>3. /\ SubSeq(s, a, b) \in Seq(Group) /\ Len(SubSeq(s, a, b)) = n
        /\ \A i \in 1 .. n : SubSeq(s, a, b)[i] = s[a + i - 1]
    BY <2>1, SubSeqProperties
  <2>4. \A i \in 1 .. n : a + i - 1 = i + d
    BY <2>1 DEF a
  <2>5. \A i \in 1 .. n : Trimmed(s, n)[i] = s[i + d]
    BY <2>2, <2>3, <2>4
  <2>6. Trimmed(s, n) \in Seq(Group) /\ Len(Trimmed(s, n)) = Len(s) - d
    BY <2>1, <2>2, <2>3
  <2> HIDE DEF d
  <2>7. \A i \in 1 .. Len(s) - d : Trimmed(s, n)[i] = s[i + d]
    BY <2>1, <2>5
  <2> QED  BY <1>1, <2>1, <2>6, <2>7
<1>3. CASE ~(n > 0 /\ Len(s) > n)
  <2>1. Trimmed(s, n) = s
    BY <1>3 DEF Trimmed
  <2>2. 0 \in Nat /\ Len(s) - 0 = Len(s) /\ \A i \in 1 .. Len(s) : i + 0 = i
    BY <1>1
  <2>3. /\ 0 <= Len(s) /\ (s # <<>> => 0 < Len(s))
        /\ Trimmed(s, n) \in Seq(Group) /\ Len(Trimmed(s, n)) = Len(s) - 0
        /\ \A i \in 1 .. Len(s) - 0 : Trimmed(s, n)[i] = s[i + 0]
    BY <1>1, <2>1, <2>2
  <2> QED  BY <2>2, <2>3
<1> QED
  BY <1>2, <1>3

-----------------------------------------------------------------------------
(* What the operations do to a stack that is being built *)

LEMMA BuiltTop ==
    ASSUME NEW s \in Seq(Group), NEW k \in Nat, NEW x, NEW y, Built(s, k, x, y)
    PROVE  /\ TopIsOpen(s) <=> k > 0
           /\ k > 0 => s # <<>> /\ Depth(Last(s).items) = k
<1>1. CASE k = 0
  <2>1. ASSUME s # <<>>
        PROVE  Depth(Last(s).items) = 0
    <3>1. Len(s) \in Nat \ {0} /\ Last(s) = s[Len(s)] /\ s[Len(s)].items \in Seq(Item)
      BY <2>1, StackTop
    <3>2. Len(s) \in 1 .. Len(s)
      BY <3>1
    <3>3. Closed(s[Len(s)].items)
      BY <1>1, <3>2 DEF Built, Chained, Chain
    <3> QED  BY <3>1, <3>3, ClosedDepth
  <2> QED  BY <1>1, <2>1 DEF TopIsOpen
<1>2. CASE k # 0
  <2>1. s # <<>> /\ Open(s[Len(s)].items, Len(s[Len(s)].items), k)
    BY <1>2 DEF Built, Filling
  <2>2. Last(s) = s[Len(s)] /\ s[Len(s)].items \in Seq(Item)
    BY <2>1, StackTop
  <2>3. Depth(Last(s).items) = k
    BY <2>1, <2>2, OpenDepth
  <2> QED  BY <1>2, <2>1, <2>3 DEF TopIsOpen
<1> QED
  BY <1>1, <1>2

\* A group is begun.
LEMMA BuiltBegins ==
    ASSUME NEW s \in Seq(Group), NEW x \in Docs, Chained(s, x), NEW g \in Group,
           g.items = <<Begin>>, g.before = x
    PROVE  s \o <<g>> \in Seq(Group) /\ Built(s \o <<g>>, 1, x, x)
           /\ Len(Last(s \o <<g>>).items) = 1
<1> DEFINE t == s \o <<g>>
           m == Len(t)
<1>1. /\ t \in Seq(Group) /\ t # <<>> /\ m = Len(s) + 1 /\ m - 1 = Len(s) /\ Len(s) \in Nat
      /\ \A i \in 1 .. Len(s) : t[i] = s[i]
      /\ t[m] = g
  BY PushedItems, LenProperties
<1> HIDE DEF t
<1>2. Chain(t, m - 1, x)
  <2>1. Chain(t, Len(s), x)
    BY <1>1, ChainSame DEF Chained
  <2> QED  BY <1>1, <2>1
<1> DEFINE items == t[m].items
<1>3. items = <<Begin>> /\ Len(items) = 1 /\ items[1] = Begin
  <2>1. items = <<Begin>>
    BY <1>1
  <2> HIDE DEF items
  <2> QED  BY <2>1
<1> HIDE DEF items
<1>4. Open(items, Len(items), 1) /\ TracedTo(items, Len(items), x, x)
  BY <1>3, OpenFirst, TracedBegin
<1>5. Filling(t, 1, x, x)
  BY <1>1, <1>2, <1>4 DEF Filling, items
<1>6. Last(t) = t[m]
  BY DEF Last
<1> QED
  BY <1>1, <1>3, <1>5, <1>6 DEF Built, t, items

\* Something is added to the deepest open group.
LEMMA TopGrows ==
    ASSUME NEW s \in Seq(Group), s # <<>>, NEW item \in Item
    PROVE  LET t == TopAppended(s, item)
               m == Len(s)
               n == Len(s[m].items)
           IN  /\ t \in Seq(Group) /\ t # <<>> /\ Len(t) = m
               /\ \A i \in 1 .. m - 1 : t[i] = s[i]
               /\ t[m].before = s[m].before /\ t[m].address = s[m].address
               /\ t[m].items \in Seq(Item) /\ Len(t[m].items) = n + 1 /\ n \in Nat
               /\ \A i \in 1 .. n : t[m].items[i] = s[m].items[i]
               /\ t[m].items[n + 1] = item
<1> DEFINE m == Len(s)
           old == s[m].items
           new == Append(old, item)
<1>1. m \in Nat \ {0} /\ Last(s) = s[m] /\ old \in Seq(Item)
  BY StackTop
<1>2. /\ new \in Seq(Item) /\ Len(new) = Len(old) + 1 /\ Len(old) \in Nat
      /\ \A i \in 1 .. Len(old) : new[i] = old[i]
      /\ new[Len(old) + 1] = item
  BY <1>1, AppendProperties, LenProperties
<1>3. TopAppended(s, item) = TopWith(s, new)
  BY <1>1 DEF TopAppended
<1> HIDE DEF new
<1> QED
  BY <1>2, <1>3, TopWithItems

LEMMA BuiltGrows ==
    ASSUME NEW s \in Seq(Group), NEW k \in Nat \ {0}, NEW x, NEW y, Built(s, k, x, y),
           NEW item \in Item, NEW z \in Docs, Between(y, item, z), k + Weight(item) >= 1
    PROVE  /\ TopAppended(s, item) \in Seq(Group)
           /\ Built(TopAppended(s, item), k + Weight(item), x, z)
           /\ Len(Last(TopAppended(s, item)).items) = Len(Last(s).items) + 1
<1> DEFINE t == TopAppended(s, item)
           m == Len(s)
           old == s[m].items
           new == t[m].items
           n == Len(old)
           w == Weight(item)
<1>1. /\ s # <<>> /\ Chain(s, m - 1, x) /\ s[m].before = x
      /\ Open(old, n, k) /\ TracedTo(old, n, x, y)
  BY DEF Built, Filling
<1>2. /\ t \in Seq(Group) /\ t # <<>> /\ Len(t) = m
      /\ \A i \in 1 .. m - 1 : t[i] = s[i]
      /\ t[m].before = s[m].before
      /\ Len(new) = n + 1 /\ n \in Nat
      /\ \A i \in 1 .. n : new[i] = old[i]
      /\ new[n + 1] = item
  BY <1>1, TopGrows
<1> HIDE DEF t
<1>3. Last(s) = s[m] /\ Last(t) = t[m] /\ m \in Nat \ {0} /\ m - 1 \in Nat
  <2>1. m \in Nat \ {0} /\ Last(s) = s[m]
    BY <1>1, StackTop
  <2> QED  BY <1>2, <2>1 DEF Last
<1>4. Chain(t, m - 1, x)
  <2> DEFINE c == m - 1
  <2>1. c \in Nat /\ Chain(s, c, x) /\ \A i \in 1 .. c : t[i] = s[i]
    BY <1>1, <1>2, <1>3
  <2> HIDE DEF c
  <2>2. Chain(t, c, x)
    BY <2>1, ChainSame
  <2> QED  BY <2>2 DEF c
<1> HIDE DEF new, n
<1>5. Open(new, n + 1, k + w)
  <2>1. Open(new, n, k)
    BY <1>1, <1>2, OpenSame DEF n
  <2> QED  BY <1>2, <2>1, OpenNext
<1>6. TracedTo(new, n + 1, x, z)
  <2>1. TracedTo(new, n, x, y)
    BY <1>1, <1>2, TracedSame DEF n
  <2> QED  BY <1>2, <2>1, TracedLonger
<1>7. k + w \in Nat \ {0}
  BY <1>5 DEF Open
<1>8. Filling(t, k + w, x, z)
  BY <1>1, <1>2, <1>4, <1>5, <1>6 DEF Filling, new
<1>9. Built(t, k + w, x, z)
  BY <1>7, <1>8 DEF Built
<1> QED
  BY <1>2, <1>3, <1>9 DEF t, new, n

\* The outermost group ends: it goes if it is empty.
LEMMA BuiltEnds ==
    ASSUME NEW s \in Seq(Group), NEW x, NEW y, Built(s, 1, x, y)
    PROVE  Ended(s) \in Seq(Group) /\ Chained(Ended(s), y)
<1> DEFINE m == Len(s)
           old == s[m].items
           n == Len(old)
<1>1. /\ s # <<>> /\ Chain(s, m - 1, x) /\ s[m].before = x
      /\ Open(old, n, 1) /\ TracedTo(old, n, x, y)
  BY DEF Built, Filling
<1>2. m \in Nat \ {0} /\ m - 1 \in Nat /\ Last(s) = s[m] /\ old \in Seq(Item) /\ n \in Nat
  <2>1. m \in Nat \ {0} /\ Last(s) = s[m] /\ old \in Seq(Item)
    BY <1>1, StackTop
  <2> QED  BY <2>1, LenProperties
<1>3. CASE old = <<Begin>>
  <2>1. Ended(s) = Front(s)
    BY <1>2, <1>3 DEF Ended
  <2>2. Front(s) \in Seq(Group) /\ Len(Front(s)) = m - 1 /\ \A i \in 1 .. m - 1 : Front(s)[i] = s[i]
    BY <1>1, FrontItems
  <2>3. x = y
    <3>1. n = 1 /\ old[1] = Begin
      BY <1>3
    <3> HIDE DEF n, old
    <3>2. 1 \in Nat \ {0} /\ TracedTo(old, 1, x, y) /\ 1 - 1 = 0
      BY <1>1, <3>1
    <3>3. PICK w \in Docs : TracedTo(old, 1 - 1, x, w) /\ Between(w, old[1], y)
      BY <3>2, TracedShorter
    <3>4. x = w
      BY <3>2, <3>3, TracedNowhere
    <3> QED  BY <3>1, <3>3, <3>4 DEF Between
  <2> DEFINE c == m - 1
  <2>4. c \in Nat /\ Chain(s, c, x) /\ \A i \in 1 .. c : Front(s)[i] = s[i]
    BY <1>1, <1>2, <2>2
  <2> HIDE DEF c
  <2>5. Chain(Front(s), c, x)
    BY <2>4, ChainSame
  <2> QED  BY <2>1, <2>2, <2>3, <2>5 DEF Chained, c
<1>4. CASE old # <<Begin>>
  <2> DEFINE t == TopAppended(s, End)
             new == t[m].items
  <2>1. Ended(s) = t
    BY <1>2, <1>4 DEF Ended
  <2>2. /\ t \in Seq(Group) /\ Len(t) = m
        /\ \A i \in 1 .. m - 1 : t[i] = s[i]
        /\ t[m].before = s[m].before
        /\ Len(new) = n + 1
        /\ \A i \in 1 .. n : new[i] = old[i]
        /\ new[n + 1] = End
    BY <1>1, TopGrows DEF Item
  <2>3. n >= 2
    <3> HIDE DEF old
    <3> QED  BY <1>1, <1>2, <1>4, NotEmpty DEF n
  <2> HIDE DEF t
  <2>4. Chain(t, m - 1, x)
    <3> DEFINE c == m - 1
    <3>1. c \in Nat /\ Chain(s, c, x) /\ \A i \in 1 .. c : t[i] = s[i]
      BY <1>1, <1>2, <2>2
    <3> HIDE DEF c
    <3>2. Chain(t, c, x)
      BY <3>1, ChainSame
    <3> QED  BY <3>2 DEF c
  <2> HIDE DEF new, n
  <2>5. Closed(new)
    <3>1. Open(new, n, 1)
      BY <1>1, <2>2, OpenSame DEF n
    <3>2. Len(new) - 1 = n /\ Len(new) >= 3
      BY <1>2, <2>2, <2>3
    <3> QED  BY <2>2, <3>1, <3>2 DEF Closed
  <2>6. TracedTo(new, Len(new), x, y)
    <3>1. TracedTo(new, n, x, y)
      BY <1>1, <1>2, <2>2, TracedSame DEF n
    <3>2. y \in Docs
      BY <1>1, <1>2, TracedDocs DEF n
    <3>3. Between(y, End, y)
      BY DEF Between
    <3> QED  BY <1>2, <2>2, <3>1, <3>2, <3>3, TracedLonger
  <2>7. Chain(t, m, y)
    BY <1>1, <1>2, <2>2, <2>4, <2>5, <2>6, ChainLonger DEF new
  <2> QED  BY <2>1, <2>2, <2>7 DEF Chained
<1> QED
  BY <1>3, <1>4

\* A group in a group ends: it is closed.
LEMMA InnerEnds ==
    ASSUME NEW s \in Seq(Group), NEW k, k \in Nat, k >= 2, NEW x, NEW y, Built(s, k, x, y)
    PROVE  Ended(s) = TopAppended(s, End)
<1>1. s # <<>> /\ Open(s[Len(s)].items, Len(s[Len(s)].items), k) /\ Last(s) = s[Len(s)]
  BY StackTop DEF Built, Filling
<1>2. ASSUME s[Len(s)].items = <<Begin>>
      PROVE  FALSE
  <2> DEFINE items == s[Len(s)].items
  <2>1. items[1] = Begin /\ Len(items) = 1
    BY <1>2
  <2> HIDE DEF items
  <2>2. Open(items, 1, 1) /\ Open(items, 1, k)
    BY <1>1, <2>1, OpenFirst DEF items
  <2> QED  BY <2>2 DEF Open
<1> QED
  BY <1>1, <1>2 DEF Ended

\* trim_undo_stack never takes the group that is being filled.
LEMMA BuiltTrimmed ==
    ASSUME NEW s \in Seq(Group), NEW k \in Nat, NEW x, NEW y, Built(s, k, x, y), NEW n \in Nat
    PROVE  /\ Trimmed(s, n) \in Seq(Group)
           /\ Built(Trimmed(s, n), k, x, y)
           /\ s # <<>> => Last(Trimmed(s, n)) = Last(s) /\ Trimmed(s, n) # <<>>
<1> DEFINE t == Trimmed(s, n)
           m == Len(s)
<1>1. PICK d \in Nat : /\ d <= m /\ (s # <<>> => d < m)
                       /\ t \in Seq(Group) /\ Len(t) = m - d
                       /\ \A i \in 1 .. m - d : t[i] = s[i + d]
  BY TrimmedItems
<1>2. m \in Nat
  BY LenProperties
<1> HIDE DEF t, m
<1>3. s # <<>> => t[m - d] = s[m] /\ Last(t) = Last(s) /\ t # <<>>
  <2>1. ASSUME s # <<>>
        PROVE  t[m - d] = s[m] /\ Last(t) = Last(s) /\ t # <<>>
    <3>1. m - d \in 1 .. m - d /\ (m - d) + d = m
      BY <1>1, <1>2, <2>1
    <3>2. t[m - d] = s[m]
      BY <1>1, <3>1
    <3>3. Last(t) = t[m - d] /\ Last(s) = s[m]
      BY <1>1 DEF Last, m
    <3>4. t # <<>>
      BY <1>1, <1>2, <2>1, EmptySeq
    <3> QED  BY <3>2, <3>3, <3>4
  <2> QED  BY <2>1
<1>4. CASE k = 0
  <2>1. Chain(s, m, x) /\ y = x
    BY <1>4 DEF Built, Chained, m
  <2>2. Chain(t, m - d, x)
    BY <1>1, <1>2, <2>1, ChainTrimmed
  <2> QED  BY <1>1, <1>3, <1>4, <2>1, <2>2 DEF Built, Chained, t
<1>5. CASE k # 0
  <2>1. /\ s # <<>> /\ Chain(s, m - 1, x) /\ s[m].before = x
        /\ Open(s[m].items, Len(s[m].items), k) /\ TracedTo(s[m].items, Len(s[m].items), x, y)
    BY <1>5 DEF Built, Filling, m
  <2>2. Chain(t, (m - d) - 1, x)
    <3> DEFINE c == m - 1
    <3>1. c \in Nat /\ d <= c /\ c - d = (m - d) - 1
          /\ Chain(s, c, x) /\ \A i \in 1 .. c - d : t[i] = s[i + d]
      BY <1>1, <1>2, <2>1
    <3> HIDE DEF c
    <3>2. Chain(t, c - d, x)
      BY <3>1, ChainTrimmed
    <3> QED  BY <3>1, <3>2
  <2>3. Filling(t, k, x, y)
    BY <1>1, <1>3, <2>1, <2>2 DEF Filling
  <2> QED  BY <1>1, <1>3, <1>5, <2>3 DEF Built, t
<1> QED
  BY <1>4, <1>5

-----------------------------------------------------------------------------
(* A group that is being undone *)

Flip(item) == IF item = Begin THEN End ELSE IF item = End THEN Begin ELSE item

\* What is left to do are the items from start on, read backwards.
ReadBack(left, items, start) ==
    \A i \in 1 .. Len(left) : left[i] = Flip(items[start + Len(left) - i])

\* undo and redo: the first items of from's top group, as many as are left to
\* do, lead to the content y, and what was undone of it is being added to the
\* other stack.
Reversing(from, to, left, x, y) ==
    LET m == Len(from)
        src == from[m].items
        n == Len(left)
    IN  /\ from # <<>>
        /\ n \in 1 .. Len(src)
        /\ ReadBack(left, src, 1)
        /\ Chained(from, x)
        /\ TracedTo(src, n, from[m].before, y)
        /\ Built(to, DepthAt(src, n), x, y)
        /\ n < Len(src) => to # <<>> /\ Len(Last(to).items) = Len(src) - n

\* cancel: the group that was closed last is undone, and nothing recorded.
Cancelling(stack, left, k, x, y) ==
    LET m == Len(stack)
        items == stack[m].items
        start == LastGroup(items)
        n == Len(left)
    IN  /\ stack # <<>>
        /\ Chain(stack, m - 1, x)
        /\ stack[m].before = x
        /\ Len(items) >= 3
        /\ Open(items, Len(items) - 1, k)
        /\ items[Len(items)] = End
        /\ n \in 1 .. Len(items) - start + 1
        /\ ReadBack(left, items, start)
        /\ TracedTo(items, start - 1 + n, x, y)

LEMMA FlipItem ==
    ASSUME NEW item \in Item
    PROVE  /\ Flip(item) \in Item
           /\ Flip(item) = Begin <=> item = End
           /\ Flip(item) = End <=> item = Begin
           /\ Flip(item) \notin {Begin, End} => Flip(item) = item /\ item \in Acts
  BY EndsAreNoActs DEF Flip, Item

LEMMA ProgramItems ==
    ASSUME NEW items \in Seq(Item)
    PROVE  /\ Program(items) \in Seq(Item)
           /\ Len(Program(items)) = Len(items)
           /\ ReadBack(Program(items), items, 1)
<1> DEFINE n == Len(items)
           P == Program(items)
<1>1. n \in Nat /\ DOMAIN items = 1 .. n /\ \A i \in 1 .. n : items[i] \in Item
  BY LenProperties, ElementOfSeq
<1>2. Reverse(items) = [i \in 1 .. n |-> items[(n - i) + 1]]
  BY DEF Reverse
<1>3. P = [i \in 1 .. n |-> P[i]] /\ \A i \in 1 .. n : P[i] = Flip(items[(n - i) + 1])
  <2>1. P = [i \in 1 .. n |->
                LET item == Reverse(items)[i]
                IN  CASE item = Begin -> End [] item = End -> Begin [] OTHER -> item]
    BY <1>1 DEF Program
  <2> HIDE DEF P
  <2>2. \A i \in 1 .. n : Reverse(items)[i] = items[(n - i) + 1]
    BY <1>2
  <2>3. Begin # End
    BY EndsAreNoActs
  <2> QED  BY <2>1, <2>2, <2>3 DEF Flip
<1> HIDE DEF P
<1>4. \A i \in 1 .. n : P[i] \in Item /\ P[i] = Flip(items[1 + n - i])
  <2>1. \A i \in 1 .. n : (n - i) + 1 \in 1 .. n /\ (n - i) + 1 = 1 + n - i
    BY <1>1
  <2> QED  BY <1>1, <1>3, <2>1, FlipItem
<1>5. P \in Seq(Item)
  BY <1>1, <1>3, <1>4, IsASeq
<1>6. Len(P) = n
  <2>1. DOMAIN P = 1 .. n
    BY <1>3
  <2> QED  BY <1>1, <1>5, <2>1, LenProperties
<1> QED
  BY <1>4, <1>5, <1>6 DEF ReadBack, P

LEMMA ReadBackTail ==
    ASSUME NEW left \in Seq(Item), left # <<>>, NEW items, NEW start \in Int,
           ReadBack(left, items, start)
    PROVE  /\ Tail(left) \in Seq(Item)
           /\ Len(Tail(left)) = Len(left) - 1
           /\ Len(left) \in Nat \ {0}
           /\ ReadBack(Tail(left), items, start)
           /\ Head(left) = Flip(items[start + Len(left) - 1])
<1>1. /\ Tail(left) \in Seq(Item) /\ Len(Tail(left)) = Len(left) - 1
      /\ \A i \in 1 .. Len(Tail(left)) : Tail(left)[i] = left[i + 1]
      /\ Len(left) \in Nat \ {0}
  BY HeadTailProperties, EmptySeq
<1>2. \A i \in 1 .. Len(left) : left[i] = Flip(items[start + Len(left) - i])
  BY DEF ReadBack
<1> DEFINE t == Tail(left)
<1> HIDE DEF t
<1>3. ASSUME NEW i \in 1 .. Len(t)
      PROVE  t[i] = Flip(items[start + Len(t) - i])
  <2>1. i + 1 \in 1 .. Len(left) /\ start + Len(left) - (i + 1) = start + Len(t) - i
    BY <1>1 DEF t
  <2>2. t[i] = left[i + 1]
    BY <1>1 DEF t
  <2>3. left[i + 1] = Flip(items[start + Len(left) - (i + 1)])
    BY <1>2, <2>1
  <2> QED  BY <2>1, <2>2, <2>3
<1>4. Head(left) = left[1]
  OBVIOUS
<1>5. 1 \in 1 .. Len(left)
  BY <1>1
<1> QED
  BY <1>1, <1>2, <1>3, <1>4, <1>5 DEF ReadBack, t

\* A group is about to be undone.
LEMMA ReversingStarts ==
    ASSUME NEW from \in Seq(Group), from # <<>>, NEW to \in Seq(Group), NEW x \in Docs,
           Chained(from, x), Chained(to, x)
    PROVE  /\ Program(Last(from).items) \in Seq(Item)
           /\ Program(Last(from).items) # <<>>
           /\ Reversing(from, to, Program(Last(from).items), x, x)
<1> DEFINE m == Len(from)
           src == from[m].items
           left == Program(src)
<1>1. m \in Nat \ {0} /\ Last(from) = from[m] /\ src \in Seq(Item)
  BY StackTop
<1>2. left \in Seq(Item) /\ Len(left) = Len(src) /\ ReadBack(left, src, 1)
  BY <1>1, ProgramItems
<1>3. Closed(src) /\ TracedTo(src, Len(src), from[m].before, x)
  <2>1. m \in 1 .. m
    BY <1>1
  <2> QED  BY <2>1 DEF Chained, Chain
<1>4. DepthAt(src, Len(src)) = 0 /\ Len(src) \in Nat /\ Len(src) >= 3
  BY <1>1, <1>3, ClosedDepth, LenProperties DEF Closed
<1>5. Built(to, 0, x, x)
  BY DEF Built
<1> HIDE DEF left, src
<1>6. left # <<>>
  BY <1>2, <1>4, EmptySeq
<1>7. Reversing(from, to, left, x, x)
  BY <1>2, <1>3, <1>4, <1>5 DEF Reversing, src
<1> QED
  BY <1>1, <1>2, <1>6, <1>7 DEF left, src

\* What is done next, and where it leads.
LEMMA ReversingHead ==
    ASSUME NEW from \in Seq(Group), NEW to, NEW left \in Seq(Item), NEW x, NEW y,
           Reversing(from, to, left, x, y)
    PROVE  LET m == Len(from)
               src == from[m].items
               n == Len(left)
           IN  /\ left # <<>> /\ n \in Nat \ {0} /\ n - 1 \in Nat
               /\ m \in Nat \ {0} /\ src \in Seq(Item) /\ Closed(src) /\ Len(src) \in Nat
               /\ Tail(left) \in Seq(Item) /\ Len(Tail(left)) = n - 1
               /\ Head(left) = Flip(src[n]) /\ src[n] \in Item
               /\ Head(left) # End => n >= 2
               /\ \E w \in Docs : TracedTo(src, n - 1, from[m].before, w) /\ Between(w, src[n], y)
<1> DEFINE m == Len(from)
           src == from[m].items
           n == Len(left)
<1>1. /\ from # <<>> /\ n \in 1 .. Len(src) /\ ReadBack(left, src, 1)
      /\ Chained(from, x) /\ TracedTo(src, n, from[m].before, y)
  BY DEF Reversing
<1>2. m \in Nat \ {0} /\ src \in Seq(Item)
  BY <1>1, StackTop
<1>3. Closed(src)
  <2>1. m \in 1 .. m
    BY <1>2
  <2> QED  BY <1>1, <2>1 DEF Chained, Chain
<1>4. Len(src) \in Nat /\ n \in Nat \ {0} /\ n - 1 \in Nat /\ src[n] \in Item /\ left # <<>>
  <2>1. Len(src) \in Nat /\ src[n] \in Item
    BY <1>1, <1>2, LenProperties, ElementOfSeq
  <2>2. n \in Nat \ {0} /\ n - 1 \in Nat
    BY <1>1, <2>1
  <2>3. left # <<>>
    BY <2>2, EmptySeq
  <2> QED  BY <2>1, <2>2, <2>3
<1>5. /\ Tail(left) \in Seq(Item) /\ Len(Tail(left)) = n - 1
      /\ Head(left) = Flip(src[1 + n - 1])
  BY <1>1, <1>4, ReadBackTail
<1> HIDE DEF n
<1>6. 1 + n - 1 = n
  BY <1>4
<1>7. n = 1 => Head(left) = End
  <2>1. src[1] = Begin
    BY <1>3 DEF Closed, Open
  <2> QED  BY <1>5, <2>1 DEF Flip
<1> HIDE DEF src, m
<1>8. \E w \in Docs : TracedTo(src, n - 1, from[m].before, w) /\ Between(w, src[n], y)
  BY <1>1, <1>4, TracedShorter
<1>9. Head(left) # End => n >= 2
  BY <1>4, <1>7
<1> QED
  BY <1>2, <1>3, <1>4, <1>5, <1>6, <1>8, <1>9 DEF src, m, n

\* One item was undone, another one is left.
LEMMA ReversingNext ==
    ASSUME NEW from \in Seq(Group), NEW to, NEW left \in Seq(Item), NEW x, NEW y,
           Reversing(from, to, left, x, y), Len(left) >= 2,
           NEW z, NEW t, t # <<>>,
           TracedTo(from[Len(from)].items, Len(left) - 1, from[Len(from)].before, z),
           Built(t, DepthAt(from[Len(from)].items, Len(left) - 1), x, z),
           Len(Last(t).items) = Len(from[Len(from)].items) - (Len(left) - 1)
    PROVE  Reversing(from, t, Tail(left), x, z)
<1> DEFINE src == from[Len(from)].items
           n == Len(left)
<1>1. /\ from # <<>> /\ n \in 1 .. Len(src) /\ ReadBack(left, src, 1) /\ Chained(from, x)
  BY DEF Reversing
<1>2. left # <<>> /\ n \in Nat /\ Len(src) \in Nat
  BY ReversingHead
<1>3. Len(Tail(left)) = n - 1 /\ ReadBack(Tail(left), src, 1)
  BY <1>1, <1>2, ReadBackTail
<1>4. n - 1 \in 1 .. Len(src)
  BY <1>1, <1>2
<1> QED
  BY <1>1, <1>3, <1>4 DEF Reversing

\* How many groups are open after the items that are left.
LEMMA ReversingDepth ==
    ASSUME NEW from \in Seq(Group), NEW to, NEW left \in Seq(Item), NEW x, NEW y,
           Reversing(from, to, left, x, y)
    PROVE  LET src == from[Len(from)].items
               n == Len(left)
           IN  /\ DepthAt(src, n) \in Nat
               /\ DepthAt(src, n) = DepthAt(src, n - 1) + Weight(src[n])
               /\ n = Len(src) <=> DepthAt(src, n) = 0
               /\ n >= 2 => DepthAt(src, n - 1) \in Nat \ {0}
               /\ n = Len(src) => src[n] = End
               /\ n = 1 => src[n] = Begin /\ DepthAt(src, n) = 1 /\ n < Len(src)
<1> DEFINE src == from[Len(from)].items
           n == Len(left)
<1>1. /\ n \in 1 .. Len(src) /\ src \in Seq(Item) /\ Closed(src) /\ Len(src) \in Nat
      /\ n \in Nat \ {0}
  BY ReversingHead DEF Reversing
<1> HIDE DEF src, n
<1>2. /\ Len(src) >= 3 /\ src[Len(src)] = End /\ src[1] = Begin
      /\ \A i \in 1 .. Len(src) - 1 : DepthAt(src, i) >= 1
  BY <1>1 DEF Closed, Open
<1>3. DepthAt(src, Len(src)) = 0
  BY <1>1, ClosedDepth
<1>4. \A i \in Nat : DepthAt(src, i) \in Int
  BY DepthStep
<1>5. DepthAt(src, n) = DepthAt(src, n - 1) + Weight(src[n])
  BY <1>1, DepthBefore
<1>6. n # Len(src) => DepthAt(src, n) \in Nat \ {0}
  <2>1. ASSUME n # Len(src)
        PROVE  DepthAt(src, n) \in Nat \ {0}
    <3>1. n \in 1 .. Len(src) - 1 /\ n \in Nat
      BY <1>1, <2>1
    <3>2. DepthAt(src, n) >= 1 /\ DepthAt(src, n) \in Int
      BY <1>2, <1>4, <3>1
    <3> QED  BY <3>2
  <2> QED  BY <2>1
<1>7. n >= 2 => DepthAt(src, n - 1) \in Nat \ {0}
  <2>1. ASSUME n >= 2
        PROVE  DepthAt(src, n - 1) \in Nat \ {0}
    <3>1. n - 1 \in 1 .. Len(src) - 1 /\ n - 1 \in Nat
      BY <1>1, <2>1
    <3>2. DepthAt(src, n - 1) >= 1 /\ DepthAt(src, n - 1) \in Int
      BY <1>2, <1>4, <3>1
    <3> QED  BY <3>2
  <2> QED  BY <2>1
<1>8. n = 1 => src[n] = Begin /\ DepthAt(src, n) = 1 /\ n < Len(src)
  <2>1. DepthAt(src, 0) = 0
    <3>1. 0 \in Nat
      OBVIOUS
    <3> QED  BY <3>1, DepthStep
  <2>2. Weight(Begin) = 1
    BY DEF Weight
  <2> QED  BY <1>1, <1>2, <1>5, <2>1, <2>2
<1> QED
  BY <1>1, <1>2, <1>3, <1>5, <1>6, <1>7, <1>8 DEF src, n

\* The last item was undone: the content is what it was before the group.
LEMMA ReversingEnds ==
    ASSUME NEW from \in Seq(Group), NEW to \in Seq(Group), NEW left \in Seq(Item),
           NEW x, NEW y, Reversing(from, to, left, x, y), left = <<End>>
    PROVE  /\ Front(from) \in Seq(Group) /\ Chained(Front(from), y)
           /\ Ended(to) \in Seq(Group) /\ Chained(Ended(to), y)
           /\ y = Last(from).before
           /\ to # <<>> /\ Ended(to) = TopAppended(to, End)
<1> DEFINE m == Len(from)
           src == from[m].items
           n == Len(left)
<1>1. n = 1 /\ n - 1 = 0
  OBVIOUS
<1>2. /\ from # <<>> /\ Chained(from, x) /\ Built(to, DepthAt(src, n), x, y)
      /\ n < Len(src) => to # <<>> /\ Len(Last(to).items) = Len(src) - n
  BY DEF Reversing
<1>3. /\ m \in Nat \ {0} /\ Len(src) \in Nat /\ Closed(src)
      /\ \E w \in Docs : TracedTo(src, n - 1, from[m].before, w) /\ Between(w, src[n], y)
  BY ReversingHead
<1>4. src[n] = Begin /\ DepthAt(src, n) = 1 /\ n < Len(src)
  BY <1>1, ReversingDepth
<1> HIDE DEF n, src, m
<1>5. y = from[m].before
  <2>1. PICK w \in Docs : TracedTo(src, n - 1, from[m].before, w) /\ Between(w, src[n], y)
    BY <1>3
  <2>2. from[m].before = w
    BY <1>1, <2>1, TracedNowhere
  <2> QED  BY <1>4, <2>1, <2>2 DEF Between
<1>6. Front(from) \in Seq(Group) /\ Chained(Front(from), y)
  <2>1. /\ Front(from) \in Seq(Group) /\ Len(Front(from)) = m - 1
        /\ \A i \in 1 .. m - 1 : Front(from)[i] = from[i]
    BY <1>2, FrontItems DEF m
  <2>2. Chain(from, m - 1, y)
    BY <1>2, <1>3, <1>5, ChainShorter DEF Chained, m
  <2> DEFINE c == m - 1
  <2>3. c \in Nat /\ Chain(from, c, y) /\ \A i \in 1 .. c : Front(from)[i] = from[i]
    BY <1>3, <2>1, <2>2
  <2> HIDE DEF c
  <2>4. Chain(Front(from), c, y)
    BY <2>3, ChainSame
  <2> QED  BY <2>1, <2>4 DEF Chained, c
<1>7. Ended(to) \in Seq(Group) /\ Chained(Ended(to), y)
  BY <1>2, <1>4, BuiltEnds
<1>8. to # <<>> /\ Len(Last(to).items) >= 2
  <2>1. Len(src) >= 3
    BY <1>3 DEF Closed
  <2> QED  BY <1>1, <1>2, <1>3, <1>4, <2>1
<1>9. Ended(to) = TopAppended(to, End)
  <2>1. ASSUME Last(to).items = <<Begin>>
        PROVE  FALSE
    <3>1. Len(<<Begin>>) = 1
      OBVIOUS
    <3> QED  BY <1>8, <2>1, <3>1
  <2> QED  BY <2>1 DEF Ended
<1>10. Last(from) = from[m]
  BY DEF Last, m
<1> QED
  BY <1>5, <1>6, <1>7, <1>8, <1>9, <1>10

-----------------------------------------------------------------------------
(* A group that is being cancelled *)

LEMMA CancellingStarts ==
    ASSUME NEW s \in Seq(Group), NEW k \in Nat \ {0}, NEW x, NEW y, Built(s, k, x, y),
           Last(s).items # <<Begin>>
    PROVE  LET t == Ended(s)
               items == Last(t).items
               left == Program(SubSeq(items, LastGroup(items), Len(items)))
           IN  /\ t \in Seq(Group) /\ left \in Seq(Item) /\ left # <<>>
               /\ Cancelling(t, left, k, x, y)
<1> DEFINE t == TopAppended(s, End)
           m == Len(s)
           old == s[m].items
           n == Len(old)
           new == t[m].items
           start == LastGroup(new)
           rest == SubSeq(new, start, n + 1)
           left == Program(rest)
<1>1. /\ s # <<>> /\ Chain(s, m - 1, x) /\ s[m].before = x
      /\ Open(old, n, k) /\ TracedTo(old, n, x, y)
  BY DEF Built, Filling
<1>2. m \in Nat \ {0} /\ Last(s) = s[m] /\ old \in Seq(Item) /\ n \in Nat /\ n >= 2
  <2>1. m \in Nat \ {0} /\ Last(s) = s[m] /\ old \in Seq(Item)
    BY <1>1, StackTop
  <2> QED  BY <1>1, <2>1, NotEmpty
<1>3. Ended(s) = t
  BY <1>2 DEF Ended
<1>4. /\ t \in Seq(Group) /\ Len(t) = m /\ t # <<>>
      /\ \A i \in 1 .. m - 1 : t[i] = s[i]
      /\ t[m].before = s[m].before
      /\ new \in Seq(Item) /\ Len(new) = n + 1
      /\ \A i \in 1 .. n : new[i] = old[i]
      /\ new[n + 1] = End
  BY <1>1, TopGrows DEF Item
<1> HIDE DEF t
<1>5. Last(t) = t[m]
  BY <1>4 DEF Last
<1>6. Chain(t, m - 1, x)
  <2> DEFINE c == m - 1
  <2>1. c \in Nat /\ Chain(s, c, x) /\ \A i \in 1 .. c : t[i] = s[i]
    BY <1>1, <1>2, <1>4
  <2> HIDE DEF c
  <2>2. Chain(t, c, x)
    BY <2>1, ChainSame
  <2> QED  BY <2>2 DEF c
<1> HIDE DEF new, n
<1>7. Open(new, n, k) /\ TracedTo(new, n + 1, x, y)
  <2>1. Open(new, n, k)
    BY <1>1, <1>4, OpenSame DEF n
  <2>2. TracedTo(new, n, x, y)
    BY <1>1, <1>2, <1>4, TracedSame DEF n
  <2>3. y \in Docs
    BY <1>1, <1>2, TracedDocs DEF n
  <2>4. Between(y, End, y)
    BY DEF Between
  <2> QED  BY <1>2, <1>4, <2>1, <2>2, <2>3, <2>4, TracedLonger
<1>8. start \in 1 .. n
  <2>1. Len(new) - 1 = n
    BY <1>2, <1>4
  <2> QED  BY <1>4, <1>7, <2>1, LastGroupIs
<1> HIDE DEF start
<1> DEFINE L == (n + 1) - start + 1
<1>9. /\ rest \in Seq(Item) /\ Len(rest) = L /\ L \in Nat \ {0}
      /\ \A i \in 1 .. L : rest[i] = new[start + i - 1]
  <2> DEFINE e == n + 1
  <2>1. start \in Int /\ e \in Int /\ start <= e /\ \A i \in start .. e : i \in 1 .. Len(new)
    BY <1>2, <1>4, <1>8
  <2>2. \A i \in start .. e : new[i] \in Item
    BY <1>4, <2>1, ElementOfSeq
  <2> HIDE DEF e
  <2>3. /\ SubSeq(new, start, e) \in Seq(Item) /\ Len(SubSeq(new, start, e)) = e - start + 1
        /\ \A i \in 1 .. e - start + 1 : SubSeq(new, start, e)[i] = new[start + i - 1]
    BY <2>1, <2>2, SubSeqProperties
  <2>4. e - start + 1 \in Nat \ {0}
    BY <2>1
  <2> QED  BY <2>3, <2>4 DEF e
<1> HIDE DEF rest
<1>10. left \in Seq(Item) /\ Len(left) = L /\ ReadBack(left, rest, 1)
  BY <1>9, ProgramItems
<1> HIDE DEF left
<1>11. left # <<>>
  BY <1>9, <1>10, EmptySeq
<1>12. ReadBack(left, new, start)
  <2>1. ASSUME NEW i \in 1 .. L
        PROVE  left[i] = Flip(new[start + L - i])
    <3>1. 1 + L - i \in 1 .. L /\ start + (1 + L - i) - 1 = start + L - i
      BY <1>2, <1>8, <1>9
    <3>2. left[i] = Flip(rest[1 + L - i])
      BY <1>10 DEF ReadBack
    <3>3. rest[1 + L - i] = new[start + (1 + L - i) - 1]
      BY <1>9, <3>1
    <3> QED  BY <3>1, <3>2, <3>3
  <2> QED  BY <1>10, <2>1 DEF ReadBack
<1>13. /\ L \in 1 .. (n + 1) - start + 1
       /\ start - 1 + L = n + 1
       /\ n + 1 >= 3 /\ (n + 1) - 1 = n
  <2>1. start \in Int /\ n \in Nat /\ n >= 2 /\ L \in Nat \ {0}
    BY <1>2, <1>8, <1>9
  <2>2. L \in 1 .. (n + 1) - start + 1
    BY <2>1
  <2>3. start - 1 + L = n + 1
    BY <2>1
  <2>4. n + 1 >= 3 /\ (n + 1) - 1 = n
    BY <2>1
  <2> QED  BY <2>2, <2>3, <2>4
<1> HIDE DEF L
<1>14. Cancelling(t, left, k, x, y)
  <2>1. /\ Len(new) >= 3 /\ Open(new, Len(new) - 1, k) /\ new[Len(new)] = End
        /\ Len(left) \in 1 .. Len(new) - start + 1
        /\ TracedTo(new, start - 1 + Len(left), x, y)
    BY <1>4, <1>7, <1>10, <1>13
  <2> QED  BY <1>1, <1>4, <1>6, <1>12, <2>1 DEF Cancelling, new, start
<1> QED
  BY <1>3, <1>4, <1>5, <1>10, <1>11, <1>14 DEF new, start, rest, left

LEMMA CancellingHead ==
    ASSUME NEW s \in Seq(Group), NEW left \in Seq(Item), NEW k, NEW x, NEW y,
           Cancelling(s, left, k, x, y)
    PROVE  LET m == Len(s)
               items == s[m].items
               start == LastGroup(items)
               at == start - 1 + Len(left)
           IN  /\ left # <<>> /\ Len(left) \in Nat \ {0}
               /\ m \in Nat \ {0} /\ Last(s) = s[m] /\ items \in Seq(Item)
               /\ start \in 1 .. Len(items) - 1 /\ Len(items) \in Nat
               /\ BeginsAt(items, Len(items) - 1, start, k)
               /\ Tail(left) \in Seq(Item) /\ Len(Tail(left)) = Len(left) - 1
               /\ ReadBack(Tail(left), items, start)
               /\ at \in Nat \ {0} /\ items[at] \in Item /\ Head(left) = Flip(items[at])
               /\ Head(left) # End => Len(left) >= 2
               /\ \E w \in Docs : TracedTo(items, at - 1, x, w) /\ Between(w, items[at], y)
<1> DEFINE m == Len(s)
           items == s[m].items
           start == LastGroup(items)
           n == Len(left)
           at == start - 1 + n
<1>1. /\ s # <<>> /\ Open(items, Len(items) - 1, k) /\ items[Len(items)] = End
      /\ n \in 1 .. Len(items) - start + 1 /\ ReadBack(left, items, start)
      /\ TracedTo(items, at, x, y)
  BY DEF Cancelling
<1>2. m \in Nat \ {0} /\ Last(s) = s[m] /\ items \in Seq(Item)
  BY <1>1, StackTop
<1> HIDE DEF items
<1>3. start \in 1 .. Len(items) - 1 /\ BeginsAt(items, Len(items) - 1, start, k)
  BY <1>1, <1>2, LastGroupIs
<1>4. Len(items) \in Nat
  BY <1>2, LenProperties
<1> HIDE DEF start
<1>5. /\ n \in Nat \ {0} /\ at \in Nat \ {0} /\ at \in 1 .. Len(items)
      /\ start + n - 1 = at /\ start \in Int
  BY <1>1, <1>3, <1>4
<1>6. left # <<>>
  BY <1>5, EmptySeq
<1>7. /\ Tail(left) \in Seq(Item) /\ Len(Tail(left)) = n - 1
      /\ ReadBack(Tail(left), items, start)
      /\ Head(left) = Flip(items[start + n - 1])
  BY <1>1, <1>5, <1>6, ReadBackTail
<1>8. items[at] \in Item
  BY <1>2, <1>5, ElementOfSeq
<1>9. Head(left) # End => n >= 2
  <2>1. ASSUME n = 1
        PROVE  Head(left) = End
    <3>1. start + n - 1 = start
      BY <1>5, <2>1
    <3>2. items[start] = Begin
      BY <1>3 DEF BeginsAt
    <3> QED  BY <1>7, <3>1, <3>2 DEF Flip
  <2> HIDE DEF n
  <2>2. CASE n = 1
    BY <2>1, <2>2
  <2>3. CASE n # 1
    BY <1>5, <2>3
  <2> QED  BY <2>2, <2>3
<1> HIDE DEF at
<1>10. \E w \in Docs : TracedTo(items, at - 1, x, w) /\ Between(w, items[at], y)
  BY <1>1, <1>5, TracedShorter
<1> QED
  BY <1>2, <1>3, <1>4, <1>5, <1>6, <1>7, <1>8, <1>9, <1>10 DEF items, start, at

LEMMA CancellingNext ==
    ASSUME NEW s \in Seq(Group), NEW left \in Seq(Item), NEW k, NEW x, NEW y,
           Cancelling(s, left, k, x, y), Len(left) >= 2, NEW z,
           TracedTo(s[Len(s)].items, LastGroup(s[Len(s)].items) - 1 + Len(left) - 1, x, z)
    PROVE  Cancelling(s, Tail(left), k, x, z)
<1> DEFINE items == s[Len(s)].items
           start == LastGroup(items)
           n == Len(left)
<1>1. /\ n \in Nat \ {0} /\ start \in 1 .. Len(items) - 1 /\ Len(items) \in Nat
      /\ Len(Tail(left)) = n - 1 /\ ReadBack(Tail(left), items, start)
  BY CancellingHead
<1>2. n \in 1 .. Len(items) - start + 1
  BY DEF Cancelling
<1> HIDE DEF items, start
<1>3. n - 1 \in 1 .. Len(items) - start + 1 /\ start - 1 + n - 1 = start - 1 + (n - 1)
  BY <1>1, <1>2
<1>4. TracedTo(items, start - 1 + Len(Tail(left)), x, z)
  BY <1>1, <1>3 DEF items, start
<1>5. /\ s # <<>> /\ Chain(s, Len(s) - 1, x) /\ s[Len(s)].before = x
      /\ Len(items) >= 3 /\ Open(items, Len(items) - 1, k) /\ items[Len(items)] = End
  BY DEF Cancelling, items
<1> QED
  BY <1>1, <1>3, <1>4, <1>5 DEF Cancelling, items, start

LEMMA CancellingEnds ==
    ASSUME NEW s \in Seq(Group), NEW left \in Seq(Item), NEW k, NEW x, NEW y,
           Cancelling(s, left, k, x, y), Len(left) = 1
    PROVE  LET t == Shrunk(s, LastGroup(Last(s).items))
           IN  k \in Nat \ {0} /\ t \in Seq(Group) /\ Built(t, k - 1, x, y)
<1> DEFINE m == Len(s)
           items == s[m].items
           start == LastGroup(items)
           at == start - 1 + Len(left)
           t == Shrunk(s, start)
<1>1. /\ s # <<>> /\ Chain(s, m - 1, x) /\ s[m].before = x
      /\ Open(items, Len(items) - 1, k)
  BY DEF Cancelling
<1>2. /\ m \in Nat \ {0} /\ Last(s) = s[m] /\ items \in Seq(Item)
      /\ start \in 1 .. Len(items) - 1 /\ Len(items) \in Nat
      /\ BeginsAt(items, Len(items) - 1, start, k)
      /\ \E w \in Docs : TracedTo(items, at - 1, x, w) /\ Between(w, items[at], y)
  BY CancellingHead
<1> HIDE DEF start
<1>3. TracedTo(items, start - 1, x, y)
  <2>2. at = start /\ at - 1 = start - 1
    BY <1>2
  <2>3. PICK w \in Docs : TracedTo(items, start - 1, x, w) /\ Between(w, items[start], y)
    BY <1>2, <2>2
  <2>4. items[start] = Begin
    BY <1>2 DEF BeginsAt
  <2> QED  BY <2>3, <2>4 DEF Between
<1>4. /\ start = 1 <=> k = 1
      /\ start > 1 => Open(items, start - 1, k - 1)
      /\ k \in Nat \ {0}
  <2>1. k \in Nat \ {0}
    BY <1>1 DEF Open
  <2> HIDE DEF items
  <2> DEFINE e == Len(items) - 1
  <2>2. start \in 1 .. e /\ Open(items, e, k) /\ BeginsAt(items, e, start, k)
    BY <1>1, <1>2
  <2> HIDE DEF e
  <2> QED  BY <2>1, <2>2, OpenBefore
<1>5. CASE start = 1
  <2>1. t = Front(s)
    BY <1>5 DEF Shrunk
  <2>2. Front(s) \in Seq(Group) /\ Len(Front(s)) = m - 1 /\ \A i \in 1 .. m - 1 : Front(s)[i] = s[i]
    BY <1>1, FrontItems
  <2>3. x = y
    <3>1. TracedTo(items, 0, x, y)
      <4>1. start - 1 = 0
        BY <1>5
      <4> QED  BY <1>3, <4>1
    <3> QED  BY <3>1, TracedNowhere
  <2> DEFINE c == m - 1
  <2>4. c \in Nat /\ Chain(s, c, x) /\ \A i \in 1 .. c : Front(s)[i] = s[i]
    BY <1>1, <1>2, <2>2
  <2> HIDE DEF c
  <2>5. Chain(Front(s), c, x)
    BY <2>4, ChainSame
  <2>6. Chained(Front(s), x)
    BY <2>2, <2>5 DEF Chained, c
  <2>7. k - 1 = 0
    BY <1>4, <1>5
  <2>8. Built(Front(s), k - 1, x, y)
    BY <2>3, <2>6, <2>7 DEF Built
  <2> QED  BY <1>2, <1>4, <2>1, <2>2, <2>8 DEF start
<1>6. CASE start # 1
  <2> DEFINE p == SubSeq(items, 1, start - 1)
             c == start - 1
  <2>1. start > 1 /\ c \in Nat \ {0} /\ c \in Int /\ 1 \in Int /\ 1 <= c
        /\ \A i \in 1 .. c : i \in 1 .. Len(items)
    BY <1>2, <1>6
  <2>2. /\ p \in Seq(Item) /\ Len(p) = c /\ \A i \in 1 .. c : p[i] = items[i]
    <3>1. \A i \in 1 .. c : items[i] \in Item
      BY <1>2, <2>1, ElementOfSeq
    <3> HIDE DEF c, items
    <3>2. /\ SubSeq(items, 1, c) \in Seq(Item) /\ Len(SubSeq(items, 1, c)) = c - 1 + 1
          /\ \A i \in 1 .. c - 1 + 1 : SubSeq(items, 1, c)[i] = items[1 + i - 1]
      BY <2>1, <3>1, SubSeqProperties
    <3>3. c - 1 + 1 = c /\ \A i \in 1 .. c : 1 + i - 1 = i
      BY <2>1
    <3>4. p = SubSeq(items, 1, c)
      BY DEF c
    <3> HIDE DEF p
    <3> QED  BY <3>2, <3>3, <3>4
  <2>3. t = TopWith(s, p)
    BY <1>2, <1>6 DEF Shrunk
  <2> HIDE DEF p
  <2>4. /\ t \in Seq(Group) /\ t # <<>> /\ Len(t) = m
        /\ \A i \in 1 .. m - 1 : t[i] = s[i]
        /\ t[m].items = p /\ t[m].before = s[m].before
    BY <1>1, <2>2, <2>3, TopWithItems
  <2> HIDE DEF t, c
  <2>5. Open(p, c, k - 1) /\ TracedTo(p, c, x, y)
    <3>1. Open(items, c, k - 1) /\ TracedTo(items, c, x, y)
      BY <1>3, <1>4, <2>1 DEF c
    <3> HIDE DEF items
    <3> QED  BY <2>1, <2>2, <3>1, OpenSame, TracedSame
  <2>6. Chain(t, m - 1, x)
    <3> DEFINE d == m - 1
    <3>1. d \in Nat /\ Chain(s, d, x) /\ \A i \in 1 .. d : t[i] = s[i]
      BY <1>1, <1>2, <2>4
    <3> HIDE DEF d
    <3>2. Chain(t, d, x)
      BY <3>1, ChainSame
    <3> QED  BY <3>2 DEF d
  <2>7. Filling(t, k - 1, x, y)
    BY <1>1, <2>2, <2>4, <2>5, <2>6 DEF Filling
  <2>8. k - 1 # 0
    BY <1>4, <1>6
  <2> QED  BY <1>2, <1>4, <2>4, <2>7, <2>8 DEF Built, start, t
<1> QED
  BY <1>5, <1>6

-----------------------------------------------------------------------------
(* The invariant *)

OpenCount == CountOf(scopes, "group")

ReversalTypes ==
    /\ content \in Docs /\ base \in Docs
    /\ undo \in Seq(Group) /\ redo \in Seq(Group)
    /\ limit \in Nat
    /\ running \in {"none", "undo", "redo", "cancel"}
    /\ scopes \in Seq(Scopes)
    /\ todo \in Seq(Item)
    /\ blocks = CountOf(scopes, "disabled") + (IF running = "cancel" THEN 1 ELSE 0)

Resting ==
    /\ todo = <<>>
    /\ Built(undo, OpenCount, base, content)
    /\ Chained(redo, base)
    /\ OpenCount > 0 => redo = <<>>

InCancel ==
    /\ scopes # <<>> /\ Last(scopes) = "group"
    /\ redo = <<>>
    /\ Cancelling(undo, todo, OpenCount, base, content)

ReversalInv ==
    /\ ReversalTypes
    /\ running = "none" => Resting
    /\ running = "undo" => scopes = <<>> /\ Reversing(undo, redo, todo, base, content)
    /\ running = "redo" => scopes = <<>> /\ Reversing(redo, undo, todo, base, content)
    /\ running = "cancel" => InCancel

LEMMA NoScopes == CountOf(<<>>, "group") = 0 /\ CountOf(<<>>, "disabled") = 0
<1>1. {i \in DOMAIN <<>> : <<>>[i] = "group"} = {}
      /\ {i \in DOMAIN <<>> : <<>>[i] = "disabled"} = {}
  OBVIOUS
<1> QED
  BY <1>1, FS_EmptySet DEF CountOf

LEMMA ReversalInit == Init => ReversalInv
<1> SUFFICES ASSUME Init PROVE ReversalInv
  OBVIOUS
<1>1. <<>> \in Docs /\ <<>> \in Seq(Group) /\ <<>> \in Seq(Item) /\ <<>> \in Seq(Scopes)
  BY EmptySeq DEF Docs
<1>2. OpenCount = 0 /\ CountOf(scopes, "disabled") = 0
  BY NoScopes DEF Init, OpenCount
<1>3. ReversalTypes
  BY <1>1, <1>2 DEF Init, ReversalTypes
<1>4. Resting
  <2>1. Chained(undo, base) /\ Chained(redo, base) /\ content = base
    BY NoChain DEF Init
  <2> QED  BY <1>2, <2>1 DEF Init, Resting, Built
<1> QED
  BY <1>3, <1>4 DEF Init, ReversalInv

-----------------------------------------------------------------------------
(* add_undo *)

\* To which stack, and to which group of it.
LEMMA AddUndoCases ==
    ASSUME NEW item, AddUndo(item), NEW k \in Nat,
           TopIsOpen(IF running = "undo" THEN redo ELSE undo) <=> k > 0
    PROVE  /\ k > 0 /\ running = "undo" =>
                 redo' = TopAppended(redo, item) /\ undo' = undo /\ UNCHANGED saveVars
           /\ k > 0 /\ running # "undo" =>
                 undo' = TopAppended(undo, item) /\ redo' = RedoAfterAdding
                    /\ UNCHANGED saveVars
           /\ k = 0 => \E a \in Free :
                 LET g == [address |-> a, items |-> <<item>>, before |-> content]
                 IN  /\ running = "undo" =>
                           redo' = redo \o <<g>> /\ undo' = undo /\ UNCHANGED saveVars
                     /\ running # "undo" =>
                           /\ undo' = Trimmed(undo \o <<g>>, limit)
                           /\ ForgetTrimmed(undo \o <<g>>, undo')
                           /\ redo' = RedoAfterAdding
<1>1. CASE k > 0
  <2>1. AddToOpen(item) /\ UNCHANGED saveVars
    BY <1>1 DEF AddUndo
  <2> QED  BY <1>1, <2>1 DEF AddToOpen
<1>2. CASE k = 0
  <2>1. AddOnTop(item)
    BY <1>2 DEF AddUndo
  <2> QED  BY <1>2, <2>1 DEF AddOnTop
<1> QED
  BY <1>1, <1>2

LEMMA NewGroup ==
    ASSUME NEW a \in Free, NEW item \in Item, content \in Docs
    PROVE  [address |-> a, items |-> <<item>>, before |-> content] \in Group
<1>1. a \in Addresses
  BY DEF Free
<1>2. <<item>> \in Seq(Item)
  OBVIOUS
<1> QED
  BY <1>1, <1>2 DEF Group

\* undo() adds to the redo stack.
LEMMA AddUndoToRedo ==
    ASSUME ReversalTypes, running = "undo", NEW item \in Item, AddUndo(item),
           NEW k \in Nat, NEW x, Built(redo, k, x, content), k = 0 => item = Begin,
           NEW z \in Docs, Between(content, item, z), k + Weight(item) >= 1
    PROVE  /\ undo' = undo
           /\ redo' \in Seq(Group) /\ redo' # <<>>
           /\ Built(redo', k + Weight(item), x, z)
           /\ Len(Last(redo').items) = IF k = 0 THEN 1 ELSE Len(Last(redo).items) + 1
<1>1. redo \in Seq(Group) /\ content \in Docs
  BY DEF ReversalTypes
<1>2. TopIsOpen(redo) <=> k > 0
  BY <1>1, BuiltTop
<1>3. CASE k > 0
  <2>1. redo' = TopAppended(redo, item) /\ undo' = undo
    BY <1>2, <1>3, AddUndoCases
  <2>2. /\ redo' \in Seq(Group) /\ Built(redo', k + Weight(item), x, z)
        /\ Len(Last(redo').items) = Len(Last(redo).items) + 1
    BY <1>1, <1>3, <2>1, BuiltGrows
  <2>3. redo' # <<>>
    <3>1. k + Weight(item) # 0
      BY DEF Weight
    <3> QED  BY <2>2, <3>1 DEF Built, Filling
  <2> QED  BY <1>3, <2>1, <2>2, <2>3
<1>4. CASE k = 0
  <2>1. PICK a \in Free :
            LET g == [address |-> a, items |-> <<item>>, before |-> content]
            IN  redo' = redo \o <<g>> /\ undo' = undo
    BY <1>2, <1>4, AddUndoCases
  <2> DEFINE g == [address |-> a, items |-> <<item>>, before |-> content]
  <2>2. item = Begin /\ Weight(item) = 1 /\ z = content /\ content = x /\ Chained(redo, x)
    BY <1>4 DEF Weight, Between, Built
  <2>3. g \in Group /\ g.items = <<Begin>> /\ g.before = x
    BY <1>1, <2>2, NewGroup
  <2>4. redo' = redo \o <<g>>
    BY <2>1
  <2> HIDE DEF g
  <2>5. redo' \in Seq(Group) /\ Built(redo', 1, x, x) /\ Len(Last(redo').items) = 1
    BY <1>1, <2>2, <2>3, <2>4, BuiltBegins
  <2>6. redo' # <<>>
    BY <2>5 DEF Built, Filling
  <2> QED  BY <1>4, <2>1, <2>2, <2>5, <2>6
<1> QED
  BY <1>3, <1>4

\* Clients and redo() add to the undo stack.
LEMMA AddUndoToUndo ==
    ASSUME ReversalTypes, running # "undo", NEW item \in Item, AddUndo(item),
           NEW k \in Nat, NEW x, Built(undo, k, x, content), k = 0 => item = Begin,
           NEW z \in Docs, Between(content, item, z), k + Weight(item) >= 1
    PROVE  /\ redo' = RedoAfterAdding
           /\ undo' \in Seq(Group) /\ undo' # <<>>
           /\ Built(undo', k + Weight(item), x, z)
           /\ Len(Last(undo').items) = IF k = 0 THEN 1 ELSE Len(Last(undo).items) + 1
<1>1. undo \in Seq(Group) /\ content \in Docs /\ limit \in Nat
  BY DEF ReversalTypes
<1>2. TopIsOpen(undo) <=> k > 0
  BY <1>1, BuiltTop
<1>3. CASE k > 0
  <2>1. undo' = TopAppended(undo, item) /\ redo' = RedoAfterAdding
    BY <1>2, <1>3, AddUndoCases
  <2>2. /\ undo' \in Seq(Group) /\ Built(undo', k + Weight(item), x, z)
        /\ Len(Last(undo').items) = Len(Last(undo).items) + 1
    BY <1>1, <1>3, <2>1, BuiltGrows
  <2>3. undo' # <<>>
    <3>1. k + Weight(item) # 0
      BY DEF Weight
    <3> QED  BY <2>2, <3>1 DEF Built, Filling
  <2> QED  BY <1>3, <2>1, <2>2, <2>3
<1>4. CASE k = 0
  <2>1. PICK a \in Free :
            LET g == [address |-> a, items |-> <<item>>, before |-> content]
            IN  undo' = Trimmed(undo \o <<g>>, limit) /\ redo' = RedoAfterAdding
    BY <1>2, <1>4, AddUndoCases
  <2> DEFINE g == [address |-> a, items |-> <<item>>, before |-> content]
             s == undo \o <<g>>
  <2>2. item = Begin /\ Weight(item) = 1 /\ z = content /\ content = x /\ Chained(undo, x)
    BY <1>4 DEF Weight, Between, Built
  <2>3. g \in Group /\ g.items = <<Begin>> /\ g.before = x
    BY <1>1, <2>2, NewGroup
  <2>4. undo' = Trimmed(s, limit)
    BY <2>1
  <2> HIDE DEF g
  <2>5. s \in Seq(Group) /\ Built(s, 1, x, x) /\ Len(Last(s).items) = 1
    BY <1>1, <2>2, <2>3, BuiltBegins
  <2>6. s # <<>>
    BY <2>5 DEF Built, Filling
  <2> HIDE DEF s
  <2>7. /\ undo' \in Seq(Group) /\ undo' # <<>> /\ Built(undo', 1, x, x)
        /\ Last(undo') = Last(s)
    BY <1>1, <2>4, <2>5, <2>6, BuiltTrimmed
  <2> QED  BY <1>4, <2>1, <2>2, <2>5, <2>7
<1> QED
  BY <1>3, <1>4

-----------------------------------------------------------------------------
(* The operations of clients preserve the invariant *)

LEMMA ScopesCounted ==
    ASSUME ReversalTypes
    PROVE  OpenCount \in Nat /\ CountOf(scopes, "disabled") \in Nat
<1>1. scopes \in Seq(Scopes) /\ Len(scopes) \in Nat
  BY LenProperties DEF ReversalTypes
<1>2. CountOf(scopes, "group") = CountTo(scopes, Len(scopes), "group")
      /\ CountOf(scopes, "disabled") = CountTo(scopes, Len(scopes), "disabled")
  BY <1>1, CountIsCountTo
<1> QED
  BY <1>1, <1>2, CountToStep DEF OpenCount

\* The innermost scope ends.
LEMMA InnermostScope ==
    ASSUME ReversalTypes, scopes # <<>>
    PROVE  /\ Front(scopes) \in Seq(Scopes)
           /\ Last(scopes) = "group" =>
                 /\ OpenCount \in Nat \ {0}
                 /\ CountOf(Front(scopes), "group") = OpenCount - 1
                 /\ CountOf(Front(scopes), "disabled") = CountOf(scopes, "disabled")
           /\ Last(scopes) = "disabled" =>
                 /\ CountOf(Front(scopes), "group") = OpenCount
                 /\ CountOf(Front(scopes), "disabled") = CountOf(scopes, "disabled") - 1
<1>1. scopes \in Seq(Scopes) /\ OpenCount \in Nat
  BY ScopesCounted DEF ReversalTypes
<1>2. /\ Front(scopes) \in Seq(Scopes)
      /\ CountOf(Front(scopes), "group") =
            IF Last(scopes) = "group" THEN OpenCount - 1 ELSE OpenCount
      /\ CountOf(Front(scopes), "disabled") =
            IF Last(scopes) = "disabled" THEN CountOf(scopes, "disabled") - 1
                                         ELSE CountOf(scopes, "disabled")
  BY <1>1, CountFront DEF OpenCount
<1>3. CountOf(Front(scopes), "group") \in Nat
  <2>1. Len(Front(scopes)) \in Nat
    BY <1>2, LenProperties
  <2> QED  BY <1>2, <2>1, CountIsCountTo, CountToStep
<1> QED
  BY <1>1, <1>2, <1>3

LEMMA OpenGroupReverses ==
    ASSUME ReversalInv, OpenGroup
    PROVE  ReversalInv'
<1>1. /\ ReversalTypes /\ Resting /\ running = "none" /\ AddUndo(Begin) /\ blocks = 0
      /\ scopes' = Append(scopes, "group")
      /\ UNCHANGED <<content, running, blocks, limit, todo, base>>
  BY DEF OpenGroup, ReversalInv
<1>2. /\ content \in Docs /\ scopes \in Seq(Scopes) /\ "group" \in Scopes /\ Begin \in Item
      /\ <<>> \in Seq(Group)
  BY <1>1, EmptySeq DEF ReversalTypes, Scopes, Item
<1>3. /\ scopes' \in Seq(Scopes)
      /\ OpenCount' = OpenCount + 1 /\ OpenCount \in Nat
      /\ CountOf(scopes, "disabled")' = CountOf(scopes, "disabled")
  BY <1>1, <1>2, CountAppend, AppendProperties, ScopesCounted DEF OpenCount
<1>4. Weight(Begin) = 1 /\ Between(content, Begin, content)
  BY DEF Weight, Between
<1>5. /\ redo' = <<>> /\ undo' \in Seq(Group)
      /\ Built(undo', OpenCount + 1, base, content)
  BY <1>1, <1>2, <1>3, <1>4, AddUndoToUndo DEF Resting, RedoAfterAdding
<1>6. ReversalTypes'
  BY <1>1, <1>2, <1>3, <1>5 DEF ReversalTypes
<1>7. Resting'
  BY <1>1, <1>3, <1>5, NoChain DEF Resting
<1> QED
  BY <1>1, <1>6, <1>7 DEF ReversalInv

LEMMA EditReverses ==
    ASSUME ReversalInv, ~AnyReorder, NEW c \in Changes(content, Values), Edit(c)
    PROVE  ReversalInv'
<1>1. /\ ReversalTypes /\ Resting /\ running = "none"
      /\ AddUndo(Recorded(content, c)) /\ content' = Changed(content, c)
      /\ scopes # <<>> /\ Last(scopes) = "group"
      /\ c.op = "reorder" => c.to < Len(content)
      /\ UNCHANGED <<running, blocks, limit, scopes, todo, base>>
  BY DEF Edit, ReversalInv, InScope
<1>2. content \in Docs /\ c \in InListChanges(content, Values) /\ <<>> \in Seq(Group)
  BY <1>1, EmptySeq DEF ReversalTypes, InListChanges
<1>3. /\ content' \in Docs /\ Recorded(content, c) \in Item
      /\ Between(content, Recorded(content, c), content')
      /\ Weight(Recorded(content, c)) = 0
  BY <1>1, <1>2, RecordedTakesBack, EndsAreNoActs DEF Item, Weight
<1>4. OpenCount \in Nat \ {0}
  BY <1>1, InnermostScope
<1>5. /\ redo' = <<>> /\ undo' \in Seq(Group)
      /\ Built(undo', OpenCount + 0, base, content')
  BY <1>1, <1>2, <1>3, <1>4, AddUndoToUndo DEF Resting, RedoAfterAdding
<1>6. OpenCount' = OpenCount /\ OpenCount + 0 = OpenCount
  BY <1>1, <1>4 DEF OpenCount
<1>7. ReversalTypes'
  BY <1>1, <1>2, <1>3, <1>5 DEF ReversalTypes
<1>8. Resting'
  BY <1>1, <1>5, <1>6, NoChain DEF Resting
<1> QED
  BY <1>1, <1>7, <1>8 DEF ReversalInv

\* In the outermost group nothing was done if it is empty.
LEMMA EmptyGroup ==
    ASSUME NEW s \in Seq(Group), NEW k \in Nat \ {0}, NEW x, NEW y, Built(s, k, x, y),
           Last(s).items = <<Begin>>
    PROVE  k = 1 /\ x = y
<1> DEFINE items == s[Len(s)].items
<1>1. /\ s # <<>> /\ Open(items, Len(items), k) /\ TracedTo(items, Len(items), x, y)
  BY DEF Built, Filling
<1>2. items = <<Begin>>
  BY <1>1, StackTop
<1>3. Len(items) = 1 /\ items[1] = Begin
  <2> HIDE DEF items
  <2> QED  BY <1>2
<1> HIDE DEF items
<1>4. k = 1
  <2>1. Open(items, 1, 1)
    BY <1>3, OpenFirst
  <2> QED  BY <1>1, <1>3, <2>1 DEF Open
<1>5. x = y
  <2>1. 1 \in Nat \ {0} /\ 1 - 1 = 0
    OBVIOUS
  <2>2. \E w \in Docs : TracedTo(items, 1 - 1, x, w) /\ Between(w, items[1], y)
    BY <1>1, <1>3, <2>1, TracedShorter
  <2>3. PICK w \in Docs : TracedTo(items, 0, x, w) /\ Between(w, items[1], y)
    BY <2>1, <2>2
  <2>4. x = w
    BY <2>3, TracedNowhere
  <2> QED  BY <1>3, <2>3, <2>4 DEF Between
<1> QED
  BY <1>4, <1>5

LEMMA EndGroupReverses ==
    ASSUME ReversalInv, EndGroup
    PROVE  ReversalInv'
<1>1. /\ ReversalTypes /\ Resting /\ running = "none"
      /\ scopes # <<>> /\ Last(scopes) = "group"
      /\ undo' = Ended(undo) /\ scopes' = Front(scopes)
      /\ base' = IF TopIsOpen(undo') THEN base ELSE content
      /\ UNCHANGED <<content, redo, running, blocks, limit, todo>>
  BY DEF EndGroup, ReversalInv, InScope
<1>2. /\ undo \in Seq(Group) /\ content \in Docs /\ base \in Docs
      /\ Built(undo, OpenCount, base, content)
  BY <1>1 DEF ReversalTypes, Resting
<1>3. /\ OpenCount \in Nat \ {0} /\ OpenCount' = OpenCount - 1
      /\ scopes' \in Seq(Scopes)
      /\ CountOf(scopes, "disabled")' = CountOf(scopes, "disabled")
  BY <1>1, InnermostScope DEF OpenCount
<1>4. redo' = <<>> /\ redo = <<>>
  BY <1>1, <1>3 DEF Resting
<1>5. undo' \in Seq(Group) /\ Built(undo', OpenCount', base', content)
  <2>1. CASE OpenCount = 1
    <3>1. undo' \in Seq(Group) /\ Chained(undo', content)
      BY <1>1, <1>2, <2>1, BuiltEnds
    <3>2. Built(undo', 0, content, content)
      BY <3>1 DEF Built
    <3>3. ~TopIsOpen(undo')
      BY <3>1, <3>2, BuiltTop
    <3> QED  BY <1>1, <1>3, <2>1, <3>1, <3>2, <3>3
  <2>2. CASE OpenCount # 1
    <3>1. OpenCount \in Nat /\ OpenCount >= 2 /\ OpenCount - 1 \in Nat /\ OpenCount - 1 > 0
      BY <1>3, <2>2
    <3>2. undo' = TopAppended(undo, End)
      BY <1>1, <1>2, <3>1, InnerEnds
    <3>3. End \in Item /\ Between(content, End, content) /\ Weight(End) = -1
          /\ OpenCount + Weight(End) >= 1 /\ OpenCount + Weight(End) = OpenCount - 1
      BY <3>1, EndsAreNoActs DEF Item, Between, Weight
    <3>4. undo' \in Seq(Group) /\ Built(undo', OpenCount - 1, base, content)
      BY <1>2, <1>3, <3>2, <3>3, BuiltGrows
    <3>5. TopIsOpen(undo')
      BY <3>1, <3>4, BuiltTop
    <3> QED  BY <1>1, <1>3, <3>4, <3>5
  <2> QED  BY <2>1, <2>2
<1>6. ReversalTypes'
  BY <1>1, <1>2, <1>3, <1>5 DEF ReversalTypes
<1>7. Resting'
  BY <1>1, <1>4, <1>5, NoChain DEF Resting
<1> QED
  BY <1>1, <1>6, <1>7 DEF ReversalInv

\* Nothing was done in the only group that is open.
LEMMA CancelEmptyReverses ==
    ASSUME ReversalInv, CancelEmpty
    PROVE  ReversalInv'
<1>1. /\ ReversalTypes /\ Resting /\ running = "none"
      /\ scopes # <<>> /\ Last(scopes) = "group"
      /\ Last(undo).items = <<Begin>>
      /\ undo' = Ended(undo) /\ scopes' = Front(scopes)
      /\ UNCHANGED <<content, redo, running, blocks, limit, todo, base>>
  BY DEF CancelEmpty, ReversalInv, InScope
<1>2. /\ undo \in Seq(Group) /\ content \in Docs /\ base \in Docs
      /\ Built(undo, OpenCount, base, content)
  BY <1>1 DEF ReversalTypes, Resting
<1>3. /\ OpenCount \in Nat \ {0} /\ OpenCount' = OpenCount - 1
      /\ scopes' \in Seq(Scopes)
      /\ CountOf(scopes, "disabled")' = CountOf(scopes, "disabled")
  BY <1>1, InnermostScope DEF OpenCount
<1>4. redo' = <<>> /\ redo = <<>>
  BY <1>1, <1>3 DEF Resting
<1>5. OpenCount = 1 /\ base = content
  BY <1>1, <1>2, <1>3, EmptyGroup
<1>6. undo' \in Seq(Group) /\ Chained(undo', content)
  BY <1>1, <1>2, <1>5, BuiltEnds
<1>7. ReversalTypes'
  BY <1>1, <1>2, <1>3, <1>6 DEF ReversalTypes
<1>8. Resting'
  <2>1. OpenCount' = 0
    BY <1>3, <1>5
  <2> QED  BY <1>1, <1>4, <1>5, <1>6, <2>1, NoChain DEF Resting, Built
<1> QED
  BY <1>1, <1>7, <1>8 DEF ReversalInv

LEMMA CancelGroupReverses ==
    ASSUME ReversalInv, CancelGroup
    PROVE  ReversalInv'
<1>1. /\ ReversalTypes /\ Resting /\ running = "none"
      /\ scopes # <<>> /\ Last(scopes) = "group"
      /\ Last(undo).items # <<Begin>>
      /\ undo' = Ended(undo)
      /\ todo' = Program(SubSeq(Last(undo').items, LastGroup(Last(undo').items),
                                Len(Last(undo').items)))
      /\ running' = "cancel" /\ blocks' = blocks + 1
      /\ UNCHANGED <<content, redo, limit, scopes, base>>
  BY DEF CancelGroup, ReversalInv, InScope
<1>2. undo \in Seq(Group) /\ Built(undo, OpenCount, base, content)
  BY <1>1 DEF ReversalTypes, Resting
<1>3. OpenCount \in Nat \ {0} /\ OpenCount' = OpenCount
  BY <1>1, InnermostScope DEF OpenCount
<1>4. redo' = <<>>
  BY <1>1, <1>3 DEF Resting
<1>5. /\ undo' \in Seq(Group) /\ todo' \in Seq(Item)
      /\ Cancelling(undo', todo', OpenCount, base, content)
  BY <1>1, <1>2, <1>3, CancellingStarts
<1>6. ReversalTypes'
  <2>1. CountOf(scopes, "disabled") \in Nat
    BY <1>1, ScopesCounted
  <2> QED  BY <1>1, <1>5, <2>1 DEF ReversalTypes
<1>7. InCancel'
  BY <1>1, <1>3, <1>4, <1>5 DEF InCancel
<1> QED
  BY <1>1, <1>6, <1>7 DEF ReversalInv

LEMMA DisableReverses ==
    ASSUME ReversalInv, Disable
    PROVE  ReversalInv'
<1>1. /\ ReversalTypes /\ Resting /\ running = "none"
      /\ blocks' = blocks + 1 /\ scopes' = Append(scopes, "disabled")
      /\ UNCHANGED <<content, undo, redo, running, limit, todo, base>>
  BY DEF Disable, ReversalInv, stacks
<1>2. scopes \in Seq(Scopes) /\ "disabled" \in Scopes
  BY <1>1 DEF ReversalTypes, Scopes
<1>3. /\ scopes' \in Seq(Scopes)
      /\ OpenCount' = OpenCount
      /\ CountOf(scopes, "disabled")' = CountOf(scopes, "disabled") + 1
      /\ CountOf(scopes, "disabled") \in Nat
  BY <1>1, <1>2, CountAppend, AppendProperties DEF OpenCount
<1>4. ReversalTypes'
  BY <1>1, <1>3 DEF ReversalTypes
<1>5. Resting'
  BY <1>1, <1>3 DEF Resting
<1> QED
  BY <1>1, <1>4, <1>5 DEF ReversalInv

LEMMA EnableReverses ==
    ASSUME ReversalInv, Enable
    PROVE  ReversalInv'
<1>1. /\ ReversalTypes /\ Resting /\ running = "none"
      /\ scopes # <<>> /\ Last(scopes) = "disabled"
      /\ blocks' = blocks - 1 /\ scopes' = Front(scopes)
      /\ UNCHANGED <<content, undo, redo, running, limit, todo, base>>
  BY DEF Enable, ReversalInv, stacks, InScope
<1>2. /\ scopes' \in Seq(Scopes)
      /\ OpenCount' = OpenCount
      /\ CountOf(scopes, "disabled")' = CountOf(scopes, "disabled") - 1
      /\ CountOf(scopes, "disabled") \in Nat
  BY <1>1, InnermostScope, ScopesCounted DEF OpenCount
<1>3. ReversalTypes'
  BY <1>1, <1>2 DEF ReversalTypes
<1>4. Resting'
  BY <1>1, <1>2 DEF Resting
<1> QED
  BY <1>1, <1>3, <1>4 DEF ReversalInv

-----------------------------------------------------------------------------
(* The commands of the main loop *)

\* When no scope is alive nothing is open.
LEMMA IdleRests ==
    ASSUME ReversalInv, Idle
    PROVE  /\ ReversalTypes /\ Resting /\ running = "none" /\ scopes = <<>>
           /\ OpenCount = 0 /\ content = base /\ Chained(undo, base) /\ Chained(redo, base)
<1>1. ReversalTypes /\ Resting /\ running = "none" /\ scopes = <<>>
  BY DEF Idle, ReversalInv
<1>2. OpenCount = 0
  BY <1>1, NoScopes DEF OpenCount
<1> QED
  BY <1>1, <1>2 DEF Resting, Built

LEMMA UndoReverses ==
    ASSUME ReversalInv, Undo
    PROVE  ReversalInv'
<1>1. /\ ReversalTypes /\ running = "none" /\ scopes = <<>> /\ content = base
      /\ Chained(undo, base) /\ Chained(redo, base)
  BY IdleRests DEF Undo
<1>2. /\ undo # <<>> /\ running' = "undo" /\ todo' = Program(Last(undo).items)
      /\ UNCHANGED <<content, undo, redo, blocks, limit, scopes, base>>
  BY DEF Undo, stacks
<1>3. undo \in Seq(Group) /\ redo \in Seq(Group) /\ base \in Docs
  BY <1>1 DEF ReversalTypes
<1>4. todo' \in Seq(Item) /\ Reversing(undo, redo, todo', base, base)
  BY <1>1, <1>2, <1>3, ReversingStarts
<1>5. ReversalTypes'
  BY <1>1, <1>2, <1>4 DEF ReversalTypes
<1> QED
  BY <1>1, <1>2, <1>4, <1>5 DEF ReversalInv

LEMMA RedoReverses ==
    ASSUME ReversalInv, Redo
    PROVE  ReversalInv'
<1>1. /\ ReversalTypes /\ running = "none" /\ scopes = <<>> /\ content = base
      /\ Chained(undo, base) /\ Chained(redo, base)
  BY IdleRests DEF Redo
<1>2. /\ redo # <<>> /\ running' = "redo" /\ todo' = Program(Last(redo).items)
      /\ UNCHANGED <<content, undo, redo, blocks, limit, scopes, base>>
  BY DEF Redo, stacks
<1>3. undo \in Seq(Group) /\ redo \in Seq(Group) /\ base \in Docs
  BY <1>1 DEF ReversalTypes
<1>4. todo' \in Seq(Item) /\ Reversing(redo, undo, todo', base, base)
  BY <1>1, <1>2, <1>3, ReversingStarts
<1>5. ReversalTypes'
  BY <1>1, <1>2, <1>4 DEF ReversalTypes
<1> QED
  BY <1>1, <1>2, <1>4, <1>5 DEF ReversalInv

LEMMA SetLimitReverses ==
    ASSUME ReversalInv, NEW n \in Limits, SetLimit(n)
    PROVE  ReversalInv'
<1>1. /\ ReversalTypes /\ Resting /\ running = "none" /\ scopes = <<>> /\ content = base
      /\ OpenCount = 0 /\ Chained(undo, base) /\ Chained(redo, base)
  BY IdleRests DEF SetLimit
<1>2. /\ limit' = n /\ n \in Nat /\ undo' = Trimmed(undo, n)
      /\ UNCHANGED <<content, redo, running, blocks, scopes, todo, base>>
  BY UndoAssumption DEF SetLimit
<1>3. undo \in Seq(Group) /\ 0 \in Nat /\ Built(undo, 0, base, base)
  BY <1>1 DEF ReversalTypes, Built
<1>4. undo' \in Seq(Group) /\ Built(undo', 0, base, base)
  BY <1>2, <1>3, BuiltTrimmed
<1>5. ReversalTypes'
  BY <1>1, <1>2, <1>4 DEF ReversalTypes
<1>6. Resting'
  <2>1. OpenCount' = OpenCount
    BY <1>2 DEF OpenCount
  <2> QED  BY <1>1, <1>2, <1>4, <2>1 DEF Resting
<1> QED
  BY <1>1, <1>2, <1>5, <1>6 DEF ReversalInv

LEMMA CloseDocumentReverses ==
    ASSUME ReversalInv, CloseDocument
    PROVE  ReversalInv'
<1>1. /\ ReversalTypes /\ Resting /\ running = "none" /\ scopes = <<>> /\ OpenCount = 0
  BY IdleRests DEF CloseDocument
<1>2. /\ content' = <<>> /\ undo' = <<>> /\ redo' = <<>> /\ base' = <<>>
      /\ UNCHANGED <<running, blocks, limit, scopes, todo>>
  BY DEF CloseDocument
<1>3. <<>> \in Docs /\ <<>> \in Seq(Group)
  BY EmptySeq DEF Docs
<1>4. ReversalTypes'
  BY <1>1, <1>2, <1>3 DEF ReversalTypes
<1>5. Resting'
  <2>1. OpenCount' = 0
    BY <1>1, <1>2 DEF OpenCount
  <2>2. Chained(undo', base') /\ Chained(redo', base')
    BY <1>2, NoChain
  <2> QED  BY <1>1, <1>2, <2>1, <2>2 DEF Resting, Built
<1> QED
  BY <1>1, <1>2, <1>4, <1>5 DEF ReversalInv

-----------------------------------------------------------------------------
(* undo, redo and cancel, item by item *)

LEMMA ReversalState ==
    ASSUME ReversalInv, todo # <<>>
    PROVE  /\ ReversalTypes /\ running \in {"undo", "redo", "cancel"}
           /\ running = "undo" =>
                 scopes = <<>> /\ Recording /\ Reversing(undo, redo, todo, base, content)
           /\ running = "redo" =>
                 scopes = <<>> /\ Recording /\ Reversing(redo, undo, todo, base, content)
           /\ running = "cancel" => InCancel /\ ~Recording
<1>1. ReversalTypes /\ running # "none"
  BY DEF ReversalInv, Resting
<1>2. running \in {"undo", "redo", "cancel"}
  BY <1>1 DEF ReversalTypes
<1>3. running \in {"undo", "redo"} => Recording
  BY <1>1, NoScopes DEF ReversalInv, ReversalTypes, Recording
<1>4. running = "cancel" => ~Recording
  BY <1>1, ScopesCounted DEF ReversalTypes, Recording
<1> QED
  BY <1>1, <1>2, <1>3, <1>4 DEF ReversalInv

\* undo() records what it does while it undoes an item.
LEMMA UndoRecords ==
    ASSUME ReversalInv, running = "undo", Len(todo) >= 2,
           NEW item \in Item, AddUndo(item), content' \in Docs,
           TracedTo(undo[Len(undo)].items, Len(todo) - 1, undo[Len(undo)].before, content'),
           Between(content, item, content'),
           Weight(item) + Weight(undo[Len(undo)].items[Len(todo)]) = 0,
           Len(todo) = Len(undo[Len(undo)].items) => item = Begin,
           todo' = Tail(todo), UNCHANGED <<running, blocks, limit, scopes, base>>
    PROVE  ReversalInv'
<1> DEFINE src == undo[Len(undo)].items
           n == Len(todo)
           k == DepthAt(src, n)
<1>1. /\ ReversalTypes /\ scopes = <<>>
      /\ Reversing(undo, redo, todo, base, content)
  BY DEF ReversalInv
<1>2. undo \in Seq(Group) /\ redo \in Seq(Group) /\ todo \in Seq(Item)
  BY <1>1 DEF ReversalTypes
<1>3. /\ k \in Nat /\ k = DepthAt(src, n - 1) + Weight(src[n])
      /\ n = Len(src) <=> k = 0
      /\ DepthAt(src, n - 1) \in Nat \ {0}
  BY <1>1, <1>2, ReversingDepth
<1>4. /\ n \in 1 .. Len(src) /\ Built(redo, k, base, content)
      /\ n < Len(src) => Len(Last(redo).items) = Len(src) - n
  BY <1>1 DEF Reversing
<1>5. Len(src) \in Nat /\ n \in Nat /\ Tail(todo) \in Seq(Item)
  BY <1>1, <1>2, ReversingHead
<1>6. k + Weight(item) = DepthAt(src, n - 1) /\ k + Weight(item) >= 1
  <2> DEFINE d == DepthAt(src, n - 1)
             w == Weight(src[n])
  <2>1. /\ d \in Nat \ {0} /\ w \in Int /\ k = d + w
        /\ Weight(item) \in Int /\ Weight(item) + w = 0
    BY <1>3 DEF Weight
  <2> HIDE DEF d, w, k
  <2>2. k + Weight(item) = d /\ k + Weight(item) >= 1
    BY <2>1
  <2> QED  BY <2>2 DEF d
<1> HIDE DEF k, n, src
<1>7. k = 0 => item = Begin
  BY <1>3 DEF n, src
<1>8. /\ undo' = undo /\ redo' \in Seq(Group) /\ redo' # <<>>
      /\ Built(redo', k + Weight(item), base, content')
      /\ Len(Last(redo').items) = IF k = 0 THEN 1 ELSE Len(Last(redo).items) + 1
  BY <1>1, <1>3, <1>4, <1>6, <1>7, AddUndoToRedo
<1>9. Len(Last(redo').items) = Len(src) - (n - 1)
  <2> DEFINE l == Len(src)
             a == Len(Last(redo).items)
             b == Len(Last(redo').items)
  <2>1. l \in Nat /\ n \in 1 .. l /\ (n = l <=> k = 0) /\ (n < l => a = l - n)
        /\ b = IF k = 0 THEN 1 ELSE a + 1
    BY <1>3, <1>4, <1>5, <1>8
  <2> HIDE DEF l, a, b
  <2>2. n = l => b = l - (n - 1)
    BY <2>1
  <2>3. n # l => n < l /\ a = l - n /\ b = a + 1
    BY <2>1
  <2>4. b = l - (n - 1)
    BY <2>1, <2>2, <2>3
  <2> QED  BY <2>4 DEF l, b
<1>10. Reversing(undo, redo', Tail(todo), base, content')
  BY <1>1, <1>2, <1>6, <1>8, <1>9, ReversingNext DEF n, src
<1>11. ReversalTypes'
  BY <1>1, <1>5, <1>8 DEF ReversalTypes
<1> QED
  BY <1>1, <1>8, <1>10, <1>11 DEF ReversalInv

\* So does redo().
LEMMA RedoRecords ==
    ASSUME ReversalInv, running = "redo", Len(todo) >= 2,
           NEW item \in Item, AddUndo(item), content' \in Docs,
           TracedTo(redo[Len(redo)].items, Len(todo) - 1, redo[Len(redo)].before, content'),
           Between(content, item, content'),
           Weight(item) + Weight(redo[Len(redo)].items[Len(todo)]) = 0,
           Len(todo) = Len(redo[Len(redo)].items) => item = Begin,
           todo' = Tail(todo), UNCHANGED <<running, blocks, limit, scopes, base>>
    PROVE  ReversalInv'
<1> DEFINE src == redo[Len(redo)].items
           n == Len(todo)
           k == DepthAt(src, n)
<1>1. /\ ReversalTypes /\ scopes = <<>>
      /\ Reversing(redo, undo, todo, base, content)
  BY DEF ReversalInv
<1>2. undo \in Seq(Group) /\ redo \in Seq(Group) /\ todo \in Seq(Item)
  BY <1>1 DEF ReversalTypes
<1>3. /\ k \in Nat /\ k = DepthAt(src, n - 1) + Weight(src[n])
      /\ n = Len(src) <=> k = 0
      /\ DepthAt(src, n - 1) \in Nat \ {0}
  BY <1>1, <1>2, ReversingDepth
<1>4. /\ n \in 1 .. Len(src) /\ Built(undo, k, base, content)
      /\ n < Len(src) => Len(Last(undo).items) = Len(src) - n
  BY <1>1 DEF Reversing
<1>5. Len(src) \in Nat /\ n \in Nat /\ Tail(todo) \in Seq(Item)
  BY <1>1, <1>2, ReversingHead
<1>6. k + Weight(item) = DepthAt(src, n - 1) /\ k + Weight(item) >= 1
  <2> DEFINE d == DepthAt(src, n - 1)
             w == Weight(src[n])
  <2>1. /\ d \in Nat \ {0} /\ w \in Int /\ k = d + w
        /\ Weight(item) \in Int /\ Weight(item) + w = 0
    BY <1>3 DEF Weight
  <2> HIDE DEF d, w, k
  <2>2. k + Weight(item) = d /\ k + Weight(item) >= 1
    BY <2>1
  <2> QED  BY <2>2 DEF d
<1> HIDE DEF k, n, src
<1>7. k = 0 => item = Begin
  BY <1>3 DEF n, src
<1>8. /\ redo' = redo /\ undo' \in Seq(Group) /\ undo' # <<>>
      /\ Built(undo', k + Weight(item), base, content')
      /\ Len(Last(undo').items) = IF k = 0 THEN 1 ELSE Len(Last(undo).items) + 1
  BY <1>1, <1>3, <1>4, <1>6, <1>7, AddUndoToUndo DEF RedoAfterAdding
<1>9. Len(Last(undo').items) = Len(src) - (n - 1)
  <2> DEFINE l == Len(src)
             a == Len(Last(undo).items)
             b == Len(Last(undo').items)
  <2>1. l \in Nat /\ n \in 1 .. l /\ (n = l <=> k = 0) /\ (n < l => a = l - n)
        /\ b = IF k = 0 THEN 1 ELSE a + 1
    BY <1>3, <1>4, <1>5, <1>8
  <2> HIDE DEF l, a, b
  <2>2. n = l => b = l - (n - 1)
    BY <2>1
  <2>3. n # l => n < l /\ a = l - n /\ b = a + 1
    BY <2>1
  <2>4. b = l - (n - 1)
    BY <2>1, <2>2, <2>3
  <2> QED  BY <2>4 DEF l, b
<1>10. Reversing(redo, undo', Tail(todo), base, content')
  BY <1>1, <1>2, <1>6, <1>8, <1>9, ReversingNext DEF n, src
<1>11. ReversalTypes'
  BY <1>1, <1>5, <1>8 DEF ReversalTypes
<1> QED
  BY <1>1, <1>8, <1>10, <1>11 DEF ReversalInv

\* cancel only changes the document.
LEMMA CancelUndoes ==
    ASSUME ReversalInv, running = "cancel", Len(todo) >= 2, content' \in Docs,
           TracedTo(undo[Len(undo)].items,
                    LastGroup(undo[Len(undo)].items) - 1 + Len(todo) - 1, base, content'),
           todo' = Tail(todo),
           UNCHANGED <<undo, redo, running, blocks, limit, scopes, base>>
    PROVE  ReversalInv'
<1>1. ReversalTypes /\ InCancel
  BY DEF ReversalInv
<1>2. undo \in Seq(Group) /\ todo \in Seq(Item) /\ Cancelling(undo, todo, OpenCount, base, content)
  BY <1>1 DEF ReversalTypes, InCancel
<1>3. Cancelling(undo, Tail(todo), OpenCount, base, content')
  BY <1>2, CancellingNext
<1>4. Tail(todo) \in Seq(Item)
  BY <1>2, CancellingHead
<1>5. ReversalTypes'
  BY <1>1, <1>4 DEF ReversalTypes
<1>6. InCancel'
  BY <1>1, <1>3 DEF InCancel, OpenCount
<1> QED
  BY <1>5, <1>6 DEF ReversalInv

\* The item that is undone next is the end of a group, the beginning of one or
\* an action that takes its change back.
LEMMA ItemUndone ==
    ASSUME NEW item \in Item, NEW w, NEW y, Between(w, item, y)
    PROVE  /\ Flip(item) = Begin => item = End /\ w = y /\ Weight(item) = -1
           /\ Flip(item) = End => item = Begin /\ w = y /\ Weight(item) = 1
           /\ Flip(item) \notin {Begin, End} =>
                 /\ Flip(item) = item /\ item \notin {Begin, End} /\ Weight(item) = 0
                 /\ Reverting(y, item) \in InListChanges(y, Values)
                 /\ Changed(y, Reverting(y, item)) = w
  BY FlipItem, EndsAreNoActs DEF Between, Takes, Weight

LEMMA UndoBeginsReverses ==
    ASSUME ReversalInv, UndoBegins
    PROVE  ReversalInv'
<1>1. /\ todo # <<>> /\ Head(todo) = Begin
      /\ IF Recording THEN AddUndo(Begin) ELSE UNCHANGED <<stacks, saveVars>>
      /\ todo' = Tail(todo)
      /\ UNCHANGED <<content, running, blocks, limit, scopes, base>>
  BY DEF UndoBegins
<1>2. ReversalTypes /\ running \in {"undo", "redo", "cancel"}
  BY <1>1, ReversalState
<1>3. /\ undo \in Seq(Group) /\ redo \in Seq(Group) /\ todo \in Seq(Item)
      /\ content' \in Docs /\ content' = content
  BY <1>1, <1>2 DEF ReversalTypes
<1>4. Begin \in Item /\ Begin # End /\ Weight(Begin) = 1 /\ Between(content, Begin, content)
  BY EndsAreNoActs DEF Item, Weight, Between
<1>5. CASE running = "undo"
  <2> DEFINE src == undo[Len(undo)].items
             n == Len(todo)
  <2>1. Recording /\ Reversing(undo, redo, todo, base, content)
    BY <1>1, <1>5, ReversalState
  <2>2. /\ n >= 2 /\ Head(todo) = Flip(src[n]) /\ src[n] \in Item
        /\ \E w \in Docs : TracedTo(src, n - 1, undo[Len(undo)].before, w)
                              /\ Between(w, src[n], content)
    BY <1>1, <1>3, <1>4, <2>1, ReversingHead
  <2>3. /\ Weight(src[n]) = -1
        /\ TracedTo(src, n - 1, undo[Len(undo)].before, content')
    BY <1>1, <1>3, <2>2, ItemUndone
  <2>4. Weight(Begin) + Weight(src[n]) = 0
    BY <1>4, <2>3
  <2> QED  BY <1>1, <1>3, <1>4, <1>5, <2>1, <2>2, <2>3, <2>4, UndoRecords
<1>6. CASE running = "redo"
  <2> DEFINE src == redo[Len(redo)].items
             n == Len(todo)
  <2>1. Recording /\ Reversing(redo, undo, todo, base, content)
    BY <1>1, <1>6, ReversalState
  <2>2. /\ n >= 2 /\ Head(todo) = Flip(src[n]) /\ src[n] \in Item
        /\ \E w \in Docs : TracedTo(src, n - 1, redo[Len(redo)].before, w)
                              /\ Between(w, src[n], content)
    BY <1>1, <1>3, <1>4, <2>1, ReversingHead
  <2>3. /\ Weight(src[n]) = -1
        /\ TracedTo(src, n - 1, redo[Len(redo)].before, content')
    BY <1>1, <1>3, <2>2, ItemUndone
  <2>4. Weight(Begin) + Weight(src[n]) = 0
    BY <1>4, <2>3
  <2> QED  BY <1>1, <1>3, <1>4, <1>6, <2>1, <2>2, <2>3, <2>4, RedoRecords
<1>7. CASE running = "cancel"
  <2> DEFINE items == undo[Len(undo)].items
             at == LastGroup(items) - 1 + Len(todo)
  <2>1. ~Recording /\ InCancel
    BY <1>1, <1>7, ReversalState
  <2>2. /\ Len(todo) >= 2 /\ Head(todo) = Flip(items[at]) /\ items[at] \in Item
        /\ \E w \in Docs : TracedTo(items, at - 1, base, w) /\ Between(w, items[at], content)
    BY <1>1, <1>3, <1>4, <2>1, CancellingHead DEF InCancel
  <2>3. TracedTo(items, at - 1, base, content')
    BY <1>1, <1>3, <2>2, ItemUndone
  <2>4. undo' = undo /\ redo' = redo
    BY <1>1, <2>1 DEF stacks
  <2>5. TracedTo(items, LastGroup(items) - 1 + Len(todo) - 1, base, content')
    <3>1. LastGroup(items) \in 1 .. Len(items) - 1 /\ Len(items) \in Nat /\ Len(todo) \in Nat
      BY <1>3, <2>1, CancellingHead DEF InCancel
    <3> DEFINE g == LastGroup(items)
               n == Len(todo)
               l == Len(items)
    <3>2. g \in 1 .. l - 1 /\ l \in Nat /\ n \in Nat
      BY <3>1
    <3> HIDE DEF g, n, l
    <3>3. (g - 1 + n) - 1 = g - 1 + n - 1
      BY <3>2
    <3>4. TracedTo(items, (g - 1 + n) - 1, base, content')
      BY <2>3 DEF g, n
    <3>5. TracedTo(items, g - 1 + n - 1, base, content')
      BY <3>3, <3>4
    <3> QED  BY <3>5 DEF g, n
  <2> HIDE DEF at
  <2> QED  BY <1>1, <1>3, <1>7, <2>2, <2>4, <2>5, CancelUndoes
<1> QED
  BY <1>2, <1>5, <1>6, <1>7

LEMMA UndoesActionReverses ==
    ASSUME ReversalInv, UndoesAction
    PROVE  ReversalInv'
<1> DEFINE change == Reverting(content, Head(todo))
<1>1. /\ todo # <<>> /\ Head(todo) \notin {Begin, End}
      /\ content' = Changed(content, change)
      /\ IF Recording THEN AddUndo(Recorded(content, change)) ELSE UNCHANGED <<stacks, saveVars>>
      /\ todo' = Tail(todo)
      /\ UNCHANGED <<running, blocks, limit, scopes, base>>
  BY DEF UndoesAction
<1>2. ReversalTypes /\ running \in {"undo", "redo", "cancel"}
  BY <1>1, ReversalState
<1>3. /\ undo \in Seq(Group) /\ redo \in Seq(Group) /\ todo \in Seq(Item)
      /\ content \in Docs
  BY <1>2 DEF ReversalTypes
<1> HIDE DEF change
<1>4. ASSUME change \in InListChanges(content, Values)
      PROVE  /\ Recorded(content, change) \in Item
             /\ Between(content, Recorded(content, change), content')
             /\ Weight(Recorded(content, change)) = 0
             /\ content' \in Docs
  BY <1>1, <1>3, <1>4, RecordedTakesBack, EndsAreNoActs DEF Item, Weight
<1>5. CASE running = "undo"
  <2> DEFINE src == undo[Len(undo)].items
             n == Len(todo)
  <2>1. Recording /\ Reversing(undo, redo, todo, base, content)
    BY <1>1, <1>5, ReversalState
  <2>2. /\ n >= 2 /\ Head(todo) = Flip(src[n]) /\ src[n] \in Item
        /\ \E w \in Docs : TracedTo(src, n - 1, undo[Len(undo)].before, w)
                              /\ Between(w, src[n], content)
    BY <1>1, <1>3, <2>1, ReversingHead
  <2>3. /\ change \in InListChanges(content, Values)
        /\ Weight(src[n]) = 0 /\ src[n] # End
        /\ TracedTo(src, n - 1, undo[Len(undo)].before, content')
    BY <1>1, <2>2, ItemUndone DEF change
  <2>4. n # Len(src)
    BY <1>3, <2>1, <2>3, ReversingDepth
  <2>5. /\ Recorded(content, change) \in Item
        /\ Between(content, Recorded(content, change), content')
        /\ Weight(Recorded(content, change)) + Weight(src[n]) = 0
        /\ content' \in Docs
    BY <1>4, <2>3
  <2> QED  BY <1>1, <1>5, <2>1, <2>2, <2>3, <2>4, <2>5, UndoRecords
<1>6. CASE running = "redo"
  <2> DEFINE src == redo[Len(redo)].items
             n == Len(todo)
  <2>1. Recording /\ Reversing(redo, undo, todo, base, content)
    BY <1>1, <1>6, ReversalState
  <2>2. /\ n >= 2 /\ Head(todo) = Flip(src[n]) /\ src[n] \in Item
        /\ \E w \in Docs : TracedTo(src, n - 1, redo[Len(redo)].before, w)
                              /\ Between(w, src[n], content)
    BY <1>1, <1>3, <2>1, ReversingHead
  <2>3. /\ change \in InListChanges(content, Values)
        /\ Weight(src[n]) = 0 /\ src[n] # End
        /\ TracedTo(src, n - 1, redo[Len(redo)].before, content')
    BY <1>1, <2>2, ItemUndone DEF change
  <2>4. n # Len(src)
    BY <1>3, <2>1, <2>3, ReversingDepth
  <2>5. /\ Recorded(content, change) \in Item
        /\ Between(content, Recorded(content, change), content')
        /\ Weight(Recorded(content, change)) + Weight(src[n]) = 0
        /\ content' \in Docs
    BY <1>4, <2>3
  <2> QED  BY <1>1, <1>6, <2>1, <2>2, <2>3, <2>4, <2>5, RedoRecords
<1>7. CASE running = "cancel"
  <2> DEFINE items == undo[Len(undo)].items
             at == LastGroup(items) - 1 + Len(todo)
  <2>1. ~Recording /\ InCancel
    BY <1>1, <1>7, ReversalState
  <2>2. /\ Len(todo) >= 2 /\ Head(todo) = Flip(items[at]) /\ items[at] \in Item
        /\ \E w \in Docs : TracedTo(items, at - 1, base, w) /\ Between(w, items[at], content)
    BY <1>1, <1>3, <2>1, CancellingHead DEF InCancel
  <2>3. content' \in Docs /\ TracedTo(items, at - 1, base, content')
    BY <1>1, <2>2, ItemUndone DEF change
  <2>4. undo' = undo /\ redo' = redo
    BY <1>1, <2>1 DEF stacks
  <2>5. TracedTo(items, LastGroup(items) - 1 + Len(todo) - 1, base, content')
    <3>1. LastGroup(items) \in 1 .. Len(items) - 1 /\ Len(items) \in Nat /\ Len(todo) \in Nat
      BY <1>3, <2>1, CancellingHead DEF InCancel
    <3> DEFINE g == LastGroup(items)
               n == Len(todo)
               l == Len(items)
    <3>2. g \in 1 .. l - 1 /\ l \in Nat /\ n \in Nat
      BY <3>1
    <3> HIDE DEF g, n, l
    <3>3. (g - 1 + n) - 1 = g - 1 + n - 1
      BY <3>2
    <3>4. TracedTo(items, (g - 1 + n) - 1, base, content')
      BY <2>3 DEF g, n
    <3>5. TracedTo(items, g - 1 + n - 1, base, content')
      BY <3>3, <3>4
    <3> QED  BY <3>5 DEF g, n
  <2> HIDE DEF at
  <2> QED  BY <1>1, <1>7, <2>2, <2>3, <2>4, <2>5, CancelUndoes
<1> QED
  BY <1>2, <1>5, <1>6, <1>7

\* The end of a group in the group that is undone.
LEMMA ReversingEndsInner ==
    ASSUME NEW from \in Seq(Group), NEW to \in Seq(Group), NEW left \in Seq(Item),
           NEW x, NEW y, Reversing(from, to, left, x, y), Len(left) >= 2, Head(left) = End
    PROVE  /\ Ended(to) \in Seq(Group) /\ Tail(left) \in Seq(Item)
           /\ Reversing(from, Ended(to), Tail(left), x, y)
           /\ Ended(to) = TopAppended(to, End)
<1> DEFINE src == from[Len(from)].items
           n == Len(left)
           k == DepthAt(src, n)
<1>1. /\ n \in 1 .. Len(src) /\ Built(to, k, x, y) /\ TracedTo(src, n, from[Len(from)].before, y)
      /\ n < Len(src) => to # <<>> /\ Len(Last(to).items) = Len(src) - n
  BY DEF Reversing
<1>2. /\ Head(left) = Flip(src[n]) /\ src[n] \in Item
      /\ \E w \in Docs : TracedTo(src, n - 1, from[Len(from)].before, w) /\ Between(w, src[n], y)
      /\ Len(src) \in Nat /\ n \in Nat /\ Tail(left) \in Seq(Item)
  BY ReversingHead
<1>3. /\ src[n] = Begin /\ Weight(src[n]) = 1
      /\ TracedTo(src, n - 1, from[Len(from)].before, y)
      /\ y \in Docs
  BY <1>2, ItemUndone
<1>4. /\ k \in Nat /\ k = DepthAt(src, n - 1) + Weight(src[n])
      /\ n = Len(src) <=> k = 0
      /\ DepthAt(src, n - 1) \in Nat \ {0}
  BY ReversingDepth
<1>5. k >= 2 /\ k - 1 = DepthAt(src, n - 1) /\ k \in Nat \ {0} /\ n < Len(src)
  <2> DEFINE d == DepthAt(src, n - 1)
  <2>1. d \in Nat \ {0} /\ k = d + 1
    BY <1>3, <1>4
  <2> HIDE DEF d, k
  <2>2. k >= 2 /\ k - 1 = d /\ k \in Nat \ {0}
    BY <2>1
  <2>3. n # Len(src)
    BY <1>4, <2>2
  <2> HIDE DEF src
  <2>4. n < Len(src)
    BY <1>1, <1>2, <2>3
  <2> QED  BY <2>2, <2>4 DEF d
<1> HIDE DEF k, src
<1>6. Ended(to) = TopAppended(to, End)
  BY <1>1, <1>4, <1>5, InnerEnds
<1>7. /\ Ended(to) \in Seq(Group) /\ Built(Ended(to), k - 1, x, y)
      /\ Len(Last(Ended(to)).items) = Len(Last(to).items) + 1
  <2>1. End \in Item /\ Weight(End) = -1 /\ Between(y, End, y)
    BY EndsAreNoActs DEF Item, Weight, Between
  <2>2. k + Weight(End) >= 1 /\ k + Weight(End) = k - 1
    BY <1>5, <2>1
  <2> QED  BY <1>1, <1>3, <1>5, <1>6, <2>1, <2>2, BuiltGrows
<1>8. Ended(to) # <<>>
  BY <1>5, <1>7 DEF Built, Filling
<1>9. Len(Last(Ended(to)).items) = Len(src) - (n - 1)
  <2> DEFINE l == Len(src)
             a == Len(Last(to).items)
             b == Len(Last(Ended(to)).items)
  <2>1. l \in Nat /\ n \in Nat /\ a = l - n /\ b = a + 1
    BY <1>1, <1>2, <1>5, <1>7
  <2> HIDE DEF l, a, b
  <2>2. b = l - (n - 1)
    BY <2>1
  <2> QED  BY <2>2 DEF l, b
<1>10. Reversing(from, Ended(to), Tail(left), x, y)
  BY <1>3, <1>5, <1>7, <1>8, <1>9, ReversingNext DEF src
<1> QED
  BY <1>2, <1>6, <1>7, <1>10

LEMMA UndoEndsInnerReverses ==
    ASSUME ReversalInv, UndoEndsInner
    PROVE  ReversalInv'
<1>1. /\ Len(todo) > 1 /\ Head(todo) = End
      /\ IF ~Recording THEN UNCHANGED stacks
         ELSE IF running = "undo" THEN redo' = Ended(redo) /\ UNCHANGED undo
                                  ELSE undo' = Ended(undo) /\ UNCHANGED redo
      /\ todo' = Tail(todo)
      /\ UNCHANGED <<content, running, blocks, limit, scopes, base>>
  BY DEF UndoEndsInner
<1>2. ReversalTypes /\ running \in {"undo", "redo", "cancel"}
  <2>1. todo # <<>>
    BY <1>1
  <2> QED  BY <2>1, ReversalState
<1>3. /\ undo \in Seq(Group) /\ redo \in Seq(Group) /\ todo \in Seq(Item)
      /\ content \in Docs /\ Len(todo) \in Nat /\ Len(todo) >= 2 /\ todo # <<>>
  <2>1. /\ undo \in Seq(Group) /\ redo \in Seq(Group) /\ todo \in Seq(Item)
        /\ content \in Docs
    BY <1>2 DEF ReversalTypes
  <2>2. Len(todo) \in Nat
    BY <2>1, LenProperties
  <2> QED  BY <1>1, <2>1, <2>2
<1>4. CASE running = "undo"
  <2>1. Recording /\ scopes = <<>> /\ Reversing(undo, redo, todo, base, content)
    BY <1>3, <1>4, ReversalState
  <2>2. redo' = Ended(redo) /\ undo' = undo
    BY <1>1, <1>4, <2>1
  <2>3. /\ redo' \in Seq(Group) /\ todo' \in Seq(Item)
        /\ Reversing(undo, redo', todo', base, content)
    BY <1>1, <1>3, <2>1, <2>2, ReversingEndsInner
  <2>4. ReversalTypes'
    BY <1>1, <1>2, <2>2, <2>3 DEF ReversalTypes
  <2> QED  BY <1>1, <1>4, <2>1, <2>2, <2>3, <2>4 DEF ReversalInv
<1>5. CASE running = "redo"
  <2>1. Recording /\ scopes = <<>> /\ Reversing(redo, undo, todo, base, content)
    BY <1>3, <1>5, ReversalState
  <2>2. undo' = Ended(undo) /\ redo' = redo
    BY <1>1, <1>5, <2>1
  <2>3. /\ undo' \in Seq(Group) /\ todo' \in Seq(Item)
        /\ Reversing(redo, undo', todo', base, content)
    BY <1>1, <1>3, <2>1, <2>2, ReversingEndsInner
  <2>4. ReversalTypes'
    BY <1>1, <1>2, <2>2, <2>3 DEF ReversalTypes
  <2> QED  BY <1>1, <1>5, <2>1, <2>2, <2>3, <2>4 DEF ReversalInv
<1>6. CASE running = "cancel"
  <2> DEFINE items == undo[Len(undo)].items
             at == LastGroup(items) - 1 + Len(todo)
  <2>1. ~Recording /\ InCancel
    BY <1>3, <1>6, ReversalState
  <2>2. /\ Head(todo) = Flip(items[at]) /\ items[at] \in Item
        /\ \E w \in Docs : TracedTo(items, at - 1, base, w) /\ Between(w, items[at], content)
    BY <1>3, <2>1, CancellingHead DEF InCancel
  <2>3. TracedTo(items, at - 1, base, content') /\ content' \in Docs
    BY <1>1, <1>3, <2>2, ItemUndone
  <2>4. undo' = undo /\ redo' = redo
    BY <1>1, <2>1 DEF stacks
  <2>5. TracedTo(items, LastGroup(items) - 1 + Len(todo) - 1, base, content')
    <3>1. LastGroup(items) \in 1 .. Len(items) - 1 /\ Len(items) \in Nat /\ Len(todo) \in Nat
      BY <1>3, <2>1, CancellingHead DEF InCancel
    <3> DEFINE g == LastGroup(items)
               n == Len(todo)
               l == Len(items)
    <3>2. g \in 1 .. l - 1 /\ l \in Nat /\ n \in Nat
      BY <3>1
    <3> HIDE DEF g, n, l
    <3>3. (g - 1 + n) - 1 = g - 1 + n - 1
      BY <3>2
    <3>4. TracedTo(items, (g - 1 + n) - 1, base, content')
      BY <2>3 DEF g, n
    <3>5. TracedTo(items, g - 1 + n - 1, base, content')
      BY <3>3, <3>4
    <3> QED  BY <3>5 DEF g, n
  <2> HIDE DEF at
  <2> QED  BY <1>1, <1>3, <1>6, <2>3, <2>4, <2>5, CancelUndoes
<1> QED
  BY <1>2, <1>4, <1>5, <1>6

LEMMA UndoReturnsReverses ==
    ASSUME ReversalInv, UndoReturns
    PROVE  ReversalInv'
<1>1. /\ running = "undo" /\ todo = <<End>> /\ todo' = <<>> /\ running' = "none"
      /\ base' = content /\ redo' = Ended(redo) /\ undo' = Front(undo)
      /\ UNCHANGED <<content, blocks, limit, scopes>>
  BY DEF UndoReturns, Completes
<1>2. ReversalTypes /\ scopes = <<>> /\ Reversing(undo, redo, todo, base, content)
  BY <1>1 DEF ReversalInv
<1>3. undo \in Seq(Group) /\ redo \in Seq(Group) /\ todo \in Seq(Item)
  BY <1>2 DEF ReversalTypes
<1>4. /\ undo' \in Seq(Group) /\ Chained(undo', content)
      /\ redo' \in Seq(Group) /\ Chained(redo', content)
  BY <1>1, <1>2, <1>3, ReversingEnds
<1>5. ReversalTypes'
  BY <1>1, <1>2, <1>4, EmptySeq DEF ReversalTypes
<1>6. Resting'
  <2>1. OpenCount' = 0
    BY <1>1, <1>2, NoScopes DEF OpenCount
  <2> QED  BY <1>1, <1>4, <2>1 DEF Resting, Built
<1> QED
  BY <1>1, <1>5, <1>6 DEF ReversalInv

LEMMA RedoReturnsReverses ==
    ASSUME ReversalInv, RedoReturns
    PROVE  ReversalInv'
<1>1. /\ running = "redo" /\ todo = <<End>> /\ todo' = <<>> /\ running' = "none"
      /\ base' = content /\ undo' = Ended(undo) /\ redo' = Front(redo)
      /\ UNCHANGED <<content, blocks, limit, scopes>>
  BY DEF RedoReturns, Completes
<1>2. ReversalTypes /\ scopes = <<>> /\ Reversing(redo, undo, todo, base, content)
  BY <1>1 DEF ReversalInv
<1>3. undo \in Seq(Group) /\ redo \in Seq(Group) /\ todo \in Seq(Item)
  BY <1>2 DEF ReversalTypes
<1>4. /\ undo' \in Seq(Group) /\ Chained(undo', content)
      /\ redo' \in Seq(Group) /\ Chained(redo', content)
  BY <1>1, <1>2, <1>3, ReversingEnds
<1>5. ReversalTypes'
  BY <1>1, <1>2, <1>4, EmptySeq DEF ReversalTypes
<1>6. Resting'
  <2>1. OpenCount' = 0
    BY <1>1, <1>2, NoScopes DEF OpenCount
  <2> QED  BY <1>1, <1>4, <2>1 DEF Resting, Built
<1> QED
  BY <1>1, <1>5, <1>6 DEF ReversalInv

\* The cancelled group goes, and with it the scope.
LEMMA CancelReturnsReverses ==
    ASSUME ReversalInv, CancelReturns
    PROVE  ReversalInv'
<1>1. /\ running = "cancel" /\ todo = <<End>> /\ todo' = <<>> /\ running' = "none"
      /\ undo' = Shrunk(undo, LastGroup(Last(undo).items))
      /\ blocks' = blocks - 1 /\ scopes' = Front(scopes)
      /\ UNCHANGED <<content, redo, limit, base>>
  BY DEF CancelReturns
<1>2. /\ ReversalTypes /\ scopes # <<>> /\ Last(scopes) = "group" /\ redo = <<>>
      /\ Cancelling(undo, todo, OpenCount, base, content)
  BY <1>1 DEF ReversalInv, InCancel
<1>3. undo \in Seq(Group) /\ todo \in Seq(Item) /\ base \in Docs /\ Len(todo) = 1
  BY <1>1, <1>2 DEF ReversalTypes
<1>4. /\ undo' \in Seq(Group) /\ Built(undo', OpenCount - 1, base, content)
  BY <1>1, <1>2, <1>3, CancellingEnds
<1>5. /\ scopes' \in Seq(Scopes) /\ OpenCount' = OpenCount - 1
      /\ CountOf(scopes, "disabled")' = CountOf(scopes, "disabled")
      /\ CountOf(scopes, "disabled") \in Nat
  BY <1>1, <1>2, InnermostScope, ScopesCounted DEF OpenCount
<1>6. ReversalTypes'
  <2>1. blocks' = CountOf(scopes, "disabled")' + 0
    BY <1>1, <1>2, <1>5 DEF ReversalTypes
  <2> QED  BY <1>1, <1>2, <1>4, <1>5, <2>1, EmptySeq DEF ReversalTypes
<1>7. Resting'
  BY <1>1, <1>2, <1>4, <1>5, NoChain DEF Resting
<1> QED
  BY <1>1, <1>6, <1>7 DEF ReversalInv

\* Steps that change neither the document, the stacks nor what is going on.
LEMMA SameReverses ==
    ASSUME ReversalInv,
           UNCHANGED <<content, undo, redo, running, blocks, limit, scopes, todo, base>>
    PROVE  ReversalInv'
<1>1. OpenCount' = OpenCount
  BY DEF OpenCount
<1> QED
  BY <1>1 DEF ReversalInv, ReversalTypes, Resting, InCancel

LEMMA ReversalStep ==
    ASSUME ReversalInv, ~AnyReorder, [Next]_vars
    PROVE  ReversalInv'
<1>1. CASE OpenGroup
  BY <1>1, OpenGroupReverses
<1>2. CASE EndGroup
  BY <1>2, EndGroupReverses
<1>3. CASE CancelEmpty
  BY <1>3, CancelEmptyReverses
<1>4. CASE CancelGroup
  BY <1>4, CancelGroupReverses
<1>5. CASE \E c \in Changes(content, Values) : Edit(c)
  BY <1>5, EditReverses
<1>6. CASE Disable
  BY <1>6, DisableReverses
<1>7. CASE Enable
  BY <1>7, EnableReverses
<1>8. CASE Undo
  BY <1>8, UndoReverses
<1>9. CASE Redo
  BY <1>9, RedoReverses
<1>10. CASE UndoBegins
  BY <1>10, UndoBeginsReverses
<1>11. CASE UndoesAction
  BY <1>11, UndoesActionReverses
<1>12. CASE UndoEndsInner
  BY <1>12, UndoEndsInnerReverses
<1>13. CASE UndoReturns
  BY <1>13, UndoReturnsReverses
<1>14. CASE RedoReturns
  BY <1>14, RedoReturnsReverses
<1>15. CASE CancelReturns
  BY <1>15, CancelReturnsReverses
<1>16. CASE \E n \in Limits : SetLimit(n)
  BY <1>16, SetLimitReverses
<1>17. CASE Save
  BY <1>17, SameReverses DEF Save, stacks
<1>18. CASE CloseDocument
  BY <1>18, CloseDocumentReverses
<1>19. CASE UNCHANGED vars
  BY <1>19, SameReverses DEF vars, stacks
<1> QED
  BY <1>1, <1>2, <1>3, <1>4, <1>5, <1>6, <1>7, <1>8, <1>9, <1>10, <1>11, <1>12, <1>13,
     <1>14, <1>15, <1>16, <1>17, <1>18, <1>19 DEF Next

-----------------------------------------------------------------------------
(* What follows from it *)

LEMMA ListChangeInBounds ==
    ASSUME NEW y \in Docs, NEW c \in InListChanges(y, Values)
    PROVE  InBounds(y, c) /\ (c.op = "remove" => c.at >= 0)
<1>1. Len(y) \in Nat
  BY LenProperties DEF Docs
<1>2. CASE \E at \in Npos .. Len(y), v \in Values : c = ListInsert(at, v)
  BY <1>1, <1>2 DEF InBounds, ListInsert
<1>3. CASE \E at \in 0 .. Len(y) - 1 : c = ListRemove(at)
  BY <1>1, <1>3 DEF InBounds, ListRemove
<1>4. CASE \E at \in 0 .. Len(y) - 1, v \in Values : c = ListSet(at, v)
  BY <1>1, <1>4 DEF InBounds, ListSet
<1>5. CASE \E from, to \in 0 .. Len(y) - 1 : c = ListReorder(from, to)
  BY <1>1, <1>5 DEF InBounds, ListReorder
<1> QED
  BY <1>2, <1>3, <1>4, <1>5, ChangeCases

LEMMA ReversalMatches == ReversalInv => OpenGroupsMatch
<1> SUFFICES ASSUME ReversalInv, running = "none" PROVE OpenGroupsMatch
  BY DEF OpenGroupsMatch
<1>1. /\ OpenCount \in Nat /\ undo \in Seq(Group) /\ Built(undo, OpenCount, base, content)
  BY ScopesCounted DEF ReversalInv, Resting, ReversalTypes
<1>2. TopIsOpen(undo) <=> OpenCount > 0
  BY <1>1, BuiltTop
<1>3. OpenCount > 0 => undo # <<>> /\ Depth(Last(undo).items) = OpenCount
  BY <1>1, BuiltTop
<1> QED
  BY <1>1, <1>2, <1>3 DEF OpenGroupsMatch, OpenCount

\* The next change that undo, redo or cancel make is one of the document.
LEMMA NextChange ==
    ASSUME ReversalInv, todo # <<>>, Head(todo) \notin {Begin, End}
    PROVE  Reverting(content, Head(todo)) \in InListChanges(content, Values)
<1>1. ReversalTypes /\ running \in {"undo", "redo", "cancel"}
  BY ReversalState
<1>2. undo \in Seq(Group) /\ redo \in Seq(Group) /\ todo \in Seq(Item)
  BY <1>1 DEF ReversalTypes
<1>3. ASSUME NEW item \in Item, NEW w \in Docs, Head(todo) = Flip(item),
             Between(w, item, content)
      PROVE  Reverting(content, Head(todo)) \in InListChanges(content, Values)
  BY <1>3, ItemUndone
<1>4. CASE running = "undo"
  <2>1. Reversing(undo, redo, todo, base, content)
    BY <1>4, ReversalState
  <2> QED  BY <1>2, <1>3, <2>1, ReversingHead
<1>5. CASE running = "redo"
  <2>1. Reversing(redo, undo, todo, base, content)
    BY <1>5, ReversalState
  <2> QED  BY <1>2, <1>3, <2>1, ReversingHead
<1>6. CASE running = "cancel"
  <2>1. Cancelling(undo, todo, OpenCount, base, content)
    BY <1>6, ReversalState DEF InCancel
  <2> QED  BY <1>2, <1>3, <2>1, CancellingHead
<1> QED
  BY <1>1, <1>4, <1>5, <1>6

LEMMA ReversalInBounds == ReversalInv => UndoStaysInBounds
  BY NextChange, ListChangeInBounds DEF UndoStaysInBounds, ReversalInv, ReversalTypes

\* No operation of the manager throws half way through its work, whatever was
\* edited, nested, cancelled, undone, redone, trimmed or disabled before: the
\* groups open on the undo stack are those of the AutoUndo objects alive, and
\* each change undo(), redo() or a cancel makes finds its item.  Lists are not
\* reordered to positions past their last item: undoing such a change throws.
THEOREM NothingEverThrows ==
    ASSUME ~AnyReorder
    PROVE  Spec => []NothingThrows
<1>1. Init => ReversalInv
  BY ReversalInit
<1>2. ReversalInv /\ [Next]_vars => ReversalInv'
  BY ReversalStep
<1>3. ReversalInv => NothingThrows
  BY ReversalMatches, ReversalInBounds DEF NothingThrows
<1> QED
  BY <1>1, <1>2, <1>3, PTL DEF Spec

-----------------------------------------------------------------------------
(* The contents before the groups of a stack *)

LEMMA ContentsItems ==
    ASSUME NEW s \in Seq(Group)
    PROVE  /\ Len(s) \in Nat
           /\ Contents(s) \in Seq(Docs) /\ Len(Contents(s)) = Len(s)
           /\ \A i \in 1 .. Len(s) : Contents(s)[i] = s[i].before /\ s[i].before \in Docs
<1>1. Len(s) \in Nat /\ DOMAIN s = 1 .. Len(s) /\ \A i \in 1 .. Len(s) : s[i] \in Group
  BY LenProperties, ElementOfSeq
<1>2. /\ Contents(s) = [i \in 1 .. Len(s) |-> s[i].before]
      /\ \A i \in 1 .. Len(s) : s[i].before \in Docs
  BY <1>1 DEF Contents, Group
<1>3. Contents(s) \in Seq(Docs)
  BY <1>1, <1>2, IsASeq
<1>4. DOMAIN Contents(s) = 1 .. Len(s)
  BY <1>2
<1>5. Len(Contents(s)) = Len(s)
  BY <1>1, <1>3, <1>4, LenProperties
<1> QED
  BY <1>1, <1>2, <1>3, <1>5

LEMMA ContentsSame ==
    ASSUME NEW s \in Seq(Group), NEW t \in Seq(Group), Len(s) = Len(t),
           \A i \in 1 .. Len(s) : s[i].before = t[i].before
    PROVE  Contents(s) = Contents(t)
<1>1. \A i \in 1 .. Len(Contents(s)) : Contents(s)[i] = Contents(t)[i]
  BY ContentsItems
<1> QED
  BY <1>1, ContentsItems, SameItems

\* The top group gets other items.
LEMMA ContentsTopWith ==
    ASSUME NEW s \in Seq(Group), s # <<>>, NEW items \in Seq(Item)
    PROVE  /\ Front(TopWith(s, items)) = Front(s)
           /\ Contents(TopWith(s, items)) = Contents(s)
<1> DEFINE t == TopWith(s, items)
           m == Len(s)
<1>1. /\ t \in Seq(Group) /\ t # <<>> /\ Len(t) = m
      /\ \A i \in 1 .. m - 1 : t[i] = s[i]
      /\ t[m].before = s[m].before
  BY TopWithItems
<1>2. m \in Nat \ {0}
  BY StackTop
<1> HIDE DEF t, m
<1>3. Front(t) = Front(s)
  <2>1. /\ Front(s) \in Seq(Group) /\ Len(Front(s)) = m - 1
        /\ \A i \in 1 .. m - 1 : Front(s)[i] = s[i]
    BY FrontItems DEF m
  <2>2. /\ Front(t) \in Seq(Group) /\ Len(Front(t)) = m - 1
        /\ \A i \in 1 .. m - 1 : Front(t)[i] = t[i]
    BY <1>1, FrontItems
  <2>3. \A i \in 1 .. Len(Front(t)) : Front(t)[i] = Front(s)[i]
    BY <1>1, <2>1, <2>2
  <2> QED  BY <2>1, <2>2, <2>3, SameItems
<1>4. Contents(t) = Contents(s)
  <2>1. \A i \in 1 .. Len(t) : t[i].before = s[i].before
    BY <1>1, <1>2
  <2> QED  BY <1>1, <2>1, ContentsSame DEF m
<1> QED
  BY <1>3, <1>4 DEF t

LEMMA ContentsAppended ==
    ASSUME NEW s \in Seq(Group), s # <<>>, NEW item \in Item
    PROVE  /\ Front(TopAppended(s, item)) = Front(s)
           /\ Contents(TopAppended(s, item)) = Contents(s)
<1>1. Append(Last(s).items, item) \in Seq(Item)
  BY StackTop, AppendProperties
<1> QED
  BY <1>1, ContentsTopWith DEF TopAppended

LEMMA FrontPushed ==
    ASSUME NEW s \in Seq(Group), NEW g \in Group
    PROVE  Front(s \o <<g>>) = s
<1> DEFINE t == s \o <<g>>
<1>1. /\ t \in Seq(Group) /\ t # <<>> /\ Len(t) = Len(s) + 1
      /\ \A i \in 1 .. Len(s) : t[i] = s[i]
  BY PushedItems
<1>2. Len(s) \in Nat /\ Len(t) - 1 = Len(s)
  BY <1>1, LenProperties
<1> HIDE DEF t
<1>3. /\ Front(t) \in Seq(Group) /\ Len(Front(t)) = Len(s)
      /\ \A i \in 1 .. Len(s) : Front(t)[i] = t[i]
  BY <1>1, <1>2, FrontItems
<1> QED
  BY <1>1, <1>3, SameItems DEF t

\* The last group is the last of what undo can bring back ...
LEMMA ContentsLast ==
    ASSUME NEW s \in Seq(Group), s # <<>>
    PROVE  Contents(s) = Append(Contents(Front(s)), s[Len(s)].before)
<1> DEFINE f == Contents(Front(s))
           b == s[Len(s)].before
           m == Len(s)
<1>1. m \in Nat \ {0} /\ b \in Docs
  BY StackTop
<1>2. /\ Front(s) \in Seq(Group) /\ Len(Front(s)) = m - 1
      /\ \A i \in 1 .. m - 1 : Front(s)[i] = s[i]
  BY FrontItems
<1>3. /\ f \in Seq(Docs) /\ Len(f) = m - 1
      /\ \A i \in 1 .. m - 1 : f[i] = s[i].before
  BY <1>2, ContentsItems
<1>4. /\ Contents(s) \in Seq(Docs) /\ Len(Contents(s)) = m
      /\ \A i \in 1 .. m : Contents(s)[i] = s[i].before
  BY ContentsItems
<1> HIDE DEF f, b
<1> DEFINE t == Append(f, b)
<1>5. /\ t \in Seq(Docs) /\ Len(t) = Len(f) + 1
      /\ \A i \in 1 .. Len(f) + 1 : t[i] = IF i <= Len(f) THEN f[i] ELSE b
  BY <1>1, <1>3, AppendProperties
<1> HIDE DEF t
<1>6. Len(f) + 1 = m
  BY <1>1, <1>3
<1>7. ASSUME NEW i \in 1 .. m
      PROVE  Contents(s)[i] = t[i]
  <2>1. CASE i <= m - 1
    BY <1>1, <1>3, <1>4, <1>5, <1>6, <2>1
  <2>2. CASE i = m
    <3>1. ~(i <= Len(f)) /\ i \in 1 .. Len(f) + 1
      BY <1>1, <1>3, <2>2
    <3>2. s[i].before = b
      BY <2>2 DEF b
    <3> QED  BY <1>4, <1>5, <3>1, <3>2
  <2> QED  BY <1>1, <2>1, <2>2
<1>8. Contents(s) = t
  BY <1>4, <1>5, <1>6, <1>7, SameItems
<1> QED
  BY <1>8 DEF f, b, t

LEMMA ReverseItems ==
    ASSUME NEW s \in Seq(Group)
    PROVE  /\ Reverse(s) \in Seq(Group) /\ Len(Reverse(s)) = Len(s) /\ Len(s) \in Nat
           /\ \A i \in 1 .. Len(s) : Reverse(s)[i] = s[Len(s) - i + 1]
<1> DEFINE n == Len(s)
<1>1. n \in Nat /\ \A i \in 1 .. n : s[i] \in Group
  BY LenProperties, ElementOfSeq
<1>2. Reverse(s) = [i \in 1 .. n |-> s[(n - i) + 1]]
  BY DEF Reverse
<1> HIDE DEF n
<1>3. \A i \in 1 .. n : (n - i) + 1 \in 1 .. n
  BY <1>1
<1>4. \A i \in 1 .. n : s[(n - i) + 1] \in Group
  BY <1>1, <1>3
<1>5. Reverse(s) \in Seq(Group)
  BY <1>1, <1>2, <1>4, IsASeq
<1>6. Len(Reverse(s)) = n
  <2>1. DOMAIN Reverse(s) = 1 .. n
    BY <1>2
  <2> QED  BY <1>1, <1>5, <2>1, LenProperties
<1>7. \A i \in 1 .. n : Reverse(s)[i] = s[(n - i) + 1]
  BY <1>2
<1> QED
  BY <1>1, <1>5, <1>6, <1>7 DEF n

\* ... and the first of what redo can.
LEMMA ContentsFirst ==
    ASSUME NEW s \in Seq(Group), s # <<>>
    PROVE  Contents(Reverse(s)) = <<s[Len(s)].before>> \o Contents(Reverse(Front(s)))
<1> DEFINE m == Len(s)
           b == s[m].before
           r == Contents(Reverse(s))
           f == Contents(Reverse(Front(s)))
<1>1. m \in Nat \ {0} /\ b \in Docs
  BY StackTop
<1>2. /\ Front(s) \in Seq(Group) /\ Len(Front(s)) = m - 1
      /\ \A i \in 1 .. m - 1 : Front(s)[i] = s[i]
  BY FrontItems
<1>3. /\ Reverse(s) \in Seq(Group) /\ Len(Reverse(s)) = m
      /\ \A i \in 1 .. m : Reverse(s)[i] = s[m - i + 1]
  BY ReverseItems
<1>4. /\ Reverse(Front(s)) \in Seq(Group) /\ Len(Reverse(Front(s))) = m - 1
      /\ \A i \in 1 .. m - 1 : Reverse(Front(s))[i] = Front(s)[m - 1 - i + 1]
  BY <1>2, ReverseItems
<1>5. /\ r \in Seq(Docs) /\ Len(r) = m
      /\ \A i \in 1 .. m : r[i] = s[m - i + 1].before
  BY <1>3, ContentsItems
<1>6. /\ f \in Seq(Docs) /\ Len(f) = m - 1
      /\ \A i \in 1 .. m - 1 : f[i] = s[m - i].before
  <2>1. /\ f \in Seq(Docs) /\ Len(f) = m - 1
        /\ \A i \in 1 .. m - 1 : f[i] = Front(s)[m - 1 - i + 1].before
    <3> DEFINE rf == Reverse(Front(s))
    <3>1. /\ rf \in Seq(Group) /\ Len(rf) = m - 1
          /\ \A i \in 1 .. m - 1 : rf[i] = Front(s)[m - 1 - i + 1]
      BY <1>4
    <3> HIDE DEF rf, m
    <3>2. /\ Contents(rf) \in Seq(Docs) /\ Len(Contents(rf)) = m - 1
          /\ \A i \in 1 .. m - 1 : Contents(rf)[i] = rf[i].before
      BY <3>1, ContentsItems
    <3>3. \A i \in 1 .. m - 1 : Contents(rf)[i] = Front(s)[m - 1 - i + 1].before
      BY <3>1, <3>2
    <3> QED  BY <3>2, <3>3 DEF rf
  <2>2. \A i \in 1 .. m - 1 : m - 1 - i + 1 = m - i /\ m - i \in 1 .. m - 1
    BY <1>1
  <2> HIDE DEF f, m
  <2>3. \A i \in 1 .. m - 1 : f[i] = s[m - i].before
    BY <1>2, <2>1, <2>2
  <2> QED  BY <2>1, <2>3
<1> HIDE DEF f, r, m, b
<1> DEFINE t == <<b>> \o f
<1>7. <<b>> \in Seq(Docs) /\ Len(<<b>>) = 1 /\ <<b>>[1] = b
  BY <1>1
<1>8. /\ t \in Seq(Docs) /\ Len(t) = m
      /\ \A i \in 1 .. m : t[i] = IF i <= 1 THEN b ELSE f[i - 1]
  <2>1. /\ t \in Seq(Docs) /\ Len(t) = Len(<<b>>) + Len(f)
        /\ \A i \in 1 .. Len(<<b>>) + Len(f) :
              t[i] = IF i <= Len(<<b>>) THEN <<b>>[i] ELSE f[i - Len(<<b>>)]
    BY <1>6, <1>7, ConcatProperties
  <2>2. Len(<<b>>) + Len(f) = m
    BY <1>1, <1>6, <1>7
  <2>3. ASSUME NEW i \in 1 .. m
        PROVE  t[i] = IF i <= 1 THEN b ELSE f[i - 1]
    <3>1. t[i] = IF i <= 1 THEN <<b>>[i] ELSE f[i - 1]
      BY <1>7, <2>1, <2>2
    <3>2. i <= 1 => i = 1
      BY <1>1
    <3> QED  BY <1>7, <3>1, <3>2
  <2> QED  BY <2>1, <2>2, <2>3
<1> HIDE DEF t
<1>9. ASSUME NEW i \in 1 .. m
      PROVE  r[i] = t[i]
  <2>1. CASE i = 1
    <3>1. m - i + 1 = m
      BY <1>1, <2>1
    <3>2. r[i] = s[m].before
      BY <1>5, <3>1
    <3>3. t[i] = b
      BY <1>1, <1>8, <2>1
    <3> QED  BY <3>2, <3>3 DEF b
  <2>2. CASE i # 1
    <3>1. ~(i <= 1) /\ i - 1 \in 1 .. m - 1 /\ m - (i - 1) = m - i + 1
      BY <1>1, <2>2
    <3>2. t[i] = f[i - 1] /\ f[i - 1] = s[m - (i - 1)].before
      BY <1>6, <1>8, <3>1
    <3> QED  BY <1>5, <3>1, <3>2
  <2> QED  BY <2>1, <2>2
<1>10. r = t
  BY <1>5, <1>8, <1>9, SameItems
<1> QED
  BY <1>10 DEF r, t, f, b, m

\* Contents are forgotten at the far end.
LEMMA ContentsDropped ==
    ASSUME NEW s \in Seq(Group), NEW t \in Seq(Group), NEW d \in Nat, d <= Len(s),
           Len(t) = Len(s) - d, \A i \in 1 .. Len(s) - d : t[i] = s[i + d]
    PROVE  Contents(t) = SubSeq(Contents(s), d + 1, Len(Contents(s)))
<1> DEFINE c == Contents(s)
           n == Len(s)
           u == SubSeq(c, d + 1, n)
<1>1. n \in Nat /\ c \in Seq(Docs) /\ Len(c) = n /\ \A i \in 1 .. n : c[i] = s[i].before /\ c[i] \in Docs
  BY ContentsItems
<1>2. /\ Contents(t) \in Seq(Docs) /\ Len(Contents(t)) = n - d
      /\ \A i \in 1 .. n - d : Contents(t)[i] = t[i].before
  BY ContentsItems
<1> HIDE DEF c, n
<1>3. /\ u \in Seq(Docs) /\ Len(u) = n - d
      /\ \A i \in 1 .. n - d : u[i] = c[d + 1 + i - 1]
  <2>1. d + 1 \in Int /\ n \in Int /\ d + 1 <= n + 1 /\ n - (d + 1) + 1 = n - d
    BY <1>1 DEF n
  <2>2. \A i \in d + 1 .. n : c[i] \in Docs
    BY <1>1
  <2> DEFINE a == d + 1
  <2> HIDE DEF a
  <2>3. a \in Int /\ n \in Int /\ \A i \in a .. n : c[i] \in Docs
    BY <2>1, <2>2 DEF a
  <2>4. /\ SubSeq(c, a, n) \in Seq(Docs)
        /\ Len(SubSeq(c, a, n)) = IF a <= n THEN n - a + 1 ELSE 0
        /\ \A i \in 1 .. n - a + 1 : SubSeq(c, a, n)[i] = c[a + i - 1]
    BY <2>3, SubSeqProperties
  <2>5. (IF a <= n THEN n - a + 1 ELSE 0) = n - d /\ n - a + 1 = n - d
    BY <1>1, <2>1 DEF a
  <2> QED  BY <2>4, <2>5 DEF a
<1>4. ASSUME NEW i \in 1 .. n - d
      PROVE  Contents(t)[i] = u[i]
  <2>1. d + 1 + i - 1 = i + d /\ i + d \in 1 .. n
    BY <1>1
  <2>2. u[i] = s[i + d].before
    BY <1>1, <1>3, <2>1
  <2>3. t[i] = s[i + d]
    BY DEF n
  <2> QED  BY <1>2, <2>2, <2>3
<1> HIDE DEF u
<1>5. Contents(t) = u
  BY <1>2, <1>3, <1>4, SameItems
<1> QED
  BY <1>1, <1>5 DEF u, c

\* The groups of s that are not forgotten.
Forgets(p, q) == \E n \in 0 .. Len(p) : q = SubSeq(p, n + 1, Len(p))

LEMMA TrimmedForgets ==
    ASSUME NEW s \in Seq(Group), NEW n \in Nat
    PROVE  Forgets(Contents(s), Contents(Trimmed(s, n)))
<1>1. PICK d \in Nat :
          /\ d <= Len(s)
          /\ Trimmed(s, n) \in Seq(Group) /\ Len(Trimmed(s, n)) = Len(s) - d
          /\ \A i \in 1 .. Len(s) - d : Trimmed(s, n)[i] = s[i + d]
  BY TrimmedItems
<1>2. Contents(Trimmed(s, n)) = SubSeq(Contents(s), d + 1, Len(Contents(s)))
  BY <1>1, ContentsDropped
<1>3. d \in 0 .. Len(Contents(s))
  BY <1>1, ContentsItems
<1> QED
  BY <1>2, <1>3 DEF Forgets

LEMMA FrontTrimmedForgets ==
    ASSUME NEW s \in Seq(Group), NEW g \in Group, NEW n \in Nat
    PROVE  Forgets(Contents(s), Contents(Front(Trimmed(s \o <<g>>, n))))
<1> DEFINE t == s \o <<g>>
           l == Len(s)
           u == Trimmed(t, n)
<1>1. /\ t \in Seq(Group) /\ t # <<>> /\ Len(t) = l + 1 /\ l \in Nat
      /\ \A i \in 1 .. l : t[i] = s[i]
  BY PushedItems, LenProperties
<1> HIDE DEF t
<1>2. PICK d \in Nat :
          /\ d < Len(t)
          /\ u \in Seq(Group) /\ Len(u) = Len(t) - d
          /\ \A i \in 1 .. Len(t) - d : u[i] = t[i + d]
  BY <1>1, TrimmedItems
<1> HIDE DEF u, l
<1>3. d <= l /\ Len(u) - 1 = l - d /\ Len(u) \in Nat \ {0}
  BY <1>1, <1>2
<1>4. u # <<>>
  BY <1>3, EmptySeq
<1>5. /\ Front(u) \in Seq(Group) /\ Len(Front(u)) = l - d
      /\ \A i \in 1 .. l - d : Front(u)[i] = u[i]
  BY <1>2, <1>3, <1>4, FrontItems
<1>6. ASSUME NEW i \in 1 .. l - d
      PROVE  Front(u)[i] = s[i + d]
  <2>1. i \in 1 .. Len(t) - d /\ i + d \in 1 .. l
    BY <1>1, <1>3
  <2> QED  BY <1>1, <1>2, <1>5, <2>1
<1>7. Contents(Front(u)) = SubSeq(Contents(s), d + 1, Len(Contents(s)))
  BY <1>1, <1>3, <1>5, <1>6, ContentsDropped DEF l
<1>8. d \in 0 .. Len(Contents(s))
  BY <1>1, <1>3, ContentsItems DEF l
<1> QED
  BY <1>7, <1>8 DEF Forgets, u, t

-----------------------------------------------------------------------------
(* What the stacks are of the edit history *)

Past == Contents(CompletedUndo)
Future == Contents(Reverse(CompletedRedo))

\* The group that is being filled is no history yet, nor is one that is cancelled.
HistoryIs ==
    /\ running = "none" =>
          /\ Past = Contents(IF OpenCount > 0 THEN Front(undo) ELSE undo)
          /\ Future = Contents(Reverse(redo))
    /\ running = "undo" =>
          /\ Past = Contents(undo)
          /\ Future = Contents(Reverse(IF Len(todo) < Len(Last(undo).items)
                                       THEN Front(redo) ELSE redo))
    /\ running = "redo" =>
          /\ Past = Contents(IF Len(todo) < Len(Last(redo).items)
                             THEN Front(undo) ELSE undo)
          /\ Future = Contents(Reverse(redo))
    /\ running = "cancel" =>
          /\ Past = Contents(Front(undo))
          /\ Future = Contents(Reverse(redo))

HistoryKept == UNCHANGED <<Past, base, Future>>

LEMMA ContentsNone == Contents(<<>>) = <<>> /\ Contents(Reverse(<<>>)) = <<>>
<1>1. <<>> \in Seq(Group) /\ Len(<<>>) = 0
  BY EmptySeq
<1>2. Contents(<<>>) = <<>>
  <2>1. Contents(<<>>) \in Seq(Docs) /\ Len(Contents(<<>>)) = 0
    BY <1>1, ContentsItems
  <2> QED  BY <2>1, EmptySeq
<1>3. Reverse(<<>>) = <<>>
  <2> DEFINE r == Reverse(<<>>)
  <2>1. r \in Seq(Group) /\ Len(r) = 0
    BY <1>1, ReverseItems
  <2> HIDE DEF r
  <2>2. r = <<>>
    BY <2>1, EmptySeq
  <2> QED  BY <2>2 DEF r
<1> QED
  BY <1>2, <1>3

\* A stack whose groups are all closed, and one whose top group is open.
LEMMA CompletedStack ==
    ASSUME NEW s \in Seq(Group), NEW k \in Nat, NEW x, NEW y, Built(s, k, x, y)
    PROVE  (IF TopIsOpen(s) THEN Front(s) ELSE s) = IF k > 0 THEN Front(s) ELSE s
  BY BuiltTop

LEMMA HistoryState == ReversalInv => HistoryIs
<1> SUFFICES ASSUME ReversalInv PROVE HistoryIs
  OBVIOUS
<1>1. ReversalTypes /\ undo \in Seq(Group) /\ redo \in Seq(Group) /\ todo \in Seq(Item)
      /\ OpenCount \in Nat
  BY ScopesCounted DEF ReversalInv, ReversalTypes
<1>2. \A s \in Seq(Group) : \A x : Chained(s, x) => ~TopIsOpen(s)
  <2> TAKE s \in Seq(Group)
  <2> TAKE x
  <2> HAVE Chained(s, x)
  <2>1. Built(s, 0, x, x) /\ 0 \in Nat
    BY DEF Built
  <2> QED  BY <2>1, BuiltTop
<1>3. ASSUME running = "none"
      PROVE  /\ Past = Contents(IF OpenCount > 0 THEN Front(undo) ELSE undo)
             /\ Future = Contents(Reverse(redo))
  <2>1. Built(undo, OpenCount, base, content) /\ Chained(redo, base)
    BY <1>3 DEF ReversalInv, Resting
  <2>2. CompletedUndo = IF OpenCount > 0 THEN Front(undo) ELSE undo
    BY <1>1, <1>3, <2>1, CompletedStack DEF CompletedUndo
  <2>3. CompletedRedo = redo
    BY <1>1, <1>2, <2>1 DEF CompletedRedo
  <2> QED  BY <2>2, <2>3 DEF Past, Future
<1>4. ASSUME running = "undo"
      PROVE  /\ Past = Contents(undo)
             /\ Future = Contents(Reverse(IF Len(todo) < Len(Last(undo).items)
                                          THEN Front(redo) ELSE redo))
  <2> DEFINE src == undo[Len(undo)].items
             k == DepthAt(src, Len(todo))
  <2>1. Reversing(undo, redo, todo, base, content)
    BY <1>4 DEF ReversalInv
  <2>2. undo # <<>> /\ Chained(undo, base) /\ Built(redo, k, base, content)
        /\ Len(todo) \in 1 .. Len(src)
    BY <2>1 DEF Reversing
  <2>3. k \in Nat /\ (Len(todo) = Len(src) <=> k = 0)
    BY <1>1, <2>1, ReversingDepth
  <2>4. Last(undo).items = src /\ Len(src) \in Nat
    BY <1>1, <2>2, StackTop, LenProperties
  <2> HIDE DEF src, k
  <2>5. Len(todo) < Len(src) <=> k > 0
    BY <2>2, <2>3, <2>4
  <2>6. CompletedUndo = undo
    BY <1>1, <1>2, <1>4, <2>2 DEF CompletedUndo
  <2>7. CompletedRedo = IF k > 0 THEN Front(redo) ELSE redo
    BY <1>1, <2>2, <2>3, CompletedStack DEF CompletedRedo
  <2> QED  BY <2>4, <2>5, <2>6, <2>7 DEF Past, Future
<1>5. ASSUME running = "redo"
      PROVE  /\ Past = Contents(IF Len(todo) < Len(Last(redo).items)
                                THEN Front(undo) ELSE undo)
             /\ Future = Contents(Reverse(redo))
  <2> DEFINE src == redo[Len(redo)].items
             k == DepthAt(src, Len(todo))
  <2>1. Reversing(redo, undo, todo, base, content)
    BY <1>5 DEF ReversalInv
  <2>2. redo # <<>> /\ Chained(redo, base) /\ Built(undo, k, base, content)
        /\ Len(todo) \in 1 .. Len(src)
    BY <2>1 DEF Reversing
  <2>3. k \in Nat /\ (Len(todo) = Len(src) <=> k = 0)
    BY <1>1, <2>1, ReversingDepth
  <2>4. Last(redo).items = src /\ Len(src) \in Nat
    BY <1>1, <2>2, StackTop, LenProperties
  <2> HIDE DEF src, k
  <2>5. Len(todo) < Len(src) <=> k > 0
    BY <2>2, <2>3, <2>4
  <2>6. CompletedUndo = IF k > 0 THEN Front(undo) ELSE undo
    BY <1>1, <1>5, <2>2, <2>3, CompletedStack DEF CompletedUndo
  <2>7. CompletedRedo = redo
    BY <1>1, <1>2, <2>2 DEF CompletedRedo
  <2> QED  BY <2>4, <2>5, <2>6, <2>7 DEF Past, Future
<1>6. ASSUME running = "cancel"
      PROVE  /\ Past = Contents(Front(undo))
             /\ Future = Contents(Reverse(redo))
  <2> DEFINE items == undo[Len(undo)].items
             n == Len(items) - 1
  <2>1. /\ undo # <<>> /\ redo = <<>>
        /\ Open(items, n, OpenCount) /\ items[Len(items)] = End
    BY <1>6 DEF ReversalInv, InCancel, Cancelling
  <2>2. /\ Last(undo) = undo[Len(undo)] /\ items \in Seq(Item) /\ Len(items) \in Nat
    BY <1>1, <2>1, StackTop, LenProperties
  <2> HIDE DEF items
  <2>3. Depth(items) = OpenCount - 1 /\ OpenCount \in Nat \ {0}
    <3>1. n \in Nat /\ DepthAt(items, n) = OpenCount /\ OpenCount \in Nat \ {0} /\ n + 1 = Len(items)
      BY <2>1, <2>2 DEF Open
    <3>2. DepthAt(items, n + 1) = DepthAt(items, n) + Weight(items[n + 1])
      BY <3>1, DepthStep
    <3>3. Weight(End) = -1
      BY EndsAreNoActs DEF Weight
    <3>4. Depth(items) = DepthAt(items, n + 1)
      BY <2>2, <3>1, DepthIsDepthAt
    <3> QED  BY <2>1, <3>1, <3>2, <3>3, <3>4
  <2>4. TopIsOpen(undo) \/ OpenCount = 1
    <3>1. TopIsOpen(undo) <=> Depth(items) > 0
      BY <2>1, <2>2 DEF TopIsOpen, items
    <3> QED  BY <2>3, <3>1
  <2>5. CompletedUndo = Front(undo)
    BY <1>6, <2>4 DEF CompletedUndo, OpenCount
  <2>6. CompletedRedo = redo
    BY <2>1 DEF CompletedRedo, TopIsOpen
  <2> QED  BY <2>5, <2>6 DEF Past, Future
<1> QED
  BY <1>3, <1>4, <1>5, <1>6 DEF HistoryIs

-----------------------------------------------------------------------------
(* Adding to a stack *)

LEMMA AddedToRedo ==
    ASSUME ReversalTypes, running = "undo", NEW item \in Item, AddUndo(item),
           NEW k \in Nat, NEW x, Built(redo, k, x, content)
    PROVE  undo' = undo /\ Front(redo') = IF k > 0 THEN Front(redo) ELSE redo
<1>1. redo \in Seq(Group) /\ content \in Docs
  BY DEF ReversalTypes
<1>2. (TopIsOpen(redo) <=> k > 0) /\ (k > 0 => redo # <<>>)
  BY <1>1, BuiltTop
<1>3. CASE k > 0
  <2>1. redo' = TopAppended(redo, item) /\ undo' = undo
    BY <1>2, <1>3, AddUndoCases
  <2> QED  BY <1>1, <1>2, <1>3, <2>1, ContentsAppended
<1>4. CASE k = 0
  <2>1. PICK a \in Free :
            LET g == [address |-> a, items |-> <<item>>, before |-> content]
            IN  redo' = redo \o <<g>> /\ undo' = undo
    BY <1>2, <1>4, AddUndoCases
  <2> DEFINE g == [address |-> a, items |-> <<item>>, before |-> content]
  <2>2. g \in Group
    BY <1>1, NewGroup
  <2>3. redo' = redo \o <<g>>
    BY <2>1
  <2> HIDE DEF g
  <2>4. Front(redo') = redo
    BY <1>1, <2>2, <2>3, FrontPushed
  <2> QED  BY <1>4, <2>1, <2>4
<1> QED
  BY <1>3, <1>4

LEMMA AddedToUndo ==
    ASSUME ReversalTypes, running # "undo", NEW item \in Item, AddUndo(item),
           NEW k \in Nat, NEW x, Built(undo, k, x, content)
    PROVE  /\ redo' = RedoAfterAdding
           /\ k > 0 => Front(undo') = Front(undo)
           /\ k = 0 => Forgets(Contents(undo), Contents(Front(undo')))
<1>1. undo \in Seq(Group) /\ content \in Docs /\ limit \in Nat
  BY DEF ReversalTypes
<1>2. (TopIsOpen(undo) <=> k > 0) /\ (k > 0 => undo # <<>>)
  BY <1>1, BuiltTop
<1>3. CASE k > 0
  <2>1. undo' = TopAppended(undo, item) /\ redo' = RedoAfterAdding
    BY <1>2, <1>3, AddUndoCases
  <2> QED  BY <1>1, <1>2, <1>3, <2>1, ContentsAppended
<1>4. CASE k = 0
  <2>1. PICK a \in Free :
            LET g == [address |-> a, items |-> <<item>>, before |-> content]
            IN  undo' = Trimmed(undo \o <<g>>, limit) /\ redo' = RedoAfterAdding
    BY <1>2, <1>4, AddUndoCases
  <2> DEFINE g == [address |-> a, items |-> <<item>>, before |-> content]
  <2>2. g \in Group
    BY <1>1, NewGroup
  <2>3. undo' = Trimmed(undo \o <<g>>, limit)
    BY <2>1
  <2> HIDE DEF g
  <2>4. Forgets(Contents(undo), Contents(Front(undo')))
    BY <1>1, <2>2, <2>3, FrontTrimmedForgets
  <2> QED  BY <1>4, <2>1, <2>4
<1> QED
  BY <1>3, <1>4

-----------------------------------------------------------------------------
(* Each step is one of the edit history *)

LEMMA HistoryPrimed == ReversalInv' => HistoryIs'
  BY HistoryState, PTL

\* What undo() and redo() record goes into a group that is no history yet.
LEMMA RecordingHistory ==
    ASSUME ReversalInv, ReversalInv', running \in {"undo", "redo"}, todo # <<>>,
           NEW item \in Item, AddUndo(item), todo' = Tail(todo), UNCHANGED <<running, base>>
    PROVE  HistoryKept \/ History!Forget
<1>1. HistoryIs /\ HistoryIs' /\ ReversalTypes
  BY HistoryState, HistoryPrimed DEF ReversalInv
<1>2. undo \in Seq(Group) /\ redo \in Seq(Group) /\ todo \in Seq(Item)
  BY <1>1 DEF ReversalTypes
<1>3. CASE running = "undo"
  <2> DEFINE src == undo[Len(undo)].items
             n == Len(todo)
             k == DepthAt(src, n)
  <2>1. Reversing(undo, redo, todo, base, content)
    BY <1>3 DEF ReversalInv
  <2>2. k \in Nat /\ (n = Len(src) <=> k = 0) /\ n \in 1 .. Len(src) /\ undo # <<>>
        /\ Built(redo, k, base, content)
    BY <1>2, <2>1, ReversingDepth DEF Reversing
  <2>3. Last(undo).items = src /\ Len(src) \in Nat /\ Len(todo') = n - 1
    BY <1>2, <2>1, <2>2, StackTop, ReversingHead
  <2> HIDE DEF src, n, k
  <2>4. (n < Len(src) <=> k > 0) /\ n - 1 < Len(src)
    BY <2>2, <2>3
  <2>5. undo' = undo /\ Front(redo') = IF k > 0 THEN Front(redo) ELSE redo
    BY <1>1, <1>3, <2>2, AddedToRedo
  <2>6. /\ Past = Contents(undo)
        /\ Future = Contents(Reverse(IF k > 0 THEN Front(redo) ELSE redo))
    BY <1>1, <1>3, <2>3, <2>4 DEF HistoryIs, n
  <2>7. Past' = Contents(undo') /\ Future' = Contents(Reverse(Front(redo')))
    BY <1>1, <1>3, <2>3, <2>4, <2>5 DEF HistoryIs, n
  <2> QED  BY <2>5, <2>6, <2>7 DEF HistoryKept
<1>4. CASE running = "redo"
  <2> DEFINE src == redo[Len(redo)].items
             n == Len(todo)
             k == DepthAt(src, n)
  <2>1. Reversing(redo, undo, todo, base, content)
    BY <1>4 DEF ReversalInv
  <2>2. k \in Nat /\ (n = Len(src) <=> k = 0) /\ n \in 1 .. Len(src) /\ redo # <<>>
        /\ Built(undo, k, base, content)
    BY <1>2, <2>1, ReversingDepth DEF Reversing
  <2>3. Last(redo).items = src /\ Len(src) \in Nat /\ Len(todo') = n - 1
    BY <1>2, <2>1, <2>2, StackTop, ReversingHead
  <2> HIDE DEF src, n, k
  <2>4. (n < Len(src) <=> k > 0) /\ n - 1 < Len(src)
    BY <2>2, <2>3
  <2>5. /\ redo' = redo
        /\ k > 0 => Front(undo') = Front(undo)
        /\ k = 0 => Forgets(Contents(undo), Contents(Front(undo')))
    BY <1>1, <1>4, <2>2, AddedToUndo DEF RedoAfterAdding
  <2>6. /\ Past = Contents(IF k > 0 THEN Front(undo) ELSE undo)
        /\ Future = Contents(Reverse(redo))
    BY <1>1, <1>4, <2>3, <2>4 DEF HistoryIs, n
  <2>7. Past' = Contents(Front(undo')) /\ Future' = Contents(Reverse(redo'))
    BY <1>1, <1>4, <2>3, <2>4, <2>5 DEF HistoryIs, n
  <2>8. CASE k > 0
    BY <2>5, <2>6, <2>7, <2>8 DEF HistoryKept
  <2>9. CASE k = 0
    <3>1. Forgets(Past, Past') /\ Future' = Future
      BY <2>5, <2>6, <2>7, <2>9
    <3> QED  BY <3>1 DEF History!Forget, Forgets, Past, Future
  <2> QED  BY <2>2, <2>8, <2>9
<1> QED
  BY <1>3, <1>4

LEMMA OpenGroupHistory ==
    ASSUME ReversalInv, ReversalInv', OpenGroup
    PROVE  HistoryKept \/ History!Forget
<1>1. HistoryIs /\ HistoryIs' /\ ReversalTypes /\ Resting /\ Resting'
  BY HistoryState, HistoryPrimed DEF ReversalInv, OpenGroup
<1>2. /\ running = "none" /\ running' = "none" /\ AddUndo(Begin) /\ base' = base
      /\ scopes' = Append(scopes, "group")
  BY DEF OpenGroup
<1>3. scopes \in Seq(Scopes) /\ "group" \in Scopes /\ Begin \in Item /\ OpenCount \in Nat
  BY <1>1, ScopesCounted DEF ReversalTypes, Scopes, Item
<1>4. OpenCount' = OpenCount + 1
  BY <1>2, <1>3, CountAppend DEF OpenCount
<1>5. /\ redo' = <<>>
      /\ OpenCount > 0 => Front(undo') = Front(undo)
      /\ OpenCount = 0 => Forgets(Contents(undo), Contents(Front(undo')))
  BY <1>1, <1>2, <1>3, AddedToUndo DEF Resting, RedoAfterAdding
<1>6. /\ Past = Contents(IF OpenCount > 0 THEN Front(undo) ELSE undo)
      /\ Future = Contents(Reverse(redo))
  BY <1>1, <1>2 DEF HistoryIs
<1>7. /\ Past' = Contents(Front(undo'))
      /\ Future' = <<>>
  BY <1>1, <1>2, <1>3, <1>4, <1>5, ContentsNone DEF HistoryIs
<1>8. CASE OpenCount > 0
  <2>1. Future = <<>>
    BY <1>1, <1>6, <1>8, ContentsNone DEF Resting
  <2> QED  BY <1>2, <1>5, <1>6, <1>7, <1>8, <2>1 DEF HistoryKept
<1>9. CASE OpenCount = 0
  <2>1. Forgets(Past, Past')
    BY <1>5, <1>6, <1>7, <1>9
  <2> QED  BY <1>2, <1>7, <2>1 DEF History!Forget, Forgets, Past, Future
<1> QED
  BY <1>3, <1>8, <1>9

LEMMA EditHistoryKept ==
    ASSUME ReversalInv, ReversalInv', ~AnyReorder, NEW c \in Changes(content, Values), Edit(c)
    PROVE  HistoryKept
<1>1. HistoryIs /\ HistoryIs' /\ ReversalTypes /\ Resting
  BY HistoryState, HistoryPrimed DEF ReversalInv, Edit, InScope
<1>2. /\ running = "none" /\ running' = "none" /\ scopes # <<>> /\ Last(scopes) = "group"
      /\ AddUndo(Recorded(content, c)) /\ UNCHANGED <<scopes, base>>
      /\ c.op = "reorder" => c.to < Len(content)
  BY DEF Edit, InScope
<1>3. Recorded(content, c) \in Item
  <2>1. content \in Docs /\ c \in InListChanges(content, Values)
    BY <1>1, <1>2 DEF ReversalTypes, InListChanges
  <2> QED  BY <2>1, RecordedTakesBack DEF Item
<1>4. OpenCount \in Nat \ {0} /\ OpenCount' = OpenCount
  BY <1>1, <1>2, InnermostScope DEF OpenCount
<1>5. redo' = <<>> /\ redo = <<>> /\ Front(undo') = Front(undo)
  BY <1>1, <1>2, <1>3, <1>4, AddedToUndo DEF Resting, RedoAfterAdding
<1>6. Past = Contents(Front(undo)) /\ Future = Contents(Reverse(redo))
  BY <1>1, <1>2, <1>4 DEF HistoryIs
<1>7. Past' = Contents(Front(undo')) /\ Future' = Contents(Reverse(redo'))
  BY <1>1, <1>2, <1>4 DEF HistoryIs
<1> QED
  BY <1>2, <1>5, <1>6, <1>7 DEF HistoryKept

\* The end of the outermost group completes an operation, unless it is empty.
LEMMA EndGroupHistory ==
    ASSUME ReversalInv, ReversalInv', EndGroup
    PROVE  HistoryKept \/ History!Commit
<1>1. HistoryIs /\ HistoryIs' /\ ReversalTypes /\ Resting /\ Resting'
  BY HistoryState, HistoryPrimed DEF ReversalInv, EndGroup, InScope
<1>2. /\ running = "none" /\ running' = "none" /\ scopes # <<>> /\ Last(scopes) = "group"
      /\ undo' = Ended(undo) /\ redo' = redo /\ scopes' = Front(scopes)
      /\ base' = IF TopIsOpen(undo') THEN base ELSE content
  BY DEF EndGroup, InScope
<1>3. /\ undo \in Seq(Group) /\ undo' \in Seq(Group) /\ Built(undo, OpenCount, base, content)
  BY <1>1, ReversalInv' DEF ReversalTypes, Resting, ReversalInv
<1>4. OpenCount \in Nat \ {0} /\ OpenCount' = OpenCount - 1
  BY <1>1, <1>2, InnermostScope DEF OpenCount
<1>5. redo = <<>> /\ redo' = <<>>
  BY <1>1, <1>2, <1>4 DEF Resting
<1>6. Built(undo', OpenCount', base', content')
  BY <1>1 DEF Resting
<1>7. Past = Contents(Front(undo)) /\ Future = <<>> /\ Future' = <<>>
  BY <1>1, <1>2, <1>4, <1>5, ContentsNone DEF HistoryIs
<1>8. Past' = Contents(IF OpenCount - 1 > 0 THEN Front(undo') ELSE undo')
  BY <1>1, <1>2, <1>4 DEF HistoryIs
<1>9. undo # <<>> /\ undo[Len(undo)].before = base
  BY <1>3, <1>4 DEF Built, Filling
<1>10. OpenCount - 1 \in Nat /\ (TopIsOpen(undo') <=> OpenCount - 1 > 0)
  BY <1>3, <1>4, <1>6, BuiltTop
<1>11. End \in Item
  BY DEF Item
<1>12. CASE OpenCount >= 2
  <2>1. undo' = TopAppended(undo, End)
    BY <1>2, <1>3, <1>4, <1>12, InnerEnds
  <2>2. Front(undo') = Front(undo)
    BY <1>3, <1>9, <1>11, <2>1, ContentsAppended
  <2>3. OpenCount - 1 > 0
    BY <1>4, <1>12
  <2> QED  BY <1>2, <1>7, <1>8, <1>10, <2>2, <2>3 DEF HistoryKept
<1>13. CASE OpenCount = 1 /\ Last(undo).items = <<Begin>>
  <2>1. undo' = Front(undo) /\ base = content /\ ~(OpenCount - 1 > 0)
    BY <1>2, <1>3, <1>4, <1>13, EmptyGroup DEF Ended
  <2> QED  BY <1>2, <1>7, <1>8, <1>10, <2>1 DEF HistoryKept
<1>14. CASE OpenCount = 1 /\ Last(undo).items # <<Begin>>
  <2>1. undo' = TopAppended(undo, End) /\ ~(OpenCount - 1 > 0)
    BY <1>2, <1>14 DEF Ended
  <2>2. Contents(undo') = Contents(undo)
    BY <1>3, <1>9, <1>11, <2>1, ContentsAppended
  <2>3. Contents(undo) = Append(Contents(Front(undo)), base)
    BY <1>3, <1>9, ContentsLast
  <2>4. Past' = Append(Past, base)
    BY <1>7, <1>8, <2>1, <2>2, <2>3
  <2> QED  BY <1>7, <2>4 DEF History!Commit, Past, Future
<1> QED
  BY <1>4, <1>12, <1>13, <1>14

LEMMA CancelEmptyHistory ==
    ASSUME ReversalInv, ReversalInv', CancelEmpty
    PROVE  HistoryKept
<1>1. HistoryIs /\ HistoryIs' /\ ReversalTypes /\ Resting
  BY HistoryState, HistoryPrimed DEF ReversalInv, CancelEmpty, InScope
<1>2. /\ running = "none" /\ running' = "none" /\ scopes # <<>> /\ Last(scopes) = "group"
      /\ undo' = Ended(undo) /\ redo' = redo /\ scopes' = Front(scopes) /\ base' = base
      /\ Last(undo).items = <<Begin>>
  BY DEF CancelEmpty, InScope
<1>3. undo \in Seq(Group) /\ Built(undo, OpenCount, base, content)
  BY <1>1 DEF ReversalTypes, Resting
<1>4. OpenCount \in Nat \ {0} /\ OpenCount' = OpenCount - 1
  BY <1>1, <1>2, InnermostScope DEF OpenCount
<1>5. OpenCount = 1 /\ undo' = Front(undo)
  BY <1>2, <1>3, <1>4, EmptyGroup DEF Ended
<1>6. Past = Contents(Front(undo)) /\ Future = Contents(Reverse(redo))
  BY <1>1, <1>2, <1>5 DEF HistoryIs
<1>7. Past' = Contents(undo') /\ Future' = Contents(Reverse(redo'))
  <2>1. ~(OpenCount' > 0)
    BY <1>4, <1>5
  <2> QED  BY <1>1, <1>2, <2>1 DEF HistoryIs
<1> QED
  BY <1>2, <1>5, <1>6, <1>7 DEF HistoryKept

LEMMA CancelGroupHistory ==
    ASSUME ReversalInv, ReversalInv', CancelGroup
    PROVE  HistoryKept
<1>1. HistoryIs /\ HistoryIs' /\ ReversalTypes /\ Resting
  BY HistoryState, HistoryPrimed DEF ReversalInv, CancelGroup, InScope
<1>2. /\ running = "none" /\ running' = "cancel" /\ scopes # <<>> /\ Last(scopes) = "group"
      /\ undo' = Ended(undo) /\ redo' = redo /\ base' = base
      /\ Last(undo).items # <<Begin>>
  BY DEF CancelGroup, InScope
<1>3. undo \in Seq(Group) /\ Built(undo, OpenCount, base, content)
  BY <1>1 DEF ReversalTypes, Resting
<1>4. OpenCount \in Nat \ {0}
  BY <1>1, <1>2, InnermostScope DEF OpenCount
<1>5. undo # <<>> /\ undo' = TopAppended(undo, End) /\ End \in Item
  BY <1>2, <1>3, <1>4, BuiltTop DEF Ended, Item
<1>6. Front(undo') = Front(undo)
  BY <1>3, <1>5, ContentsAppended
<1>7. Past = Contents(Front(undo)) /\ Future = Contents(Reverse(redo))
  BY <1>1, <1>2, <1>4 DEF HistoryIs
<1>8. Past' = Contents(Front(undo')) /\ Future' = Contents(Reverse(redo'))
  BY <1>1, <1>2 DEF HistoryIs
<1> QED
  BY <1>2, <1>6, <1>7, <1>8 DEF HistoryKept

LEMMA DisabledHistory ==
    ASSUME ReversalInv, ReversalInv', Disable \/ Enable
    PROVE  HistoryKept
<1>1. HistoryIs /\ HistoryIs' /\ ReversalTypes
  BY HistoryState, HistoryPrimed DEF ReversalInv
<1>2. running = "none" /\ running' = "none" /\ UNCHANGED <<undo, redo, base>>
  BY DEF Disable, Enable, InScope, stacks
<1>3. OpenCount' = OpenCount
  <2>1. CASE Disable
    <3>1. scopes \in Seq(Scopes) /\ "disabled" \in Scopes /\ scopes' = Append(scopes, "disabled")
      BY <1>1, <2>1 DEF ReversalTypes, Scopes, Disable
    <3> QED  BY <3>1, CountAppend DEF OpenCount
  <2>2. CASE Enable
    <3>1. scopes # <<>> /\ Last(scopes) = "disabled" /\ scopes' = Front(scopes)
      BY <2>2 DEF Enable, InScope
    <3> QED  BY <1>1, <3>1, InnermostScope DEF OpenCount
  <2> QED  BY <2>1, <2>2
<1> QED
  BY <1>1, <1>2, <1>3 DEF HistoryIs, HistoryKept

LEMMA CommandHistory ==
    ASSUME ReversalInv, ReversalInv', Undo \/ Redo
    PROVE  HistoryKept
<1>1. HistoryIs /\ HistoryIs' /\ ReversalTypes /\ OpenCount = 0 /\ running = "none"
  BY HistoryState, HistoryPrimed, IdleRests DEF Undo, Redo
<1>2. UNCHANGED <<undo, redo, base>>
  BY DEF Undo, Redo, stacks
<1>3. undo \in Seq(Group) /\ redo \in Seq(Group)
  BY <1>1 DEF ReversalTypes
<1>4. Past = Contents(undo) /\ Future = Contents(Reverse(redo))
  BY <1>1 DEF HistoryIs
<1>5. ASSUME NEW s \in Seq(Group), s # <<>>
      PROVE  ~(Len(Program(Last(s).items)) < Len(Last(s).items))
  <2>1. Last(s).items \in Seq(Item)
    BY <1>5, StackTop
  <2> QED  BY <2>1, ProgramItems, LenProperties
<1>6. CASE Undo
  <2>1. undo # <<>> /\ running' = "undo" /\ todo' = Program(Last(undo).items)
    BY <1>6 DEF Undo
  <2>2. ~(Len(todo') < Len(Last(undo').items))
    BY <1>2, <1>3, <1>5, <2>1
  <2>3. Past' = Contents(undo') /\ Future' = Contents(Reverse(redo'))
    BY <1>1, <2>1, <2>2 DEF HistoryIs
  <2> QED  BY <1>2, <1>4, <2>3 DEF HistoryKept
<1>7. CASE Redo
  <2>1. redo # <<>> /\ running' = "redo" /\ todo' = Program(Last(redo).items)
    BY <1>7 DEF Redo
  <2>2. ~(Len(todo') < Len(Last(redo').items))
    BY <1>2, <1>3, <1>5, <2>1
  <2>3. Past' = Contents(undo') /\ Future' = Contents(Reverse(redo'))
    BY <1>1, <2>1, <2>2 DEF HistoryIs
  <2> QED  BY <1>2, <1>4, <2>3 DEF HistoryKept
<1> QED
  BY <1>6, <1>7

\* A cancel only changes the document.
LEMMA CancellingHistory ==
    ASSUME ReversalInv, ReversalInv', running = "cancel",
           UNCHANGED <<undo, redo, running, base>>
    PROVE  HistoryKept
<1>1. HistoryIs /\ HistoryIs'
  BY HistoryState, HistoryPrimed
<1> QED
  BY <1>1 DEF HistoryIs, HistoryKept

LEMMA UndoBeginsHistory ==
    ASSUME ReversalInv, ReversalInv', UndoBegins
    PROVE  HistoryKept \/ History!Forget
<1>1. /\ todo # <<>> /\ todo' = Tail(todo) /\ UNCHANGED <<running, base>>
      /\ IF Recording THEN AddUndo(Begin) ELSE UNCHANGED <<stacks, saveVars>>
  BY DEF UndoBegins
<1>2. running \in {"undo", "redo", "cancel"} /\ (running \in {"undo", "redo"} => Recording)
      /\ (running = "cancel" => ~Recording)
  BY <1>1, ReversalState
<1>3. Begin \in Item
  BY DEF Item
<1>4. CASE running = "cancel"
  BY <1>1, <1>2, <1>4, CancellingHistory DEF stacks
<1>5. CASE running \in {"undo", "redo"}
  BY <1>1, <1>2, <1>3, <1>5, RecordingHistory
<1> QED
  BY <1>2, <1>4, <1>5

LEMMA UndoesActionHistory ==
    ASSUME ReversalInv, ReversalInv', UndoesAction
    PROVE  HistoryKept \/ History!Forget
<1> DEFINE change == Reverting(content, Head(todo))
<1>1. /\ todo # <<>> /\ todo' = Tail(todo) /\ UNCHANGED <<running, base>>
      /\ Head(todo) \notin {Begin, End}
      /\ IF Recording THEN AddUndo(Recorded(content, change)) ELSE UNCHANGED <<stacks, saveVars>>
  BY DEF UndoesAction
<1>2. running \in {"undo", "redo", "cancel"} /\ (running \in {"undo", "redo"} => Recording)
      /\ (running = "cancel" => ~Recording)
  BY <1>1, ReversalState
<1>3. Recorded(content, change) \in Item
  <2>1. change \in InListChanges(content, Values) /\ content \in Docs
    BY <1>1, NextChange DEF ReversalInv, ReversalTypes
  <2> QED  BY <2>1, RecordedTakesBack DEF Item
<1> HIDE DEF change
<1>4. CASE running = "cancel"
  BY <1>1, <1>2, <1>4, CancellingHistory DEF stacks
<1>5. CASE running \in {"undo", "redo"}
  BY <1>1, <1>2, <1>3, <1>5, RecordingHistory
<1> QED
  BY <1>2, <1>4, <1>5

LEMMA EndsInner ==
    ASSUME NEW from \in Seq(Group), NEW to \in Seq(Group), NEW left \in Seq(Item),
           NEW x, NEW y, Reversing(from, to, left, x, y), Len(left) >= 2, Head(left) = End
    PROVE  /\ Len(left) < Len(Last(from).items)
           /\ Len(Tail(left)) < Len(Last(from).items)
           /\ Front(Ended(to)) = Front(to)
<1> DEFINE src == from[Len(from)].items
           n == Len(left)
<1>1. /\ from # <<>> /\ n \in 1 .. Len(src)
      /\ n < Len(src) => to # <<>>
  BY DEF Reversing
<1>2. /\ Head(left) = Flip(src[n]) /\ src[n] \in Item /\ Len(Tail(left)) = n - 1
      /\ Len(src) \in Nat
  BY ReversingHead
<1>3. n = Len(src) => src[n] = End
  BY ReversingDepth
<1>4. Ended(to) = TopAppended(to, End)
  BY ReversingEndsInner
<1>5. Last(from).items = src
  BY <1>1, StackTop
<1> HIDE DEF src, n
<1>6. src[n] # End
  BY <1>2, FlipItem, EndsAreNoActs DEF n
<1>7. n < Len(src) /\ n - 1 < Len(src)
  BY <1>1, <1>2, <1>3, <1>6
<1>8. Front(Ended(to)) = Front(to)
  BY <1>1, <1>4, <1>7, ContentsAppended DEF Item
<1> QED
  BY <1>2, <1>5, <1>7, <1>8 DEF n

LEMMA UndoEndsInnerHistory ==
    ASSUME ReversalInv, ReversalInv', UndoEndsInner
    PROVE  HistoryKept
<1>1. /\ Len(todo) > 1 /\ Head(todo) = End
      /\ IF ~Recording THEN UNCHANGED stacks
         ELSE IF running = "undo" THEN redo' = Ended(redo) /\ UNCHANGED undo
                                  ELSE undo' = Ended(undo) /\ UNCHANGED redo
      /\ todo' = Tail(todo) /\ UNCHANGED <<running, base>>
  BY DEF UndoEndsInner
<1>2. /\ running \in {"undo", "redo", "cancel"}
      /\ running = "undo" => Recording /\ Reversing(undo, redo, todo, base, content)
      /\ running = "redo" => Recording /\ Reversing(redo, undo, todo, base, content)
      /\ running = "cancel" => ~Recording
  <2>1. todo # <<>>
    BY <1>1
  <2> QED  BY <2>1, ReversalState
<1>3. /\ undo \in Seq(Group) /\ redo \in Seq(Group) /\ todo \in Seq(Item) /\ Len(todo) >= 2
  <2>1. undo \in Seq(Group) /\ redo \in Seq(Group) /\ todo \in Seq(Item)
    BY DEF ReversalInv, ReversalTypes
  <2>2. Len(todo) \in Nat
    BY <2>1, LenProperties
  <2> QED  BY <1>1, <2>1, <2>2
<1>4. HistoryIs /\ HistoryIs'
  BY HistoryState, HistoryPrimed
<1>5. CASE running = "undo"
  <2>1. redo' = Ended(redo) /\ undo' = undo
    BY <1>1, <1>2, <1>5
  <2>2. /\ Len(todo) < Len(Last(undo).items) /\ Len(todo') < Len(Last(undo).items)
        /\ Front(redo') = Front(redo)
    BY <1>1, <1>2, <1>3, <1>5, <2>1, EndsInner
  <2> QED  BY <1>1, <1>4, <1>5, <2>1, <2>2 DEF HistoryIs, HistoryKept
<1>6. CASE running = "redo"
  <2>1. undo' = Ended(undo) /\ redo' = redo
    BY <1>1, <1>2, <1>6
  <2>2. /\ Len(todo) < Len(Last(redo).items) /\ Len(todo') < Len(Last(redo).items)
        /\ Front(undo') = Front(undo)
    BY <1>1, <1>2, <1>3, <1>6, <2>1, EndsInner
  <2> QED  BY <1>1, <1>4, <1>6, <2>1, <2>2 DEF HistoryIs, HistoryKept
<1>7. CASE running = "cancel"
  BY <1>1, <1>2, <1>7, CancellingHistory DEF stacks
<1> QED
  BY <1>2, <1>5, <1>6, <1>7

\* What is undone goes from one stack to the other.
LEMMA ReversingMoves ==
    ASSUME NEW from \in Seq(Group), NEW to \in Seq(Group), NEW left \in Seq(Item),
           NEW x, NEW y, Reversing(from, to, left, x, y), left = <<End>>
    PROVE  /\ Len(left) < Len(Last(from).items)
           /\ from # <<>> /\ from[Len(from)].before = y
           /\ Ended(to) \in Seq(Group) /\ Ended(to) # <<>>
           /\ Front(Ended(to)) = Front(to)
           /\ Contents(Ended(to)) = Contents(to)
           /\ Ended(to)[Len(Ended(to))].before = x
<1> DEFINE src == from[Len(from)].items
           n == Len(left)
<1>1. n = 1
  OBVIOUS
<1>2. from # <<>> /\ Built(to, DepthAt(src, n), x, y)
  BY DEF Reversing
<1>3. DepthAt(src, n) = 1 /\ n < Len(src)
  BY <1>1, ReversingDepth
<1>4. /\ Last(from).items = src /\ Last(from) = from[Len(from)]
      /\ y = Last(from).before
      /\ Ended(to) \in Seq(Group) /\ Ended(to) = TopAppended(to, End)
  BY <1>2, StackTop, ReversingEnds
<1> HIDE DEF src, n
<1>5. to # <<>> /\ to[Len(to)].before = x
  BY <1>2, <1>3 DEF Built, Filling
<1>6. End \in Item
  BY DEF Item
<1>7. /\ Ended(to) # <<>> /\ Len(Ended(to)) = Len(to)
      /\ Ended(to)[Len(to)].before = to[Len(to)].before
  BY <1>4, <1>5, <1>6, TopGrows
<1>8. Front(Ended(to)) = Front(to) /\ Contents(Ended(to)) = Contents(to)
  BY <1>4, <1>5, <1>6, ContentsAppended
<1> QED
  BY <1>2, <1>3, <1>4, <1>5, <1>7, <1>8 DEF n

LEMMA UndoReturnsHistory ==
    ASSUME ReversalInv, ReversalInv', UndoReturns
    PROVE  History!Undo
<1>1. /\ running = "undo" /\ running' = "none" /\ todo = <<End>> /\ base' = content
      /\ redo' = Ended(redo) /\ undo' = Front(undo) /\ scopes' = scopes
  BY DEF UndoReturns, Completes
<1>2. /\ HistoryIs /\ HistoryIs' /\ ReversalTypes /\ scopes = <<>>
      /\ Reversing(undo, redo, todo, base, content)
  BY <1>1, HistoryState, HistoryPrimed DEF ReversalInv
<1>3. undo \in Seq(Group) /\ redo \in Seq(Group) /\ todo \in Seq(Item)
  BY <1>2 DEF ReversalTypes
<1>4. /\ Len(todo) < Len(Last(undo).items) /\ undo # <<>>
      /\ undo[Len(undo)].before = content
      /\ redo' \in Seq(Group) /\ redo' # <<>> /\ Front(redo') = Front(redo)
      /\ redo'[Len(redo')].before = base
  BY <1>1, <1>2, <1>3, ReversingMoves
<1>5. Past = Contents(undo) /\ Future = Contents(Reverse(Front(redo)))
  BY <1>1, <1>2, <1>4 DEF HistoryIs
<1>6. Past' = Contents(Front(undo)) /\ Future' = Contents(Reverse(redo'))
  <2>1. OpenCount' = 0
    BY <1>1, <1>2, NoScopes DEF OpenCount
  <2> QED  BY <1>1, <1>2, <2>1 DEF HistoryIs
<1>7. Past = Append(Past', base')
  BY <1>1, <1>3, <1>4, <1>5, <1>6, ContentsLast
<1>8. Future' = <<base>> \o Future
  BY <1>4, <1>5, <1>6, ContentsFirst
<1>9. Past # <<>>
  <2>1. Len(Past) = Len(undo)
    BY <1>3, <1>5, ContentsItems
  <2>2. Len(undo) # 0
    BY <1>3, <1>4, EmptySeq
  <2> QED  BY <2>1, <2>2
<1> QED
  BY <1>7, <1>8, <1>9 DEF History!Undo, Past, Future

LEMMA RedoReturnsHistory ==
    ASSUME ReversalInv, ReversalInv', RedoReturns
    PROVE  History!Redo
<1>1. /\ running = "redo" /\ running' = "none" /\ todo = <<End>> /\ base' = content
      /\ undo' = Ended(undo) /\ redo' = Front(redo) /\ scopes' = scopes
  BY DEF RedoReturns, Completes
<1>2. /\ HistoryIs /\ HistoryIs' /\ ReversalTypes /\ scopes = <<>>
      /\ Reversing(redo, undo, todo, base, content)
  BY <1>1, HistoryState, HistoryPrimed DEF ReversalInv
<1>3. undo \in Seq(Group) /\ redo \in Seq(Group) /\ todo \in Seq(Item)
  BY <1>2 DEF ReversalTypes
<1>4. /\ Len(todo) < Len(Last(redo).items) /\ redo # <<>>
      /\ redo[Len(redo)].before = content
      /\ undo' \in Seq(Group) /\ undo' # <<>> /\ Front(undo') = Front(undo)
      /\ undo'[Len(undo')].before = base
  BY <1>1, <1>2, <1>3, ReversingMoves
<1>5. Past = Contents(Front(undo)) /\ Future = Contents(Reverse(redo))
  BY <1>1, <1>2, <1>4 DEF HistoryIs
<1>6. Past' = Contents(undo') /\ Future' = Contents(Reverse(Front(redo)))
  <2>1. OpenCount' = 0
    BY <1>1, <1>2, NoScopes DEF OpenCount
  <2> QED  BY <1>1, <1>2, <2>1 DEF HistoryIs
<1>7. Past' = Append(Past, base)
  BY <1>4, <1>5, <1>6, ContentsLast
<1>8. Future = <<base'>> \o Future'
  BY <1>1, <1>3, <1>4, <1>5, <1>6, ContentsFirst
<1>9. Future # <<>>
  <2>1. Reverse(redo) \in Seq(Group) /\ Len(Reverse(redo)) = Len(redo)
    BY <1>3, ReverseItems
  <2>2. Len(Future) = Len(redo)
    BY <1>5, <2>1, ContentsItems
  <2>3. Len(redo) # 0
    BY <1>3, <1>4, EmptySeq
  <2> QED  BY <2>2, <2>3
<1> QED
  BY <1>7, <1>8, <1>9 DEF History!Redo, Past, Future

\* The cancelled group goes without having been part of the history.
LEMMA CancelReturnsHistory ==
    ASSUME ReversalInv, ReversalInv', CancelReturns
    PROVE  HistoryKept
<1> DEFINE items == undo[Len(undo)].items
           start == LastGroup(items)
<1>1. /\ running = "cancel" /\ running' = "none"
      /\ undo' = Shrunk(undo, LastGroup(Last(undo).items))
      /\ redo' = redo /\ base' = base /\ scopes' = Front(scopes)
  BY DEF CancelReturns
<1>2. /\ HistoryIs /\ HistoryIs' /\ ReversalTypes
      /\ scopes # <<>> /\ Last(scopes) = "group"
      /\ Cancelling(undo, todo, OpenCount, base, content)
  BY <1>1, HistoryState, HistoryPrimed DEF ReversalInv, InCancel
<1>3. undo \in Seq(Group) /\ todo \in Seq(Item)
  BY <1>2 DEF ReversalTypes
<1>4. OpenCount \in Nat \ {0} /\ OpenCount' = OpenCount - 1
  BY <1>1, <1>2, InnermostScope DEF OpenCount
<1>5. /\ undo # <<>> /\ Open(items, Len(items) - 1, OpenCount)
  BY <1>2 DEF Cancelling
<1>6. /\ Last(undo) = undo[Len(undo)] /\ items \in Seq(Item)
      /\ start \in 1 .. Len(items) - 1 /\ Len(items) \in Nat
      /\ BeginsAt(items, Len(items) - 1, start, OpenCount)
  BY <1>2, <1>3, CancellingHead
<1>7. undo' = Shrunk(undo, start)
  BY <1>1, <1>6
<1> HIDE DEF start, items
<1>8. start = 1 <=> OpenCount = 1
  <2> DEFINE e == Len(items) - 1
  <2>1. start \in 1 .. e /\ Open(items, e, OpenCount) /\ BeginsAt(items, e, start, OpenCount)
    BY <1>5, <1>6
  <2> HIDE DEF e
  <2> QED  BY <2>1, OpenBefore
<1>9. Past = Contents(Front(undo)) /\ Future = Contents(Reverse(redo))
  BY <1>1, <1>2 DEF HistoryIs
<1>10. /\ Past' = Contents(IF OpenCount - 1 > 0 THEN Front(undo') ELSE undo')
       /\ Future' = Contents(Reverse(redo'))
  BY <1>1, <1>2, <1>4 DEF HistoryIs
<1>11. CASE OpenCount = 1
  <2>1. undo' = Front(undo) /\ ~(OpenCount - 1 > 0)
    BY <1>7, <1>8, <1>11 DEF Shrunk
  <2> QED  BY <1>1, <1>9, <1>10, <2>1 DEF HistoryKept
<1>12. CASE OpenCount # 1
  <2> DEFINE p == SubSeq(items, 1, start - 1)
  <2>1. undo' = TopWith(undo, p) /\ OpenCount - 1 > 0
    BY <1>4, <1>6, <1>7, <1>8, <1>12 DEF Shrunk, items
  <2>2. p \in Seq(Item)
    <3> DEFINE e == start - 1
    <3>1. 1 \in Int /\ e \in Int /\ \A i \in 1 .. e : i \in 1 .. Len(items)
      BY <1>6
    <3> HIDE DEF e
    <3>2. \A i \in 1 .. e : items[i] \in Item
      BY <1>6, <3>1, ElementOfSeq
    <3>3. SubSeq(items, 1, e) \in Seq(Item)
      BY <3>1, <3>2, SubSeqProperties
    <3> QED  BY <3>3 DEF e
  <2> HIDE DEF p
  <2>3. Front(undo') = Front(undo)
    BY <1>3, <1>5, <2>1, <2>2, ContentsTopWith
  <2> QED  BY <1>1, <1>9, <1>10, <2>1, <2>3 DEF HistoryKept
<1> QED
  BY <1>11, <1>12

LEMMA SetLimitHistory ==
    ASSUME ReversalInv, ReversalInv', NEW n \in Limits, SetLimit(n)
    PROVE  History!Forget
<1>1. HistoryIs /\ HistoryIs' /\ ReversalTypes /\ OpenCount = 0 /\ running = "none"
  BY HistoryState, HistoryPrimed, IdleRests DEF SetLimit
<1>2. /\ n \in Nat /\ undo' = Trimmed(undo, n)
      /\ UNCHANGED <<redo, running, scopes, base>>
  BY UndoAssumption DEF SetLimit
<1>3. undo \in Seq(Group)
  BY <1>1 DEF ReversalTypes
<1>4. Past = Contents(undo) /\ Future = Contents(Reverse(redo))
  BY <1>1 DEF HistoryIs
<1>5. Past' = Contents(undo') /\ Future' = Contents(Reverse(redo'))
  <2>1. OpenCount' = 0
    BY <1>1, <1>2 DEF OpenCount
  <2> QED  BY <1>1, <1>2, <2>1 DEF HistoryIs
<1>6. Forgets(Past, Past')
  BY <1>2, <1>3, <1>4, <1>5, TrimmedForgets
<1> QED
  BY <1>2, <1>4, <1>5, <1>6 DEF History!Forget, Forgets, Past, Future

LEMMA CloseDocumentHistory ==
    ASSUME ReversalInv, ReversalInv', CloseDocument
    PROVE  History!Close
<1>1. HistoryIs' /\ OpenCount = 0 /\ running = "none"
  BY HistoryPrimed, IdleRests DEF CloseDocument
<1>2. /\ undo' = <<>> /\ redo' = <<>> /\ base' = <<>> /\ UNCHANGED <<running, scopes>>
  BY DEF CloseDocument
<1>3. OpenCount' = 0
  BY <1>1, <1>2 DEF OpenCount
<1>4. Past' = <<>> /\ Future' = <<>>
  BY <1>1, <1>2, <1>3, ContentsNone DEF HistoryIs
<1> QED
  BY <1>2, <1>4 DEF History!Close, Past, Future

LEMMA SameHistory ==
    ASSUME UNCHANGED <<undo, redo, running, scopes, base>>
    PROVE  HistoryKept
  BY DEF HistoryKept, Past, Future, CompletedUndo, CompletedRedo

LEMMA HistoryInit == Init => History!Init
<1> SUFFICES ASSUME Init PROVE History!Init
  OBVIOUS
<1>1. HistoryIs
  BY ReversalInit, HistoryState
<1>2. OpenCount = 0
  BY NoScopes DEF Init, OpenCount
<1>3. Past = <<>> /\ Future = <<>>
  BY <1>1, <1>2, ContentsNone DEF HistoryIs, Init
<1> QED
  BY <1>3 DEF Init, History!Init, Past, Future

LEMMA HistoryStep ==
    ASSUME ReversalInv, ReversalInv', ~AnyReorder, [Next]_vars
    PROVE  [History!Next]_History!vars
<1>0. SUFFICES HistoryKept \/ History!Next
  BY DEF HistoryKept, History!vars, Past, Future
<1>1. CASE OpenGroup
  BY <1>1, OpenGroupHistory DEF History!Next
<1>2. CASE EndGroup
  BY <1>2, EndGroupHistory DEF History!Next
<1>3. CASE CancelEmpty
  BY <1>3, CancelEmptyHistory
<1>4. CASE CancelGroup
  BY <1>4, CancelGroupHistory
<1>5. CASE \E c \in Changes(content, Values) : Edit(c)
  BY <1>5, EditHistoryKept
<1>6. CASE Disable \/ Enable
  BY <1>6, DisabledHistory
<1>7. CASE Undo \/ Redo
  BY <1>7, CommandHistory
<1>8. CASE UndoBegins
  BY <1>8, UndoBeginsHistory DEF History!Next
<1>9. CASE UndoesAction
  BY <1>9, UndoesActionHistory DEF History!Next
<1>10. CASE UndoEndsInner
  BY <1>10, UndoEndsInnerHistory
<1>11. CASE UndoReturns
  BY <1>11, UndoReturnsHistory DEF History!Next
<1>12. CASE RedoReturns
  BY <1>12, RedoReturnsHistory DEF History!Next
<1>13. CASE CancelReturns
  BY <1>13, CancelReturnsHistory
<1>14. CASE \E n \in Limits : SetLimit(n)
  BY <1>14, SetLimitHistory DEF History!Next
<1>15. CASE Save
  BY <1>15, SameHistory DEF Save, stacks
<1>16. CASE CloseDocument
  BY <1>16, CloseDocumentHistory DEF History!Next
<1>17. CASE UNCHANGED vars
  BY <1>17, SameHistory DEF vars, stacks
<1> QED
  BY <1>1, <1>2, <1>3, <1>4, <1>5, <1>6, <1>7, <1>8, <1>9, <1>10, <1>11, <1>12, <1>13,
     <1>14, <1>15, <1>16, <1>17 DEF Next

\* The undo manager implements the edit history, over any sequence of edits,
\* nested groups, cancels, disabled sections and trims: a completed group is one
\* step forward, undo() and redo() move by one, a cancelled group leaves no
\* trace, and contents are forgotten at the far ends only.  As above, lists are
\* not reordered to positions past their last item.
THEOREM EditHistoryImplemented ==
    ASSUME ~AnyReorder
    PROVE  Spec => ImplementsEditHistory
<1>1. Init => ReversalInv /\ History!Init
  BY ReversalInit, HistoryInit
<1>2. ReversalInv /\ [Next]_vars => ReversalInv'
  BY ReversalStep
<1>3. ReversalInv /\ ReversalInv' /\ [Next]_vars => [History!Next]_History!vars
  BY HistoryStep
<1> QED
  BY <1>1, <1>2, <1>3, PTL DEF Spec, ImplementsEditHistory, History!Spec

-----------------------------------------------------------------------------
(* The save point: the invariant *)

\* If the group at address p is on the stack s, what it led to was saved: the
\* content before the next group or, behind the last one, b.
Remembered(s, b, p, sv) ==
    /\ \A i, j \in 1 .. Len(s) : s[i].address = s[j].address => i = j
    /\ \A i \in 1 .. Len(s) : s[i].address = p =>
          /\ i = Len(s) => b = sv
          /\ i # Len(s) => s[i + 1].before = sv

\* What undoing everything leads to was saved.
BottomIs(s, b, sv) == sv = IF s = <<>> THEN b ELSE s[1].before

SaveInv ==
    /\ Remembered(undo, base, savePoint, saved)
    /\ savePoint = Null /\ ~trimmed => BottomIs(undo, base, saved)
    /\ TopIsOpen(undo) \/ running = "cancel" =>
          undo # <<>> /\ undo[Len(undo)].address # savePoint

\* The top group gets other items: nothing was saved since it was begun.
LEMMA SavedTop ==
    ASSUME NEW s \in Seq(Group), s # <<>>, NEW items \in Seq(Item), NEW b, NEW p, NEW sv,
           Remembered(s, b, p, sv), s[Len(s)].address # p, NEW c
    PROVE  LET t == TopWith(s, items)
           IN  /\ Remembered(t, c, p, sv)
               /\ BottomIs(s, b, sv) => BottomIs(t, c, sv)
               /\ t # <<>> /\ t[Len(t)].address # p
<1> DEFINE t == TopWith(s, items)
           m == Len(s)
<1>1. /\ t # <<>> /\ Len(t) = m
      /\ \A i \in 1 .. m - 1 : t[i] = s[i]
      /\ t[m].before = s[m].before /\ t[m].address = s[m].address
  BY TopWithItems
<1>2. m \in Nat \ {0}
  BY StackTop
<1>3. /\ \A i, j \in 1 .. m : s[i].address = s[j].address => i = j
      /\ \A i \in 1 .. m : s[i].address = p => i # m /\ s[i + 1].before = sv
  BY DEF Remembered
<1> HIDE DEF t, m
<1>4. \A i \in 1 .. m : t[i].address = s[i].address /\ t[i].before = s[i].before
  <2>1. \A i \in 1 .. m : i = m \/ i \in 1 .. m - 1
    BY <1>2
  <2> QED  BY <1>1, <2>1
<1>5. \A i \in 1 .. m : i # m => i + 1 \in 1 .. m
  BY <1>2
<1>6. Remembered(t, c, p, sv)
  <2>1. ASSUME NEW i \in 1 .. m, t[i].address = p
        PROVE  i # m /\ t[i + 1].before = sv
    <3>1. i # m /\ s[i + 1].before = sv
      BY <1>3, <1>4, <2>1
    <3> QED  BY <1>4, <1>5, <3>1
  <2>2. ASSUME NEW i \in 1 .. m, NEW j \in 1 .. m, t[i].address = t[j].address
        PROVE  i = j
    BY <1>3, <1>4, <2>2
  <2> QED  BY <1>1, <2>1, <2>2 DEF Remembered
<1>7. BottomIs(s, b, sv) => BottomIs(t, c, sv)
  <2>1. 1 \in 1 .. m
    BY <1>2
  <2> QED  BY <1>1, <1>4, <2>1 DEF BottomIs
<1> QED
  BY <1>1, <1>6, <1>7 DEF t, m

LEMMA SavedAppended ==
    ASSUME NEW s \in Seq(Group), s # <<>>, NEW item \in Item, NEW b, NEW p, NEW sv,
           Remembered(s, b, p, sv), s[Len(s)].address # p, NEW c
    PROVE  LET t == TopAppended(s, item)
           IN  /\ Remembered(t, c, p, sv)
               /\ BottomIs(s, b, sv) => BottomIs(t, c, sv)
               /\ t # <<>> /\ t[Len(t)].address # p
<1>1. Append(Last(s).items, item) \in Seq(Item)
  BY StackTop, AppendProperties
<1> QED
  BY <1>1, SavedTop DEF TopAppended

\* The top group goes, and the content is what it was before it.
LEMMA SavedPopped ==
    ASSUME NEW s \in Seq(Group), s # <<>>, NEW b, NEW p, NEW sv, Remembered(s, b, p, sv)
    PROVE  /\ Remembered(Front(s), s[Len(s)].before, p, sv)
           /\ BottomIs(s, b, sv) => BottomIs(Front(s), s[Len(s)].before, sv)
<1> DEFINE t == Front(s)
           m == Len(s)
           c == s[m].before
<1>1. /\ t \in Seq(Group) /\ Len(t) = m - 1
      /\ \A i \in 1 .. m - 1 : t[i] = s[i]
  BY FrontItems
<1>2. m \in Nat \ {0}
  BY StackTop
<1>3. /\ \A i, j \in 1 .. m : s[i].address = s[j].address => i = j
      /\ \A i \in 1 .. m : s[i].address = p => (i # m => s[i + 1].before = sv)
  BY DEF Remembered
<1> HIDE DEF t, m
<1>4. ASSUME NEW i \in 1 .. m - 1
      PROVE  /\ i \in 1 .. m /\ i # m
             /\ i = m - 1 => i + 1 = m
             /\ i # m - 1 => i + 1 \in 1 .. m - 1
  BY <1>2
<1>5. Remembered(t, c, p, sv)
  <2>1. ASSUME NEW i \in 1 .. m - 1, t[i].address = p
        PROVE  /\ i = m - 1 => c = sv
               /\ i # m - 1 => t[i + 1].before = sv
    <3>1. s[i + 1].before = sv
      BY <1>1, <1>3, <1>4, <2>1
    <3> QED  BY <1>1, <1>4, <3>1
  <2>2. ASSUME NEW i \in 1 .. m - 1, NEW j \in 1 .. m - 1, t[i].address = t[j].address
        PROVE  i = j
    BY <1>1, <1>3, <1>4, <2>2
  <2> HIDE DEF c
  <2> QED  BY <1>1, <2>1, <2>2 DEF Remembered
<1>6. BottomIs(s, b, sv) => BottomIs(t, c, sv)
  <2>1. CASE m = 1
    <3>1. t = <<>>
      BY <1>1, <2>1, EmptySeq
    <3> QED  BY <2>1, <3>1 DEF BottomIs
  <2>2. CASE m # 1
    <3>1. 1 \in 1 .. m - 1 /\ m - 1 # 0
      BY <1>2, <2>2
    <3>2. t # <<>>
      BY <1>1, <3>1, EmptySeq
    <3> QED  BY <1>1, <3>1, <3>2 DEF BottomIs
  <2> QED  BY <2>1, <2>2
<1> QED
  BY <1>5, <1>6 DEF t, m

\* A group is begun, at an address that is not in use.
LEMMA SavedPushed ==
    ASSUME NEW s \in Seq(Group), NEW b, NEW p, NEW sv, Remembered(s, b, p, sv),
           NEW g \in Group, g.address \notin AddressesOf(s), g.address # p, g.before = b
    PROVE  LET t == s \o <<g>>
           IN  /\ Remembered(t, b, p, sv)
               /\ BottomIs(s, b, sv) => BottomIs(t, b, sv)
<1> DEFINE t == s \o <<g>>
           m == Len(s)
<1>1. /\ t # <<>> /\ Len(t) = m + 1
      /\ \A i \in 1 .. m : t[i] = s[i]
      /\ t[m + 1] = g
  BY PushedItems
<1>2. m \in Nat /\ \A i \in 1 .. m : s[i].address # g.address
  <2>1. m \in Nat /\ DOMAIN s = 1 .. m
    BY LenProperties
  <2> QED  BY <2>1 DEF AddressesOf
<1>3. /\ \A i, j \in 1 .. m : s[i].address = s[j].address => i = j
      /\ \A i \in 1 .. m : s[i].address = p =>
            (i = m => b = sv) /\ (i # m => s[i + 1].before = sv)
  BY DEF Remembered
<1> HIDE DEF t, m
<1>4. \A i \in 1 .. m + 1 : i \in 1 .. m \/ i = m + 1
  BY <1>2
<1>5. \A i \in 1 .. m : i # m + 1 /\ (i # m => i + 1 \in 1 .. m)
  BY <1>2
<1>6. Remembered(t, b, p, sv)
  <2>1. ASSUME NEW i \in 1 .. m + 1, t[i].address = p
        PROVE  /\ i = m + 1 => b = sv
               /\ i # m + 1 => t[i + 1].before = sv
    <3>1. i \in 1 .. m /\ s[i].address = p
      BY <1>1, <1>4, <2>1
    <3>2. CASE i = m
      BY <1>1, <1>3, <1>5, <3>1, <3>2
    <3>3. CASE i # m
      BY <1>1, <1>3, <1>5, <3>1, <3>3
    <3> QED  BY <3>2, <3>3
  <2>2. ASSUME NEW i \in 1 .. m + 1, NEW j \in 1 .. m + 1, t[i].address = t[j].address
        PROVE  i = j
    BY <1>1, <1>2, <1>3, <1>4, <2>2
  <2> QED  BY <1>1, <2>1, <2>2 DEF Remembered
<1>7. BottomIs(s, b, sv) => BottomIs(t, b, sv)
  <2>1. CASE s = <<>>
    <3>1. m = 0 /\ m + 1 = 1
      BY <2>1 DEF m
    <3> QED  BY <1>1, <2>1, <3>1 DEF BottomIs
  <2>2. CASE s # <<>>
    <3>1. m # 0
      BY <2>2, EmptySeq DEF m
    <3>2. 1 \in 1 .. m
      BY <1>2, <3>1
    <3> QED  BY <1>1, <2>2, <3>2 DEF BottomIs
  <2> QED  BY <2>1, <2>2
<1> QED
  BY <1>6, <1>7 DEF t

\* Groups are trimmed; if the bottom goes, that is noticed.
LEMMA SavedTrimmed ==
    ASSUME NEW s \in Seq(Group), NEW n \in Nat, NEW b, NEW p, NEW sv, Remembered(s, b, p, sv)
    PROVE  LET t == Trimmed(s, n)
           IN  /\ Remembered(t, b, p, sv)
               /\ AddressesOf(s) \ AddressesOf(t) = {} /\ BottomIs(s, b, sv)
                     => BottomIs(t, b, sv)
               /\ s # <<>> => t # <<>> /\ t[Len(t)] = s[Len(s)]
<1> DEFINE t == Trimmed(s, n)
           m == Len(s)
<1>1. PICK d \in Nat :
          /\ d <= m /\ (s # <<>> => d < m)
          /\ t \in Seq(Group) /\ Len(t) = m - d
          /\ \A i \in 1 .. m - d : t[i] = s[i + d]
  BY TrimmedItems
<1>2. m \in Nat /\ DOMAIN s = 1 .. m
  BY LenProperties
<1>3. /\ \A i, j \in 1 .. m : s[i].address = s[j].address => i = j
      /\ \A i \in 1 .. m : s[i].address = p =>
            (i = m => b = sv) /\ (i # m => s[i + 1].before = sv)
  BY DEF Remembered
<1> HIDE DEF t, m
<1>4. ASSUME NEW i \in 1 .. m - d
      PROVE  /\ i + d \in 1 .. m
             /\ i = m - d <=> i + d = m
             /\ i # m - d => i + 1 \in 1 .. m - d /\ (i + 1) + d = (i + d) + 1
  BY <1>1, <1>2
<1>5. Remembered(t, b, p, sv)
  <2>1. ASSUME NEW i \in 1 .. m - d, t[i].address = p
        PROVE  /\ i = m - d => b = sv
               /\ i # m - d => t[i + 1].before = sv
    <3>1. i + d \in 1 .. m /\ s[i + d].address = p
      BY <1>1, <1>4, <2>1
    <3>2. CASE i = m - d
      BY <1>3, <1>4, <3>1, <3>2
    <3>3. CASE i # m - d
      <4>1. s[(i + d) + 1].before = sv
        BY <1>3, <1>4, <3>1, <3>3
      <4>2. t[i + 1] = s[(i + d) + 1]
        BY <1>1, <1>4, <3>3
      <4> QED  BY <3>3, <4>1, <4>2
    <3> QED  BY <3>2, <3>3
  <2>2. ASSUME NEW i \in 1 .. m - d, NEW j \in 1 .. m - d, t[i].address = t[j].address
        PROVE  i = j
    <3>1. i + d = j + d
      BY <1>1, <1>3, <1>4, <2>2
    <3> QED  BY <1>1, <1>2, <3>1
  <2> QED  BY <1>1, <2>1, <2>2 DEF Remembered
<1>6. s # <<>> => t # <<>> /\ t[Len(t)] = s[m]
  <2> SUFFICES ASSUME s # <<>> PROVE t # <<>> /\ t[Len(t)] = s[m]
    OBVIOUS
  <2>1. Len(t) \in 1 .. m - d /\ Len(t) + d = m /\ Len(t) # 0
    BY <1>1, <1>2
  <2> QED  BY <1>1, <2>1, EmptySeq
<1>7. ASSUME AddressesOf(s) \ AddressesOf(t) = {}, BottomIs(s, b, sv)
      PROVE  BottomIs(t, b, sv)
  <2>1. CASE s = <<>>
    <3>1. m = 0
      BY <2>1 DEF m
    <3>2. Len(t) = 0
      BY <1>1, <3>1
    <3>3. t = <<>>
      BY <1>1, <3>2, EmptySeq
    <3> QED  BY <1>7, <2>1, <3>3 DEF BottomIs
  <2>2. CASE s # <<>>
    <3>1. 1 \in 1 .. m /\ 1 \in 1 .. m - d
      BY <1>1, <1>2, <2>2
    <3>2. s[1].address \in AddressesOf(t)
      BY <1>2, <1>7, <3>1 DEF AddressesOf
    <3>3. DOMAIN t = 1 .. m - d
      BY <1>1, LenProperties
    <3>4. PICK i \in 1 .. m - d : s[1].address = t[i].address
      BY <3>2, <3>3 DEF AddressesOf
    <3>5. 1 = i + d
      BY <1>1, <1>3, <1>4, <3>1, <3>4
    <3>6. d = 0 /\ 1 + d = 1
      BY <1>1, <1>2, <3>5
    <3>7. t[1] = s[1]
      BY <1>1, <3>1, <3>6
    <3> QED  BY <1>6, <1>7, <2>2, <3>7 DEF BottomIs
  <2> QED  BY <2>1, <2>2
<1> QED
  BY <1>5, <1>6, <1>7 DEF t, m

-----------------------------------------------------------------------------
(* The save point: what the operations do to it *)

\* Nothing is open on a stack of closed groups.
LEMMA ChainedTop ==
    ASSUME NEW s \in Seq(Group), NEW x, Chained(s, x)
    PROVE  ~TopIsOpen(s)
<1>1. Built(s, 0, x, x)
  BY DEF Built
<1> QED
  BY <1>1, BuiltTop

LEMMA SavedSame ==
    ASSUME SaveInv, UNCHANGED <<undo, base, saveVars>>,
           running' = "cancel" => running = "cancel"
    PROVE  SaveInv'
  BY DEF SaveInv, saveVars, Remembered, BottomIs

\* The group that is being filled or cancelled gets other items.
LEMMA SavedTopStep ==
    ASSUME SaveInv, undo \in Seq(Group), TopIsOpen(undo) \/ running = "cancel",
           NEW items \in Seq(Item), undo' = TopWith(undo, items), UNCHANGED saveVars
    PROVE  SaveInv'
<1>1. undo # <<>> /\ undo[Len(undo)].address # savePoint /\ Remembered(undo, base, savePoint, saved)
      /\ (savePoint = Null /\ ~trimmed => BottomIs(undo, base, saved))
  BY DEF SaveInv
<1>2. /\ Remembered(undo', base', savePoint, saved)
      /\ BottomIs(undo, base, saved) => BottomIs(undo', base', saved)
      /\ undo' # <<>> /\ undo'[Len(undo')].address # savePoint
  BY <1>1, SavedTop
<1> QED
  BY <1>1, <1>2 DEF SaveInv, saveVars

LEMMA SavedAppendedStep ==
    ASSUME SaveInv, undo \in Seq(Group), TopIsOpen(undo),
           NEW item \in Item, undo' = TopAppended(undo, item), UNCHANGED saveVars
    PROVE  SaveInv'
<1>1. Append(Last(undo).items, item) \in Seq(Item)
  BY StackTop, AppendProperties DEF TopIsOpen
<1> QED
  BY <1>1, SavedTopStep DEF TopAppended

\* The top group goes, and nothing is open any more.
LEMMA SavedPoppedStep ==
    ASSUME SaveInv, undo \in Seq(Group), undo # <<>>, undo' = Front(undo),
           base' = undo[Len(undo)].before, UNCHANGED saveVars,
           ~TopIsOpen(undo'), running' # "cancel"
    PROVE  SaveInv'
<1>1. Remembered(undo, base, savePoint, saved)
      /\ (savePoint = Null /\ ~trimmed => BottomIs(undo, base, saved))
  BY DEF SaveInv
<1>2. /\ Remembered(undo', base', savePoint, saved)
      /\ BottomIs(undo, base, saved) => BottomIs(undo', base', saved)
  BY <1>1, SavedPopped
<1> QED
  BY <1>1, <1>2 DEF SaveInv, saveVars

\* trim_undo_stack: the save point is remembered, gone or not.
LEMMA SavedTrimmedStep ==
    ASSUME NEW s \in Seq(Group), NEW n \in Nat, Remembered(s, base, savePoint, saved),
           savePoint = Null /\ ~trimmed => BottomIs(s, base, saved),
           undo' = Trimmed(s, n), ForgetTrimmed(s, undo'), base' = base,
           TopIsOpen(undo') \/ running' = "cancel" =>
               s # <<>> /\ s[Len(s)].address # savePoint
    PROVE  SaveInv'
<1>1. /\ UNCHANGED <<savePoint, saved>>
      /\ trimmed' = (trimmed \/ AddressesOf(s) \ AddressesOf(undo') # {})
  BY DEF ForgetTrimmed
<1>2. /\ Remembered(undo', base', savePoint, saved)
      /\ AddressesOf(s) \ AddressesOf(undo') = {} /\ BottomIs(s, base, saved)
            => BottomIs(undo', base', saved)
      /\ s # <<>> => undo' # <<>> /\ undo'[Len(undo')] = s[Len(s)]
  BY SavedTrimmed
<1>3. savePoint' = Null /\ ~trimmed' => BottomIs(undo', base', saved')
  BY <1>1, <1>2
<1>4. TopIsOpen(undo') \/ running' = "cancel" =>
          undo' # <<>> /\ undo'[Len(undo')].address # savePoint'
  BY <1>1, <1>2
<1> QED
  BY <1>1, <1>2, <1>3, <1>4 DEF SaveInv

\* add_undo to the undo stack: a group that is begun is not the save point.
LEMMA AddUndoSaved ==
    ASSUME SaveInv, ~ReusedAddress, ReversalTypes, running # "undo", running' # "cancel",
           NEW item \in Item, AddUndo(item), base' = base,
           NEW k \in Nat, Built(undo, k, base, content)
    PROVE  SaveInv'
<1>1. /\ undo \in Seq(Group) /\ limit \in Nat /\ content \in Docs
  BY DEF ReversalTypes
<1>2. TopIsOpen(undo) <=> k > 0
  BY <1>1, BuiltTop
<1>3. CASE k > 0
  <2>1. undo' = TopAppended(undo, item) /\ UNCHANGED saveVars /\ TopIsOpen(undo)
    BY <1>2, <1>3, AddUndoCases
  <2> QED  BY <1>1, <2>1, SavedAppendedStep
<1>4. CASE k = 0
  <2>1. PICK a \in Free :
            LET g == [address |-> a, items |-> <<item>>, before |-> content]
            IN  /\ undo' = Trimmed(undo \o <<g>>, limit)
                /\ ForgetTrimmed(undo \o <<g>>, undo')
    BY <1>2, <1>4, AddUndoCases
  <2> DEFINE g == [address |-> a, items |-> <<item>>, before |-> content]
             s == undo \o <<g>>
  <2>2. g \in Group
    BY <1>1, NewGroup
  <2>3. g.before = base
    BY <1>4 DEF Built
  <2>4. g.address \notin AddressesOf(undo) /\ g.address # savePoint
    BY <2>1 DEF Free
  <2>5. undo' = Trimmed(s, limit) /\ ForgetTrimmed(s, undo')
    BY <2>1
  <2> HIDE DEF g
  <2>6. s \in Seq(Group) /\ s # <<>> /\ s[Len(s)] = g
    BY <1>1, <2>2, PushedItems
  <2>7. /\ Remembered(undo, base, savePoint, saved)
        /\ savePoint = Null /\ ~trimmed => BottomIs(undo, base, saved)
    BY DEF SaveInv
  <2>8. /\ Remembered(s, base, savePoint, saved)
        /\ BottomIs(undo, base, saved) => BottomIs(s, base, saved)
    BY <1>1, <2>2, <2>3, <2>4, <2>7, SavedPushed
  <2> HIDE DEF s
  <2> QED  BY <1>1, <2>4, <2>5, <2>6, <2>7, <2>8, SavedTrimmedStep
<1> QED
  BY <1>3, <1>4

\* add_undo of undo() leaves the undo stack alone.
LEMMA AddUndoToRedoSaved ==
    ASSUME SaveInv, ReversalTypes, running = "undo", running' = running,
           NEW item \in Item, AddUndo(item), base' = base,
           NEW k \in Nat, Built(redo, k, base, content)
    PROVE  SaveInv'
<1>1. redo \in Seq(Group)
  BY DEF ReversalTypes
<1>2. TopIsOpen(redo) <=> k > 0
  BY <1>1, BuiltTop
<1>3. undo' = undo /\ UNCHANGED saveVars
  <2>1. CASE k > 0
    BY <1>2, <2>1, AddUndoCases
  <2>2. CASE k = 0
    <3>1. \E a \in Free : undo' = undo /\ UNCHANGED saveVars
      BY <1>2, <2>2, AddUndoCases
    <3> QED  BY <3>1
  <2> QED  BY <2>1, <2>2
<1> QED
  BY <1>3, SavedSame

-----------------------------------------------------------------------------
(* The operations of clients *)

LEMMA OpenGroupSaved ==
    ASSUME SaveInv, ReversalInv, ~ReusedAddress, OpenGroup
    PROVE  SaveInv'
<1>1. running = "none" /\ running' = "none" /\ AddUndo(Begin) /\ base' = base
  BY DEF OpenGroup
<1>2. ReversalTypes /\ Built(undo, OpenCount, base, content)
  BY <1>1 DEF ReversalInv, Resting
<1>3. OpenCount \in Nat /\ Begin \in Item
  BY <1>2, ScopesCounted DEF Item
<1> QED
  BY <1>1, <1>2, <1>3, AddUndoSaved

LEMMA EditSaved ==
    ASSUME SaveInv, ReversalInv, ~AnyReorder, ~ReusedAddress,
           NEW c \in Changes(content, Values), Edit(c)
    PROVE  SaveInv'
<1>1. /\ running = "none" /\ running' = "none" /\ base' = base
      /\ AddUndo(Recorded(content, c))
      /\ c.op = "reorder" => c.to < Len(content)
  BY DEF Edit, InScope
<1>2. ReversalTypes /\ Built(undo, OpenCount, base, content)
  BY <1>1 DEF ReversalInv, Resting
<1>3. OpenCount \in Nat /\ Recorded(content, c) \in Item
  <2>1. content \in Docs /\ c \in InListChanges(content, Values)
    BY <1>1, <1>2 DEF ReversalTypes, InListChanges
  <2> QED  BY <1>2, <2>1, RecordedTakesBack, ScopesCounted DEF Item
<1> QED
  BY <1>1, <1>2, <1>3, AddUndoSaved

\* The group that ends was begun after the save.
LEMMA EndGroupSaved ==
    ASSUME SaveInv, ReversalInv, ReversalInv', EndGroup
    PROVE  SaveInv'
<1>1. /\ running = "none" /\ running' = "none" /\ scopes # <<>> /\ Last(scopes) = "group"
      /\ undo' = Ended(undo) /\ UNCHANGED saveVars
      /\ base' = IF TopIsOpen(undo') THEN base ELSE content
  BY DEF EndGroup, InScope
<1>2. ReversalTypes /\ Built(undo, OpenCount, base, content) /\ undo \in Seq(Group)
  BY <1>1 DEF ReversalInv, Resting, ReversalTypes
<1>3. OpenCount \in Nat \ {0}
  BY <1>1, <1>2, InnermostScope
<1>4. /\ TopIsOpen(undo) /\ undo # <<>> /\ undo[Len(undo)].before = base
      /\ End \in Item
  BY <1>2, <1>3, BuiltTop DEF Built, Filling, Item
<1>5. CASE Last(undo).items = <<Begin>>
  <2>1. undo' = Front(undo) /\ OpenCount = 1 /\ base = content
    BY <1>1, <1>2, <1>3, <1>5, EmptyGroup DEF Ended
  <2>2. Chained(undo', content) /\ undo' \in Seq(Group)
    BY <1>1, <1>2, <2>1, BuiltEnds
  <2>3. ~TopIsOpen(undo')
    BY <2>2, ChainedTop
  <2> QED  BY <1>1, <1>2, <1>4, <2>1, <2>3, SavedPoppedStep
<1>6. CASE Last(undo).items # <<Begin>>
  BY <1>1, <1>2, <1>4, <1>6, SavedAppendedStep DEF Ended
<1> QED
  BY <1>5, <1>6

LEMMA CancelEmptySaved ==
    ASSUME SaveInv, ReversalInv, CancelEmpty
    PROVE  SaveInv'
<1>1. /\ running = "none" /\ running' = "none" /\ scopes # <<>> /\ Last(scopes) = "group"
      /\ undo' = Ended(undo) /\ UNCHANGED saveVars /\ base' = base
      /\ Last(undo).items = <<Begin>>
  BY DEF CancelEmpty, InScope
<1>2. ReversalTypes /\ Built(undo, OpenCount, base, content) /\ undo \in Seq(Group)
  BY <1>1 DEF ReversalInv, Resting, ReversalTypes
<1>3. OpenCount \in Nat \ {0}
  BY <1>1, <1>2, InnermostScope
<1>4. undo # <<>> /\ undo[Len(undo)].before = base
  BY <1>2, <1>3 DEF Built, Filling
<1>5. undo' = Front(undo) /\ OpenCount = 1
  BY <1>1, <1>2, <1>3, EmptyGroup DEF Ended
<1>6. ~TopIsOpen(undo')
  <2>1. Chained(undo', content) /\ undo' \in Seq(Group)
    BY <1>1, <1>2, <1>5, BuiltEnds
  <2> QED  BY <2>1, ChainedTop
<1> QED
  BY <1>1, <1>2, <1>4, <1>5, <1>6, SavedPoppedStep

LEMMA CancelGroupSaved ==
    ASSUME SaveInv, ReversalInv, CancelGroup
    PROVE  SaveInv'
<1>1. /\ running = "none" /\ scopes # <<>> /\ Last(scopes) = "group"
      /\ undo' = Ended(undo) /\ UNCHANGED saveVars
      /\ Last(undo).items # <<Begin>>
  BY DEF CancelGroup, InScope
<1>2. ReversalTypes /\ Built(undo, OpenCount, base, content) /\ undo \in Seq(Group)
  BY <1>1 DEF ReversalInv, Resting, ReversalTypes
<1>3. OpenCount \in Nat \ {0}
  BY <1>1, <1>2, InnermostScope
<1>4. TopIsOpen(undo) /\ End \in Item
  BY <1>2, <1>3, BuiltTop DEF Item
<1> QED
  BY <1>1, <1>2, <1>4, SavedAppendedStep DEF Ended

-----------------------------------------------------------------------------
(* undo, redo and cancel *)

\* What they record.
LEMMA RecordingSaved ==
    ASSUME SaveInv, ReversalInv, ~ReusedAddress, running \in {"undo", "redo"},
           NEW item \in Item, AddUndo(item), UNCHANGED <<running, base>>
    PROVE  SaveInv'
<1>1. ReversalTypes
  BY DEF ReversalInv
<1>2. undo \in Seq(Group) /\ redo \in Seq(Group) /\ todo \in Seq(Item)
  BY <1>1 DEF ReversalTypes
<1>3. CASE running = "undo"
  <2> DEFINE k == DepthAt(undo[Len(undo)].items, Len(todo))
  <2>1. Reversing(undo, redo, todo, base, content)
    BY <1>3 DEF ReversalInv
  <2>2. k \in Nat /\ Built(redo, k, base, content)
    BY <1>2, <2>1, ReversingDepth DEF Reversing
  <2> HIDE DEF k
  <2> QED  BY <1>1, <1>3, <2>2, AddUndoToRedoSaved
<1>4. CASE running = "redo"
  <2> DEFINE k == DepthAt(redo[Len(redo)].items, Len(todo))
  <2>1. Reversing(redo, undo, todo, base, content)
    BY <1>4 DEF ReversalInv
  <2>2. k \in Nat /\ Built(undo, k, base, content)
    BY <1>2, <2>1, ReversingDepth DEF Reversing
  <2> HIDE DEF k
  <2> QED  BY <1>1, <1>4, <2>2, AddUndoSaved
<1> QED
  BY <1>3, <1>4

LEMMA UndoBeginsSaved ==
    ASSUME SaveInv, ReversalInv, ~ReusedAddress, UndoBegins
    PROVE  SaveInv'
<1>1. /\ todo # <<>> /\ UNCHANGED <<running, base>>
      /\ IF Recording THEN AddUndo(Begin) ELSE UNCHANGED <<stacks, saveVars>>
  BY DEF UndoBegins
<1>2. running \in {"undo", "redo", "cancel"} /\ (running \in {"undo", "redo"} => Recording)
      /\ (running = "cancel" => ~Recording)
  BY <1>1, ReversalState
<1>3. Begin \in Item
  BY DEF Item
<1>4. CASE running = "cancel"
  BY <1>1, <1>2, <1>4, SavedSame DEF stacks
<1>5. CASE running \in {"undo", "redo"}
  BY <1>1, <1>2, <1>3, <1>5, RecordingSaved
<1> QED
  BY <1>2, <1>4, <1>5

LEMMA UndoesActionSaved ==
    ASSUME SaveInv, ReversalInv, ~ReusedAddress, UndoesAction
    PROVE  SaveInv'
<1> DEFINE change == Reverting(content, Head(todo))
<1>1. /\ todo # <<>> /\ UNCHANGED <<running, base>>
      /\ Head(todo) \notin {Begin, End}
      /\ IF Recording THEN AddUndo(Recorded(content, change)) ELSE UNCHANGED <<stacks, saveVars>>
  BY DEF UndoesAction
<1>2. running \in {"undo", "redo", "cancel"} /\ (running \in {"undo", "redo"} => Recording)
      /\ (running = "cancel" => ~Recording)
  BY <1>1, ReversalState
<1>3. Recorded(content, change) \in Item
  <2>1. change \in InListChanges(content, Values) /\ content \in Docs
    BY <1>1, NextChange DEF ReversalInv, ReversalTypes
  <2> QED  BY <2>1, RecordedTakesBack DEF Item
<1> HIDE DEF change
<1>4. CASE running = "cancel"
  BY <1>1, <1>2, <1>4, SavedSame DEF stacks
<1>5. CASE running \in {"undo", "redo"}
  BY <1>1, <1>2, <1>3, <1>5, RecordingSaved
<1> QED
  BY <1>2, <1>4, <1>5

\* redo() fills a group that it has begun.
LEMMA RedoFills ==
    ASSUME NEW from \in Seq(Group), NEW to \in Seq(Group), NEW left \in Seq(Item),
           NEW x, NEW y, Reversing(from, to, left, x, y), Head(left) = End
    PROVE  TopIsOpen(to)
<1> DEFINE src == from[Len(from)].items
           n == Len(left)
<1>1. n \in 1 .. Len(src) /\ Built(to, DepthAt(src, n), x, y)
  BY DEF Reversing
<1>2. Head(left) = Flip(src[n]) /\ src[n] \in Item
  BY ReversingHead
<1>3. src[n] # End
  BY <1>2, FlipItem, EndsAreNoActs
<1>4. /\ DepthAt(src, n) \in Nat
      /\ n = Len(src) <=> DepthAt(src, n) = 0
      /\ n = Len(src) => src[n] = End
  BY ReversingDepth
<1> HIDE DEF src, n
<1>5. DepthAt(src, n) > 0
  BY <1>3, <1>4
<1> QED
  BY <1>1, <1>4, <1>5, BuiltTop

LEMMA UndoEndsInnerSaved ==
    ASSUME SaveInv, ReversalInv, UndoEndsInner
    PROVE  SaveInv'
<1>1. /\ Len(todo) > 1 /\ Head(todo) = End /\ UNCHANGED <<running, base, saveVars>>
      /\ IF ~Recording THEN UNCHANGED stacks
         ELSE IF running = "undo" THEN redo' = Ended(redo) /\ UNCHANGED undo
                                  ELSE undo' = Ended(undo) /\ UNCHANGED redo
  BY DEF UndoEndsInner
<1>2. /\ running \in {"undo", "redo", "cancel"}
      /\ running = "undo" => Recording
      /\ running = "redo" => Recording /\ Reversing(redo, undo, todo, base, content)
      /\ running = "cancel" => ~Recording
  <2>1. todo # <<>>
    BY <1>1
  <2> QED  BY <2>1, ReversalState
<1>3. /\ undo \in Seq(Group) /\ redo \in Seq(Group) /\ todo \in Seq(Item) /\ Len(todo) >= 2
  <2>1. undo \in Seq(Group) /\ redo \in Seq(Group) /\ todo \in Seq(Item)
    BY DEF ReversalInv, ReversalTypes
  <2>2. Len(todo) \in Nat
    BY <2>1, LenProperties
  <2> QED  BY <1>1, <2>1, <2>2
<1>4. CASE running \in {"undo", "cancel"}
  BY <1>1, <1>2, <1>4, SavedSame DEF stacks
<1>5. CASE running = "redo"
  <2>1. undo' = TopAppended(undo, End)
    BY <1>1, <1>2, <1>3, <1>5, ReversingEndsInner
  <2>2. TopIsOpen(undo) /\ End \in Item
    BY <1>1, <1>2, <1>3, <1>5, RedoFills DEF Item
  <2> QED  BY <1>1, <1>3, <2>1, <2>2, SavedAppendedStep
<1> QED
  BY <1>2, <1>4, <1>5

LEMMA UndoReturnsSaved ==
    ASSUME SaveInv, ReversalInv, UndoReturns
    PROVE  SaveInv'
<1>1. /\ running = "undo" /\ running' = "none" /\ todo = <<End>> /\ base' = content
      /\ undo' = Front(undo) /\ UNCHANGED saveVars
  BY DEF UndoReturns, Completes
<1>2. /\ Reversing(undo, redo, todo, base, content)
      /\ undo \in Seq(Group) /\ redo \in Seq(Group) /\ todo \in Seq(Item)
  BY <1>1 DEF ReversalInv, ReversalTypes
<1>3. undo # <<>> /\ undo[Len(undo)].before = content
  BY <1>1, <1>2, ReversingMoves
<1>4. ~TopIsOpen(undo')
  <2>1. undo' \in Seq(Group) /\ Chained(undo', content)
    BY <1>1, <1>2, ReversingEnds
  <2> QED  BY <2>1, ChainedTop
<1> QED
  BY <1>1, <1>2, <1>3, <1>4, SavedPoppedStep

LEMMA RedoReturnsSaved ==
    ASSUME SaveInv, ReversalInv, RedoReturns
    PROVE  SaveInv'
<1>1. /\ running = "redo" /\ todo = <<End>> /\ Head(todo) = End
      /\ undo' = Ended(undo) /\ UNCHANGED saveVars
  BY DEF RedoReturns, Completes
<1>2. /\ Reversing(redo, undo, todo, base, content)
      /\ undo \in Seq(Group) /\ redo \in Seq(Group) /\ todo \in Seq(Item)
  BY <1>1 DEF ReversalInv, ReversalTypes
<1>3. undo' = TopAppended(undo, End)
  BY <1>1, <1>2, ReversingEnds
<1>4. TopIsOpen(undo) /\ End \in Item
  BY <1>1, <1>2, RedoFills DEF Item
<1> QED
  BY <1>1, <1>2, <1>3, <1>4, SavedAppendedStep

LEMMA CancelReturnsSaved ==
    ASSUME SaveInv, ReversalInv, ReversalInv', CancelReturns
    PROVE  SaveInv'
<1> DEFINE items == undo[Len(undo)].items
           start == LastGroup(items)
<1>1. /\ running = "cancel" /\ running' = "none" /\ todo = <<End>>
      /\ undo' = Shrunk(undo, LastGroup(Last(undo).items))
      /\ UNCHANGED <<base, saveVars>>
  BY DEF CancelReturns
<1>2. /\ ReversalTypes /\ scopes # <<>> /\ Last(scopes) = "group"
      /\ Cancelling(undo, todo, OpenCount, base, content)
  BY <1>1 DEF ReversalInv, InCancel
<1>3. undo \in Seq(Group) /\ todo \in Seq(Item)
  BY <1>2 DEF ReversalTypes
<1>4. OpenCount \in Nat \ {0}
  BY <1>2, InnermostScope
<1>5. /\ undo # <<>> /\ undo[Len(undo)].before = base
      /\ Open(items, Len(items) - 1, OpenCount)
  BY <1>2 DEF Cancelling
<1>6. /\ Last(undo) = undo[Len(undo)] /\ items \in Seq(Item)
      /\ start \in 1 .. Len(items) - 1 /\ Len(items) \in Nat
      /\ BeginsAt(items, Len(items) - 1, start, OpenCount)
  BY <1>2, <1>3, CancellingHead
<1>7. undo' = Shrunk(undo, start)
  BY <1>1, <1>6
<1>8. undo' \in Seq(Group) /\ Built(undo', OpenCount - 1, base, content)
  <2>1. Len(todo) = 1
    BY <1>1
  <2> QED  BY <1>1, <1>2, <1>3, <2>1, CancellingEnds
<1> HIDE DEF start, items
<1>9. start = 1 <=> OpenCount = 1
  <2> DEFINE e == Len(items) - 1
  <2>1. start \in 1 .. e /\ Open(items, e, OpenCount) /\ BeginsAt(items, e, start, OpenCount)
    BY <1>5, <1>6
  <2> HIDE DEF e
  <2> QED  BY <2>1, OpenBefore
<1>10. CASE OpenCount = 1
  <2>1. undo' = Front(undo)
    BY <1>7, <1>9, <1>10 DEF Shrunk
  <2>2. ~TopIsOpen(undo')
    <3>1. OpenCount - 1 \in Nat /\ ~(OpenCount - 1 > 0)
      BY <1>10
    <3> QED  BY <1>8, <3>1, BuiltTop
  <2> QED  BY <1>1, <1>3, <1>5, <2>1, <2>2, SavedPoppedStep
<1>11. CASE OpenCount # 1
  <2> DEFINE p == SubSeq(items, 1, start - 1)
  <2>1. undo' = TopWith(undo, p)
    BY <1>6, <1>7, <1>9, <1>11 DEF Shrunk, items
  <2>2. p \in Seq(Item)
    <3> DEFINE e == start - 1
    <3>1. 1 \in Int /\ e \in Int /\ \A i \in 1 .. e : i \in 1 .. Len(items)
      BY <1>6
    <3> HIDE DEF e
    <3>2. \A i \in 1 .. e : items[i] \in Item
      BY <1>6, <3>1, ElementOfSeq
    <3>3. SubSeq(items, 1, e) \in Seq(Item)
      BY <3>1, <3>2, SubSeqProperties
    <3> QED  BY <3>3 DEF e
  <2> HIDE DEF p
  <2> QED  BY <1>1, <1>3, <2>1, <2>2, SavedTopStep
<1> QED
  BY <1>10, <1>11

-----------------------------------------------------------------------------
(* The commands of the main loop *)

LEMMA SetLimitSaved ==
    ASSUME SaveInv, ReversalInv, NEW n \in Limits, SetLimit(n)
    PROVE  SaveInv'
<1>1. /\ n \in Nat /\ undo' = Trimmed(undo, n) /\ ForgetTrimmed(undo, undo')
      /\ UNCHANGED <<running, base>>
  BY UndoAssumption DEF SetLimit
<1>2. /\ undo \in Seq(Group) /\ running = "none" /\ Chained(undo, base)
  BY IdleRests DEF SetLimit, ReversalTypes
<1>3. ~TopIsOpen(undo')
  <2>1. Built(undo, 0, base, base)
    BY <1>2 DEF Built
  <2>2. undo' \in Seq(Group) /\ Built(undo', 0, base, base)
    BY <1>1, <1>2, <2>1, BuiltTrimmed
  <2> QED  BY <2>2, BuiltTop
<1>4. /\ Remembered(undo, base, savePoint, saved)
      /\ savePoint = Null /\ ~trimmed => BottomIs(undo, base, saved)
  BY DEF SaveInv
<1> QED
  BY <1>1, <1>2, <1>3, <1>4, SavedTrimmedStep

\* The content that is saved is what the top group led to.
LEMMA SaveSaved ==
    ASSUME SaveInv, ReversalInv, Save
    PROVE  SaveInv'
<1>1. /\ savePoint' = Latest /\ saved' = content /\ UNCHANGED <<undo, base, running>>
  BY DEF Save, stacks
<1>2. /\ undo \in Seq(Group) /\ running = "none" /\ Chained(undo, base) /\ content = base
  BY IdleRests DEF Save, ReversalTypes
<1>3. ~TopIsOpen(undo)
  BY <1>2, ChainedTop
<1>4. \A i, j \in 1 .. Len(undo) : undo[i].address = undo[j].address => i = j
  BY DEF SaveInv, Remembered
<1>5. CASE undo = <<>>
  <2>1. Remembered(undo, base, savePoint', base)
    BY <1>5 DEF Remembered
  <2>2. BottomIs(undo, base, base)
    BY <1>5 DEF BottomIs
  <2> QED  BY <1>1, <1>2, <1>3, <2>1, <2>2 DEF SaveInv
<1>6. CASE undo # <<>>
  <2>1. /\ savePoint' = undo[Len(undo)].address /\ Len(undo) \in 1 .. Len(undo)
        /\ undo[Len(undo)].address \in Addresses
    <3>1. Len(undo) \in Nat \ {0} /\ Last(undo) = undo[Len(undo)] /\ undo[Len(undo)] \in Group
      BY <1>2, <1>6, StackTop
    <3>2. undo[Len(undo)].address \in Addresses
      BY <3>1 DEF Group
    <3> QED  BY <1>1, <1>6, <3>1, <3>2 DEF Latest
  <2>2. savePoint' # Null
    BY <2>1, UndoAssumption
  <2>3. Remembered(undo, base, savePoint', base)
    BY <1>4, <2>1 DEF Remembered
  <2> QED  BY <1>1, <1>2, <1>3, <2>2, <2>3 DEF SaveInv
<1> QED
  BY <1>5, <1>6

LEMMA EmptySaved ==
    ASSUME NEW b, NEW p
    PROVE  Remembered(<<>>, b, p, b) /\ BottomIs(<<>>, b, b) /\ ~TopIsOpen(<<>>)
  BY DEF Remembered, BottomIs, TopIsOpen

LEMMA CloseDocumentSaved ==
    ASSUME ReversalInv, CloseDocument
    PROVE  SaveInv'
<1>1. /\ undo' = <<>> /\ base' = <<>> /\ savePoint' = Null /\ saved' = <<>>
      /\ running' = "none"
  BY DEF CloseDocument, Idle
<1> QED
  BY <1>1, EmptySaved DEF SaveInv

LEMMA SaveInit == Init => SaveInv
  BY EmptySaved DEF Init, SaveInv

LEMMA SaveStep ==
    ASSUME SaveInv, ReversalInv, ReversalInv', ~AnyReorder, ~ReusedAddress, [Next]_vars
    PROVE  SaveInv'
<1>1. CASE OpenGroup
  BY <1>1, OpenGroupSaved
<1>2. CASE EndGroup
  BY <1>2, EndGroupSaved
<1>3. CASE CancelEmpty
  BY <1>3, CancelEmptySaved
<1>4. CASE CancelGroup
  BY <1>4, CancelGroupSaved
<1>5. CASE \E c \in Changes(content, Values) : Edit(c)
  BY <1>5, EditSaved
<1>6. CASE Disable \/ Enable
  BY <1>6, SavedSame DEF Disable, Enable, stacks
<1>7. CASE Undo \/ Redo
  <2>1. running' # "cancel" /\ UNCHANGED <<undo, base, saveVars>>
    BY <1>7 DEF Undo, Redo, stacks
  <2> QED  BY <2>1, SavedSame
<1>8. CASE UndoBegins
  BY <1>8, UndoBeginsSaved
<1>9. CASE UndoesAction
  BY <1>9, UndoesActionSaved
<1>10. CASE UndoEndsInner
  BY <1>10, UndoEndsInnerSaved
<1>11. CASE UndoReturns
  BY <1>11, UndoReturnsSaved
<1>12. CASE RedoReturns
  BY <1>12, RedoReturnsSaved
<1>13. CASE CancelReturns
  BY <1>13, CancelReturnsSaved
<1>14. CASE \E n \in Limits : SetLimit(n)
  BY <1>14, SetLimitSaved
<1>15. CASE Save
  BY <1>15, SaveSaved
<1>16. CASE CloseDocument
  BY <1>16, CloseDocumentSaved
<1>17. CASE UNCHANGED vars
  BY <1>17, SavedSame DEF vars, stacks
<1> QED
  BY <1>1, <1>2, <1>3, <1>4, <1>5, <1>6, <1>7, <1>8, <1>9, <1>10, <1>11, <1>12, <1>13,
     <1>14, <1>15, <1>16, <1>17 DEF Next

\* When nothing is going on, the document is what the top group led to.
LEMMA SavedContent == SaveInv /\ ReversalInv => UntrimmedUnchangedIsSaved
<1> SUFFICES ASSUME SaveInv, ReversalInv, Idle, ~trimmed, Latest = savePoint
             PROVE  content = saved
  BY DEF UntrimmedUnchangedIsSaved, HasUnsavedChanges
<1>1. content = base /\ undo \in Seq(Group)
  BY IdleRests DEF ReversalTypes
<1>2. CASE undo = <<>>
  <2>1. savePoint = Null
    BY <1>2 DEF Latest
  <2> QED  BY <1>1, <1>2, <2>1 DEF SaveInv, BottomIs
<1>3. CASE undo # <<>>
  <2>1. Len(undo) \in 1 .. Len(undo) /\ undo[Len(undo)].address = savePoint
    BY <1>1, <1>3, StackTop DEF Latest
  <2> QED  BY <1>1, <2>1 DEF SaveInv, Remembered
<1> QED
  BY <1>2, <1>3

\* WBContext::has_unsaved_changes can be trusted: a document whose latest undo
\* group is the save point has the content that was saved, whatever was edited,
\* undone, redone or cancelled in between.  It takes that no group was trimmed
\* since, and that no group is allocated where the save point was deleted, without
\* which it does not hold.
THEOREM UnchangedIsWhatWasSaved ==
    ASSUME ~AnyReorder, ~ReusedAddress
    PROVE  Spec => []UntrimmedUnchangedIsSaved
<1>1. Init => ReversalInv /\ SaveInv
  BY ReversalInit, SaveInit
<1>2. ReversalInv /\ SaveInv /\ [Next]_vars => (ReversalInv /\ SaveInv)'
  BY ReversalStep, SaveStep
<1>3. ReversalInv /\ SaveInv => UntrimmedUnchangedIsSaved
  BY SavedContent
<1> QED
  BY <1>1, <1>2, <1>3, PTL DEF Spec
=============================================================================
