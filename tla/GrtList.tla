------------------------------ MODULE GrtList ------------------------------
(***************************************************************************)
(* The changes of a GRT list (internal::List of grtpp_value.cpp), the undo *)
(* action each of them records and the change that undo action makes.      *)
(* Positions count from 0, as in the code.                                 *)
(***************************************************************************)
EXTENDS Integers, Sequences, SequencesExt

\* BaseListRef::npos: insert at the end
Npos == -1

ListInsert(at, v)     == [op |-> "insert", at |-> at, value |-> v]
ListRemove(at)        == [op |-> "remove", at |-> at]
ListSet(at, v)        == [op |-> "set", at |-> at, value |-> v]
ListReorder(from, to) == [op |-> "reorder", from |-> from, to |-> to]

\* Every change a client may ask of a list whose items are from Values; a
\* reorder may name any position as its goal.
Changes(list, Values) ==
    {ListInsert(at, v) : at \in Npos .. Len(list), v \in Values}
    \cup {ListRemove(at) : at \in 0 .. Len(list) - 1}
    \cup {ListSet(at, v) : at \in 0 .. Len(list) - 1, v \in Values}
    \cup {ListReorder(from, to) : from \in 0 .. Len(list) - 1, to \in 0 .. Len(list)}

\* The positions that raise no bad_item and read no item that is not there.
InBounds(list, c) ==
    CASE c.op = "insert"  -> c.at <= Len(list)
      [] c.op = "remove"  -> c.at < Len(list)
      [] c.op = "set"     -> c.at < Len(list)
      [] c.op = "reorder" -> c.from < Len(list)

\* The item leaves the list before its new position is counted.
Reordered(list, from, to) ==
    LET rest == RemoveAt(list, from + 1)
    IN  IF to >= Len(rest)
        THEN Append(rest, list[from + 1])
        ELSE InsertAt(rest, to + 1, list[from + 1])

Changed(list, c) ==
    CASE c.op = "insert"  -> IF c.at = Npos THEN Append(list, c.value)
                             ELSE InsertAt(list, c.at + 1, c.value)
      [] c.op = "remove"  -> RemoveAt(list, c.at + 1)
      [] c.op = "set"     -> ReplaceAt(list, c.at + 1, c.value)
      [] c.op = "reorder" -> Reordered(list, c.from, c.to)

\* The undo action that is made before the change: UndoListInsertAction,
\* UndoListRemoveAction, UndoListSetAction, UndoListReorderAction.
Recorded_NewValue(list, c) ==
    CASE c.op = "insert"  -> [kind |-> "insert", at |-> c.at]
      [] c.op = "remove"  -> [kind |-> "remove", at |-> c.at, value |-> list[c.at + 1]]
      [] c.op = "set"     -> [kind |-> "set", at |-> c.at, value |-> c.value]
      [] c.op = "reorder" -> [kind |-> "reorder", from |-> c.from, to |-> c.to]
Recorded(list, c) ==
    CASE c.op = "insert"  -> [kind |-> "insert", at |-> c.at]
      [] c.op = "remove"  -> [kind |-> "remove", at |-> c.at, value |-> list[c.at + 1]]
      [] c.op = "set"     -> [kind |-> "set", at |-> c.at, value |-> list[c.at + 1]]
      [] c.op = "reorder" -> [kind |-> "reorder", from |-> c.from, to |-> c.to]

\* The change that the undo of a recorded action makes.
Reverting(list, a) ==
    CASE a.kind = "insert"  -> ListRemove(IF a.at = Npos THEN Len(list) - 1 ELSE a.at)
      [] a.kind = "remove"  -> ListInsert(a.at, a.value)
      [] a.kind = "set"     -> ListSet(a.at, a.value)
      [] a.kind = "reorder" -> ListReorder(a.to, a.from)

Undone(list, a) == Changed(list, Reverting(list, a))
=============================================================================
