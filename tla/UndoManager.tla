---------------------------- MODULE UndoManager ----------------------------
(***************************************************************************)
(* Undo and redo (library/grt/src/grtpp_undo_manager.cpp), the AutoUndo    *)
(* scopes in which clients change the document, and the save point that    *)
(* WBContext compares to tell whether a document has unsaved changes.  The *)
(* document is one list of the model tree (GrtList).                       *)
(*                                                                         *)
(* An undo group is the sequence of its items with a "begin" for itself    *)
(* and for each group in it, and an "end" for those that are closed: what  *)
(* is added goes to the deepest open group, hence to the end.  undo() of a *)
(* group begins a group, undoes the items from the last to the first and   *)
(* ends the group: the items are read backwards, "end" for "begin".  One   *)
(* step of the specification is one item, so that content and stacks are   *)
(* seen in the states between them.                                        *)
(***************************************************************************)
EXTENDS GrtList, FiniteSets

CONSTANTS
    Values,        \* what the list may hold
    Addresses,     \* where undo groups are allocated (bound)
    Null,          \* no undo action
    Limits,        \* the undo limits the options are set to
    MaxLength,     \* bound: length of the list
    MaxItems,      \* bound: groups and actions in the undo stack together
    MaxNesting,    \* bound: AutoUndo objects and disabled sections alive
    AnyReorder,    \* clients reorder to positions past the last item, too
    ReusedAddress  \* a group may be placed where the save point was deleted

ASSUME UndoAssumption ==
    /\ Null \notin Addresses
    /\ Limits \subseteq Nat \ {0}
    /\ MaxLength \in Nat
    /\ MaxItems \in Nat
    /\ MaxNesting \in Nat
    /\ {AnyReorder, ReusedAddress} \subseteq BOOLEAN

VARIABLES
    content,    \* the document
    undo,       \* _undo_stack: top-level groups, [address, items, before], where
                \* before is history: the content before the group was begun
    redo,       \* _redo_stack
    running,    \* _is_undoing, _is_redoing, or a cancel on its way
    blocks,     \* _blocks
    limit,      \* _undo_limit, 0 for none
    tracking,   \* GRT::_tracking_changes
    scopes,     \* the AutoUndo objects and disabled sections alive, innermost last
    todo,       \* what is left to do of the running undo, redo or cancel
    savePoint,  \* WBContext::_save_point
    base,       \* history: the content at the last completed operation
    saved,      \* history: the content that was saved last
    trimmed,    \* history: groups were trimmed since
    leaked      \* history: the save point was trimmed, not deleted, since

stacks == <<undo, redo>>
saveVars == <<savePoint, saved, trimmed, leaked>>
vars == <<content, stacks, running, blocks, limit, tracking, scopes, todo, base,
          saveVars>>

Begin == [kind |-> "begin"]
End == [kind |-> "end"]

-----------------------------------------------------------------------------
(* Groups and stacks *)

CountOf(items, item) == Cardinality({i \in DOMAIN items : items[i] = item})

\* The open groups of a top-level group, itself included.
Depth(items) == CountOf(items, Begin) - CountOf(items, End)

TopIsOpen(stack) == stack # <<>> /\ Depth(Last(stack).items) > 0

\* Where the group begins that was closed last.
LastGroup(items) ==
    CHOOSE i \in DOMAIN items :
        /\ Depth(SubSeq(items, i, Len(items))) = 0
        /\ \A j \in i + 1 .. Len(items) : Depth(SubSeq(items, j, Len(items))) # 0

TopWith(stack, items) ==
    ReplaceAt(stack, Len(stack), [Last(stack) EXCEPT !.items = items])

TopAppended(stack, item) == TopWith(stack, Append(Last(stack).items, item))

\* trim_undo_stack, for the limit n
Trimmed_Never(stack, n) == stack
Trimmed(stack, n) ==
    IF n > 0 /\ Len(stack) > n THEN SubSeq(stack, Len(stack) - n + 1, Len(stack)) ELSE stack

AddressesOf(stack) == {stack[i].address : i \in DOMAIN stack}

\* Trimmed groups are never deleted.  Only the save point's is remembered.
ForgetTrimmed(before, after) ==
    LET gone == AddressesOf(before) \ AddressesOf(after)
    IN  /\ trimmed' = (trimmed \/ gone # {})
        /\ leaked' = (leaked \/ (ReusedAddress /\ savePoint \in gone))
        /\ UNCHANGED <<savePoint, saved>>

Free == Addresses \ (AddressesOf(undo) \cup AddressesOf(redo)
            \cup (IF leaked \/ ~ReusedAddress THEN {savePoint} ELSE {}))

\* add_undo: to the deepest open group of the stack that is being added to.  A
\* new top-level group is trimmed against the limit at once, and anything added
\* but by undo and redo drops the redo stack.
RedoAfterAdding == IF running = "redo" THEN redo ELSE <<>>

AddToOpen(item) ==
    IF running = "undo"
    THEN redo' = TopAppended(redo, item) /\ UNCHANGED undo
    ELSE undo' = TopAppended(undo, item) /\ redo' = RedoAfterAdding

AddOnTop(item) ==
    \E a \in Free :
        LET new == <<[address |-> a, items |-> <<item>>, before |-> content]>>
        IN  IF running = "undo"
            THEN redo' = redo \o new /\ UNCHANGED <<undo, saveVars>>
            ELSE /\ undo' = Trimmed(undo \o new, limit)
                 /\ ForgetTrimmed(undo \o new, undo')
                 /\ redo' = RedoAfterAdding

AddUndo(item) ==
    IF TopIsOpen(IF running = "undo" THEN redo ELSE undo)
    THEN AddToOpen(item) /\ UNCHANGED saveVars
    ELSE AddOnTop(item)

\* end_undo_group: a top-level group that is empty goes, any other has its
\* deepest open group closed.
Ended(stack) ==
    IF Last(stack).items = <<Begin>> THEN Front(stack) ELSE TopAppended(stack, End)

Shrunk(stack, start) ==
    IF start = 1 THEN Front(stack) ELSE TopWith(stack, SubSeq(Last(stack).items, 1, start - 1))

\* UndoGroup::undo, the items in the order it executes them.
Program_InOrder(items) == items
Program(items) ==
    [i \in DOMAIN items |->
        LET item == Reverse(items)[i]
        IN  CASE item = Begin -> End [] item = End -> Begin [] OTHER -> item]

ItemCount(stack) ==
    LET count[n \in 0 .. Len(stack)] ==
            IF n = 0 THEN 0
            ELSE count[n - 1] + Len(stack[n].items) - CountOf(stack[n].items, End)
    IN  count[Len(stack)]

-----------------------------------------------------------------------------
(* Types and the initial state *)

Position == Npos .. MaxLength
Actions ==
    [kind : {"insert"}, at : Position]
    \cup [kind : {"remove", "set"}, at : Position, value : Values]
    \cup [kind : {"reorder"}, from : Position, to : Position]
Groups == [address : Addresses, items : Seq(Actions \cup {Begin, End}),
           before : Seq(Values)]

TypeOK ==
    /\ content \in Seq(Values)
    /\ undo \in Seq(Groups)
    /\ redo \in Seq(Groups)
    /\ running \in {"none", "undo", "redo", "cancel"}
    /\ blocks \in Nat
    /\ limit \in Limits \cup {0}
    /\ tracking \in Nat
    /\ scopes \in Seq({"group", "disabled"})
    /\ todo \in Seq(Actions \cup {Begin, End})
    /\ (todo = <<>>) <=> (running = "none")
    /\ savePoint \in Addresses \cup {Null}
    /\ base \in Seq(Values)
    /\ saved \in Seq(Values)
    /\ trimmed \in BOOLEAN
    /\ leaked \in BOOLEAN

\* A new document.
Init ==
    /\ content = <<>>
    /\ undo = <<>>
    /\ redo = <<>>
    /\ running = "none"
    /\ blocks = 0
    /\ limit = 0
    /\ tracking = 0
    /\ scopes = <<>>
    /\ todo = <<>>
    /\ savePoint = Null
    /\ base = <<>>
    /\ saved = <<>>
    /\ trimmed = FALSE
    /\ leaked = FALSE

-----------------------------------------------------------------------------
(* AutoUndo and disabled sections: C++ scopes, the innermost ends first.   *)

InScope(kind) == running = "none" /\ scopes # <<>> /\ Last(scopes) = kind

\* AutoUndo(): begin_undoable_action.  Clients make none while the manager is
\* disabled: it would get no group, and never stop the tracking it started.
OpenGroup ==
    /\ running = "none"
    /\ blocks = 0
    /\ Len(scopes) < MaxNesting
    /\ ItemCount(undo) < MaxItems
    /\ tracking' = tracking + 1
    /\ scopes' = Append(scopes, "group")
    /\ AddUndo(Begin)
    /\ UNCHANGED <<content, running, blocks, limit, todo, base>>

\* A change of the document.  Lists changed in disabled sections are not those
\* that history is kept of.  Clients insert at the end with Npos (bound).
Edit(c) ==
    /\ InScope("group")
    /\ tracking > 0
    /\ ItemCount(undo) < MaxItems
    /\ InBounds(content, c)
    /\ Len(Changed(content, c)) <= MaxLength
    /\ c.op = "insert" => c.at # Len(content)
    /\ c.op = "reorder" => c.from # c.to /\ (AnyReorder \/ c.to < Len(content))
    /\ content' = Changed(content, c)
    /\ AddUndo(Recorded(content, c))
    /\ UNCHANGED <<running, blocks, limit, tracking, scopes, todo, base>>

\* stop_tracking_changes at the end of end_ and cancel_undoable_action
TrackingAfter_Kept == tracking
TrackingAfter == tracking - 1

\* AutoUndo::end, and end_or_cancel_if_empty for a group that is not empty.  The
\* outermost group completes an operation.
EndGroup ==
    /\ InScope("group")
    /\ undo' = Ended(undo)
    /\ tracking' = TrackingAfter
    /\ scopes' = Front(scopes)
    /\ base' = IF TopIsOpen(undo') THEN base ELSE content
    /\ UNCHANGED <<content, redo, running, blocks, limit, todo, saveVars>>

\* AutoUndo::cancel, end_or_cancel_if_empty and ~AutoUndo for an outermost group with nothing to undo.
CancelEmpty ==
    /\ InScope("group")
    /\ Last(undo).items = <<Begin>>
    /\ undo' = Ended(undo)
    /\ tracking' = TrackingAfter
    /\ scopes' = Front(scopes)
    /\ UNCHANGED <<content, redo, running, blocks, limit, todo, base, saveVars>>

\* AutoUndo::cancel and ~AutoUndo otherwise: the group is closed, and undone while the
\* manager is disabled.
CancelGroup ==
    /\ InScope("group")
    /\ Last(undo).items # <<Begin>>
    /\ undo' = Ended(undo)
    /\ LET items == Last(undo').items
       IN  todo' = Program(SubSeq(items, LastGroup(items), Len(items)))
    /\ running' = "cancel"
    /\ blocks' = blocks + 1
    /\ UNCHANGED <<content, redo, limit, tracking, scopes, base, saveVars>>

\* Disabled sections do not nest (bound).
Disable ==
    /\ running = "none"
    /\ Len(scopes) < MaxNesting
    /\ blocks = 0
    /\ blocks' = blocks + 1
    /\ scopes' = Append(scopes, "disabled")
    /\ UNCHANGED <<content, stacks, running, limit, tracking, todo, base, saveVars>>

Enable ==
    /\ InScope("disabled")
    /\ blocks' = blocks - 1
    /\ scopes' = Front(scopes)
    /\ UNCHANGED <<content, stacks, running, limit, tracking, todo, base, saveVars>>

-----------------------------------------------------------------------------
(* undo, redo and cancel, item by item.  Undo and redo are commands of the *)
(* main loop, when no AutoUndo is alive.                                   *)

Idle == running = "none" /\ scopes = <<>>

Undo ==
    /\ Idle
    /\ undo # <<>>
    /\ running' = "undo"
    /\ todo' = Program(Last(undo).items)
    /\ UNCHANGED <<content, stacks, blocks, limit, tracking, scopes, base, saveVars>>

Redo ==
    /\ Idle
    /\ redo # <<>>
    /\ running' = "redo"
    /\ todo' = Program(Last(redo).items)
    /\ UNCHANGED <<content, stacks, blocks, limit, tracking, scopes, base, saveVars>>

Recording == blocks = 0

\* UndoGroup::undo begins a group, for itself or for a group in it.
UndoBegins ==
    /\ todo # <<>>
    /\ Head(todo) = Begin
    /\ IF Recording THEN AddUndo(Begin) ELSE UNCHANGED <<stacks, saveVars>>
    /\ todo' = Tail(todo)
    /\ UNCHANGED <<content, running, blocks, limit, tracking, scopes, base>>

\* undo() of a single action: the list records the change it is told to make,
\* for tracking is switched on around it.
UndoesAction ==
    /\ todo # <<>>
    /\ Head(todo) \notin {Begin, End}
    /\ LET change == Reverting(content, Head(todo))
       IN  /\ content' = Changed(content, change)
           /\ IF Recording THEN AddUndo(Recorded(content, change))
                           ELSE UNCHANGED <<stacks, saveVars>>
    /\ todo' = Tail(todo)
    /\ UNCHANGED <<running, blocks, limit, tracking, scopes, base>>

\* The end of a group in the group that is undone.
UndoEndsInner ==
    /\ Len(todo) > 1
    /\ Head(todo) = End
    /\ IF ~Recording THEN UNCHANGED stacks
       ELSE IF running = "undo" THEN redo' = Ended(redo) /\ UNCHANGED undo
                                ELSE undo' = Ended(undo) /\ UNCHANGED redo
    /\ todo' = Tail(todo)
    /\ UNCHANGED <<content, running, blocks, limit, tracking, scopes, base, saveVars>>

\* The end of the group that is undone, and of undo() or redo(): the group it
\* came from is popped and deleted.
Completes ==
    /\ todo = <<End>>
    /\ todo' = <<>>
    /\ running' = "none"
    /\ base' = content

UndoReturns ==
    /\ running = "undo"
    /\ Completes
    /\ redo' = Ended(redo)
    /\ undo' = Front(undo)
    /\ UNCHANGED <<content, blocks, limit, tracking, scopes, saveVars>>

RedoReturns ==
    /\ running = "redo"
    /\ Completes
    /\ undo' = Ended(undo)
    /\ redo' = Front(redo)
    /\ UNCHANGED <<content, blocks, limit, tracking, scopes, saveVars>>

\* The cancelled group is deleted, tracking stops and the AutoUndo is gone.
CancelReturns ==
    /\ running = "cancel"
    /\ todo = <<End>>
    /\ todo' = <<>>
    /\ running' = "none"
    /\ undo' = Shrunk(undo, LastGroup(Last(undo).items))
    /\ blocks' = blocks - 1
    /\ tracking' = TrackingAfter
    /\ scopes' = Front(scopes)
    /\ UNCHANGED <<content, redo, limit, base, saveVars>>

-----------------------------------------------------------------------------
(* The options and the document, while nothing else is going on *)

SetLimit(n) ==
    /\ Idle
    /\ limit # n
    /\ limit' = n
    /\ undo' = Trimmed(undo, n)
    /\ ForgetTrimmed(undo, undo')
    /\ UNCHANGED <<content, redo, running, blocks, tracking, scopes, todo, base>>

\* get_latest_undo_action and get_latest_closed_undo_action, which agree when
\* no group is open.
Latest_First == IF undo = <<>> THEN Null ELSE undo[1].address
Latest == IF undo = <<>> THEN Null ELSE Last(undo).address

Save ==
    /\ Idle
    /\ savePoint' = Latest
    /\ saved' = content
    /\ trimmed' = FALSE
    /\ leaked' = FALSE
    /\ UNCHANGED <<content, stacks, running, blocks, limit, tracking, scopes, todo, base>>

\* do_close_document and a new document.
CloseDocument ==
    /\ Idle
    /\ content' = <<>>
    /\ undo' = <<>>
    /\ redo' = <<>>
    /\ base' = <<>>
    /\ savePoint' = Null
    /\ saved' = <<>>
    /\ trimmed' = FALSE
    /\ leaked' = FALSE
    /\ UNCHANGED <<running, blocks, limit, tracking, scopes, todo>>

Next ==
    \/ OpenGroup \/ EndGroup \/ CancelEmpty \/ CancelGroup
    \/ \E c \in Changes(content, Values) : Edit(c)
    \/ Disable \/ Enable
    \/ Undo \/ Redo
    \/ UndoBegins \/ UndoesAction \/ UndoEndsInner
    \/ UndoReturns \/ RedoReturns \/ CancelReturns
    \/ \E n \in Limits : SetLimit(n)
    \/ Save \/ CloseDocument

Spec == Init /\ [][Next]_vars

-----------------------------------------------------------------------------
(* Properties *)

\* The groups open on the undo stack are those of the AutoUndo objects alive:
\* end_undo_group never meets an empty stack or a closed group ("unmatched undo
\* group"), whatever was trimmed, nested, cancelled or undone before.
OpenGroupsMatch ==
    running = "none" =>
        LET open == CountOf(scopes, "group")
        IN  IF open = 0 THEN ~TopIsOpen(undo)
            ELSE undo # <<>> /\ Depth(Last(undo).items) = open

\* Each change that undo, redo or cancel is about to make finds the item it is
\* about: it raises no bad_item, which would leave _is_undoing set, and the
\* list's vector is not read past its end.
UndoStaysInBounds ==
    todo # <<>> /\ Head(todo) \notin {Begin, End} =>
        LET c == Reverting(content, Head(todo))
        IN  InBounds(content, c) /\ (c.op = "remove" => c.at >= 0)

\* So none of the manager's operations throws half way through its work.
NothingThrows == OpenGroupsMatch /\ UndoStaysInBounds

\* The undo stack never holds more than the limit, however it is filled.
LimitHolds == limit > 0 => Len(undo) <= limit

\* Changes are tracked exactly while a group is open; otherwise later changes
\* would be recorded outside of groups.
TrackingBalanced == running = "none" => tracking = CountOf(scopes, "group")

\* WBContext::has_unsaved_changes, as far as it depends on the undo manager.
HasUnsavedChanges == Latest # savePoint

\* A document that is not reported to have unsaved changes is what was saved.
UnchangedIsSaved == Idle /\ ~HasUnsavedChanges => content = saved

\* ... which holds as long as the save point's address is not used again and
\* no group was trimmed since.
UntrimmedUnchangedIsSaved ==
    Idle /\ ~trimmed /\ ~HasUnsavedChanges => content = saved

\* A group that is still being filled, or cancelled, is no history yet.
CompletedUndo ==
    IF TopIsOpen(undo) \/ (running = "cancel" /\ CountOf(scopes, "group") = 1)
    THEN Front(undo) ELSE undo

CompletedRedo == IF TopIsOpen(redo) THEN Front(redo) ELSE redo

Contents(stack) == [i \in DOMAIN stack |-> stack[i].before]

History == INSTANCE EditHistory WITH
    Blank <- <<>>,
    past <- Contents(CompletedUndo),
    present <- base,
    future <- Contents(Reverse(CompletedRedo))

\* Undo brings back the content before an operation, redo the one after it,
\* over any sequence of edits, nested groups, cancels and trims; a cancelled
\* group changes nothing.
ImplementsEditHistory == History!Spec
=============================================================================
