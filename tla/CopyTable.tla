----------------------------- MODULE CopyTable -----------------------------
(***************************************************************************)
(* The bulk data transfer of the migration wizard.  The wizard page        *)
(* (migration_data_transfer.py, DataMigrator.py) counts the rows of the    *)
(* tables that are left and starts the helper program wbcopytables         *)
(* (copytable/main.cpp), which moves the triggers of the target out of the *)
(* way, copies the tables with a few threads (copytable.cpp) and puts the  *)
(* triggers back.  What failed can be retried: the helper then goes on     *)
(* after the last key it finds in the target.                              *)
(*                                                                         *)
(* Every table has a primary key; its rows are numbered in the order of    *)
(* that key, in which they are read and inserted.  An INSERT takes all of  *)
(* its rows or, on a duplicate key, none (a transactional engine).  That a *)
(* record still fits into the insert buffer is left open, but a buffer     *)
(* takes at least one.  The server of the target goes on with a statement  *)
(* whose client died: it is kept in stray until it is done or lost.        *)
(***************************************************************************)
EXTENDS Naturals, FiniteSets, FiniteSetsExt, SequencesExt

CONSTANTS
  Tables,          \* the tables to be copied
  Rows,            \* the number of rows of each of them
  Threads,         \* --thread-count
  Batch,           \* the number of records in one INSERT (_bulk_insert_batch)
  TruncateTarget,  \* the option "Truncate target tables"
  Triggers,        \* the triggers of the target schema
  NoTable,
  MaxFaults        \* bound: errors, crashes and cancellations

ASSUME CopyAssumption ==
  /\ IsFiniteSet(Tables) /\ IsFiniteSet(Triggers)
  /\ Rows \in [Tables -> Nat]
  /\ Threads \in Nat \ {0} /\ Batch \in Nat \ {0}
  /\ TruncateTarget \in BOOLEAN /\ MaxFaults \in Nat
  /\ NoTable \notin Tables /\ \A s \in SUBSET Triggers : NoTable # s

VARIABLES
  phase,      \* of the page: "count", "copy", "retry" (the button), "stuck", "finished"
  resume,     \* DataMigrator._resume
  rowCount,   \* the row_count of the tables of _working_set
  heard,      \* the helper's output is still read: the user did not cancel
  progress,   \* the last PROGRESS of each table
  ended,      \* the tables with an END
  failed,     \* an ERROR, an error exit or a cancellation was seen
  helper,     \* where main() of the helper is
  queue,      \* TaskQueue._tasks
  task,       \* what each CopyDataTask is doing
  made,       \* created_table: the backup table was created by this helper
  skipped,    \* the definitions could not be read: the triggers stay active
  todo,       \* triggers still to be restored
  live,       \* the triggers of the schema
  backup,     \* the rows of the backup table, or NoTable
  target,     \* the rows in each target table
  stray,      \* statements on the server whose helper is dead
  spoilt,     \* history: triggers that were dropped and their backup after them
  faults

page    == <<phase, resume, rowCount>>
results == <<heard, progress, ended, failed>>
workers == <<queue, task>>
schema  == <<made, skipped, todo, live, backup, spoilt>>
vars    == <<page, results, helper, workers, schema, target, stray, faults>>

AllRows(t) == 1 .. Rows[t]
LastKey(t) == IF target[t] = {} THEN 0 ELSE Max(target[t])
IsCopied(t) == target[t] = AllRows(t)

\* buf: the records of the statement being built; record: the formatted one that
\* did not fit; copied: i of copy_table(); total: the rows that were counted
Task == [pc: {"gone", "idle", "keys", "begin", "fetch", "insert", "error"},
         table: Tables \cup {NoTable}, next: Nat, buf: SUBSET Nat, record: Nat,
         copied: Nat, total: Nat, connected: BOOLEAN]

NewTask(pc) == [pc |-> pc, table |-> NoTable, next |-> 0, buf |-> {}, record |-> 0,
                copied |-> 0, total |-> 0, connected |-> TRUE]

HelperPhases == {"none", "backup", "save", "drop", "copy", "restore", "create", "clear",
                 "done", "error"}

TypeOK ==
  /\ phase \in {"count", "copy", "retry", "stuck", "finished"}
  /\ resume \in BOOLEAN /\ heard \in BOOLEAN /\ failed \in BOOLEAN
  /\ ended \subseteq Tables
  /\ rowCount \in [Tables -> Nat] /\ progress \in [Tables -> Nat]
  /\ helper \in HelperPhases
  /\ queue \in Seq(Tables)
  /\ task \in [1 .. Threads -> Task]
  /\ made \in BOOLEAN /\ skipped \in BOOLEAN /\ spoilt \in BOOLEAN
  /\ live \subseteq Triggers /\ todo \subseteq Triggers
  /\ backup = NoTable \/ backup \subseteq Triggers
  /\ target \in [Tables -> SUBSET Nat]
  /\ stray \subseteq [table : Tables, rows : SUBSET Nat]
  /\ faults \in 0 .. MaxFaults

Init ==
  /\ phase = "count" /\ resume = FALSE
  /\ rowCount = [t \in Tables |-> 0]
  /\ heard = TRUE /\ progress = [t \in Tables |-> 0] /\ ended = {} /\ failed = FALSE
  /\ helper = "none"
  /\ queue = <<>> /\ task = [w \in 1 .. Threads |-> NewTask("gone")]
  /\ made = FALSE /\ skipped = FALSE /\ todo = {} /\ live = Triggers /\ backup = NoTable
  /\ spoilt = FALSE
  /\ target = [t \in Tables |-> {}] /\ stray = {}
  /\ faults = 0

Fault == faults < MaxFaults /\ faults' = faults + 1

-----------------------------------------------------------------------------
(***************************************************************************)
(* The wizard page.                                                        *)
(***************************************************************************)

\* _prepare_copy() and _count_rows(): all tables are in the working set of every round.
\* (Those that succeeded are to be left out, but _tables_to_exclude holds their quoted
\* names and is asked for the plain ones.)  With --resume only the rows after the last
\* key in the target are counted.
CountRows ==
  /\ phase = "count"
  /\ rowCount' = [t \in Tables |-> IF resume THEN Rows[t] - LastKey(t) ELSE Rows[t]]
  /\ phase' = "copy"
  /\ helper' = "none" /\ heard' = TRUE /\ failed' = FALSE
  /\ progress' = [t \in Tables |-> 0] /\ ended' = {}
  /\ UNCHANGED <<resume, workers, schema, target, stray, faults>>

\* The counting helper exits with an error: no Retry is offered, as the page's own
\* _resume was reset by go_retry().
CountFails ==
  /\ phase = "count" /\ Fault
  /\ phase' = "stuck"
  /\ UNCHANGED <<resume, rowCount, results, helper, workers, schema, target, stray>>

\* migrate_data(): starts the helper; every table is a task, in a fixed order.
StartHelper ==
  /\ phase = "copy" /\ helper = "none"
  /\ helper' = "backup" /\ made' = FALSE /\ skipped' = FALSE /\ todo' = {}
  /\ queue' = SetToSeq(Tables)
  /\ task' = [w \in 1 .. Threads |->
                NewTask(IF w <= Cardinality(Tables) THEN "idle" ELSE "gone")]
  /\ UNCHANGED <<page, results, live, backup, spoilt, target, stray, faults>>

\* The user cancels: the output is not read any more, but the helper is waited for
\* (TableCopyWorker.terminate() communicates with it first).
Cancel ==
  /\ helper \notin {"none", "done", "error"} /\ heard /\ Fault
  /\ heard' = FALSE /\ failed' = TRUE
  /\ UNCHANGED <<page, progress, ended, helper, workers, schema, target, stray>>

\* A table counts as fully copied when it ended with as many rows as were counted.
Succeeded_Ended == ended
Succeeded == {t \in ended : progress[t] = rowCount[t]}

\* The end of process_until_done() and of _migrate_data()
RoundEnds ==
  /\ phase = "copy" /\ helper \in {"done", "error"}
  /\ resume' = (failed \/ helper = "error")
  /\ phase' = IF resume' THEN "retry" ELSE "finished"
  /\ UNCHANGED <<rowCount, results, helper, workers, schema, target, stray, faults>>

\* go_retry()
Retry ==
  /\ phase = "retry"
  /\ phase' = "count"
  /\ UNCHANGED <<resume, rowCount, results, helper, workers, schema, target, stray,
                 faults>>

\* go_back() and page_activated(): a new DataMigrator, without --resume
Reenter ==
  /\ phase \in {"retry", "stuck"}
  /\ phase' = "count" /\ resume' = FALSE
  /\ UNCHANGED <<rowCount, results, helper, workers, schema, target, stray, faults>>

-----------------------------------------------------------------------------
(***************************************************************************)
(* The helper: triggers.                                                   *)
(***************************************************************************)

notTriggers == <<page, results, workers, target, stray>>

\* get_triggers_for_schema(), the CREATE TABLE (which may find the table of an earlier
\* run) and get_trigger_definitions_for_schema(): when that fails the triggers stay.
BackupStart ==
  /\ helper = "backup"
  /\ IF live = {} THEN helper' = "copy" /\ UNCHANGED <<schema, faults>>
     ELSE /\ made' = (backup = NoTable)
          /\ backup' = IF backup = NoTable THEN {} ELSE backup
          /\ \/ helper' = "save" /\ UNCHANGED <<skipped, faults>>
             \/ Fault /\ skipped' = TRUE /\ helper' = "copy"
          /\ UNCHANGED <<todo, live, spoilt>>
  /\ UNCHANGED notTriggers

\* INSERT into the backup table; a trigger that is there already is fine
SaveTrigger ==
  /\ helper = "save"
  /\ \/ \E t \in live \ backup : backup' = backup \cup {t}
     \/ live \subseteq backup /\ UNCHANGED backup
  /\ helper' = IF live \subseteq backup' THEN "drop" ELSE "save"
  /\ UNCHANGED <<notTriggers, made, skipped, todo, live, spoilt, faults>>

DropTrigger ==
  /\ helper = "drop"
  /\ \E t \in live : live' = live \ {t}
  /\ helper' = IF live' = {} THEN "copy" ELSE "drop"
  /\ UNCHANGED <<notTriggers, made, skipped, todo, backup, spoilt, faults>>

\* drop_trigger_backups() "if created_table", once the CREATE TABLE was done
Discards_Always == helper # "backup"
Discards == helper # "backup" /\ made

\* A statement of the backup fails: main() ends with an error, and a backup table
\* that this helper created is dropped, whatever was dropped before it.
BackupFails ==
  /\ helper \in {"backup", "save", "drop"} /\ Fault
  /\ helper' = "error"
  /\ backup' = IF Discards THEN NoTable ELSE backup
  /\ spoilt' = (spoilt \/ (helper = "drop" /\ made))
  /\ UNCHANGED <<notTriggers, made, skipped, todo, live>>

\* All threads have ended: restore_triggers() reads the backup table, if there is one.
RestoreStart ==
  /\ helper = "copy" /\ \A w \in 1 .. Threads : task[w].pc = "gone"
  /\ IF backup = NoTable THEN helper' = "done" /\ UNCHANGED todo
     ELSE helper' = (IF backup = {} THEN "clear" ELSE "create") /\ todo' = backup
  /\ UNCHANGED <<notTriggers, made, skipped, live, backup, spoilt, faults>>

\* CREATE TRIGGER.  Of the errors for one that exists a server gives either the one
\* that is taken for it (1235) or another, which ends the helper.
RestoreTrigger ==
  /\ helper = "create"
  /\ \E t \in todo :
       /\ todo' = todo \ {t} /\ live' = live \cup {t}
       /\ \/ helper' = IF todo' = {} THEN "clear" ELSE "create"
          \/ t \in live /\ helper' = "error"
  /\ UNCHANGED <<notTriggers, made, skipped, backup, spoilt, faults>>

\* drop_trigger_backups()
ClearBackup ==
  /\ helper = "clear"
  /\ backup' = NoTable /\ helper' = "done"
  /\ UNCHANGED <<notTriggers, made, skipped, todo, live, spoilt, faults>>

RestoreFails ==
  /\ helper \in {"create", "clear"} /\ Fault
  /\ helper' = "error"
  /\ UNCHANGED <<notTriggers, schema>>

-----------------------------------------------------------------------------
(***************************************************************************)
(* The helper: the copying threads.                                        *)
(***************************************************************************)

notCopying == <<page, helper, schema, stray>>
Become(w, new) == task' = [task EXCEPT ![w] = new]
Copies(w, pc) == helper = "copy" /\ task[w].pc = pc

\* thread_func(): the next table, or the end of the thread
GetTask(w) ==
  /\ Copies(w, "idle")
  /\ IF queue = <<>> THEN Become(w, NewTask("gone")) /\ UNCHANGED queue
     ELSE /\ Become(w, [NewTask("keys") EXCEPT !.table = Head(queue),
                                               !.connected = task[w].connected])
          /\ queue' = Tail(queue)
  /\ UNCHANGED <<notCopying, results, target, faults>>

\* The row to go on with: get_where_condition() after the last key
ResumeAt_Next(t) == 2 + LastKey(t)
ResumeAt_First(t) == 1
ResumeAt(t) == 1 + LastKey(t)

\* get_last_pkeys()
GetLastKeys(w) ==
  /\ Copies(w, "keys") /\ (resume => task[w].connected)
  /\ Become(w, [task[w] EXCEPT !.pc = "begin",
                               !.next = IF resume THEN ResumeAt(task[w].table) ELSE 1])
  /\ UNCHANGED <<notCopying, results, queue, target, faults>>

\* count_rows(), begin_select_table(), set_target_table() with its TRUNCATE and
\* begin_inserts()
BeginCopy(w) ==
  LET t == task[w].table IN
  /\ Copies(w, "begin") /\ task[w].connected
  /\ Become(w, [task[w] EXCEPT !.pc = "fetch", !.total = (Rows[t] + 1) - task[w].next])
  /\ target' = IF TruncateTarget THEN [target EXCEPT ![t] = {}] ELSE target
  /\ UNCHANGED <<notCopying, results, queue, faults>>

\* fetch_row() and do_insert(): a record that was left over comes first; the statement
\* is sent when the next one does not fit or the batch is full.  After the last row
\* end_inserts() sends what is left.
FetchRow(w) ==
  LET k == task[w]
      built == k.buf \cup ({k.record} \ {0})
      more == k.next <= Rows[k.table]
  IN
  /\ Copies(w, "fetch") /\ (more \/ built # {})
  /\ \E fits \in BOOLEAN :
       /\ built = {} \/ ~more => fits
       /\ Become(w, [k EXCEPT !.next = IF more THEN k.next + 1 ELSE k.next,
                              !.buf = IF more /\ fits THEN built \cup {k.next} ELSE built,
                              !.record = IF fits THEN 0 ELSE k.next,
                              !.pc = IF more /\ fits /\ Cardinality(built) + 1 # Batch
                                     THEN "fetch" ELSE "insert"])
  /\ UNCHANGED <<notCopying, results, queue, target, faults>>

Insert(t, rows) == target' = [target EXCEPT ![t] = @ \cup rows]

\* mysql_real_query() succeeds and report_progress() is printed.
InsertRows(w) ==
  LET k == task[w] IN
  /\ Copies(w, "insert") /\ k.connected /\ k.buf \cap target[k.table] = {}
  /\ Insert(k.table, k.buf)
  /\ Become(w, [k EXCEPT !.pc = "fetch", !.buf = {},
                         !.copied = k.copied + Cardinality(k.buf)])
  /\ progress' = IF heard THEN [progress EXCEPT ![k.table] = k.copied + Cardinality(k.buf)]
                 ELSE progress
  /\ UNCHANGED <<notCopying, queue, heard, ended, failed, faults>>

\* The INSERT fails: a duplicate key, an error of the server, or a connection that is
\* lost, before or after the server did it.
InsertFails(w) ==
  LET k == task[w] IN
  /\ Copies(w, "insert")
  /\ \/ /\ ~k.connected \/ k.buf \cap target[k.table] # {}
        /\ Become(w, [k EXCEPT !.pc = "error"]) /\ UNCHANGED <<target, faults>>
     \/ /\ k.connected /\ k.buf \cap target[k.table] = {} /\ Fault
        /\ \/ /\ \E c \in BOOLEAN : Become(w, [k EXCEPT !.pc = "error", !.connected = c])
              /\ UNCHANGED target
           \/ /\ Become(w, [k EXCEPT !.pc = "error", !.connected = FALSE])
              /\ Insert(k.table, k.buf)
  /\ UNCHANGED <<notCopying, results, queue>>

\* Another exception of copy_table(): the connection of the target is gone, or the
\* source fails (before the rows were counted, too).
CopyFails(w) ==
  LET k == task[w] IN
  /\ \E pc \in {"keys", "begin", "fetch"} : Copies(w, pc)
  /\ \/ ~k.connected /\ k.pc # "fetch" /\ (k.pc = "keys" => resume) /\ UNCHANGED faults
     \/ Fault
  /\ \E counted \in BOOLEAN :
       Become(w, [k EXCEPT !.pc = "error",
                           !.total = IF k.pc = "begin" /\ counted
                                     THEN (Rows[k.table] + 1) - k.next ELSE @])
  /\ UNCHANGED <<notCopying, results, queue, target>>

\* The ERROR of the exception, if there was one, and the END or ERROR of every table
Report(w, error) ==
  LET k == task[w]
      complete == k.copied = k.total
  IN
  /\ Become(w, [NewTask("idle") EXCEPT !.connected = k.connected])
  /\ ended' = IF heard /\ complete THEN ended \cup {k.table} ELSE ended
  /\ failed' = (failed \/ (heard /\ (error \/ ~complete)))
  /\ UNCHANGED <<notCopying, queue, heard, progress, target, faults>>

EndCopy(w) ==
  /\ Copies(w, "fetch") /\ task[w].next > Rows[task[w].table]
  /\ task[w].buf = {} /\ task[w].record = 0
  /\ Report(w, FALSE)

EndFailed(w) == Copies(w, "error") /\ Report(w, TRUE)

-----------------------------------------------------------------------------
(***************************************************************************)
(* Crashes of the helper, and the server behind it.                        *)
(***************************************************************************)

\* The helper dies; the statements it had sent are still with the server.
Crash ==
  /\ helper \notin {"none", "done", "error"} /\ Fault
  /\ helper' = "error"
  /\ stray' = stray \cup {[table |-> task[w].table, rows |-> task[w].buf] :
                            w \in {v \in 1 .. Threads : task[v].pc = "insert"
                                                        /\ task[v].connected}}
  /\ task' = [w \in 1 .. Threads |-> NewTask("gone")] /\ queue' = <<>>
  /\ UNCHANGED <<page, results, schema, target>>

\* The server does such a statement, or refuses it, or never got it.
StrayEnds ==
  /\ \E s \in stray :
       /\ stray' = stray \ {s}
       /\ \/ s.rows \cap target[s.table] = {} /\ Insert(s.table, s.rows)
          \/ UNCHANGED target
  /\ UNCHANGED <<page, results, helper, workers, schema, faults>>

-----------------------------------------------------------------------------
Wizard == CountRows \/ StartHelper \/ RoundEnds
User == Retry \/ Reenter \/ Cancel
TriggerStep == \/ BackupStart \/ SaveTrigger \/ DropTrigger
               \/ RestoreStart \/ RestoreTrigger \/ ClearBackup
CopyStep(w) ==
  \/ GetTask(w) \/ GetLastKeys(w) \/ BeginCopy(w) \/ FetchRow(w)
  \/ InsertRows(w) \/ InsertFails(w) \/ CopyFails(w) \/ EndCopy(w) \/ EndFailed(w)
Failure == CountFails \/ BackupFails \/ RestoreFails \/ Crash \/ StrayEnds

Done == phase = "finished" /\ stray = {} /\ UNCHANGED vars

Next == \/ Wizard \/ User \/ TriggerStep \/ Failure \/ Done
        \/ \E w \in 1 .. Threads : CopyStep(w)

\* The programs go on; nothing is assumed of the user, of errors and of the server.
Fairness ==
  /\ WF_vars(Wizard) /\ WF_vars(TriggerStep)
  /\ \A w \in 1 .. Threads : WF_vars(CopyStep(w))

Spec == Init /\ [][Next]_vars /\ Fairness

-----------------------------------------------------------------------------
(***************************************************************************)
(* Properties.                                                             *)
(***************************************************************************)

\* What a target table holds is the beginning of its source, whatever failed and when:
\* only then is the last key the place to go on from (get_last_pkeys()).
PrefixOnly == \A t \in Tables : target[t] = 1 .. LastKey(t)

\* A table the page reports as succeeded has all of its rows, also when it went through
\* further rounds; and the page is only finished with every table copied.
SucceededIsCopied ==
  /\ phase \in {"retry", "finished"} => \A t \in Succeeded : IsCopied(t)
  /\ phase = "finished" => \A t \in Tables : IsCopied(t)

\* A trigger of the target is always there or in the backup table, through crashes,
\* failures and retries; except after a DROP TRIGGER failed, for which a backup table
\* made by the same helper is dropped.  A helper that ends without an error leaves every
\* trigger active and no backup table, also when it finds that of one that died.
Saved == IF backup = NoTable THEN {} ELSE backup
TriggersKept ==
  /\ spoilt \/ Triggers \subseteq live \cup Saved
  /\ helper = "done" => backup = NoTable /\ (spoilt \/ live = Triggers)

\* A helper inserts rows only with the triggers out of the way, unless it could not read
\* their definitions.
NoTriggerFires ==
  [][\A w \in 1 .. Threads : InsertRows(w) => live = {} \/ skipped]_vars

\* A user who retries whenever that is offered, and comes back to the page when it is
\* not, gets everything copied.
TryingSucceeds ==
  (phase = "retry" ~> phase = "count" /\ resume) /\ (phase = "stuck" ~> phase = "count")
    => <>[](phase = "finished")
=============================================================================
