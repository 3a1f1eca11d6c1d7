---------------------------- MODULE CopyTableProofs ----------------------------
(***************************************************************************)
(* Proofs about CopyTable, for any tables, rows, threads, batches, sets of *)
(* triggers and number of failures: the triggers of the target are kept    *)
(* and do not fire, what a target table holds is the beginning of its      *)
(* source, and what is reported as copied is complete.                     *)
(***************************************************************************)
EXTENDS CopyTable, FiniteSetTheorems, SequenceTheorems, TLAPS

(* Triggers *)

TriggerTypes ==
    /\ live \subseteq Triggers /\ todo \subseteq Triggers
    /\ backup = NoTable \/ backup \subseteq Triggers

\* A trigger is there or in the backup table, or it was lost to a backup that
\* its own helper dropped.
Kept == spoilt \/ Triggers \subseteq live \cup Saved

\* What main() of the helper relies on, from its backup to its restore: what is
\* dropped was saved; a backup table that may be thrown away is not needed yet;
\* only triggers that stay active are there while rows are copied; what was not
\* restored is still to be restored.
HelperKnows ==
    /\ helper \in {"save", "drop", "create"} => backup # NoTable
    /\ helper = "save" /\ made => spoilt \/ live = Triggers
    /\ helper = "drop" => live \subseteq Saved
    /\ helper = "copy" => live = {} \/ skipped
    /\ helper = "create" => spoilt \/ Triggers \subseteq live \cup todo
    /\ helper = "clear" => spoilt \/ live = Triggers
    /\ helper = "done" => backup = NoTable /\ (spoilt \/ live = Triggers)

TriggerInv == TriggerTypes /\ Kept /\ HelperKnows

\* The triggers' part of the state changes only with the helper's main thread.
LEMMA OthersKeepTriggers ==
  ASSUME TriggerInv, UNCHANGED <<helper, made, skipped, todo, live, backup,
     spoilt>>
  PROVE  TriggerInv'
BY DEF TriggerInv, TriggerTypes, Kept, HelperKnows, Saved

\* Every step keeps the invariant of the triggers.
LEMMA TriggerStepKeeps ==
  ASSUME TriggerInv, [Next]_vars
  PROVE  TriggerInv'
<1> USE CopyAssumption DEF TriggerInv, TriggerTypes, Kept, HelperKnows, Saved
<1>1. ASSUME BackupStart PROVE TriggerInv'
  BY <1>1 DEF BackupStart, notTriggers, page, results, workers, schema
<1>2. ASSUME SaveTrigger PROVE TriggerInv'
  BY <1>2 DEF SaveTrigger, notTriggers, page, results, workers
<1>3. ASSUME DropTrigger PROVE TriggerInv'
  BY <1>3 DEF DropTrigger, notTriggers, page, results, workers
<1>4. ASSUME BackupFails PROVE TriggerInv'
  BY <1>4 DEF BackupFails, notTriggers, page, results, workers, Discards
<1>5. ASSUME RestoreStart PROVE TriggerInv'
  BY <1>5 DEF RestoreStart, notTriggers, page, results, workers
<1>6. ASSUME RestoreTrigger PROVE TriggerInv'
  BY <1>6 DEF RestoreTrigger, notTriggers, page, results, workers
<1>7. ASSUME ClearBackup PROVE TriggerInv'
  BY <1>7 DEF ClearBackup, notTriggers, page, results, workers
<1>8. ASSUME RestoreFails PROVE TriggerInv'
  BY <1>8 DEF RestoreFails, notTriggers, page, results, workers, schema
<1>9. ASSUME StartHelper PROVE TriggerInv'
  BY <1>9 DEF StartHelper, page, results
<1>10. ASSUME CountRows PROVE TriggerInv'
  BY <1>10 DEF CountRows, workers, schema
<1>11. ASSUME Crash PROVE TriggerInv'
  BY <1>11 DEF Crash, page, results, schema
<1>12. ASSUME CountFails PROVE TriggerInv'
  BY <1>12, OthersKeepTriggers DEF CountFails, results, workers, schema
<1>13. ASSUME Cancel PROVE TriggerInv'
  BY <1>13, OthersKeepTriggers DEF Cancel, page, workers, schema
<1>14. ASSUME RoundEnds PROVE TriggerInv'
  BY <1>14, OthersKeepTriggers DEF RoundEnds, results, workers, schema
<1>15. ASSUME Retry PROVE TriggerInv'
  BY <1>15, OthersKeepTriggers DEF Retry, results, workers, schema
<1>16. ASSUME Reenter PROVE TriggerInv'
  BY <1>16, OthersKeepTriggers DEF Reenter, results, workers, schema
<1>17. ASSUME StrayEnds PROVE TriggerInv'
  BY <1>17, OthersKeepTriggers DEF StrayEnds, page, results, workers, schema
<1>18. ASSUME NEW w \in 1 .. Threads, CopyStep(w) PROVE TriggerInv'
  BY <1>18, OthersKeepTriggers
  DEF CopyStep, GetTask, GetLastKeys, BeginCopy, FetchRow, InsertRows,
     InsertFails, CopyFails, EndCopy, EndFailed, Report, notCopying, schema
<1>19. CASE UNCHANGED vars
  BY <1>19, OthersKeepTriggers DEF vars, schema
<1>20. CASE Done
  BY <1>20, OthersKeepTriggers DEF Done, vars, schema
<1> QED
  BY <1>1, <1>2, <1>3, <1>4, <1>5, <1>6, <1>7, <1>8, <1>9, <1>10, <1>11,
     <1>12, <1>13, <1>14, <1>15, <1>16, <1>17, <1>18, <1>19, <1>20
  DEF Next, Wizard, User, TriggerStep, Failure

\* A trigger of the target is always there or in the backup table, whatever dies
\* or fails, and a helper that ends well leaves all of them active (main() of the
\* helper with backup_triggers, restore_triggers and drop_trigger_backups).
THEOREM TriggersAlwaysKept == Spec => []TriggersKept
<1>1. Init => TriggerInv
  BY CopyAssumption DEF Init, TriggerInv, TriggerTypes, Kept, HelperKnows, Saved
<1>2. TriggerInv => TriggersKept
  BY DEF TriggerInv, Kept, HelperKnows, TriggersKept
<1> QED BY <1>1, <1>2, TriggerStepKeeps, PTL DEF Spec

\* No row is inserted while a trigger of the target is active, unless the helper
\* could not read the triggers' definitions.
THEOREM TriggersNeverFire == Spec => NoTriggerFires
<1>1. Init => TriggerInv
  BY CopyAssumption DEF Init, TriggerInv, TriggerTypes, Kept, HelperKnows, Saved
<1>2. TriggerInv /\ [Next]_vars
        => [\A w \in 1 .. Threads : InsertRows(w) => live = {} \/ skipped]_vars
  BY DEF TriggerInv, HelperKnows, InsertRows, Copies
<1> QED BY <1>1, <1>2, TriggerStepKeeps, PTL DEF Spec, NoTriggerFires

-----------------------------------------------------------------------------
(* What a target table holds is the beginning of its source.                 *)

\* Every target table is a beginning of its source.
Keys == \A t \in Tables : LastKey(t) \in 0 .. Rows[t] /\ target[t] = 1 .. LastKey(t)

\* A statement with the rows s to e of t goes on where the target ends, or
\* starts in what is there already.
Goes(t, s, e) ==
    /\ s \in Nat \ {0} /\ e \in Nat
    /\ s <= e + 1 /\ e <= Rows[t]
    /\ s <= LastKey(t) + 1

\* A thread between the keys it read and the end of its table.  The rows of a
\* statement are consecutive; a record that did not fit is the next one.
Reads(k) ==
    /\ k.pc \in {"keys", "begin", "fetch", "insert", "error"} => k.table \in Tables
    /\ k.pc \in {"keys", "begin"} => k.buf = {} /\ k.record = 0
    /\ k.pc = "begin" => k.next \in 1 .. LastKey(k.table) + 1
    /\ k.pc \in {"fetch", "insert"} =>
           \E s, e \in Nat :
               /\ Goes(k.table, s, e) /\ k.buf = s .. e
               /\ \/ k.record = 0 /\ k.next = e + 1
                  \/ k.record = e + 1 /\ k.next = e + 2 /\ e + 1 <= Rows[k.table]

Threading == \A w \in 1 .. Threads : Reads(task[w])

\* A statement that outlived its helper is one of a thread.
Straying == \A x \in stray : \E s, e \in Nat : Goes(x.table, s, e) /\ x.rows = s .. e

CopyInv == TypeOK /\ Keys /\ Threading /\ Straying

\* The greatest of the first n numbers
LEMMA HighestOf ==
  \A n \in Nat : \A S : S = 1 .. n => (IF S = {} THEN 0 ELSE Max(S)) = n
<1> SUFFICES ASSUME NEW n \in Nat, n # 0 PROVE Max(1 .. n) = n
  OBVIOUS
<1>1. n \in 1 .. n /\ \A y \in 1 .. n : n >= y
  OBVIOUS
<1>2. /\ Max(1 .. n) \in 1 .. n
      /\ \A y \in 1 .. n : Max(1 .. n) >= y
  BY <1>1 DEF Max
<1> QED BY <1>1, <1>2

\* A set as a sequence: each element once.
LEMMA SequenceOf ==
  ASSUME NEW S, IsFiniteSet(S)
  PROVE  SetToSeq(S) \in Seq(S)
<1>1. \E f : f \in Bijection(1 .. Cardinality(S), S) /\ Cardinality(S) \in Nat
  BY FS_CardinalityType DEF ExistsBijection
<1>2. \E f \in [1 .. Cardinality(S) -> S] : IsInjective(f)
  BY <1>1 DEF Bijection, Injection
<1>3. SetToSeq(S) \in [1 .. Cardinality(S) -> S]
  BY <1>2 DEF SetToSeq
<1> QED BY <1>1, <1>3

\* INSERT of rows that are not there: the first rows are followed by the next.
LEMMA InsertAppends ==
  ASSUME TypeOK, Keys, NEW t \in Tables, NEW s \in Nat, NEW e \in Nat, Goes(t, s, e),
         (s .. e) \cap target[t] = {}, Insert(t, s .. e)
  PROVE  /\ Keys' /\ target' \in [Tables -> SUBSET Nat]
         /\ \A u \in Tables : LastKey(u) <= LastKey(u)'
         /\ e <= LastKey(t)'
<1> USE CopyAssumption DEF Keys
<1>1. target' = [target EXCEPT ![t] = target[t] \cup (s .. e)]
  BY DEF Insert
<1>2. target' \in [Tables -> SUBSET Nat]
  BY <1>1 DEF TypeOK
<1>3. \A u \in Tables : u # t => target[u]' = target[u] /\ LastKey(u)' = LastKey(u)
  BY <1>1 DEF TypeOK, LastKey
<1> DEFINE n == LastKey(t)
           m == IF s <= e THEN e ELSE n
<1>4. n \in Nat /\ n <= Rows[t] /\ Rows[t] \in Nat /\ target[t] = 1 .. n
  OBVIOUS
<1>5. m \in Nat /\ n <= m /\ e <= m /\ m <= Rows[t] /\ target'[t] = 1 .. m
  <2>1. target'[t] = (1 .. n) \cup (s .. e)
    BY <1>1, <1>4 DEF TypeOK
  <2>2. CASE s <= e
    <3>1. s = n + 1
      <4>1. s \in Nat \ {0} /\ s <= n + 1
        BY DEF Goes
      <4>2. s \in s .. e
        BY <2>2
      <4>3. s \notin 1 .. n
        BY <1>4, <4>2
      <4> HIDE DEF n
      <4> QED BY <1>4, <4>1, <4>3
    <3> QED BY <1>4, <2>1, <2>2, <3>1 DEF Goes
  <2>3. CASE ~(s <= e)
    BY <1>4, <2>1, <2>3 DEF Goes
  <2> QED BY <2>2, <2>3
<1>6. LastKey(t)' = m
  <2> HIDE DEF m
  <2> QED BY <1>5, HighestOf DEF LastKey
<1> HIDE DEF n, m
<1> QED BY <1>2, <1>3, <1>4, <1>5, <1>6

\* What a thread relies on stays true while the tables grow.
LEMMA ReadsStays ==
  ASSUME TypeOK, Keys, Keys', NEW k \in Task, Reads(k),
         \A u \in Tables : LastKey(u) <= LastKey(u)'
  PROVE  Reads(k)'
<1> USE CopyAssumption
<1>1. \A u \in Tables : LastKey(u) \in Nat /\ LastKey(u)' \in Nat
  BY DEF Keys
<1>2. \A u \in Tables : \A s, e : Goes(u, s, e) => Goes(u, s, e)'
  BY <1>1 DEF Goes
<1> QED BY <1>1, <1>2 DEF Reads, Task

LEMMA StrayingStays ==
  ASSUME TypeOK, Keys, Keys', Straying, stray' \subseteq stray,
         \A u \in Tables : LastKey(u) <= LastKey(u)'
  PROVE  Straying'
<1>1. \A u \in Tables : LastKey(u) \in Nat /\ LastKey(u)' \in Nat
  BY CopyAssumption DEF Keys
<1>2. \A u \in Tables : \A s, e : Goes(u, s, e) => Goes(u, s, e)'
  BY <1>1 DEF Goes
<1>3. \A x \in stray : x.table \in Tables
  BY DEF TypeOK
<1> QED BY <1>2, <1>3 DEF Straying

\* Without a change of the tables nothing that relies on them changes.
LEMMA SameTarget ==
  ASSUME Keys, target' = target
  PROVE  Keys' /\ \A u \in Tables : LastKey(u)' = LastKey(u) /\ LastKey(u) <= LastKey(u)'
BY CopyAssumption DEF Keys, LastKey


\* A step of one thread: what it becomes is all there is to show.
LEMMA OneThread ==
  ASSUME CopyInv, NEW w \in 1 .. Threads, Keys',
         \A u \in Tables : LastKey(u) <= LastKey(u)',
         \E new \in Task : task' = [task EXCEPT ![w] = new] /\ Reads(new)',
         stray' = stray
  PROVE  task' \in [1 .. Threads -> Task] /\ Threading' /\ Straying'
<1> USE DEF CopyInv
<1>1. PICK new \in Task : task' = [task EXCEPT ![w] = new] /\ Reads(new)'
  OBVIOUS
<1>2. task \in [1 .. Threads -> Task]
  BY DEF TypeOK
<1>3. task' \in [1 .. Threads -> Task]
  BY <1>1, <1>2
<1>4. \A k \in Task : Reads(k) => Reads(k)'
  BY ReadsStays
<1>5. ASSUME NEW v \in 1 .. Threads PROVE Reads(task[v])'
  <2>1. CASE v = w
    BY <1>1, <1>2, <2>1
  <2>2. CASE v # w
    <3>1. task'[v] = task[v] /\ task[v] \in Task /\ Reads(task[v])
      BY <1>1, <1>2, <2>2 DEF Threading
    <3> QED BY <1>4, <3>1
  <2> QED BY <2>1, <2>2
<1>6. Straying'
  BY StrayingStays
<1> QED BY <1>3, <1>5, <1>6 DEF Threading

\* How many rows a statement has
LEMMA RowsCounted ==
  ASSUME NEW k \in Task, Reads(k), k.pc \in {"fetch", "insert"}
  PROVE  IsFiniteSet(k.buf) /\ Cardinality(k.buf) \in Nat
<1>1. PICK s, e \in Nat : k.buf = s .. e
  BY DEF Reads
<1> QED BY <1>1, FS_Interval, FS_CardinalityType

\* The rest of the types, when a thread moves
LEMMA OtherTypes ==
  ASSUME TypeOK, UNCHANGED <<page, helper, schema, stray>>,
         heard' \in BOOLEAN, failed' \in BOOLEAN, ended' \subseteq Tables,
         progress' \in [Tables -> Nat], queue' \in Seq(Tables),
         task' \in [1 .. Threads -> Task], target' \in [Tables -> SUBSET Nat],
         faults' \in 0 .. MaxFaults
  PROVE  TypeOK'
BY DEF TypeOK, page, schema


LEMMA GetTaskKeeps ==
  ASSUME CopyInv, NEW w \in 1 .. Threads, GetTask(w)
  PROVE  CopyInv'
<1> USE DEF CopyInv
<1>1. UNCHANGED <<page, helper, schema, stray, results, target, faults>>
  BY DEF GetTask, notCopying
<1>2. Keys' /\ \A u \in Tables : LastKey(u) <= LastKey(u)'
  BY <1>1, SameTarget
<1>3. PICK k \in Task : k = task[w]
  BY DEF TypeOK
<1>4. (\E new \in Task : task' = [task EXCEPT ![w] = new] /\ Reads(new)')
        /\ queue' \in Seq(Tables)
  <2>1. CASE queue = <<>>
    <3>1. task' = [task EXCEPT ![w] = NewTask("gone")] /\ queue' = queue
      BY <2>1 DEF GetTask, Become
    <3>2. NewTask("gone") \in Task /\ Reads(NewTask("gone"))'
      BY DEF NewTask, Task, Reads
    <3> QED BY <3>1, <3>2 DEF TypeOK
  <2>2. CASE queue # <<>>
    <3>1. PICK t \in Tables : t = Head(queue)
      BY <2>2, HeadTailProperties DEF TypeOK
    <3> DEFINE new == [NewTask("keys") EXCEPT !.table = t, !.connected = k.connected]
    <3>2. task' = [task EXCEPT ![w] = new] /\ queue' = Tail(queue)
      BY <1>3, <2>2, <3>1 DEF GetTask, Become
    <3>3. new \in Task /\ Reads(new)'
      BY DEF NewTask, Task, Reads
    <3> HIDE DEF new
    <3> QED BY <2>2, <3>2, <3>3, HeadTailProperties DEF TypeOK
  <2> QED BY <2>1, <2>2
<1>5. task' \in [1 .. Threads -> Task] /\ Threading' /\ Straying'
  BY <1>1, <1>2, <1>4, OneThread
<1>6. TypeOK'
  BY <1>1, <1>4, <1>5, OtherTypes DEF TypeOK, results
<1> QED BY <1>2, <1>5, <1>6

LEMMA GetLastKeysKeeps ==
  ASSUME CopyInv, NEW w \in 1 .. Threads, GetLastKeys(w)
  PROVE  CopyInv'
<1> USE DEF CopyInv
<1>1. UNCHANGED <<page, helper, schema, stray, results, queue, target, faults>>
  BY DEF GetLastKeys, notCopying
<1>2. Keys' /\ \A u \in Tables : LastKey(u) = LastKey(u)' /\ LastKey(u) <= LastKey(u)'
  BY <1>1, SameTarget
<1>3. PICK k \in Task : k = task[w]
  BY DEF TypeOK
<1>4. \E new \in Task : task' = [task EXCEPT ![w] = new] /\ Reads(new)'
  <2>1. k.pc = "keys" /\ k.table \in Tables /\ k.buf = {} /\ k.record = 0
    BY <1>3 DEF GetLastKeys, Copies, Threading, Reads
  <2>2. PICK n \in Nat : n = (IF resume THEN 1 + LastKey(k.table) ELSE 1)
    BY <2>1 DEF Keys
  <2>3. task' = [task EXCEPT ![w] = [k EXCEPT !.pc = "begin", !.next = n]]
    BY <1>3, <2>2 DEF GetLastKeys, Become, ResumeAt
  <2>4. [k EXCEPT !.pc = "begin", !.next = n] \in Task
    BY DEF Task
  <2>5. n \in 1 .. LastKey(k.table)' + 1
    BY <1>2, <2>1, <2>2, CopyAssumption DEF Keys
  <2>6. Reads([k EXCEPT !.pc = "begin", !.next = n])'
    BY <2>1, <2>5 DEF Reads, Task
  <2> QED BY <2>3, <2>4, <2>6
<1>5. task' \in [1 .. Threads -> Task] /\ Threading' /\ Straying'
  BY <1>1, <1>2, <1>4, OneThread
<1>6. TypeOK'
  BY <1>1, <1>5, OtherTypes DEF TypeOK, results
<1> QED BY <1>2, <1>5, <1>6

LEMMA BeginCopyKeeps ==
  ASSUME CopyInv, ~TruncateTarget, NEW w \in 1 .. Threads, BeginCopy(w)
  PROVE  CopyInv'
<1> USE DEF CopyInv
<1>1. UNCHANGED <<page, helper, schema, stray, results, queue, target, faults>>
  BY DEF BeginCopy, notCopying
<1>2. Keys' /\ \A u \in Tables : LastKey(u) = LastKey(u)' /\ LastKey(u) <= LastKey(u)'
  BY <1>1, SameTarget
<1>3. PICK k \in Task : k = task[w]
  BY DEF TypeOK
<1>4. \E new \in Task : task' = [task EXCEPT ![w] = new] /\ Reads(new)'
  <2>1. /\ k.pc = "begin" /\ k.table \in Tables /\ k.buf = {} /\ k.record = 0
        /\ k.next \in 1 .. LastKey(k.table) + 1
    BY <1>3 DEF BeginCopy, Copies, Threading, Reads
  <2>2. PICK r \in Nat : r = Rows[k.table]
    BY <2>1, CopyAssumption
  <2>3. LastKey(k.table) \in Nat /\ LastKey(k.table) <= r
    BY <2>1, <2>2 DEF Keys
  <2>4. PICK n \in Nat : n = (r + 1) - k.next
    BY <2>1, <2>3
  <2> DEFINE new == [k EXCEPT !.pc = "fetch", !.total = n]
  <2>5. task' = [task EXCEPT ![w] = new]
    BY <1>3, <2>2, <2>4 DEF BeginCopy, Become
  <2>6. new \in Task
    BY DEF Task
  <2>7. PICK e \in Nat : k.next = e + 1
    BY <2>1, <2>3
  <2>8. Goes(k.table, e + 1, e)' /\ (e + 1) .. e = {}
    BY <1>2, <2>1, <2>2, <2>3, <2>7 DEF Goes
  <2>9. Reads(new)'
    <3>1. new.table = k.table /\ new.buf = (e + 1) .. e /\ new.record = 0 /\ new.next = e + 1
          /\ new.pc = "fetch"
      BY <2>1, <2>7, <2>8 DEF Task
    <3> HIDE DEF new
    <3>2. e + 1 \in Nat
      OBVIOUS
    <3> QED BY <2>1, <2>8, <3>1, <3>2 DEF Reads
  <2> HIDE DEF new
  <2> QED BY <2>5, <2>6, <2>9
<1>5. task' \in [1 .. Threads -> Task] /\ Threading' /\ Straying'
  BY <1>1, <1>2, <1>4, OneThread
<1>6. TypeOK'
  BY <1>1, <1>5, OtherTypes DEF TypeOK, results
<1> QED BY <1>2, <1>5, <1>6


LEMMA FaultTypes ==
  ASSUME TypeOK, Fault \/ faults' = faults
  PROVE  faults' \in 0 .. MaxFaults
<1>1. faults \in 0 .. MaxFaults
  BY DEF TypeOK
<1>2. MaxFaults \in Nat
  BY CopyAssumption
<1> QED BY <1>1, <1>2 DEF Fault

LEMMA FetchRowKeeps ==
  ASSUME CopyInv, NEW w \in 1 .. Threads, FetchRow(w)
  PROVE  CopyInv'
<1> USE DEF CopyInv
<1>1. UNCHANGED <<page, helper, schema, stray, results, queue, target, faults>>
  BY DEF FetchRow, notCopying
<1>2. Keys' /\ \A u \in Tables : LastKey(u) = LastKey(u)' /\ LastKey(u) <= LastKey(u)'
  BY <1>1, SameTarget
<1>3. PICK k \in Task : k = task[w]
  BY DEF TypeOK
<1>4. \E new \in Task : task' = [task EXCEPT ![w] = new] /\ Reads(new)'
  <2>1. k.pc = "fetch" /\ k.table \in Tables
    BY <1>3 DEF FetchRow, Copies, Threading, Reads
  <2>2. PICK r \in Nat : r = Rows[k.table]
    BY <2>1, CopyAssumption
  <2> DEFINE built == k.buf \cup ({k.record} \ {0})
  <2>3. PICK s \in Nat, e \in Nat :
           Goes(k.table, s, e) /\ built = s .. e /\ k.next = e + 1
    <3>1. PICK s \in Nat, d \in Nat :
             /\ Goes(k.table, s, d) /\ k.buf = s .. d
             /\ \/ k.record = 0 /\ k.next = d + 1
                \/ k.record = d + 1 /\ k.next = d + 2 /\ d + 1 <= Rows[k.table]
      BY <1>3, <2>1 DEF Threading, Reads
    <3>2. CASE k.record = 0
      BY <3>1, <3>2 DEF Goes
    <3>3. CASE k.record # 0
      <4>1. s \in Nat \ {0} /\ s <= d + 1
        BY <3>1 DEF Goes
      <4>2. built = s .. (d + 1)
        BY <3>1, <3>3, <4>1
      <4>3. Goes(k.table, s, d + 1)
        BY <3>1, <3>3, <4>1 DEF Goes
      <4> QED BY <3>1, <3>3, <4>2, <4>3
    <3> QED BY <3>2, <3>3
  <2>4. PICK fits \in BOOLEAN :
           /\ (built = {} \/ ~(k.next <= r)) => fits
           /\ Become(w, [k EXCEPT
                 !.next = IF k.next <= r THEN k.next + 1 ELSE k.next,
                 !.buf = IF k.next <= r /\ fits THEN built \cup {k.next} ELSE built,
                 !.record = IF fits THEN 0 ELSE k.next,
                 !.pc = IF k.next <= r /\ fits /\ Cardinality(built) + 1 # Batch
                        THEN "fetch" ELSE "insert"])
    BY <1>3, <2>2 DEF FetchRow
  <2>5. s \in Nat \ {0} /\ s <= e + 1 /\ e <= r
    BY <2>2, <2>3 DEF Goes
  <2> HIDE DEF built
  <2>6. PICK pc \in {"fetch", "insert"} :
           pc = IF k.next <= r /\ fits /\ Cardinality(built) + 1 # Batch
                THEN "fetch" ELSE "insert"
    OBVIOUS
  <2>7. CASE ~(k.next <= r)
    <3> DEFINE new == [k EXCEPT !.next = e + 1, !.buf = s .. e, !.record = 0, !.pc = pc]
    <3>1. task' = [task EXCEPT ![w] = new]
      BY <2>3, <2>4, <2>6, <2>7 DEF Become
    <3>2. new \in Task
      <4>1. e + 1 \in Nat /\ s .. e \in SUBSET Nat
        BY <2>5
      <4> QED BY <4>1 DEF Task
    <3>3. new.table = k.table /\ new.buf = s .. e /\ new.record = 0 /\ new.next = e + 1
            /\ new.pc = pc
      BY DEF Task
    <3>4. Goes(k.table, s, e)'
      BY <1>2, <2>1, <2>3 DEF Goes
    <3> HIDE DEF new
    <3>5. Reads(new)'
      BY <2>1, <3>3, <3>4 DEF Reads
    <3> QED BY <3>1, <3>2, <3>5
  <2>8. CASE k.next <= r /\ fits
    <3> DEFINE new == [k EXCEPT !.next = e + 2, !.buf = s .. (e + 1), !.record = 0, !.pc = pc]
    <3>1. built \cup {k.next} = s .. (e + 1)
      BY <2>3, <2>5
    <3>2. task' = [task EXCEPT ![w] = new]
      <4>1. /\ (IF k.next <= r THEN k.next + 1 ELSE k.next) = e + 2
            /\ (IF k.next <= r /\ fits THEN built \cup {k.next} ELSE built) = s .. (e + 1)
            /\ (IF fits THEN 0 ELSE k.next) = 0
        BY <2>3, <2>8, <3>1
      <4> QED BY <2>4, <2>6, <4>1 DEF Become
    <3>3. new \in Task
      <4>1. e + 2 \in Nat /\ s .. (e + 1) \in SUBSET Nat
        BY <2>5
      <4> QED BY <4>1 DEF Task
    <3>4. new.table = k.table /\ new.buf = s .. (e + 1) /\ new.record = 0
            /\ new.next = (e + 1) + 1 /\ new.pc = pc
      BY DEF Task
    <3>5. Goes(k.table, s, e + 1)' /\ e + 1 \in Nat
      BY <1>2, <2>1, <2>2, <2>3, <2>5, <2>8 DEF Goes
    <3> HIDE DEF new
    <3>6. Reads(new)'
      BY <2>1, <3>4, <3>5 DEF Reads
    <3> QED BY <3>2, <3>3, <3>6
  <2>9. CASE k.next <= r /\ ~fits
    <3> DEFINE new == [k EXCEPT !.next = e + 2, !.buf = s .. e, !.record = e + 1, !.pc = pc]
    <3>1. task' = [task EXCEPT ![w] = new]
      <4>1. /\ (IF k.next <= r THEN k.next + 1 ELSE k.next) = e + 2
            /\ (IF k.next <= r /\ fits THEN built \cup {k.next} ELSE built) = s .. e
            /\ (IF fits THEN 0 ELSE k.next) = e + 1
        BY <2>3, <2>9
      <4> QED BY <2>4, <2>6, <4>1 DEF Become
    <3>2. new \in Task
      <4>1. e + 2 \in Nat /\ e + 1 \in Nat /\ s .. e \in SUBSET Nat
        BY <2>5
      <4> QED BY <4>1 DEF Task
    <3>3. new.table = k.table /\ new.buf = s .. e /\ new.record = e + 1
            /\ new.next = e + 2 /\ new.pc = pc
      BY DEF Task
    <3>4. Goes(k.table, s, e)' /\ e + 1 <= Rows[k.table]
      BY <1>2, <2>1, <2>2, <2>3, <2>9 DEF Goes
    <3> HIDE DEF new
    <3>5. Reads(new)'
      BY <2>1, <3>3, <3>4 DEF Reads
    <3> QED BY <3>1, <3>2, <3>5
  <2> QED BY <2>7, <2>8, <2>9
<1>5. task' \in [1 .. Threads -> Task] /\ Threading' /\ Straying'
  BY <1>1, <1>2, <1>4, OneThread
<1>6. TypeOK'
  BY <1>1, <1>5, OtherTypes DEF TypeOK, results
<1> QED BY <1>2, <1>5, <1>6

\* The rows of a thread's statement follow those of its table.
LEMMA InsertOfThread ==
  ASSUME CopyInv, NEW k \in Task, Reads(k), k.pc = "insert",
         k.buf \cap target[k.table] = {}, Insert(k.table, k.buf)
  PROVE  /\ Keys' /\ target' \in [Tables -> SUBSET Nat]
         /\ \A u \in Tables : LastKey(u) <= LastKey(u)'
         /\ \E e \in Nat :
               /\ Goes(k.table, e + 1, e)'
               /\ \/ k.record = 0 /\ k.next = e + 1
                  \/ k.record = e + 1 /\ k.next = e + 2 /\ e + 1 <= Rows[k.table]
<1> USE DEF CopyInv
<1>1. k.table \in Tables
  BY DEF Reads
<1>2. PICK s \in Nat, e \in Nat :
         /\ Goes(k.table, s, e) /\ k.buf = s .. e
         /\ \/ k.record = 0 /\ k.next = e + 1
            \/ k.record = e + 1 /\ k.next = e + 2 /\ e + 1 <= Rows[k.table]
  BY DEF Reads
<1>3. PICK t \in Tables : t = k.table
  BY <1>1
<1>4. /\ Keys' /\ target' \in [Tables -> SUBSET Nat]
      /\ \A u \in Tables : LastKey(u) <= LastKey(u)'
      /\ e <= LastKey(t)'
  BY <1>2, <1>3, InsertAppends
<1>5. LastKey(t)' \in Nat /\ e <= Rows[t]
  BY <1>2, <1>3, <1>4, CopyAssumption DEF Keys, Goes
<1>6. Goes(t, e + 1, e)'
  BY <1>4, <1>5 DEF Goes
<1> QED BY <1>2, <1>3, <1>4, <1>6

LEMMA InsertRowsKeeps ==
  ASSUME CopyInv, NEW w \in 1 .. Threads, InsertRows(w)
  PROVE  CopyInv'
<1> USE DEF CopyInv
<1>1. UNCHANGED <<page, helper, schema, stray, queue, heard, ended, failed, faults>>
  BY DEF InsertRows, notCopying
<1>2. PICK k \in Task : k = task[w]
  BY DEF TypeOK
<1>3. /\ k.pc = "insert" /\ Reads(k) /\ k.table \in Tables
      /\ k.buf \cap target[k.table] = {} /\ Insert(k.table, k.buf)
  BY <1>2 DEF InsertRows, Copies, Threading, Reads
<1>4. /\ Keys' /\ target' \in [Tables -> SUBSET Nat]
      /\ \A u \in Tables : LastKey(u) <= LastKey(u)'
  BY <1>3, InsertOfThread
<1>5. PICK n \in Nat : n = k.copied + Cardinality(k.buf)
  BY <1>3, RowsCounted DEF Task
<1>6. \E new \in Task : task' = [task EXCEPT ![w] = new] /\ Reads(new)'
  <2>1. PICK e \in Nat :
           /\ Goes(k.table, e + 1, e)'
           /\ \/ k.record = 0 /\ k.next = e + 1
              \/ k.record = e + 1 /\ k.next = e + 2 /\ e + 1 <= Rows[k.table]
    BY <1>3, InsertOfThread
  <2> DEFINE new == [k EXCEPT !.pc = "fetch", !.buf = {}, !.copied = n]
  <2>2. task' = [task EXCEPT ![w] = new]
    BY <1>2, <1>5 DEF InsertRows, Become
  <2>3. new \in Task
    BY DEF Task
  <2>4. new.table = k.table /\ new.buf = (e + 1) .. e /\ new.record = k.record
          /\ new.next = k.next /\ new.pc = "fetch" /\ e + 1 \in Nat
    BY DEF Task
  <2> HIDE DEF new
  <2>5. Reads(new)'
    BY <1>3, <2>1, <2>4 DEF Reads
  <2> QED BY <2>2, <2>3, <2>5
<1>7. task' \in [1 .. Threads -> Task] /\ Threading' /\ Straying'
  BY <1>1, <1>4, <1>6, OneThread
<1>8. progress' \in [Tables -> Nat]
  BY <1>2, <1>5 DEF InsertRows, TypeOK
<1>9. TypeOK'
  BY <1>1, <1>4, <1>7, <1>8, OtherTypes DEF TypeOK
<1> QED BY <1>4, <1>7, <1>9

LEMMA InsertFailsKeeps ==
  ASSUME CopyInv, NEW w \in 1 .. Threads, InsertFails(w)
  PROVE  CopyInv'
<1> USE DEF CopyInv
<1>1. UNCHANGED <<page, helper, schema, stray, results, queue>>
  BY DEF InsertFails, notCopying
<1>2. PICK k \in Task : k = task[w]
  BY DEF TypeOK
<1>3. k.pc = "insert" /\ Reads(k) /\ k.table \in Tables
  BY <1>2 DEF InsertFails, Copies, Threading, Reads
<1>4. /\ target' = target \/ (k.buf \cap target[k.table] = {} /\ Insert(k.table, k.buf))
      /\ faults' \in 0 .. MaxFaults
      /\ \E c \in BOOLEAN : Become(w, [k EXCEPT !.pc = "error", !.connected = c])
  <2>1. [k EXCEPT !.pc = "error"] = [k EXCEPT !.pc = "error", !.connected = k.connected]
          /\ k.connected \in BOOLEAN
    BY DEF Task
  <2>2. faults' \in 0 .. MaxFaults
    BY FaultTypes DEF InsertFails
  <2>3. target' = target \/ (k.buf \cap target[k.table] = {} /\ Insert(k.table, k.buf))
    BY <1>2 DEF InsertFails
  <2>4. \E c \in BOOLEAN : Become(w, [k EXCEPT !.pc = "error", !.connected = c])
    BY <1>2, <2>1 DEF InsertFails
  <2> QED BY <2>2, <2>3, <2>4
<1>5. /\ Keys' /\ target' \in [Tables -> SUBSET Nat]
      /\ \A u \in Tables : LastKey(u) <= LastKey(u)'
  BY <1>3, <1>4, InsertOfThread, SameTarget DEF TypeOK
<1>6. \E new \in Task : task' = [task EXCEPT ![w] = new] /\ Reads(new)'
  <2>1. PICK c \in BOOLEAN : Become(w, [k EXCEPT !.pc = "error", !.connected = c])
    BY <1>4
  <2>2. [k EXCEPT !.pc = "error", !.connected = c] \in Task
    BY DEF Task
  <2>3. Reads([k EXCEPT !.pc = "error", !.connected = c])'
    BY <1>3 DEF Reads, Task
  <2> QED BY <2>1, <2>2, <2>3 DEF Become
<1>7. task' \in [1 .. Threads -> Task] /\ Threading' /\ Straying'
  BY <1>1, <1>5, <1>6, OneThread
<1>8. TypeOK'
  BY <1>1, <1>4, <1>5, <1>7, OtherTypes DEF TypeOK, results
<1> QED BY <1>5, <1>7, <1>8

LEMMA CopyFailsKeeps ==
  ASSUME CopyInv, NEW w \in 1 .. Threads, CopyFails(w)
  PROVE  CopyInv'
<1> USE DEF CopyInv
<1>1. UNCHANGED <<page, helper, schema, stray, results, queue, target>>
  BY DEF CopyFails, notCopying
<1>2. Keys' /\ \A u \in Tables : LastKey(u) <= LastKey(u)'
  BY <1>1, SameTarget
<1>3. PICK k \in Task : k = task[w]
  BY DEF TypeOK
<1>4. k.table \in Tables /\ k.pc \in {"keys", "begin", "fetch"} /\ Reads(k)
  BY <1>3 DEF CopyFails, Copies, Threading, Reads
<1>5. \E new \in Task : task' = [task EXCEPT ![w] = new] /\ Reads(new)'
  <2>1. PICK counted \in BOOLEAN :
           Become(w, [k EXCEPT !.pc = "error",
                               !.total = IF k.pc = "begin" /\ counted
                                         THEN (Rows[k.table] + 1) - k.next ELSE k.total])
    BY <1>3 DEF CopyFails
  <2>2. PICK n \in Nat : n = IF k.pc = "begin" /\ counted
                             THEN (Rows[k.table] + 1) - k.next ELSE k.total
    <3>1. CASE k.pc = "begin"
      <4>1. PICK r \in Nat : r = Rows[k.table]
        BY <1>4, CopyAssumption
      <4>2. k.next \in 1 .. LastKey(k.table) + 1 /\ LastKey(k.table) \in 0 .. r
        BY <1>4, <3>1, <4>1 DEF Reads, Keys
      <4>3. (r + 1) - k.next \in Nat /\ k.total \in Nat
        BY <4>2 DEF Task
      <4> QED BY <3>1, <4>1, <4>3
    <3>2. CASE k.pc # "begin"
      BY <3>2 DEF Task
    <3> QED BY <3>1, <3>2
  <2>3. task' = [task EXCEPT ![w] = [k EXCEPT !.pc = "error", !.total = n]]
    BY <2>1, <2>2 DEF Become
  <2>4. [k EXCEPT !.pc = "error", !.total = n] \in Task
    BY DEF Task
  <2>5. Reads([k EXCEPT !.pc = "error", !.total = n])'
    BY <1>4 DEF Reads, Task
  <2> QED BY <2>3, <2>4, <2>5
<1>6. task' \in [1 .. Threads -> Task] /\ Threading' /\ Straying'
  BY <1>1, <1>2, <1>5, OneThread
<1>7. faults' \in 0 .. MaxFaults
  BY FaultTypes DEF CopyFails
<1>8. TypeOK'
  BY <1>1, <1>6, <1>7, OtherTypes DEF TypeOK, results
<1> QED BY <1>2, <1>6, <1>8

LEMMA ReportKeeps ==
  ASSUME CopyInv, NEW w \in 1 .. Threads, NEW error \in BOOLEAN, Report(w, error),
         task[w].table \in Tables
  PROVE  CopyInv'
<1> USE DEF CopyInv
<1>1. UNCHANGED <<page, helper, schema, stray, queue, heard, progress, target, faults>>
  BY DEF Report, notCopying
<1>2. Keys' /\ \A u \in Tables : LastKey(u) <= LastKey(u)'
  BY <1>1, SameTarget
<1>3. PICK k \in Task : k = task[w]
  BY DEF TypeOK
<1>4. \E new \in Task : task' = [task EXCEPT ![w] = new] /\ Reads(new)'
  <2>1. task' = [task EXCEPT ![w] = [NewTask("idle") EXCEPT !.connected = k.connected]]
    BY <1>3 DEF Report, Become
  <2>2. [NewTask("idle") EXCEPT !.connected = k.connected] \in Task
    BY DEF NewTask, Task
  <2>3. Reads([NewTask("idle") EXCEPT !.connected = k.connected])'
    BY DEF NewTask, Reads
  <2> QED BY <2>1, <2>2, <2>3
<1>5. task' \in [1 .. Threads -> Task] /\ Threading' /\ Straying'
  BY <1>1, <1>2, <1>4, OneThread
<1>6. ended' \subseteq Tables /\ failed' \in BOOLEAN
  BY DEF Report, TypeOK
<1>7. TypeOK'
  BY <1>1, <1>5, <1>6, OtherTypes DEF TypeOK
<1> QED BY <1>2, <1>5, <1>7

LEMMA CopyStepKeeps ==
  ASSUME CopyInv, ~TruncateTarget, NEW w \in 1 .. Threads, CopyStep(w)
  PROVE  CopyInv'
<1>1. CASE EndCopy(w) \/ EndFailed(w)
  <2>1. task[w].table \in Tables
    BY <1>1 DEF EndCopy, EndFailed, Copies, CopyInv, Threading, Reads
  <2> QED BY <1>1, <2>1, ReportKeeps DEF EndCopy, EndFailed
<1> QED
  BY <1>1, GetTaskKeeps, GetLastKeysKeeps, BeginCopyKeeps, FetchRowKeeps,
     InsertRowsKeeps, InsertFailsKeeps, CopyFailsKeeps
  DEF CopyStep


\* The page and the triggers leave the threads and the tables alone.
LEMMA Unmoved ==
  ASSUME CopyInv, UNCHANGED <<task, target, stray>>
  PROVE  Keys' /\ Threading' /\ Straying'
<1> USE DEF CopyInv
<1>1. Keys' /\ \A u \in Tables : LastKey(u) <= LastKey(u)'
  BY SameTarget
<1>2. Straying'
  BY <1>1, StrayingStays
<1>3. ASSUME NEW w \in 1 .. Threads PROVE Reads(task[w])'
  <2>1. PICK k \in Task : k = task[w]
    BY DEF TypeOK
  <2>2. Reads(k)
    BY <2>1 DEF Threading
  <2>3. Reads(k)'
    BY <1>1, <2>2, ReadsStays
  <2> QED BY <2>1, <2>3
<1> QED BY <1>1, <1>2, <1>3 DEF Threading

LEMMA PageKeeps ==
  ASSUME CopyInv, CountRows \/ CountFails \/ RoundEnds \/ Retry \/ Reenter \/ Cancel
  PROVE  CopyInv'
<1> USE DEF CopyInv
<1>1. UNCHANGED <<task, queue, target, stray, schema>>
  BY DEF CountRows, CountFails, RoundEnds, Retry, Reenter, Cancel, workers
<1>2. faults' \in 0 .. MaxFaults
  BY FaultTypes DEF CountRows, CountFails, RoundEnds, Retry, Reenter, Cancel
<1>3. phase' \in {"count", "copy", "retry", "stuck", "finished"}
        /\ resume' \in BOOLEAN /\ heard' \in BOOLEAN /\ failed' \in BOOLEAN
        /\ ended' \subseteq Tables
        /\ helper' \in HelperPhases
  BY DEF CountRows, CountFails, RoundEnds, Retry, Reenter, Cancel, page, results,
         TypeOK, HelperPhases
<1>5. rowCount' \in [Tables -> Nat] /\ progress' \in [Tables -> Nat]
  <2>1. CASE CountRows
    <3>1. \A t \in Tables : Rows[t] \in Nat /\ Rows[t] - LastKey(t) \in Nat
      BY CopyAssumption DEF Keys
    <3> QED BY <2>1, <3>1 DEF CountRows
  <2>2. CASE CountFails \/ RoundEnds \/ Retry \/ Reenter \/ Cancel
    BY <2>2 DEF CountFails, RoundEnds, Retry, Reenter, Cancel, page, results, TypeOK
  <2> QED BY <2>1, <2>2
<1>6. TypeOK'
  BY <1>1, <1>2, <1>3, <1>5 DEF TypeOK, schema, workers
<1> QED BY <1>1, <1>6, Unmoved

LEMMA TriggersKeep ==
  ASSUME CopyInv, TriggerInv', TriggerStep \/ BackupFails \/ RestoreFails
  PROVE  CopyInv'
<1> USE DEF CopyInv
<1> USE DEF TriggerStep, BackupStart, SaveTrigger, DropTrigger, RestoreStart,
        RestoreTrigger, ClearBackup, BackupFails, RestoreFails
<1>1. UNCHANGED notTriggers
  OBVIOUS
<1>2. helper' \in HelperPhases
  BY DEF HelperPhases, TypeOK
<1>3. made' \in BOOLEAN /\ skipped' \in BOOLEAN /\ spoilt' \in BOOLEAN
  BY DEF schema, TypeOK
<1>4. live' \subseteq Triggers /\ todo' \subseteq Triggers
        /\ (backup' = NoTable \/ backup' \subseteq Triggers)
  BY DEF TriggerInv, TriggerTypes
<1>5. faults' \in 0 .. MaxFaults
  BY FaultTypes DEF schema
<1> USE DEF notTriggers
<1>6. TypeOK'
  BY ONLY TypeOK, UNCHANGED notTriggers, <1>2, <1>3, <1>4, <1>5
  DEF TypeOK, notTriggers, page, results, workers
<1> QED BY ONLY CopyInv, UNCHANGED notTriggers, <1>6, Unmoved DEF CopyInv, notTriggers, workers

LEMMA StartHelperKeeps ==
  ASSUME CopyInv, StartHelper
  PROVE  CopyInv'
<1> USE DEF CopyInv
<1>1. UNCHANGED <<page, results, live, backup, spoilt, target, stray, faults>>
  BY DEF StartHelper
<1>2. Keys' /\ \A u \in Tables : LastKey(u) <= LastKey(u)'
  BY <1>1, SameTarget
<1>3. queue' \in Seq(Tables)
  BY SequenceOf, CopyAssumption DEF StartHelper
<1>4. \A w \in 1 .. Threads : task'[w] = NewTask("idle") \/ task'[w] = NewTask("gone")
  BY DEF StartHelper
<1>5. NewTask("idle") \in Task /\ NewTask("gone") \in Task
  BY DEF NewTask, Task
<1>6. task' \in [1 .. Threads -> Task]
  BY <1>4, <1>5 DEF StartHelper
<1>7. Threading'
  BY <1>4 DEF Threading, Reads, NewTask
<1>8. TypeOK'
  BY <1>1, <1>3, <1>6 DEF StartHelper, TypeOK, page, results, HelperPhases
<1> QED BY <1>1, <1>2, <1>7, <1>8, StrayingStays

LEMMA CrashKeeps ==
  ASSUME CopyInv, Crash
  PROVE  CopyInv'
<1> USE DEF CopyInv
<1>1. UNCHANGED <<page, results, schema, target>> /\ helper' = "error"
        /\ queue' = <<>> /\ task' = [w \in 1 .. Threads |-> NewTask("gone")]
  BY DEF Crash
<1>2. Keys' /\ \A u \in Tables : LastKey(u)' = LastKey(u) /\ LastKey(u) <= LastKey(u)'
  BY <1>1, SameTarget
<1>3. Threading' /\ task' \in [1 .. Threads -> Task]
  BY <1>1 DEF Threading, Reads, NewTask, Task
<1>4. ASSUME NEW x \in stray'
      PROVE  /\ x \in [table : Tables, rows : SUBSET Nat]
             /\ \E s, e \in Nat : Goes(x.table, s, e) /\ x.rows = s .. e
  <2>1. CASE x \in stray
    BY <2>1 DEF TypeOK, Straying
  <2>2. CASE x \notin stray
    <3>1. PICK w \in 1 .. Threads :
             task[w].pc = "insert" /\ x = [table |-> task[w].table, rows |-> task[w].buf]
      BY <1>4, <2>2 DEF Crash
    <3>2. task[w] \in Task /\ Reads(task[w])
      BY DEF TypeOK, Threading
    <3> QED BY <3>1, <3>2 DEF Reads, Task
  <2> QED BY <2>1, <2>2
<1>5. Straying'
  BY <1>2, <1>4 DEF Straying, Goes
<1>6. faults' \in 0 .. MaxFaults
  BY FaultTypes DEF Crash
<1>7. TypeOK'
  BY <1>1, <1>3, <1>4, <1>6 DEF TypeOK, page, results, schema, HelperPhases
<1> QED BY <1>2, <1>3, <1>5, <1>7

LEMMA StrayEndsKeeps ==
  ASSUME CopyInv, StrayEnds
  PROVE  CopyInv'
<1> USE DEF CopyInv
<1>1. UNCHANGED <<page, results, helper, workers, schema, faults>>
        /\ stray' \subseteq stray
  BY DEF StrayEnds
<1>2. PICK x \in stray : \/ x.rows \cap target[x.table] = {} /\ Insert(x.table, x.rows)
                         \/ UNCHANGED target
  BY DEF StrayEnds
<1>3. /\ Keys' /\ target' \in [Tables -> SUBSET Nat]
      /\ \A u \in Tables : LastKey(u) <= LastKey(u)'
  <2>1. PICK t \in Tables : t = x.table
    BY DEF TypeOK
  <2>2. PICK s \in Nat, e \in Nat : Goes(t, s, e) /\ x.rows = s .. e
    BY <2>1 DEF Straying
  <2>3. CASE UNCHANGED target
    BY <2>3, SameTarget DEF TypeOK
  <2>4. CASE x.rows \cap target[x.table] = {} /\ Insert(x.table, x.rows)
    BY <2>1, <2>2, <2>4, InsertAppends
  <2> QED BY <1>2, <2>3, <2>4
<1>4. Straying'
  BY <1>1, <1>3, StrayingStays
<1>5. ASSUME NEW w \in 1 .. Threads PROVE Reads(task[w])'
  <2>1. PICK k \in Task : k = task[w]
    BY DEF TypeOK
  <2>2. Reads(k)'
    BY <1>3, <2>1, ReadsStays DEF Threading
  <2> QED BY <1>1, <2>1, <2>2 DEF workers
<1>6. TypeOK'
  BY <1>1, <1>3 DEF TypeOK, page, results, schema, workers
<1> QED BY <1>3, <1>4, <1>5, <1>6 DEF Threading

\* Every step keeps the invariant of the copying.
LEMMA CopyInvStep ==
  ASSUME ~TruncateTarget, CopyInv, TriggerInv, [Next]_vars
  PROVE  CopyInv' /\ TriggerInv'
<1>0. TriggerInv'
  BY TriggerStepKeeps
<1>1. CASE UNCHANGED vars
  <2>1. TypeOK'
    BY <1>1 DEF vars, CopyInv, TypeOK, page, results, schema, workers
  <2> QED BY <1>0, <1>1, <2>1, Unmoved DEF vars, workers, CopyInv
<1> QED
  BY <1>0, <1>1, PageKeeps, TriggersKeep, StartHelperKeeps, CrashKeeps, StrayEndsKeeps,
     CopyStepKeeps
  DEF Next, Wizard, User, Failure, Done

LEMMA CopyInvInit == Init => CopyInv /\ TriggerInv
<1> SUFFICES ASSUME Init PROVE CopyInv /\ TriggerInv
  OBVIOUS
<1>1. NewTask("gone") \in Task
  BY DEF NewTask, Task
<1>2. TypeOK
  <2>1. task \in [1 .. Threads -> Task] /\ queue \in Seq(Tables)
    BY <1>1 DEF Init
  <2>2. faults \in 0 .. MaxFaults
    BY CopyAssumption DEF Init
  <2> QED BY <2>1, <2>2 DEF Init, TypeOK, HelperPhases
<1>3. Keys
  BY CopyAssumption DEF Init, Keys, LastKey
<1>4. Threading /\ Straying
  BY DEF Init, Threading, Straying, Reads, NewTask
<1>5. TriggerInv
  BY CopyAssumption DEF Init, TriggerInv, TriggerTypes, Kept, HelperKnows, Saved
<1> QED BY <1>2, <1>3, <1>4, <1>5 DEF CopyInv

\* Unless tables are truncated, the types hold.
THEOREM CopyTypeCorrect ==
  ASSUME ~TruncateTarget
  PROVE  Spec => []TypeOK
<1>1. CopyInv => TypeOK
  BY DEF CopyInv
<1>2. (CopyInv /\ TriggerInv) /\ [Next]_vars => (CopyInv /\ TriggerInv)'
  BY CopyInvStep
<1> QED BY <1>1, <1>2, CopyInvInit, PTL DEF Spec

\* What a target table holds is always the beginning of its source: only then is
\* the last key the place to go on from (get_last_pkeys), through any failures,
\* retries and statements that outlive their helper.
THEOREM PrefixAlways ==
  ASSUME ~TruncateTarget
  PROVE  Spec => []PrefixOnly
<1>1. CopyInv => PrefixOnly
  BY DEF CopyInv, Keys, PrefixOnly
<1>2. (CopyInv /\ TriggerInv) /\ [Next]_vars => (CopyInv /\ TriggerInv)'
  BY CopyInvStep
<1> QED BY <1>1, <1>2, CopyInvInit, PTL DEF Spec

-----------------------------------------------------------------------------
(* Unless target tables are truncated, a table that the page reports as     *)
(* copied has all of its rows, and the page is only finished with every    *)
(* table copied.                                                           *)

(* The inductive invariant *)

\* What is reported of a table is not more than what was added to it since its rows
\* were counted; a first round counts all of them.
Ahead ==
    phase \in {"copy", "retry", "finished"} =>
        \A t \in Tables : Rows[t] + progress[t] <= LastKey(t) + rowCount[t]
FirstRound == phase = "copy" /\ ~resume => \A t \in Tables : rowCount[t] = Rows[t]

\* The same of what a thread has inserted, of its statement and of the record that
\* did not fit: they all come before the next row, and after what was not counted.
Late(k) == IF k.record = 0 THEN 0 ELSE 1
Counts(k) ==
    /\ k.pc = "keys" => k.copied = 0
    /\ k.pc \in {"begin", "fetch", "insert"} =>
           Rows[k.table] + k.copied + Cardinality(k.buf) + Late(k)
               < k.next + rowCount[k.table]
Counting == \A w \in 1 .. Threads : Counts(task[w])

\* A helper runs in a round only, its threads while it copies only; and a page that
\* has not noticed a failure listens.
Rounds ==
    /\ helper \notin {"none", "done", "error"} => phase = "copy"
    /\ helper # "copy" => \A w \in 1 .. Threads : task[w].pc \in {"gone", "idle"}
    /\ failed \/ heard

\* As long as nothing has failed, a table is waiting, in the hands of a thread, or
\* complete; the first thread, at least, stays until no table is waiting.
Complete(t) == LastKey(t) = Rows[t]
Queued(t) == \E i \in 1 .. Len(queue) : queue[i] = t
Working == {"keys", "begin", "fetch", "insert", "error"}
Worked(t) == \E w \in 1 .. Threads : task[w].pc \in Working /\ task[w].table = t
Until == {"backup", "save", "drop", "copy"}
Left ==
    /\ helper \in Until /\ task[1].pc = "gone" => queue = <<>>
    /\ helper \in Until /\ ~failed =>
           \A t \in Tables : Queued(t) \/ Worked(t) \/ Complete(t)
    /\ helper \in {"create", "clear", "done"} /\ ~failed => \A t \in Tables : Complete(t)
    /\ phase = "finished" => \A t \in Tables : Complete(t)

CompleteInv == Ahead /\ FirstRound /\ Counting /\ Rounds /\ Left

-----------------------------------------------------------------------------
(* Lemmas *)

\* What is known of the numbers
LEMMA Numbers ==
  ASSUME CopyInv
  PROVE  /\ Threads \in Nat \ {0} /\ 1 \in 1 .. Threads
         /\ task \in [1 .. Threads -> Task]
         /\ \A t \in Tables : /\ Rows[t] \in Nat /\ LastKey(t) \in Nat
                              /\ LastKey(t) <= Rows[t]
                              /\ rowCount[t] \in Nat /\ progress[t] \in Nat
BY CopyAssumption DEF CopyInv, TypeOK, Keys

\* Tables only grow, and a complete one stays so.
LEMMA TablesGrow ==
  ASSUME CopyInv, CopyInv', \A t \in Tables : target[t] \subseteq target'[t]
  PROVE  \A t \in Tables : /\ LastKey(t) <= LastKey(t)'
                           /\ Complete(t) => Complete(t)'
<1> SUFFICES ASSUME NEW t \in Tables
             PROVE  LastKey(t) <= LastKey(t)' /\ (Complete(t) => Complete(t)')
  OBVIOUS
<1>0. /\ LastKey(t) \in 0 .. Rows[t] /\ LastKey(t)' \in 0 .. Rows[t]
      /\ Rows[t] \in Nat
  BY CopyAssumption DEF CopyInv, Keys
<1>1. PICK m \in Nat, n \in Nat, r \in Nat :
         m = LastKey(t) /\ n = LastKey(t)' /\ r = Rows[t]
  BY <1>0
<1>2. target[t] = 1 .. m /\ target'[t] = 1 .. n
  BY <1>1 DEF CopyInv, Keys
<1>3. m <= n
  <2>1. CASE m = 0
    BY <2>1
  <2>2. CASE m # 0
    <3>1. m \in 1 .. m
      BY <2>2
    <3>2. target[t] \subseteq target'[t]
      OBVIOUS
    <3>3. m \in 1 .. n
      BY <1>2, <3>1, <3>2
    <3> QED BY <3>3
  <2> QED BY <2>1, <2>2
<1> QED BY <1>0, <1>1, <1>3 DEF Complete

\* A set as a sequence: every element is in it.
LEMMA AllInSequence ==
  ASSUME NEW S, IsFiniteSet(S)
  PROVE  \A x \in S : \E i \in 1 .. Len(SetToSeq(S)) : SetToSeq(S)[i] = x
<1>1. Cardinality(S) \in Nat /\ \E f : f \in Bijection(1 .. Cardinality(S), S)
  BY FS_CardinalityType DEF ExistsBijection
<1>2. \E f \in [1 .. Cardinality(S) -> S] : IsInjective(f)
  BY <1>1 DEF Bijection, Injection
<1>3. SetToSeq(S) \in [1 .. Cardinality(S) -> S] /\ IsInjective(SetToSeq(S))
  BY <1>2 DEF SetToSeq
<1>4. SetToSeq(S) \in Injection(1 .. Cardinality(S), S)
  BY <1>3 DEF Injection
<1>5. IsFiniteSet(1 .. Cardinality(S)) /\ Cardinality(1 .. Cardinality(S)) = Cardinality(S)
  BY <1>1, FS_Interval
<1>6. SetToSeq(S) \in Surjection(1 .. Cardinality(S), S)
  BY <1>4, <1>5, FS_Injection
<1>7. Len(SetToSeq(S)) = Cardinality(S)
  BY <1>1, <1>3, LenProperties, SequenceOf
<1> QED BY <1>6, <1>7 DEF Surjection

\* A step of one thread
LEMMA ThreadMoves ==
  ASSUME CopyInv, NEW w \in 1 .. Threads, NEW new, task' = [task EXCEPT ![w] = new]
  PROVE  task'[w] = new /\ \A v \in 1 .. Threads : v # w => task'[v] = task[v]
BY Numbers

LEMMA CountingMoves ==
  ASSUME CopyInv, Counting, NEW w \in 1 .. Threads, NEW new,
         task' = [task EXCEPT ![w] = new], Counts(new)', rowCount' = rowCount
  PROVE  Counting'
<1> SUFFICES ASSUME NEW v \in 1 .. Threads PROVE Counts(task[v])'
  BY DEF Counting
<1>1. CASE v = w
  BY <1>1, ThreadMoves
<1>2. CASE v # w
  <2>1. task'[v] = task[v] /\ Counts(task[v])
    BY <1>2, ThreadMoves DEF Counting
  <2> QED BY <2>1 DEF Counts, Late
<1> QED BY <1>1, <1>2

\* A step of a thread that keeps its table
LEMMA AtWork ==
  ASSUME CopyInv, CopyInv', CompleteInv, Ahead', helper = "copy",
         \A t \in Tables : target[t] \subseteq target'[t],
         NEW w \in 1 .. Threads, NEW new, task' = [task EXCEPT ![w] = new],
         task[w].pc \in Working, new.pc \in Working, new.table = task[w].table,
         Counts(new)', UNCHANGED <<page, helper, queue, heard, failed>>
  PROVE  CompleteInv'
<1> USE DEF CompleteInv, page
<1>1. FirstRound'
  BY DEF FirstRound
<1>2. Counting'
  BY CountingMoves
<1>3. Rounds'
  BY DEF Rounds
<1>4. task'[w] = new /\ \A v \in 1 .. Threads : v # w => task'[v] = task[v]
  BY ThreadMoves
<1>5. \A t \in Tables : Complete(t) => Complete(t)'
  BY TablesGrow
<1>6. \A t \in Tables : Queued(t) => Queued(t)'
  BY DEF Queued
<1>7. \A t \in Tables : Worked(t) => Worked(t)'
  BY <1>4 DEF Worked
<1>8. task'[1].pc = "gone" => task[1].pc = "gone"
  BY <1>4, Numbers DEF Working
<1>9. Left'
  BY <1>5, <1>6, <1>7, <1>8 DEF Left
<1> QED BY <1>1, <1>2, <1>3, <1>9

\* Nothing is reported that was not inserted, unless there is a report.
LEMMA AheadStays ==
  ASSUME CopyInv, CopyInv', Ahead, \A t \in Tables : target[t] \subseteq target'[t],
         phase' \in {"copy", "retry", "finished"} => phase \in {"copy", "retry", "finished"},
         UNCHANGED <<progress, rowCount>>
  PROVE  Ahead'
<1> SUFFICES ASSUME phase' \in {"copy", "retry", "finished"}, NEW t \in Tables
             PROVE  Rows[t] + progress[t] <= LastKey(t)' + rowCount[t]
  BY DEF Ahead
<1>1. Rows[t] + progress[t] <= LastKey(t) + rowCount[t]
  BY DEF Ahead
<1>2. LastKey(t) <= LastKey(t)' /\ LastKey(t)' \in Nat
  BY TablesGrow, CopyAssumption DEF CopyInv, Keys
<1> QED BY <1>1, <1>2, Numbers

-----------------------------------------------------------------------------
(* The steps of the threads *)

LEMMA GetTaskCompletes ==
  ASSUME CopyInv, CopyInv', CompleteInv, NEW w \in 1 .. Threads, GetTask(w)
  PROVE  CompleteInv'
<1> USE DEF CompleteInv
<1>1. /\ UNCHANGED <<page, results, helper, target>>
      /\ helper = "copy" /\ task[w].pc = "idle"
  BY DEF GetTask, notCopying, Copies
<1>2. Ahead' /\ FirstRound' /\ Rounds'
  BY <1>1, AheadStays DEF FirstRound, Rounds, page, results
<1>3. \A t \in Tables : Complete(t) => Complete(t)'
  BY <1>1, TablesGrow
<1>4. CASE queue = <<>>
  <2>1. task' = [task EXCEPT ![w] = NewTask("gone")] /\ queue' = <<>>
    BY <1>4 DEF GetTask, Become
  <2>2. Counting'
    BY <1>1, <2>1, CountingMoves DEF Counts, NewTask, page
  <2>3. \A v \in 1 .. Threads : v # w => task'[v] = task[v]
    BY <2>1, ThreadMoves
  <2>4. \A t \in Tables : Worked(t) => Worked(t)'
    BY <1>1, <2>3 DEF Worked, Working
  <2>5. \A t \in Tables : ~Queued(t)
    BY <1>4 DEF Queued
  <2>6. Left'
    BY <1>1, <1>3, <2>1, <2>4, <2>5 DEF Left, page, results, Until
  <2> QED BY <1>2, <2>2, <2>6
<1>5. CASE queue # <<>>
  <2>1. PICK q \in Seq(Tables) : q = queue
    BY DEF CopyInv, TypeOK
  <2>2. /\ Len(q) \in Nat \ {0} /\ Tail(q) \in Seq(Tables) /\ Len(Tail(q)) = Len(q) - 1
        /\ Head(q) = q[1]
        /\ \A i \in 1 .. Len(q) - 1 : Tail(q)[i] = q[i + 1]
    BY <1>5, <2>1, EmptySeq, HeadTailProperties
  <2> DEFINE new == [NewTask("keys") EXCEPT !.table = Head(queue),
                                            !.connected = task[w].connected]
  <2>3. task' = [task EXCEPT ![w] = new] /\ queue' = Tail(queue)
    BY <1>5 DEF GetTask, Become
  <2>4. new.pc = "keys" /\ new.table = q[1] /\ new.copied = 0
    BY <2>1, <2>2 DEF NewTask
  <2> HIDE DEF new
  <2>5. Counting'
    BY <1>1, <2>3, <2>4, CountingMoves DEF Counts, page
  <2>6. task'[w] = new /\ \A v \in 1 .. Threads : v # w => task'[v] = task[v]
    BY <2>3, ThreadMoves
  <2>7. \A t \in Tables : Worked(t) => Worked(t)'
    BY <1>1, <2>6 DEF Worked, Working
  <2>8. ASSUME NEW t \in Tables, Queued(t) PROVE Queued(t)' \/ Worked(t)'
    <3>1. PICK i \in 1 .. Len(q) : q[i] = t
      BY <2>1, <2>8 DEF Queued
    <3>2. CASE i = 1
      BY <2>4, <2>6, <3>1, <3>2 DEF Worked, Working
    <3>3. CASE i # 1
      <4>1. i - 1 \in 1 .. Len(q) - 1 /\ (i - 1) + 1 = i
        BY <2>2, <3>3
      <4>2. Tail(q)[i - 1] = t
        BY <2>2, <3>1, <4>1
      <4> QED BY <2>1, <2>2, <2>3, <4>1, <4>2 DEF Queued
    <3> QED BY <3>2, <3>3
  <2>9. ~(task'[1].pc = "gone")
    BY <1>1, <1>5, <2>4, <2>6, Numbers DEF Left, Until
  <2>10. Left'
    BY <1>1, <1>3, <2>7, <2>8, <2>9 DEF Left, page, results, Until
  <2> QED BY <1>2, <2>5, <2>10
<1> QED BY <1>4, <1>5

LEMMA GetLastKeysCompletes ==
  ASSUME CopyInv, CopyInv', CompleteInv, NEW w \in 1 .. Threads, GetLastKeys(w)
  PROVE  CompleteInv'
<1> USE DEF CompleteInv
<1>1. /\ UNCHANGED <<page, results, helper, queue, target>>
      /\ helper = "copy" /\ task[w].pc = "keys"
  BY DEF GetLastKeys, notCopying, Copies
<1>2. PICK k \in Task : k = task[w]
  BY Numbers
<1>3. k.table \in Tables /\ k.buf = {} /\ k.record = 0 /\ k.copied = 0
  BY <1>1, <1>2 DEF CopyInv, Threading, Reads, Counting, Counts
<1>4. PICK t \in Tables : t = k.table
  BY <1>3
<1>5. PICK n \in Nat : n = IF resume THEN 1 + LastKey(t) ELSE 1
  BY Numbers
<1> DEFINE new == [k EXCEPT !.pc = "begin", !.next = n]
<1>6. task' = [task EXCEPT ![w] = new]
  BY <1>2, <1>4, <1>5 DEF GetLastKeys, Become, ResumeAt
<1>7. /\ new.pc = "begin" /\ new.table = t /\ new.buf = {} /\ new.record = 0
      /\ new.copied = 0 /\ new.next = n
  BY <1>3, <1>4 DEF Task
<1> HIDE DEF new
<1>8. Rows[t] < n + rowCount[t]
  <2>1. phase = "copy"
    BY <1>1 DEF Rounds
  <2>2. CASE resume
    BY <1>5, <2>1, <2>2, Numbers DEF Ahead
  <2>3. CASE ~resume
    BY <1>5, <2>1, <2>3, Numbers DEF FirstRound
  <2> QED BY <2>2, <2>3
<1>9. Counts(new)'
  BY <1>1, <1>7, <1>8, FS_EmptySet, Numbers DEF Counts, Late, page
<1>10. Ahead'
  BY <1>1, AheadStays DEF page, results
<1> QED BY <1>1, <1>2, <1>4, <1>6, <1>7, <1>9, <1>10, AtWork DEF Working, results

LEMMA BeginCopyCompletes ==
  ASSUME CopyInv, CopyInv', ~TruncateTarget, CompleteInv, NEW w \in 1 .. Threads,
         BeginCopy(w)
  PROVE  CompleteInv'
<1> USE DEF CompleteInv
<1>1. /\ UNCHANGED <<page, results, helper, queue, target>>
      /\ helper = "copy" /\ task[w].pc = "begin"
  BY DEF BeginCopy, notCopying, Copies
<1>2. PICK k \in Task : k = task[w]
  BY Numbers
<1>3. k.table \in Tables /\ Counts(k) /\ k.pc = "begin"
  BY <1>1, <1>2 DEF CopyInv, Threading, Reads, Counting
<1> DEFINE new == [k EXCEPT !.pc = "fetch", !.total = (Rows[k.table] + 1) - k.next]
<1>4. task' = [task EXCEPT ![w] = new]
  BY <1>2 DEF BeginCopy, Become
<1>5. /\ new.pc = "fetch" /\ new.table = k.table /\ new.buf = k.buf
      /\ new.record = k.record /\ new.copied = k.copied /\ new.next = k.next
  BY DEF Task
<1> HIDE DEF new
<1>6. Counts(new)'
  BY <1>1, <1>3, <1>5 DEF Counts, Late, page
<1>7. Ahead'
  BY <1>1, AheadStays DEF page, results
<1> QED BY <1>1, <1>2, <1>4, <1>5, <1>6, <1>7, AtWork DEF Working, results

\* What is in a statement when a record that was left over is in, too
LEMMA BuiltCounts ==
  ASSUME NEW B, IsFiniteSet(B), NEW r \in Nat
  PROVE  /\ IsFiniteSet(B \cup ({r} \ {0}))
         /\ Cardinality(B) \in Nat /\ Cardinality(B \cup ({r} \ {0})) \in Nat
         /\ Cardinality(B \cup ({r} \ {0})) <= Cardinality(B) + (IF r = 0 THEN 0 ELSE 1)
<1>1. Cardinality(B) \in Nat
  BY FS_CardinalityType
<1>2. CASE r = 0
  <2>1. B \cup ({r} \ {0}) = B
    BY <1>2
  <2> QED BY <1>1, <1>2, <2>1
<1>3. CASE r # 0
  <2>1. B \cup ({r} \ {0}) = B \cup {r}
    BY <1>3
  <2>2. /\ IsFiniteSet(B \cup {r})
        /\ Cardinality(B \cup {r}) = IF r \in B THEN Cardinality(B) ELSE Cardinality(B) + 1
    BY FS_AddElement
  <2> QED BY <1>1, <1>3, <2>1, <2>2
<1> QED BY <1>2, <1>3

LEMMA FetchRowCompletes ==
  ASSUME CopyInv, CopyInv', CompleteInv, NEW w \in 1 .. Threads, FetchRow(w)
  PROVE  CompleteInv'
<1> USE DEF CompleteInv
<1>1. /\ UNCHANGED <<page, results, helper, queue, target>>
      /\ helper = "copy" /\ task[w].pc = "fetch"
  BY DEF FetchRow, notCopying, Copies
<1>2. PICK k \in Task : k = task[w]
  BY Numbers
<1>3. k.table \in Tables /\ Reads(k) /\ Counts(k) /\ k.pc = "fetch"
  BY <1>1, <1>2 DEF CopyInv, Threading, Reads, Counting
<1>4. PICK t \in Tables : t = k.table
  BY <1>3
<1> DEFINE built == k.buf \cup ({k.record} \ {0})
           more == k.next <= Rows[t]
<1>5. PICK fits \in BOOLEAN :
         /\ ~more => fits
         /\ Become(w, [k EXCEPT
               !.next = IF more THEN k.next + 1 ELSE k.next,
               !.buf = IF more /\ fits THEN built \cup {k.next} ELSE built,
               !.record = IF fits THEN 0 ELSE k.next,
               !.pc = IF more /\ fits /\ Cardinality(built) + 1 # Batch
                      THEN "fetch" ELSE "insert"])
  BY <1>2, <1>4 DEF FetchRow
<1> DEFINE new == [k EXCEPT
               !.next = IF more THEN k.next + 1 ELSE k.next,
               !.buf = IF more /\ fits THEN built \cup {k.next} ELSE built,
               !.record = IF fits THEN 0 ELSE k.next,
               !.pc = IF more /\ fits /\ Cardinality(built) + 1 # Batch
                      THEN "fetch" ELSE "insert"]
<1>6. task' = [task EXCEPT ![w] = new]
  BY <1>5 DEF Become
<1>7. /\ new.pc \in {"fetch", "insert"} /\ new.table = t /\ new.copied = k.copied
      /\ new.next = IF more THEN k.next + 1 ELSE k.next
      /\ new.buf = IF more /\ fits THEN built \cup {k.next} ELSE built
      /\ new.record = IF fits THEN 0 ELSE k.next
  BY <1>4 DEF Task
<1> HIDE DEF new
<1>8. /\ IsFiniteSet(built) /\ Cardinality(k.buf) \in Nat /\ Cardinality(built) \in Nat
      /\ Cardinality(built) <= Cardinality(k.buf) + Late(k)
  <2>1. IsFiniteSet(k.buf) /\ k.record \in Nat
    BY <1>3, RowsCounted DEF Task
  <2> QED BY <2>1, BuiltCounts DEF Late
<1> HIDE DEF built
<1>9. Cardinality(built \cup {k.next}) \in Nat
        /\ Cardinality(built \cup {k.next}) <= Cardinality(built) + 1
  <2>1. Cardinality(built \cup {k.next})
          = IF k.next \in built THEN Cardinality(built) ELSE Cardinality(built) + 1
    BY <1>8, FS_AddElement
  <2> QED BY <1>8, <2>1
<1>10. Rows[t] + k.copied + Cardinality(k.buf) + Late(k) < k.next + rowCount[t]
  BY <1>3, <1>4 DEF Counts
<1>11. k.copied \in Nat /\ k.next \in Nat /\ Rows[t] \in Nat /\ rowCount[t] \in Nat
         /\ Late(k) \in Nat /\ Late(new) \in {0, 1}
  BY Numbers DEF Task, Late
<1>12. Rows[t] + new.copied + Cardinality(new.buf) + Late(new) < new.next + rowCount[t]
  <2>1. CASE ~more
    <3>1. new.buf = built /\ Late(new) = 0 /\ new.next = k.next
      BY <1>5, <1>7, <2>1 DEF Late
    <3> HIDE DEF more
    <3> QED BY <1>7, <1>8, <1>10, <1>11, <3>1
  <2>2. CASE more /\ fits
    <3>1. new.buf = built \cup {k.next} /\ Late(new) = 0 /\ new.next = k.next + 1
      BY <1>7, <2>2 DEF Late
    <3> HIDE DEF more
    <3> QED BY <1>7, <1>8, <1>9, <1>10, <1>11, <3>1
  <2>3. CASE more /\ ~fits
    <3>1. new.buf = built /\ new.next = k.next + 1
      BY <1>7, <2>3
    <3> HIDE DEF more
    <3> QED BY <1>7, <1>8, <1>10, <1>11, <3>1
  <2> QED BY <2>1, <2>2, <2>3
<1>13. Counts(new)'
  BY <1>1, <1>7, <1>12 DEF Counts, Late, page
<1>14. Ahead'
  BY <1>1, AheadStays DEF page, results
<1> QED BY <1>1, <1>2, <1>4, <1>6, <1>7, <1>13, <1>14, AtWork DEF Working, results

LEMMA InsertRowsCompletes ==
  ASSUME CopyInv, CopyInv', CompleteInv, NEW w \in 1 .. Threads, InsertRows(w)
  PROVE  CompleteInv'
<1> USE DEF CompleteInv
<1>1. /\ UNCHANGED <<page, helper, queue, heard, failed>>
      /\ helper = "copy" /\ task[w].pc = "insert"
  BY DEF InsertRows, notCopying, Copies
<1>2. PICK k \in Task : k = task[w]
  BY Numbers
<1>3. /\ k.table \in Tables /\ Reads(k) /\ Counts(k) /\ k.pc = "insert"
      /\ k.buf \cap target[k.table] = {} /\ Insert(k.table, k.buf)
  BY <1>1, <1>2 DEF CopyInv, Threading, Reads, Counting, InsertRows
<1>4. PICK t \in Tables : t = k.table
  BY <1>3
<1>5. PICK c \in Nat : c = Cardinality(k.buf)
  BY <1>3, RowsCounted
<1> DEFINE new == [k EXCEPT !.pc = "fetch", !.buf = {}, !.copied = k.copied + c]
<1>6. /\ task' = [task EXCEPT ![w] = new]
      /\ \/ progress' = [progress EXCEPT ![t] = k.copied + c]
         \/ progress' = progress
  BY <1>2, <1>4, <1>5 DEF InsertRows, Become
<1>7. /\ new.pc = "fetch" /\ new.table = t /\ new.buf = {} /\ new.copied = k.copied + c
      /\ new.next = k.next /\ new.record = k.record
  BY <1>4 DEF Task
<1> HIDE DEF new
<1>8. Rows[t] + k.copied + c + Late(k) < k.next + rowCount[t]
  BY <1>3, <1>4, <1>5 DEF Counts
<1>9. k.copied \in Nat /\ k.next \in Nat /\ Rows[t] \in Nat /\ rowCount[t] \in Nat
        /\ Late(k) \in {0, 1}
  BY Numbers DEF Task, Late
<1>10. Counts(new)'
  <2>1. Cardinality(new.buf) = 0 /\ Late(new) = Late(k)
    BY <1>7, FS_EmptySet DEF Late
  <2>2. Rows[t] + new.copied + Cardinality(new.buf) + Late(new) < new.next + rowCount[t]
    BY <1>7, <1>8, <1>9, <2>1
  <2> QED BY <1>1, <1>7, <2>2 DEF Counts, Late, page
<1>11. \A u \in Tables : target[u] \subseteq target'[u]
  BY <1>3 DEF Insert, CopyInv, TypeOK
<1>12. \A u \in Tables : LastKey(u)' \in Nat /\ LastKey(u) <= LastKey(u)'
  BY <1>11, TablesGrow, CopyAssumption DEF CopyInv, Keys
<1>13. Rows[t] + k.copied + c <= LastKey(t)' + rowCount[t]
  <2>1. PICK e \in Nat :
           /\ Goes(k.table, e + 1, e)'
           /\ \/ k.record = 0 /\ k.next = e + 1
              \/ k.record = e + 1 /\ k.next = e + 2 /\ e + 1 <= Rows[k.table]
    BY <1>3, InsertOfThread
  <2>2. e + 1 <= LastKey(t)' + 1
    BY <1>4, <2>1 DEF Goes
  <2>3. k.next = e + 1 + Late(k)
    BY <2>1 DEF Late
  <2> QED BY <1>8, <1>9, <1>12, <2>2, <2>3
<1>14. Ahead'
  <2>1. phase = "copy"
    BY <1>1 DEF Rounds
  <2>2. ASSUME NEW u \in Tables
        PROVE  Rows[u] + progress'[u] <= LastKey(u)' + rowCount[u]
    <3>1. Rows[u] + progress[u] <= LastKey(u) + rowCount[u]
      BY <2>1 DEF Ahead
    <3>2. Rows[u] + progress[u] <= LastKey(u)' + rowCount[u]
      BY <1>12, <3>1, Numbers
    <3>3. progress'[u] = progress[u] \/ (u = t /\ progress'[u] = k.copied + c)
      BY <1>6 DEF CopyInv, TypeOK
    <3> QED BY <1>9, <1>13, <3>2, <3>3
  <2> QED BY <1>1, <2>2 DEF Ahead, page
<1> QED BY <1>1, <1>2, <1>4, <1>6, <1>7, <1>10, <1>11, <1>14, AtWork DEF Working

\* A thread whose copy fails keeps its table, until it reports it.
LEMMA ErrorCompletes ==
  ASSUME CopyInv, CopyInv', CompleteInv, NEW w \in 1 .. Threads,
         helper = "copy", task[w].pc \in Working,
         UNCHANGED <<page, helper, queue, results>>,
         \A t \in Tables : target[t] \subseteq target'[t],
         NEW new, task' = [task EXCEPT ![w] = new], new.pc = "error",
         new.table = task[w].table
  PROVE  CompleteInv'
<1>1. Counts(new)'
  BY DEF Counts
<1>2. Ahead'
  BY AheadStays DEF CompleteInv, page, results
<1> QED BY <1>1, <1>2, AtWork DEF Working, results

LEMMA InsertFailsCompletes ==
  ASSUME CopyInv, CopyInv', CompleteInv, NEW w \in 1 .. Threads, InsertFails(w)
  PROVE  CompleteInv'
<1>1. /\ UNCHANGED <<page, results, helper, queue>>
      /\ helper = "copy" /\ task[w].pc = "insert"
  BY DEF InsertFails, notCopying, Copies
<1>2. PICK k \in Task : k = task[w]
  BY Numbers
<1>3. \A t \in Tables : target[t] \subseteq target'[t]
  <2>1. task[w].table \in Tables
    BY <1>1, <1>2 DEF CopyInv, Threading, Reads
  <2> QED BY <2>1 DEF InsertFails, Insert, CopyInv, TypeOK
<1>4. \/ task' = [task EXCEPT ![w] = [k EXCEPT !.pc = "error"]]
      \/ \E c \in BOOLEAN :
            task' = [task EXCEPT ![w] = [k EXCEPT !.pc = "error", !.connected = c]]
  BY <1>2 DEF InsertFails, Become
<1>5. CASE task' = [task EXCEPT ![w] = [k EXCEPT !.pc = "error"]]
  <2> DEFINE new == [k EXCEPT !.pc = "error"]
  <2>1. new.pc = "error" /\ new.table = k.table
    BY DEF Task
  <2> HIDE DEF new
  <2>2. task' = [task EXCEPT ![w] = new]
    BY <1>5 DEF new
  <2> QED BY <1>1, <1>2, <1>3, <2>1, <2>2, ErrorCompletes DEF Working
<1>6. CASE \E c \in BOOLEAN :
              task' = [task EXCEPT ![w] = [k EXCEPT !.pc = "error", !.connected = c]]
  <2>1. PICK c \in BOOLEAN :
              task' = [task EXCEPT ![w] = [k EXCEPT !.pc = "error", !.connected = c]]
    BY <1>6
  <2> DEFINE new == [k EXCEPT !.pc = "error", !.connected = c]
  <2>2. new.pc = "error" /\ new.table = k.table
    BY DEF Task
  <2> HIDE DEF new
  <2>3. task' = [task EXCEPT ![w] = new]
    BY <2>1 DEF new
  <2> QED BY <1>1, <1>2, <1>3, <2>2, <2>3, ErrorCompletes DEF Working
<1> QED BY <1>4, <1>5, <1>6

LEMMA CopyFailsCompletes ==
  ASSUME CopyInv, CopyInv', CompleteInv, NEW w \in 1 .. Threads, CopyFails(w)
  PROVE  CompleteInv'
<1>1. /\ UNCHANGED <<page, results, helper, queue, target>>
      /\ helper = "copy" /\ task[w].pc \in Working
  BY DEF CopyFails, notCopying, Copies, Working
<1>2. PICK k \in Task : k = task[w]
  BY Numbers
<1>3. PICK n : task' = [task EXCEPT ![w] = [k EXCEPT !.pc = "error", !.total = n]]
  BY <1>2 DEF CopyFails, Become
<1> DEFINE new == [k EXCEPT !.pc = "error", !.total = n]
<1>4. new.pc = "error" /\ new.table = k.table
  BY DEF Task
<1> HIDE DEF new
<1>5. task' = [task EXCEPT ![w] = new]
  BY <1>3 DEF new
<1> QED BY <1>1, <1>2, <1>4, <1>5, ErrorCompletes

\* A thread that has read its table to the end has inserted all of it.
LEMMA EndIsComplete ==
  ASSUME CopyInv, NEW w \in 1 .. Threads, EndCopy(w)
  PROVE  task[w].table \in Tables /\ Complete(task[w].table)
<1>1. PICK k \in Task : k = task[w]
  BY Numbers
<1>2. /\ k.pc = "fetch" /\ k.next > Rows[k.table] /\ k.buf = {} /\ k.record = 0
      /\ Reads(k)
  BY <1>1 DEF EndCopy, Copies, CopyInv, Threading
<1>3. PICK t \in Tables : t = k.table
  BY <1>2 DEF Reads
<1>4. PICK s \in Nat, e \in Nat :
         /\ Goes(t, s, e) /\ k.buf = s .. e
         /\ \/ k.record = 0 /\ k.next = e + 1
            \/ k.record = e + 1 /\ k.next = e + 2 /\ e + 1 <= Rows[t]
  BY <1>2, <1>3 DEF Reads
<1>5. /\ s <= e + 1 /\ e <= Rows[t] /\ s <= LastKey(t) + 1
      /\ k.next = e + 1 /\ e + 1 > Rows[t]
  BY <1>2, <1>3, <1>4 DEF Goes
<1>6. ~(s <= e)
  BY <1>2, <1>4
<1>7. LastKey(t) = Rows[t]
  BY <1>5, <1>6, Numbers
<1> QED BY <1>1, <1>3, <1>7 DEF Complete

LEMMA ReportCompletes ==
  ASSUME CopyInv, CopyInv', CompleteInv, NEW w \in 1 .. Threads,
         EndCopy(w) \/ EndFailed(w)
  PROVE  CompleteInv'
<1> USE DEF CompleteInv
<1> USE DEF EndCopy, EndFailed
<1>1. PICK error \in BOOLEAN : Report(w, error) /\ (~error => EndCopy(w))
  OBVIOUS
<1>2. /\ UNCHANGED <<page, helper, queue, heard, progress, target>>
      /\ helper = "copy" /\ task[w].pc \in {"fetch", "error"}
  BY <1>1 DEF Report, notCopying, Copies
<1>a. PICK c : c = task[w].connected
  OBVIOUS
<1> DEFINE new == [NewTask("idle") EXCEPT !.connected = c]
<1>3. task' = [task EXCEPT ![w] = new]
  BY <1>1, <1>a DEF Report, Become
<1>4. new.pc = "idle"
  BY DEF NewTask
<1> HIDE DEF new
<1>5. Ahead' /\ FirstRound'
  BY <1>2, AheadStays DEF FirstRound, page
<1>6. Counting'
  <2>1. Counts(new)'
    BY <1>4 DEF Counts
  <2> QED BY <1>2, <1>3, <2>1, CountingMoves DEF page
<1>7. Rounds'
  <2>1. failed' \/ heard'
    <3>1. failed' = (failed \/ (heard /\ (error \/ ~(task[w].copied = task[w].total))))
      BY <1>1 DEF Report
    <3>2. failed \/ heard
      BY DEF Rounds
    <3>3. heard' = heard
      BY <1>2
    <3> QED BY <3>1, <3>2, <3>3, Zenon
  <2>2. phase = "copy" /\ phase' = phase /\ helper' = "copy"
    BY <1>2 DEF Rounds, page
  <2> QED BY <2>1, <2>2 DEF Rounds
<1>8. task'[w] = new /\ \A v \in 1 .. Threads : v # w => task'[v] = task[v]
  BY <1>3, ThreadMoves
<1>9. ~failed' => ~failed /\ Complete(task[w].table)
  <2>1. failed' = (failed \/ (heard /\ (error \/ ~(task[w].copied = task[w].total))))
    BY <1>1 DEF Report
  <2>2. ~failed' => ~error
    BY <2>1 DEF Rounds
  <2> QED BY <1>1, <2>1, <2>2, EndIsComplete
<1>10. \A t \in Tables : Complete(t) => Complete(t)'
  BY <1>2, TablesGrow
<1>11. Left'
  <2>1. task'[1].pc = "gone" => queue' = <<>>
    BY <1>2, <1>4, <1>8, Numbers DEF Left, Until
  <2>2. ASSUME ~failed', NEW t \in Tables
        PROVE  Queued(t)' \/ Worked(t)' \/ Complete(t)'
    <3>1. CASE Complete(t)
      BY <1>10, <3>1
    <3>2. CASE Queued(t)
      BY <1>2, <3>2 DEF Queued
    <3>3. CASE ~Complete(t) /\ Worked(t)
      <4>1. PICK v \in 1 .. Threads : task[v].pc \in Working /\ task[v].table = t
        BY <3>3 DEF Worked
      <4>2. v # w
        BY <1>9, <2>2, <3>3, <4>1
      <4> QED BY <1>8, <4>1, <4>2 DEF Worked
    <3> QED BY <1>2, <1>9, <2>2, <3>1, <3>2, <3>3 DEF Left, Until
  <2>3. phase' = "finished" => \A t \in Tables : Complete(t)'
    BY <1>2, <1>10 DEF Left, page
  <2> QED BY <1>2, <2>1, <2>2, <2>3 DEF Left
<1> QED BY <1>5, <1>6, <1>7, <1>11

LEMMA CopyStepCompletes ==
  ASSUME CopyInv, CopyInv', ~TruncateTarget, CompleteInv, NEW w \in 1 .. Threads,
         CopyStep(w)
  PROVE  CompleteInv'
BY GetTaskCompletes, GetLastKeysCompletes, BeginCopyCompletes, FetchRowCompletes,
   InsertRowsCompletes, InsertFailsCompletes, CopyFailsCompletes, ReportCompletes
DEF CopyStep

-----------------------------------------------------------------------------
(* The steps of the page, the helper's main thread and the server *)

\* While no thread moves, tables stay with whom they were.
LEMMA ThreadsRest ==
  ASSUME CopyInv, CopyInv', UNCHANGED <<queue, task>>,
         \A t \in Tables : target[t] \subseteq target'[t]
  PROVE  /\ \A t \in Tables : Complete(t) => Complete(t)'
         /\ \A t \in Tables : Queued(t) => Queued(t)'
         /\ \A t \in Tables : Worked(t) => Worked(t)'
         /\ Counting /\ rowCount' = rowCount => Counting'
<1>1. \A t \in Tables : Complete(t) => Complete(t)'
  BY TablesGrow
<1> QED BY <1>1 DEF Queued, Worked, Counting, Counts, Late

LEMMA CountRowsCompletes ==
  ASSUME CopyInv, CopyInv', CompleteInv, CountRows
  PROVE  CompleteInv'
<1> USE DEF CompleteInv
<1>1. /\ UNCHANGED <<resume, workers, target>> /\ phase = "count" /\ phase' = "copy"
      /\ helper' = "none" /\ heard' = TRUE /\ failed' = FALSE
      /\ progress' = [t \in Tables |-> 0]
      /\ rowCount' = [t \in Tables |-> IF resume THEN Rows[t] - LastKey(t) ELSE Rows[t]]
  BY DEF CountRows
<1>2. \A t \in Tables : LastKey(t)' = LastKey(t)
  BY <1>1 DEF LastKey
<1>3. Ahead' /\ FirstRound'
  BY <1>1, <1>2, Numbers DEF Ahead, FirstRound
<1>4. \A w \in 1 .. Threads : task[w].pc \in {"gone", "idle"}
  BY <1>1 DEF Rounds
<1>5. Counting' /\ Rounds'
  BY <1>1, <1>4 DEF Counting, Counts, Rounds, workers
<1>6. Left'
  BY <1>1 DEF Left, Until
<1> QED BY <1>3, <1>5, <1>6

LEMMA StartHelperCompletes ==
  ASSUME CopyInv, CopyInv', CompleteInv, StartHelper
  PROVE  CompleteInv'
<1> USE DEF CompleteInv
<1>1. /\ UNCHANGED <<page, results, target>> /\ phase = "copy" /\ helper' = "backup"
      /\ queue' = SetToSeq(Tables)
      /\ task' = [w \in 1 .. Threads |->
                     NewTask(IF w <= Cardinality(Tables) THEN "idle" ELSE "gone")]
  BY DEF StartHelper
<1>2. Ahead' /\ FirstRound'
  BY <1>1, AheadStays DEF FirstRound, page, results
<1>3. \A w \in 1 .. Threads : task'[w].pc \in {"idle", "gone"}
  BY <1>1 DEF NewTask
<1>4. Counting'
  BY <1>3 DEF Counting, Counts
<1>5. Rounds'
  BY <1>1, <1>3 DEF Rounds, page, results
<1>6. Left'
  <2>1. \A t \in Tables : Queued(t)'
    BY <1>1, AllInSequence, CopyAssumption DEF Queued
  <2>2. ASSUME task'[1].pc = "gone" PROVE queue' = <<>>
    <3>1. Cardinality(Tables) \in Nat /\ IsFiniteSet(Tables)
      BY FS_CardinalityType, CopyAssumption
    <3>2. ~(1 <= Cardinality(Tables))
      BY <1>1, <2>2, Numbers DEF NewTask
    <3>3. Tables = {}
      BY <3>1, <3>2, FS_EmptySet
    <3>4. queue' \in Seq({})
      BY <1>1, <3>1, <3>3, SequenceOf
    <3> HIDE <1>1
    <3> QED BY <3>4, EmptySeq
  <2> QED BY <1>1, <2>1, <2>2 DEF Left, page
<1> QED BY <1>2, <1>4, <1>5, <1>6

LEMMA RoundEndsCompletes ==
  ASSUME CopyInv, CopyInv', CompleteInv, RoundEnds
  PROVE  CompleteInv'
<1> USE DEF CompleteInv
<1>1. /\ UNCHANGED <<rowCount, results, helper, queue, task, target>>
      /\ phase = "copy" /\ phase' \in {"retry", "finished"} /\ helper \in {"done", "error"}
      /\ phase' = "finished" => ~failed /\ helper = "done"
  BY DEF RoundEnds, workers
<1>2. Ahead' /\ FirstRound'
  BY <1>1, AheadStays DEF FirstRound, results
<1>3. Counting' /\ Rounds'
  BY <1>1, ThreadsRest DEF Rounds, results
<1>4. Left'
  BY <1>1, ThreadsRest DEF Left, Until, results
<1> QED BY <1>2, <1>3, <1>4

\* The page between its rounds, and a cancellation
LEMMA PageCompletes ==
  ASSUME CopyInv, CopyInv', CompleteInv, CountFails \/ Retry \/ Reenter \/ Cancel
  PROVE  CompleteInv'
<1> USE DEF CompleteInv
<1>1. /\ UNCHANGED <<rowCount, progress, helper, queue, task, target>>
      /\ phase' \in {"copy", "retry", "finished"} =>
             phase' = phase /\ resume' = resume
      /\ phase = "copy" => phase' = "copy"
      /\ \/ UNCHANGED <<heard, failed>>
         \/ failed' = TRUE
  BY DEF CountFails, Retry, Reenter, Cancel, page, results, workers
<1>2. Ahead' /\ FirstRound'
  BY <1>1, AheadStays DEF FirstRound
<1>3. Counting' /\ Rounds'
  BY <1>1, ThreadsRest DEF Rounds
<1>4. Left'
  BY <1>1, ThreadsRest DEF Left
<1> QED BY <1>2, <1>3, <1>4

\* What the helper's main thread does before and after it copies
LEMMA TriggersComplete ==
  ASSUME CopyInv, CopyInv', CompleteInv, TriggerStep \/ BackupFails \/ RestoreFails
  PROVE  CompleteInv'
<1> USE DEF CompleteInv
<1> USE DEF TriggerStep, BackupStart, SaveTrigger, DropTrigger, RestoreStart,
        RestoreTrigger, ClearBackup, BackupFails, RestoreFails
<1>1. UNCHANGED notTriggers
  OBVIOUS
<1>2. \/ /\ helper \in {"backup", "save", "drop"}
         /\ helper' \in {"save", "drop", "copy", "error"}
      \/ /\ helper \in {"create", "clear"}
         /\ helper' \in {"create", "clear", "done", "error"}
      \/ /\ helper = "copy" /\ \A w \in 1 .. Threads : task[w].pc = "gone"
         /\ helper' \in {"create", "clear", "done"}
  OBVIOUS
<1>3. UNCHANGED <<phase, resume, rowCount, heard, progress, failed, queue, task, target>>
  BY <1>1 DEF notTriggers, page, results, workers
<1>4. Ahead' /\ FirstRound'
  BY ONLY CopyInv, CopyInv', CompleteInv, <1>3, AheadStays DEF CompleteInv, FirstRound
<1>5. Counting' /\ Rounds'
  BY ONLY CopyInv, CopyInv', CompleteInv, <1>2, <1>3, ThreadsRest DEF CompleteInv, Rounds
<1>6. Left'
  <2>1. \A t \in Tables : Complete(t) => Complete(t)'
    BY ONLY CopyInv, CopyInv', <1>3, ThreadsRest
  <2>2. CASE helper = "copy"
    <3>1. queue = <<>>
      BY ONLY CopyInv, CompleteInv, <1>2, <2>2, Numbers DEF CompleteInv, Left, Until
    <3>2. \A t \in Tables : ~Queued(t) /\ ~Worked(t)
      BY ONLY <1>2, <2>2, <3>1 DEF Queued, Worked, Working
    <3>3. ~failed => \A t \in Tables : Complete(t)
      BY ONLY CompleteInv, <2>2, <3>2 DEF CompleteInv, Left, Until
    <3> QED BY ONLY CompleteInv, <1>2, <1>3, <2>1, <2>2, <3>3
            DEF CompleteInv, Left, Until
  <2>3. CASE helper # "copy"
    BY ONLY CopyInv, CopyInv', CompleteInv, <1>2, <1>3, <2>3, ThreadsRest
    DEF CompleteInv, Left, Until
  <2> QED BY <2>2, <2>3
<1> QED BY <1>4, <1>5, <1>6

LEMMA CrashCompletes ==
  ASSUME CopyInv, CopyInv', CompleteInv, Crash
  PROVE  CompleteInv'
<1> USE DEF CompleteInv
<1>1. /\ UNCHANGED <<page, results, target>> /\ helper' = "error"
      /\ task' = [w \in 1 .. Threads |-> NewTask("gone")]
  BY DEF Crash
<1>2. Ahead' /\ FirstRound'
  BY <1>1, AheadStays DEF FirstRound, page, results
<1>3. \A w \in 1 .. Threads : task'[w].pc = "gone"
  BY <1>1 DEF NewTask
<1>4. Counting' /\ Rounds'
  BY <1>1, <1>3 DEF Counting, Counts, Rounds, page, results
<1>5. Left'
  BY <1>1, TablesGrow DEF Left, Until, page
<1> QED BY <1>2, <1>4, <1>5

LEMMA StrayEndsCompletes ==
  ASSUME CopyInv, CopyInv', CompleteInv, StrayEnds
  PROVE  CompleteInv'
<1> USE DEF CompleteInv
<1>1. UNCHANGED <<phase, resume, rowCount, heard, progress, failed, helper, queue, task>>
  BY DEF StrayEnds, page, results, workers
<1>2. \A t \in Tables : target[t] \subseteq target'[t]
  <2>1. PICK x \in stray : \/ Insert(x.table, x.rows)
                           \/ UNCHANGED target
    BY DEF StrayEnds
  <2>2. x.table \in Tables
    BY DEF CopyInv, TypeOK
  <2> QED BY <2>1, <2>2 DEF Insert, CopyInv, TypeOK
<1>3. Ahead' /\ FirstRound'
  BY <1>1, <1>2, AheadStays DEF FirstRound
<1>4. Counting' /\ Rounds'
  BY <1>1, <1>2, ThreadsRest DEF Rounds
<1>5. Left'
  BY <1>1, <1>2, ThreadsRest DEF Left, Until
<1> QED BY <1>3, <1>4, <1>5

\* Every step keeps the three invariants.
LEMMA CompleteInvStep ==
  ASSUME ~TruncateTarget, CopyInv, TriggerInv, CompleteInv, [Next]_vars
  PROVE  CopyInv' /\ TriggerInv' /\ CompleteInv'
<1>0. CopyInv' /\ TriggerInv'
  BY CopyInvStep
<1>1. CASE UNCHANGED vars
  <2>1. UNCHANGED <<phase, resume, rowCount, heard, progress, failed, helper, queue,
                    task, target>>
    BY <1>1 DEF vars, page, results, workers
  <2>2. Ahead' /\ FirstRound'
    BY <1>0, <2>1, AheadStays DEF CompleteInv, FirstRound
  <2>3. Counting' /\ Rounds' /\ Left'
    BY <1>0, <2>1, ThreadsRest DEF CompleteInv, Rounds, Left, Until
  <2> QED BY <1>0, <2>2, <2>3 DEF CompleteInv
<1> QED
  BY <1>0, <1>1, CountRowsCompletes, StartHelperCompletes, RoundEndsCompletes,
     PageCompletes, TriggersComplete, CrashCompletes, StrayEndsCompletes,
     CopyStepCompletes
  DEF Next, Wizard, User, Failure, Done

LEMMA CompleteInvInit == Init => CompleteInv
<1> SUFFICES ASSUME Init PROVE CompleteInv
  OBVIOUS
<1>1. \A w \in 1 .. Threads : task[w].pc = "gone"
  BY DEF Init, NewTask
<1> QED
  BY <1>1 DEF Init, CompleteInv, Ahead, FirstRound, Counting, Counts, Rounds, Left, Until

\* Unless target tables are truncated, a table that the page reports as copied has all
\* of its rows, also when it went through further rounds after failures and crashes,
\* and the page is finished only with every table copied (DataMigrator.py compares the
\* last PROGRESS of a table with the rows it had counted).
THEOREM SucceededAlwaysCopied ==
  ASSUME ~TruncateTarget
  PROVE  Spec => []SucceededIsCopied
<1>1. CopyInv /\ CompleteInv => SucceededIsCopied
  <2> SUFFICES ASSUME CopyInv, CompleteInv PROVE SucceededIsCopied
    OBVIOUS
  <2>1. \A t \in Tables : Complete(t) => IsCopied(t)
    BY DEF CopyInv, Keys, Complete, IsCopied, AllRows
  <2>2. ASSUME phase \in {"retry", "finished"}, NEW t \in Succeeded PROVE IsCopied(t)
    <3>1. t \in Tables /\ progress[t] = rowCount[t]
      BY DEF Succeeded, CopyInv, TypeOK
    <3>2. Rows[t] + progress[t] <= LastKey(t) + rowCount[t]
      BY <2>2, <3>1 DEF CompleteInv, Ahead
    <3>3. Complete(t)
      BY <3>1, <3>2, Numbers DEF Complete
    <3> QED BY <2>1, <3>1, <3>3
  <2>3. phase = "finished" => \A t \in Tables : IsCopied(t)
    BY <2>1 DEF CompleteInv, Left
  <2> QED BY <2>2, <2>3 DEF SucceededIsCopied
<1>2. (CopyInv /\ TriggerInv /\ CompleteInv) /\ [Next]_vars
        => (CopyInv /\ TriggerInv /\ CompleteInv)'
  BY CompleteInvStep
<1> QED BY <1>1, <1>2, CopyInvInit, CompleteInvInit, PTL DEF Spec
=============================================================================
