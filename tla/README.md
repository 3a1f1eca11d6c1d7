# A TLA+ verification project for MySQL Workbench

MySQL Workbench is a desktop application (about 450 000 lines of C++, and
Python plugins) for designing schemas, running SQL and administering servers.
This directory holds TLA+ models of the parts of it that carry its own
concurrency, persistence and bookkeeping, the TLC configurations that
model-check them on small instances, and proofs, checked by TLAPS, of what
matters most about them for every instance. Paths below are relative to `src/`.

| Module | What it is | Code |
| --- | --- | --- |
| `Dispatcher` | worker thread, task and callback queues, nested execution, shutdown | `backend/wbpublic/grt/grt_dispatcher.cpp`, `.h` |
| `TaskService` | what a dispatcher promises its clients, without threads | abstract |
| `DispatcherProofs` | type correctness and the five invariants of `Dispatcher`, proved | |
| `ThreadedTimer` | main loop, list of tasks, worker pool, removal, destructor | `library/base/threaded_timer.cpp`, `.h` |
| `ThreadedTimerProofs` | its type invariant and its four safety properties, proved | |
| `IdleTasks` | functions queued for the idle main thread, two signals, blocks | `backend/wbpublic/grt/grt_manager.cpp` |
| `OneShots` | what `run_once_when_idle` promises | abstract |
| `IdleTasksProofs` | nothing is lost, and `IdleTasks` implements `OneShots`, proved | |
| `ManagerTimers` | the timers of the main thread, cancelled and started from slots | `backend/wbpublic/grt/grt_manager.cpp` and the owners of timers |
| `ManagerTimersProofs` | its type invariant and its three safety properties, proved | |
| `GrtList` | the changes of a list, the undo action each records, what that action does | `library/grt/src/grtpp_value.cpp`, `grtpp_undo_manager.cpp` |
| `UndoManager` | groups, scopes, undo, redo, cancel, trim, save point | `library/grt/src/grtpp_undo_manager.cpp`, `grt.cpp`, `wb_context.cpp` |
| `EditHistory` | what undo and redo promise the user | abstract |
| `UndoManagerProofs` | undo of a recorded change gives back the list, the four invariants of `UndoManager`, and that it implements `EditHistory`, proved | |
| `ModelFile` | opening, saving, automatic saving, recovery and crashes of a document | `backend/wbprivate/workbench/wb_model_file.cpp`, `wb_context.cpp`, `wb_context_model.cpp` |
| `ModelFileProofs` | its type invariant, its three invariants and what a recovery finds, proved | |
| `SSHTunnels` | shared tunnels, their users, the manager's and the handlers' threads | `library/ssh`, `backend/wbprivate/workbench/wb_tunnel.cpp` |
| `SSHTunnelsProofs` | its type invariant and its three safety properties, proved | |
| `CopyTable` | the bulk transfer of the migration: page, helper program, triggers, retries | `plugins/migration/copytable`, `backend/DataMigrator.py`, `frontend/migration_data_transfer.py` |
| `CopyTableProofs` | triggers are kept, targets are prefixes of their sources, what is reported as copied is complete, proved | |
| `MC*` | instances for TLC | |

`PROJECT.json` lists the runs, the mutations each property is tested with, the
lines of code behind each definition, the hazards and the theorems.

## 1. Inventory of the system

The application is layered. `library/` holds the base library (threads, timers,
notifications, files), the GRT (a typed object tree with undo, modules and
serialisation), the database connector wrapper (`cdbc`), the SSH wrapper, the
drawing canvas and the widget toolkit. `backend/wbpublic` builds on them what
plugins may use, `backend/wbprivate` the application itself, `plugins/` and
`modules/` its extensions (C++ and Python), `frontend/` the native windows.

How the parts talk to each other: a command of the user runs in the **main
thread**, changes the object tree inside an undo scope and refreshes views
through signals. What takes long becomes a **task** of a dispatcher (the
application's own one, and one for each SQL editor, for the live schema tree
and for each wizard), and reports back through callbacks the main thread runs
when it is idle. What any thread wants the main thread to do later is queued
with the **GRT manager**, which also has the main thread's timers. The
**threaded timer** runs periodic work (garbage collection, keep-alive of
connections, SSH polls) in its pool. Connections through SSH ask the **tunnel
manager** for a local port. Notifications and signals are called in the thread
that sends them. The migration wizard runs a **helper program** and reads its
output.

### Components, their state, and what makes them correct

**GRT dispatcher** (modelled). State: queue of tasks, queue of callbacks, busy
counter, shutdown flag, the GRT's stack of message handlers, flags of each task.
Operations: `add_task`, `add_task_and_wait`, `cancel_task`, `wait_task`,
`call_from_main_thread`, `flush_pending_callbacks`, `shutdown`, the worker's
loop. Hard: two threads, callbacks whose slots make synchronous calls of their
own, tasks nested in tasks, a shutdown while a task executes. Correct if tasks
run one at a time in their order, a waiter returns exactly when its task is
over, no callback is lost, the handler stack fits the nesting, and everybody
who waits is released.

**Threaded timer** (modelled). State: list of tasks (wait time, next time,
`stop`, `scheduled`), next id, the pool's queue, the flag `_terminate`.
Operations: `add_task`, `remove_task`, main loop, `pool_function`, destructor.
Hard: the pool keeps addresses of list nodes; callbacks run without the lock;
removal at any moment, from callbacks too; exceptions. Correct if no node goes
while a worker has it, no task runs twice at once, a single shot once, a removed
one no more, and no task starves.

**GRT manager: idle tasks and timers** (modelled). State: two signals of which
one collects what the other's emission queues, a count of blocks, the list of
timers and the set of those cancelled. Operations: `run_once_when_idle`,
`perform_idle_tasks`, `cancel_idle_tasks`, `block_idle_tasks`, `run_every`,
`cancel_timer`, `flush_timers`. Hard: slots that queue, block, open documents or
run the idle tasks again; slots that throw; timers cancelled and started by the
slots of others, whose addresses are used again. Correct if each function runs
once and in its turn, none is lost, and a cancelled timer is gone.

**Undo manager** (modelled in part). State: undo and redo stack of nested
groups, flags of a running undo or redo, a count of blocks, the limit, the GRT's
count of who wants changes tracked, the save point of the document. Operations:
`AutoUndo` scopes (begin, end, cancel), `add_undo`, `undo`, `redo`, `disable`,
`enable`, `set_undo_limit`, `reset`, the comparison with the save point. Hard: an
undo records the redo while it runs; groups nest, are cancelled, dropped when
empty, trimmed while open; raw pointers are compared after what they point to is
gone. Correct if undo and redo walk a line of contents, the books balance, and a
document called unchanged is what was saved.

**Model file** (modelled in part). State: the file and its backup, folders in
which documents are expanded, each with a lock file, the document and perhaps an
automatic save. Operations: start (sweep), open, recover, edit, auto-save, save,
close, crash. Hard: every operation is several file operations, and any of them
may be the last one before a crash; two instances of the program; stretches the
lock does not cover. Correct if what was saved, by the user or automatically, can
always be got back, and two instances never have one document.

**SSH tunnels** (modelled in part). State: map from configuration to port
handler, use count of each port, sockets to be served, the handlers' threads.
Operations: look up, create, count, connect, time out, uncount, disconnect, the
poll loop, shutdown. Hard: manager thread, handler threads and callers; callers
that find no tunnel at the same time; a tunnel torn down while another caller has
just found it; joins with a mutex held. Correct if a configuration has one
tunnel, a tunnel in use is not closed, who connects is served, and joins return.

**Table copy of the migration** (modelled in part). State: the page's memory of
what ended and how far, the helper's queue of tables, a connection and an insert
buffer for each thread, the triggers and their backup table in the target
schema. Operations: count, copy, cancel, retry, come back; save, drop and restore
triggers; copy with resume. Hard: bulk inserts that fail in the middle, at the
server or after it; a helper that dies; another helper that finds what it left.
Correct if what is in a target is always a prefix of the source, a table that is
reported as copied is complete, and triggers are never lost.

**SSH session wrapper** (not modelled). A keep-alive poll in the threaded timer
against `disconnect()`, which waits on a semaphore when `remove_task` says the
poll runs. Correct if it always returns.

**Notifications** (not modelled). A list of observers, copied before a
notification is sent. Correct if removed ones are not called.

**List difference** (not modelled). An algorithm: applied to the first list the
difference gives the second one.

**Recordset** (not modelled). Rows as they were loaded and edits in SQLite tables.
Correct if apply and rollback leave what the grid showed.

**SQL editor form** (not modelled). Connections, execution through a dispatcher,
autocommit and keep-alive.

**Clients of the above** (not modelled): history tree (undo manager),
`GrtThreadedTask` and the wizards' progress page (dispatcher), column width cache,
live schema tree, the rest of the Workbench context.

**Left aside for good**: canvas, forms toolkit and native frontends (geometry and
widgets, no protocol), parsers and `generated/` (generated code), `ext/` and
`tools/mga` with their vendored engines, database driver manager and password
cache (sequential under one lock), Python administration plugins (their control
is the server's), resources.

## 2. The models and the code

One convention runs through the modules whose code has known gaps: a history
variable `mishaps` (or `spoilt`, `astray`, `failed`, `trimmed`) notes that a gap
was hit, in the very step in which the code goes wrong, and a property says what
holds as long as it was not. The step itself is in the model, with all its
consequences; no guard looks at these variables.

### Dispatcher

The activity of a thread is a stack of frames, innermost first: tasks it executes
(`exec`), its loops in `wait_task` and `flush_pending_callbacks`, the callbacks it
runs, and the wait at the end of `shutdown()`. One action is what a thread does
between two points where another thread can come between: `PickTask`, `SkipTask`
and `PrepareTask` are the worker's loop; `Started`, `SendMessage`,
`ExecuteReturns`, `ExecuteThrows` and `LeaveTask` the life of a task in the thread
that executes it; `FlushBegin`, `FlushStep`, `EndCallback`, `FlushEnd` the running
of callbacks, by the main thread or by a thread in `wait_task`; `AddTask`,
`AddTaskAndWait`, `CancelTask`, `Shutdown` the client's calls, from the main loop,
from a task function or from a slot. `SimpleTasks` are `GRTSimpleTask`s; the others
are `GRTTask`s, whose `finished_m` callback is waited for and marks the task as
finished after its slot was called (`failed_m` does so before). `Threaded = FALSE` is the dispatcher whose
tasks run in the caller.

`TaskService` is the promise: tasks wait in order, one runs at a time, others may
run inside it, an outcome is decided once and reported afterwards. The refinement
maps the popped but not prepared task and the queue to `order`, the tasks being
executed on both stacks to `running`.

Each task object is submitted once, as the code's clients do. No task is submitted
after `shutdown()`; the owners in the code reset their pointer to the dispatcher.

### ThreadedTimer

A node of the list is an address with contents: `AddTask` takes an address that is
not in the list, `TickEnd` erases the nodes whose `stop` is set, and the pool holds
addresses. What a worker writes after the erasure hits the node that may meanwhile
be another task. Time is relative: `left` says how many periods are left until the
task is due, `TickBegin` lets the clock advance by one period or more.
`TakeItem` is the start of `pool_function`, `Finish`, `Throw` with `ThrownStops` and
`ThrownLeaves` are its three ends; the last two write without the lock, as the
code does in its last `catch` (the scoped lock there is a temporary). `Stop`,
`LoopExit`, `Discard` and `Free` are the destructor: it sets `_terminate`, waits
for the main loop, and frees the pool at once, waiting for the callbacks that run.

### IdleTasks and ManagerTimers

The two halves of `GRTManager` that the main thread runs between events. They
share no state; `MCGRTManager` checks them together, a behaviour being about one.

In `IdleTasks` a signal is the sequence of its slots. `Queue` is
`run_once_when_idle`, from any thread. `PerformBegin`, `Flip`, `CallSlot`,
`SlotReturns`, `SlotThrows` and `PerformEnd` are `perform_idle_tasks`: it takes the
mutex that keeps it from being entered twice, counts a block, exchanges the signals,
calls the slots that were connected then, and disconnects all of them. What a slot may do
while it runs is every other action: queue, disconnect, cancel, load a document
(`LoadBegin`, `LoadEnd`, which block), or ask for the idle tasks again.
`OneShots` is the promise: functions are called in the order in which they were
queued, each once, until one throws.

In `ManagerTimers` a timer is the address of its object, and clients keep such
addresses. `CancelTimer` and `RunEvery` are a client's calls, from the main loop or
from any slot. `FlushBegin`, `Trigger`, `SlotGoesOn`, `SlotEnds` and `FlushEnd` are
`flush_timers`. `StaleClients` are owners that do not forget the address of a timer
that has ended by itself, as two in the code do.

### UndoManager

The document is one list of the object tree. Its changes, the undo actions they
record and what these do are in `GrtList`, as pure operators. An undo group is
kept as the sequence of its items with brackets for the groups in it: the code
always adds to the deepest open group, which is the end of the sequence. The
undo of a group reads the items backwards; one step of the model is one item, so
that the stacks are seen in the states between, where the code calls signals.

`OpenGroup`, `EndGroup`, `CancelEmpty` and `CancelGroup` are the scopes of
`AutoUndo`; `Edit` any change of the list inside one; `Disable` and `Enable` the
disabled sections; `Undo`, `Redo`, `UndoBegins`, `UndoesAction`, `UndoEndsInner`,
`UndoReturns`, `RedoReturns` and `CancelReturns` the undoing; `SetLimit`, `Save` and
`CloseDocument` the commands of the context. `AddUndo` is `add_undo` whole: to the
open group or on top, trimmed against the limit, and dropping the redo stack.

`before`, `base`, `saved`, `trimmed` and `leaked` are history variables. They
appear in guards only in the choice of an address (`Free`): a trimmed group is
never deleted by the code, so its address stays taken.

`EditHistory` is the promise: `past`, `present`, `future`. A completed group is one
commit; undo and redo move one step; the limit forgets at the far end; opening a
group may forget the future even if nothing comes of it, which is what the code
does. A cancelled group is a stutter. The undo stack is mapped to the contents
before each completed group, the group that is being filled is no history yet.

### ModelFile

Instances of the program share one directory of temporary folders and one document.
Contents are version numbers, so that newer is greater; a file that was not written
to its end is `Torn`. One action is one file operation, or several between which the
code has no point where a crash would leave anything else: `Start` sweeps the folders
without lock and automatic save; `OpenFound`, `DeclineRecovery`, `AcceptRecovery`,
`MoveAutosave`, `Relock` are the way through an existing folder, `OpenFresh`,
`CreateFolder` the one without; `AutosaveBegin` to `AutosaveEnd` the automatic save,
written to a temporary file that replaces the old one by a remove and a rename;
`StoreBegin` to `Pack` the user's save; `CloseBegin` gives up the lock and
`CloseEnd` deletes the folder. `Crash` releases the lock, as the system does, and
forgets the rest of the instance.

The lock is the Unix `LockFile` (a locked descriptor). Mishaps: `swept`, a start
has deleted a folder with the newest work; `cut`, a recovery met a write that a
crash had cut off; `raced`, two instances were at once in stretches the lock does
not cover.

### SSHTunnels

A tunnel is its port, given out once. `FindTunnel`, `FindNone`, `FindDead`,
`ClearDead`, `ConnectFails`, `CreateTunnel`, `Increment`, `Connect`, `Timeout`,
`Decrement` and `Disconnected` are what a thread that opens a database connection
goes through, between the points where the two mutexes are free; `HandlerRuns`,
`PrepareTunnel` and `HandlerEnds` a handler's thread; `Poll`, `ServeWakeup`,
`ServeSocket`, `RoundEnds` and `ManagerEnds` the manager's. A poll returns a list of
what was reported at that moment; it is handled entry by entry, while sockets come
and go. The wake-up socket is handled last, as it is the last in the list.

### CopyTable

The page is `phase` with what it remembers (`resume`, `rowCount`, `progress`, `ended`,
`failed`), the helper is `helper` with one `task` for each copying thread, the
target's schema is `live`, `backup` and `target`. `CountRows`, `StartHelper`,
`RoundEnds`, `Retry`, `Reenter` and `Cancel` are the page and its user;
`BackupStart`, `SaveTrigger`, `DropTrigger`, `RestoreStart`, `RestoreTrigger` and
`ClearBackup` the helper's main thread, before and after its threads run;
`GetTask`, `GetLastKeys`, `BeginCopy`, `FetchRow`, `InsertRows` and `EndCopy` a copying
thread. Whatever may fail has an action that fails (`BackupFails`, `RestoreFails`,
`InsertFails`, `CopyFails`, `EndFailed`, `CountFails`), and the helper may die at any
point (`Crash`), with statements left at the server, which does them later or
never (`stray`, `StrayEnds`).

Rows are numbered in the order of the key, in which they are selected. All tables
are in every round: those that succeeded are meant to be left out of a retry, but
their names are kept quoted and looked up unquoted.

## 3. The runs

| Run | Question | States | Outcome |
| --- | --- | --- | --- |
| `dispatcher_nested` | flags, callbacks, handlers and counters in every nesting of two GRTTasks and a simple one, with a shutdown at any time | 649 061 | holds |
| `dispatcher_modes` | is it a `TaskService` and does every waiter get its answer; the same without a worker; does `shutdown()` return with everything drained, for simple tasks | 51 339 | holds |
| `dispatcher_shutdown_deadlock` | the shutdown with a GRTTask executing | | violated |
| `timer_safety` | is no erased node used, no task run twice at once, a single shot once | 259 665 | holds |
| `timer_liveness` | does every task get its turn, is a stopped one erased, does `stop()` return with nothing running | 120 253 | holds |
| `undo_history` | do undo and redo walk the line of contents; do the books balance; is an unchanged document what was saved | 1 520 778 | holds |
| `grt_manager` | are queued functions run once and in turn, whatever slots do; are cancelled timers gone; does everything come up | 100 914 | holds |
| `model_file` | what do two instances that crash leave on disk, and who owns the document | 6 171 348 | holds |
| `model_file_lost_work` | does what was automatically saved survive the next start | | violated |
| `ssh_tunnels` | one tunnel for a configuration, open while used, counted; is who connects served; do joins return | 171 949 | holds |
| `table_copy` | targets are prefixes, successes are complete, triggers are kept, trying again succeeds | 397 299 | holds |
| `table_copy_truncated_retry` | the same success with "Truncate target tables" | | violated |

### What the violations say

* **Shutdown against a finished callback** (`grt_dispatcher.cpp:421`). The main
  thread waits on `_w_runing` without running callbacks; the worker waits in
  `call_from_main_thread` for the main thread to run `finished_m`. Neither moves.
* **Work deleted at a start** (`wb_context_model.cpp:279`). A crash during a save,
  after the automatic save was deleted and before the archive is written, leaves
  the newest document only in its folder, which has no automatic save. The next
  start takes it for an empty one and deletes it, so that the recovery the comment
  promises has nothing to find.
* **A retry that empties a copied table** (`copytable.cpp:1958`). A table was copied,
  another failed. On Retry both are taken again: the select goes on after the last
  key of the target, of which nothing is left, then the target is truncated, and
  the page counts "0 of 0" rows as a table fully copied.

Seen while modelling, and not among the runs. Where a definition is named, it is in
the module and can be checked by adding it to a configuration.

Dispatcher and timer:

* An unknown exception in a simple task (`grt_dispatcher.cpp:703`) signals nothing
  and marks nothing: the caller of `add_task_and_wait` waits for ever, although the
  comment at 742 speaks of the exception being signalled (`FailureSignalled` with
  `UnknownErrors = TRUE`).
* Callbacks also run in the worker, when a task function waits for a nested task
  and flushes (`grt_dispatcher.cpp:717`), although `grt_dispatcher.h:141` says the
  `_m` methods are called in the main thread.
* During a shutdown `shutdown()` pops a message handler while the worker has its
  own on the stack: the check at `grt_dispatcher.cpp:508` of the handler count
  can fail. `_shutdown_callback` is never reset (line 414), so that a dispatcher
  started again would drop its callbacks; nobody does that.
* A "finished" slot must not call `add_task_and_wait` on its own dispatcher: the
  worker waits for the slot (`grt_dispatcher.cpp:617`), the slot for the worker.
  The threaded runs leave it out as a misuse.
* `task->stop` is assigned from the callback's result and overwrites the flag that
  `remove_task` set meanwhile (`threaded_timer.cpp:186`, comment at 123): with
  `RemoveAnyTime`, `RemovedLeavesTheList` fails. A removed task is erased while its
  callback runs (`threaded_timer.cpp:254`), the worker then writes to the erased
  node: `RunningIsListed` fails. `remove_task` returns true for a task that runs,
  against the comment at line 263.

GRT manager and undo manager:

* A slot that throws leaves all slots of its signal connected: those called before
  it run once more when that signal has its turn again (`grt_manager.cpp:394`).
* A timer that was due together with the one whose slot cancels it is called once
  more (`grt_manager.cpp:524`, as a comment there says). Two owners keep addresses of
  timers that ended by themselves and cancel them later, when another timer may live
  there. After the interval of the automatic save was set to "off" once, the timer
  handle stays set and the automatic save is not started again
  (`wb_context_model.cpp:213`, 232).
* A changed document can count as unchanged (`wb_context.cpp:2667`): with a limit of
  1, opening a group trims the only entry; if it is dropped for being empty, the
  latest action is null again, which is what a new document's save point is
  (`UnchangedIsSaved`). A redo entry that is deleted may leave its address to a new
  group, which the save point then matches, at any limit (`ReusedAddress = TRUE`).
* `List::reorder` clamps a position past the end, the undo of it does not and
  reads past the vector's end. With `AnyReorder = TRUE`, `UndoStaysInBounds` fails.

Model file:

* Two instances can own one folder through the stretches in which `open` asks with
  the lock given back and `cleanup` deletes with the lock given up
  (`wb_model_file.cpp:259`, 805).
* A crash during the first automatic save leaves a torn one, which the recovery
  prefers to a whole document; a crash between `base_remove` and `base_rename`
  (`serializer.cpp:97`) leaves the work in a `.tmp` file nothing looks at.
* The check whether an automatic save belongs to the file compares a variable with
  itself (`wb_model_file.cpp:244`, the inner `path` hides the outer), and nothing
  writes `real_path`: documents of one name in two directories share a folder.
* Removing a document from the home screen deletes an autosave folder without a look
  at its lock (`wb_context_ui_home.cpp:714`).

SSH tunnels:

* A tunnel may be closed between another caller's look-up and its count
  (`wb_tunnel.cpp:98`, mishap `missed`); `disconnect` goes by configuration and may hit
  a newer tunnel than the port's; a look-up right after the creation may take the new
  handler for dead (`SSHCommon.cpp:199`, mishap `early`).
* The connection accepted last is prepared first, an earlier one may starve
  (`SSHTunnelHandler.cpp:90`). At the end the manager releases the handlers without
  stopping them. `TunnelManager::start` is not synchronised.

Table copy:

* The exclusion of succeeded tables never matches (`migration_data_transfer.py:484`
  against 747). `go_retry` resets `_resume`, so that after a failed count no further
  Retry is offered. Cancel reads the helper's output to its end before it ends it
  (`DataMigrator.py:156`).
* A failing DROP TRIGGER drops the backup of the triggers already dropped
  (`copytable.cpp:2435`). A restore takes error 1235 for "exists", not 1359.
* An error before the rows were counted prints ERROR and then END.
  `CopySpec` has no constructor: with `--max-count` its uninitialised `row_count`
  becomes the LIMIT (`copytable.cpp:1352`). A table without a key makes every retry
  fail at its count (`copytable.cpp:1543`). A full batch is recognised by equality
  (`copytable.cpp:2077`), which a left-over record can step over with a limit of 1.

Other hazards, in code that is not modelled: `SSHSessionWrapper::disconnect` waits on
a semaphore that nobody posts if the pool discards the poll
(`SSHSessionWrapper.cpp:77`); timer ids after 2^31 tasks (`threaded_timer.cpp:112`); a
negative `UndoEntries` option becomes a huge limit (`grtpp_undo_manager.cpp:554`);
`activate_node` of the history tree redoes until a length is reached that the limit
may exclude (`wb_history_tree.cpp:92`).

### Bounds, and why they are enough

* Dispatcher: three tasks are the fewest with one executing, one nested in it and
  one waiting behind, and with two of a kind to be mixed up; one message per task;
  stacks of 5 to 7 frames hold a task, a nested one, a wait, a flush and a slot
  with a synchronous call of its own. Liveness takes two tasks, as each promise is
  about one task and one other that is in its way. Slots make synchronous calls
  from each kind of callback, from "finished" only without a worker (see above).
  `MCDispatcherModes` puts three dispatchers into one run, of which a behaviour is
  about one; they are separate instances that share nothing.
* Timer: three ids and three nodes let an address be used again while two tasks
  live; two workers; wait times of one and two periods; the main loop oversleeps
  one period. The liveness run has one worker and two tasks that are always due,
  the case in which one can starve.
* GRT manager: three functions are one that is being called, one that is queued
  meanwhile and one that throws. Three timers of two clients at three addresses:
  one client that starts anew, one that keeps a dead address, and a third timer
  that gets it; intervals of one and two, a flush that is late by one.
* Undo: two values, a list of up to two items (the least with a reorder), four
  items in the undo stack: two operations with a change each, or groups in groups.
  Two levels of scopes. Four addresses: two groups, a new one, and a deleted save
  point (a run without enough of them would deadlock, and deadlock is checked).
  The limit changes from none to 1, which trims two entries to one, and makes redo
  and every new group trim. Documents are closed and made anew at any time.
* Model file: two instances, each in any operation; two folder names, as two
  instances can have no more; three versions (opened, saved, automatically saved);
  two crashes, so that a recovery can crash as well.
* SSH: three callers, two of the same configuration, and two tunnels: the second
  tunnel replaces one that died, or is the other configuration's.
* Table copy: two tables of one and three rows, batches of two, so that a table is
  copied in one statement or in several with a rest; two threads; two triggers, so
  that a failure leaves one on each side; two failures of any kind, so that a retry
  fails as well, or meets a statement of the helper before it.

`CHECK_DEADLOCK FALSE` stands where the system stops by itself: a dispatcher with
all its tasks done, a timer that is freed, instances that are closed with all
versions and crashes used up, tunnels after `shutdown`. Symmetry is used in runs of
safety properties only, over model values that no definition tells apart. Every
bound is a constant that is named in the guards it limits.

### What a dropped line would do

Each property of a passing run is tested with a mutation of the code it is about
(`mutants` in `PROJECT.json`), a definition beside the original, as
`Discards_Always` beside `Discards`. None of them is used by the specifications.

## 4. Fairness

* `Dispatcher`: weak fairness of each thread's steps (`Step`, `Worker`,
  `ShutdownReturns`). A thread of the program that can move does; task functions
  and slots return. None for the client: nobody has to submit, cancel or shut down.
  The main thread's flushing when it is idle is a timer of the frontends, which
  call `flush_pending_callbacks` all the time: `FlushBegin` is part of `Step`.
* `ThreadedTimer`: weak fairness of the main loop, of each worker and of the
  destructor once it is under way, strong fairness of `Finish`: the main loop
  holds the lock during a round and sleeps a whole period without it, so a worker
  that waits for the lock gets it. Nobody has to add, remove or stop.
* `IdleTasks`: strong fairness of the idle run, as the main loop is idle again and
  again, also between two documents that are loaded; a loading ends. Slots return.
  `ManagerTimers`: time passes, and the frontend's timeout calls `flush_timers`.
* `SSHTunnels`: the threads run; strong fairness of the manager, which waits for a
  mutex that others take and give back again and again; a handler whose `_stop` is
  set gets out of its loop. Nothing of callers, except that a join returns when its
  thread has ended.
* `CopyTable`: weak fairness of the page, of the helper's main thread and of each
  copying thread. Nothing of the user (`TryingSucceeds` assumes in its own
  premise that the offered Retry is taken), of failures, or of the server.
* `UndoManager` and `ModelFile`: none. Their properties are safety properties.

## 5. Proofs

TLC checks small instances; TLAPS has checked the following for every value of
the constants that fits the assumptions named in each module (the kinds of the
constants, sets that have to be finite, null values that are in no set).

**Dispatcher** (`DispatcherProofs`): `TypeCorrect`, `FinishedIsFinal`,
`FinishedCallbackExists`, `BusyExact`, that is `TypeOK`, `FinishedAfterExecution`,
`NoLostCallback` and `BusyCountsExecution` for any number of tasks and any depth of
nesting. None is inductive alone. `FinishedAfterExecution` needs that a
"finished" callback about to be run belongs to a task whose function has
returned, and `NoLostCallback` that it exists exactly while the task waits for it.
Both follow from the *token* of a task, its "finished" callback: it is in the
callback queue or on a stack, once, exactly while the task's phase is `finishing`
(`Tokens`). The invariant `IInv` is `TypeOK`, what the task queue says about phases
(`TaskQueueInv`), `Tokens`, and the two properties; the proof has one step per
action, and lemmas on how queues and stacks lose a head or gain an end.

`CallbacksStayInOrder` and `HandlersAlwaysMirror` are `CallbacksInOrder` and
`HandlersMirrorExecution`, from a second invariant, `OrderInv`, that rests on the first.
`Nest` says where tasks are executed: each executing task has one frame, on the stack of
one thread (the worker, or without threads the caller), and a task about to be executed
is innermost, so nobody speaks for it or sends it a message yet. `HandlerInv` says that
whoever has a handler is in `prepared` or `body` and is nested in those whose handlers
are below its own, in the order of the frames; so what `restore_callbacks` pops is the
handler of the innermost task. `LifeInv` says of each task what its client has heard and
what is in the queue for it: nothing before the function is entered, no end while it is
executed, and the start in front of all else.

**Timer** (`ThreadedTimerProofs`): `TimerTypeCorrect`, `HeldAlwaysListed`,
`HeldAlwaysOnce`, `SingleShotOnce` and `RemovedStaysQuiet`, for any nodes, workers,
tasks and wait times. Like the run `timer_safety` they assume that clients remove only
tasks that are not scheduled and that callbacks throw only `std::exception`s: without
that the code breaks them (section 3). `TimerInv` says besides
what the properties say: a task the pool holds is not stopped, which is why
`remove_if` cannot erase it (`HeldGoesOn`); ids are given once (`IdsDiffer`); a single
shot that has run, or a task that was removed, is stopped as long as it is listed
(`Stopped`), which is why it is not due again; and a worker knows a node exactly while it calls
its callback (`Busy`).

**Idle tasks** (`IdleTasksProofs`): `IdleTypeCorrect`, `NothingEverLost` and
`IdleTasksAreOneShots`, for any tasks and any nesting of blocks. The last one is the
whole refinement: `OneShots` has no fairness, so that each step of `IdleTasks` maps to
a step or a stutter is all of it. `LostInv` says that what waits in the signal that is
emitted is still to be called; `TurnInv` that between two emissions all that waits is in
the signal that collects, until a slot has thrown. The lemmas are about
`RemoveFirst`, by which a slot is disconnected: what it leaves of a concatenation, and
that it does not reach what it does not find.

**Timers of the main thread** (`ManagerTimersProofs`): `TimersTypeCorrect`,
`TimersReachTheLive`, `TimersStayCancelled` and the action property `TimersGoOn`, for
any addresses, which the heap may give again at once, and any clients, which may cancel
and start timers from every slot. `TimersInv` has five parts: a flush knows what it holds
(`InFlush`); each live timer is in one place, and the list is sorted (`Places`); an
address holds one timer, known to the client that made it (`Named`); a withdrawn timer
that is still live is in the hands of a flush and noted down (`Doomed`); and what is
noted in `_cancelled_timers` are, unless a client went astray, withdrawn timers
(`Rightly`), without which `TimersGoOn` would fail.

**List changes** (`UndoManagerProofs`): `UndoRestoresList`. For any list and any insert,
remove, set or reorder within it, executing the recorded undo action on the
changed list gives back the list. The lemmas say at which index each item is
after an insert and a removal, and that these are inverse; a reorder is one of
each. It is the fact about data on which the proofs about undo, redo and cancel rest.

**Undo manager** (`UndoManagerProofs`): five theorems. `LimitAlwaysHolds`: the undo
stack is never longer than the limit; the strengthening says only that the stack is a
sequence, and the steps go through what each of pushing, popping, closing and trimming
does to its length. `TrackingAlwaysBalanced`: changes are tracked exactly while a group
is open; the strengthening holds during undo and cancel, too, and says that a
running cancel belongs to the innermost scope.

`NothingEverThrows` is `NothingThrows`, for any document, limit, nesting and sequence of
scopes, cancels, undos and redos. None of it is inductive alone: that an undo action
finds its item depends on all the items that were undone before it. `ReversalInv` says
therefore what the stacks are made of. The items of a group have a *trace*, the contents
before, between and after them, in which each recorded action, undone, leads one content
back (`TracedTo`); a closed group ends at the content with which the next one begins
(`Chained`), and a group that is being filled leads from `base` to the document
(`Filling`), with as many groups open in it as there are `AutoUndo` objects (`Open`).
While undo or redo runs (`Reversing`), the items left to do lead to the present content,
and what was undone is being built on the other stack, as deep as the items left are open;
a cancel (`Cancelling`) has the items of the group closed last left to do. How deep the
items of a prefix are (`DepthAt`) is a difference of cardinalities, for which the lemmas
`CountToStep` and `DepthStep` go one item on, and `LastGroupIs` says that the `CHOOSE` in
`LastGroup` finds the deepest group that was open.

`EditHistoryImplemented` is the whole refinement: `EditHistory` has no fairness, so that
each step maps to a step or a stutter is all of it. `HistoryIs` computes the mapped past
and future in each phase from `ReversalInv`; with it each action is one lemma.

`UnchangedIsWhatWasSaved` is `UntrimmedUnchangedIsSaved`. `SaveInv` says of the group at
the save point's address, wherever it is in the stack, that the content it led to is what
was saved (`Remembered`), that without one undoing everything leads there (`BottomIs`),
and that a group which is being filled or cancelled is not the save point.

The last three assume that lists are not reordered to positions past their last item
(`~AnyReorder`), the last one also that no group is allocated at the address of a deleted
save point (`~ReusedAddress`); so does the run `undo_history`, and without that the code
breaks them (section 3). No proof uses the bounds
on the list's length, the items and the nesting.

**Model file** (`ModelFileProofs`): `TypeCorrect`; `SavedStaysOnDisk`, that what was
saved last is in the file or its backup after any number of crashes of any number
of instances, from the invariant that the file is missing only while its contents are the
backup (`Backed`); `OneOwnerAlways`, that as long as no two instances were in the
unprotected stretches at once, each open document has its folder, its lock, and no
other owner. `Ownership` says for that what each program point knows of folder and lock.
`WorkStaysOnDisk` and `RecoveryStaysUpToDate` say that what was kept last, also by an
automatic save, is on disk, and that a recovery gets it, unless a mishap happened. The
invariant behind them, `Work`, is only about states without one. Then one instance at
most is with the document (`Solo`), no file is newer than what was edited and none is
kept that is older than what was saved (`Ages`), the folder holds what was kept and not
saved (`FolderKeeps`), and each point of an instance's program knows what it may rely
on before and after a session (`Outside`) and in it (`Inside`).

**SSH tunnels** (`SSHTunnelsProofs`): `SSHTypeCorrect`, `OneTunnelAlways`,
`UsageAlwaysCounted` and `OpenAlways`, for any callers, configurations and number of
tunnels, from one invariant. `Made` ties ports to callers, `Waits` says that a client
waits in one place, `Stopping` that a tunnel in the list is being stopped only while
one caller, with the mutex held, joins its handler, `Open` what is lost after a mishap
only, `Wanted` that each tunnel has somebody who will give it back. `UsageIsCounted` is
about cardinalities, for which the proof uses the theorems on finite sets.

**Table copy** (`CopyTableProofs`): `TriggersAlwaysKept` and `TriggersNeverFire`, for any
triggers, failures and crashes, from what the helper's main thread relies on at each
of its points (`HelperKnows`). `CopyTypeCorrect` and `PrefixAlways`, for any tables,
rows, threads and batches as long as targets are not truncated: what a target holds
is the beginning of its source, so that its last key is the place to go on from.
The invariant `CopyInv` says besides the types that each target is such a beginning
(`Keys`), that the rows of a statement a thread builds are consecutive and go on where
the target ends or start in what is there already, when the server refuses them
(`Threading`), and the same of statements whose helper is dead (`Straying`).
The second half of the module goes on from there to `SucceededAlwaysCopied`. Progress is only
compared with a count that another program took earlier; it can be trusted because
a table holds what was not counted and what was reported since (`Ahead`), which a thread
keeps true as the rows it has inserted, builds and still holds back all come before its
next row and after what was not counted (`Counting`). That a round without a
failure leaves no table out is `Left`: each table is in the queue, with a thread, or
complete, and the first thread stays until the queue is empty.

Only model-checked: all liveness properties (fairness and `ENABLED` are beyond the
prover); the refinement of `TaskService` (its mapping filters sequences with `SelectSeq`,
a recursive definition, which the prover cannot expand).

## 6. What is not modelled, and why

* Dispatcher: `GRTShellTask` (behaves as a `GRTTask` without failure slot), the
  contents of messages, a restart after a shutdown (no caller does it).
* Timer: calls after its deletion (`get()` would make a new one), the overflow of ids.
* GRT manager: a flush of the timers within a flush (a slot that shows a modal dialog;
  whether the frontend's timeout comes through then is the toolkit's), its options and
  plugin lists.
* Undo manager: dictionary and object member actions (they keep one old value, as
  `set` does), merged groups, descriptions and signals, several undo managers.
* Model file: opening an autosave folder directly, an existing folder that cannot be
  recovered (`.cantrecover`), a full disk, a second document of the same name, the
  contents of the archive, Windows' lock files.
* SSH: the bytes that are forwarded, the log-in and its dialogs, a handler that opens
  its session again and goes on (its clients are closed without being told), errors of
  `poll`.
* Table copy: conversions of values, tables without a primary key, engines without
  transactions, ranges and counts, sources that change meanwhile, generated scripts.
* The components marked so in section 1. The SSH session wrapper would be a composition
  with the timer whose states exceed what a run can hold; the recordset's state is SQL
  tables changed by SQL statements; the list difference rests on the comparers of
  database objects; the rest are views, wrappers or clients without state that more
  than one party changes. Generated, vendored and drawing code makes up most of the
  repository and has no protocol.

## 7. What is left

1. The step of `Dispatcher` that maps to a step of `TaskService`, as a theorem.
2. The history tree and merged groups as further clients of `UndoManager`; the
   disconnection of `SSHSessionWrapper` against an abstract timer.
3. A second document of the same name in `ModelFile`.
