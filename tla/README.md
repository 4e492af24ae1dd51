# Verification of thinsqlitepp

thinsqlitepp is a header-only C++ wrapper of SQLite. Its objects are SQLite's own
(a `database *` is a `sqlite3 *` with a C++ face), so what the library adds is not
state of its own but *protocol*: who owns a piece of user data after a call that
failed, where a script or a loop goes on, what an exception says about an error
that SQLite remembers somewhere else. This project models that protocol in TLA+,
checks it with TLC on small instances and proves the core with TLAPS.

Paths below are relative to `src/lib/inc/thinsqlitepp/impl/` unless they start
with `src/`. SQLite is modelled from the version of it the tests build against,
`src/test/sqlite/3.53.1/sqlite3.c`.

## 1. Inventory

| component | state | operations | interacts with |
|---|---|---|---|
| user data registration (`database_iface/impl.hpp`, `statement_iface/impl.hpp`) | in SQLite: for every function, collation, module, client data name, deserialised schema and statement parameter the user's pointer and its deleter; the connection open, zombie or freed; each statement ready, running or halted | `create_function`, `create_window_function`, `create_collation`, `create_module`, `drop_modules`, `set_clientdata`, `deserialize`, `bind`, `bind_reference`, `carray_bind`, `clear_bindings`, `step`, `reset`, destructors | callbacks and deleters are called from SQLite, at moments it chooses |
| `exec`, `statement_parser` (`database_impl.hpp`, `statement_impl.hpp`) | rest of the text, current statement, count | `exec`, `next`, `statement::create` | calls the program's callback per row |
| statement use: `auto_reset`, `row_iterator`, `row_range` (`statement_iface.hpp`, `row_iterator.hpp`) | a pointer to the statement in the guard and in each iterator; row and bindings in the statement | construction, moves, destruction, `begin`, `++`, `step`, `reset`, `bind` | guards and iterators share a statement they do not own |
| `error`, `exception` (`exception_iface/impl.hpp`) | code, errno, offset, message with its deleter | construction from a connection, copy, move, swap, `extract_message` | reads the error the connection remembers, after the failed call |
| `mutex`, `lock_adapter` (`mutex_iface.hpp`) | the connection's mutex | `lock`, `try_lock`, `unlock` | the program locks around calls whose error it wants |
| `context`, `value` (and `cell`, `statement::column_value`) | auxiliary data and results by reference, in SQLite; the representations a value has | `set_auxdata`, `result`, `result_reference`, `error`, `get`, `dup`, `numeric_type` | inside callbacks; each reading function may convert the value, and views point into it |
| virtual tables (`vtab_iface/impl.hpp`) | table and cursor objects, `zErrMsg`, index data | the module callbacks, each a C function around a C++ method | SQLite calls them, exceptions become codes and messages |
| `blob` | in SQLite: row, expired or aborted | `open_blob`, `read`, `write`, `reopen`, destructor | a statement in progress, so it takes part in the transaction |
| `backup` | in SQLite: next page, the last code, pages left | `init`, `step`, `remaining`, destructor | the source is written between steps, the destination is locked |
| `snapshot` | in SQLite | get, open, recover | |
| hooks and handlers of `database` | one handler per kind | set, replace, remove | called during `step`, and from the destructor of a blob; some may throw |
| size conversions | none | `int_size`, `int64_size`, `int(...)` | every call that passes a size |
| `handle`, `memory`, `span`, `string_param`, `meta`, `keywords`, `version`, `global`, `config` | none | casts, views, traits, thin calls | |

What is hard in this code:

* *Partial failure.* SQLite's rule for the deleter of something it refuses differs
  between functions (called) and collations (not called), and the wrapper adds
  failures of its own before the call is made.
* *Order.* Connections and statements are destroyed in the order of C++ scopes;
  SQLite keeps a closed connection alive as a zombie. Registrations are replaced
  while statements run. Guards are moved and loops abandoned.
* *Staleness.* An error is read after the call that caused it, from a connection
  that another thread, a deleter or nobody at all has updated. An iterator is a
  pointer to a statement that moves on.
* *Progress.* The script parser loops until the text is used up.

What makes each component correct: every deleter runs exactly once and not while
the data may be used (registration); every statement of a script runs once, in
order, with its number, until something goes wrong, and `exec` ends (exec); a
statement that is kept is as good as new for each use, and each use gets its own
rows once (statement use); an exception describes the call it was thrown for, and
its text has one owner (errors); table and cursor objects and their messages are
freed once by the right allocator, and a query gets the rows it asks for (virtual
tables); a view shows the value it was made from, and data given to a function
outlive neither the statement nor, where the argument changes, the call (context
and value); what throws has not committed, and locks go with their use (blob,
hooks); a copy is that of one state of the source (backup). `PROJECT.json` lists the hazards line by line.

## 2. Plan

| order | module | subject | status |
|---|---|---|---|
| 1 | `Ownership` | abstract: caller, library, nobody; one transfer per call | done |
| 2 | `CallbackData` | user data in SQLite, refines `Ownership` | done, proved |
| 3 | `Exec` | script, statements, rows, callback | done, proved |
| 4 | `StatementUse` | guards and loops over statements that are kept | done, proved |
| 5 | `ErrorCapture` | threads, the lock, the remembered error | done, proved |
| 6 | `VtabLifecycle` | table and cursor objects, exceptions at the C boundary, ownership of `zErrMsg` | done, proved |
| 7 | `ErrorObject` | copy, move, swap, `extract_message`: the deleter that goes with the message | done, proved |
| 8 | `Values`, `FunctionCall` | conversions and views of values; auxiliary data and results by reference; refines `Ownership` | done, proved |
| 9 | `Connection` | transactions, blobs and hooks of a connection beside another one | done, proved |
| 10 | `AtomicCopy`, `Backup` | a backup whose source changes between steps; refines `AtomicCopy` | done, proved |
| 11 | `IndexPlan` | a query of a virtual table from `best_index` to the last row | done, proved |

`CallbackData` and `FunctionCall` implement the same abstract module, `Ownership`:
user data have one protocol, whether a connection, a statement or one call of a
function keeps them. `FunctionCall` extends `Values`, whose operators say what a
conversion does to a value. `Backup` implements `AtomicCopy`. Blob, hooks and
transactions are one module, `Connection`, because each decides what the others do.
The remaining modules stand alone: what they share, the connection's mutex and
its list of statements, is atomic in SQLite.

The proofs about a module `M` are in `MProofs`, except for two pairs that share a
module of proofs: `DatabaseProofs` has those about `Connection` and `Backup`,
`ExecutionProofs` those about `Exec` and `IndexPlan`. The specification of the second
of each pair has names of its own (`BackupSpec`, `BackupTypeOK`, `QuerySpec`,
`QueryTypeOK`), so that one module can extend both. Nothing is shared but lemmas about
finite sets of numbers.

## 3. The modules

### `Ownership` (abstract)

A datum is the caller's, the library's or nobody's; one call takes the data it is
offered and runs the deleters of data the library gives up. That is all a user of
the library has to know.

### `CallbackData`

One connection and its statements. `holder` maps every slot in which SQLite keeps
user data to the datum in it: `<<function, encoding>>`, `<<collation, encoding>>`,
`<<module, "module">>`, the module's data kept alive by a connected table
(`"table"`) or by the tables of a prepared statement (`"vtab"`), client data names,
deserialised schemas, statement parameters. A datum may be in several slots (a
function under three encodings; a module and its table), and goes when the last
one lets go of it: SQLite's reference counts (`FuncDestructor.nRef`,
`Module.nRefModule`) are the number of slots. `conn` and `stmt` are the states of
`sqlite3` and of each `sqlite3_stmt`. `given` and `destroyed` are history: what was
handed over, and how often each deleter ran.

Each action is a method of `database` or `statement` with the SQLite call in it.
They all end in `Settle(h, offered, library, wrapper)`: new contents, data offered,
deleters run by SQLite, deleters run by the wrapper. Where a call can be refused
(a statement is running, out of memory, a value too big, a statement not ready)
the action has the refused outcome as well. Two things deserve attention:

* `CreateFunction` with all encodings takes them in SQLite's order and stops at the
  first that is refused, so it can fail and still have kept the datum.
* `CreateCollation` passes `LetGo(h, {})`: SQLite does not look at a collation it
  refuses, so `CollationDeleter` (`database_impl.hpp:236`) has to.

`drop_modules` is a sequence of `CreateModule(m, None, FALSE)`. Data without a
deleter is not modelled: it stays the caller's. `DropTable` is DROP TABLE, which
SQLite refuses while a running statement reads that table; a schema reset, which
disconnects the table as well, is not an action of its own. SQLite's calls are atomic: it holds its own mutex in each of them.

### `Exec`

`database::exec` with `statement_parser::next` inlined, one action per point where
control comes back: `NoMoreText`, `TextLeft` (the test of the while loop),
`NoStatement`, `CompileError`, `NextStatement` (the three ways in which
`statement::create` ends), `StepRow`, `StepDone`, `StepThrows`, and `Callback` with
its three outcomes. A callback that returns void is one that returns true. A script
is a sequence of pieces, as SQLite's tokenizer sees the text. `calls` is history.

### `StatementUse`

`state`, `pos`, `param` are what SQLite keeps per statement; `st[g]` is
`auto_reset::_st`; `range[g]` and `it[g]` are `row_range::_it` and the loop's
iterator, each a pointer to the statement or null; `got`, `bound` and `passes` are
history of the current use. `step` may throw at any time (`StepFails`) or throw
SQLITE_BUSY at the commit, which leaves the statement running (`StepBusy`). A guard
is the only way to its statement while it lives, and a loop owns the statement
while it runs: the library cannot enforce that, and a program that breaks it is
outside the model.

### `ErrorCapture`

Threads share a connection. Each makes a call (`Call`: SQLite does it and
remembers the error, or does not), and after a failure fetches the code, errno,
offset and message with one call each, then copies the message, or has no memory
for it (`ReadCode` .. `CopyMessage`: the constructor of `error`,
`exception_impl.hpp:26-56`). `locking` says whether the program holds the
connection's mutex with `lock_adapter` from before the call until it has the
exception; it is chosen once. A detail is represented by the call it belongs to,
so a detail of the wrong call can be told. `Remember` is what SQLite does for each
kind of call. `create_collation` is the one call that runs foreign code (the
deleter) between the failure and the constructor of `error`.

### `VtabLifecycle`

One virtual table written in C++, its connections, the statements that use it and
the exceptions its methods throw. `pVtab`, `refs` and `objects` say of each
connection (`VTable` in `sqlite3.c`) whether SQLite still has the table object, who
refers to it, and how many objects of `Derived` exist; `declared`, `saved`,
`changed` and `current` are what the schema knows of the table, `ending` is the
commit or rollback under way. `cursors` counts the objects of `Derived::cursor`.
`zErrMsg`, `vmsg` and `report` follow the text of an exception from the table
object through `Vdbe.zErrMsg` to what the program reads; `thrown` and `frees` are
history.

The C functions of `vtab` (`vtab_impl.hpp`) are folded into the calls SQLite makes
of them: `Create`, `Connect` (`create_impl`, `connect_impl`: a constructor may
return, throw, or return without `declare_vtab`), `Prepare` (`best_index`), `Open`,
`Fetch` (`filter`, `next`, `column`, `rowid`), `Begin` (`begin`, and `savepoint`
when one is open), `Update` (`update`, `rename`), `SavepointOrCheck`, `Commit`
(`sync`), `Finalise` (`commit`, `rollback`), `Drop` (`destroy_impl`) and whatever
makes SQLite let go of a connection: `ResetSchema`, `Finalize`, `EndTransaction`,
`Close`, which end in `Unlock` (`disconnect_impl`). What differs between callbacks
is who looks at `zErrMsg` afterwards: SQLite frees and reports it (`Heard`), copies
it for later (`Quiet`), frees it (`Discard`) or does not look (`NotHeard`). What
each of them does was read in `sqlite3.c` and tried out.

`Derived` is any class that throws what it likes but keeps to the interface. A code
carried by an exception, the SQL a table declares, constraints and values are left
out; a statement opens one cursor at a time.

### `IndexPlan`

How a query of a virtual table gets its rows, for a class that does what it says:
its index data lists the constraints it has taken over. `info` is what one call of
`best_index` has put into `index_info`; `plans` are the answers SQLite has kept, and
`program` the one the statement is compiled for. `CallBestIndex` .. `Return` are one
call with any part of the constraints usable, in which `SetIndexData` may happen any
number of times; with `false`, which `best_index_impl` makes `SQLITE_CONSTRAINT`,
the answer counts for nothing. `Kept` is nondeterministic: costs, orders and flags
decide it, and SQLite. `PlanningFails` is an exception, an answer SQLite rejects or
any other error. `Open`, `Filter`, `Column`, `NextRow` and `CloseCursor` are the
calls of the cursor. `Filter` comes with new values each time, as for an inner table
or an IN. A constraint is the set of rows that satisfy it. `listed`, `owned` and
`freed` say what each index data means, whether SQLite is to free it, and how often
it did. One table, one `WHERE` clause without OR.

### `ErrorObject`

Variables of class `error` (alone or in an `exception`) and of `message_ptr`, after
construction: `Copy`, `Move`, `swap`, both assignments, `extract_message`, the
destructor. A message is a place (null, a text that lives for ever, a block) and
whether there is a deleter; `heap` says which blocks are allocated. A field of an
error is represented by the failure it was taken from. `copy_message` may find no
memory. `_system_error_code` and `_offset` are one field, `details`, because the
code treats them alike.

### `Values` and `FunctionCall`

`Values` has operators only: what `sqlite3_value_text`, `_bytes`, `_blob` and
`numeric_type` do to a cell (`Mem` in `sqlite3.c`), of which the model keeps the
representations that are valid (`flags`), the encoding, whose buffer it is, and two
counters that go up when the content moves and when its size changes. `Get` is
`value::get` and `statement::column_value`: two calls and the view made from them.

`FunctionCall` is a statement that calls a function for each of its rows. `phase`
says whether control is in the callback, in the program at a row, or neither. `cell`
has the argument, the result column and a copy made with `dup`; `view` has the views
the program keeps; `aux` the auxiliary data of an argument that changes and of one
that does not; `isError` is the field of `sqlite3_context`, which also records that
auxiliary data was set. Actions: `Call`, `Return`, `ReturnFailed`, `EndStatement`,
`Read`, `NumericType`, `Dup`, `FreeCopy`, `SetAuxdata` and the results, each with
its refused outcomes. The owner of a datum follows from the slots, as in
`CallbackData`.

### `Connection`

One connection to a file that another connection (`foreign`) uses as well, with
either journal. `db` has autocommit, the lock, what the connection reads, whether its
transaction has written, and the blobs; `call` is the call in progress. A call is
split where the other connection can come in between: the lock, the end of the
statement, the notification of the WAL (`Notify`) and the return. A blob is
a statement in progress: `OpenToRead`, `OpenToWrite`, `Reopen`, `Close`, `ReadBlob`
and `WriteBlob` go through the same end, `Close` without telling anybody. A row that
is changed expires the blobs on it, a rollback trips those open for writing. `hooks`
has one callback per slot; `heard` records which were called and whether something
was written to the file. Texts and blobs are told apart by being different; offsets
and sizes are left out.

The end of a statement is `sqlite3VdbeHalt`, which goes by the error and by
`errorAction`; `Codes` has one value for each way through it. `HaltFatal` gives the
whole transaction up, explicit or not. `HaltCommit` is for the last writer in
autocommit mode that is done, and for one stopped by OR FAIL (`"fail"`), which commits
its earlier rows and throws nevertheless; after any other error such a writer rolls
back (`HaltFailed`). Where a transaction or a blob goes on, `HaltWithin` keeps what OR
FAIL has changed, gives everything up for OR ROLLBACK (`"rollback"`), and undoes the
statement otherwise. `call.before` is what that brings back: the content from before
the statement, or `None` for a statement without a journal of its own, of which a
half stays. Left out of `sqlite3VdbeHalt`: foreign keys (an immediate violation is one
more error; a deferred one undoes the commit of autocommit mode and makes COMMIT fail
with the transaction open), a connection in the middle of a commit of virtual tables,
SQLITE_SCHEMA beside other statements, a failure to play the statement's journal back,
the flag of a database found corrupt (`SQLITE_CorruptRdOnly`), and the interrupt of a
statement that only reads, which ends it without a rollback.

### `AtomicCopy` (abstract) and `Backup`

At one instant the copy becomes what the source is at that instant, or it is never
touched. `Backup` has the backup object (`bk`: next page, last code, `remaining`,
whether it is attached to the source), the connection to the source (`src`), the
committed source and the destination with its uncommitted pages. Between steps the
source's own connection reads, writes, spills, commits and rolls back (`OwnRead` ..
`OwnEndRead`), with the copied pages kept up to date (`Updated`), and others commit
to it (`ForeignCommit`), after which the backup starts again (`Noticed`). The size of
the source may change. `StepBusy` is what the wrapper returns as `busy` or `locked`,
`StepFails` what it throws. Page sizes that differ and in-memory sources are left out.

## 4. Runs

| run | instance | question |
|---|---|---|
| `callback_safety` | 2 data, 1 function, collation, module, key, schema, 2 statements with 1 parameter, under fairness | is every deleter run exactly when its datum is given up, does the whole implement `Ownership`, and is everything freed in the end? |
| `exec_scripts` | all scripts of up to 4 pieces of 6 kinds, every answer of the callback | are the statements numbered, run and delivered as promised, and does `exec` end? |
| `statement_use` | 2 statements (2 rows, 1 row), 3 guards, 2 values, 2 passes, flags `all` | is a statement as good as new for each use? |
| `error_capture` | 2 threads, 2 calls each of 12 kinds, with and without locking | what can an exception say? |
| `error_object` | 3 errors, 1 `message_ptr`, 2 failures, 3 blocks | has every text one owner, and is it the text of the code it comes with? |
| `function_call` | 2 data, 1 view, both encodings, arguments of 6 kinds | are data of a call given up once and in time, and what is a view good for? |
| `vtab_lifecycle` | 2 connections, 2 statements, 2 exceptions with or without a text | are objects and texts freed once and in time, and what is reported? |
| `index_plan` | 2 rows, 2 constraints, 3 index data | are the rows right whichever answer is compiled, and does index data live as long as it may be used? |
| `connection` | 1 row, 2 texts, 2 blobs, commit, rollback and wal hooks, both journals | what is locked, what has a call that throws left behind, and who hears of it? |
| `backup` | source of 1 to 3 pages of 2 contents, steps of 0, 1 and all pages, 2 interventions, both journals, under fairness | of what is the copy a copy, and do repeated steps come to an end? |
| `exec_nul`, `vtab_static` | small | the findings below |

Why the bounds are enough. Data interact only through a slot: two data give one
in place and one that replaces it or is kept elsewhere; with one name of each kind
every registration can still meet every other (the safety properties are proved for
any number). Two statements allow one to run while the other is finalised, and a
zombie with more than one statement. The replacement rules look at one slot and at
whether any statement runs. In `Exec` a failure can have a statement before and
after it, with a comment between. Three guards: one to move from, one to move to,
one that was left behind. Two calls per thread: the error that is there before, and
the one in question. Two connections to a virtual table: the one in use when the
schema is read again or the table dropped and created anew, and the one made then;
two exceptions: the one whose text was left behind, and the one in question. An
exception is thrown once, so `Exceptions` also bounds how many failures a behaviour
has. Three index data: that of the program, of an answer kept and of the call in
progress; two constraints give two orders of arguments. Three errors: a chain of two
copies, or an assignment with a third that must not be affected; a block for each.
In `FunctionCall` an operation touches one view, so one stands for all; copies made
by `dup` have no part in what happens to data, and the run explores the two
separately (`CopiesWithoutData`). In `Connection` two blobs can be on the row at
once, one of them writing; texts are only compared with each other; `busy_handler`
and `update_hook`, which change no outcome, are not installed. In `Backup` three
pages leave one before, at and after the next page; two interventions are a change
and one that comes on top of it. `Passes`, `MaxCalls`, `Events` and the range of
`Counters` in `Values` (which `TypeOK` shows is never left) are the bounds that cut
off counters. Interchangeable data, guards, values, threads, blobs, blocks and
exceptions are made symmetric in the runs of safety properties; the runs with
liveness use no symmetry.

Deadlock is checked wherever the system has no end: in `StatementUse`,
`ErrorObject`, `FunctionCall`, `IndexPlan`, `Connection` and `Backup`. In the others
the system really stops: the connection is freed and all data used, the script is
done, the threads have made their calls, the connection to the virtual table is
closed.

Fairness. `callback_safety` assumes that `~database` and `~statement` run at some
point, because their owners are `unique_ptr`s in scopes that end; nothing else is
assumed. `Exec` assumes that its one thread goes on, which includes that the
callback returns or throws. `backup` assumes of the program that it calls `step`
again with a page count other than 0, as the loop in the documentation of SQLite
does, and that it ends the transactions it has open on the source; and of others
that they leave the destination. The bound `Events` is an assumption, too: a source
that other connections write for ever may make a backup start again for ever. No
other run assumes fairness.

Every property of a passing run has a mutant: a plausible bug in a mapped
definition that the run then finds.

### Findings

* `exec_nul`: a NUL in the text makes `statement_parser::next` loop for ever
  (`statement_impl.hpp:209`).
* `vtab_static`: the guide lets a method of a virtual table throw any exception and
  promises that the message is passed on properly. An `exception` with a static
  text, such as `exception(SQLITE_CORRUPT)`, ends in `sqlite3_free` of a string
  literal (`vtab_iface.hpp:626`).

### Limits met while modelling

Each is part of a model, and the properties that hold allow for it.

* A callback of `exec` that returns false stops its own statement only
  (`database_impl.hpp:52` leaves the inner loop), and the next statement runs. The
  documentation says "subsequent statements are skipped"
  (`database_iface.hpp:294-295`). `RunsToFirstFailure` claims nothing of the
  statements after one that was stopped (`StoppedAhead`), so it holds either way.
* A `row_range` can be traversed once: a second `begin()` is not at the end and not
  at a row (`row_iterator.hpp:369`). The introduction calls it a forward range.
* A failure that SQLite does not record in the connection is reported with what the
  connection remembers, "another row available" or an older error
  (`database_impl.hpp:389`, `database_iface.hpp:1108`). `CodeKeepsToResult` and
  `OwnError` claim nothing of such calls but the code, where the result decides it.
* `bind_reference` of more than INT_MAX bytes never calls `unref`
  (`statement_impl.hpp:86`).
* Copying or moving an `error` leaves the system error and the offset behind, and an
  assigned error keeps those of the error it had (`exception_iface.hpp:99`).
* The text of an exception from `commit`, `rollback`, a savepoint method or
  `integrity` of a virtual table is leaked when the table goes, because `vtab` has
  no destructor to free it (`LostOnlyIfUnheard`), and until then can turn up as the
  text of a later failure that has none (`OwnReport`).
* `set_index_data` twice in one call of `best_index` leaks the first data if it was
  allocated (`DataLifetimes`). Data set without `allocated` has to outlive the
  statement. It is stored as a `char *` and cast back by `filter`, so a type that
  needs a pointer adjustment is not the one that comes out, and EXPLAIN QUERY PLAN
  prints it as a C string.
* The destructor of a blob may commit, and discards the failure of that commit
  (`blob_iface.hpp:41`); a `reopen` that fails may commit what was written before,
  although it throws. After ROLLBACK with a blob open for writing, statements stay
  uncommitted until the blob is closed (`LockMatchesUse`).
* Three exceptions of a statement do not mean that it has changed nothing, and
  `ThrownIsUndone` excepts them: that of a wal hook, thrown when the data are
  committed, by that statement or by a later one; a constraint of OR FAIL, whose
  statement keeps the rows before, in autocommit mode committed; and inside a
  transaction any error of a statement for which SQLite keeps no journal.
* A `string_view` of a column or an argument dangles after `numeric_type` has made a
  number of the text (`StringViewsLast`); a `blob_view` after the value is read as a
  text. Without memory for a conversion a view can have a null pointer and a size.
* `remaining()` of a backup is negative after the source has shrunk below the pages
  that were copied (`RemainingAfter`).

## 5. Proofs

`CallbackDataProofs` proves, for any sets of data, names, statements and parameters:

* `AlwaysConsistent`: `Consistent` is an inductive invariant. None of
  `DestroyedAtMostOnce`, `NoDanglingRegistration` and `TypeOK` is inductive alone:
  a deleter runs when a datum is no longer held, so to know that it runs once one
  must know that a held datum has not been deleted, and to know that about a datum
  which a call just offered, that data not yet handed over are neither held nor
  deleted (`UntouchedUntilGiven`). `Consistent` is the conjunction of the four.
* From it `TypeCorrect`, `NeverDestroyedTwice`, `NeverDangling`, and, if no huge
  value is bound by reference, `NeverLeaked` and `DataAccounted`, the conjunction
  the run checks.
* `FreedIsEmpty`, with a second invariant `Placed` about where data can be: a
  statement that does not exist has empty slots, a closed connection no client data.
* `RunningStatementsAreSafe`: the data of functions and collations survive while a
  statement keeps running.
* `OwnershipRefined`: `CallbackData` implements `Ownership`. A datum that was leaked
  would be `"lost"` in the mapping, which no transfer reaches, so this theorem too
  is proved for programs that bind nothing huge.

The argument goes through one operator. `FairCall` says when a call settles well:
it offers new data, keeps only what it held or was offered, and the wrapper deletes
only what SQLite neither keeps nor deletes. `SettleOne` says what `Settle` then does
to one datum; each action is shown to be a fair call; the theorems follow from
`Settle` alone. Assumptions: `NoneAssumption`, `SizesAssumption`, `NamesAssumption`
of `CallbackData` (the null pointer is no datum; names of different kinds differ).

`StatementUseProofs` proves every safety property of `statement_use`, for any
statements, numbers of rows, values and guards:

* `AlwaysExclusive`: two guards never refer to one statement, and a loop that runs
  is over the statement of its guard (`Exclusive`). Everything else rests on it: a
  guard that resets a statement does so to its own use only. With it come
  `UseTypeCorrect` and `FirstPassSafe`.
* `GuardsLeaveReady` and `RowsOfOneUse`, for guards that reset: the rows a use has
  seen are counted by the position of the statement, which is that of the first row
  when the use begins because the last guard left it there. Neither is inductive
  without the other (`Fresh`).
* `ValuesOfOneUse`, for guards that clear the bindings: a statement without a guard
  has no values at all (`UnboundWhenUnguarded`), so those of a use are its own.

`Through` says what an action may change that goes through a guard and leaves all
guards in place (step, reset, bind, the loop); such actions are done once for all,
the moves of guards one by one. The flags are a premise of the last three theorems
because the properties are false without them. Assumptions: `RowsAssumption`,
`FlagsAssumption`, `PassesAssumption`, `NullAssumption`.

`ErrorCaptureProofs` proves, for any threads and calls:

* With or without the lock, `ErrorTypeCorrect`, `ExceptionIsNeverOK`,
  `MisuseIsNeverHidden` and the two together, `CodeIsRight`, from `Sound`: a thread
  that builds an error has made a failed call (`InCall`), and the code it has read so
  far is right as far as the result alone decides it (`CodeSoFar`).
* With the lock, `ErrorIsOwn` and `MessageStaysReadable`, from `Covered`: a thread
  in a call has the mutex (`Held`), so nobody is between it and the connection; what
  the call has left there is still there (`InDatabase`), what has been fetched is
  the same (`InError`), and the text is readable until it is copied (`InMessage`).
  The two properties speak of the finished exception only; these parts follow it
  through the steps of the constructor.

Assumptions: `KindsAssumption`, `CallsAssumption`, `NamesAssumption` and
`ThreadsAssumption` (a free mutex is not one that a thread has).

`ErrorObjectProofs` proves every property of `error_object`, for any errors,
pointers, blocks and failures: `ObjectsTypeCorrect`, `CodesAndTextsAgree`,
`EachMessageOwnedOnce`. That a block is not freed twice needs `Owned`: two messages
that are to be deleted never point to one block, and a block is in use exactly if
such a message points to it. `Replaces` says what a change of one object has to
show; the constructors, both assignments, `swap`, `extract_message` and the
destructor are shown to be such changes. Assumption: `ErrorObjectAssumption`.

`FunctionCallProofs` proves every property of `function_call`, for any data, views
and arguments:

* `FunctionsTypeCorrect`. The model counts the moves of a content and its size from
  0 to 6. The proof shows that no conversion would go beyond 6: `Left(c)` is how
  often the content of `c` can still move (a zero blob is expanded, an encoding
  converted, a text terminated, a number given a text), every conversion uses one of
  these up, and `place + Left` stays within the bound (`Fit`). So the bound leaves
  out no behaviour.
* `AuxdataEndsWithCall`: data of the varying argument are there only during the call
  that has set them, and that call is marked (`AuxMarked`).
* `FunctionsRefineOwnership`: each datum has one holder (`OneHolder`) and the history
  agrees with it (`Counted`). `Fair` says what an operation may do to holders; each
  operation is shown fair, and fair operations are transfers of `Ownership`.
* `ViewsFitWhenRead` and `StringViewsStayValid`, from `ViewsFollow`: a view never
  points to a later version of a content than there is, and a text that has been read
  as a `string_view` has no conversion left that would move it (`Settled`). The lemmas
  about `Values` (what a conversion keeps, and what it uses up) carry the proof.

Assumption: `FunctionCallAssumption`.

`VtabLifecycleProofs` proves every property of `vtab_lifecycle`, for any tables,
statements and exceptions, whichever kinds of texts these have:

* `ObjectsConsistent` is inductive by itself: references are counted right, a live
  table has one, and an open cursor belongs to a running statement of a live table.
  `SchemaIsLive` is what makes it so: the schema never points to an object that is
  gone, also after a rollback has brought an older schema back.
  `ObjectsLiveAsLongAsNeeded` follows.
* `TextsConsistent` needs the objects, for a method is called on a live object only.
  A text that is left in `zErrMsg` is one SQLite has not fetched, no two objects share
  one (`OneTable`), and a report is about an exception that was thrown
  (`ReportsThrown`). From it `NoTextFreedTwice`, `OnlyUnheardTextsAreLost` and
  `FailuresReportTheirOwnText`. A failure without a text may show an older text:
  the proof, like the property, allows that only for a text SQLite had not heard of.

Assumptions: `KindsAssumption`, `NoneAssumption`, `StmtsAssumption` (names of
different kinds differ).

`ExecutionProofs` proves about `Exec`, for every set of scripts, with NUL characters or without:
`ExecTypeCorrect`, `RowsReachCallbackInOrder` and `ExecRunsToFirstFailure`. The
invariant follows exec through the script: between its statement and the text that is
left lie blank pieces only (`Placed`), the callback has seen nothing beyond it
(`CallsBehind`), and everything before it has passed (`Behind`). That the callback
gets the number of its statement needs a count of finite sets (`CountFacts`), that a
failure is the first one a least element (`MinFacts`). Assumption: `ScriptsAssumption`.

About `IndexPlan` it proves every property of `index_plan`, for any finite table, any
constraints and any amount of index data: `QueryTypeCorrect`,
`ScansReturnTheRightRows` and `IndexDataLifetimes`. The invariant `AlwaysPlanned` has
two parts, and the second needs the first:

* `Planned` is about the answers. An answer that may still be used has its data, not
  freed, and frees it in the end exactly if SQLite owns it (`AnswersHaveData`). For
  that to survive the dropping of another answer, no two answers may share data
  (`OneAnswer`), which holds because each call of `set_index_data` brings data that
  was not set before.
  The data of an answer say what its arguments are (`AnswersList`), whatever other
  calls of `best_index` have put elsewhere.
* `Scanned` is about the cursor: what has been found so far is what satisfies all
  constraints among the rows it has passed. Between `filter` and the end, `rest` is
  what lies ahead of it, and the row it is on counts as passed once its columns have
  been read and SQLite has compared the constraints the class has left unchecked.
  That these are all the others is `AnswersList` again.

`IndexDataLifetimes` needs, beside the invariant, what one step may do to data
that are referred to. Assumptions: `RowsAssumption` (a finite set of numbers, so that
a cursor has a least row to go to), `IndexNoneAssumption` (null is no data, no answer
and no list of arguments).

`DatabaseProofs` proves every property of `connection`, for any rows, values and
blobs, and any hooks:

* `LockIsHeldWhenNeeded`. The property is about the time between two calls. The
  invariant says what holds inside them: at every stage but the end of a statement
  (`"halt"`) a write transaction that nobody needs is over (`NothingPending`), a blob
  that can be written has the lock, and what is not committed was written under it
  (`WritersHoldLock`). `BEGIN`, `COMMIT`, a failed `reopen` and the destructor of a
  blob may break the first only by going to `"halt"`.
* The action property `EndsAreHeard`, from `Stages`: what a call has heard and thrown
  at each stage. In particular no statement comes to its end having been told of a
  commit, nor of a rollback while the transaction is still there.
* `FailedStatementsAreUndone`, an action property as well: what a statement that
  throws leaves to be read. It needs a second invariant (`AlwaysRemembered`). Without a
  transaction the connection reads what is committed (`FreeReads`), so that giving the
  transaction up leads back there; and a statement about to fail that has not written
  still reads what it began with (`Remembered`), which another connection cannot change
  while a transaction is open.

No assumption about the constants is needed for it.

It also proves, for any page contents, any size of the source, any page counts
passed to `step` and any number of changes in between:

* `BackupTypeCorrect`, which includes that a destination that is finished holds pages
  of the source only, none of the old ones.
* `BackupIsAtomicCopy`: `Backup` implements `AtomicCopy`. The step that commits the
  destination is the copy; what the source's own connection and others do is a change
  of the source or a stutter, and an abandoned or failed backup does not touch the
  destination.

Both rest on `BackupAlwaysConsistent`. That the pages copied so far are those of the
source is not an invariant, and the invariant says when it holds. While the
connection of the source writes, it holds of the pages that are as committed, since a
page is sent to the destination when it is committed or spilled and again after a
rollback (`WrittenApart`). While another has committed and this connection has not
noticed, it need not hold at all: the next transaction on the connection makes the
backup start again (`src.changed`). At all other times it holds of all pages in
front of `next` (`SoFar`). A backup hears of changes only while it is attached to the
source, so one that is not attached must not have copied anything (`Hearing`).
Assumption: `SizesAssumption`.

Only model-checked: liveness (`EventuallyDestroyed`, `Terminates`, `StepsEnd`), which
the proof system does not reach, nor `ENABLED`. Every invariant and every other
temporal property of the passing runs is a theorem.

## 6. Not modelled

* `snapshot`: a thin layer over the WAL, whose readers, checkpoints and headers would
  have to be modelled from SQLite alone.
* Of the hooks: `preupdate_hook` and `collation_needed`, whose callbacks answer
  nothing, and `progress_handler`, which ends a statement as any failure does.
* Of `context` and `value`: `user_data`, `get_auxdata`, `aggregate_context` and
  subtypes, which return or store what they are given.
* Of virtual tables: the codes of exceptions, overloaded functions
  (`find_function`), shadow names, `handle_in` and the lists of `in_first` and
  `in_next`, and table-valued functions without a declared table.
* Conversions of sizes: one comparison, with no state behind it.
* SQL itself (a statement yields rows, ends or fails), texts of messages, logging and
  layout; process-wide configuration; allocation failure inside the wrapper, except
  where a SQLite call reports it.
* `x = std::move(x)` on a guard, and programs that use a statement behind the back of
  its guard or loop.
* `handle`, `memory`, `span`, `string_param`, `meta`, `keywords`, `version`, `global`,
  `config`, the C++20 module file (generated from the headers), samples and tools: no
  state and no protocol of their own.
