# usqlite in TLA+

usqlite is a MicroPython module, written in C, that gives Python programs on
small devices a `sqlite3`-like interface to SQLite.  The SQLite amalgamation is
compiled into it and runs on a file system made of MicroPython file objects.
This directory models the module, checks the models with TLC, and proves the
most important results for every instance with TLAPS.

Contents: [the system](#the-system), [modules](#modules),
[how the model corresponds to the code](#how-the-model-corresponds-to-the-code),
[the properties](#the-properties), [the runs](#the-runs), [fairness](#fairness),
[what is proved](#what-is-proved), [findings](#findings),
[what is not modelled](#what-is-not-modelled), [plan](#plan).

## The system

usqlite has one thread (`SQLITE_THREADSAFE=0`).  What makes it hard is that it
sits between two runtimes that call each other: Python calls usqlite, usqlite
calls SQLite, SQLite calls back into Python (trace callback, files), and a
Python exception jumps over whatever C frames are in between.

| component | files | state | operations |
|---|---|---|---|
| cursor | `usqlite_cursor.c` | `stmt`, `rc`, `rowcount`, `arraysize` | `execute`, `executemany`, iteration, `fetchone`, `fetchmany`, `fetchall`, `close`, `__del__`, attributes |
| connection | `usqlite_connection.c` | `db`, `cursors` (the list of cursor objects), `callback`, `row_type` | `cursor`, `execute`, `executemany`, `close`, `set_trace_callback`, attributes |
| SQLite statements | `sqlite3.c` (vendored) | a `Vdbe` per statement: state, row counter, `pResultRow`; per database: `nChange`, `nVdbeExec`, list of Vdbes | `sqlite3_prepare_v2`, `_step`, `_finalize`, `_exec`, `_close`, `_changes` |
| rows and column names | `usqlite_row.c`, the `row_*` functions of `usqlite_cursor.c` | the row type a cursor was made with; a row of type `row` has its cursor as an element | `keys`, `description` |
| values and errors | `usqlite_utils.c`, `bindParameter(s)` | none | bind a Python value, read a column, raise |
| SQLite pager | `sqlite3.c` (vendored) | `Pager`: state, journal offsets, pages in the journal; page cache | begin, write a page, spill, commit, roll back, close |
| file system (`mpvfs`) | `usqlite_vfs.c`, `usqlite_file.c` | a stream, a path and flags per open file | `xOpen`, `xRead`, `xWrite`, `xTruncate`, `xSync`, `xFileSize`, `xDelete`, `xAccess`, locks |
| memory | `usqlite_mem.c` | the blocks SQLite has, MicroPython's counters of bytes; the heap itself is MicroPython's | malloc, free, realloc, size |
| module | `usqlite_module.c` | `initialized`, `mem_status` | `connect`, `mem_peak`, `mem_current`, `mem_status` |
| configuration | `usqlite_config.h`, `usqlite.c`, build files | none | compile time |

**How they interact.**  A connection registers every cursor it makes in its
list; the cursor holds the connection and one SQLite statement.  Closing the
connection walks the list.  A cursor's fetch operations do not ask SQLite
whether there is a row: they look at `rc`, the code of the *previous* step.
Before the first row of a statement SQLite calls the trace callback, which may
call any operation of the connection or its cursors before it returns.
`sqlite3_changes`, which becomes `rowcount`, belongs to the connection, not to
the statement.

**Which behaviours are hard, and what would be right.**

* *Cursor.*  It always stands one row ahead of the program, whichever mixture of
  the four ways to fetch is used; nothing may be received twice, skipped or left
  over, and `rc` must never be stale.  → `RcTellsTheTruth`, `RowAccounting`,
  `RowsInOrder`, `BatchesAreFull`, `FetchTerminates`, and the abstract
  specification `ResultSet`.
* *Connection.*  Every statement that is prepared must be finalized by somebody,
  on every path: errors between prepare and step, cursors the program never got,
  closing in any state.  → `StatementsOwned`, `CloseReleasesDatabase`.
* *Trace callback.*  Nested statements share the change counter and the nesting
  count of the database; closing from a callback frees what runs below it.
  → `OwnChanges`, `NestingCounted`, `NoFinalizedStatementUsed`.
* *Object lifetime.*  `connection.close` frees the memory of cursors.
  → `HeldCursorsAlive`.
* *File system.*  One position per stream, 64-bit offsets through an `int`, calls
  that stop part of the way, and a file whose existence is looked up in a
  directory listing.  A method must implement a file that changes only where and
  when asked.  → `ImplementsFileStore`, `WritesLandWhereAsked`, `AnswersAreTrue`,
  `ShortReadsAreZeroFilled`, `OpeningKeepsContent`.
* *Transactions.*  The journal has to restore the database from whatever part of
  the writes a loss of power keeps, with an old journal's records behind its own;
  a rollback has to restore cache and file; and a call of the file system that
  fails, at any point of either, may end the transaction but not split it.
  usqlite's part is `xAccess`, which denies that a journal exists, `xTruncate`,
  which does nothing, `xRandomness`, which gives none, and which failures it
  reports as what.  → `Recoverable`, `AtomicUnlessHarmed`, `DurableUnlessHarmed`,
  `DurableUnlessNew`, `CallsReturn`, `CleanPagesAgree`, `ImplementsAtomicDb`,
  `CrashIsAtomic`, `RollbackRestores`.
* *Values and rows.*  `bindParameters` loops over parameter numbers, with three
  ways to name a parameter and three ways to pass values; integers are cut to an
  `int`; buffers are bound without a copy; row types differ.  A row must show
  what its own `execute` was given.  → `RowsShowWhatWasGiven`,
  `RaisesOnlyWithReason`, `NoParameterLeftOut`, `BoundBuffersAreValid`,
  `RowsAreTheirColumns`, `DescriptionReadsNames`.
* *Module start-up.*  SQLite is configured and started by whichever call comes
  first, and starting may fail; its memory statistics are only right if they are
  not switched while memory is outstanding.  → `MemoryIsAccounted`,
  `AllocatesFromMicroPython`, `StatusIsReported`, `NoHandleLost`, `NoMemoryLost`.
* *Memory.*  Two accounts are kept of every block, by two rules: SQLite's goes by
  the size of the block, MicroPython's by the bytes asked for, also when there is
  no block.  → `StatisticsAreExact`, `CountersAgreeUntilUneven`.

`PROJECT.json` lists the hazards line by line, with the properties that cover
them or the reason why none does.

## Modules

| module | what it is |
|---|---|
| `SqliteStmt` | the part of a `Vdbe` that usqlite can tell apart, as records and functions on them |
| `Usqlite` | one connection: its cursors, their statements, the C call stack with the trace callback, close |
| `ResultSet` | abstract: what a cursor promises about the rows of a query |
| `MCUsqlite` | symmetry and argument sets for TLC |
| `Usqlite_proof` | the TLAPS proofs about `Usqlite`: types, `rc`, ownership, close; nested calls: `nVdbeExec`, statements in use |
| `Rows_proof` | the TLAPS proofs about rows: order, batches, `rowcount`, the refinement of `ResultSet` |
| `FileStore` | abstract: the files SQLite counts on, with sync and loss of power |
| `MpVfs` | `usqlite_vfs.c` and `usqlite_file.c` over a MicroPython stream |
| `MCMpVfs` | argument sets for TLC |
| `MpVfs_proof` | the TLAPS proofs about `MpVfs`, the refinement of `FileStore` included |
| `AtomicDb` | abstract: a database with atomic transactions |
| `Journal` | SQLite's pager on a `FileStore`: cache, rollback journal, loss of power |
| `JournalFaults` | `Journal` with calls of the file system that fail, and what the pager makes of it |
| `JournalRecovery` | the playback of a hot journal as a recursive function, over whatever a loss of power leaves |
| `Journal_proof` | the TLAPS proofs about `Journal` up to a commit: types, journal and pages, the invariant |
| `Atomic_proof` | rollbacks, and from the invariant: page cache, durability, the refinement of `AtomicDb` |
| `Recovery_proof` | that the journal restores the database from whatever a loss of power leaves: what a playback does, what is synced when |
| `Values` | parameters, `bindParameters`, bound buffers, rows and row types |
| `MCValues` | SQL texts and argument values for TLC |
| `Values_proof` | the TLAPS proofs about `Values`: parameter numbers, what a column shows, what is refused |
| `ModuleInit` | `usqlite_module.c`: start-up, memory status, database handles |
| `Heap` | `usqlite_mem.c`: the memory of `ModuleInit` block by block, from MicroPython |
| `Heap_proof` | the TLAPS proofs about `ModuleInit`, by itself and with the blocks of `Heap`, and about the two accounts `Heap` keeps of its blocks |

`Usqlite` extends `SqliteStmt`, instantiates `ResultSet` under a refinement
mapping, and is extended by `MCUsqlite`, `Usqlite_proof` and, on top of that,
`Rows_proof`.  `MpVfs` extends `FileStore`, whose specification it implements;
`Journal` instantiates `FileStore` for the database and its journal, and
`AtomicDb` under a refinement mapping.  So `FileStore` is where the two halves
meet: what `MpVfs` was shown to provide is what `Journal` works on.
`JournalFaults` extends `Journal`, `JournalRecovery` extends `JournalFaults`;
`Journal_proof` extends `Journal`, `Atomic_proof` extends `Journal_proof`, and
`Recovery_proof` extends `Atomic_proof` and `JournalRecovery`.
`Heap` extends `ModuleInit`: its actions are those of `ModuleInit` together with
what each does to the blocks.  `Values` stands alone: it looks into the rows that
`Usqlite` only counts.

## How the model corresponds to the code

**State.**  `stmt`, `rc`, `rowcount`, `arraysize` are the fields of
`usqlite_cursor_t`, `db` and `registered` the fields `db` and `cursors` of
`usqlite_connection_t`, `tracing` says whether `callback` is set.  `obj` is the
state of the memory of the cursor object itself, `held` says which cursors the
program has a reference to.  `vdbe`, `nChange`, `nVdbeExec` and `sqliteDb` are
SQLite's.  `stack` is the C call stack: one frame for each usqlite call that is
inside SQLite, at the phase `trace` (the callback runs), `run` (inside
`sqlite3_step`), `next` (`sqlite3_exec`, between two statements) or `loop` (the
while loop of `fetchmany`).  `delivered` (rows the program has received) and
`fault` (undefined behaviour it ran into) are history.

**Steps.**  The program takes a step when the stack is empty or its top frame
waits for a callback (`ProgramTurn`).  An operation that cannot be interrupted
is one action; one that can is split exactly where SQLite hands control back:

| code | actions |
|---|---|
| `connection.cursor` | `NewCursor` |
| `execute`: closes the old statement, prepares, binds, steps | `Rejected` (does not compile, or closed), `ExecuteBlank` (only a comment), `ExecuteUnbound` (values do not fit), `ExecuteBegins`, then `TraceReturns`, then `ExecuteRow`, `ExecuteDone` or `ExecuteFails` |
| `executemany`: `sqlite3_exec` | `ManyBegins`, `ManyPrepares`, `TraceReturns`, `ManyStmtDone` or `ManyFails`, `ManyRejects`, `ManyReturns` |
| `__next__`, `fetchone`, `fetchmany`, `fetchall` | `IterNext`, `FetchOne`, `FetchMany`, `FetchAll`, `FetchLoop`, `FetchReturns`, `FetchNoMem` |
| `cursor.close`, `__exit__`, `__del__` | `CloseCursor`, `DelCursor` |
| `connection.close`, `__exit__` | `CloseConnection` |
| `set_trace_callback` | `SetTraceCallback` |
| trace callback returns, or raises | `TraceReturns`, `TraceReturnsToFreed`; `Unwinds` |
| use of freed objects, of a closed database | `UsesFreedCursor`, `UsesNullDb` |

`connection.execute` and `cursor.execute` are the same action on a new and on an
existing cursor (`Callee`).

**Habits.**  What an ordinary program may do and what only a careless one does
are told apart by the constant `Habits`, so that a run or a theorem says which
programs it is about: `reenter` (closing from the callback what is starting
below it), `throw` (raising from Python code that SQLite called), `nomem` (an
allocation failing inside a fetch), `use_after_close`, `use_after_del`.  With
`Habits = {}` the callback may still execute, fetch and close anything else.

**Abstractions.**

* A row is its position in the result set; values and columns are left out.
* Which outcome a step has (row, done, error) is nondeterministic, at every
  step: a superset of what a real statement does.  After an error or the end the
  statement is halted, and the model has no step from there, because the code's
  fetch operations never take one (`RcTellsTheTruth`, and in the abstract
  specification: a result set that has ended does not start again).
* Only the first step of a statement is traced, as in `OP_Init`; the steps a
  fetch makes call no Python function.  Exceptions of the file system below a
  fetch are therefore not modelled; below `execute` and `executemany` they are
  (`Unwinds`).
* The cursors list is the set `registered`: its order and the empty entries that
  `deregister` leaves are not observable.
* `nChange` is not tracked while the connection closes: nothing can read it
  afterwards.
* `DelCursor` is only called while the connection is open: afterwards the object
  is freed memory and the call is a `UsesFreedCursor`.
* One connection: two connections share no state of usqlite; they meet in the
  file (see the [plan](#plan)).

**`MpVfs`: files.**  `file[f]` is an `MPFILE` (`stream`, `path`, and of `flags`
whether it is deleted when closed, with what the mode of its stream lets it write
and the position); `disk` and `media` are the contents as they are seen and as
they would survive.  One action per method: `Open`, `Read`, `WriteCells`,
`Truncate`, `SyncFile`, `FileSize`, `Close`, `DeleteFile`, `Access`, and
`PowerOff`.  The stream is external: a seek, a read, a write, a flush may fail or
stop part of the way, `open`, `remove` and closing may raise (`Raised`).  `Int32`
is the conversion to `int`, at a scaled-down width; `out` is what the last call
answered.  Locks, which are no-ops, are left out.

*Names.*  `open` finds a file by its name (`FileNamed`), but whether it is there
`usqlite_file_open` asks `usqlite_file_exists`, which cuts the name at its last
separator, lists what is before it, and compares what is behind it with the
spelling of each regular file listed.  So a name is a `dir` (empty for `/x.db`,
`.` without a separator) and a `base`; `ListedDirectory` is the directory the
code lists, `DirectoryOf` the one the file is in; and `listed` is the spelling the
directory lists each file under, or `Unlisted` for an entry that is not of type
0x8000.  Two names that differ in case may lead to one file, as on FAT.  A file
that is there and not found (`Hidden`) is opened `w+b`, which empties it:
`Overwrites`.  A file that is found where it is not only makes `open` raise.
`Cwd` is a constant: the program does not change its directory while it uses
SQLite.  `DeleteFile` has the path and not the name, because `os.remove` finds
what `open` finds; `NULL` names (temporary files) and the limit `MAXPATHNAME` are
left out.

**`Journal`: transactions.**  `pager` has the fields of `Pager` the journal
depends on; `cache` the content of cached pages; `pc` which part of a commit, a
spill or a rollback is going on.  `prng` counts the random numbers drawn since
the program started: `sqlite3_randomness` with a seed that `mpvfsRandomness`
never fills is a function of that count.  A content is the number of the
transaction that wrote it.  `committed` is history.

| code | actions |
|---|---|
| `sqlite3PagerOpen`, `sqlite3PagerSharedLock`, `sqlite3PagerClose` | `Open`, `SharedLock`, `Close` |
| `getPageNormal`, the page cache | `Get`, `Recycle` |
| `sqlite3PagerBegin`, `pager_write` (with `pager_open_journal`, `pagerAddPageToRollbackJournal`) | `Begin`, `WritePage` |
| `pagerStress` | `Spill`, then `syncJournal`, then `SpillPage` |
| `syncJournal` | `NextHeader`, `SyncRecords`, `CountRecords`, `SyncHeader` |
| `sqlite3PagerCommitPhaseOne` | `Commit` (change counter), `syncJournal`, `CommitPage`, `CommitPagesDone`, `SyncDb` |
| `pager_end_transaction` | `EndNothing`; `ZeroHeader`, `EndTransaction` |
| `sqlite3PagerRollback`, `pager_playback` | `Rollback`, `PlayHeader`, `PlayRecord`, `SkipRecord`, `RefuseRecord`, `SegmentPlayed`, then `SyncDb` and the end of the transaction |
| the power supply | `PowerOff` |

* A file is a sequence of cells: a page of the database is one; a journal header
  is two (magic with the number of records; seed) and a record three (page
  number; page; check-sum).  A loss of power keeps or loses each cell that was
  written since the last sync, so it tears records and headers, but not a single
  page: a torn page of the database is restored like a whole one, and a torn
  page of a record fails its check-sum like a lost one.
* A header follows the records at the next sector: a gap of two cells, which
  leaves records of different transactions unaligned, as they are on the medium.
* A check-sum is its seed and the page it is of: no collisions.
* All draws of `sqlite3_randomness` but those for journal headers are left out;
  they move every seed of a run, by as much in each run that does the same.
* A file system's removal of an entry survives at once (`FileStore!Delete`).
* `FileStore` is what `MpVfs` provides for files that `usqlite_file_exists` finds.
  A database or a journal that is hidden from it would be emptied by the next
  connection that opens it.
* The database starts with any number of pages of `InitialSize`, 0 included (a
  new file), and grows: `NewDatabase`, `Extend`.  A page is who wrote it and, in
  page 1, how many pages there are; a file whose page 1 does not fit its length
  is no database (`IsDatabase`).  A header has the size to go back to, and
  `PlayHeader` sets `dbSize`, but not the file, whose `xTruncate` does nothing.
  The database does not shrink.
* `Next` has no loss of power; `PowerSpec` adds it (`PowerOff`).
* An exclusive pager that gave up in the error state keeps its journal open and
  owes a rollback (`Owed`).  While one is owed or running (`Unfinished`) nobody
  looks at the pages, and the image of `AtomicDb` is the committed one.
* `ImplementsAtomicDb` leaves out one case: a new file that has been spilled to
  and rolled back (finding 4).

**`JournalFaults`: calls that fail.**  `usqlite_vfs.c` has three answers: a write
that stops part of the way is `SQLITE_IOERR_WRITE`, a read `SQLITE_IOERR_SHORT_READ`,
both errors of the medium that put the pager in its error state; a seek or a
flush is `SQLITE_ERROR`, an error of the statement.  A failed write leaves any
number of its cells and perhaps half of the next; a failed sync did nothing.

| where | actions |
|---|---|
| `pager_write` | `RecordFails` |
| `syncJournal`, `pager_write_pagelist`, `sqlite3PagerSync` | `CommitFails`, `SpillFails`, `NextHeaderUnread`, `NewHeaderFails` |
| `pager_end_transaction` | `ZeroHeaderFails`, `EndTransactionFails` |
| `pager_playback` | `PlaybackGivesUp`, `PlaybackFails` (and tries again), `RecordUnread` |
| the next statement, or close | `RecoverHot`, `CloseOwed` |

What a failed step becomes is one of `GivesUp` (the error state and the reset of
the cache), `RollsBack` (the transaction) and `GoesOn` (only the statement
failed, in a transaction that BEGIN opened).  `harm` is history: the failures
after which the code does not keep its promises.  Four of them break atomicity:
a rollback that cannot read a record (`shortRead`), a transaction that goes on
after a failed spill without the header it needs (`noHeader`) or with one that
counts too few records (`counted`), and a connection closed while a rollback was
owed (`leftOwed`).  Three leave a journal that is not true of the database any
more (`oldHeader`, `notFinished`, `leftJournal`), which matters only to somebody
who would look at it.

Left out: reads of the database that fail, a failure to delete the journal, a
rollback that fails a second time with `SQLITE_ERROR`, savepoints.  A run has
one failure (`MaxFail`) or one loss of power, not both, and `AtMostOneFailure`
says so in the properties: they promise nothing beyond it.  With two failures
none of them holds: after a page whose record failed softly, a spill of that page
that is torn has nothing to go back to.  After a loss of power the seeds are drawn
again, and what a journal left behind does to a later rollback (finding 3) breaks
atomicity and, in a third transaction, durability too.

**`JournalRecovery`: playing a journal back.**  `Playback` is `pager_playback` of a
hot journal, as a function of the number of its steps (`PlayedOn`: a record, or
the header after the last one), and `Recovered` what a pager would make of a
journal and a database if `xAccess` told it that there is a journal, which
usqlite's does not: `Recoverable` is about what is on the medium, and that it is
not used is the business of `CrashIsAtomic` (finding 2).  `Survivors` is every
content that a loss of power can leave at this moment.

**`Values`: parameters and rows.**  The SQL text is the sequence of its
parameter tokens (`?`, `?NNN`, or a sign and a name), and the statement a SELECT
of them, so that each row shows what was bound and each column has the text of
its parameter as its name.  `Params` is SQLite's numbering, a fold over the
tokens; `ValueFor` is `bindParameters`, one operator per branch; `Bound` and
`ColumnValue` are what happens to a value on the way in and out.  `array` has the
block of memory and the content of each bytearray of the program, which it may
change (`Assign`) or make move (`Extend`) at any time.  `call` is history: the
last `execute` with a copy of what it was given.

| code | actions |
|---|---|
| `connection.row_type = t`, `connection.cursor` | `SetRowType`, `NewCursor` |
| `execute` with or without values | `ExecuteRaises`, `ExecuteSteps` |
| `fetchone`, `__next__` | `Fetch` |
| `cursor.close` | `Close` |

* Texts, floats and bytes are opaque values that come out as they went in; a
  `bool` is an integer and left out; so is the garbage collection of a bound
  object.  Strings and bytes do not change or move, bytearrays do.
* What `execute` can fail with apart from its values is the subject of `Usqlite`,
  as are the other fetch operations, which build rows with the same function.
* `Description` is what `cursor.description` reads: an operator, since it changes
  nothing.
* A statement may return any number of rows.

**`ModuleInit`: start-up.**  `initialized` and `mem_status` are the statics of
`initialize` and `usqlite_mem_status`; `isInit`, `bMemstat` and `allocator` are
SQLite's configuration, `used` and `peak` its statistics, `held` is the memory it
really has.  A handle belongs to a connection (`handles`) or to nobody (`lost`):
`sqlite3_open` failed or was jumped over (`ConnectFails`), or `sqlite3_close`
refused (`CloseRefused`, see `CloseReleasesDatabase`).  `connect`, `mem_peak` and
`mem_current` each contain the whole of `initialize`, which may fail
(`InitializeFails`).  An open database takes memory and gives it back at any time
(`Works`).  `strings` are the blocks that belong to no handle and to nobody else:
the error message of an `executemany` that raises before `sqlite3_free`
(`usqlite_cursor.c:360`), the expanded SQL under a trace callback that raises
(`usqlite_connection.c:173`).  They stay when the last database is closed
(`LeavesString`, `CloseConnection`).

**`Heap`: the allocator.**  `blocks` counts SQLite's blocks of each size; `stats`
is MicroPython's counter, modulo `2 ^ Width`.  MicroPython's heap is external: a
request of n bytes gets a block of whole grains (`GcBytes`) or none.  `Malloc`,
`Realloc`, `Free` are `sqlite3Malloc`, `sqlite3Realloc`, `sqlite3_free` with the
`mpmem` function they call and the statistics they keep; `KeepString` is the
block of a string that stays; `MallocFails`, `ReallocFails`, `OpenRejected`,
`StartFails` have no block.  Left out: alarm and
soft heap limit, which usqlite does not set; the ten bytes that `sqlite3OsInit`
allocates and frees; what the garbage collector can reach.

## The properties

Each is stated with its reason in the module.  In short:

* `StatementsOwned`: whoever is not finalized has one owner, alive, and listed.
* `CloseReleasesDatabase`: after `close`, `sqlite3_close` did not refuse.
* `RcTellsTheTruth`: `rc = ROW` exactly when there is a current row, the last one
  stepped to; `DONE` and `ERROR` only for a halted statement; neither without one.
* `RowAccounting`: the program has (or is about to get) rows 1 to n-1 when the
  current row is n, `rowcount` is n, and all rows when the cursor is done.
* `RowsInOrder`: never a row twice, an older after a newer one, or the empty row,
  even after failures that lose rows.
* `BatchesAreFull` (action property): `fetchmany(n)` returns n rows or the rest.
* `FetchTerminates` (liveness): `fetchmany` and `fetchall` return.
* `OwnChanges`: `rowcount` of a statement that changes rows is what that
  statement changed, whatever the callback executed between its start and end.
* `NestingCounted`: `nVdbeExec` is the number of statements being stepped.
* `NoFinalizedStatementUsed`: what a callback closes below a statement that is
  being stepped is never that statement.
* `ImplementsResultSet`: both cursors, through all interleavings of nested calls,
  implement `ResultSet`.
* `ImplementsFileStore`: no method changes a file, or what survives of it, but by
  a write at one place, a sync, a creation or a removal; the one exception is an
  open that empties a file hidden from `usqlite_file_exists` (`Overwrites`).
* `WritesLandWhereAsked` (action property): a file changes at the offset SQLite
  asked for, not where that would be after it went through an `int`, and by no
  other call, with the same exception.
* `AnswersAreTrue`: after `OK`, a read gave the cells of that offset, a size is
  the size, and a sync left nothing to lose.
* `CleanPagesAgree`: a clean page of the cache is the page of the file.
* `ImplementsAtomicDb`: through caching, spilling, playback and the remains of
  older journals, the program sees a database whose transactions are atomic.
* `AtomicUnlessHarmed`: wherever a call fails, the transaction is rolled back or
  committed as a whole, and nothing but the image before or after it is seen, but
  for the four harms above.
* `DurableUnlessNew`, `DurableUnlessHarmed`: without a transaction that reached
  the file, and without an owed rollback, what is committed survives without a
  journal (`IdleIsDurable`).  The first is about a database that has pages; the
  second about a call that fails as well, but for those that break atomicity.
* `CallsReturn` (liveness): a commit, a spill, a rollback and its repetition end:
  playback gets past every header and every remain of older journals.
* `Recoverable`: at every step of every transaction, and whatever part of the
  pending writes survives, playing back the journal would give the database
  before the transaction, or after it once its journal is being finished.
* `RowsShowWhatWasGiven`: each column of each row shows the value that SQLite's
  and usqlite's documentation say belongs to its parameter, as it was when
  `execute` was called.  The reference, `DocumentedNumber` and `Place`, is written
  from the text, not from the loop.  Left out are the parameters of
  `NoParameterLeftOut` (see [findings](#findings)).
* `RaisesOnlyWithReason`: a call that follows the documentation is not refused.
* `MemoryIsAccounted`: SQLite counts all of its memory, or none.

* `AllocatesFromMicroPython`: nothing is allocated before the allocator is set.
* `StatisticsAreExact`: what SQLite has counted is the sum of its blocks, through
  every sequence of allocations, changes of size and refusals.
* `CountersAgreeUntilUneven`: MicroPython's counter is SQLite's memory as long as
  every request was for whole grains and none was refused.

## The runs

| run | instance | what it shows |
|---|---|---|
| `nested` | 2 cursors, 3 statements, calls nested two deep, `Habits = {}`; 69,612 states | types, ownership, close, own changes, nesting counts and no use of a finalized statement, with a trace callback that calls back; both cursors implement `ResultSet` |
| `fetch` | 1 cursor, up to 4 rows, sizes -1, 0, 2, 3; 7,730 states | every mixture of ways to fetch, failing at any row: row accounting, full batches, termination, refinement |
| `habits` | 2 cursors, 2 statements, all habits; 725,808 states | `rc` and the order of rows survive everything a program can do |
| `vfs` | 2 `MPFILE`s, one file with 3 names, up to 2 cells, an `int` of -2 .. 1; 222,664 states | the methods of `mpvfs` implement `FileStore`, opens of a hidden file apart, tell the truth and write where asked |
| `journal` | up to 3 pages, a database of 0, 1 or 2 at first, 2 transactions, no loss of power; 143,898 states | the program sees atomic transactions; the cache agrees with the file; what is committed is in the file |
| `powerloss` | up to 2 pages, 1 or 2 at first, 2 transactions, 1 loss of power or 1 call that fails; 271,162 states | what is committed is durable; a failed transaction ends as a whole; the journal on the medium would restore the rest; every call returns |
| `values` | 1 execute of 62 statements of up to 3 parameters with 42 argument values, a bytearray that changes and moves, 3 row types; 318,588 states | every way to name parameters with every way to pass values; rows show what their call was given |
| `moduleinit` | 3 handles, blocks of 2 or 4 bytes, 6 bytes in all, a counter of 4 bits; 3,402 states | memory is counted all or not at all, to the byte, and is MicroPython's; the counters agree until a request is uneven |
| `throw` | as `habits`, one habit | counterexample, see [findings](#findings) |
| `torn`, `stale` | 2 pages, 1 loss of power | counterexamples |
| `newdb` | 2 pages, a new file, 1 transaction | counterexample |

**Bounds, and why they are enough.**

* `Cursors`: two are needed for one cursor to disturb another; a third would be
  in the role of one of them, since every property speaks of one or two.
* `Stmts`: with three, both cursors and an `executemany` have statements at once;
  with two, addresses are reused at once, which is what the use of a finalized
  statement needs.
* `MaxRows`: 2 separates first and last row; `fetch` has 4, one more than the
  largest batch (3), so that a full batch leaves rows behind.
* `Sizes` has a representative of each branch of `fetchmany`: negative, 0, and
  two sizes above 1; size 1 is the default of `arraysize` and is always enumerated.
* `MaxChanges = 1` makes 0 and 1 changes distinguishable from an earlier count.
* `MaxDepth = 2`: a call nested in a callback; deeper nesting repeats the pair.
  `MaxExec` bounds `nVdbeExec`, which grows without limit under `throw`.
* `MaxScript = 1`: statements of one script do not interact but through
  `nChange`; the first one after another call's statements covers that.

* `nested` has `Habits = {}`: ownership, close and the nesting count hold for
  programs without exceptions from Python and without use of a deleted cursor.
  What these do is shown by `throw` and under [findings](#findings).
* `vfs`: `IntLimit = 2` makes offset 2 wrap to -2 and offset 4 to 0, the two ways
  an offset can go wrong; two cells make a read or write that stops half way.
  The current directory is not the root, and the file, in the root, has the names
  `//x.db` (the root is listed), `/x.db` (the current directory is) and `//X.DB`
  (the root is listed, another spelling); `Init` has every entry the directory
  may have for it.  So each way to be hidden occurs, and the way not to be.
* `journal`: three pages are page 1, which is never spilled, one that is and one
  that is not; two transactions make the second work on the first one's journal.
  Starting with 0, 1 or 2 pages the database is created, grows once or twice, or
  changes as it is.
* `powerloss`: two pages, because every part of the pending writes is tried in
  every state; one loss of power is enough for `Recoverable`, which looks at all
  contents that could survive without losing power.  One failure, at every call
  of two transactions, and half done in every way; what a second one would do is
  said under `JournalFaults`.
* `values`: all statements of one or two of seven parameter tokens, and six of
  three, make gaps, numbers out of order, repeated names, and a `?` behind a
  number; the arguments are one too few and enough, and have an integer that
  fits, one that is cut and one that is refused (`IntLimit = 2`, `WordLimit = 4`).
  One `execute`: it replaces all that an earlier one left in the cursor.
* `moduleinit`: with grains of two bytes, requests of 1 to 4 are whole and not,
  grow and shrink a block or leave its size; three handles, any of them lost, and
  as many strings as there is memory for.

The theorems below hold for every value of the constants of their module.

Deadlock is checked in every run of `Usqlite`, `MpVfs`, `Values` and `ModuleInit`: a program that has closed its connection,
or has run into undefined behaviour, stops by the explicit step `Terminated`.  `Journal` stops when its transactions
are used up, so its runs do not check deadlock.

## Fairness

`FairSpec` assumes weak fairness of `FetchLoop \/ FetchReturns` and nothing
else: C code that is not waiting for the program runs on, and only one thread
exists.  Nothing is assumed of the program: it may never make another call, and
its callback may never return.  `FetchTerminates` then rests on `rc` eventually
not being `ROW`, which is so because a result set is finite.

`FairFaultSpec` assumes weak fairness of `FaultNext` while the pager is inside a
call: the same C code runs on.  A step that fails is such a step too, but a run
has finitely many of them (`MaxFail`): the files do not fail for ever.
`CallsReturn` rests on no record and no header being read twice.

## What is proved

`Usqlite_proof` has six theorems, checked by TLAPS for every finite or infinite
set of cursors and statements and every value of the bounds, from the named
assumptions of `SqliteStmt` and `Usqlite` alone (the bounds are natural numbers,
sizes are integers, NULL is no statement).  Four are about statements and their
owners:

| theorem | about which programs |
|---|---|
| `TypeCorrect`: `Spec => []TypeOK` | all (`Habits` arbitrary) |
| `RcTruth`: `Spec => []RcTellsTheTruth` | all |
| `StatementsAreOwned`: `Spec => []StatementsOwned` | without `reenter`, `throw`, `use_after_del` |
| `CloseReleases`: `Spec => []CloseReleasesDatabase` | the same |

**The inductive invariant.**  None of these is inductive alone.  `TypeOK` says
that rows delivered are rows, but a fetch takes whatever `pResultRow` points to:
that this is a row rests on `RcTellsTheTruth`.  `RcTellsTheTruth` in turn is lost
if another cursor's step, or the `sqlite3_finalize` of an `executemany`, hits
the same statement, or if a statement is stepped by a call on the stack while its
cursor is fetched from.  So `Inv` adds

* `FrameShape`: only the top frame runs C code, all below wait for a callback;
* `FrameStmts`: a statement on the stack is in one frame; `sqlite3_exec`'s is no
  cursor's; `execute`'s is its cursor's or already finalized, and has no row;
* `CursorStmts`: a cursor's statement is not finalized, and no other cursor's.

The proof has one lemma per way to change statements: given up (`ClosedStmts`),
replaced by a fresh one (`OpenedStmts`), stepped (`SteppedStmts`), prepared and
finalized by `sqlite3_exec` (`PreparedStmts`, `FinalizedStmts`), given up by all
cursors (`CloseConnectionStmts`), left alone (`KeptStmts`).  Each action of the
specification is reduced to one of them.

Ownership adds `Owned`: `UnfinalizedOwned` (each statement has an owner),
`OwnersListed` (a cursor with a statement, one the program holds, and one a call
is working on are all live and listed) and `NothingLeft` (after close).  The
second part is why the three habits must be excluded: `throw` drops the frame
that owns a statement, `use_after_del` executes a cursor that is not listed, and
`reenter` takes a cursor off the list under the call that is working on it.

Two are about nested calls and build on that invariant:

| theorem | about which programs |
|---|---|
| `NestingIsCounted`: `Spec => []NestingCounted` | without `throw` |
| `NothingFinalizedIsUsed`: `Spec => []NoFinalizedStatementUsed` | without `reenter` |

`NestingCounted` compares a counter with a cardinality; it follows from
`DepthCounted`, that the counter is the height of the stack, less one when the top frame is
between two statements, which needs `FrameShape`: all frames below the top are in
a callback.  `NothingFinalizedIsUsed` needs `NoneFreed` (no statement of a frame
is finalized) and `NoneBefore` (a cursor that is not made yet has no statement), and holds with exceptions and all other misuse: a
close finds a cursor's own statement only, and by `FrameStmts` that statement is in
no frame unless its `execute` is the one starting.

`Rows_proof` is about what a program receives:

| theorem | about which programs |
|---|---|
| `RowsAreInOrder`: `Spec => []RowsInOrder` | all |
| `BatchesAreComplete`: `Spec => BatchesAreFull` | all |
| `RowcountIsOwn`: `Spec => []OwnChanges` | all |
| `RowsAccounted`: `Spec => []RowAccounting` | without `nomem` (`EnoughMemory`) |
| `CursorsImplementResultSet`: `Spec => ImplementsResultSet` | the same |

None of the properties survives a step on its own: they speak of rows that were
delivered, while a fetch on the stack holds rows that are not.  The invariants
speak of `Collected`, which is both: `Ordered` (collected rows ascend, and all of
them are before the current row), `Batch` (a fetch in its loop has at least one
row and at most as many as were asked for), `Counted` (with a current row n the
collected rows are 1 to n-1, and `rowcount` is n) and `Own`.  Each is about one
cursor.  What a step of the whole system does to one cursor is said once, in
`StepSummary`: it leaves cursor, statement and collected rows alone, starts a
statement, steps it in a fetch, ends a fetch, or drops the statement; that a
step of another cursor leaves them alone is `Inv` of `Usqlite_proof`.  An
allocation that fails inside a fetch throws collected rows away, so it must be
excluded where no row may be lost, and only there.

`MpVfs_proof` has four theorems, for any number of paths and open files, contents
of any length, any width of an int and any streams that stop part of the way,
fail or raise:

* `TypeCorrect`: `Spec => []TypeOK`
* `TrueAnswers`: `Spec => []AnswersAreTrue`
* `MpVfsImplements`: `Spec => ImplementsFileStore`, the refinement of `FileStore`
  with its exception
* `WritesLand`: `Spec => WritesLandWhereAsked`

That an open truncates only what it creates is a theorem about
`usqlite_file_exists`: `MissedIsHidden` says that when it misses a file that is
there, the name is one of those `Hidden` describes, in any arrangement of
directories, names and spellings; everything else an open does is a step of
`FileStore` (`OpenEffect`).

The inductive invariant is `TypeOK` with `OpenFilesExist` (SQLite deletes no file
it has open), `GoneForGood` (a file that is gone does not come back with the loss
of power) and `SizesShow`: no file is so long that its size, cut to an int, looks
like the size of a shorter one.  The last is what makes the answers of
`mpvfsFileSize` and `mpvfsWrite` true, and is inductive because a write begins at
an offset that is not negative as an int and is of a block that is an int.  The
assumptions are those of `FileStore` and `MpVfs`: offsets are natural numbers,
blocks are sequences of cells whose length is an int and whose prefixes are blocks,
no content is the absence of a file, and a name leads to a file in the directory
it names (`NamesLeadToFiles`, `FilesAreAtHome`).

`Heap_proof` has five.  Three are about the state of `ModuleInit`, for every number
of handles and every amount of memory, and say the same of `Spec` and of `HeapSpec`:

* `TypeCorrect`: `TypeOK`
* `MemoryAccounted`: `MemoryIsAccounted`
* `MicroPythonAllocates`: `AllocatesFromMicroPython`

Their inductive invariant adds to `TypeOK` and the properties `StartedOnce`: a handle
or a string exists, or memory has been counted, only if SQLite has started, which only
`initialize` brings about, and only with the allocator configured.  It is needed
because changing the status is harmless only while nothing is allocated, and
`MemoryIsAccounted` says nothing about that.

Two are about `Heap`, for blocks of any sizes:

* `StatisticsExact`: `HeapSpec => []StatisticsAreExact`
* `CountersAgree`: `HeapSpec => []CountersAgreeUntilUneven`, if `AddressesSuffice`:
  a `size_t` can count all the memory there is

They follow from `HeldInBlocks`: the memory SQLite holds is the sum of its
blocks.  `ModuleInit` knows only that sum, so this is what ties the two accounts
to the blocks; with it the statistics are right because `MemoryIsAccounted` is.
The sum is a fold over a set.  The library's induction theorems cannot be used,
so what the fold computes is proved by taking a least counterexample:
well-foundedness of the numbers and of finite sets (`WFMin`) says that a set of
counterexamples, if it is not empty, has a least element, and the equation of
the fold then leads from it to a smaller one.  `MallocAddsBytes`,
`ReallocChangesBytes` and `FreeSubtractsBytes` are the lemmas that come out of it.

`Values_proof` has three, for all texts, all arguments and all orders of calls:

* `TypeCorrect`: `Spec => []TypeOK`
* `ColumnsShowTheirValues`: `Spec => []RowsShowWhatWasGiven`
* `DocumentedCallsBind`: `Spec => []RaisesOnlyWithReason`

The first half is about the text alone.  `Numbering` says what SQLite's parser
leaves when it has read a text: a name has one number, a number the first name it
got, a `?NNN` the number NNN, all others the number after the largest; it is
proved for every beginning of a text (`NextToken`, `ParamsNumbering`), again by
a least counterexample.  `DocumentedIsGiven` concludes that the parser's numbers
are those of `DocumentedNumber`, a recursive function written from the
documentation.  Then `PlaceHasIt`: what `bindParameters` takes for a number,
unless it refuses the call, is what is in the documented place; and
`WellCalledBinds`: it refuses no call that is as documented.  The second half is
the inductive invariant.  `RowsShowWhatWasGiven` looks at rows that are built;
`BoundAsGiven` adds that each column the statement would show *now* is the value
it was given, unless a bytearray it points to was touched, so that it does not
matter when a row is fetched.

The assumptions name what the values of the constants stand for: a text is a
sequence of tokens with at least one column (`SqlsAreTexts`), no name is a
number (`KeysAreNames`), integers are integers and bytearrays are the program's,
items have indices from 1 and those of a dict names (`ArgumentsAreValues`), and the
widths and bounds are numbers.

`Journal_proof` and `Atomic_proof` are about `Spec` of `Journal`: one connection,
any number of pages and of transactions, any mixture of reading, recycling,
spilling, commits and rollbacks; the power stays on and no call fails.

| theorem | what it says |
|---|---|
| `TypeCorrect`: `Spec => []TypeOK` | never more records than pages, no dirty page that is not cached |
| `CachedPagesAgree`: `Spec => []CleanPagesAgree` | a clean page is the page of the file |
| `AtomicTransactions`: `Spec => ImplementsAtomicDb` | the program sees atomic transactions |
| `CommittedIsDurable`: `Spec => []DurableUnlessNew` | what is committed is in the file, synced |
| `RollbacksRestore`: `Spec => [](committed # << >> => RollbackRestores)` | what `stale` and `newdb` violate does hold while the power is on and for a file that has pages |

They rest on the assumptions of `Journal`: there is a page (`NPagesIsPositive`),
the first sizes are sizes (`SizesAreSizes`), the bounds are numbers
(`BoundsAreNumbers`), and the absence of a file is not a content of one
(`NoFileIsNoContent`).

`CleanPagesAgree` and the image of `AtomicDb` say what is right between calls.
Whether they are right *after* a rollback depends on what is in the journal, so
the inductive invariant `Inv` says that: it is the types (`TypeInv`),
`SeedsDrawn`, and one of five phases (`Phase`).

* `Settled`: no transaction; the file, under what is cached, is what was committed.
* `Undecided`: something was written.  What the transaction sees is either dirty
  in the cache or in the file (`Made`), and each old page is either in the journal
  or still as it was (`Recorded`); a record that is not yet synced and counted
  belongs to a page the file has untouched (`HasRecords`).
* `Committing`: as far as the file is concerned, `Made`; what was journalled does
  not matter any more.
* `RollingBack`: each old page is restored, in the file and in the cache, or the
  playback still has its record before it (`Played`).
* `RolledBack`: all are restored.

The journal is described by its segments, a header's offset with the seed and
the pages it records, which the invariant says to exist (`IsJournal`): the state
has only cells.  Two things make this more than bookkeeping.  The header that is
being filled has no count, so playback takes the number of its records from the
length of the file, and records of earlier transactions lie behind it: they must
not pass for its own.  `Reversible` therefore demands that every check-sum after
the last record has an older seed (`SeedsBefore`), which follows from `SeedsDrawn`:
no cell has a seed that was not drawn yet.  It is what `PowerOff` would break,
because seeds start again, and what the run `stale` shows.  And a page may be spilled,
read again, changed again: so what is recorded, dirty, synced and in the file
are four sets that no step changes together.

The refinement is proved phase by phase: the steps of `WritePage` are a change of
`AtomicDb`, `ZeroHeader` of a commit is its commit, `Rollback` its rollback, and
all others leave the image alone, the new file of finding 4 excepted.
`CommittedIsDurable` adds `FileInv`: the file on the medium differs from what is seen
of it only in a transaction that has reached it.

`Recovery_proof` is about `FaultSpec` of `JournalFaults`, and about what is on the
medium, not what is seen:

* `JournalRestores`: `FaultSpec => [](fails = 0 /\ previous # << >> => Recoverable)`

for any number of pages and of transactions, any mixture of their steps, and at
each step every part of the unsynced writes that could survive: some cells of the
journal, some pages of the database, the old length or the new one.  Two
hypotheses remain.  `fails = 0`: a call that fails leaves journals that `Inv` does
not describe; that one failure does no harm here is shown by TLC only.
`previous # << >>`: a new file is not cut back to nothing, because `xTruncate` does
nothing (finding 4).  A loss of power itself ends the scope (`AtMostOneFailure`):
the theorem is about what it finds, at whatever moment it comes.

The argument has three parts.

*What a playback does.*  A journal is playable up to a header (`IsPlayable`) if its
segments form a chain, each with as many good records as its header counts, and
nothing that looks like a header follows the last.  `PlaysBack` says of a playback
in the middle of such a journal that every old page is restored or still to come
(`ToCome`); it is kept by a header (`HeaderStep`) and by a record (`RecordStep`),
and there are no more steps than cells, so that the playback ends with every page
restored: `PlaybackRestores`.  `UnreadableChangesNothing` is the other case, a
journal whose first header is not there.  Induction over the steps is once more a
least counterexample (`LeastNumber`), and the function exists because the set of
the lengths for which it does not has no least element (`PlaybackExists`).

*What survives.*  Each cell of the journal that survives is the one on the medium or
the one that was written since (`JournalSurvives`), each page of the database
likewise (`DbSurvives`): a part that was synced is there for certain, and a page
that is the old one in both is the old one.

*What is synced when.*  `MediaInv` joins `Inv` and `FileInv`.  While a transaction
fills its last segment, all before its header is synced, and its header counts
nothing on the medium, so a playback stops there (`FillingSynced`).  When the
records are about to be counted, no old header follows them (`RecordsSynced`: what
the mutant `NextHeaderKept` breaks), and they are synced before the count.  As soon
as pages are written at commit, the whole journal is synced, and restores the image
before the transaction (`FinishingSynced`, `MediaRecords`); when the header is
zeroed, the whole database is.  Until then the medium has the old image (`MediaDb`),
and a page that was written over it has its record (`Inv`).  Between transactions
nothing is readable
(`NoJournal`).  The lemmas `SettledRecovers`, `FillingRecovers`,
`RolledBackRecovers` and `FinishingRecovers` conclude for each phase; `NextMedia`
shows, action by action, that `MediaInv` is kept.

**Only model-checked**: `DurableUnlessHarmed` and `AtomicUnlessHarmed` of
`JournalFaults`, and `Recoverable` after a failure, for which `Inv` would have to say
what each failure leaves of a phase; `FetchTerminates` and `CallsReturn`, because
liveness under fairness is out of the prover's reach.

## Findings

Four have a run of their own:

1. `throw`: `traceCallback` (`usqlite_connection.c:175`) calls the program's
   function without catching exceptions.  One raised in a statement of
   `executemany` jumps over `sqlite3_exec`; the statement is never finalized,
   `sqlite3_close` refuses, its code is not looked at, and `db` is set to NULL:
   the database and its file are open for ever.  Exceptions of the file system
   (`mp_call_function_*` in `usqlite_file.c`) have the same effect.
2. `torn`: `mpvfsAccess` (`usqlite_vfs.c:256`) says of every file that it does not
   exist.  The journal is written in the right order (`Recoverable`), but after a
   loss of power nobody plays it back, and the database stays half changed.
3. `stale`: `mpvfsRandomness` (`usqlite_vfs.c:284`) fills nothing, so the seeds
   of check-sums repeat from run to run.  A journal that finding 2 left behind is
   opened as it is by the next transaction; if that one is rolled back, the
   number of its records is taken from the size of the file, and the old records
   behind them have valid check-sums: the rollback "restores" them too.
4. `newdb`: `mpvfsTruncate` (`usqlite_vfs.c:104`) does nothing and says
   `SQLITE_OK`, where `sqlite3.c:60073` counts on the file getting its old size.
   When the first transaction of a new file has spilled a page and is rolled back,
   the file keeps its pages, with a blank page 1: no later connection takes it for
   a database, nor for a new file.

The others were met while modelling.  Each has an invariant or an action property
(`OpeningKeepsContent`), and TLC shows its violation when that takes the place of
the properties of the cfg named:

| property | cfg | the code |
|---|---|---|
| `CloseReleasesDatabase` | `throw`, with `Habits = {"use_after_del"}` | a cursor whose `__del__` was called (`usqlite_cursor.c:619`) is off the list and can be executed again; `connection.close` then leaves its statement behind, and `sqlite3_close` refuses |
| `HeldCursorsAlive` | `habits` | `connection.close` (`usqlite_connection.c:73`) frees cursor objects the program still refers to |
| `NoFinalizedStatementUsed` | `habits` | a callback that closes the cursor whose statement is starting makes `sqlite3VdbeExec` go on with a freed `Vdbe` |
| `OpeningKeepsContent` | `vfs` | `usqlite_file_exists` (`usqlite_file.c:37-80`) lists the current directory for `/x.db`, compares names with `strcmp` and skips entries that are not of type 0x8000; `usqlite_file_open` (`usqlite_file.c:94`) opens a file it did not find `w+b` and so empties an existing database, where `sqlite3.h:3526` says that it is created if it does not already exist |
| `ShortReadsAreZeroFilled` | `vfs` | `mpvfsRead` (`usqlite_vfs.c:80`) returns `SQLITE_IOERR_SHORT_READ` without the zeros `sqlite3.h:830` asks for |
| `BoundBuffersAreValid` | `values` | `bindParameter` (`usqlite_cursor.c:174`) binds the memory of a bytearray as `SQLITE_STATIC`; after the program has made it grow, the statement reads freed memory |
| `NoParameterLeftOut` | `values` | in a statement whose first parameter is `?1`, `bindParameters` (`usqlite_cursor.c:254`) skips every `?`: its value is not bound and no error is raised |
| `DescriptionReadsNames` | `values` | `description` takes the length of a declared type (`usqlite_utils.c:206`) that is NULL for a column that is an expression (`sqlite3.h:4902`) |
| `RowsAreTheirColumns` | `values` | `row_type` (`usqlite_cursor.c:423`) puts the cursor behind the columns, where `usqlite_row_attr` would look for it, but nothing gives the tuple the type `usqlite_row_type` or hides the last element: a row of type `row` has one element too many and no `keys` (`README.md:194`) |
| `StatusIsReported` | `moduleinit` | `mem_status` (`usqlite_module.c:166`) reports a status SQLite refused |
| `NoHandleLost` | `moduleinit` | `connect` (`usqlite_module.c:114`) raises without closing the handle that `sqlite3_open` gives it even when it fails |
| `NoMemoryLost` | `moduleinit` | `executemany` (`usqlite_cursor.c:360`) raises before it frees the error message of `sqlite3_exec`, which `sqlite3.h:388` asks for; a trace callback that raises (`usqlite_connection.c:173`) leaves the expanded SQL |

Two things that go wrong are not invariants here.  A large integer is cut to 32
bits when it is bound (`usqlite_cursor.c:160`): `RowsShowWhatWasGiven` compares a
column with its value *as it was cut*, so it says which value a column shows and
not that it is whole.  And the connection's list of cursors grows with every
`connection.execute` until the connection is closed (`usqlite_connection.c:203`):
`StatementsOwned` says that each statement has an owner, not how many there are.

## What is not modelled

The parser, code generator and B-tree of SQLite (vendored).  Of the pager: a
database that shrinks, savepoints and sub-journals, WAL, super-journals, in-memory
and temporary databases, and the failures listed under `JournalFaults`.

Two connections to one file.  The locks are no-ops, so nothing keeps two
connections apart, and nothing in the repository says that two are supported: a
model of both would show no more than the empty body of `mpvfsLock`
(`usqlite_vfs.c:153`) does.

`LOGFUNC` and other diagnostics; the wording of errors; build files.  Allocation
failures outside fetches.  `lastrowid` and `total_changes` of an open connection,
which read SQLite's counters and change nothing; the type Row and its `keys`, which
no code reaches; `complete_statement`, which has no state.  Collection of objects
by the garbage collector: whether SQLite's memory is reachable for it depends on
the port.

The map covers most of the module's own code that has state, and of
`sqlite3.c` only the functions these models are about: a few thousand of its
220,000 lines.

## Plan

Done: `SqliteStmt`, `Usqlite`, `ResultSet` and their theorems; `FileStore`,
`MpVfs` and its theorems; `AtomicDb`, `Journal` with a database that grows, and
its theorems; `JournalFaults`; `JournalRecovery` and its theorem; `Values` and its
theorems; `ModuleInit`, `Heap` and their theorems.

Theorems to come: what each failure leaves of a phase, and from it
`DurableUnlessHarmed`, `Recoverable` after a failure and `AtomicUnlessHarmed`.

Models to come: savepoints in `JournalFaults`, with a statement that fails inside
a transaction; `Lifecycle`, the reachability of cursors, connections and
SQLite's memory for the garbage collector, if a port is chosen.
