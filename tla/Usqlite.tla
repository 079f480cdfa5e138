------------------------------- MODULE Usqlite -------------------------------
(***************************************************************************)
(* One usqlite connection, its cursors, and the SQLite statements they own *)
(* (usqlite_connection.c, usqlite_cursor.c).                               *)
(*                                                                         *)
(* usqlite has one thread.  What interleaves is the trace callback: the    *)
(* first sqlite3_step of a statement calls the program's function, which   *)
(* may call any operation of the connection or of its cursors before it    *)
(* returns.  The C call stack is explicit: stack holds a frame for each    *)
(* usqlite call that is inside SQLite, and the program runs (ProgramTurn)  *)
(* when the stack is empty or its top frame waits for the callback.        *)
(*                                                                         *)
(* A call that changes nothing (a fetch of a cursor without a row, a       *)
(* second close) is a stuttering step and has no action.                   *)
(***************************************************************************)
EXTENDS Integers, Sequences, FiniteSets, SqliteStmt

CONSTANTS
    Cursors,     \* addresses of cursor objects
    Stmts,       \* addresses of sqlite3_stmt objects
    NoStmt,      \* the NULL sqlite3_stmt pointer
    Sizes,       \* values of arraysize and of the argument of fetchmany
    MaxDepth,    \* bound: nested usqlite calls
    MaxScript,   \* bound: statements in the SQL of one executemany
    MaxExec,     \* bound: nVdbeExec
    Habits       \* what the program does beyond the ordinary; see below

(***************************************************************************)
(*  "reenter"         the trace callback closes the connection, or closes  *)
(*                    or executes the cursor whose statement is starting   *)
(*  "throw"           the trace callback, or the Python code of a file     *)
(*                    system below SQLite, raises: the exception jumps     *)
(*                    over SQLite's frames to the caller of usqlite        *)
(*  "nomem"           MicroPython runs out of memory in a fetch            *)
(*  "use_after_close" the program uses objects of a closed connection      *)
(*  "use_after_del"   the program uses a cursor after its __del__          *)
(***************************************************************************)
AllHabits == {"reenter", "throw", "nomem", "use_after_close", "use_after_del"}

ASSUME StmtAssumption == NoStmt \notin Stmts
ASSUME SizesAssumption == Sizes \subseteq Int
ASSUME BoundsAssumption ==
    /\ MaxDepth \in Nat
    /\ MaxScript \in Nat
    /\ MaxExec \in Nat
ASSUME HabitsAssumption == Habits \subseteq AllHabits

VARIABLES
    \* usqlite_connection_t
    db,          \* "open" or "NULL"
    registered,  \* the cursors list
    tracing,     \* whether a trace callback is set
    \* usqlite_cursor_t
    obj,         \* "none": not allocated yet, "live", "freed" by m_free
    held,        \* cursors the program has a reference to
    stmt, rc, rowcount, arraysize,
    \* sqlite3
    sqliteDb,    \* "open" or "closed": the database and its file
    vdbe, nChange, nVdbeExec,
    \* the C call stack, top last
    stack,
    \* history
    delivered,   \* rows of the current result set the program received
    fault        \* undefined behaviour the program ran into

connVars == <<db, registered, tracing>>
objVars == <<obj, held>>
curVars == <<stmt, rc, rowcount, arraysize>>
sqlVars == <<sqliteDb, vdbe, nChange, nVdbeExec>>
vars == <<connVars, objVars, curVars, sqlVars, stack, delivered, fault>>

Codes == {"OK", "ROW", "DONE", "ERROR", "MISUSE"}

Row == 0..MaxRows

(***************************************************************************)
(* A frame of the C stack: the operation, its cursor, the statement it is  *)
(* stepping, and where it is:                                              *)
(*   "trace"  inside OP_Init, the trace callback runs                      *)
(*   "run"    inside sqlite3_step, past OP_Init                            *)
(*   "next"   sqlite3_exec, between two statements (left to go)            *)
(*   "loop"   the while loop of fetchmany (size and rows: its locals)      *)
(***************************************************************************)
Frame == [op    : {"execute", "executemany", "fetchmany"},
          cur   : Cursors,
          stmt  : Stmts \cup {NoStmt},
          phase : {"trace", "run", "next", "loop"},
          left  : 0..MaxScript,
          size  : Int,
          rows  : Seq(Row)]

TypeOK ==
    /\ db \in {"open", "NULL"}
    /\ registered \subseteq Cursors
    /\ tracing \in BOOLEAN
    /\ obj \in [Cursors -> {"none", "live", "freed"}]
    /\ held \subseteq Cursors
    /\ stmt \in [Cursors -> Stmts \cup {NoStmt}]
    /\ rc \in [Cursors -> Codes]
    /\ rowcount \in [Cursors -> Int]
    /\ arraysize \in [Cursors -> Int]
    /\ sqliteDb \in {"open", "closed"}
    /\ vdbe \in [Stmts -> Vdbe]
    /\ nChange \in 0..MaxChanges
    /\ nVdbeExec \in Int
    /\ stack \in Seq(Frame)
    /\ delivered \in [Cursors -> Seq(Row)]
    /\ fault \in {"none", "use-after-free", "null-deref", "stale-statement"}

(***************************************************************************)
(* usqlite_connection_make_new has just wrapped the open database; a       *)
(* cursor object that is not allocated yet has the fields its make_new     *)
(* gives it.                                                               *)
(***************************************************************************)
Init ==
    /\ db = "open"
    /\ registered = {}
    /\ tracing = FALSE
    /\ obj = [c \in Cursors |-> "none"]
    /\ held = {}
    /\ stmt = [c \in Cursors |-> NoStmt]
    /\ rc = [c \in Cursors |-> "OK"]
    /\ rowcount = [c \in Cursors |-> 0]
    /\ arraysize = [c \in Cursors |-> 1]
    /\ sqliteDb = "open"
    /\ vdbe = [s \in Stmts |-> FreeVdbe]
    /\ nChange = 0
    /\ nVdbeExec = 0
    /\ stack = <<>>
    /\ delivered = [c \in Cursors |-> <<>>]
    /\ fault = "none"

-----------------------------------------------------------------------------
(* The call stack. *)

Top == stack[Len(stack)]
Push(f) == stack' = Append(stack, f)
Pop == stack' = SubSeq(stack, 1, Len(stack) - 1)
SetTop(f) == stack' = [stack EXCEPT ![Len(stack)] = f]

InCall(op, phase) ==
    /\ fault = "none"
    /\ stack # <<>>
    /\ Top.op = op
    /\ Top.phase = phase

ProgramTurn ==
    /\ fault = "none"
    /\ stack # <<>> => Top.phase = "trace"

\* c's statement is inside the sqlite3_step of c.execute.
Starting(c) ==
    \E i \in DOMAIN stack : stack[i].op = "execute" /\ stack[i].cur = c

StepPhase == IF tracing THEN "trace" ELSE "run"

-----------------------------------------------------------------------------
(* Cursor objects. *)

\* Mutant: the cursor is not registered with its connection.
MakeNewUnregistered(c) ==
    /\ obj[c] = "none"
    /\ obj' = [obj EXCEPT ![c] = "live"]
    /\ UNCHANGED registered

\* usqlite_cursor_make_new: memset, arraysize = 1, and the registration.
MakeNew(c) ==
    /\ obj[c] = "none"
    /\ obj' = [obj EXCEPT ![c] = "live"]
    /\ registered' = registered \cup {c}

\* A cursor the program may call an operation of that replaces its statement.
Existing(c) ==
    /\ c \in held
    /\ obj[c] = "live"
    /\ "reenter" \in Habits \/ ~Starting(c)
    /\ UNCHANGED <<obj, registered>>

\* cursor.execute is called on an existing cursor, connection.execute makes
\* a new one; the program gets hold of the new one only when execute returns.
Callee(c) == MakeNew(c) \/ Existing(c)

\* Mutant: close finalizes every statement of the database.
AllFinalized(c) == IF stmt[c] = NoStmt THEN vdbe ELSE [s \in Stmts |-> FreeVdbe]

\* What usqlite_cursor_close leaves in each field: nothing changes when the
\* cursor has no statement.
ClosedVdbe(c) ==
    IF stmt[c] = NoStmt THEN vdbe ELSE [vdbe EXCEPT ![stmt[c]] = FreeVdbe]

\* Mutant: close leaves the code of the last step.
UnresetRc(c) == rc[c]

ClosedRc(c) == IF stmt[c] = NoStmt THEN rc[c] ELSE "OK"

ClosedRowcount(c) == IF stmt[c] = NoStmt THEN rowcount[c] ELSE -1

\* sqlite3_finalize halts a running statement, and that sets nChange.
ClosedChanges(c) ==
    IF stmt[c] # NoStmt /\ vdbe[stmt[c]].state = "run" /\ vdbe[stmt[c]].counts
    THEN 0..MaxChanges ELSE {nChange}

\* Addresses sqlite3_prepare_v2 may return when the statements are those of v.
Fresh(v) ==
    {s \in Stmts : /\ v[s].state = "free"
                   /\ \A i \in DOMAIN stack : stack[i].stmt # s}

NoRows(c) == delivered' = [delivered EXCEPT ![c] = <<>>]

-----------------------------------------------------------------------------
(* stepExecute: sqlite3_step of c's statement, past OP_Init.               *)

StepRow(c) ==
    LET v == vdbe[stmt[c]] IN
    /\ v.row < MaxRows
    /\ vdbe' = [vdbe EXCEPT ![stmt[c]] = WithRow(v)]
    /\ rc' = [rc EXCEPT ![c] = "ROW"]
    /\ rowcount' = [rowcount EXCEPT ![c] = @ + 1]
    /\ UNCHANGED nChange

\* The statement halts: SQLITE_DONE, or an error that stepExecute raises
\* after it has stored the code in rc.
StepHalts(c, code) ==
    LET v == vdbe[stmt[c]] IN
    \E n \in ChangesOf(v) :
        /\ vdbe' = [vdbe EXCEPT ![stmt[c]] = Halted(v, n)]
        /\ nChange' = ChangesAfterHalt(v, n, nChange)
        /\ rc' = [rc EXCEPT ![c] = code]

StepDone(c) == StepHalts(c, "DONE") /\ UNCHANGED rowcount
StepError(c) == StepHalts(c, "ERROR") /\ UNCHANGED rowcount

-----------------------------------------------------------------------------
(* connection.cursor, cursor.execute, connection.execute.                  *)

NewCursor(c) ==
    /\ ProgramTurn
    /\ MakeNew(c)
    /\ held' = held \cup {c}
    /\ UNCHANGED <<db, tracing, curVars, sqlVars, stack, delivered, fault>>

\* The part of execute and of executemany before the SQL is compiled, in a
\* call that then raises: the SQL is empty or does not compile, or the
\* connection is closed (SQLITE_MISUSE).
Rejected(c) ==
    /\ ProgramTurn
    /\ Callee(c)
    /\ vdbe' = ClosedVdbe(c)
    /\ nChange' \in ClosedChanges(c)
    /\ stmt' = [stmt EXCEPT ![c] = NoStmt]
    /\ rc' = [rc EXCEPT ![c] = ClosedRc(c)]
    /\ rowcount' = [rowcount EXCEPT ![c] = ClosedRowcount(c)]
    /\ NoRows(c)
    /\ UNCHANGED <<db, tracing, held, arraysize, sqliteDb, nVdbeExec, stack, fault>>

\* The SQL is only a comment: it compiles to a NULL statement, and stepping
\* that is SQLITE_MISUSE, which a later close does not reset.
ExecuteBlank(c) ==
    /\ ProgramTurn
    /\ db = "open"
    /\ Callee(c)
    /\ vdbe' = ClosedVdbe(c)
    /\ nChange' \in ClosedChanges(c)
    /\ stmt' = [stmt EXCEPT ![c] = NoStmt]
    /\ rc' = [rc EXCEPT ![c] = "MISUSE"]
    /\ rowcount' = [rowcount EXCEPT ![c] = 0]
    /\ NoRows(c)
    /\ UNCHANGED <<db, tracing, held, arraysize, sqliteDb, nVdbeExec, stack, fault>>

\* The values do not fit the parameters: execute raises and leaves the
\* cursor with a statement that was never stepped.
ExecuteUnbound(c) ==
    /\ ProgramTurn
    /\ db = "open"
    /\ Callee(c)
    /\ \E s \in Fresh(ClosedVdbe(c)), counts \in BOOLEAN :
        /\ vdbe' = [ClosedVdbe(c) EXCEPT ![s] = Prepared(counts)]
        /\ stmt' = [stmt EXCEPT ![c] = s]
    /\ nChange' \in ClosedChanges(c)
    /\ rc' = [rc EXCEPT ![c] = ClosedRc(c)]
    /\ rowcount' = [rowcount EXCEPT ![c] = ClosedRowcount(c)]
    /\ NoRows(c)
    /\ UNCHANGED <<db, tracing, held, arraysize, sqliteDb, nVdbeExec, stack, fault>>

\* execute up to the sqlite3_step that starts the statement.
ExecuteBegins(c) ==
    /\ ProgramTurn
    /\ db = "open"
    /\ Len(stack) < MaxDepth
    /\ nVdbeExec < MaxExec
    /\ Callee(c)
    /\ \E s \in Fresh(ClosedVdbe(c)), counts \in BOOLEAN :
        /\ vdbe' = [ClosedVdbe(c) EXCEPT ![s] = Started(Prepared(counts))]
        /\ stmt' = [stmt EXCEPT ![c] = s]
        /\ Push([op |-> "execute", cur |-> c, stmt |-> s, phase |-> StepPhase,
                 left |-> 0, size |-> 0, rows |-> <<>>])
    /\ nChange' \in ClosedChanges(c)
    /\ nVdbeExec' = nVdbeExec + 1
    /\ rc' = [rc EXCEPT ![c] = ClosedRc(c)]
    /\ rowcount' = [rowcount EXCEPT ![c] = 0]
    /\ NoRows(c)
    /\ UNCHANGED <<db, tracing, held, arraysize, sqliteDb, fault>>

\* The first sqlite3_step returns to execute, which returns the cursor.
ExecuteRow ==
    /\ InCall("execute", "run")
    /\ StepRow(Top.cur)
    /\ held' = held \cup {Top.cur}
    /\ nVdbeExec' = nVdbeExec - 1
    /\ Pop
    /\ UNCHANGED <<connVars, obj, stmt, arraysize, sqliteDb, delivered, fault>>

\* Mutant: sqlite3_changes is read before the statement runs.
ChangesBeforeStep == nChange

\* sqlite3_changes after the step.
ReportedChanges == nChange'

ExecuteDone ==
    /\ InCall("execute", "run")
    /\ StepHalts(Top.cur, "DONE")
    /\ rowcount' = [rowcount EXCEPT ![Top.cur] = ReportedChanges]
    /\ held' = held \cup {Top.cur}
    /\ nVdbeExec' = nVdbeExec - 1
    /\ Pop
    /\ UNCHANGED <<connVars, obj, stmt, arraysize, sqliteDb, delivered, fault>>

ExecuteFails ==
    /\ InCall("execute", "run")
    /\ StepError(Top.cur)
    /\ nVdbeExec' = nVdbeExec - 1
    /\ Pop
    /\ UNCHANGED <<connVars, objVars, stmt, arraysize, sqliteDb, delivered, fault>>

-----------------------------------------------------------------------------
(* cursor.executemany, connection.executemany: sqlite3_exec of a script.   *)

ManyBegins(c) ==
    /\ ProgramTurn
    /\ db = "open"
    /\ Len(stack) < MaxDepth
    /\ Callee(c)
    /\ vdbe' = ClosedVdbe(c)
    /\ nChange' \in ClosedChanges(c)
    /\ stmt' = [stmt EXCEPT ![c] = NoStmt]
    /\ rc' = [rc EXCEPT ![c] = ClosedRc(c)]
    /\ rowcount' = [rowcount EXCEPT ![c] = ClosedRowcount(c)]
    /\ Push([op |-> "executemany", cur |-> c, stmt |-> NoStmt, phase |-> "next",
             left |-> MaxScript, size |-> 0, rows |-> <<>>])
    /\ NoRows(c)
    /\ UNCHANGED <<db, tracing, held, arraysize, sqliteDb, nVdbeExec, fault>>

\* The next statement of the script compiles and starts.
ManyPrepares ==
    /\ InCall("executemany", "next")
    /\ Top.left > 0
    /\ nVdbeExec < MaxExec
    /\ \E s \in Fresh(vdbe), counts \in BOOLEAN :
        /\ vdbe' = [vdbe EXCEPT ![s] = Started(Prepared(counts))]
        /\ SetTop([Top EXCEPT !.stmt = s, !.phase = StepPhase, !.left = @ - 1])
    /\ nVdbeExec' = nVdbeExec + 1
    /\ UNCHANGED <<connVars, objVars, curVars, sqliteDb, nChange, delivered, fault>>

\* Mutant: the way out of the step does not count nVdbeExec down.
ManyFinalizesUncounted ==
    /\ nChange' \in ChangesOf(vdbe[Top.stmt])
    /\ vdbe' = [vdbe EXCEPT ![Top.stmt] = FreeVdbe]
    /\ UNCHANGED nVdbeExec

\* The statement runs to its end, its rows ignored, and is finalized.
ManyFinalizes ==
    /\ \E n \in ChangesOf(vdbe[Top.stmt]) :
        nChange' = ChangesAfterHalt(vdbe[Top.stmt], n, nChange)
    /\ vdbe' = [vdbe EXCEPT ![Top.stmt] = FreeVdbe]
    /\ nVdbeExec' = nVdbeExec - 1

ManyStmtDone ==
    /\ InCall("executemany", "run")
    /\ ManyFinalizes
    /\ SetTop([Top EXCEPT !.stmt = NoStmt, !.phase = "next"])
    /\ UNCHANGED <<connVars, objVars, curVars, sqliteDb, delivered, fault>>

\* A statement fails as it runs: sqlite3_exec finalizes it, executemany raises.
ManyFails ==
    /\ InCall("executemany", "run")
    /\ ManyFinalizes
    /\ Pop
    /\ UNCHANGED <<connVars, objVars, curVars, sqliteDb, delivered, fault>>

\* A statement of the script does not compile.
ManyRejects ==
    /\ InCall("executemany", "next")
    /\ Pop
    /\ UNCHANGED <<connVars, objVars, curVars, sqlVars, delivered, fault>>

ManyReturns ==
    /\ InCall("executemany", "next")
    /\ held' = held \cup {Top.cur}
    /\ Pop
    /\ UNCHANGED <<connVars, obj, curVars, sqlVars, delivered, fault>>

-----------------------------------------------------------------------------
(* The trace callback.                                                     *)

SetTraceCallback(on) ==
    /\ ProgramTurn
    /\ db = "open"
    /\ tracing' = on
    /\ UNCHANGED <<db, registered, objVars, curVars, sqlVars, stack, delivered, fault>>

\* The callback returns into sqlite3VdbeExec, which goes on with the Vdbe it
\* was running.
TraceReturns ==
    /\ fault = "none"
    /\ stack # <<>>
    /\ Top.phase = "trace"
    /\ vdbe[Top.stmt].state = "run"
    /\ SetTop([Top EXCEPT !.phase = "run"])
    /\ UNCHANGED <<connVars, objVars, curVars, sqlVars, delivered, fault>>

\* The callback returns and its Vdbe is gone.
TraceReturnsToFreed ==
    /\ fault = "none"
    /\ stack # <<>>
    /\ Top.phase = "trace"
    /\ vdbe[Top.stmt].state = "free"
    /\ fault' = "stale-statement"
    /\ UNCHANGED <<connVars, objVars, curVars, sqlVars, stack, delivered>>

\* Python code called below SQLite raises: mp_call_function_1 does not
\* return, no cleanup of sqlite3Step, sqlite3_exec or stepExecute runs.
Unwinds ==
    /\ "throw" \in Habits
    /\ fault = "none"
    /\ stack # <<>>
    /\ Top.phase \in {"trace", "run"}
    /\ Pop
    /\ UNCHANGED <<connVars, objVars, curVars, sqlVars, delivered, fault>>

-----------------------------------------------------------------------------
(* cursor.close, cursor.__exit__, cursor.__del__.                          *)

CloseCursor(c) ==
    /\ ProgramTurn
    /\ Existing(c)
    /\ stmt[c] # NoStmt
    /\ vdbe' = ClosedVdbe(c)
    /\ nChange' \in ClosedChanges(c)
    /\ stmt' = [stmt EXCEPT ![c] = NoStmt]
    /\ rc' = [rc EXCEPT ![c] = ClosedRc(c)]
    /\ rowcount' = [rowcount EXCEPT ![c] = ClosedRowcount(c)]
    /\ NoRows(c)
    /\ UNCHANGED <<db, tracing, held, arraysize, sqliteDb, nVdbeExec, stack, fault>>

\* __del__ also takes the cursor off the connection's list; the program does
\* not use it any more, unless it has the habit to.
DelCursor(c) ==
    /\ ProgramTurn
    /\ db = "open"
    /\ c \in held \cap registered
    /\ "reenter" \in Habits \/ \A i \in DOMAIN stack : stack[i].cur # c
    /\ vdbe' = ClosedVdbe(c)
    /\ nChange' \in ClosedChanges(c)
    /\ stmt' = [stmt EXCEPT ![c] = NoStmt]
    /\ rc' = [rc EXCEPT ![c] = ClosedRc(c)]
    /\ rowcount' = [rowcount EXCEPT ![c] = ClosedRowcount(c)]
    /\ registered' = registered \ {c}
    /\ held' \in {held \ {c}} \cup (IF "use_after_del" \in Habits THEN {held} ELSE {})
    /\ NoRows(c)
    /\ UNCHANGED <<db, tracing, obj, arraysize, sqliteDb, nVdbeExec, stack, fault>>

-----------------------------------------------------------------------------
(* iteration, fetchone, fetchmany, fetchall.                               *)

SetArraysize(c, n) ==
    /\ ProgramTurn
    /\ c \in held
    /\ obj[c] = "live"
    /\ arraysize' = [arraysize EXCEPT ![c] = n]
    /\ UNCHANGED <<connVars, objVars, stmt, rc, rowcount, sqlVars, stack, delivered, fault>>

HasRow(c) ==
    /\ ProgramTurn
    /\ c \in held
    /\ obj[c] = "live"
    /\ rc[c] = "ROW"

\* Mutant: the row is built after the cursor has stepped.
BuiltAfterStep(c) == vdbe'[stmt[c]].result

\* What the rowfactory builds: the row pResultRow points to, or the empty
\* row (0) when there is none.
BuiltRow(c) == vdbe[stmt[c]].result

\* Mutant: the last row is dropped when the step says SQLITE_DONE.
DropsLastRow(c) ==
    /\ \/ /\ StepRow(c)
          /\ delivered' = [delivered EXCEPT ![c] = Append(@, BuiltRow(c))]
       \/ (StepDone(c) \/ StepError(c)) /\ UNCHANGED delivered
    /\ UNCHANGED <<connVars, objVars, stmt, arraysize, sqliteDb, nVdbeExec, stack, fault>>

\* The row is built, the cursor steps, and the row is returned: unless the
\* step fails, and then it is lost.
ReturnsOneRow(c) ==
    /\ \/ /\ StepRow(c) \/ StepDone(c)
          /\ delivered' = [delivered EXCEPT ![c] = Append(@, BuiltRow(c))]
       \/ StepError(c) /\ UNCHANGED delivered
    /\ UNCHANGED <<connVars, objVars, stmt, arraysize, sqliteDb, nVdbeExec, stack, fault>>

FetchOne(c) == HasRow(c) /\ ReturnsOneRow(c)

IterNext(c) == HasRow(c) /\ ReturnsOneRow(c)

\* fetchmany up to its loop.  The batch of one row is returned at once; the
\* loop of a larger one (size < 0: all rows) is a frame of the stack.
FetchMany(c, size) ==
    /\ HasRow(c)
    /\ \/ /\ StepRow(c) \/ StepDone(c)
          /\ IF size \in {0, 1}
             THEN /\ delivered' = [delivered EXCEPT ![c] = Append(@, BuiltRow(c))]
                  /\ UNCHANGED stack
             ELSE /\ Len(stack) < MaxDepth
                  /\ Push([op |-> "fetchmany", cur |-> c, stmt |-> NoStmt,
                           phase |-> "loop", left |-> 0, size |-> size,
                           rows |-> <<BuiltRow(c)>>])
                  /\ UNCHANGED delivered
       \/ StepError(c) /\ UNCHANGED <<stack, delivered>>
    /\ UNCHANGED <<connVars, objVars, stmt, arraysize, sqliteDb, nVdbeExec, fault>>

FetchAll(c) == FetchMany(c, -1)

\* Mutant: one row too many.
FetchMoreOffByOne(f) == rc[f.cur] = "ROW" /\ (f.size < 0 \/ Len(f.rows) <= f.size)

\* The condition of the loop.
FetchMore(f) == rc[f.cur] = "ROW" /\ (f.size < 0 \/ Len(f.rows) < f.size)

\* Mutant: the loop forgets to step.
SpinningFetchLoop ==
    /\ InCall("fetchmany", "loop")
    /\ FetchMore(Top)
    /\ UNCHANGED vars

FetchLoop ==
    /\ InCall("fetchmany", "loop")
    /\ FetchMore(Top)
    /\ \/ /\ StepRow(Top.cur) \/ StepDone(Top.cur)
          /\ SetTop([Top EXCEPT !.rows = Append(@, BuiltRow(Top.cur))])
       \/ /\ StepError(Top.cur)
          /\ Pop
    /\ UNCHANGED <<connVars, objVars, stmt, arraysize, sqliteDb, nVdbeExec, delivered, fault>>

FetchReturns ==
    /\ InCall("fetchmany", "loop")
    /\ ~FetchMore(Top)
    /\ delivered' = [delivered EXCEPT ![Top.cur] = @ \o Top.rows]
    /\ Pop
    /\ UNCHANGED <<connVars, objVars, curVars, sqlVars, fault>>

\* The rowfactory or the list cannot be allocated: MicroPython raises and
\* the rows fetchmany has collected are dropped.
FetchNoMem ==
    /\ "nomem" \in Habits
    /\ InCall("fetchmany", "loop")
    /\ FetchMore(Top)
    /\ Pop
    /\ UNCHANGED <<connVars, objVars, curVars, sqlVars, delivered, fault>>

-----------------------------------------------------------------------------
(* connection.close, connection.__exit__.                                  *)

\* Mutant: cursors the program has no reference to are skipped.
ClosedIfHeld == {stmt[c] : c \in registered \cap held} \ {NoStmt}

\* The statements the loop over the cursors list finalizes.
ClosedByConnection == {stmt[c] : c \in registered} \ {NoStmt}

\* Each registered cursor is closed and its memory freed; then sqlite3_close
\* refuses (SQLITE_BUSY, not looked at) if a statement is not finalized.
\* nChange can no longer be read: db is NULL.
CloseConnection ==
    /\ ProgramTurn
    /\ db = "open"
    /\ "reenter" \in Habits \/ stack = <<>>
    /\ LET gone == ClosedByConnection
           closed == {c \in registered : stmt[c] # NoStmt} IN
       /\ vdbe' = [s \in Stmts |-> IF s \in gone THEN FreeVdbe ELSE vdbe[s]]
       /\ rc' = [c \in Cursors |-> IF c \in closed THEN "OK" ELSE rc[c]]
       /\ rowcount' = [c \in Cursors |-> IF c \in closed THEN -1 ELSE rowcount[c]]
    /\ stmt' = [c \in Cursors |-> IF c \in registered THEN NoStmt ELSE stmt[c]]
    /\ delivered' = [c \in Cursors |-> IF c \in registered THEN <<>> ELSE delivered[c]]
    /\ obj' = [c \in Cursors |-> IF c \in registered THEN "freed" ELSE obj[c]]
    /\ sqliteDb' = IF Unfinalized(vdbe') = {} THEN "closed" ELSE "open"
    /\ db' = "NULL"
    /\ UNCHANGED <<registered, tracing, held, arraysize, nChange, nVdbeExec, stack, fault>>

\* Any operation of a cursor whose memory close freed.
UsesFreedCursor(c) ==
    /\ "use_after_close" \in Habits
    /\ ProgramTurn
    /\ c \in held
    /\ obj[c] = "freed"
    /\ fault' = "use-after-free"
    /\ UNCHANGED <<connVars, objVars, curVars, sqlVars, stack, delivered>>

\* total_changes, lastrowid and set_trace_callback hand db to SQLite, which
\* dereferences it.
UsesNullDb ==
    /\ "use_after_close" \in Habits
    /\ ProgramTurn
    /\ db = "NULL"
    /\ fault' = "null-deref"
    /\ UNCHANGED <<connVars, objVars, curVars, sqlVars, stack, delivered>>

\* The program has ended, or has been ended.
Terminated ==
    /\ (db = "NULL" /\ stack = <<>>) \/ fault # "none"
    /\ UNCHANGED vars

-----------------------------------------------------------------------------

ProgramStep ==
    \E c \in Cursors :
        \/ NewCursor(c)
        \/ Rejected(c) \/ ExecuteBlank(c) \/ ExecuteUnbound(c)
        \/ ExecuteBegins(c) \/ ManyBegins(c)
        \/ CloseCursor(c) \/ DelCursor(c)
        \/ FetchOne(c) \/ IterNext(c) \/ FetchAll(c)
        \/ \E n \in Sizes \cup {arraysize[c]} : FetchMany(c, n)
        \/ \E n \in Sizes : SetArraysize(c, n)
        \/ UsesFreedCursor(c)

CallStep ==
    \/ ExecuteRow \/ ExecuteDone \/ ExecuteFails
    \/ ManyPrepares \/ ManyStmtDone \/ ManyFails \/ ManyRejects \/ ManyReturns
    \/ FetchLoop \/ FetchReturns \/ FetchNoMem

CallbackStep ==
    \/ TraceReturns \/ TraceReturnsToFreed \/ Unwinds

ConnectionStep ==
    \/ \E on \in BOOLEAN : SetTraceCallback(on)
    \/ CloseConnection
    \/ UsesNullDb

Next == ProgramStep \/ CallStep \/ CallbackStep \/ ConnectionStep \/ Terminated

Spec == Init /\ [][Next]_vars

\* C code that is not waiting for the program runs on; nothing says that
\* the program ever makes another call, or that its callback returns.
Fairness == WF_vars(FetchLoop \/ FetchReturns)

FairSpec == Spec /\ Fairness

-----------------------------------------------------------------------------
(* Properties.                                                             *)

ExecFrames == {i \in DOMAIN stack : stack[i].op = "executemany"}
FetchFrames == {i \in DOMAIN stack : stack[i].op = "fetchmany"}

\* Every statement SQLite has not finalized belongs to one cursor object that
\* is alive and that connection.close will find in its list, or to one
\* sqlite3_exec that will finalize it; no two of them share a statement and
\* no cursor points to a finalized one (usqlite_cursor_execute,
\* usqlite_cursor_close, usqlite_cursor_del, usqlite_connection_register).
StatementsOwned ==
    /\ \A s \in Unfinalized(vdbe) :
        \/ \E c \in registered : obj[c] = "live" /\ stmt[c] = s
        \/ \E i \in ExecFrames : stack[i].stmt = s
    /\ \A c \in Cursors : stmt[c] # NoStmt =>
        /\ vdbe[stmt[c]].state # "free"
        /\ \A d \in Cursors \ {c} : stmt[d] # stmt[c]
        /\ \A i \in ExecFrames : stack[i].stmt # stmt[c]

\* connection.close releases the database and its file: nothing it leaves
\* behind makes sqlite3_close refuse (usqlite_connection_close).
CloseReleasesDatabase ==
    db = "NULL" => sqliteDb = "closed" /\ Unfinalized(vdbe) = {}

\* rc, which the fetch operations decide by, tells the truth about the
\* statement: ROW exactly when there is a current row to build, which is the
\* last one stepped to; DONE only for a statement that ran to its end; and a
\* cursor without a statement never looks as if it had run one.
RcTellsTheTruth ==
    \A c \in Cursors :
        IF stmt[c] = NoStmt THEN rc[c] \in {"OK", "MISUSE"}
        ELSE LET v == vdbe[stmt[c]] IN
            /\ rc[c] = "ROW" <=> v.result # 0
            /\ rc[c] = "ROW" => v.state = "run" /\ v.result = v.row
            /\ rc[c] \in {"DONE", "ERROR"} => v.state = "halt"

\* The rows c has handed over, or collected in a fetchmany that has not
\* returned yet.
Collected(c) ==
    IF \E i \in FetchFrames : stack[i].cur = c
    THEN delivered[c] \o Top.rows
    ELSE delivered[c]

\* The cursor is one row ahead of the program: while there is a current row,
\* the program has, or is about to get, every row before it, and rowcount
\* counts the current row; when the statement is done it has every row.
RowAccounting ==
    \A c \in Cursors : stmt[c] # NoStmt =>
        LET v == vdbe[stmt[c]] IN
        /\ rc[c] = "ROW" => /\ Collected(c) = [i \in 1..(v.row - 1) |-> i]
                            /\ rowcount[c] = v.row
        /\ rc[c] = "DONE" => /\ Collected(c) = [i \in 1..v.row |-> i]
                             /\ v.row > 0 => rowcount[c] = v.row

\* A program never receives a row twice, an older row after a newer one, or
\* the empty row: even after exceptions that lose rows.
RowsInOrder ==
    \A c \in Cursors : \A i \in DOMAIN delivered[c] :
        delivered[c][i] > IF i = 1 THEN 0 ELSE delivered[c][i - 1]

\* rowcount after a statement that changes rows is the number of rows that
\* very statement changed, whatever the trace callback executed meanwhile
\* (sqlite3_changes belongs to the connection, usqlite_cursor_execute).
OwnChanges ==
    \A c \in Cursors : stmt[c] # NoStmt =>
        LET v == vdbe[stmt[c]] IN
        rc[c] = "DONE" /\ v.row = 0 /\ v.counts => rowcount[c] = v.nChange

\* nVdbeExec counts the statements that are being stepped: SQLite clears an
\* out-of-memory condition, and traces SQL as top-level, only when it is
\* back to zero.
NestingCounted ==
    nVdbeExec = Cardinality({i \in DOMAIN stack : stack[i].phase \in {"trace", "run"}})

\* A batch of fetchmany(n) has n rows, unless the cursor has no more; a batch
\* of fetchall is the rest of the rows.
BatchesAreFull ==
    [][\A c \in Cursors :
        InCall("fetchmany", "loop") /\ Top.cur = c /\ delivered'[c] # delivered[c] =>
            LET n == Len(delivered'[c]) - Len(delivered[c]) IN
            /\ Top.size < 0 \/ n <= Top.size
            /\ n # Top.size => rc'[c] # "ROW"]_vars

\* A fetchmany or fetchall call that has begun returns.
FetchTerminates ==
    \A c \in Cursors : (\E i \in FetchFrames : stack[i].cur = c)
                          ~> ~(\E i \in FetchFrames : stack[i].cur = c)

\* SQLite never goes on with a statement that was finalized under it: the
\* callback of traceCallback (usqlite_connection.c:175) may close and execute
\* any cursor but the one that is starting below it.
NoFinalizedStatementUsed == fault # "stale-statement"

\* An object the program has a reference to is not freed memory.
HeldCursorsAlive == \A c \in held : obj[c] # "freed"

-----------------------------------------------------------------------------
(* The inductive invariant behind StatementsOwned and RcTellsTheTruth.     *)

\* Where the call of a frame may be, and whether it has a statement there.
Shaped(f) ==
    CASE f.op = "execute" -> f.phase \in {"trace", "run"} /\ f.stmt \in Stmts
      [] f.op = "executemany" ->
            \/ f.phase \in {"trace", "run"} /\ f.stmt \in Stmts
            \/ f.phase = "next" /\ f.stmt = NoStmt
      [] f.op = "fetchmany" -> f.phase = "loop" /\ f.stmt = NoStmt

\* Only the top frame runs C code; the ones below it wait for a callback.
FrameShape ==
    \A i \in DOMAIN stack :
        Shaped(stack[i]) /\ (stack[i].phase # "trace" => i = Len(stack))

\* The statement of frame f, given the statements v and the cursors' st.
\* sqlite3_exec has its own; that of execute is the cursor's, unless the
\* callback or an exception came between them, and has not produced a row.
Agrees(f, v, st) ==
    /\ f.op = "executemany" =>
           /\ v[f.stmt].state = "run"
           /\ \A c \in Cursors : st[c] # f.stmt
    /\ f.op = "execute" =>
           /\ v[f.stmt].result = 0
           /\ v[f.stmt].state \in {"run", "free"}
           /\ v[f.stmt].state = "run" => st[f.cur] = f.stmt
           /\ f.phase = "run" => v[f.stmt].state = "run"

\* A statement is in one frame only.
FrameStmts ==
    \A i \in DOMAIN stack : stack[i].stmt # NoStmt =>
        /\ \A j \in DOMAIN stack \ {i} : stack[j].stmt # stack[i].stmt
        /\ Agrees(stack[i], vdbe, stmt)

\* A cursor's statement is not finalized and is its own.
CursorStmts ==
    \A c \in Cursors : stmt[c] # NoStmt =>
        /\ vdbe[stmt[c]].state # "free"
        /\ \A d \in Cursors \ {c} : stmt[d] # stmt[c]

-----------------------------------------------------------------------------
(* The cursors implement ResultSet: one ResultSet step is one usqlite call, *)
(* however many sqlite3_step calls it takes.                                *)

phaseBar ==
    [c \in Cursors |->
        IF stmt[c] = NoStmt THEN "none"
        ELSE IF \E i \in FetchFrames : stack[i].cur = c THEN "rows"
        ELSE CASE rc[c] = "ROW" -> "rows"
               [] rc[c] = "DONE" -> "all"
               [] rc[c] = "ERROR" -> "failed"
               [] OTHER -> "none"]

totalBar ==
    [c \in Cursors |-> IF phaseBar[c] = "all" THEN vdbe[stmt[c]].row ELSE 0]

RS == INSTANCE ResultSet WITH
        phase <- phaseBar, received <- delivered, total <- totalBar

ImplementsResultSet == RS!Spec
=============================================================================
