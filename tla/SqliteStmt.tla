----------------------------- MODULE SqliteStmt -----------------------------
(***************************************************************************)
(* Prepared statements of SQLite as usqlite uses them: the part of a Vdbe  *)
(* (sqlite3.c) that usqlite can tell apart through sqlite3_step,           *)
(* sqlite3_data_count, sqlite3_changes and sqlite3_finalize.               *)
(*                                                                         *)
(* The rows of a result set are numbered 1, 2, 3, ...: a row is its        *)
(* position.  Which rows a statement produces, and whether a step fails,   *)
(* is up to the statement and the database file, so a step is free to     *)
(* produce any of its outcomes, up to MaxRows rows.                        *)
(***************************************************************************)
EXTENDS Naturals

CONSTANTS
    MaxRows,     \* the most rows a result set has
    MaxChanges   \* the most rows one statement changes

ASSUME RowsAssumption == MaxRows \in Nat
ASSUME ChangesAssumption == MaxChanges \in Nat

(***************************************************************************)
(*   state   eVdbeState; "free" is a slot that holds no Vdbe               *)
(*   row     how many rows sqlite3_step has produced so far                *)
(*   result  the row pResultRow points to, 0 when pResultRow is NULL       *)
(*   counts  changeCntOn: the statement sets sqlite3_changes when it halts *)
(*   nChange the rows the statement itself changed, known once it halted   *)
(***************************************************************************)
Vdbe == [state   : {"free", "ready", "run", "halt"},
         row     : 0..MaxRows,
         result  : 0..MaxRows,
         counts  : BOOLEAN,
         nChange : 0..MaxChanges]

FreeVdbe ==
    [state |-> "free", row |-> 0, result |-> 0, counts |-> FALSE, nChange |-> 0]

\* A statement sqlite3_prepare_v2 has just compiled.
Prepared(counts) == [FreeVdbe EXCEPT !.state = "ready", !.counts = counts]

\* The first sqlite3_step takes a statement from ready to run, before it
\* executes OP_Init and so before the trace callback hears of it.
Started(v) == [v EXCEPT !.state = "run"]

\* sqlite3_step returned SQLITE_ROW.
WithRow(v) == [v EXCEPT !.row = v.row + 1, !.result = v.row + 1]

\* sqlite3_step returned anything else: the statement halted, having
\* changed n rows.
Halted(v, n) == [v EXCEPT !.state = "halt", !.result = 0, !.nChange = n]

\* How many rows a statement that halts may turn out to have changed.
ChangesOf(v) == IF v.counts THEN 0..MaxChanges ELSE {0}

\* Mutant: the counter adds up, as sqlite3_total_changes does.
ChangesAddUp(v, n, before) == before + n

\* db->nChange after a statement that changed n rows halted, given what it
\* was before: only a statement that counts its changes replaces it.
ChangesAfterHalt(v, n, before) == IF v.counts THEN n ELSE before

\* Statements that sqlite3_close takes for unfinalized.
Unfinalized(vdbe) == {s \in DOMAIN vdbe : vdbe[s].state # "free"}
=============================================================================
