------------------------------ MODULE ResultSet ------------------------------
(***************************************************************************)
(* What a usqlite cursor promises a program about the rows of a query,     *)
(* whatever it takes SQLite to produce them: the program receives row 1,   *)
(* row 2, ... in batches, each row once; when the cursor has no more rows  *)
(* the program has all of them; rows are lost only when the query fails.   *)
(* A result set that has ended does not start again: only a new execute    *)
(* opens another one.                                                      *)
(***************************************************************************)
EXTENDS Naturals, Sequences

CONSTANTS Cursors, MaxRows

VARIABLES
    phase,     \* "none": no result set; "rows": more rows to come;
               \* "all": every row was received; "failed"
    received,  \* the rows of the result set the program has received
    total      \* how many rows the result set has, known when it is "all"

vars == <<phase, received, total>>

TypeOK ==
    /\ phase \in [Cursors -> {"none", "rows", "all", "failed"}]
    /\ received \in [Cursors -> Seq(1..MaxRows)]
    /\ total \in [Cursors -> 0..MaxRows]

\* The rows from..to of a result set.
RowsFrom(from, to) == [i \in 1..(to + 1 - from) |-> from + i - 1]

Init ==
    /\ phase = [c \in Cursors |-> "none"]
    /\ received = [c \in Cursors |-> <<>>]
    /\ total = [c \in Cursors |-> 0]

\* A statement has run its first step: it has rows, it has none, it failed.
Open(c) ==
    /\ phase[c] = "none"
    /\ \E p \in {"rows", "all", "failed"} : phase' = [phase EXCEPT ![c] = p]
    /\ UNCHANGED <<received, total>>

\* The program receives all the rows up to row n, in order.
Receive(c) ==
    /\ phase[c] = "rows"
    /\ \E n \in (Len(received[c]) + 1)..MaxRows :
        /\ received' = [received EXCEPT
                          ![c] = @ \o RowsFrom(Len(received[c]) + 1, n)]
        /\ \/ UNCHANGED <<phase, total>>
           \/ /\ phase' = [phase EXCEPT ![c] = "all"]
              /\ total' = [total EXCEPT ![c] = n]

\* The query fails; what the program has received stays received.
Fail(c) ==
    /\ phase[c] = "rows"
    /\ phase' = [phase EXCEPT ![c] = "failed"]
    /\ UNCHANGED <<received, total>>

\* Closing one cursor, replacing its statement, or closing the connection.
Close(closed) ==
    /\ phase' = [c \in Cursors |-> IF c \in closed THEN "none" ELSE phase[c]]
    /\ received' = [c \in Cursors |-> IF c \in closed THEN <<>> ELSE received[c]]
    /\ total' = [c \in Cursors |-> IF c \in closed THEN 0 ELSE total[c]]

Next ==
    \/ \E c \in Cursors : Open(c) \/ Receive(c) \/ Fail(c)
    \/ \E closed \in SUBSET Cursors : Close(closed)

Spec == Init /\ [][Next]_vars
=============================================================================
