------------------------------- MODULE Values -------------------------------
(***************************************************************************)
(* What goes into a statement and what comes out of it: the parameters of  *)
(* the SQL text, the Python values bindParameters finds for them, the      *)
(* buffers it binds without a copy, and the rows a cursor builds from the  *)
(* columns.                                                                *)
(*                                                                         *)
(* The statement is a SELECT whose columns are parameters, so that a row   *)
(* shows what was bound and each column has the text of its parameter as   *)
(* its name.  How a cursor gets from row to row is the subject of Usqlite. *)
(***************************************************************************)
EXTENDS Integers, Sequences, FiniteSets, SequencesExt

CONSTANTS
    Key,        \* the names of named parameters, the keys of a dict
    Array,      \* the bytearrays of the program
    Bytes,      \* what a bytearray can contain
    Junk,       \* what is in memory that was freed
    Sqls,       \* the SQL texts the program executes, as sequences of tokens
    Arguments,  \* the values it passes, and NoValues
    RowTypes,   \* the row types it chooses
    IntLimit,   \* 2^31, scaled down: a C int holds -IntLimit .. IntLimit - 1
    WordLimit,  \* the same for mp_int_t: IntLimit, or more on a 64-bit machine
    MaxMoves,   \* bound: how often a bytearray is moved in memory
    MaxExecutes \* bound: how many times execute is called

ASSUME LimitsAreOrdered ==
    /\ IntLimit \in Nat \ {0}
    /\ WordLimit \in Nat \ 0 .. (IntLimit - 1)

ASSUME RowTypesExist ==
    "tuple" \in RowTypes /\ RowTypes \subseteq {"tuple", "dict", "row"}

ASSUME BoundsAreNumbers == MaxMoves \in Nat /\ MaxExecutes \in Nat

VARIABLES
    row_type,   \* connection.row_type
    rowfactory, \* cursor.rowfactory, as the type of row it builds
    stmt,       \* the statement of the cursor, with its bindings
    rc,         \* cursor.rc
    row,        \* the last row the program received
    array,      \* the block of memory and the content of each bytearray
    call,       \* history: the last execute, what it was given, and what it did
    executes    \* how many times execute was called

vars == <<row_type, rowfactory, stmt, rc, row, array, call, executes>>

-----------------------------------------------------------------------------
(* The parameters of a statement *)

\* A parameter in the SQL text: ?, ?NNN, or a name behind one of the signs.
Nameless == [sign |-> "?", of |-> 0]
Numbered(n) == [sign |-> "?", of |-> n]
Named(sign, key) == [sign |-> sign, of |-> key]

Token == [sign : {"?"}, of : Nat] \cup [sign : {":", "@", "$"}, of : Key]

\* A text has at least one column.
ASSUME SqlsAreTexts == Sqls \subseteq Seq(Token) \ {<< >>}

\* The NNN of a ?NNN, which bindParameters looks up in a dict as if it were a
\* name, is not in the dict.
ASSUME KeysAreNames == Key \cap Nat = {}

\* sqlite3_bind_parameter_name of a parameter that has none.
NoName == Nameless

IsName(t) == t.sign # "?"
IsNumber(t) == t.sign = "?" /\ t.of # 0

\* The number the parser gives the next token t, after those of p.
VarNumber(p, t) ==
    IF t = Nameless THEN p.count + 1
    ELSE IF IsNumber(t) THEN t.of
    ELSE IF t \in Range(p.name) THEN CHOOSE i \in 1 .. p.count : p.name[i] = t
    ELSE p.count + 1

\* A number keeps its first name; numbers that are jumped over have none.
AssignVarNumber(p, t) ==
    LET x == VarNumber(p, t)
        Name(i) == IF i <= p.count THEN p.name[i] ELSE NoName
    IN  [count  |-> IF x > p.count THEN x ELSE p.count,
         name   |-> [i \in 1 .. (IF x > p.count THEN x ELSE p.count) |->
                        IF i = x /\ Name(i) = NoName THEN t ELSE Name(i)],
         number |-> Append(p.number, x)]

\* sqlite3_prepare_v2: how many parameters, their names, the number of each token.
Params(sql) ==
    FoldLeft(AssignVarNumber, [count |-> 0, name |-> << >>, number |-> << >>], sql)

-----------------------------------------------------------------------------
(* Python values and bound values *)

NoneValue == [type |-> "None"]

\* execute was called without values.
NoValues == [type |-> "no values"]

\* An integer may have any size; a bytearray is one of the program's.
IsItem(v) ==
    /\ v.type = "int" => v.of \in Int
    /\ v.type = "bytearray" => v.of \in Array

\* The items of a tuple or a list have indices, those of a dict names.
ASSUME ArgumentsAreValues ==
    \A v \in Arguments :
        /\ IsItem(v)
        /\ v.type \in {"tuple", "list", "dict"} =>
              /\ v = [type |-> v.type, of |-> v.of]
              /\ v.of = [i \in DOMAIN v.of |-> v.of[i]]
              /\ \A i \in DOMAIN v.of : IsItem(v.of[i])
        /\ v.type \in {"tuple", "list"} =>
              Len(v.of) \in Nat /\ DOMAIN v.of = 1 .. Len(v.of)
        /\ v.type = "dict" => DOMAIN v.of \subseteq Key

\* A 64-bit value as a C int.
Int32(n) == ((n + IntLimit) % (2 * IntLimit)) - IntLimit

\* What bindParameter cannot bind: other types, and integers beyond mp_int_t.
Unsupported(v) ==
    \/ v.type \notin {"None", "int", "str", "float", "bytes", "bytearray"}
    \/ v.type = "int" /\ v.of \notin -WordLimit .. WordLimit - 1

\* bindParameter: sqlite3_bind_int takes an int; text and blobs are bound as
\* pointers (SQLITE_STATIC), those of a bytearray to its present block.
Bound(v) ==
    CASE v.type = "int" -> [type |-> "int", of |-> Int32(v.of)]
      [] v.type = "bytearray" ->
            [type |-> "pointer", to |-> v.of, block |-> array[v.of].block]
      [] OTHER -> v

\* usqlite_column_value: the Python value of a column that shows a bound value.
ColumnValue(m) ==
    IF m.type # "pointer" THEN m
    ELSE [type |-> "bytes",
          of |-> IF m.block = array[m.to].block THEN array[m.to].bytes ELSE Junk]

-----------------------------------------------------------------------------
(* bindParameters *)

\* There is no value for a parameter: the call raises.
Missing == [type |-> "missing"]

\* A parameter that stays unbound.
Skipped == NoneValue

\* Mutant: numbered parameters are taken in the order of the loop.
IndexOfOrder(p, i) == i

\* The index in the sequence of values, counted from 1, for parameter i > 0.
\* atoi of a name is 0, and index (size_t)-1 is beyond every sequence.
IndexOf(p, i) ==
    IF p.name[1] = NoName THEN i
    ELSE IF IsNumber(p.name[i]) THEN p.name[i].of
    ELSE 0

\* With named parameters: the first character of the name is left off.
FromDict(p, values, i) ==
    IF p.name[i] # NoName /\ p.name[i].of \in DOMAIN values.of
    THEN values.of[p.name[i].of]
    ELSE Missing

\* With ? and ?NNN: if the first one is numbered, nameless ones are skipped.
FromItems(p, values, i) ==
    IF p.name[1] # NoName /\ p.name[i] = NoName THEN Skipped
    ELSE IF IndexOf(p, i) \in DOMAIN values.of THEN values.of[IndexOf(p, i)]
    ELSE Missing

\* Mutant: a single value is taken for a numbered parameter only.
SingleIfNumbered(p) == p.count = 1 /\ p.name[1] # NoName

\* A value that is no sequence may be passed for a single ?.
SingleValue(p) == p.count = 1 /\ p.name[1] = NoName

\* The value bindParameters takes for parameter i.
ValueFor(p, values, i) ==
    IF p.name[1] # NoName /\ IsName(p.name[1])
    THEN IF values.type = "dict" THEN FromDict(p, values, i) ELSE Missing
    ELSE IF values.type \in {"tuple", "list"} THEN FromItems(p, values, i)
    ELSE IF SingleValue(p) THEN values
    ELSE Missing

\* The call returns SQLITE_OK: nothing is to be bound, or everything can be.
Binds(p, values) ==
    \A i \in 1 .. p.count : ~Unsupported(ValueFor(p, values, i))

-----------------------------------------------------------------------------
(* The cursor *)

NoStmt == [sql |-> << >>, bound |-> << >>]
NoRow == [type |-> "none"]

\* The cursor object, as an element of a row.
TheCursor == [type |-> "Cursor"]

\* The value itself, with the present content of a bytearray.
Copy(v) ==
    IF v.type = "bytearray" THEN [type |-> "bytearray", of |-> array[v.of].bytes] ELSE v

CopyAll(values) ==
    IF values.type \in {"tuple", "list", "dict"}
    THEN [values EXCEPT !.of = [i \in DOMAIN @ |-> Copy(@[i])]]
    ELSE Copy(values)

NoCall == [sql |-> << >>, values |-> NoValues, raised |-> FALSE, touched |-> FALSE]

TypeOK ==
    /\ {row_type, rowfactory} \subseteq RowTypes
    /\ rc \in {"OK", "ROW", "DONE"}
    /\ stmt.sql \in Sqls \cup {<< >>}
    /\ stmt.bound # << >> => DOMAIN stmt.bound = 1 .. Params(stmt.sql).count
    /\ \A i \in DOMAIN stmt.bound :
          stmt.bound[i].type \in {"None", "int", "str", "float", "bytes", "pointer"}
    /\ rc # "OK" => stmt # NoStmt
    /\ row.type \in RowTypes \cup {"none"}
    /\ array \in [Array -> [block : 0 .. MaxMoves, bytes : Bytes]]
    /\ executes \in 0 .. MaxExecutes

Init ==
    /\ row_type = "tuple"
    /\ rowfactory = "tuple"
    /\ stmt = NoStmt
    /\ rc = "OK"
    /\ row = NoRow
    /\ array \in [Array -> [block : {0}, bytes : Bytes]]
    /\ call = NoCall
    /\ executes = 0

\* connection.row_type = t: cursors that exist keep their row factory.
SetRowType(t) ==
    /\ row_type' = t
    /\ UNCHANGED <<rowfactory, stmt, rc, row, array, call, executes>>

\* connection.cursor; the program drops the cursor it had.
NewCursor ==
    /\ rowfactory' = row_type
    /\ stmt' = NoStmt
    /\ rc' = "OK"
    /\ row' = NoRow
    /\ call' = NoCall
    /\ UNCHANGED <<row_type, array, executes>>

\* execute closes the cursor and compiles the text.  If the values cannot be
\* bound it raises and leaves the compiled statement in the cursor.
ExecuteRaises(sql, values) ==
    /\ ~Binds(Params(sql), values)
    /\ stmt' = [sql |-> sql, bound |-> << >>]
    /\ rc' = "OK"
    /\ call' = [sql |-> sql, values |-> CopyAll(values), raised |-> TRUE, touched |-> FALSE]
    /\ executes' = executes + 1
    /\ UNCHANGED <<row_type, rowfactory, row, array>>

\* Else it binds them and takes the first step.
ExecuteSteps(sql, values) ==
    LET p == Params(sql)
    IN  /\ Binds(p, values)
        /\ stmt' = [sql |-> sql,
                    bound |-> [i \in 1 .. p.count |-> Bound(ValueFor(p, values, i))]]
        /\ rc' \in {"ROW", "DONE"}
        /\ call' = [sql |-> sql, values |-> CopyAll(values), raised |-> FALSE,
                    touched |-> FALSE]
        /\ executes' = executes + 1
        /\ UNCHANGED <<row_type, rowfactory, row, array>>

\* The value of column i of the current row: OP_Variable, usqlite_column_value.
Column(i) == ColumnValue(stmt.bound[Params(stmt.sql).number[i]])

\* Mutant: of columns with the same name, a dict keeps the first one.
FirstColumn(name) == CHOOSE i \in DOMAIN stmt.sql :
    stmt.sql[i] = name /\ \A j \in DOMAIN stmt.sql : stmt.sql[j] = name => i <= j

\* mp_obj_dict_store overwrites: the last column with a name stays.
LastColumn(name) == CHOOSE i \in DOMAIN stmt.sql :
    stmt.sql[i] = name /\ \A j \in DOMAIN stmt.sql : stmt.sql[j] = name => i >= j

Columns == [i \in DOMAIN stmt.sql |-> Column(i)]

\* row_tuple, row_dict and row_type, which puts the cursor behind the columns
\* and leaves the row an ordinary tuple.
BuiltRow ==
    [type |-> rowfactory,
     of |-> CASE rowfactory = "dict" -> [name \in Range(stmt.sql) |-> Column(LastColumn(name))]
              [] rowfactory = "tuple" -> Columns
              [] rowfactory = "row" -> Append(Columns, TheCursor),
     call |-> call]

\* sqlite3_column_decltype of an expression, as all columns here are: NULL.
DeclaredType(t) == [type |-> "NULL pointer"]

\* usqlite_cursor_description: the columns of sqlite3_data_count, which counts
\* none once the last row was stepped over; usqlite_column_decltype takes the
\* strlen of the declared type.
Description ==
    [i \in 1 .. (IF rc = "ROW" THEN Len(stmt.sql) ELSE 0) |->
        [name |-> stmt.sql[i], decltype |-> DeclaredType(stmt.sql[i])]]

\* fetchone, or the next row of an iteration: builds the row, then steps.
Fetch ==
    /\ rc = "ROW"
    /\ row' = BuiltRow
    /\ rc' \in {"ROW", "DONE"}
    /\ UNCHANGED <<row_type, rowfactory, stmt, array, call, executes>>

\* Mutant: rc is not reset.
CloseKeepingRc ==
    /\ stmt # NoStmt
    /\ stmt' = NoStmt
    /\ UNCHANGED <<row_type, rowfactory, rc, row, array, call, executes>>

Close ==
    /\ stmt # NoStmt
    /\ stmt' = NoStmt
    /\ rc' = "OK"
    /\ UNCHANGED <<row_type, rowfactory, row, array, call, executes>>

\* Is a bound?
IsBound(a) ==
    \E i \in DOMAIN stmt.bound : stmt.bound[i].type = "pointer" /\ stmt.bound[i].to = a

\* The program assigns to an element of a bytearray.
Assign(a, bytes) ==
    /\ array' = [array EXCEPT ![a].bytes = bytes]
    /\ call' = [call EXCEPT !.touched = @ \/ IsBound(a)]
    /\ UNCHANGED <<row_type, rowfactory, stmt, rc, row, executes>>

\* The program appends to it, and its memory has to move.
Extend(a) ==
    /\ array[a].block < MaxMoves
    /\ \E bytes \in Bytes : array' = [array EXCEPT ![a] = [block |-> @.block + 1, bytes |-> bytes]]
    /\ call' = [call EXCEPT !.touched = @ \/ IsBound(a)]
    /\ UNCHANGED <<row_type, rowfactory, stmt, rc, row, executes>>

Next ==
    \/ \E t \in RowTypes : SetRowType(t)
    \/ NewCursor
    \/ /\ executes < MaxExecutes
       /\ \E sql \in Sqls, values \in Arguments :
             ExecuteRaises(sql, values) \/ ExecuteSteps(sql, values)
    \/ Fetch
    \/ Close
    \/ \E a \in Array : Extend(a) \/ \E bytes \in Bytes : Assign(a, bytes)

Spec == Init /\ [][Next]_vars

-----------------------------------------------------------------------------
(* What the documentation promises *)

\* A ?NNN has that number, a name that of its first occurrence, any other
\* parameter the largest number before it and one.
DocumentedNumber(sql) ==
    LET Earlier(i) == {j \in 1 .. i - 1 : IsName(sql[i]) /\ sql[j] = sql[i]}
        number[i \in DOMAIN sql] ==
            IF IsNumber(sql[i]) THEN sql[i].of
            ELSE IF Earlier(i) # {} THEN number[CHOOSE j \in Earlier(i) : TRUE]
            ELSE 1 + (CHOOSE n \in {0} \cup {number[j] : j \in 1 .. i - 1} :
                        \A j \in 1 .. i - 1 : number[j] <= n)
    IN  number

\* The place in the values of a call where the value for token i belongs: in a
\* dict under the name that its number has in the text, if there is one.
Place(c, i) ==
    LET number == DocumentedNumber(c.sql)
        names == {c.sql[j].of : j \in {k \in DOMAIN c.sql :
                                        IsName(c.sql[k]) /\ number[k] = number[i]}}
    IN  IF c.values.type # "dict" THEN number[i]
        ELSE IF names = {} THEN 0
        ELSE CHOOSE name \in names : TRUE

\* That value; there is one unless an error should have been raised.
IsGiven(c, i) ==
    c.values.type \in {"tuple", "list", "dict"} => Place(c, i) \in DOMAIN c.values.of

Given(c, i) ==
    IF c.values.type \in {"tuple", "list", "dict"} THEN c.values.of[Place(c, i)] ELSE c.values

\* A row may show a value as this: integers beyond an int lose their high bits.
Shows(shown, given) ==
    CASE given.type = "bytearray" -> shown = [type |-> "bytes", of |-> given.of]
      [] given.type = "int" ->
            /\ shown.type = "int"
            /\ shown.of \in -IntLimit .. IntLimit - 1
            /\ (shown.of - given.of) % (2 * IntLimit) = 0
      [] OTHER -> shown = given

\* Column i of the row shows the value that belongs to its parameter; the value
\* a dict has for a name is that of the last column with the name.
ColumnShowsItsValue(r, i) ==
    LET sql == r.call.sql
    IN  IF r.type # "dict"
        THEN IsGiven(r.call, i) /\ Shows(r.of[i], Given(r.call, i))
        ELSE \/ \E j \in i + 1 .. Len(sql) : sql[j] = sql[i]
             \/ IsGiven(r.call, i) /\ Shows(r.of[sql[i]], Given(r.call, i))

\* The only parameters nothing is bound to: nameless ones in a statement whose
\* parameter number 1 is ?1.
LeftOut(sql, i) == sql[i] = Nameless /\ Numbered(1) \in Range(sql)

\* Each column of each row of the program, whatever type of row it is and
\* whichever mixture of ?, ?NNN and names the statement has, shows the value
\* that the documentation of SQLite and usqlite says belongs to its parameter,
\* as it was when execute was called, and no parameter without a value goes
\* unnoticed: bindParameters (usqlite_cursor.c:188), usqlite_column_value
\* (usqlite_utils.c:151) and the row factories.  A bytearray that was changed
\* after execute is another matter (BoundBuffersAreValid).
RowsShowWhatWasGiven ==
    row.type # "none" /\ ~row.call.touched =>
        \A i \in DOMAIN row.call.sql :
            LeftOut(row.call.sql, i) \/ ColumnShowsItsValue(row, i)

\* A call that follows README.md:201-219: a tuple or list with all the values,
\* a dict with all the names, or one value for a single ?.
WellCalled(c) ==
    LET All(items) == \A i \in DOMAIN items : ~Unsupported(items[i])
        last == DocumentedNumber(c.sql)
    IN  \/ /\ \A i \in DOMAIN c.sql : ~IsName(c.sql[i])
           /\ c.values.type \in {"tuple", "list"}
           /\ \A i \in DOMAIN c.sql : last[i] <= Len(c.values.of)
           /\ All(c.values.of)
        \/ /\ \A i \in DOMAIN c.sql : IsName(c.sql[i])
           /\ c.values.type = "dict"
           /\ \A i \in DOMAIN c.sql : c.sql[i].of \in DOMAIN c.values.of
           /\ All(c.values.of)
        \/ c.sql = <<Nameless>> /\ ~Unsupported(c.values)

\* execute does not refuse a call that is as documented, whatever gaps the
\* numbers have and however often a name is repeated: bindParameters
\* (usqlite_cursor.c:188) loops over numbers, not over what the text contains.
RaisesOnlyWithReason == call.raised => ~WellCalled(call)

-----------------------------------------------------------------------------
(* What the code does not keep: see Findings in the README *)

\* All columns show the value they were given: README.md:203 wants values for
\* ? and ?NNN in one sequence, and bindParameters (usqlite_cursor.c:254) leaves
\* a ? in a statement with ?1 unbound without a word.
NoParameterLeftOut ==
    row.type # "none" /\ ~row.call.touched =>
        \A i \in DOMAIN row.call.sql : ColumnShowsItsValue(row, i)

\* The memory a statement has a pointer to is still that of the bytearray: what
\* sqlite3.h:4652 wants of SQLITE_STATIC, and bindParameter
\* (usqlite_cursor.c:174) does not see to.
BoundBuffersAreValid ==
    \A i \in DOMAIN stmt.bound :
        stmt.bound[i].type = "pointer" => stmt.bound[i].block = array[stmt.bound[i].to].block

\* A row of type row is a tuple of the columns, as README.md:194 says; row_type
\* (usqlite_cursor.c:419) makes it one element longer.
RowsAreTheirColumns == row.type \in {"tuple", "row"} => Len(row.of) = Len(row.call.sql)

\* cursor.description reads only names that are there: sqlite3.h:4902 says that
\* the declared type of an expression is a NULL pointer, and
\* usqlite_column_decltype (usqlite_utils.c:206) takes its length.
DescriptionReadsNames ==
    \A i \in DOMAIN Description : Description[i].decltype.type # "NULL pointer"
=============================================================================
