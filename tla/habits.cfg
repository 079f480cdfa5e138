\* Everything a program may do, exceptions that cross SQLite included.
SPECIFICATION Spec
CONSTANTS
    Cursors = {c1, c2}
    Stmts = {s1, s2}
    NoStmt = NoStmt
    Sizes = {2}
    MaxRows = 2
    MaxChanges = 0
    MaxDepth = 2
    MaxScript = 1
    MaxExec = 2
    Habits = {"reenter", "throw", "nomem", "use_after_close", "use_after_del"}
SYMMETRY Symmetry
INVARIANTS RcTellsTheTruth RowsInOrder
