\* The trace callback raises in a statement of executemany.
SPECIFICATION Spec
CONSTANTS
    Cursors = {c1, c2}
    Stmts = {s1, s2}
    NoStmt = NoStmt
    Sizes = {2}
    MaxRows = 2
    MaxChanges = 0
    MaxDepth = 2
    MaxScript = 1
    MaxExec = 2
    Habits = {"throw"}
INVARIANT CloseReleasesDatabase
