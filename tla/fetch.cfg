\* One cursor, every way to fetch the rows of a longer result set.
SPECIFICATION FairSpec
CONSTANTS
    Cursors = {c1}
    Stmts = {s1, s2}
    NoStmt = NoStmt
    Sizes <- MCSizes
    MaxRows = 4
    MaxChanges = 1
    MaxDepth = 1
    MaxScript = 1
    MaxExec = 1
    Habits = {}
INVARIANTS RowAccounting
PROPERTIES ImplementsResultSet BatchesAreFull FetchTerminates
