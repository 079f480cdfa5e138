\* Two cursors of one connection; the trace callback calls back into it.
SPECIFICATION Spec
CONSTANTS
    Cursors = {c1, c2}
    Stmts = {s1, s2, s3}
    NoStmt = NoStmt
    Sizes = {}
    MaxRows = 2
    MaxChanges = 1
    MaxDepth = 2
    MaxScript = 1
    MaxExec = 2
    Habits = {}
SYMMETRY Symmetry
INVARIANTS TypeOK StatementsOwned CloseReleasesDatabase OwnChanges NestingCounted
    NoFinalizedStatementUsed
PROPERTIES ImplementsResultSet
