SPECIFICATION Spec
CONSTANTS
    k1 = k1
    k2 = k2
    text = text
    object = object
    b = b
    Key = {k1, k2}
    Array = {b}
    Bytes = {x, y}
    Junk = Junk
    IntLimit = 2
    WordLimit = 4
    RowTypes = {"tuple", "dict", "row"}
    MaxMoves = 1
    MaxExecutes = 1
    Sqls <- MCSqls
    Arguments <- MCArguments
INVARIANTS TypeOK RowsShowWhatWasGiven RaisesOnlyWithReason
