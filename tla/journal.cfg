SPECIFICATION Spec
CONSTANTS
    NPages = 3
    InitialSize = {0, 1, 2}
    NoFile = NoFile
    MaxTx = 2
    MaxCrash = 0
INVARIANTS TypeOK CleanPagesAgree DurableUnlessNew
PROPERTY ImplementsAtomicDb
CHECK_DEADLOCK FALSE
