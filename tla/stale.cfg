SPECIFICATION PowerSpec
CONSTANTS
    NPages = 2
    InitialSize = {2}
    NoFile = NoFile
    MaxTx = 2
    MaxCrash = 1
INVARIANT RollbackRestores
CHECK_DEADLOCK FALSE
