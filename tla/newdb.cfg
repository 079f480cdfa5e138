SPECIFICATION Spec
CONSTANTS
    NPages = 2
    InitialSize = {0}
    NoFile = NoFile
    MaxTx = 1
    MaxCrash = 0
INVARIANT RollbackRestores
CHECK_DEADLOCK FALSE
