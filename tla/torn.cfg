SPECIFICATION PowerSpec
CONSTANTS
    NPages = 2
    InitialSize = {2}
    NoFile = NoFile
    MaxTx = 2
    MaxCrash = 1
PROPERTY CrashIsAtomic
CHECK_DEADLOCK FALSE
