SPECIFICATION FairFaultSpec
CONSTANTS
    NPages = 2
    InitialSize = {1, 2}
    NoFile = NoFile
    MaxTx = 2
    MaxCrash = 1
    MaxFail = 1
INVARIANTS DurableUnlessHarmed Recoverable
PROPERTIES AtomicUnlessHarmed CallsReturn
CHECK_DEADLOCK FALSE
