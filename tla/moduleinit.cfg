SPECIFICATION HeapSpec
CONSTANTS
    MaxHandles = 3
    MaxHeld = 6
    Grain = 2
    MaxRequest = 4
    Width = 4
INVARIANTS TypeOK MemoryIsAccounted AllocatesFromMicroPython
    StatisticsAreExact CountersAgreeUntilUneven
