CONSTANTS
    Kinds = {"login", "bad", "opaque"}
    Window = 1
    MaxBackfill = 1
    CacheSize = 1
    MaxRecords = 2
    MaxTime = 4
    MaxFaults = 3
SPECIFICATION Spec
INVARIANTS EachEntryOnce ReadyIsHonest
PROPERTIES LossIsKnown RecordsSettle
CHECK_DEADLOCK FALSE
