SPECIFICATION MCSpec
CONSTANTS
    Ifaces = {eth0}
    MaxWatermarks = 2
    MaxHealth = 2
    MaxSessions = 2
    MaxClock = 3
    MaxBack = 0
    MaxCrashes = 1
    MaxResends = 1
    MaxFailures = 1
    Units = {0, 1}
    Derivations <- AnyOutcome
INVARIANTS
    EachBatchOnce
    GapsAccountedFor
    AckMeansDurable
    NetworkSound
PROPERTIES
    WindowsInOrder
CHECK_DEADLOCK FALSE
