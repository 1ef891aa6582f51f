SPECIFICATION Spec
CONSTANTS
    Ifaces = {eth0}
    MaxWatermarks = 2
    MaxHealth = 2
    MaxSessions = 3
    MaxClock = 8
    MaxBack = 2
    MaxCrashes = 0
    MaxResends = 0
    MaxFailures = 0
    Units = {1}
    Derivations <- Quiet
PROPERTIES
    RetiredIsRefused
CHECK_DEADLOCK FALSE
