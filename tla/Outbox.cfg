SPECIFICATION MCSpec
CONSTANTS
    Receivers = {"A","unknown"}
    Unknown = "unknown"
    RetryDelays = {1}
    Holds = {2}
    Lease = 1
    TTL = 2
    SilenceTimes = {2}
    MaxSilences = 1
    MaxAttempts = 2
    PassLimit = 2
    Forever = 99
    MaxSuppressed = 1
    MaxRestarts = 2
    MaxOps = 2
    Events = {"u1","v"}
    Mergeable = FALSE
    Interval = 1
    MaxMessages = 2
    MaxBytes = 3
    MaxClock = 3
    Incident <- IncidentOf
    Kind <- KindOf
    Phase <- PhaseOf
    Size <- SizeOf
    FirstConfig <- Plain
    Configs <- Privacies
    SilenceRules <- OneKind
INVARIANTS
    WellFormed
PROPERTIES
    TellsAll
    Withheld
    PacedRequests
CHECK_DEADLOCK FALSE
