SPECIFICATION FairSpec
CONSTANTS
    m1 = m1
    m2 = m2
    d1 = d1
    d2 = d2
    nowhere = nowhere
    Channel = "twilio_sms"
    Msgs = {m1}
    Dests = {d1, d2, nowhere}
    UnknownDest = nowhere
    Kind <- MCKind
    Segments <- MCSegments
    NoBasis = ""
    Configs <- MCTargets
    FirstConfig <- Roomy
    RetryAfters = {0}
    Lease = 2
    SendTimeout = 1
    Interval = 1
    UnknownWait = 1
    RefusedWait = 1
    LineWindow = 2
    KeyLife = 5
    TTL = 4
    Day = 2
    BudgetDays = 2
    MaxAttempts = 2
    PollWait = 1
    PollDeadline = 4
    MaxPolls = 2
    Forever = 99
    MaxClock = 4
    MaxBack = 0
    MaxRestarts = 1
    MaxOps = 1
    MaxRestores = 1
INVARIANTS
    TypeInvariant
    RowsTellTruth
    FreshAttempts
    PollsBounded
PROPERTIES
    KeepsPromise
    IntentsSettle
