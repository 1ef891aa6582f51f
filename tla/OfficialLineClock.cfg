SPECIFICATION Spec
CONSTANTS
    m1 = m1
    m2 = m2
    d1 = d1
    d2 = d2
    nowhere = nowhere
    Channel = "line"
    Msgs = {m1}
    Dests = {d1, nowhere}
    UnknownDest = nowhere
    Kind <- MCKind
    Segments <- MCSegments
    NoBasis = ""
    Configs <- MCSame
    FirstConfig <- Roomy
    RetryAfters = {0}
    Lease = 1
    SendTimeout = 1
    Interval = 1
    UnknownWait = 1
    RefusedWait = 1
    LineWindow = 3
    KeyLife = 5
    TTL = 20
    Day = 20
    BudgetDays = 2
    MaxAttempts = 3
    PollWait = 1
    PollDeadline = 4
    MaxPolls = 2
    Forever = 99
    MaxClock = 10
    MaxBack = 3
    MaxRestarts = 0
    MaxOps = 0
    MaxRestores = 0
PROPERTIES
    RetryKeyStillKnown
