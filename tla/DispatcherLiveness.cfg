SPECIFICATION FairSpec
CONSTANTS
    Msgs = {m1, m2}
    NoBody = NoBody
    Workers = {w1}
    Requests = {r1}
    Providers = {p1}
    MaxId = 2
    DeletesAllowed = FALSE
    Autoincrement = FALSE
    RequeueMayFail = TRUE
    MaxFaults = 2
    SentRetention = 0
    DeadRetention = 0
    ClaimBatch = 1
    FailoverPerTick = 1
    MaxAttempts = 2
    MaxAge = 2
    OverdueCap = 1
    AgeCap = 3
    NoCapacityBackoff = 1
    BaseDelay = 1
    MaxDelay = 1
    JitterPercent = 100
VIEW CodeState
PROPERTIES
    EveryMessageSettles
