SPECIFICATION HoldingSpec
CONSTANTS
    Msgs = {m1, m2}
    NoBody = NoBody
    Workers = {w1, w2}
    Requests = {}
    Providers = {p1}
    MaxId = 2
    DeletesAllowed = FALSE
    Autoincrement = FALSE
    RequeueMayFail = FALSE
    MaxFaults = 0
    SentRetention = 0
    DeadRetention = 0
    ClaimBatch = 1
    FailoverPerTick = 1
    MaxAttempts = 2
    MaxAge = 1
    OverdueCap = 0
    AgeCap = 2
    NoCapacityBackoff = 1
    BaseDelay = 1
    MaxDelay = 1
    JitterPercent = 100
INVARIANTS
    DeadLetterWasTried
