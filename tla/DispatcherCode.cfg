SPECIFICATION Spec
CONSTANTS
    Msgs = {m1, m2}
    NoBody = NoBody
    Workers = {w1}
    Requests = {r1}
    Providers = {p1}
    MaxId = 2
    DeletesAllowed = TRUE
    Autoincrement = FALSE
    RequeueMayFail = TRUE
    MaxFaults = 1
    SentRetention = 1
    DeadRetention = 0
    ClaimBatch = 1
    FailoverPerTick = 1
    MaxAttempts = 3
    MaxAge = 3
    OverdueCap = 0
    AgeCap = 4
    NoCapacityBackoff = 1
    BaseDelay = 1
    MaxDelay = 1
    JitterPercent = 50
VIEW CodeState
SYMMETRY Symmetry
INVARIANTS
    RetryBudget
    TypeOK
    BodyOutlivesRow
    SendingIsOwned
