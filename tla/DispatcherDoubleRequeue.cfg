SPECIFICATION Spec
CONSTANTS
    Msgs = {m1, m2}
    NoBody = NoBody
    Workers = {w1, w2}
    Requests = {r1, r2}
    Providers = {p1}
    MaxId = 2
    DeletesAllowed = FALSE
    Autoincrement = FALSE
    RequeueMayFail = FALSE
    MaxFaults = 0
    SentRetention = 1
    DeadRetention = 0
    ClaimBatch = 1
    FailoverPerTick = 1
    MaxAttempts = 2
    MaxAge = 2
    OverdueCap = 0
    AgeCap = 3
    NoCapacityBackoff = 1
    BaseDelay = 1
    MaxDelay = 1
    JitterPercent = 100
SYMMETRY Symmetry
INVARIANTS
    OneOwner
