SPECIFICATION HistorySpec
CONSTANTS
    Msgs = {m1, m2}
    NoBody = NoBody
    Workers = {w1, w2}
    Requests = {r1}
    Providers = {p1}
    MaxId = 2
    DeletesAllowed = TRUE
    Autoincrement = TRUE
    RequeueMayFail = FALSE
    MaxFaults = 1
    SentRetention = 1
    DeadRetention = 0
    ClaimBatch = 1
    FailoverPerTick = 1
    MaxAttempts = 1
    MaxAge = 0
    OverdueCap = 0
    AgeCap = 2
    NoCapacityBackoff = 1
    BaseDelay = 1
    MaxDelay = 1
    JitterPercent = 0
SYMMETRY Symmetry
INVARIANTS
    SentMeansDelivered
    AcceptedIsKept
    OneOwner
    SecondDeliveryExplained
PROPERTIES
    TerminalIsFinal
    ImplementsQueue
