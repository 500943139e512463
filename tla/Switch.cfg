SPECIFICATION Spec
CONSTANTS
    Workers = {w1, w2}
    p1 = p1
    p2 = p2
    Providers = {p1, p2}
    NoProvider = NoProvider
    Rank <- MCRank
    FailoverPerTick = 2
    Quota <- MCQuota
    MaxConcurrent <- MCMaxConcurrent
    Threshold = 1
    Cooldown = 1
    MaxProbes = 1
    MaxEvents = 3
    MaxFaults = 1
SYMMETRY Symmetry
INVARIANTS
    TypeOK
    ReservationsSettled
    TakenWasCharged
    SelectionJustified
PROPERTIES
    ImplementsBreakers
    ImplementsLimiters
