SPECIFICATION Spec
CONSTANTS
    Workers = {w1, w2, w3}
    Windows = {"per_second", "per_minute"}
    Span <- MCSpan
    Limit <- MCLimit
    Scopes = {"day", "month"}
    QuotaLimit <- MCQuotaLimit
    Periods <- CalendarPeriods
    Period <- MCPeriod
    Date <- MCDate
    ResetDay = 2
    MaxConcurrent = 2
    Widest = 3
    PruneSlack = 1
    MaxDrift = 1
    MaxRelay = 4
    MaxTime = 7
    MaxGrants = 5
    MaxFaults = 2
SYMMETRY Symmetry
INVARIANTS
    TypeOK
    ConcurrencyCap
    QuotaExact
    WindowCap
    BillingCycleCap
    CheckIsTruthful
PROPERTIES
    ImplementsCapacity
