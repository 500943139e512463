SPECIFICATION Spec
CONSTANTS
    Workers = {w1, w2, w3}
    Windows = {"per_second", "per_minute"}
    Span <- MCSpan
    Limit <- MCLimit
    Scopes = {}
    QuotaLimit <- MCQuotaLimit
    Periods <- CalendarPeriods
    Period <- MCPeriod
    Date <- MCDate
    ResetDay = 2
    MaxConcurrent = 2
    Widest = 3
    PruneSlack = 1
    MaxDrift = 1
    MaxRelay = 8
    MaxTime = 8
    MaxGrants = 4
    MaxFaults = 0
SYMMETRY Symmetry
INVARIANTS
    WindowCap
