------------------------ MODULE RateLimiterCalendar ------------------------
(***************************************************************************)
(* The rate limiter on a real calendar: Date tells which day a time of its *)
(* clock falls on, days last as many ticks as they like, and the period of *)
(* a time is the key util.py gives its date.                               *)
(***************************************************************************)
EXTENDS RateLimiter, QuotaPeriods

CONSTANTS
    Date,      \* the date of each time
    ResetDay   \* limits.month_reset_day

ASSUME CalendarAssumption ==
    /\ Date \in [Times -> Dates]
    /\ \A t \in 1..MaxTime : Date[t] \in {Date[t - 1], NextDate(Date[t - 1])}
    /\ ResetDay \in ResetDays

KeyOf(s, t) == IF s = "day" THEN DayKey(Date[t]) ELSE MonthKey(Date[t], ResetDay)

CalendarPeriod == [s \in Scopes |-> [t \in Times |-> KeyOf(s, t)]]
CalendarPeriods == {KeyOf(s, t) : s \in Scopes, t \in Times}

ASSUME PeriodAssumption == Period = CalendarPeriod

\* A billing cycle begins with a reset day; the cycles are numbered.
StartsCycle(t) == Date[t].day = ResetDay /\ Date[t] # Date[t - 1]
Cycle == [t \in Times |-> Cardinality({u \in 1..t : StartsCycle(u)})]

\* "month_reset_day to align the monthly quota window with a provider's
\* billing anchor": between two reset days, a turn of the year included, a
\* provider is charged for at most per_month of the reservations that were not
\* rolled back, however long they were held and whichever side of the reset
\* they were given back on.
BillingCycleCap ==
    "month" \in Scopes =>
        \A t \in Times :
            Cardinality({g \in ledger : Cycle[g.at] = Cycle[t]})
              <= QuotaLimit["month"]
=============================================================================
