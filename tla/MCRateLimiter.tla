--------------------------- MODULE MCRateLimiter ---------------------------
(***************************************************************************)
(* Instances of RateLimiter for TLC: a short and a long sliding window,    *)
(* and days of three ticks from the last of a year, with a reset on the    *)
(* second of January: reservations cross the day, the year and the reset   *)
(* while they are held.                                                    *)
(***************************************************************************)
EXTENDS RateLimiterCalendar, RateLimiterRefinement, TLC

MCSpan == [v \in Windows |-> IF v = "per_second" THEN 2 ELSE 3]
MCLimit == [v \in Windows |-> IF v = "per_second" THEN 2 ELSE 3]
MCQuotaLimit == [s \in Scopes |-> IF s = "day" THEN 2 ELSE 3]

MCFirstDate == [year |-> 2025, month |-> 12, day |-> 31]
MCDate[t \in Times] == IF t < 3 THEN MCFirstDate ELSE NextDate(MCDate[t - 3])

\* CalendarPeriod, evaluated once: @@ makes TLC tabulate its operands.
MCPeriod == [s \in Scopes |-> CalendarPeriod[s] @@ <<>>] @@ <<>>

Symmetry == Permutations(Workers)
=============================================================================
