---------------------------- MODULE QuotaPeriods ----------------------------
(***************************************************************************)
(* util.py: the keys of the day and month quota periods.  A key is the     *)
(* tuple of the numbers the string is formatted from, zero-padded to fixed *)
(* widths: two strings are equal when the tuples are.  The calendar itself *)
(* is datetime's.                                                          *)
(***************************************************************************)
EXTENDS Integers

\* ProviderLimits.month_reset_day: 1 to 28.
ResetDays == 1..28

DaysIn(year, month) ==
    IF month = 2 THEN IF year % 4 = 0 /\ (year % 100 # 0 \/ year % 400 = 0)
                      THEN 29 ELSE 28
    ELSE IF month \in {4, 6, 9, 11} THEN 30 ELSE 31

Dates == {d \in [year : Nat, month : 1..12, day : 1..31] :
            d.day <= DaysIn(d.year, d.month)}

NextDate(d) ==
    IF d.day < DaysIn(d.year, d.month) THEN [d EXCEPT !.day = @ + 1]
    ELSE IF d.month < 12 THEN [year |-> d.year, month |-> d.month + 1, day |-> 1]
    ELSE [year |-> d.year + 1, month |-> 1, day |-> 1]

\* Mutant: January's earlier part is labelled with the new year.
MonthKeyMutant(d, resetDay) ==
    IF d.day >= resetDay THEN <<d.year, d.month>>
    ELSE IF d.month > 1 THEN <<d.year, d.month - 1>>
    ELSE <<d.year, 12>>

\* month_period_key
MonthKey(d, resetDay) ==
    IF d.day >= resetDay THEN <<d.year, d.month>>
    ELSE IF d.month > 1 THEN <<d.year, d.month - 1>>
    ELSE <<d.year - 1, 12>>

\* day_period_key
DayKey(d) == <<d.year, d.month, d.day>>
=============================================================================
