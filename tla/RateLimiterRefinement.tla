----------------------- MODULE RateLimiterRefinement -----------------------
(***************************************************************************)
(* The rate limiter implements Capacity, for each of its quotas: a         *)
(* reservation is charged to the period of the time noted when it was      *)
(* taken, and to no other.                                                 *)
(***************************************************************************)
EXTENDS RateLimiter

NoPeriod == <<>>

\* A period key is never empty.
ASSUME NoPeriodAssumption == NoPeriod \notin Periods

ChargedTo(s, wk) == IF wk.pc = "holding" THEN Period[s][wk.at] ELSE NoPeriod

Charges(s) == INSTANCE Capacity WITH
    Quota <- QuotaLimit[s], spent <- quota[s], lost <- leaked,
    held <- [w \in Workers |-> ChargedTo(s, worker[w])]

\* What the switch relies on when it takes the limiter for its promise: each
\* step is, for every quota, a step of Capacity or none.  The locked read and
\* the write are one reservation, one that is given back after its period
\* ended leaves the new period alone, and a restart keeps every count.
ImplementsCapacity ==
    /\ \A s \in Scopes : Charges(s)!Init
    /\ [][\A s \in Scopes : UNCHANGED Charges(s)!vars \/ Charges(s)!Next]_vars
=============================================================================
