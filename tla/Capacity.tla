------------------------------ MODULE Capacity ------------------------------
(***************************************************************************)
(* What a provider's rate limiter promises for one of its quotas, without  *)
(* locks, tables or clocks: at most MaxConcurrent reservations are out at  *)
(* once, each is charged to one period, no period is charged past the      *)
(* Quota, and a reservation ends once, by being kept, given back or lost.  *)
(* (The other limits may make the limiter refuse what this allows.)        *)
(***************************************************************************)
EXTENDS Integers, FiniteSets

CONSTANTS Workers, MaxConcurrent, Periods, NoPeriod, Quota

VARIABLES
    held,   \* the period each worker's reservation is charged to, or NoPeriod
    spent,  \* what each period has been charged
    lost    \* reservations that nobody will end

vars == <<held, spent, lost>>

Init == /\ held = [w \in Workers |-> NoPeriod]
        /\ spent = [k \in Periods |-> 0]
        /\ lost = 0

Out == {w \in Workers : held[w] # NoPeriod}

Reserve(w, k) ==
    /\ held[w] = NoPeriod
    /\ Cardinality(Out) + lost < MaxConcurrent
    /\ spent[k] < Quota
    /\ held' = [held EXCEPT ![w] = k]
    /\ spent' = [spent EXCEPT ![k] = @ + 1]
    /\ UNCHANGED lost

Ends(w) == /\ held[w] # NoPeriod
           /\ held' = [held EXCEPT ![w] = NoPeriod]

Keep(w) == Ends(w) /\ UNCHANGED <<spent, lost>>

GiveBack(w) == /\ Ends(w)
               /\ spent' = [spent EXCEPT ![held[w]] = @ - 1]
               /\ UNCHANGED lost

Lose(w) == /\ Ends(w)
           /\ lost' = lost + 1
           /\ UNCHANGED spent

\* A restart frees every slot and keeps the counts.
Restart == /\ held' = [w \in Workers |-> NoPeriod]
           /\ lost' = 0
           /\ UNCHANGED spent

Next == \/ \E w \in Workers : \/ \E k \in Periods : Reserve(w, k)
                              \/ Keep(w) \/ GiveBack(w) \/ Lose(w)
        \/ Restart

Spec == Init /\ [][Next]_vars
=============================================================================
