------------------------- MODULE DispatcherHolding -------------------------
(***************************************************************************)
(* Dispatcher with a history of what the table says happened to each       *)
(* message: last_error that it was held for lack of capacity,              *)
(* delivery_attempts that some provider was tried.                         *)
(***************************************************************************)
EXTENDS Dispatcher

VARIABLES
    held,   \* history: messages that were held at least once
    tried   \* history: messages with a recorded attempt

\* In this step a worker puts m back because router.select found nothing.
HeldNow(m) ==
    \E w \in Workers : /\ worker[w].body = m /\ worker[w].verdict = "hold"
                       /\ Reschedule(w)

\* In this step an attempt to deliver m is recorded.
TriedNow(m) ==
    \E w \in Workers : /\ worker[w].body = m /\ worker[w].pc = "route"
                       /\ \/ worker'[w].verdict = "sent"
                          \/ worker'[w].tried \ worker[w].tried # {}

holdingVars == <<vars, held, tried>>
HoldingSpec ==
    /\ Init /\ held = {} /\ tried = {}
    /\ [][/\ Next
          /\ held' = held \cup {m \in Msgs : HeldNow(m)}
          /\ tried' = tried \cup {m \in Msgs : TriedNow(m)}]_holdingVars

\* What the README promises of a message that finds no provider with capacity:
\* while it was only ever held, and never tried, it is not dead-lettered
\* (worker.py, _process and _handle_no_success).
DeadLetterWasTried ==
    \A i \in Ids : rows[i].status = "deadletter" =>
        (rows[i].body \in held => rows[i].body \in tried)
=============================================================================
