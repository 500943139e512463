---------------------------- MODULE MessageQueue ----------------------------
(***************************************************************************)
(* What SMTP-Switch promises of a message, without tables, tasks or row    *)
(* ids (README.md, "Queue" and "Routing and failover behavior").  A        *)
(* message is accepted or refused once; an accepted one waits, is in the   *)
(* hands of one task, and ends as sent, which it may only be once some     *)
(* provider took it, or as dead.  Only an operator takes it out of an end  *)
(* state, and only an operator or the retention sweep removes it.          *)
(***************************************************************************)
CONSTANT Msgs

VARIABLES
    status,    \* where each message is
    delivered  \* the messages some provider has taken

vars == <<status, delivered>>

Statuses == {"new", "refused", "waiting", "claimed", "sent", "dead", "gone"}

Init == /\ status = [m \in Msgs |-> "new"]
        /\ delivered = {}

Move(m, from, to) == /\ status[m] \in from
                     /\ status' = [status EXCEPT ![m] = to]
                     /\ UNCHANGED delivered

Accept(m) == Move(m, {"new"}, "waiting")
Refuse(m) == Move(m, {"new"}, "refused")

\* A batch of waiting messages is claimed.
Claim(batch) ==
    /\ \A m \in batch : status[m] = "waiting"
    /\ status' = [m \in Msgs |-> IF m \in batch THEN "claimed" ELSE status[m]]
    /\ UNCHANGED delivered

\* A provider takes a message: one that is claimed, or that was removed while
\* its holder was relaying it.  It never takes one that waits or is settled.
Deliver(m) == /\ status[m] \in {"claimed", "gone"}
              /\ delivered' = delivered \cup {m}
              /\ UNCHANGED status

Send(m) == m \in delivered /\ Move(m, {"claimed"}, "sent")
GiveUp(m) == Move(m, {"claimed"}, "dead")
PutBack(m) == Move(m, {"claimed"}, "waiting")
Requeue(m) == Move(m, {"sent", "dead"}, "waiting")

Remove(some) ==
    /\ \A m \in some : status[m] \notin {"new", "refused"}
    /\ status' = [m \in Msgs |-> IF m \in some THEN "gone" ELSE status[m]]
    /\ UNCHANGED delivered

\* A restart: whatever was claimed waits again, and the clients whose messages
\* were on their way in get no answer.
Recover(lost) ==
    /\ \A m \in lost : status[m] = "new"
    /\ status' = [m \in Msgs |-> IF status[m] = "claimed" THEN "waiting"
                                 ELSE IF m \in lost THEN "refused"
                                 ELSE status[m]]
    /\ UNCHANGED delivered

Next == \/ \E some \in SUBSET Msgs : Claim(some) \/ Remove(some) \/ Recover(some)
        \/ \E m \in Msgs : \/ Accept(m) \/ Refuse(m)
                           \/ Deliver(m) \/ Send(m) \/ GiveUp(m) \/ PutBack(m)
                           \/ Requeue(m)

Spec == Init /\ [][Next]_vars
=============================================================================
