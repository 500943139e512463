------------------------- MODULE DispatcherHistory -------------------------
(***************************************************************************)
(* Dispatcher with a history variable: the messages a second delivery of   *)
(* which is explained.  The code delivers at least once, so duplicates     *)
(* happen; the history says when they may.                                 *)
(***************************************************************************)
EXTENDS Dispatcher

VARIABLE excused  \* history: messages that may be delivered again

\* In this step a provider took m and its worker was not told so (a timeout, a
\* disconnect, an exception).
Unreported(m) ==
    /\ m \in delivered' \ delivered
    /\ \A w \in Workers : worker'[w].body = m => worker'[w].verdict # "sent"

\* In this step the worker that was told so lost the answer before the row
\* said sent: _mark_sent or a step before it failed, or the process stopped.
Forgotten(m) ==
    \E w \in Workers : /\ worker[w].body = m /\ worker[w].verdict = "sent"
                       /\ worker'[w] # worker[w]
                       /\ faults' > faults

\* In this step an operator asked for it.
Requeued(m) ==
    \E i \in Ids : /\ rows[i].body = m /\ rows[i].status \in Terminal
                   /\ rows'[i].status = "queued"
                   /\ \E r \in Requests : request[r].pc = "requeue"

Excuses == {m \in Msgs : Unreported(m) \/ Forgotten(m) \/ Requeued(m)}

historyVars == <<vars, excused>>
HistorySpec == /\ Init /\ excused = {}
               /\ [][Next /\ excused' = excused \cup Excuses]_historyVars

\* A worker takes a message that some provider already has to a provider again
\* only if an acceptance went unreported, a fault or a stop came between the
\* provider's 2xx and the row's "sent" (worker.py, _process), or an operator
\* requeued it: claims, retries, failover and recovery alone never send a
\* message twice.
SecondDeliveryExplained ==
    \A w \in Workers :
        worker[w].pc \in {"read", "route"} /\ worker[w].body \in delivered
        => worker[w].body \in excused
=============================================================================
