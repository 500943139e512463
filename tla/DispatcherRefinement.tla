------------------------ MODULE DispatcherRefinement ------------------------
(***************************************************************************)
(* Dispatcher implements MessageQueue, as long as row ids are not reused   *)
(* (Autoincrement) and requests do not overlap (one Request): the two      *)
(* conditions without which dispatcher_id_reuse and                        *)
(* dispatcher_double_requeue find one message taken for another and one    *)
(* message relayed by two tasks.                                           *)
(***************************************************************************)
EXTENDS Dispatcher

StatusName(s) == IF s = "queued" THEN "waiting"
                 ELSE IF s = "sending" THEN "claimed"
                 ELSE IF s = "deadletter" THEN "dead" ELSE s

\* Where a message is, read off the tables: its row says so, if it has one; an
\* accepted message without a row has been removed.
StatusOf(m) ==
    IF \E i \in Ids : rows[i].body = m
    THEN StatusName(rows[CHOOSE i \in Ids : rows[i].body = m].status)
    ELSE IF stage[m] = "accepted" THEN "gone"
    ELSE IF stage[m] = "refused" THEN "refused" ELSE "new"

QueueStatus == [m \in Msgs |-> StatusOf(m)]

Queue == INSTANCE MessageQueue WITH status <- QueueStatus

\* Every step of ingress, producer, workers, requests, sweep, faults and
\* restarts is a step of the abstract queue or leaves it alone: in particular
\* no message is relayed that waits or is settled, none is marked sent that no
\* provider took, and none changes state through another one's row.
ImplementsQueue == Queue!Spec
=============================================================================
