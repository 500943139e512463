----------------------------- MODULE Dispatcher -----------------------------
(***************************************************************************)
(* The life of a message in SMTP-Switch: the ingress handler that spools   *)
(* and enqueues it (ingress/server.py), the dispatcher that claims, relays *)
(* and settles it (dispatch/worker.py), the dashboard's requeue and delete *)
(* (web/api.py) and the retention sweep.  All of them are tasks of one     *)
(* event loop that meet only in the SQLite tables, so every SQL statement  *)
(* or transaction is one atomic step and any other task may run between    *)
(* two of them.                                                            *)
(*                                                                         *)
(* Abstractions.  A message body is a model value, standing for its spool  *)
(* file (a fresh uuid per message).  Time is relative: age[m] counts ticks *)
(* since received_at and a row's wait counts the ticks until               *)
(* next_attempt_at; of a time that has passed it keeps only what comes     *)
(* before what (see Earlier).  The provider router.select returns is any   *)
(* enabled one not tried yet, or none: limits and breakers are modules of  *)
(* their own.  claimed_at, last_error, delivery_attempts and the wake-up   *)
(* event carry no control and are left out.                                *)
(***************************************************************************)
EXTENDS Integers, Sequences, FiniteSets

CONSTANTS
    Msgs,               \* message bodies (spool files)
    NoBody,             \* the body of a row that does not exist
    Workers,            \* consumer tasks
    Requests,           \* concurrent requests of the dashboard's API
    Providers,          \* configured providers
    MaxId,              \* bound: the largest row id
    AgeCap,             \* bound: ages saturate here, past every deadline
    OverdueCap,         \* bound: how many past next_attempt_at are told apart
    ClaimBatch,         \* dispatch.claim_batch_size
    FailoverPerTick,    \* dispatch.failover_per_tick
    NoCapacityBackoff,  \* dispatch.no_capacity_backoff_seconds
    MaxAttempts,        \* retry.max_attempts
    MaxAge,             \* retry.max_age_hours
    BaseDelay,          \* retry.base_delay_seconds
    MaxDelay,           \* retry.max_delay_seconds
    JitterPercent,      \* retry.jitter_ratio, in percent
    SentRetention,      \* sent_retention_hours, 0 disables
    DeadRetention,      \* deadletter_retention_hours, 0 disables
    DeletesAllowed,     \* may an operator delete rows, may the sweep run
    Autoincrement,      \* FALSE in the code: SQLite reuses the top row id
    RequeueMayFail,     \* may the update in _requeue_now fail
    MaxFaults           \* bound: database faults and restarts

ASSUME ConstantsAssumption ==
    /\ NoBody \notin Msgs
    /\ \A c \in {MaxId, AgeCap, OverdueCap, ClaimBatch, FailoverPerTick,
                 NoCapacityBackoff, MaxAttempts, MaxAge, BaseDelay, MaxDelay,
                 SentRetention, DeadRetention, MaxFaults} : c \in Nat
    /\ JitterPercent \in 0..100
    /\ ClaimBatch > 0 /\ FailoverPerTick > 0 /\ MaxAttempts > 0
    /\ BaseDelay > 0 /\ MaxDelay >= BaseDelay
    /\ AgeCap > MaxAge /\ AgeCap > SentRetention /\ AgeCap > DeadRetention
    /\ DeletesAllowed \in BOOLEAN /\ Autoincrement \in BOOLEAN
    /\ RequeueMayFail \in BOOLEAN

VARIABLES
    rows,       \* the messages table
    lastId,     \* the largest row id ever given
    spool,      \* the spool files on disk
    stage,      \* what handle_DATA has done with each message
    age,        \* ticks since received_at, saturating
    queue,      \* the dispatcher's asyncio.Queue of claimed ids
    producer,   \* the producer task
    worker,     \* the consumer tasks
    request,    \* the API requests
    sweep,      \* the retention sweep
    enabled,    \* providers that are enabled
    faults,     \* database faults and restarts so far
    delivered,  \* ghost: bodies some provider has accepted
    discarded,  \* ghost: bodies an operator or the sweep chose to delete
    stranded    \* ghost: ids whose _requeue_now failed

ingressVars == <<lastId, stage, age>>
dispatchVars == <<queue, producer, worker>>
adminVars == <<request, sweep, enabled, discarded>>
vars == <<rows, spool, ingressVars, dispatchVars, adminVars, faults,
          delivered, stranded>>

-----------------------------------------------------------------------------
(* Types *)

Ids == 1..MaxId
Terminal == {"sent", "deadletter"}

\* The longest a message may be put off: jitter takes a retry past
\* max_delay_seconds, by jitter_ratio of it at most.
Delays == {d \in 0..(2 * MaxDelay) :
             100 * d <= MaxDelay * (100 + JitterPercent)}
Waits == (-OverdueCap..NoCapacityBackoff) \cup Delays

RowType == [body : Msgs, status : {"queued", "sending"} \cup Terminal,
            attempts : Nat, wait : Waits]
AbsentRow == [body |-> NoBody, status |-> "absent", attempts |-> 0, wait |-> 0]

ProducerType == [pc : {"select", "update", "put"}, ids : SUBSET Ids]
SelectingProducer == [pc |-> "select", ids |-> {}]

BusyWorkerType ==
    [pc : {"read", "route", "write", "requeue"}, id : Ids, body : Msgs,
     attempts : Nat, tried : SUBSET Providers, onlyPermanent : BOOLEAN,
     verdict : {"none", "sent", "dead", "hold", "retry"}, delay : Delays]
IdleWorker == [pc |-> "idle", id |-> 0, body |-> NoBody, attempts |-> 0,
               tried |-> {}, onlyPermanent |-> TRUE, verdict |-> "none",
               delay |-> 0]

BusyRequestType == [pc : {"requeue", "delete", "unlink"}, id : Ids,
                    body : Msgs, attempts : Nat]
IdleRequest == [pc |-> "idle", id |-> 0, body |-> NoBody, attempts |-> 0]

SweepType == [pc : {"idle", "delete", "unlink"}, items : SUBSET (Ids \X Msgs)]
IdleSweep == [pc |-> "idle", items |-> {}]

\* Every variable has its type; in particular no row is put off for longer than
\* the hold for lack of capacity or the longest delay backoff_delay may draw,
\* which is the cap and the jitter applied after it (util.py).
TypeOK ==
    /\ rows \in [Ids -> RowType \cup {AbsentRow}]
    /\ lastId \in 0..MaxId
    /\ spool \subseteq Msgs
    /\ stage \in [Msgs -> {"new", "spooled", "accepted", "refused"}]
    /\ age \in [Msgs -> 0..AgeCap]
    /\ queue \in Seq(Ids)
    /\ producer \in ProducerType
    /\ worker \in [Workers -> BusyWorkerType \cup {IdleWorker}]
    /\ request \in [Requests -> BusyRequestType \cup {IdleRequest}]
    /\ sweep \in SweepType
    /\ enabled \subseteq Providers
    /\ faults \in 0..MaxFaults
    /\ delivered \subseteq Msgs
    /\ discarded \subseteq Msgs
    /\ stranded \subseteq Ids

Init ==
    /\ rows = [i \in Ids |-> AbsentRow]
    /\ lastId = 0
    /\ spool = {}
    /\ stage = [m \in Msgs |-> "new"]
    /\ age = [m \in Msgs |-> 0]
    /\ queue = <<>>
    /\ producer = SelectingProducer
    /\ worker = [w \in Workers |-> IdleWorker]
    /\ request = [r \in Requests |-> IdleRequest]
    /\ sweep = IdleSweep
    /\ enabled = Providers
    /\ faults = 0
    /\ delivered = {}
    /\ discarded = {}
    /\ stranded = {}

Exists(i) == rows[i].status # "absent"

\* UPDATE messages SET ... WHERE id = i: no error when no row has that id.
UpdateRow(i, row) ==
    rows' = IF Exists(i) THEN [rows EXCEPT ![i] = row] ELSE rows

-----------------------------------------------------------------------------
(* Ingress: handle_DATA writes the spool file, then inserts the row. *)

HandleDataSpool(m) ==
    /\ stage[m] = "new"
    /\ stage' = [stage EXCEPT ![m] = "spooled"]
    /\ spool' = spool \cup {m}
    /\ UNCHANGED <<rows, lastId, age, dispatchVars, adminVars, faults,
                   delivered, stranded>>

\* The id SQLite gives a new row: one above the largest id in the table, or,
\* with AUTOINCREMENT, one above the largest id ever given.
IsNewId(i) ==
    IF Autoincrement
    THEN i = lastId + 1
    ELSE /\ \A j \in Ids : Exists(j) => j < i
         /\ \A j \in Ids : j = i - 1 => Exists(j)

\* next_attempt_at is the time before the insert: it may have passed by now.
NewRow(m, wait) ==
    [body |-> m, status |-> "queued", attempts |-> 0, wait |-> wait]

HandleDataEnqueue(m) ==
    /\ stage[m] = "spooled"
    /\ \E i \in Ids, wait \in -OverdueCap..0 :
        /\ IsNewId(i)
        /\ age[m] = 0 => wait = 0
        /\ rows' = [rows EXCEPT ![i] = NewRow(m, wait)]
        /\ lastId' = IF i > lastId THEN i ELSE lastId
    /\ stage' = [stage EXCEPT ![m] = "accepted"]
    /\ UNCHANGED <<spool, age, dispatchVars, adminVars, faults, delivered,
                   stranded>>

\* Mutant: the failed insert is answered 250.
StageAfterFailureMutant == "accepted"

\* What handle_DATA answers when the insert fails.
StageAfterFailure == "refused"

\* The insert fails: the spool file goes and the client is answered 451.
HandleDataFail(m) ==
    /\ stage[m] = "spooled"
    /\ stage' = [stage EXCEPT ![m] = StageAfterFailure]
    /\ spool' = spool \ {m}
    /\ UNCHANGED <<rows, lastId, age, dispatchVars, adminVars, faults,
                   delivered, stranded>>

-----------------------------------------------------------------------------
(* The producer task *)

\* Mutant: rows that are being sent are claimed again.
DueMutant == {i \in Ids : rows[i].status \in {"queued", "sending"} /\ rows[i].wait <= 0}

Due == {i \in Ids : rows[i].status = "queued" /\ rows[i].wait <= 0}

\* Mutant: the SELECT has no ORDER BY.
EarliestMutant(S) == TRUE

\* S comes first in the order of next_attempt_at.
Earliest(S) == \A i \in S, j \in Due \ S : rows[i].wait <= rows[j].wait

\* The SELECT of _claim_batch: the earliest due rows, at most ClaimBatch.
ClaimSelect ==
    /\ producer.pc = "select"
    /\ \E S \in SUBSET Due :
        /\ S # {}
        /\ Cardinality(S) <= ClaimBatch
        /\ Cardinality(S) = ClaimBatch \/ S = Due
        /\ Earliest(S)
        /\ producer' = [pc |-> "update", ids |-> S]
    /\ UNCHANGED <<rows, spool, ingressVars, queue, worker, adminVars, faults,
                   delivered, stranded>>

\* Its UPDATE ... WHERE id IN ids, which does not look at the status again.
ClaimUpdate ==
    /\ producer.pc = "update"
    /\ rows' = [i \in Ids |->
                  IF i \in producer.ids /\ Exists(i)
                  THEN [rows[i] EXCEPT !.status = "sending"] ELSE rows[i]]
    /\ producer' = [producer EXCEPT !.pc = "put"]
    /\ UNCHANGED <<spool, ingressVars, queue, worker, adminVars, faults,
                   delivered, stranded>>

\* queue.put of one claimed id; it waits while the queue is full.
PutQueue(i) ==
    /\ producer.pc = "put"
    /\ i \in producer.ids
    /\ Len(queue) < 2 * ClaimBatch
    /\ queue' = Append(queue, i)
    /\ producer' = IF producer.ids = {i} THEN SelectingProducer
                   ELSE [producer EXCEPT !.ids = @ \ {i}]
    /\ UNCHANGED <<rows, spool, ingressVars, worker, adminVars, faults,
                   delivered, stranded>>

-----------------------------------------------------------------------------
(* The consumer tasks *)

Dispatchable(i) == Exists(i) /\ rows[i].status \notin Terminal

Snapshot(i) == [IdleWorker EXCEPT !.pc = "read", !.id = i,
                                  !.body = rows[i].body,
                                  !.attempts = rows[i].attempts]

\* queue.get and the db.get that opens _process.
Take(w) ==
    /\ worker[w].pc = "idle"
    /\ queue # <<>>
    /\ queue' = Tail(queue)
    /\ worker' = [worker EXCEPT ![w] =
                    IF Dispatchable(Head(queue)) THEN Snapshot(Head(queue))
                    ELSE IdleWorker]
    /\ UNCHANGED <<rows, spool, ingressVars, producer, adminVars, faults,
                   delivered, stranded>>

\* Mutant: the age limit is never applied when a message is picked up.
ExpiredMutant(m) == FALSE

Expired(m) == age[m] > MaxAge

\* The worker about to write verdict v (delay d if it is a retry), and the
\* worker whose _process has raised.
Settling(wk, v, d) ==
    [IdleWorker EXCEPT !.pc = "write", !.id = wk.id, !.body = wk.body,
                       !.verdict = v, !.delay = IF v = "retry" THEN d ELSE 0]
Raising(wk) ==
    [IdleWorker EXCEPT !.pc = "requeue", !.id = wk.id, !.body = wk.body]

\* The spool file is read; a missing one or an expired message is dead.
ReadSpool(w) ==
    /\ worker[w].pc = "read"
    /\ worker' = [worker EXCEPT ![w] =
                    IF worker[w].body \notin spool \/ Expired(worker[w].body)
                    THEN Settling(@, "dead", 0)
                    ELSE [@ EXCEPT !.pc = "route"]]
    /\ UNCHANGED <<rows, spool, ingressVars, queue, producer, adminVars,
                   faults, delivered, stranded>>

Outcomes == {"sent", "transient", "connect_error", "permanent", "raise"}

\* What the provider may have done with the message when relay() returns o:
\* a timeout or a disconnect may follow an acceptance.  An exception is never
\* raised for a 2xx by a provider that keeps to SMTP; relay() would take its
\* code at face value and return sent.
MayAccept(o) == IF o = "sent" THEN {TRUE}
                ELSE IF o = "permanent" THEN {FALSE} ELSE BOOLEAN

\* Mutant: a permanent rejection counts as success.
SuccessfulMutant(o) == o \in {"sent", "permanent"}

Successful(o) == o = "sent"

\* The worker after an attempt at p with outcome o has been recorded.
AfterAttempt(wk, p, o) ==
    IF Successful(o) THEN Settling(wk, "sent", 0)
    ELSE [wk EXCEPT !.tried = @ \cup {p},
                    !.onlyPermanent = @ /\ o = "permanent"]

\* One turn of the failover loop: select, relay and record the attempt.  The
\* row may be gone: the foreign key makes _record_attempt raise.
Attempt(w, p, o) ==
    /\ worker[w].pc = "route"
    /\ p \in enabled \ worker[w].tried
    /\ Cardinality(worker[w].tried) < FailoverPerTick
    /\ \E accepted \in MayAccept(o) :
         delivered' = IF accepted THEN delivered \cup {worker[w].body}
                      ELSE delivered
    /\ IF o = "raise" \/ ~Exists(worker[w].id)
       THEN worker' = [worker EXCEPT ![w] = Raising(@)]
       ELSE worker' = [worker EXCEPT ![w] = AfterAttempt(@, p, o)]
    /\ UNCHANGED <<rows, spool, ingressVars, queue, producer, adminVars, faults,
                   stranded>>

Capped(a) == IF BaseDelay * 2^(a - 1) < MaxDelay THEN BaseDelay * 2^(a - 1)
             ELSE MaxDelay

\* Mutant: the spread is added but not subtracted first.
BackoffDelaysMutant(a) ==
    {d \in 0..(3 * Capped(a)) :
        /\ d >= Capped(a)
        /\ 100 * d <= Capped(a) * (100 + 2 * JitterPercent)}

\* The delays backoff_delay may draw: the capped one, jittered both ways.
BackoffDelays(a) ==
    {d \in 0..(2 * Capped(a)) :
        /\ 100 * d >= Capped(a) * (100 - JitterPercent)
        /\ 100 * d <= Capped(a) * (100 + JitterPercent)}

\* Mutant: max_attempts is off by one.
VerdictMutant(wk, d) ==
    IF wk.tried = {} THEN "hold"
    ELSE IF wk.attempts >= MaxAttempts THEN "dead"
    ELSE IF age[wk.body] + d >= MaxAge THEN "dead"
    ELSE "retry"

\* _handle_no_success: what to do with a message nobody accepted.
Verdict(wk, d) ==
    IF wk.tried = {} THEN "hold"
    ELSE IF wk.onlyPermanent /\ enabled \subseteq wk.tried THEN "dead"
    ELSE IF wk.attempts + 1 >= MaxAttempts THEN "dead"
    ELSE IF age[wk.body] + d >= MaxAge THEN "dead"
    ELSE "retry"

\* The loop ends: router.select found no provider (none left, none with
\* headroom, or every breaker open) or failover_per_tick was reached.
GiveUp(w) ==
    /\ worker[w].pc = "route"
    /\ \E d \in BackoffDelays(worker[w].attempts + 1) :
         worker' = [worker EXCEPT
                      ![w] = Settling(worker[w], Verdict(worker[w], d), d)]
    /\ UNCHANGED <<rows, spool, ingressVars, queue, producer, adminVars,
                   faults, delivered, stranded>>

\* Each of the next three is an UPDATE by id alone, after which the worker is
\* done with the message.
MarkSent(w) ==
    /\ worker[w].pc = "write" /\ worker[w].verdict = "sent"
    /\ UpdateRow(worker[w].id,
                 [rows[worker[w].id] EXCEPT !.status = "sent"])
    /\ worker' = [worker EXCEPT ![w] = IdleWorker]
    /\ UNCHANGED <<spool, ingressVars, queue, producer, adminVars, faults,
                   delivered, stranded>>

Deadletter(w) ==
    /\ worker[w].pc = "write" /\ worker[w].verdict = "dead"
    /\ UpdateRow(worker[w].id,
                 [rows[worker[w].id] EXCEPT !.status = "deadletter"])
    /\ worker' = [worker EXCEPT ![w] = IdleWorker]
    /\ UNCHANGED <<spool, ingressVars, queue, producer, adminVars, faults,
                   delivered, stranded>>

Rescheduled(row, wk) ==
    IF wk.verdict = "hold"
    THEN [row EXCEPT !.status = "queued", !.wait = NoCapacityBackoff]
    ELSE [row EXCEPT !.status = "queued", !.wait = wk.delay, !.attempts = @ + 1]

Reschedule(w) ==
    /\ worker[w].pc = "write" /\ worker[w].verdict \in {"hold", "retry"}
    /\ UpdateRow(worker[w].id, Rescheduled(rows[worker[w].id], worker[w]))
    /\ worker' = [worker EXCEPT ![w] = IdleWorker]
    /\ UNCHANGED <<spool, ingressVars, queue, producer, adminVars, faults,
                   delivered, stranded>>

\* A database fault in any step of _process.
Raise(w) ==
    /\ worker[w].pc \in {"read", "route", "write"}
    /\ faults < MaxFaults
    /\ faults' = faults + 1
    /\ worker' = [worker EXCEPT ![w] = Raising(@)]
    /\ UNCHANGED <<rows, spool, ingressVars, queue, producer, adminVars,
                   delivered, stranded>>

\* _requeue_now: the row goes back to queued if it is still sending.
RequeueNow(w) ==
    /\ worker[w].pc = "requeue"
    /\ rows' = IF rows[worker[w].id].status = "sending"
               THEN [rows EXCEPT ![worker[w].id].status = "queued"] ELSE rows
    /\ worker' = [worker EXCEPT ![w] = IdleWorker]
    /\ UNCHANGED <<spool, ingressVars, queue, producer, adminVars, faults,
                   delivered, stranded>>

\* The same with its own database fault, which the code suppresses.
RequeueFails(w) ==
    /\ worker[w].pc = "requeue"
    /\ RequeueMayFail
    /\ faults < MaxFaults
    /\ faults' = faults + 1
    /\ stranded' = stranded \cup {worker[w].id}
    /\ worker' = [worker EXCEPT ![w] = IdleWorker]
    /\ UNCHANGED <<rows, spool, ingressVars, queue, producer, adminVars,
                   delivered>>

-----------------------------------------------------------------------------
(* The dashboard: requeue, delete, enable and disable *)

\* Mutant: requeue without the check that answers 409.
RequeueableMutant(i) == Exists(i)

Requeueable(i) == rows[i].status \in Terminal

RequeueRead(r, i) ==
    /\ request[r].pc = "idle"
    /\ Requeueable(i)
    /\ request' = [request EXCEPT ![r] =
                     [pc |-> "requeue", id |-> i, body |-> rows[i].body,
                      attempts |-> rows[i].attempts]]
    /\ UNCHANGED <<rows, spool, ingressVars, dispatchVars, sweep, enabled,
                   discarded, faults, delivered, stranded>>

\* The flush of the changed columns: attempts is among them only if the row
\* read was not at 0.  A vanished row makes it raise.
RequeueWrite(r) ==
    /\ request[r].pc = "requeue"
    /\ UpdateRow(request[r].id,
                 [rows[request[r].id] EXCEPT
                    !.status = "queued", !.wait = 0,
                    !.attempts = IF request[r].attempts = 0 THEN @ ELSE 0])
    /\ request' = [request EXCEPT ![r] = IdleRequest]
    /\ UNCHANGED <<spool, ingressVars, dispatchVars, sweep, enabled,
                   discarded, faults, delivered, stranded>>

DeleteRead(r, i) ==
    /\ DeletesAllowed
    /\ request[r].pc = "idle"
    /\ Exists(i)
    /\ request' = [request EXCEPT ![r] =
                     [pc |-> "delete", id |-> i, body |-> rows[i].body,
                      attempts |-> 0]]
    /\ discarded' = discarded \cup {rows[i].body}
    /\ UNCHANGED <<rows, spool, ingressVars, dispatchVars, sweep, enabled,
                   faults, delivered, stranded>>

\* DELETE FROM messages WHERE id = ..., whatever row has the id by now.
DeleteWrite(r) ==
    /\ request[r].pc = "delete"
    /\ rows' = [rows EXCEPT ![request[r].id] = AbsentRow]
    /\ request' = [request EXCEPT ![r].pc = "unlink"]
    /\ UNCHANGED <<spool, ingressVars, dispatchVars, sweep, enabled,
                   discarded, faults, delivered, stranded>>

\* Mutant: the spool file may go before the row.
ReadyToUnlinkMutant(r) == request[r].pc \in {"delete", "unlink"}

ReadyToUnlink(r) == request[r].pc = "unlink"

DeleteUnlink(r) ==
    /\ ReadyToUnlink(r)
    /\ spool' = spool \ {request[r].body}
    /\ request' = [request EXCEPT ![r] = IdleRequest]
    /\ UNCHANGED <<rows, ingressVars, dispatchVars, sweep, enabled,
                   discarded, faults, delivered, stranded>>

SetEnabled(p) ==
    /\ enabled' = IF p \in enabled THEN enabled \ {p} ELSE enabled \cup {p}
    /\ UNCHANGED <<rows, spool, ingressVars, dispatchVars, request, sweep,
                   discarded, faults, delivered, stranded>>

-----------------------------------------------------------------------------
(* The retention sweep: one pass per status *)

Retention(s) == IF s = "sent" THEN SentRetention ELSE DeadRetention

Swept(s) ==
    {i \in Ids : rows[i].status = s /\ age[rows[i].body] > Retention(s)}

SweepSelect(s) ==
    /\ DeletesAllowed
    /\ sweep.pc = "idle"
    /\ Retention(s) > 0
    /\ Swept(s) # {}
    /\ sweep' = [pc |-> "delete", items |-> {<<i, rows[i].body>> : i \in Swept(s)}]
    /\ discarded' = discarded \cup {rows[i].body : i \in Swept(s)}
    /\ UNCHANGED <<rows, spool, ingressVars, dispatchVars, request, enabled,
                   faults, delivered, stranded>>

SweptIds == {item[1] : item \in sweep.items}
SweptBodies == {item[2] : item \in sweep.items}

SweepDelete ==
    /\ sweep.pc = "delete"
    /\ rows' = [i \in Ids |-> IF i \in SweptIds THEN AbsentRow ELSE rows[i]]
    /\ sweep' = [sweep EXCEPT !.pc = "unlink"]
    /\ UNCHANGED <<spool, ingressVars, dispatchVars, request, enabled,
                   discarded, faults, delivered, stranded>>

SweepUnlink ==
    /\ sweep.pc = "unlink"
    /\ spool' = spool \ SweptBodies
    /\ sweep' = IdleSweep
    /\ UNCHANGED <<rows, ingressVars, dispatchVars, request, enabled,
                   discarded, faults, delivered, stranded>>

-----------------------------------------------------------------------------
(* Transactions that fail: a database fault rolls back the claim, the request *)
(* or the sweep, whose task gives up and changes nothing.                      *)

ClaimFails ==
    /\ producer.pc = "update"
    /\ faults < MaxFaults
    /\ faults' = faults + 1
    /\ producer' = SelectingProducer
    /\ UNCHANGED <<rows, spool, ingressVars, queue, worker, adminVars,
                   delivered, stranded>>

RequestFails(r) ==
    /\ request[r].pc \in {"requeue", "delete"}
    /\ faults < MaxFaults
    /\ faults' = faults + 1
    /\ request' = [request EXCEPT ![r] = IdleRequest]
    /\ UNCHANGED <<rows, spool, ingressVars, dispatchVars, sweep, enabled,
                   discarded, delivered, stranded>>

SweepFails ==
    /\ sweep.pc = "delete"
    /\ faults < MaxFaults
    /\ faults' = faults + 1
    /\ sweep' = IdleSweep
    /\ UNCHANGED <<rows, spool, ingressVars, dispatchVars, request, enabled,
                   discarded, delivered, stranded>>

-----------------------------------------------------------------------------
(* Restart and time *)

\* Mutants: startup recovers nothing, or every row that is not queued.
OrphanedMutantNone(i) == FALSE
OrphanedMutantAll(i) == rows[i].status \notin {"absent", "queued"}

Orphaned(i) == rows[i].status = "sending"

\* The process stops anywhere and starts again: memory is lost, open SMTP
\* sessions end without an answer and _recover_orphans runs before any task.
Restart ==
    /\ faults < MaxFaults
    /\ faults' = faults + 1
    /\ rows' = [i \in Ids |-> IF Orphaned(i)
                              THEN [rows[i] EXCEPT !.status = "queued"]
                              ELSE rows[i]]
    /\ stage' = [m \in Msgs |-> IF stage[m] = "spooled" THEN "refused"
                                ELSE stage[m]]
    /\ queue' = <<>>
    /\ producer' = SelectingProducer
    /\ worker' = [w \in Workers |-> IdleWorker]
    /\ request' = [r \in Requests |-> IdleRequest]
    /\ sweep' = IdleSweep
    /\ stranded' = {}
    /\ UNCHANGED <<spool, lastId, age, enabled, discarded, delivered>>

\* The past next_attempt_at of the rows that are not settled, and what a tick
\* does to the wait n of one of them.  Time to come counts down.  Times that
\* have passed move on only as far as it takes to keep now, which is 0, later
\* than all of them: up to OverdueCap they are told apart, from there on what
\* becomes due may tie with what was due before.
PastTimes == {rows[i].wait : i \in {j \in Ids :
                 rows[j].status \in {"queued", "sending"} /\ rows[j].wait <= 0}}

Earlier(n) ==
    IF \/ n > 0
       \/ n..0 \subseteq PastTimes /\ ~(-OverdueCap..0 \subseteq PastTimes)
    THEN n - 1 ELSE n

\* The next_attempt_at of a settled row says nothing.
Sooner(row) ==
    [row EXCEPT !.wait =
       IF row.status \in {"queued", "sending"} THEN Earlier(@) ELSE 0]

Tick ==
    /\ age' = [m \in Msgs |->
                 IF stage[m] \in {"spooled", "accepted"} /\ age[m] < AgeCap
                 THEN age[m] + 1 ELSE age[m]]
    /\ rows' = [i \in Ids |-> Sooner(rows[i])]
    /\ UNCHANGED <<spool, lastId, stage, dispatchVars, adminVars, faults,
                   delivered, stranded>>

-----------------------------------------------------------------------------
Ingress == \E m \in Msgs : \/ HandleDataSpool(m)
                           \/ HandleDataEnqueue(m)
                           \/ HandleDataFail(m)

Produce == ClaimSelect \/ ClaimUpdate \/ \E i \in Ids : PutQueue(i)

Consume(w) == \/ Take(w)
              \/ ReadSpool(w)
              \/ \E p \in Providers, o \in Outcomes : Attempt(w, p, o)
              \/ GiveUp(w)
              \/ MarkSent(w)
              \/ Deadletter(w)
              \/ Reschedule(w)
              \/ RequeueNow(w)

Fault(w) == Raise(w) \/ RequeueFails(w)

Operate == \/ \E r \in Requests : \/ \E i \in Ids : RequeueRead(r, i)
                                  \/ RequeueWrite(r)
                                  \/ \E i \in Ids : DeleteRead(r, i)
                                  \/ DeleteWrite(r)
                                  \/ DeleteUnlink(r)
           \/ \E p \in Providers : SetEnabled(p)

Housekeep == (\E s \in Terminal : SweepSelect(s)) \/ SweepDelete \/ SweepUnlink

Rollback == ClaimFails \/ (\E r \in Requests : RequestFails(r)) \/ SweepFails

Next == \/ Ingress
        \/ Produce
        \/ \E w \in Workers : Consume(w) \/ Fault(w)
        \/ Operate
        \/ Housekeep
        \/ Rollback
        \/ Restart
        \/ Tick

Spec == Init /\ [][Next]_vars

\* The event loop runs every task that can run and time passes; operators,
\* clients, faults and restarts come when they please.
Fairness == /\ WF_vars(Produce)
            /\ \A w \in Workers : WF_vars(Consume(w))
            /\ WF_vars(Tick)

FairSpec == Spec /\ Fairness

-----------------------------------------------------------------------------
(* Properties *)

\* The ids some task of the dispatcher is working on.
Owns(w, i) == worker[w].pc # "idle" /\ worker[w].id = i
Queued(i) == \E k \in 1..Len(queue) : queue[k] = i
Claimed(i) == producer.pc = "put" /\ i \in producer.ids
Owned(i) == Claimed(i) \/ Queued(i) \/ \E w \in Workers : Owns(w, i)

\* A spool file outlives the row that names it, whatever deletes, sweeps,
\* failed inserts and restarts do: handle_DATA writes the file before the row,
\* and every deletion removes the row before the file.
BodyOutlivesRow == \A i \in Ids : Exists(i) => rows[i].body \in spool

\* A row in sending always has a task that will move it on (the producer
\* holding it, the queue, or a worker), even with ids reused and messages
\* claimed twice; the one way to strand it until the next restart is a
\* database fault inside _requeue_now, which the code suppresses.
SendingIsOwned ==
    \A i \in Ids : rows[i].status = "sending" => Owned(i) \/ i \in stranded

\* A row says sent only if a provider has accepted the very message it names
\* (by an answer that means so, see MayAccept), although _mark_sent updates by
\* id alone long after the row was read.
SentMeansDelivered ==
    \A i \in Ids : rows[i].status = "sent" => rows[i].body \in delivered

\* A message answered 250 keeps its row until somebody chose to delete that
\* message: no race removes another message's row.
AcceptedIsKept ==
    \A m \in Msgs : stage[m] = "accepted" =>
        m \in discarded \/ \E i \in Ids : Exists(i) /\ rows[i].body = m

\* No two tasks of the dispatcher work on one message at a time (the
\* producer's claim is "race-free"): it is queued at most once, to at most one
\* worker, and not claimed again meanwhile.
OneOwner ==
    \A i \in Ids :
        /\ Cardinality({w \in Workers : Owns(w, i)})
             + Cardinality({k \in 1..Len(queue) : queue[k] = i})
             + (IF Claimed(i) THEN 1 ELSE 0) <= 1
        /\ rows[i].status \in {"queued"} \cup Terminal => ~Owned(i)

\* No message is ever scheduled for more tries than max_attempts allows,
\* although the limit is checked on a snapshot read before the attempts and
\* the counter is bumped in the row after them.  It takes one owner per row:
\* with reused ids and a second worker, a late worker bumps the counter of the
\* message that has got its id, which another worker then bumps again.
RetryBudget == \A i \in Ids : Exists(i) => rows[i].attempts < MaxAttempts

\* A settled message moves on only by an operator's requeue (or goes away):
\* no late worker, claim or restart changes a terminal row.
TerminalIsFinal ==
    [][\A i \in Ids :
         rows[i].status \in Terminal /\ rows'[i].status # rows[i].status
         => \/ rows'[i].status = "absent"
            \/ \E r \in Requests : request[r].pc = "requeue" /\ request[r].id = i]_vars

\* Every accepted message is driven to a terminal state, whatever the providers
\* answer, whether or not they have capacity and however often operators requeue
\* it or others: a message that raises or is requeued again and again does not
\* keep the others from being claimed.  The exception is the row whose
\* _requeue_now failed: it stays in sending until a restart, from which on it is
\* again due to settle.
EveryMessageSettles ==
    \A m \in Msgs : stage[m] = "accepted" ~>
        \E i \in Ids : /\ rows[i].body = m
                       /\ \/ rows[i].status \in Terminal
                          \/ rows[i].status = "sending" /\ i \in stranded
=============================================================================
