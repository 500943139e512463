--------------------------- MODULE OwnershipProofs ---------------------------
(***************************************************************************)
(* Who works on a message.  Once row ids are not reused (with              *)
(* AUTOINCREMENT, or while nobody deletes rows), what a task remembers of  *)
(* a row is about the message it read there, and once requests do not      *)
(* overlap either, a message is in the hands of one task at a time.  The   *)
(* properties the code loses without those two conditions are proved from  *)
(* them here; the runs dispatcher_id_reuse and dispatcher_double_requeue   *)
(* show that neither can be dropped.                                       *)
(*                                                                         *)
(* The steps of Next are first sorted into a few kinds by what they do to  *)
(* rows and tasks; each invariant is then proved kind by kind.             *)
(***************************************************************************)
EXTENDS DurabilityProofs, FiniteSetTheorems

\* No row id is given twice.
UniqueIds == Autoincrement \/ ~DeletesAllowed

\* Requests of the dashboard come one at a time.
OneRequest == \A q, r \in Requests : q = r

-----------------------------------------------------------------------------
(* Kinds of steps *)

\* A row keeps its message, its status and its count.
RowSame(i) == /\ rows'[i].body = rows[i].body
              /\ rows'[i].status = rows[i].status
              /\ rows'[i].attempts = rows[i].attempts

\* Nothing moves but time, files and what gives up.
Calm ==
    /\ \A i \in Ids : RowSame(i)
    /\ UNCHANGED <<lastId, queue, producer, worker, delivered, discarded>>
    /\ \/ UNCHANGED stage
       \/ \E m \in Msgs, s \in {"spooled", "refused"} :
            stage[m] \in {"new", "spooled"} /\ stage' = [stage EXCEPT ![m] = s]
    /\ \A r \in Requests : request'[r] \in {request[r], IdleRequest}
    /\ sweep' \in {sweep, IdleSweep}

\* No message is accepted in such a step.
LEMMA CalmStage ==
    ASSUME TypeOK, Calm, NEW m \in Msgs
    PROVE  stage'[m] = "accepted" <=> stage[m] = "accepted"
  BY DEF TypeOK, Calm

\* A worker goes on with the message it has.
Working(w) ==
    /\ worker[w].pc # "idle"
    /\ \A i \in Ids : RowSame(i)
    /\ UNCHANGED <<lastId, stage, queue, producer, request, sweep, discarded>>
    /\ delivered' \in {delivered, delivered \cup {worker[w].body}}
    /\ \E wk \in BusyWorkerType :
         /\ worker' = [worker EXCEPT ![w] = wk]
         /\ wk.id = worker[w].id /\ wk.body = worker[w].body
         /\ wk.verdict = "sent" => worker[w].verdict = "sent" \/ wk.body \in delivered'
         /\ wk.pc \in {"read", "route"} =>
              worker[w].pc \in {"read", "route"} /\ wk.attempts = worker[w].attempts
         /\ wk.verdict = "retry" =>
              \/ worker[w].verdict = "retry"
              \/ worker[w].pc = "route" /\ worker[w].attempts + 1 < MaxAttempts

\* A worker is done with its message: it has settled the row, put it back, or
\* (a fault in _requeue_now) left it as it is.
Done(w) ==
    /\ worker[w].pc # "idle"
    /\ worker' = [worker EXCEPT ![w] = IdleWorker]
    /\ UNCHANGED <<lastId, stage, queue, producer, request, sweep, discarded, delivered>>
    /\ \A i \in Ids \ {worker[w].id} : RowSame(i)
    /\ \/ RowSame(worker[w].id)
       \/ LET old == rows[worker[w].id]
              new == rows'[worker[w].id]
          IN  /\ old.status # "absent" /\ new.body = old.body
              /\ new.status \in {"queued"} \cup Terminal
              /\ new.status = "sent" => worker[w].verdict = "sent"
              /\ \/ new.attempts = old.attempts
                 \/ worker[w].verdict = "retry" /\ new.attempts = old.attempts + 1

\* An operator's requeue reaches the row.
Requeues(r) ==
    /\ request[r].pc = "requeue"
    /\ request' = [request EXCEPT ![r] = IdleRequest]
    /\ UNCHANGED <<lastId, stage, queue, producer, worker, sweep, discarded, delivered>>
    /\ \A i \in Ids \ {request[r].id} : RowSame(i)
    /\ LET old == rows[request[r].id]
           new == rows'[request[r].id]
       IN  \/ old.status = "absent" /\ RowSame(request[r].id)
           \/ /\ old.status # "absent" /\ new.body = old.body
              /\ new.status = "queued" /\ new.attempts \in {0, old.attempts}

\* Steps that leave no row's message, status or count changed.
LEMMA SameRows == UNCHANGED rows => \A i \in Ids : RowSame(i)
  BY DEF RowSame

\* An UPDATE by id leaves the other rows alone.
LEMMA UpdateOthers ==
    ASSUME TypeOK, NEW i \in Ids, NEW row, UpdateRow(i, row)
    PROVE  /\ \A j \in Ids \ {i} : RowSame(j)
           /\ ~Exists(i) => RowSame(i)
           /\ Exists(i) => rows'[i] = row
  BY DEF TypeOK, UpdateRow, RowSame

\* The producer, the retention sweep and the clock.
LEMMA CalmSteps ==
    ASSUME TypeOK,
           \/ \E m \in Msgs : HandleDataSpool(m) \/ HandleDataFail(m)
           \/ \E p \in Providers : SetEnabled(p)
           \/ \E r \in Requests : DeleteUnlink(r) \/ RequestFails(r)
           \/ SweepUnlink \/ SweepFails \/ Tick \/ UNCHANGED vars
    PROVE  Calm
<1> USE DEF dispatchVars, ingressVars, adminVars
<1>1. ASSUME NEW m \in Msgs, HandleDataSpool(m) \/ HandleDataFail(m) PROVE Calm
  BY <1>1, SameRows
  DEF Calm, TypeOK, HandleDataSpool, HandleDataFail, StageAfterFailure
<1>2. ASSUME NEW p \in Providers, SetEnabled(p) PROVE Calm
  BY <1>2, SameRows DEF Calm, SetEnabled
<1>3. ASSUME NEW r \in Requests, DeleteUnlink(r) \/ RequestFails(r) PROVE Calm
  BY <1>3, SameRows DEF Calm, TypeOK, DeleteUnlink, RequestFails
<1>4. CASE SweepUnlink \/ SweepFails \/ UNCHANGED vars
  BY <1>4, SameRows DEF Calm, SweepUnlink, SweepFails, vars
<1>5. CASE Tick
  <2>1. \A i \in Ids : RowSame(i)
    BY <1>5 DEF Tick, RowSame, TypeOK, Sooner, RowType, AbsentRow
  <2> QED
    BY <1>5, <2>1 DEF Calm, Tick
<1> QED
  BY <1>1, <1>2, <1>3, <1>4, <1>5

\* The steps of _process that keep the message.
LEMMA WorkingSteps ==
    ASSUME TypeOK, NEW w \in Workers,
           \/ ReadSpool(w) \/ GiveUp(w) \/ Raise(w)
           \/ \E p \in Providers, o \in Outcomes : Attempt(w, p, o)
    PROVE  Working(w)
<1> USE DEF dispatchVars, ingressVars, adminVars
<1>0. /\ worker[w].pc # "idle" /\ worker[w] \in BusyWorkerType
      /\ worker[w].id \in Ids /\ worker[w].body \in Msgs /\ worker[w].attempts \in Nat
  <2>1. worker[w].pc # "idle"
    BY DEF ReadSpool, GiveUp, Raise, Attempt
  <2> QED
    BY <2>1, BusyWorker
<1> DEFINE Goes(wk) ==
      /\ worker' = [worker EXCEPT ![w] = wk]
      /\ wk.id = worker[w].id /\ wk.body = worker[w].body
      /\ wk.verdict = "sent" => worker[w].verdict = "sent" \/ wk.body \in delivered'
      /\ wk.pc \in {"read", "route"} =>
           worker[w].pc \in {"read", "route"} /\ wk.attempts = worker[w].attempts
      /\ wk.verdict = "retry" =>
           \/ worker[w].verdict = "retry"
           \/ worker[w].pc = "route" /\ worker[w].attempts + 1 < MaxAttempts
<1>1. CASE ReadSpool(w)
  <2> DEFINE dead == Settling(worker[w], "dead", 0)
             routed == [worker[w] EXCEPT !.pc = "route"]
  <2>1. dead \in BusyWorkerType /\ routed \in BusyWorkerType
    BY <1>0, WaitTypes DEF Settling, IdleWorker, BusyWorkerType
  <2>2. dead.id = worker[w].id /\ dead.body = worker[w].body /\ dead.verdict = "dead"
        /\ dead.pc = "write"
    BY DEF Settling, IdleWorker
  <2>3. routed.id = worker[w].id /\ routed.body = worker[w].body
        /\ routed.verdict = worker[w].verdict /\ routed.attempts = worker[w].attempts
    BY <1>0 DEF BusyWorkerType
  <2>4. worker[w].pc = "read" /\ \/ worker' = [worker EXCEPT ![w] = dead]
                                 \/ worker' = [worker EXCEPT ![w] = routed]
    BY <1>1 DEF ReadSpool
  <2> HIDE DEF dead, routed
  <2>5. Goes(dead) \/ Goes(routed)
    BY <2>2, <2>3, <2>4
  <2> QED
    BY <1>0, <1>1, <2>1, <2>5, SameRows DEF Working, ReadSpool
<1>2. CASE GiveUp(w)
  <2>1. PICK d \in BackoffDelays(worker[w].attempts + 1) :
          worker' = [worker EXCEPT
                       ![w] = Settling(worker[w], Verdict(worker[w], d), d)]
    BY <1>2 DEF GiveUp
  <2> DEFINE wk == Settling(worker[w], Verdict(worker[w], d), d)
  <2>2. d \in Delays /\ Verdict(worker[w], d) \in {"dead", "hold", "retry"}
    <3>1. worker[w].attempts \in Nat
      BY <1>0 DEF BusyWorkerType
    <3> QED
      BY <2>1, <3>1, BackoffBounded DEF Verdict
  <2>3. Verdict(worker[w], d) = "retry" => worker[w].attempts + 1 < MaxAttempts
    BY <1>0, ConstantTypes DEF Verdict
  <2>4. wk \in BusyWorkerType /\ wk.id = worker[w].id /\ wk.body = worker[w].body
        /\ wk.verdict = Verdict(worker[w], d) /\ wk.pc = "write"
    BY <1>0, <2>2, WaitTypes DEF Settling, IdleWorker, BusyWorkerType
  <2> HIDE DEF wk
  <2>5. worker[w].pc = "route"
    BY <1>2 DEF GiveUp
  <2>6. Goes(wk)
    BY <2>1, <2>2, <2>3, <2>4, <2>5 DEF wk
  <2> QED
    BY <1>0, <1>2, <2>4, <2>6, SameRows DEF Working, GiveUp
<1>3. Raising(worker[w]) \in BusyWorkerType /\ Raising(worker[w]).id = worker[w].id
      /\ Raising(worker[w]).body = worker[w].body
      /\ Raising(worker[w]).verdict = "none" /\ Raising(worker[w]).pc = "requeue"
  BY <1>0, WaitTypes DEF Raising, IdleWorker, BusyWorkerType
<1>4. CASE Raise(w)
  <2>1. Goes(Raising(worker[w]))
    BY <1>3, <1>4 DEF Raise
  <2> QED
    BY <1>0, <1>3, <1>4, <2>1, SameRows DEF Working, Raise
<1>5. ASSUME NEW p \in Providers, NEW o \in Outcomes, Attempt(w, p, o)
      PROVE  Working(w)
  <2> DEFINE on == [worker[w] EXCEPT !.tried = @ \cup {p},
                                     !.onlyPermanent = @ /\ o = "permanent"]
             sent == Settling(worker[w], "sent", 0)
  <2>1. delivered' \in {delivered, delivered \cup {worker[w].body}}
        /\ (Successful(o) => worker[w].body \in delivered')
    BY <1>5 DEF Attempt, MayAccept, Successful
  <2>2. on \in BusyWorkerType /\ on.id = worker[w].id /\ on.body = worker[w].body
        /\ on.verdict = worker[w].verdict /\ on.attempts = worker[w].attempts
        /\ on.pc = worker[w].pc
    BY <1>0 DEF BusyWorkerType
  <2>3. sent \in BusyWorkerType /\ sent.id = worker[w].id /\ sent.body = worker[w].body
        /\ sent.verdict = "sent" /\ sent.pc = "write"
    BY <1>0, WaitTypes DEF BusyWorkerType, Settling, IdleWorker
  <2>4. \/ worker' = [worker EXCEPT ![w] = Raising(worker[w])]
        \/ worker' = [worker EXCEPT ![w] = on]
        \/ Successful(o) /\ worker' = [worker EXCEPT ![w] = sent]
    BY <1>5 DEF Attempt, AfterAttempt
  <2>5. worker[w].pc = "route"
    BY <1>5 DEF Attempt
  <2> HIDE DEF on, sent
  <2>6. Goes(Raising(worker[w])) \/ Goes(on) \/ Goes(sent)
    BY <1>3, <2>1, <2>2, <2>3, <2>4, <2>5
  <2>7. \A i \in Ids : RowSame(i)
    BY <1>5, SameRows DEF Attempt
  <2> QED
    BY <1>0, <1>3, <1>5, <2>1, <2>2, <2>3, <2>6, <2>7 DEF Working, Attempt
<1> QED
  BY <1>1, <1>2, <1>4, <1>5

\* The steps after which a worker is done with its message.
LEMMA DoneSteps ==
    ASSUME TypeOK, NEW w \in Workers,
           \/ MarkSent(w) \/ Deadletter(w) \/ Reschedule(w)
           \/ RequeueNow(w) \/ RequeueFails(w)
    PROVE  Done(w)
<1> USE DEF dispatchVars, ingressVars, adminVars
<1> DEFINE i == worker[w].id
<1>1. worker[w].pc # "idle" /\ i \in Ids
  <2>1. worker[w].pc # "idle"
    BY DEF MarkSent, Deadletter, Reschedule, RequeueNow, RequeueFails
  <2> QED
    BY <2>1, BusyWorker
<1>2. /\ worker' = [worker EXCEPT ![w] = IdleWorker]
      /\ UNCHANGED <<lastId, stage, queue, producer, request, sweep, discarded, delivered>>
  BY DEF MarkSent, Deadletter, Reschedule, RequeueNow, RequeueFails
<1>3. Exists(i) => rows[i] \in RowType
  BY <1>1, ExistingRow
<1>4. ASSUME NEW row, UpdateRow(i, row),
             Exists(i) => /\ row.body = rows[i].body
                          /\ row.status \in {"queued"} \cup Terminal
                          /\ row.status = "sent" => worker[w].verdict = "sent"
                          /\ \/ row.attempts = rows[i].attempts
                             \/ /\ worker[w].verdict = "retry"
                                /\ row.attempts = rows[i].attempts + 1
      PROVE  Done(w)
  <2>1. /\ \A j \in Ids \ {i} : RowSame(j)
        /\ ~Exists(i) => RowSame(i)
        /\ Exists(i) => rows'[i] = row
    BY <1>1, <1>4, UpdateOthers
  <2> QED
    BY <1>1, <1>2, <1>4, <2>1 DEF Done, Exists
<1>5. CASE MarkSent(w)
  BY <1>3, <1>4, <1>5 DEF MarkSent, RowType, Terminal
<1>6. CASE Deadletter(w)
  BY <1>3, <1>4, <1>6 DEF Deadletter, RowType, Terminal
<1>7. CASE Reschedule(w)
  <2> DEFINE row == Rescheduled(rows[i], worker[w])
  <2>1. Exists(i) => /\ row.body = rows[i].body /\ row.status = "queued"
                     /\ \/ row.attempts = rows[i].attempts
                        \/ /\ worker[w].verdict = "retry"
                           /\ row.attempts = rows[i].attempts + 1
    BY <1>3, <1>7 DEF Reschedule, Rescheduled, RowType
  <2>2. UpdateRow(i, row)
    BY <1>7 DEF Reschedule
  <2> HIDE DEF row
  <2> QED
    BY <1>4, <2>1, <2>2
<1>8. CASE RequeueNow(w)
  <2>1. CASE rows[i].status = "sending"
    <3>1. Exists(i) /\ rows' = [rows EXCEPT ![i].status = "queued"]
      BY <1>8, <2>1 DEF RequeueNow, Exists
    <3>2. /\ rows'[i].body = rows[i].body /\ rows'[i].status = "queued"
          /\ rows'[i].attempts = rows[i].attempts
          /\ \A j \in Ids \ {i} : RowSame(j)
      BY <1>1, <1>3, <3>1 DEF RowType, TypeOK, RowSame
    <3> QED
      BY <1>1, <1>2, <3>1, <3>2 DEF Done, Exists
  <2>2. CASE rows[i].status # "sending"
    <3>1. \A j \in Ids : RowSame(j)
      BY <1>8, <2>2, SameRows DEF RequeueNow
    <3> QED
      BY <1>1, <1>2, <3>1 DEF Done
  <2> QED
    BY <2>1, <2>2
<1>9. CASE RequeueFails(w)
  BY <1>1, <1>2, <1>9, SameRows DEF Done, RequeueFails
<1> QED
  BY <1>5, <1>6, <1>7, <1>8, <1>9

\* The write of an operator's requeue.
LEMMA RequeueSteps ==
    ASSUME TypeOK, NEW r \in Requests, RequeueWrite(r)
    PROVE  Requeues(r)
<1> DEFINE i == request[r].id
           row == [rows[i] EXCEPT !.status = "queued", !.wait = 0,
                     !.attempts = IF request[r].attempts = 0 THEN @ ELSE 0]
<1>1. i \in Ids /\ request[r].pc = "requeue" /\ UpdateRow(i, row)
      /\ request' = [request EXCEPT ![r] = IdleRequest]
      /\ UNCHANGED <<lastId, stage, queue, producer, worker, sweep, discarded, delivered>>
  BY BusyRequest DEF RequeueWrite, dispatchVars, ingressVars
<1>2. Exists(i) => /\ row.body = rows[i].body /\ row.status = "queued"
                   /\ row.attempts \in {0, rows[i].attempts}
  BY <1>1, ExistingRow DEF RowType
<1> HIDE DEF row
<1>3. /\ \A j \in Ids \ {i} : RowSame(j)
      /\ ~Exists(i) => RowSame(i)
      /\ Exists(i) => rows'[i] = row
  BY <1>1, UpdateOthers
<1> QED
  BY <1>1, <1>2, <1>3 DEF Requeues, Exists

\* Every step is of one of the kinds, or one of the steps that matter most.
LEMMA Kinds ==
    ASSUME TypeOK, [Next]_vars
    PROVE  \/ Calm
           \/ \E w \in Workers : Working(w) \/ Done(w) \/ Take(w)
           \/ \E m \in Msgs : HandleDataEnqueue(m)
           \/ ClaimSelect \/ ClaimUpdate \/ ClaimFails
           \/ \E i \in Ids : PutQueue(i)
           \/ \E r \in Requests : \/ Requeues(r) \/ DeleteWrite(r)
                                   \/ \E i \in Ids : RequeueRead(r, i) \/ DeleteRead(r, i)
           \/ (\E s \in Terminal : SweepSelect(s)) \/ SweepDelete
           \/ Restart
<1>1. CASE Ingress
  BY <1>1, CalmSteps DEF Ingress
<1>2. CASE Produce
  BY <1>2 DEF Produce
<1>3. ASSUME NEW w \in Workers, Consume(w) \/ Fault(w)
      PROVE  Working(w) \/ Done(w) \/ Take(w)
  BY <1>3, WorkingSteps, DoneSteps DEF Consume, Fault
<1>4. CASE Operate
  BY <1>4, CalmSteps, RequeueSteps DEF Operate
<1>5. CASE Housekeep
  BY <1>5, CalmSteps DEF Housekeep
<1>6. CASE Rollback
  BY <1>6, CalmSteps DEF Rollback
<1>7. CASE Tick \/ UNCHANGED vars
  BY <1>7, CalmSteps
<1> QED
  BY <1>1, <1>2, <1>3, <1>4, <1>5, <1>6, <1>7 DEF Next

-----------------------------------------------------------------------------
(* Row ids *)

\* Every id a task remembers has been given, and while nobody deletes rows
\* every id that was given has its row.
IdInv ==
    /\ \A i \in Ids : Exists(i) => i <= lastId
    /\ \A w \in Workers : worker[w].pc # "idle" => worker[w].id <= lastId
    /\ \A r \in Requests : request[r].pc # "idle" => request[r].id <= lastId
    /\ \A i \in Ids, b \in Msgs : <<i, b>> \in sweep.items => i <= lastId
    /\ \A i \in producer.ids : i <= lastId
    /\ \A k \in 1..Len(queue) : queue[k] <= lastId
    /\ ~DeletesAllowed =>
         /\ \A i \in Ids : i <= lastId => Exists(i)
         /\ sweep.pc = "idle"
         /\ \A r \in Requests : request[r].pc \in {"idle", "requeue"}

\* An id that is given is new to everyone.
LEMMA NewIds ==
    ASSUME TypeOK, IdInv, UniqueIds, NEW i \in Ids, IsNewId(i)
    PROVE  i = lastId + 1
<1> USE ConstantTypes DEF Ids
<1>1. lastId \in 0..MaxId /\ i \in 1..MaxId
  BY DEF TypeOK
<1>2. CASE Autoincrement
  BY <1>2 DEF IsNewId
<1>3. CASE ~Autoincrement
  <2>1. \A j \in Ids : j <= lastId <=> Exists(j)
    BY <1>3 DEF UniqueIds, IdInv
  <2>2. /\ \A j \in Ids : Exists(j) => j < i
        /\ \A j \in Ids : j = i - 1 => Exists(j)
    BY <1>3 DEF IsNewId
  <2>3. lastId < i
    BY <1>1, <2>1, <2>2
  <2>4. i - 1 <= lastId
    <3>1. CASE i = 1
      BY <1>1, <3>1
    <3>2. CASE i # 1
      BY <1>1, <2>1, <2>2, <3>2
    <3> QED
      BY <3>1, <3>2
  <2> QED
    BY <1>1, <2>3, <2>4
<1> QED
  BY <1>2, <1>3

\* Steps that give no id and delete no row, after which nobody remembers an id
\* nobody knew.
LEMMA IdsQuiet ==
    ASSUME TypeOK, IdInv, lastId' = lastId,
           \A i \in Ids : Exists(i)' <=> Exists(i),
           \A w \in Workers : worker'[w].pc # "idle" => worker'[w].id <= lastId,
           \A r \in Requests : request'[r].pc # "idle" => request'[r].id <= lastId,
           \A i \in Ids, b \in Msgs : <<i, b>> \in sweep'.items => i <= lastId,
           \A i \in producer'.ids : i <= lastId,
           \A k \in 1..Len(queue') : queue'[k] <= lastId,
           ~DeletesAllowed => /\ sweep'.pc = "idle"
                              /\ \A r \in Requests : request'[r].pc \in {"idle", "requeue"}
    PROVE  IdInv'
  BY DEF IdInv, Exists

\* A queue after a put or a get holds only what it held, and what was put.
LEMMA QueueSteps ==
    ASSUME TypeOK
    PROVE  /\ \A i \in Ids : queue' = Append(queue, i) =>
                /\ Len(queue') = Len(queue) + 1 /\ queue'[Len(queue) + 1] = i
                /\ \A k \in 1..Len(queue) : queue'[k] = queue[k]
           /\ queue # <<>> /\ queue' = Tail(queue) =>
                /\ Len(queue) \in Nat \ {0} /\ Len(queue') = Len(queue) - 1
                /\ Head(queue) = queue[1] /\ Head(queue) \in Ids
                /\ \A k \in 1..Len(queue') : queue'[k] = queue[k + 1]
<1>1. queue \in Seq(Ids)
  BY DEF TypeOK
<1> QED
  BY <1>1

\* Every step keeps IdInv.
LEMMA IdStep ==
    ASSUME TypeOK, IdInv, [Next]_vars
    PROVE  IdInv'
<1>0. /\ \A i \in Ids : RowSame(i) => (Exists(i)' <=> Exists(i))
      /\ IdleWorker.pc = "idle" /\ IdleRequest.pc = "idle"
      /\ IdleSweep.pc = "idle" /\ IdleSweep.items = {} /\ SelectingProducer.ids = {}
  BY DEF RowSame, Exists, IdleWorker, IdleRequest, IdleSweep, SelectingProducer
<1> USE DEF dispatchVars, ingressVars, adminVars
<1>1. CASE Calm
  <2>1. \A i \in Ids : Exists(i)' <=> Exists(i)
    BY <1>0, <1>1 DEF Calm
  <2> QED
    BY <1>0, <1>1, <2>1, IdsQuiet DEF Calm, IdInv
<1>2. ASSUME NEW w \in Workers, Working(w) PROVE IdInv'
  <2>1. \A i \in Ids : Exists(i)' <=> Exists(i)
    BY <1>0, <1>2 DEF Working
  <2>2. \A v \in Workers : worker'[v].pc # "idle" => worker'[v].id <= lastId
    BY <1>2 DEF Working, TypeOK, IdInv
  <2> QED
    BY <1>2, <2>1, <2>2, IdsQuiet DEF Working, IdInv
<1>3. ASSUME NEW w \in Workers, Done(w) PROVE IdInv'
  <2>1. \A i \in Ids : Exists(i)' <=> Exists(i)
    BY <1>0, <1>3 DEF Done, Terminal, Exists, RowSame
  <2>2. \A v \in Workers : worker'[v].pc # "idle" => worker'[v].id <= lastId
    BY <1>0, <1>3 DEF Done, TypeOK, IdInv
  <2> QED
    BY <1>3, <2>1, <2>2, IdsQuiet DEF Done, IdInv
<1>4. ASSUME NEW w \in Workers, Take(w) PROVE IdInv'
  <2>1. /\ rows' = rows /\ Len(queue) \in Nat \ {0} /\ Len(queue') = Len(queue) - 1
        /\ Head(queue) = queue[1]
        /\ \A k \in 1..Len(queue') : queue'[k] = queue[k + 1]
    BY <1>4, QueueSteps DEF Take
  <2>2. \A k \in 1..Len(queue') : queue'[k] <= lastId
    BY <2>1 DEF IdInv
  <2>3. Snapshot(Head(queue)).id = Head(queue)
    BY DEF Snapshot, IdleWorker
  <2>4. Head(queue) <= lastId
    BY <2>1 DEF IdInv
  <2>5. \A v \in Workers : worker'[v].pc # "idle" => worker'[v].id <= lastId
    BY <1>0, <1>4, <2>3, <2>4 DEF Take, TypeOK, IdInv
  <2> QED
    BY <1>4, <2>1, <2>2, <2>5, IdsQuiet DEF Take, IdInv, Exists
<1>5. ASSUME NEW m \in Msgs, HandleDataEnqueue(m) PROVE IdInv'
  <2>1. PICK i \in Ids, wait \in -OverdueCap..0 :
            /\ IsNewId(i)
            /\ rows' = [rows EXCEPT ![i] = NewRow(m, wait)]
            /\ lastId' = IF i > lastId THEN i ELSE lastId
    BY <1>5 DEF HandleDataEnqueue
  <2>2. /\ lastId \in Nat /\ lastId' \in Nat /\ i \in Nat
        /\ lastId <= lastId' /\ i <= lastId'
    BY <2>1, ConstantTypes DEF TypeOK, Ids
  <2>3. /\ Exists(i)' /\ \A j \in Ids \ {i} : Exists(j)' <=> Exists(j)
    BY <2>1 DEF TypeOK, NewRow, Exists
  <2>4. /\ \A j \in Ids : Exists(j) => j <= lastId
        /\ \A j \in Ids : j \in Nat
    BY ConstantTypes DEF IdInv, Ids
  <2>5. \A j \in Ids : Exists(j)' => j <= lastId'
    BY <2>2, <2>3, <2>4
  <2>6. ~DeletesAllowed => \A j \in Ids : j <= lastId' => Exists(j)'
    <3> SUFFICES ASSUME ~DeletesAllowed, NEW j \in Ids, j <= lastId', j # i
                 PROVE  Exists(j)
      BY <2>3
    <3>1. i = lastId + 1
      BY <2>1, NewIds DEF UniqueIds
    <3>2. j <= lastId
      BY <2>1, <2>2, <2>4, <3>1
    <3> QED
      BY <3>2 DEF IdInv
  <2>7. \A j \in Nat : j <= lastId => j <= lastId'
    BY <2>2
  <2>8. /\ \A w \in Workers : worker'[w].pc # "idle" => worker'[w].id <= lastId'
        /\ \A r \in Requests : request'[r].pc # "idle" => request'[r].id <= lastId'
        /\ \A j \in Ids, b \in Msgs : <<j, b>> \in sweep'.items => j <= lastId'
        /\ \A j \in producer'.ids : j <= lastId'
        /\ \A k \in 1..Len(queue') : queue'[k] <= lastId'
    <3>1. \A w \in Workers : worker[w].pc # "idle" => worker[w].id \in Ids
      BY BusyWorker
    <3>2. \A r \in Requests : request[r].pc # "idle" => request[r].id \in Ids
      BY BusyRequest
    <3>3. producer.ids \subseteq Ids /\ \A k \in 1..Len(queue) : queue[k] \in Ids
      BY DEF TypeOK, ProducerType
    <3> QED
      BY <1>5, <2>4, <2>7, <3>1, <3>2, <3>3 DEF HandleDataEnqueue, IdInv
  <2> QED
    BY <1>5, <2>5, <2>6, <2>8 DEF IdInv, HandleDataEnqueue
<1>6. CASE ClaimSelect
  <2>1. \A i \in Due : i <= lastId
    BY DEF Due, IdInv, Exists
  <2>2. \A i \in producer'.ids : i <= lastId
    BY <1>6, <2>1 DEF ClaimSelect
  <2> QED
    BY <1>6, <2>2, IdsQuiet DEF ClaimSelect, IdInv, Exists
<1>7. CASE ClaimUpdate \/ ClaimFails
  <2>1. CASE ClaimUpdate
    <3>1. \A i \in Ids : Exists(i)' <=> Exists(i)
      BY <2>1 DEF ClaimUpdate, Exists, TypeOK, RowType, AbsentRow, Terminal
    <3>2. producer'.ids = producer.ids
      BY <2>1 DEF ClaimUpdate, TypeOK, ProducerType
    <3> QED
      BY <2>1, <3>1, <3>2, IdsQuiet DEF ClaimUpdate, IdInv
  <2>2. CASE ClaimFails
    BY <1>0, <2>2, IdsQuiet DEF ClaimFails, IdInv, Exists
  <2> QED
    BY <1>7, <2>1, <2>2
<1>8. ASSUME NEW i \in Ids, PutQueue(i) PROVE IdInv'
  <2>1. /\ Len(queue') = Len(queue) + 1 /\ queue'[Len(queue) + 1] = i
        /\ \A k \in 1..Len(queue) : queue'[k] = queue[k]
        /\ Len(queue) \in Nat
    BY <1>8, QueueSteps DEF PutQueue, TypeOK
  <2>2. i <= lastId
    BY <1>8 DEF PutQueue, IdInv
  <2>3. \A k \in 1..Len(queue') : queue'[k] <= lastId
    BY <2>1, <2>2 DEF IdInv
  <2>4. producer'.ids \subseteq producer.ids
    BY <1>0, <1>8 DEF PutQueue, TypeOK, ProducerType
  <2> QED
    BY <1>8, <2>3, <2>4, IdsQuiet DEF PutQueue, IdInv, Exists
<1>9. ASSUME NEW r \in Requests, Requeues(r) PROVE IdInv'
  <2>1. \A i \in Ids : Exists(i)' <=> Exists(i)
    BY <1>0, <1>9 DEF Requeues, Exists, RowSame
  <2>2. \A q \in Requests : /\ request'[q].pc \in {"idle", request[q].pc}
                            /\ request'[q].pc # "idle" => request'[q].id = request[q].id
    BY <1>0, <1>9 DEF Requeues, TypeOK
  <2> QED
    BY <1>9, <2>1, <2>2, IdsQuiet DEF Requeues, IdInv
<1>10. ASSUME NEW r \in Requests, DeleteWrite(r) PROVE IdInv'
  <2>1. \A i \in Ids : Exists(i)' => Exists(i)
    BY <1>10 DEF DeleteWrite, TypeOK, Exists, AbsentRow
  <2>2. /\ request[r].pc = "delete" /\ request[r] \in BusyRequestType
        /\ request' = [request EXCEPT ![r].pc = "unlink"]
    BY <1>10, BusyRequest DEF DeleteWrite
  <2>3. \A q \in Requests : request'[q].pc # "idle" =>
           request[q].pc # "idle" /\ request'[q].id = request[q].id
    BY <2>2 DEF TypeOK, BusyRequestType
  <2>4. DeletesAllowed
    BY <2>2 DEF IdInv
  <2>5. UNCHANGED <<lastId, worker, queue, producer, sweep>>
    BY <1>10 DEF DeleteWrite
  <2> QED
    BY <2>1, <2>3, <2>4, <2>5 DEF IdInv
<1>11. ASSUME NEW r \in Requests, NEW i \in Ids, RequeueRead(r, i) \/ DeleteRead(r, i)
       PROVE  IdInv'
  <2>1. i <= lastId
    BY <1>11 DEF RequeueRead, DeleteRead, Requeueable, Terminal, Exists, IdInv
  <2>2. \A q \in Requests : /\ request'[q].pc # "idle" => request'[q].id <= lastId
                            /\ request'[q].pc \in {request[q].pc, "requeue"}
                               \/ DeletesAllowed
    BY <1>11, <2>1 DEF RequeueRead, DeleteRead, TypeOK, IdInv
  <2> QED
    BY <1>11, <2>2, IdsQuiet DEF RequeueRead, DeleteRead, IdInv, Exists
<1>12. ASSUME NEW s \in Terminal, SweepSelect(s) PROVE IdInv'
  <2>1. \A i \in Ids, b \in Msgs : <<i, b>> \in sweep'.items => i <= lastId
    BY <1>12 DEF SweepSelect, Swept, Terminal, Exists, IdInv
  <2> QED
    BY <1>12, <2>1, IdsQuiet DEF SweepSelect, IdInv, Exists
<1>13. CASE SweepDelete
  <2>1. \A i \in Ids : Exists(i)' => Exists(i)
    BY <1>13 DEF SweepDelete, Exists, AbsentRow
  <2>2. sweep'.items = sweep.items
    BY <1>13 DEF SweepDelete, TypeOK, SweepType
  <2>3. DeletesAllowed /\ UNCHANGED <<lastId, worker, queue, producer, request>>
    BY <1>13 DEF SweepDelete, IdInv
  <2> QED
    BY <2>1, <2>2, <2>3 DEF IdInv
<1>14. CASE Restart
  <2>1. \A i \in Ids : Exists(i)' <=> Exists(i)
    BY <1>14 DEF Restart, Orphaned, Exists, TypeOK, RowType, AbsentRow
  <2>2. queue' = <<>> => Len(queue') = 0
    OBVIOUS
  <2> QED
    BY <1>0, <1>14, <2>1, <2>2, IdsQuiet DEF Restart
<1> QED
  BY <1>1, <1>2, <1>3, <1>4, <1>5, <1>6, <1>7, <1>8, <1>9, <1>10, <1>11, <1>12,
     <1>13, <1>14, Kinds

-----------------------------------------------------------------------------
(* Names *)

\* What a step does to the messages of rows: a row whose id was given before
\* keeps its message for as long as it is there, and only a message that had
\* no row yet gets one.
LEMMA RowsRemember ==
    ASSUME TypeOK, IdInv, UniqueIds, [Next]_vars
    PROVE  /\ \A i \in Ids : i <= lastId /\ Exists(i)' =>
                Exists(i) /\ rows'[i].body = rows[i].body
           /\ \A i \in Ids : Exists(i)' /\ ~(i <= lastId) =>
                stage[rows'[i].body] = "spooled"
           /\ \A m \in Msgs : stage[m] = "accepted" => stage'[m] = "accepted"
<1> USE DEF dispatchVars, ingressVars, adminVars
<1> DEFINE Keeps == \A i \in Ids : Exists(i)' => Exists(i) /\ rows'[i].body = rows[i].body
<1>0. ASSUME Keeps, \A m \in Msgs : stage[m] = "accepted" => stage'[m] = "accepted"
      PROVE  /\ \A i \in Ids : i <= lastId /\ Exists(i)' =>
                  Exists(i) /\ rows'[i].body = rows[i].body
             /\ \A i \in Ids : Exists(i)' /\ ~(i <= lastId) =>
                  stage[rows'[i].body] = "spooled"
             /\ \A m \in Msgs : stage[m] = "accepted" => stage'[m] = "accepted"
  BY <1>0 DEF IdInv
<1>1. CASE Calm
  <2>1. Keeps
    BY <1>1 DEF Calm, RowSame, Exists
  <2> QED
    BY <1>0, <1>1, <2>1, CalmStage
<1>2. ASSUME NEW w \in Workers, Working(w) \/ Done(w) \/ Take(w)
      PROVE  Keeps /\ UNCHANGED stage
  <2>1. CASE Working(w)
    BY <2>1 DEF Working, RowSame, Exists
  <2>2. CASE Done(w)
    BY <2>2 DEF Done, RowSame, Exists
  <2>3. CASE Take(w)
    BY <2>3 DEF Take, Exists
  <2> QED
    BY <1>2, <2>1, <2>2, <2>3
<1>3. CASE ClaimSelect \/ ClaimUpdate \/ ClaimFails \/ \E i \in Ids : PutQueue(i)
  <2>1. CASE ClaimUpdate
    <3>1. Keeps
      BY <2>1 DEF ClaimUpdate, Exists, TypeOK, RowType, AbsentRow
    <3> QED
      BY <1>0, <2>1, <3>1 DEF ClaimUpdate
  <2>2. CASE UNCHANGED <<rows, stage>>
    <3>1. Keeps
      BY <2>2 DEF Exists
    <3> QED
      BY <1>0, <2>2, <3>1
  <2> QED
    BY <1>3, <2>1, <2>2 DEF ClaimSelect, ClaimFails, PutQueue
<1>4. ASSUME NEW r \in Requests, \/ Requeues(r) \/ DeleteWrite(r)
                                 \/ \E i \in Ids : RequeueRead(r, i) \/ DeleteRead(r, i)
      PROVE  Keeps /\ UNCHANGED stage
  <2>1. CASE Requeues(r)
    BY <2>1 DEF Requeues, RowSame, Exists
  <2>2. CASE DeleteWrite(r)
    BY <2>2 DEF DeleteWrite, TypeOK, Exists, AbsentRow
  <2>3. CASE UNCHANGED <<rows, stage>>
    BY <2>3 DEF Exists
  <2> QED
    BY <1>4, <2>1, <2>2, <2>3 DEF RequeueRead, DeleteRead
<1>5. CASE (\E s \in Terminal : SweepSelect(s)) \/ SweepDelete
  <2>1. Keeps /\ UNCHANGED stage
    BY <1>5 DEF SweepSelect, SweepDelete, Exists, AbsentRow
  <2> QED
    BY <1>0, <2>1
<1>6. CASE Restart
  <2>1. Keeps
    BY <1>6 DEF Restart, Orphaned, Exists, TypeOK, RowType, AbsentRow
  <2> QED
    BY <1>0, <1>6, <2>1 DEF Restart
<1>7. ASSUME NEW m \in Msgs, HandleDataEnqueue(m)
      PROVE  /\ \A i \in Ids : i <= lastId /\ Exists(i)' =>
                  Exists(i) /\ rows'[i].body = rows[i].body
             /\ \A i \in Ids : Exists(i)' /\ ~(i <= lastId) =>
                  stage[rows'[i].body] = "spooled"
             /\ \A n \in Msgs : stage[n] = "accepted" => stage'[n] = "accepted"
  <2>1. PICK i \in Ids, wait \in -OverdueCap..0 :
          IsNewId(i) /\ rows' = [rows EXCEPT ![i] = NewRow(m, wait)]
    BY <1>7 DEF HandleDataEnqueue
  <2>2. i = lastId + 1 /\ lastId \in Nat
    BY <2>1, NewIds, ConstantTypes DEF TypeOK
  <2>3. rows'[i].body = m /\ \A j \in Ids \ {i} : rows'[j] = rows[j]
    BY <2>1 DEF TypeOK, NewRow
  <2>4. stage[m] = "spooled" /\ stage' = [stage EXCEPT ![m] = "accepted"]
    BY <1>7 DEF HandleDataEnqueue
  <2>5. \A j \in Ids \ {i} : Exists(j)' => Exists(j) /\ j <= lastId
    BY <2>3 DEF Exists, IdInv
  <2>6. ~(i <= lastId)
    BY <2>2
  <2> QED
    BY <2>3, <2>4, <2>5, <2>6 DEF TypeOK
<1> QED
  BY <1>0, <1>1, <1>2, <1>3, <1>4, <1>5, <1>6, <1>7, Kinds

\* Where what a task remembers comes from: it knew before, or it reads the row.
LEMMA WhoRemembers ==
    ASSUME TypeOK, [Next]_vars
    PROVE  /\ \A w \in Workers : worker'[w].pc # "idle" =>
                \/ /\ worker[w].pc # "idle"
                   /\ worker'[w].id = worker[w].id /\ worker'[w].body = worker[w].body
                \/ /\ worker'[w].id \in Ids /\ Exists(worker'[w].id)
                   /\ worker'[w].body = rows[worker'[w].id].body
           /\ \A r \in Requests : request'[r].pc \in {"requeue", "delete"} =>
                \/ request'[r] = request[r]
                \/ /\ request'[r].id \in Ids /\ Exists(request'[r].id)
                   /\ request'[r].body = rows[request'[r].id].body
           /\ \A i \in Ids, b \in Msgs : <<i, b>> \in sweep'.items /\ sweep'.pc = "delete" =>
                \/ <<i, b>> \in sweep.items /\ sweep.pc = "delete"
                \/ Exists(i) /\ rows[i].body = b
<1> USE DEF dispatchVars, ingressVars, adminVars
<1>0. IdleWorker.pc = "idle" /\ IdleRequest.pc = "idle" /\ IdleSweep.pc = "idle"
  BY DEF IdleWorker, IdleRequest, IdleSweep
<1>1. CASE Calm
  BY <1>0, <1>1 DEF Calm
<1>2. ASSUME NEW w \in Workers, Working(w) \/ Done(w)
      PROVE  /\ UNCHANGED <<request, sweep>>
             /\ \A v \in Workers : worker'[v].pc # "idle" =>
                  /\ worker[v].pc # "idle"
                  /\ worker'[v].id = worker[v].id /\ worker'[v].body = worker[v].body
  <2>1. CASE Working(w)
    BY <2>1 DEF Working, TypeOK
  <2>2. CASE Done(w)
    BY <1>0, <2>2 DEF Done, TypeOK
  <2> QED
    BY <1>2, <2>1, <2>2
<1>3. ASSUME NEW w \in Workers, Take(w)
      PROVE  /\ UNCHANGED <<request, sweep>>
             /\ \A v \in Workers : worker'[v].pc # "idle" =>
                  \/ worker'[v] = worker[v]
                  \/ /\ worker'[v].id \in Ids /\ Exists(worker'[v].id)
                     /\ worker'[v].body = rows[worker'[v].id].body
  <2>1. Head(queue) \in Ids
    BY <1>3, QueueSteps DEF Take
  <2>2. LET s == Snapshot(Head(queue))
        IN  s.id = Head(queue) /\ s.body = rows[Head(queue)].body
    BY DEF Snapshot, IdleWorker
  <2>3. worker' = [worker EXCEPT ![w] =
                     IF Dispatchable(Head(queue)) THEN Snapshot(Head(queue))
                     ELSE IdleWorker]
        /\ UNCHANGED <<request, sweep>>
    BY <1>3 DEF Take
  <2> QED
    BY <1>0, <2>1, <2>2, <2>3 DEF Dispatchable, TypeOK
<1>4. CASE \/ \E m \in Msgs : HandleDataEnqueue(m)
           \/ ClaimSelect \/ ClaimUpdate \/ ClaimFails \/ \E i \in Ids : PutQueue(i)
  BY <1>4 DEF HandleDataEnqueue, ClaimSelect, ClaimUpdate, ClaimFails, PutQueue
<1>5. ASSUME NEW r \in Requests, Requeues(r) \/ DeleteWrite(r)
      PROVE  /\ UNCHANGED <<worker, sweep>>
             /\ \A q \in Requests : request'[q].pc \in {"requeue", "delete"} =>
                  request'[q] = request[q]
  <2>1. CASE Requeues(r)
    BY <1>0, <2>1 DEF Requeues, TypeOK
  <2>2. CASE DeleteWrite(r)
    <3>1. request[r] \in BusyRequestType
      BY <2>2, BusyRequest DEF DeleteWrite
    <3> QED
      BY <2>2, <3>1 DEF DeleteWrite, TypeOK, BusyRequestType
  <2> QED
    BY <1>5, <2>1, <2>2
<1>6. ASSUME NEW r \in Requests, NEW i \in Ids, RequeueRead(r, i) \/ DeleteRead(r, i)
      PROVE  /\ UNCHANGED <<worker, sweep>>
             /\ \A q \in Requests : \/ request'[q] = request[q]
                                    \/ /\ request'[q].id \in Ids /\ Exists(request'[q].id)
                                       /\ request'[q].body = rows[request'[q].id].body
  <2>1. Exists(i)
    BY <1>6 DEF RequeueRead, DeleteRead, Requeueable, Terminal, Exists
  <2> QED
    BY <1>6, <2>1 DEF RequeueRead, DeleteRead, TypeOK
<1>7. CASE (\E s \in Terminal : SweepSelect(s)) \/ SweepDelete
  <2>1. CASE SweepDelete
    BY <2>1 DEF SweepDelete, TypeOK, SweepType
  <2>2. ASSUME NEW s \in Terminal, SweepSelect(s)
        PROVE  /\ UNCHANGED <<worker, request>>
               /\ \A i \in Ids, b \in Msgs : <<i, b>> \in sweep'.items =>
                    Exists(i) /\ rows[i].body = b
    BY <2>2 DEF SweepSelect, Swept, Exists, Terminal
  <2> QED
    BY <1>7, <2>1, <2>2
<1>8. CASE Restart
  BY <1>0, <1>8 DEF Restart
<1> QED
  BY <1>1, <1>2, <1>3, <1>4, <1>5, <1>6, <1>7, <1>8, Kinds

\* What a task remembers of the message behind an id.
NameInv ==
    /\ \A w \in Workers : worker[w].pc # "idle" =>
         /\ OnlyAt(worker[w].body, worker[w].id)
         /\ Exists(worker[w].id) => rows[worker[w].id].body = worker[w].body
    /\ \A r \in Requests : request[r].pc \in {"requeue", "delete"} /\ Exists(request[r].id)
         => rows[request[r].id].body = request[r].body
    /\ \A i \in Ids, b \in Msgs :
         <<i, b>> \in sweep.items /\ sweep.pc = "delete" /\ Exists(i) => rows[i].body = b

\* Every step keeps NameInv.
LEMMA NameStep ==
    ASSUME TypeOK, TypeOK', BodyInv, IdInv, NameInv, UniqueIds, [Next]_vars
    PROVE  NameInv'
<1>1. \A i \in Ids : i <= lastId /\ Exists(i)' => Exists(i) /\ rows'[i].body = rows[i].body
  BY RowsRemember
<1>2. \A b \in Msgs, i \in Ids : OnlyAt(b, i) => OnlyAt(b, i)'
  <2> SUFFICES ASSUME NEW b \in Msgs, NEW i \in Ids, OnlyAt(b, i),
                      NEW j \in Ids, rows'[j].body = b
               PROVE  j = i
    BY RowsRemember DEF OnlyAt
  <2>1. Exists(j)'
    <3>1. rows'[j] \in RowType \cup {AbsentRow} /\ AbsentRow.body \notin Msgs
      BY ConstantsAssumption DEF TypeOK, AbsentRow
    <3>2. rows'[j] \in RowType
      BY <3>1
    <3> QED
      BY <3>2 DEF Exists, RowType, Terminal
  <2>2. j <= lastId
    BY <2>1, RowsRemember DEF OnlyAt
  <2> QED
    BY <1>1, <2>1, <2>2 DEF OnlyAt
<1>3. \A i \in Ids : Exists(i) => /\ i <= lastId /\ rows[i].body \in Msgs
                                  /\ OnlyAt(rows[i].body, i)
  BY RowBodies DEF IdInv, BodyInv, RowsNamed, OnlyAt
<1>4. ASSUME NEW w \in Workers, worker'[w].pc # "idle"
      PROVE  /\ OnlyAt(worker[w].body, worker[w].id)'
             /\ Exists(worker[w].id)' => rows'[worker'[w].id].body = worker'[w].body
  <2>1. CASE /\ worker[w].pc # "idle"
             /\ worker'[w].id = worker[w].id /\ worker'[w].body = worker[w].body
    <3>1. /\ worker[w].id \in Ids /\ worker[w].body \in Msgs /\ worker[w].id <= lastId
          /\ OnlyAt(worker[w].body, worker[w].id)
          /\ Exists(worker[w].id) => rows[worker[w].id].body = worker[w].body
      BY <2>1, BusyWorker DEF IdInv, NameInv
    <3> QED
      BY <1>1, <1>2, <2>1, <3>1 DEF OnlyAt, Exists
  <2>2. CASE /\ worker'[w].id \in Ids /\ Exists(worker'[w].id)
             /\ worker'[w].body = rows[worker'[w].id].body
    BY <1>1, <1>2, <1>3, <2>2 DEF OnlyAt, Exists
  <2> QED
    BY <1>4, <2>1, <2>2, WhoRemembers
<1>5. ASSUME NEW r \in Requests, request'[r].pc \in {"requeue", "delete"},
             Exists(request[r].id)'
      PROVE  rows'[request'[r].id].body = request'[r].body
  <2>1. CASE request'[r] = request[r]
    <3>1. request[r].id \in Ids /\ request[r].id <= lastId
      BY <1>5, <2>1, BusyRequest DEF IdInv
    <3> QED
      BY <1>1, <1>5, <2>1, <3>1 DEF NameInv, Exists
  <2>2. CASE /\ request'[r].id \in Ids /\ Exists(request'[r].id)
             /\ request'[r].body = rows[request'[r].id].body
    BY <1>1, <1>3, <1>5, <2>2 DEF Exists
  <2> QED
    BY <1>5, <2>1, <2>2, WhoRemembers
<1>6. ASSUME NEW i \in Ids, NEW b \in Msgs, <<i, b>> \in sweep'.items,
             sweep'.pc = "delete", Exists(i)'
      PROVE  rows'[i].body = b
  <2>1. CASE <<i, b>> \in sweep.items /\ sweep.pc = "delete"
    BY <1>1, <1>6, <2>1 DEF NameInv, IdInv
  <2>2. CASE Exists(i) /\ rows[i].body = b
    BY <1>1, <1>3, <1>6, <2>2
  <2> QED
    BY <1>6, <2>1, <2>2, WhoRemembers
<1> QED
  BY <1>4, <1>5, <1>6 DEF NameInv

\* SentMeansDelivered, and that a worker about to write "sent" has delivered.
SentInv ==
    /\ SentMeansDelivered
    /\ \A w \in Workers : worker[w].verdict = "sent" => worker[w].body \in delivered

\* Steps that mark no row sent and give no worker the verdict.
LEMMA SentQuiet ==
    ASSUME SentInv, delivered \subseteq delivered',
           \A i \in Ids : rows'[i].status = "sent" =>
             rows[i].status = "sent" /\ rows'[i].body = rows[i].body,
           \A w \in Workers : worker'[w].verdict = "sent" =>
             \/ worker[w].verdict = "sent" /\ worker'[w].body = worker[w].body
             \/ worker'[w].body \in delivered'
    PROVE  SentInv'
  BY DEF SentInv, SentMeansDelivered

\* Every step keeps SentInv.
LEMMA SentStep ==
    ASSUME TypeOK, IdInv, NameInv, SentInv, [Next]_vars
    PROVE  SentInv'
<1> USE DEF dispatchVars, ingressVars, adminVars
<1>0. IdleWorker.verdict = "none" /\ \A i : Snapshot(i).verdict = "none"
  BY DEF IdleWorker, Snapshot
<1>1. CASE Calm
  BY <1>1, SentQuiet DEF Calm, RowSame
<1>2. ASSUME NEW w \in Workers, Working(w) PROVE SentInv'
  <2>1. \A v \in Workers : worker'[v].verdict = "sent" =>
             \/ worker[v].verdict = "sent" /\ worker'[v].body = worker[v].body
             \/ worker'[v].body \in delivered'
    BY <1>2 DEF Working, TypeOK
  <2> QED
    BY <1>2, <2>1, SentQuiet DEF Working, RowSame
<1>3. ASSUME NEW w \in Workers, Done(w) PROVE SentInv'
  <2>1. /\ worker[w].id \in Ids
        /\ Exists(worker[w].id) => rows[worker[w].id].body = worker[w].body
        /\ worker[w].verdict = "sent" => worker[w].body \in delivered
    BY <1>3, BusyWorker DEF Done, NameInv, SentInv
  <2>2. \A v \in Workers : worker'[v].verdict = "sent" => worker'[v] = worker[v]
    BY <1>0, <1>3 DEF Done, TypeOK
  <2>3. SentMeansDelivered'
    BY <1>3, <2>1 DEF Done, RowSame, Exists, SentInv, SentMeansDelivered
  <2> QED
    BY <1>3, <2>2, <2>3 DEF SentInv, Done
<1>4. ASSUME NEW w \in Workers, Take(w) PROVE SentInv'
  <2>1. \A v \in Workers : worker'[v].verdict = "sent" => worker'[v] = worker[v]
    BY <1>0, <1>4 DEF Take, TypeOK
  <2> QED
    BY <1>4, <2>1, SentQuiet DEF Take
<1>5. ASSUME NEW m \in Msgs, HandleDataEnqueue(m) PROVE SentInv'
  <2>1. PICK i \in Ids, wait \in -OverdueCap..0 :
          rows' = [rows EXCEPT ![i] = NewRow(m, wait)]
    BY <1>5 DEF HandleDataEnqueue
  <2>2. \A j \in Ids : rows'[j].status = "sent" => rows'[j] = rows[j]
    BY <2>1 DEF TypeOK, NewRow
  <2> QED
    BY <1>5, <2>2, SentQuiet DEF HandleDataEnqueue
<1>6. CASE ClaimUpdate
  <2>1. \A i \in Ids : rows'[i].status = "sent" => rows'[i] = rows[i]
    BY <1>6 DEF ClaimUpdate, TypeOK, RowType, AbsentRow
  <2> QED
    BY <1>6, <2>1, SentQuiet DEF ClaimUpdate
<1>7. CASE \/ ClaimSelect \/ ClaimFails \/ \E i \in Ids : PutQueue(i)
           \/ \E r \in Requests, i \in Ids : RequeueRead(r, i) \/ DeleteRead(r, i)
           \/ \E s \in Terminal : SweepSelect(s)
  <2>1. UNCHANGED <<rows, worker, delivered>>
    BY <1>7 DEF ClaimSelect, ClaimFails, PutQueue, RequeueRead, DeleteRead, SweepSelect
  <2> QED
    BY <2>1, SentQuiet
<1>8. ASSUME NEW r \in Requests, Requeues(r) PROVE SentInv'
  <2>1. \A i \in Ids : rows'[i].status = "sent" => RowSame(i)
    BY <1>8 DEF Requeues
  <2> QED
    BY <1>8, <2>1, SentQuiet DEF Requeues, RowSame
<1>9. CASE SweepDelete \/ \E r \in Requests : DeleteWrite(r)
  <2>1. \A i \in Ids : rows'[i].status = "sent" => rows'[i] = rows[i]
    BY <1>9 DEF SweepDelete, DeleteWrite, TypeOK, AbsentRow
  <2> QED
    BY <1>9, <2>1, SentQuiet DEF SweepDelete, DeleteWrite
<1>10. CASE Restart
  <2>1. \A i \in Ids : rows'[i].status = "sent" => rows'[i] = rows[i]
    BY <1>10 DEF Restart, Orphaned, TypeOK, RowType, AbsentRow
  <2> QED
    BY <1>0, <1>10, <2>1, SentQuiet DEF Restart
<1> QED
  BY <1>1, <1>2, <1>3, <1>4, <1>5, <1>6, <1>7, <1>8, <1>9, <1>10, Kinds

\* AcceptedIsKept, and that whoever is about to delete a row chose its message.
KeptInv ==
    /\ AcceptedIsKept
    /\ \A r \in Requests : request[r].pc = "delete" => request[r].body \in discarded
    /\ sweep.pc = "delete" => SweptBodies \subseteq discarded

\* Steps that accept no message and delete none.
LEMMA KeptQuiet ==
    ASSUME KeptInv, discarded \subseteq discarded',
           \A m \in Msgs : stage'[m] = "accepted" => stage[m] = "accepted",
           \A i \in Ids : Exists(i) => Exists(i)' /\ rows'[i].body = rows[i].body,
           \A r \in Requests : request'[r].pc = "delete" => request'[r] = request[r],
           sweep' \in {sweep, IdleSweep}
    PROVE  KeptInv'
<1>1. AcceptedIsKept'
  BY DEF KeptInv, AcceptedIsKept, Exists
<1>2. sweep'.pc = "delete" => SweptBodies' \subseteq discarded'
  BY DEF KeptInv, SweptBodies, IdleSweep
<1> QED
  BY <1>1, <1>2 DEF KeptInv

\* Every step keeps KeptInv.
LEMMA KeptStep ==
    ASSUME TypeOK, IdInv, NameInv, KeptInv, UniqueIds, [Next]_vars
    PROVE  KeptInv'
<1> USE DEF dispatchVars, ingressVars, adminVars
<1>0. IdleRequest.pc = "idle"
  BY DEF IdleRequest
<1> DEFINE Keeps == \A i \in Ids : Exists(i) => Exists(i)' /\ rows'[i].body = rows[i].body
<1>1. CASE Calm
  <2>1. Keeps
    BY <1>1 DEF Calm, RowSame, Exists
  <2> QED
    BY <1>0, <1>1, <2>1, KeptQuiet, CalmStage DEF Calm
<1>2. ASSUME NEW w \in Workers, Working(w) \/ Done(w) \/ Take(w) PROVE KeptInv'
  <2>1. Keeps
    <3>1. CASE Working(w)
      BY <3>1 DEF Working, RowSame, Exists
    <3>2. CASE Done(w)
      BY <3>2 DEF Done, RowSame, Exists, Terminal
    <3>3. CASE Take(w)
      BY <3>3 DEF Take, Exists
    <3> QED
      BY <1>2, <3>1, <3>2, <3>3
  <2>2. UNCHANGED <<stage, request, sweep, discarded>>
    BY <1>2 DEF Working, Done, Take
  <2> QED
    BY <2>1, <2>2, KeptQuiet
<1>3. CASE ClaimUpdate
  <2>1. Keeps
    BY <1>3 DEF ClaimUpdate, Exists, TypeOK, RowType, AbsentRow
  <2> QED
    BY <1>3, <2>1, KeptQuiet DEF ClaimUpdate
<1>4. CASE ClaimSelect \/ ClaimFails \/ \E i \in Ids : PutQueue(i)
  <2>1. UNCHANGED <<rows, stage, request, sweep, discarded>>
    BY <1>4 DEF ClaimSelect, ClaimFails, PutQueue
  <2> QED
    BY <2>1, KeptQuiet DEF Exists
<1>5. ASSUME NEW m \in Msgs, HandleDataEnqueue(m) PROVE KeptInv'
  <2>1. PICK i \in Ids, wait \in -OverdueCap..0 :
          IsNewId(i) /\ rows' = [rows EXCEPT ![i] = NewRow(m, wait)]
    BY <1>5 DEF HandleDataEnqueue
  <2>2. i = lastId + 1 /\ lastId \in Nat
    BY <2>1, NewIds, ConstantTypes DEF TypeOK
  <2>3. ~Exists(i)
    BY <2>2 DEF IdInv
  <2>4. Keeps /\ Exists(i)' /\ rows'[i].body = m
    BY <2>1, <2>3 DEF Exists, TypeOK, NewRow
  <2>5. stage' = [stage EXCEPT ![m] = "accepted"] /\ UNCHANGED <<request, sweep, discarded>>
    BY <1>5 DEF HandleDataEnqueue
  <2>6. AcceptedIsKept'
    BY <2>4, <2>5 DEF KeptInv, AcceptedIsKept, TypeOK, Exists
  <2> QED
    BY <2>5, <2>6 DEF KeptInv, SweptBodies
<1>6. ASSUME NEW r \in Requests, Requeues(r) PROVE KeptInv'
  <2>1. Keeps
    BY <1>6 DEF Requeues, RowSame, Exists
  <2>2. \A q \in Requests : request'[q].pc = "delete" => request'[q] = request[q]
    BY <1>0, <1>6 DEF Requeues, TypeOK
  <2> QED
    BY <1>6, <2>1, <2>2, KeptQuiet DEF Requeues
<1>7. ASSUME NEW r \in Requests, NEW i \in Ids, RequeueRead(r, i) PROVE KeptInv'
  <2>1. \A q \in Requests : request'[q].pc = "delete" => request'[q] = request[q]
    BY <1>7 DEF RequeueRead, TypeOK
  <2> QED
    BY <1>7, <2>1, KeptQuiet DEF RequeueRead, Exists
<1>8. ASSUME NEW r \in Requests, NEW i \in Ids, DeleteRead(r, i) PROVE KeptInv'
  <2>1. \A q \in Requests : request'[q].pc = "delete" => request'[q].body \in discarded'
    BY <1>8 DEF DeleteRead, TypeOK, KeptInv
  <2>2. AcceptedIsKept'
    BY <1>8 DEF DeleteRead, KeptInv, AcceptedIsKept, Exists
  <2> QED
    BY <1>8, <2>1, <2>2 DEF KeptInv, DeleteRead, SweptBodies
<1>9. ASSUME NEW r \in Requests, DeleteWrite(r) PROVE KeptInv'
  <2> DEFINE i == request[r].id
  <2>1. /\ request[r].pc = "delete" /\ i \in Ids /\ request[r] \in BusyRequestType
        /\ rows' = [rows EXCEPT ![i] = AbsentRow]
        /\ request' = [request EXCEPT ![r].pc = "unlink"]
        /\ UNCHANGED <<stage, sweep, discarded>>
    BY <1>9, BusyRequest DEF DeleteWrite
  <2>2. Exists(i) => rows[i].body \in discarded
    BY <2>1 DEF NameInv, KeptInv
  <2>3. \A j \in Ids \ {i} : rows'[j] = rows[j]
    BY <2>1 DEF TypeOK
  <2>4. AcceptedIsKept'
    BY <2>1, <2>2, <2>3 DEF KeptInv, AcceptedIsKept, Exists
  <2>5. \A q \in Requests : request'[q].pc = "delete" => request'[q] = request[q]
    BY <2>1 DEF TypeOK, BusyRequestType
  <2> QED
    BY <2>1, <2>4, <2>5 DEF KeptInv, SweptBodies
<1>10. ASSUME NEW s \in Terminal, SweepSelect(s) PROVE KeptInv'
  <2>1. SweptBodies' \subseteq discarded'
    BY <1>10 DEF SweepSelect, SweptBodies
  <2>2. AcceptedIsKept'
    BY <1>10 DEF SweepSelect, KeptInv, AcceptedIsKept, Exists
  <2> QED
    BY <1>10, <2>1, <2>2 DEF KeptInv, SweepSelect
<1>11. CASE SweepDelete
  <2>1. \A i \in Ids : i \in SweptIds /\ Exists(i) => rows[i].body \in discarded
    <3> SUFFICES ASSUME NEW i \in SweptIds, i \in Ids, Exists(i)
                 PROVE  rows[i].body \in discarded
      OBVIOUS
    <3>1. PICK item \in sweep.items : item[1] = i
      BY DEF SweptIds
    <3>2. item = <<i, item[2]>> /\ item[2] \in Msgs
      BY <3>1 DEF TypeOK, SweepType
    <3>3. rows[i].body = item[2]
      BY <1>11, <3>2 DEF NameInv, SweepDelete
    <3> QED
      BY <1>11, <3>3 DEF KeptInv, SweptBodies, SweepDelete
  <2>2. \A i \in Ids \ SweptIds : rows'[i] = rows[i]
    BY <1>11 DEF SweepDelete
  <2>3. AcceptedIsKept'
    BY <1>11, <2>1, <2>2 DEF SweepDelete, KeptInv, AcceptedIsKept, Exists
  <2>4. sweep'.pc = "unlink"
    BY <1>11 DEF SweepDelete, TypeOK, SweepType
  <2> QED
    BY <1>11, <2>3, <2>4 DEF KeptInv, SweepDelete
<1>12. CASE Restart
  <2>1. Keeps
    BY <1>12 DEF Restart, Orphaned, Exists, TypeOK, RowType, AbsentRow
  <2> QED
    BY <1>0, <1>12, <2>1, KeptQuiet DEF Restart
<1> QED
  BY <1>1, <1>2, <1>3, <1>4, <1>5, <1>6, <1>7, <1>8, <1>9, <1>10, <1>11, <1>12, Kinds

-----------------------------------------------------------------------------
(* What follows from unique ids alone *)

\* The invariants hold at the start and every step keeps them.
LEMMA NamesHold ==
    ASSUME UniqueIds
    PROVE  Spec => [](IdInv /\ NameInv)
<1>1. Init => IdInv /\ NameInv
  BY ConstantTypes
  DEF Init, IdInv, NameInv, Exists, AbsentRow, IdleWorker, IdleRequest, IdleSweep,
      SelectingProducer, Ids
<1>2. TypeOK /\ TypeOK' /\ BodyInv /\ IdInv /\ NameInv /\ [Next]_vars
        => IdInv' /\ NameInv'
  BY IdStep, NameStep
<1> QED
  BY <1>1, <1>2, TypeCorrect, BodyHolds, PTL DEF Spec

\* With unique ids, a row says sent only if a provider has accepted the very
\* message it names: however late _mark_sent writes, and whatever requests,
\* sweeps, faults and restarts come in between.
THEOREM SentTruthful ==
    ASSUME UniqueIds
    PROVE  Spec => []SentMeansDelivered
<1>1. Init => SentInv
  BY DEF Init, SentInv, SentMeansDelivered, AbsentRow, IdleWorker
<1>2. TypeOK /\ IdInv /\ NameInv /\ SentInv /\ [Next]_vars => SentInv'
  BY SentStep
<1>3. SentInv => SentMeansDelivered
  BY DEF SentInv
<1> QED
  BY <1>1, <1>2, <1>3, TypeCorrect, NamesHold, PTL DEF Spec

\* With unique ids, a message answered 250 keeps its row until somebody chose
\* to delete that very message, whatever requests and sweeps do to one another.
THEOREM AcceptedKept ==
    ASSUME UniqueIds
    PROVE  Spec => []AcceptedIsKept
<1>1. Init => KeptInv
  BY DEF Init, KeptInv, AcceptedIsKept, IdleRequest, IdleSweep
<1>2. TypeOK /\ IdInv /\ NameInv /\ KeptInv /\ [Next]_vars => KeptInv'
  BY KeptStep
<1>3. KeptInv => AcceptedIsKept
  BY DEF KeptInv
<1> QED
  BY <1>1, <1>2, <1>3, TypeCorrect, NamesHold, PTL DEF Spec

-----------------------------------------------------------------------------
(* One owner *)

\* What the producer is about to claim is free, and what a request is about to
\* requeue is settled.
WaitInv ==
    /\ producer.pc = "update" => \A i \in producer.ids :
         rows[i].status \in {"queued", "absent"} /\ ~Owned(i)
    /\ \A r \in Requests : request[r].pc = "requeue" =>
         rows[request[r].id].status \in Terminal \cup {"absent"}

\* A row that is not being sent has no owner, and no id has two.
OwnInv ==
    /\ \A i \in Ids : rows[i].status \in {"queued"} \cup Terminal => ~Owned(i)
    /\ \A v, w \in Workers, i \in Ids : Owns(v, i) /\ Owns(w, i) => v = w
    /\ \A j, k \in 1..Len(queue) : queue[j] = queue[k] => j = k
    /\ \A i \in Ids : ~(Claimed(i) /\ Queued(i))
    /\ \A w \in Workers, i \in Ids : Owns(w, i) => ~Claimed(i) /\ ~Queued(i)
    /\ WaitInv

\* Steps after which no task has an id it did not have and no row a status it
\* did not have, unless it is gone.
LEMMA OwnQuiet ==
    ASSUME TypeOK, OwnInv, UNCHANGED <<queue, producer>>,
           \A w \in Workers, i \in Ids : Owns(w, i)' => Owns(w, i),
           \A i \in Ids : rows'[i].status \in {rows[i].status, "absent"},
           \A r \in Requests : request'[r].pc = "requeue" =>
             \/ request[r].pc = "requeue" /\ request'[r].id = request[r].id
             \/ rows'[request'[r].id].status \in Terminal
    PROVE  OwnInv'
<1>1. \A i \in Ids : /\ Queued(i)' <=> Queued(i)
                     /\ Claimed(i)' <=> Claimed(i)
                     /\ Owned(i)' => Owned(i)
  BY DEF Queued, Claimed, Owned
<1>2. producer.ids \subseteq Ids
        /\ \A r \in Requests : request[r].pc = "requeue" => request[r].id \in Ids
  BY BusyRequest DEF TypeOK, ProducerType
<1>3. WaitInv'
  BY <1>1, <1>2 DEF OwnInv, WaitInv
<1> QED
  BY <1>1, <1>3 DEF OwnInv, Terminal

\* The producer's steps keep OwnInv.
LEMMA OwnProduce ==
    ASSUME TypeOK, OwnInv,
           ClaimSelect \/ ClaimUpdate \/ ClaimFails \/ \E i \in Ids : PutQueue(i)
    PROVE  OwnInv'
<1> USE DEF adminVars
<1>0. producer.ids \subseteq Ids
        /\ \A r \in Requests : request[r].pc = "requeue" => request[r].id \in Ids
  BY BusyRequest DEF TypeOK, ProducerType
<1>1. CASE ClaimSelect
  <2>1. PICK S \in SUBSET Due : producer' = [pc |-> "update", ids |-> S]
    BY <1>1 DEF ClaimSelect
  <2>2. UNCHANGED <<rows, queue, worker, request>> /\ producer.pc = "select"
    BY <1>1 DEF ClaimSelect
  <2>3. \A i \in Ids : (Owned(i)' <=> Owned(i)) /\ (Queued(i)' <=> Queued(i))
                       /\ ~Claimed(i)' /\ \A w \in Workers : Owns(w, i)' <=> Owns(w, i)
    BY <2>1, <2>2 DEF Owned, Owns, Queued, Claimed
  <2>4. \A i \in S : i \in Ids /\ rows[i].status = "queued" /\ ~Owned(i)
    BY DEF Due, OwnInv
  <2>5. WaitInv'
    BY <2>1, <2>2, <2>3, <2>4 DEF OwnInv, WaitInv
  <2> QED
    BY <2>2, <2>3, <2>5 DEF OwnInv
<1>2. CASE ClaimUpdate
  <2>1. /\ producer.pc = "update" /\ producer'.pc = "put" /\ producer'.ids = producer.ids
        /\ UNCHANGED <<queue, worker, request>>
    BY <1>2 DEF ClaimUpdate, TypeOK, ProducerType
  <2>2. \A i \in Ids : \/ i \in producer.ids /\ rows'[i].status = "sending"
                       \/ i \in producer.ids /\ ~Exists(i) /\ rows'[i] = rows[i]
                       \/ i \notin producer.ids /\ rows'[i] = rows[i]
    BY <1>2 DEF ClaimUpdate, TypeOK, RowType, Exists, AbsentRow
  <2>3. \A i \in Ids : /\ Queued(i)' <=> Queued(i)
                       /\ \A w \in Workers : Owns(w, i)' <=> Owns(w, i)
                       /\ Claimed(i)' <=> i \in producer.ids
                       /\ Owned(i)' <=> Owned(i) \/ i \in producer.ids
    BY <2>1 DEF Owned, Owns, Queued, Claimed
  <2>4. \A i \in producer.ids : ~Owned(i) /\ rows[i].status \in {"queued", "absent"}
    BY <2>1 DEF OwnInv, WaitInv
  <2>5. \A i \in producer.ids : ~Queued(i) /\ \A w \in Workers : ~Owns(w, i)
    BY <2>4 DEF Owned
  <2>6. \A i \in Ids : rows'[i].status \in {"queued"} \cup Terminal => ~Owned(i)'
    BY <2>2, <2>3, <2>4 DEF OwnInv, Exists, Terminal
  <2>7. WaitInv'
    <3> SUFFICES ASSUME NEW r \in Requests, request[r].pc = "requeue"
                 PROVE  rows'[request[r].id].status \in Terminal \cup {"absent"}
      BY <2>1 DEF WaitInv
    <3>1. rows[request[r].id].status \in Terminal \cup {"absent"} /\ request[r].id \in Ids
      BY <1>0 DEF OwnInv, WaitInv
    <3>2. CASE request[r].id \in producer.ids
      <4>1. ~Exists(request[r].id)
        BY <2>4, <3>1, <3>2 DEF Exists, Terminal
      <4>2. rows'[request[r].id] = rows[request[r].id]
        BY <1>2, <3>1, <4>1 DEF ClaimUpdate
      <4> QED
        BY <3>1, <4>2
    <3>3. CASE request[r].id \notin producer.ids
      BY <2>2, <3>1, <3>3
    <3> QED
      BY <3>2, <3>3
  <2> QED
    BY <2>1, <2>3, <2>5, <2>6, <2>7 DEF OwnInv
<1>3. CASE ClaimFails
  <2>1. /\ UNCHANGED <<rows, queue, worker, request>> /\ producer.pc = "update"
        /\ producer'.pc = "select"
    BY <1>3 DEF ClaimFails, SelectingProducer
  <2>2. \A i \in Ids : (Owned(i)' <=> Owned(i)) /\ (Queued(i)' <=> Queued(i))
                       /\ ~Claimed(i)' /\ \A w \in Workers : Owns(w, i)' <=> Owns(w, i)
    BY <2>1 DEF Owned, Owns, Queued, Claimed
  <2>3. WaitInv'
    BY <2>1 DEF OwnInv, WaitInv
  <2> QED
    BY <2>1, <2>2, <2>3 DEF OwnInv
<1>4. ASSUME NEW i \in Ids, PutQueue(i) PROVE OwnInv'
  <2>1. /\ Len(queue') = Len(queue) + 1 /\ queue'[Len(queue) + 1] = i
        /\ \A k \in 1..Len(queue) : queue'[k] = queue[k]
        /\ Len(queue) \in Nat
    BY <1>4, QueueSteps DEF PutQueue, TypeOK
  <2>2. producer.pc = "put" /\ i \in producer.ids /\ UNCHANGED <<rows, worker, request>>
    BY <1>4 DEF PutQueue
  <2>3. producer'.pc \in {"put", "select"} /\ producer'.ids \subseteq producer.ids \ {i}
    BY <1>4 DEF PutQueue, TypeOK, ProducerType, SelectingProducer
  <2>4. \A j \in Ids : Queued(j)' <=> Queued(j) \/ j = i
    BY <2>1 DEF Queued
  <2>5. Claimed(i)
    BY <2>2 DEF Claimed
  <2>6. ~Queued(i) /\ \A w \in Workers : ~Owns(w, i)
    BY <2>5 DEF OwnInv
  <2>7. \A j \in Ids : /\ Claimed(j)' => Claimed(j) /\ j # i
                       /\ Owned(j)' => Owned(j)
                       /\ \A w \in Workers : Owns(w, j)' <=> Owns(w, j)
    BY <2>2, <2>3, <2>4, <2>5 DEF Claimed, Owned, Owns
  <2>8. \A j, k \in 1..Len(queue') : queue'[j] = queue'[k] => j = k
    <3>1. \A k \in 1..Len(queue) : queue[k] # i
      BY <2>6 DEF Queued
    <3> QED
      BY <2>1, <3>1 DEF OwnInv
  <2>9. WaitInv'
    BY <2>2, <2>3 DEF OwnInv, WaitInv
  <2> QED
    BY <2>2, <2>4, <2>6, <2>7, <2>8, <2>9 DEF OwnInv
<1> QED
  BY <1>1, <1>2, <1>3, <1>4

\* A worker that takes an id from the queue, or is done with its own, leaves
\* every other owner alone.
LEMMA OwnConsume ==
    ASSUME TypeOK, OwnInv, NEW w \in Workers, Working(w) \/ Done(w) \/ Take(w)
    PROVE  OwnInv'
<1> USE DEF adminVars
<1>0. IdleWorker.pc = "idle" /\ IdleWorker.id = 0
  BY DEF IdleWorker
<1>1. CASE Working(w)
  <2>1. \A v \in Workers, i \in Ids : Owns(v, i)' => Owns(v, i)
    BY <1>1 DEF Working, Owns, TypeOK
  <2>2. /\ UNCHANGED <<queue, producer, request>>
        /\ \A i \in Ids : rows'[i].status = rows[i].status
    BY <1>1 DEF Working, RowSame
  <2> QED
    BY <2>1, <2>2, OwnQuiet
<1>2. CASE Done(w)
  <2>0. PICK i \in Ids : i = worker[w].id
    BY <1>2, BusyWorker DEF Done
  <2>1. /\ worker[w].pc # "idle" /\ worker' = [worker EXCEPT ![w] = IdleWorker]
        /\ UNCHANGED <<queue, producer, request>>
        /\ \A j \in Ids \ {i} : rows'[j].status = rows[j].status
        /\ \/ rows'[i].status = rows[i].status
           \/ Exists(i) /\ rows'[i].status \in {"queued"} \cup Terminal
    BY <1>2, <2>0 DEF Done, RowSame, Exists
  <2>2. Owns(w, i) /\ Owned(i)
    BY <2>0, <2>1 DEF Owns, Owned
  <2>3. \A j \in Ids : /\ Queued(j)' <=> Queued(j)
                       /\ Claimed(j)' <=> Claimed(j)
                       /\ \A v \in Workers : Owns(v, j)' <=> Owns(v, j) /\ v # w
    BY <1>0, <2>1 DEF Owns, Queued, Claimed, TypeOK
  <2>4. ~Owned(i)' /\ \A j \in Ids : Owned(j)' => Owned(j)
    BY <2>1, <2>2, <2>3 DEF Owned, OwnInv
  <2>5. rows[i].status \notin {"queued"} \cup Terminal
    BY <2>1, <2>2 DEF OwnInv
  <2>6. producer.pc = "update" => i \notin producer.ids /\ producer.ids \subseteq Ids
    BY <2>2 DEF OwnInv, WaitInv, TypeOK, ProducerType
  <2>7. WaitInv'
    <3>1. ASSUME NEW r \in Requests, request[r].pc = "requeue"
          PROVE  rows'[request[r].id].status \in Terminal \cup {"absent"}
      <4>1. rows[request[r].id].status \in Terminal \cup {"absent"} /\ request[r].id \in Ids
        BY <3>1, BusyRequest DEF OwnInv, WaitInv
      <4> QED
        BY <2>1, <2>5, <4>1 DEF Exists
    <3> QED
      BY <2>1, <2>4, <2>6, <3>1 DEF OwnInv, WaitInv
  <2> QED
    BY <2>1, <2>3, <2>4, <2>7 DEF OwnInv
<1>3. CASE Take(w)
  <2>0. PICK i \in Ids : i = Head(queue)
    BY <1>3, QueueSteps DEF Take
  <2>1. /\ Len(queue) \in Nat \ {0} /\ Len(queue') = Len(queue) - 1
        /\ i = queue[1]
        /\ \A k \in 1..Len(queue') : queue'[k] = queue[k + 1]
        /\ UNCHANGED <<rows, producer, request>>
    BY <1>3, <2>0, QueueSteps DEF Take
  <2>2. \A k \in 1..Len(queue') : k + 1 \in 1..Len(queue) /\ k + 1 # 1
    BY <2>1
  <2>3. Queued(i) /\ ~Queued(i)' /\ \A j \in Ids : Queued(j)' => Queued(j)
    <3>1. Queued(i)
      BY <2>1 DEF Queued
    <3>2. 1 \in 1..Len(queue)
      BY <2>1
    <3>3. \A k \in 1..Len(queue') : queue'[k] # i
      BY <2>1, <2>2, <3>2 DEF OwnInv
    <3> QED
      BY <2>1, <2>2, <3>1, <3>3 DEF Queued
  <2>4. \A j, k \in 1..Len(queue') : queue'[j] = queue'[k] => j = k
    BY <2>1, <2>2 DEF OwnInv
  <2>5. ~Claimed(i) /\ \A v \in Workers : ~Owns(v, i)
    BY <2>1, <2>3 DEF OwnInv
  <2>6. \A v \in Workers, j \in Ids : Owns(v, j)' => Owns(v, j) \/ (v = w /\ j = i)
    <3>1. Snapshot(i).id = i
      BY DEF Snapshot, IdleWorker
    <3>2. worker' = [worker EXCEPT ![w] = IF Dispatchable(i) THEN Snapshot(i) ELSE IdleWorker]
      BY <1>3, <2>0 DEF Take
    <3> QED
      BY <1>0, <3>1, <3>2 DEF Owns, TypeOK
  <2>7. \A v \in Workers : Owns(v, i)' => v = w
    BY <2>1, <2>5, <2>6
  <2>8. \A j \in Ids : (Claimed(j)' <=> Claimed(j)) /\ (Owned(j)' => Owned(j))
    BY <2>1, <2>3, <2>6 DEF Claimed, Owned
  <2>9. WaitInv'
    BY <2>1, <2>8 DEF OwnInv, WaitInv, TypeOK, ProducerType
  <2>10. \A v, u \in Workers, j \in Ids : Owns(v, j)' /\ Owns(u, j)' => v = u
    BY <2>6, <2>7 DEF OwnInv
  <2>11. \A v \in Workers, j \in Ids : Owns(v, j)' => ~Claimed(j)' /\ ~Queued(j)'
    BY <2>3, <2>5, <2>6, <2>8 DEF OwnInv
  <2> QED
    BY <2>1, <2>3, <2>4, <2>8, <2>9, <2>10, <2>11 DEF OwnInv
<1> QED
  BY <1>1, <1>2, <1>3

\* Every step keeps OwnInv.
LEMMA OwnStep ==
    ASSUME TypeOK, IdInv, OwnInv, UniqueIds, OneRequest, [Next]_vars
    PROVE  OwnInv'
<1> USE DEF dispatchVars, adminVars
<1>0. IdleRequest.pc = "idle" /\ IdleWorker.pc = "idle" /\ SelectingProducer.pc = "select"
  BY DEF IdleRequest, IdleWorker, SelectingProducer
<1>1. CASE Calm
  <2>1. \A w \in Workers, i \in Ids : Owns(w, i)' => Owns(w, i)
    BY <1>1 DEF Calm, Owns
  <2> QED
    BY <1>0, <1>1, <2>1, OwnQuiet DEF Calm, RowSame
<1>2. ASSUME NEW m \in Msgs, HandleDataEnqueue(m) PROVE OwnInv'
  <2>1. PICK i \in Ids, wait \in -OverdueCap..0 :
          IsNewId(i) /\ rows' = [rows EXCEPT ![i] = NewRow(m, wait)]
    BY <1>2 DEF HandleDataEnqueue
  <2>2. i = lastId + 1 /\ lastId \in Nat
    BY <2>1, NewIds, ConstantTypes DEF TypeOK
  <2>3. ~(i <= lastId)
    BY <2>2
  <2>4. ~Owned(i) /\ i \notin producer.ids
        /\ \A r \in Requests : request[r].pc = "requeue" => request[r].id \in Ids \ {i}
    BY <2>3, BusyRequest DEF Owned, Owns, Queued, Claimed, IdInv
  <2>5. \A j \in Ids \ {i} : rows'[j] = rows[j]
    BY <2>1 DEF TypeOK
  <2>6. UNCHANGED <<queue, producer, worker, request>>
    BY <1>2 DEF HandleDataEnqueue
  <2>7. \A j \in Ids : /\ (Queued(j)' <=> Queued(j)) /\ (Claimed(j)' <=> Claimed(j))
                       /\ Owned(j)' <=> Owned(j)
                       /\ \A w \in Workers : Owns(w, j)' <=> Owns(w, j)
    BY <2>6 DEF Owned, Owns, Queued, Claimed
  <2>8. WaitInv'
    BY <2>4, <2>5, <2>6, <2>7 DEF OwnInv, WaitInv, TypeOK, ProducerType
  <2>9. \A j \in Ids : rows'[j].status \in {"queued"} \cup Terminal => ~Owned(j)'
    BY <2>4, <2>5, <2>7 DEF OwnInv
  <2> QED
    BY <2>6, <2>8, <2>9 DEF OwnInv, Owns, Queued, Claimed
<1>3. ASSUME NEW r \in Requests, Requeues(r) PROVE OwnInv'
  <2> DEFINE i == request[r].id
  <2>1. /\ request[r].pc = "requeue" /\ i \in Ids
        /\ UNCHANGED <<queue, producer, worker>>
        /\ \A j \in Ids \ {i} : rows'[j].status = rows[j].status
        /\ \/ rows'[i].status = rows[i].status
           \/ Exists(i) /\ rows'[i].status = "queued"
    BY <1>3, BusyRequest DEF Requeues, RowSame, Exists
  <2>2. rows[i].status \in Terminal \cup {"absent"}
    BY <2>1 DEF OwnInv, WaitInv
  <2>3. Exists(i) => ~Owned(i) /\ (producer.pc = "update" => i \notin producer.ids)
    BY <2>1, <2>2 DEF Exists, OwnInv, WaitInv, Terminal
  <2>4. \A j \in Ids : /\ (Queued(j)' <=> Queued(j)) /\ (Claimed(j)' <=> Claimed(j))
                       /\ Owned(j)' <=> Owned(j)
                       /\ \A w \in Workers : Owns(w, j)' <=> Owns(w, j)
    BY <2>1 DEF Owned, Owns, Queued, Claimed
  <2>5. \A q \in Requests : request'[q].pc = "idle"
    BY <1>0, <1>3 DEF Requeues, OneRequest, TypeOK
  <2>6. WaitInv'
    BY <2>1, <2>3, <2>4, <2>5 DEF OwnInv, WaitInv, TypeOK, ProducerType
  <2>7. \A j \in Ids : rows'[j].status \in {"queued"} \cup Terminal => ~Owned(j)'
    BY <2>1, <2>3, <2>4 DEF OwnInv
  <2> QED
    BY <2>1, <2>6, <2>7 DEF OwnInv, Owns, Queued, Claimed
<1>4. ASSUME NEW r \in Requests,
             DeleteWrite(r) \/ \E i \in Ids : RequeueRead(r, i) \/ DeleteRead(r, i)
      PROVE  OwnInv'
  <2>1. UNCHANGED <<queue, producer, worker>>
    BY <1>4 DEF DeleteWrite, RequeueRead, DeleteRead
  <2>2. \A i \in Ids : rows'[i].status \in {rows[i].status, "absent"}
    BY <1>4 DEF DeleteWrite, RequeueRead, DeleteRead, TypeOK, AbsentRow
  <2>3. ASSUME NEW q \in Requests, request'[q].pc = "requeue"
        PROVE  \/ request[q].pc = "requeue" /\ request'[q].id = request[q].id
               \/ rows'[request'[q].id].status \in Terminal
    <3>1. CASE DeleteWrite(r)
      <4>1. request[r] \in BusyRequestType
        BY <3>1, BusyRequest DEF DeleteWrite
      <4> QED
        BY <2>3, <3>1, <4>1 DEF DeleteWrite, TypeOK, BusyRequestType
    <3>2. ASSUME NEW i \in Ids, RequeueRead(r, i)
          PROVE  request'[q] = request[q] \/ rows'[request'[q].id].status \in Terminal
      BY <3>2 DEF RequeueRead, Requeueable, TypeOK
    <3>3. ASSUME NEW i \in Ids, DeleteRead(r, i) PROVE request'[q] = request[q]
      BY <2>3, <3>3 DEF DeleteRead, TypeOK
    <3> QED
      BY <1>4, <2>3, <3>1, <3>2, <3>3
  <2> QED
    BY <2>1, <2>2, <2>3, OwnQuiet DEF Owns
<1>5. CASE (\E s \in Terminal : SweepSelect(s)) \/ SweepDelete
  <2>1. /\ UNCHANGED <<queue, producer, worker, request>>
        /\ \A i \in Ids : rows'[i].status \in {rows[i].status, "absent"}
    BY <1>5 DEF SweepSelect, SweepDelete, AbsentRow
  <2> QED
    BY <2>1, OwnQuiet DEF Owns
<1>6. CASE Restart
  <2>1. /\ queue' = <<>> /\ Len(queue') = 0 /\ producer'.pc = "select"
        /\ \A w \in Workers : worker'[w].pc = "idle"
        /\ \A r \in Requests : request'[r].pc = "idle"
    BY <1>0, <1>6 DEF Restart
  <2>2. \A i \in Ids : ~Owned(i)' /\ ~Queued(i)' /\ ~Claimed(i)'
                       /\ \A w \in Workers : ~Owns(w, i)'
    BY <2>1 DEF Owned, Owns, Queued, Claimed
  <2> QED
    BY <2>1, <2>2 DEF OwnInv, WaitInv
<1> QED
  BY <1>1, <1>2, <1>3, <1>4, <1>5, <1>6, OwnProduce, OwnConsume, Kinds

\* A set with at most one element.
LEMMA AtMostOne ==
    ASSUME NEW S, \A x, y \in S : x = y
    PROVE  Cardinality(S) = IF S = {} THEN 0 ELSE 1
<1>1. CASE S = {}
  BY <1>1, FS_EmptySet
<1>2. CASE S # {}
  <2>1. PICK x : S = {x}
    BY <1>2
  <2> QED
    BY <1>2, <2>1, FS_Singleton
<1> QED
  BY <1>1, <1>2

\* The invariant holds at the start and every step keeps it.
LEMMA OwnHolds ==
    ASSUME UniqueIds, OneRequest
    PROVE  Spec => []OwnInv
<1>1. Init => OwnInv
  BY DEF Init, OwnInv, WaitInv, AbsentRow, IdleWorker, IdleRequest, SelectingProducer,
         Owns, Queued, Claimed, Owned, Terminal
<1>2. TypeOK /\ IdInv /\ OwnInv /\ [Next]_vars => OwnInv'
  BY OwnStep
<1> QED
  BY <1>1, <1>2, TypeCorrect, NamesHold, PTL DEF Spec

\* With unique ids and requests that do not overlap, no two tasks of the
\* dispatcher ever work on one message, whatever its workers do, and a message
\* that waits or is settled has none: the claim is race-free although its
\* UPDATE does not look at the status again.
THEOREM OwnerUnique ==
    ASSUME UniqueIds, OneRequest
    PROVE  Spec => []OneOwner
<1>1. ASSUME OwnInv PROVE OneOwner
  <2> SUFFICES ASSUME NEW i \in Ids
               PROVE  /\ Cardinality({w \in Workers : Owns(w, i)})
                           + Cardinality({k \in 1..Len(queue) : queue[k] = i})
                           + (IF Claimed(i) THEN 1 ELSE 0) <= 1
                      /\ rows[i].status \in {"queued"} \cup Terminal => ~Owned(i)
    BY DEF OneOwner
  <2> DEFINE W == {w \in Workers : Owns(w, i)}
             Q == {k \in 1..Len(queue) : queue[k] = i}
  <2>1. (\A x, y \in W : x = y) /\ (\A x, y \in Q : x = y)
    BY <1>1 DEF OwnInv
  <2>2. /\ W = {} \/ (Q = {} /\ ~Claimed(i))
        /\ Q = {} \/ ~Claimed(i)
    BY <1>1 DEF OwnInv, Queued
  <2> HIDE DEF W, Q
  <2>3. /\ Cardinality(W) = IF W = {} THEN 0 ELSE 1
        /\ Cardinality(Q) = IF Q = {} THEN 0 ELSE 1
    BY <2>1, AtMostOne
  <2>4. Cardinality(W) + Cardinality(Q) + (IF Claimed(i) THEN 1 ELSE 0) <= 1
    BY <2>2, <2>3
  <2> QED
    BY <1>1, <2>4 DEF OwnInv, W, Q
<1> QED
  BY <1>1, OwnHolds, PTL

\* With unique ids and requests that do not overlap, only an operator's requeue
\* takes a message out of sent or deadletter: no late worker, no claim and no
\* recovery after a restart does.
THEOREM TerminalFinal ==
    ASSUME UniqueIds, OneRequest
    PROVE  Spec => TerminalIsFinal
<1> DEFINE Final ==
      \A i \in Ids : rows[i].status \in Terminal /\ rows'[i].status # rows[i].status
        => \/ rows'[i].status = "absent"
           \/ \E r \in Requests : request[r].pc = "requeue" /\ request[r].id = i
<1>1. ASSUME TypeOK, IdInv, OwnInv, [Next]_vars PROVE Final
  <2>1. CASE Calm
    BY <2>1 DEF Calm, RowSame
  <2>2. ASSUME NEW w \in Workers, Working(w) \/ Take(w) PROVE Final
    BY <2>2 DEF Working, Take, RowSame
  <2>3. ASSUME NEW w \in Workers, Done(w) PROVE Final
    <3>1. worker[w].id \in Ids /\ Owns(w, worker[w].id)
      BY <1>1, <2>3, BusyWorker DEF Done, Owns
    <3>2. rows[worker[w].id].status \notin Terminal
      BY <1>1, <3>1 DEF OwnInv, Owned
    <3> QED
      BY <2>3, <3>2 DEF Done, RowSame
  <2>4. ASSUME NEW m \in Msgs, HandleDataEnqueue(m) PROVE Final
    <3>1. PICK i \in Ids, wait \in -OverdueCap..0 :
          IsNewId(i) /\ rows' = [rows EXCEPT ![i] = NewRow(m, wait)]
      BY <2>4 DEF HandleDataEnqueue
    <3>2. i = lastId + 1 /\ lastId \in Nat
      BY <1>1, <3>1, NewIds, ConstantTypes DEF TypeOK
    <3>3. ~Exists(i)
      BY <1>1, <3>2 DEF IdInv
    <3> QED
      BY <1>1, <3>1, <3>3 DEF TypeOK, Exists, Terminal
  <2>5. CASE ClaimUpdate
    <3>1. \A i \in producer.ids : rows[i].status \notin Terminal
      BY <1>1, <2>5 DEF ClaimUpdate, OwnInv, WaitInv, Terminal
    <3> QED
      BY <2>5, <3>1 DEF ClaimUpdate
  <2>6. CASE ClaimSelect \/ ClaimFails \/ \E i \in Ids : PutQueue(i)
    BY <2>6 DEF ClaimSelect, ClaimFails, PutQueue
  <2>7. ASSUME NEW r \in Requests, Requeues(r) PROVE Final
    BY <2>7 DEF Requeues, RowSame
  <2>8. ASSUME NEW r \in Requests,
               DeleteWrite(r) \/ \E i \in Ids : RequeueRead(r, i) \/ DeleteRead(r, i)
        PROVE  Final
    <3>1. CASE DeleteWrite(r)
      BY <1>1, <3>1 DEF DeleteWrite, TypeOK, AbsentRow
    <3>2. CASE UNCHANGED rows
      BY <3>2
    <3> QED
      BY <2>8, <3>1, <3>2 DEF RequeueRead, DeleteRead
  <2>9. CASE (\E s \in Terminal : SweepSelect(s)) \/ SweepDelete
    BY <2>9 DEF SweepSelect, SweepDelete, AbsentRow
  <2>10. CASE Restart
    BY <2>10 DEF Restart, Orphaned, Terminal
  <2> HIDE DEF Final
  <2> QED
    BY <1>1, <2>1, <2>2, <2>3, <2>4, <2>5, <2>6, <2>7, <2>8, <2>9, <2>10, Kinds
<1>2. TypeOK /\ IdInv /\ OwnInv /\ [Next]_vars => [Final]_vars
  BY <1>1
<1> QED
  BY <1>2, TypeCorrect, NamesHold, OwnHolds, PTL DEF Spec, TerminalIsFinal

-----------------------------------------------------------------------------
(* Retries *)

\* RetryBudget, and that a worker counts from what its row says.
BudgetInv ==
    /\ RetryBudget
    /\ \A w \in Workers : worker[w].pc # "idle" /\ Exists(worker[w].id) =>
         /\ worker[w].pc \in {"read", "route"} =>
              worker[w].attempts = rows[worker[w].id].attempts
         /\ worker[w].verdict = "retry" =>
              rows[worker[w].id].attempts + 1 < MaxAttempts

\* Every step keeps BudgetInv.
LEMMA BudgetStep ==
    ASSUME TypeOK, IdInv, OwnInv, BudgetInv, UniqueIds, [Next]_vars
    PROVE  BudgetInv'
<1> USE DEF dispatchVars, ingressVars, adminVars
<1> DEFINE Counts(w) ==
      worker[w].pc # "idle" /\ Exists(worker[w].id) =>
        /\ worker[w].pc \in {"read", "route"} =>
             worker[w].attempts = rows[worker[w].id].attempts
        /\ worker[w].verdict = "retry" => rows[worker[w].id].attempts + 1 < MaxAttempts
<1>0. IdleWorker.pc = "idle" /\ \A w \in Workers : worker[w].pc # "idle" => worker[w].id \in Ids
  BY BusyWorker DEF IdleWorker
\* Steps that change no worker, and no row a worker has.
<1>1. ASSUME UNCHANGED worker,
             \A i \in Ids : Exists(i)' => \/ RowSame(i)
                                          \/ /\ rows'[i].attempts < MaxAttempts
                                             /\ \A w \in Workers : ~Owns(w, i)
      PROVE  BudgetInv'
  <2>1. RetryBudget'
    BY <1>1 DEF BudgetInv, RetryBudget, RowSame, Exists
  <2>2. ASSUME NEW w \in Workers PROVE Counts(w)'
    BY <1>0, <1>1, <2>2 DEF BudgetInv, RowSame, Exists, Owns
  <2> QED
    BY <2>1, <2>2 DEF BudgetInv
<1>2. CASE Calm
  BY <1>1, <1>2 DEF Calm
<1>3. ASSUME NEW w \in Workers, Working(w) PROVE BudgetInv'
  <2>1. PICK wk \in BusyWorkerType :
          /\ worker' = [worker EXCEPT ![w] = wk]
          /\ wk.id = worker[w].id
          /\ wk.pc \in {"read", "route"} =>
               worker[w].pc \in {"read", "route"} /\ wk.attempts = worker[w].attempts
          /\ wk.verdict = "retry" =>
               \/ worker[w].verdict = "retry"
               \/ worker[w].pc = "route" /\ worker[w].attempts + 1 < MaxAttempts
    BY <1>3 DEF Working
  <2>2. worker[w].pc # "idle" /\ \A i \in Ids : RowSame(i)
    BY <1>3 DEF Working
  <2>3. RetryBudget'
    BY <2>2 DEF BudgetInv, RetryBudget, RowSame, Exists
  <2>4. ASSUME NEW v \in Workers PROVE Counts(v)'
    <3>1. CASE v # w
      <4>1. worker'[v] = worker[v]
        BY <2>1, <3>1 DEF TypeOK
      <4> QED
        BY <1>0, <2>2, <4>1 DEF BudgetInv, RowSame, Exists
    <3>2. CASE v = w
      <4>1. worker'[w] = wk
        BY <2>1 DEF TypeOK
      <4> QED
        BY <1>0, <2>1, <2>2, <3>2, <4>1 DEF BudgetInv, RowSame, Exists
    <3> QED
      BY <3>1, <3>2
  <2> QED
    BY <2>3, <2>4 DEF BudgetInv
<1>4. ASSUME NEW w \in Workers, Done(w) PROVE BudgetInv'
  <2>0. PICK i \in Ids : i = worker[w].id
    BY <1>0, <1>4 DEF Done
  <2>1. /\ worker[w].pc # "idle"
        /\ worker' = [worker EXCEPT ![w] = IdleWorker]
        /\ \A j \in Ids \ {i} : RowSame(j)
    BY <1>4, <2>0 DEF Done
  <2>2. Exists(i)' => rows'[i].attempts < MaxAttempts
    <3>1. CASE RowSame(i)
      BY <3>1 DEF RowSame, Exists, BudgetInv, RetryBudget
    <3>2. CASE Exists(i) /\ rows'[i].attempts = rows[i].attempts
      BY <3>2 DEF BudgetInv, RetryBudget
    <3>3. CASE /\ Exists(i) /\ worker[w].verdict = "retry"
               /\ rows'[i].attempts = rows[i].attempts + 1
      BY <2>0, <2>1, <3>3 DEF BudgetInv
    <3> QED
      BY <1>4, <2>0, <3>1, <3>2, <3>3 DEF Done, Exists
  <2>3. RetryBudget'
    BY <2>1, <2>2 DEF BudgetInv, RetryBudget, RowSame, Exists
  <2>4. ASSUME NEW v \in Workers PROVE Counts(v)'
    <3>1. CASE v # w
      <4>1. worker'[v] = worker[v]
        BY <2>1, <3>1 DEF TypeOK
      <4>2. worker[v].pc # "idle" => worker[v].id # i
        BY <2>0, <2>1, <3>1 DEF OwnInv, Owns
      <4> QED
        BY <1>0, <2>1, <4>1, <4>2 DEF BudgetInv, RowSame, Exists
    <3>2. CASE v = w
      BY <1>0, <2>1, <3>2 DEF TypeOK
    <3> QED
      BY <3>1, <3>2
  <2> QED
    BY <2>3, <2>4 DEF BudgetInv
<1>5. ASSUME NEW w \in Workers, Take(w) PROVE BudgetInv'
  <2>1. PICK i \in Ids : i = Head(queue)
    BY <1>5, QueueSteps DEF Take
  <2>2. /\ worker' = [worker EXCEPT ![w] = IF Dispatchable(i) THEN Snapshot(i) ELSE IdleWorker]
        /\ rows' = rows
    BY <1>5, <2>1 DEF Take
  <2>3. /\ Snapshot(i).id = i /\ Snapshot(i).attempts = rows[i].attempts
        /\ Snapshot(i).verdict = "none"
    BY DEF Snapshot, IdleWorker
  <2>4. ASSUME NEW v \in Workers PROVE Counts(v)'
    <3>1. worker'[v] \in {worker[v], Snapshot(i), IdleWorker}
      BY <2>2 DEF TypeOK
    <3>2. CASE worker'[v] = worker[v]
      BY <2>2, <3>2 DEF BudgetInv, Exists
    <3>3. CASE worker'[v] \in {Snapshot(i), IdleWorker}
      BY <1>0, <2>2, <2>3, <3>3
    <3> QED
      BY <3>1, <3>2, <3>3
  <2> QED
    BY <2>2, <2>4 DEF BudgetInv, RetryBudget, Exists
<1>6. ASSUME NEW m \in Msgs, HandleDataEnqueue(m) PROVE BudgetInv'
  <2>1. PICK i \in Ids, wait \in -OverdueCap..0 :
          IsNewId(i) /\ rows' = [rows EXCEPT ![i] = NewRow(m, wait)]
    BY <1>6 DEF HandleDataEnqueue
  <2>2. i = lastId + 1 /\ lastId \in Nat
    BY <2>1, NewIds, ConstantTypes DEF TypeOK
  <2>3. \A w \in Workers : ~Owns(w, i)
    BY <2>2 DEF Owns, IdInv
  <2>4. rows'[i].attempts < MaxAttempts /\ \A j \in Ids \ {i} : RowSame(j)
    BY <2>1, ConstantsAssumption DEF TypeOK, NewRow, RowSame
  <2> QED
    BY <1>1, <1>6, <2>3, <2>4 DEF HandleDataEnqueue
<1>7. CASE ClaimUpdate
  <2>1. \A i \in Ids : rows'[i].attempts = rows[i].attempts /\ (Exists(i)' <=> Exists(i))
    BY <1>7 DEF ClaimUpdate, TypeOK, RowType, AbsentRow, Exists
  <2>2. worker' = worker
    BY <1>7 DEF ClaimUpdate
  <2>3. ASSUME NEW w \in Workers PROVE Counts(w)'
    BY <1>0, <2>1, <2>2 DEF BudgetInv, Exists
  <2> QED
    BY <2>1, <2>3 DEF BudgetInv, RetryBudget
<1>8. CASE \/ ClaimSelect \/ ClaimFails \/ \E i \in Ids : PutQueue(i)
           \/ \E r \in Requests, i \in Ids : RequeueRead(r, i) \/ DeleteRead(r, i)
           \/ \E s \in Terminal : SweepSelect(s)
  <2>1. UNCHANGED <<rows, worker>>
    BY <1>8 DEF ClaimSelect, ClaimFails, PutQueue, RequeueRead, DeleteRead, SweepSelect
  <2> QED
    BY <1>1, <2>1, SameRows
<1>9. ASSUME NEW r \in Requests, Requeues(r) PROVE BudgetInv'
  <2>1. PICK i \in Ids : i = request[r].id
    BY <1>9, BusyRequest DEF Requeues
  <2>2. rows[i].status \in Terminal \cup {"absent"}
    BY <1>9, <2>1 DEF Requeues, OwnInv, WaitInv
  <2>3. Exists(i) => \A w \in Workers : ~Owns(w, i)
    BY <2>2 DEF Exists, OwnInv, Owned
  <2>4. Exists(i) => rows[i].attempts < MaxAttempts /\ 0 < MaxAttempts
    BY ConstantsAssumption DEF BudgetInv, RetryBudget
  <2>5. /\ \A j \in Ids \ {i} : RowSame(j)
        /\ RowSame(i) \/ (Exists(i) /\ rows'[i].attempts \in {0, rows[i].attempts})
    BY <1>9, <2>1 DEF Requeues, Exists
  <2> QED
    BY <1>1, <1>9, <2>3, <2>4, <2>5 DEF Requeues
<1>10. CASE SweepDelete \/ \E r \in Requests : DeleteWrite(r)
  <2>1. \A i \in Ids : Exists(i)' => rows'[i] = rows[i]
    BY <1>10 DEF SweepDelete, DeleteWrite, TypeOK, AbsentRow, Exists
  <2> QED
    BY <1>1, <1>10, <2>1 DEF SweepDelete, DeleteWrite, RowSame
<1>11. CASE Restart
  <2>1. \A i \in Ids : rows'[i].attempts = rows[i].attempts /\ (Exists(i)' <=> Exists(i))
    BY <1>11 DEF Restart, Orphaned, TypeOK, RowType, AbsentRow, Exists
  <2>2. \A w \in Workers : worker'[w].pc = "idle"
    BY <1>0, <1>11 DEF Restart
  <2> QED
    BY <2>1, <2>2 DEF BudgetInv, RetryBudget
<1> QED
  BY <1>2, <1>3, <1>4, <1>5, <1>6, <1>7, <1>8, <1>9, <1>10, <1>11, Kinds

\* With unique ids and requests that do not overlap, no message is ever
\* scheduled for more tries than max_attempts, although workers check the limit
\* on a snapshot of the row: nobody else counts in between.
THEOREM BudgetKept ==
    ASSUME UniqueIds, OneRequest
    PROVE  Spec => []RetryBudget
<1>1. Init => BudgetInv
  BY DEF Init, BudgetInv, RetryBudget, Exists, AbsentRow, IdleWorker
<1>2. TypeOK /\ IdInv /\ OwnInv /\ BudgetInv /\ [Next]_vars => BudgetInv'
  BY BudgetStep
<1>3. BudgetInv => RetryBudget
  BY DEF BudgetInv
<1> QED
  BY <1>1, <1>2, <1>3, TypeCorrect, NamesHold, OwnHolds, PTL DEF Spec
=============================================================================
