-------------------------- MODULE DispatcherProofs --------------------------
(***************************************************************************)
(* What Dispatcher guarantees for every number of messages, workers,       *)
(* requests and providers, every retry policy and every bound.             *)
(***************************************************************************)
EXTENDS Dispatcher, TLAPS

\* The numeric constants, one by one.
LEMMA ConstantTypes ==
    /\ MaxId \in Nat /\ AgeCap \in Nat /\ ClaimBatch \in Nat
    /\ NoCapacityBackoff \in Nat /\ MaxAttempts \in Nat /\ MaxDelay \in Nat
    /\ BaseDelay \in Nat /\ OverdueCap \in Nat /\ JitterPercent \in Nat
    /\ MaxFaults \in Nat
<1>1. JitterPercent \in Nat
  BY ConstantsAssumption
<1> QED
  BY <1>1, ConstantsAssumption

-----------------------------------------------------------------------------
(* Delays and waits *)

\* The waits the code gives: none, the hold, a retry's delay, and times past.
LEMMA WaitTypes ==
    /\ 0 \in Delays /\ NoCapacityBackoff \in Waits
    /\ Delays \subseteq Waits /\ (-OverdueCap..0) \subseteq Waits
    /\ Waits \subseteq Int
<1>1. 0 \in Delays
  BY ConstantTypes DEF Delays
<1> QED
  BY <1>1, ConstantTypes DEF Waits, Delays

\* The cap of backoff_delay is one.
LEMMA CappedBelow ==
    ASSUME NEW a \in Nat, a > 0
    PROVE  Capped(a) \in Int /\ Capped(a) <= MaxDelay
<1>1. \A n \in Nat : 2^n \in Int
  OBVIOUS
<1>2. PICK p \in Int : p = 2^(a - 1)
  BY <1>1
<1>3. BaseDelay * p \in Int
  BY ConstantTypes
<1>4. Capped(a) = IF BaseDelay * p < MaxDelay THEN BaseDelay * p ELSE MaxDelay
  BY <1>2 DEF Capped
<1> QED
  BY <1>3, <1>4, ConstantTypes

\* Jitter takes a delay past the cap by jitter_ratio of the cap at most.
LEMMA BackoffBounded ==
    ASSUME NEW a \in Nat, a > 0, NEW d \in BackoffDelays(a)
    PROVE  d \in Delays
<1> DEFINE k == 100 + JitterPercent
<1>1. k \in Nat
  BY ConstantTypes
<1>2. PICK c \in Int : c = Capped(a) /\ c <= MaxDelay
  BY CappedBelow
<1> HIDE DEF k
<1>3. d \in 0..(2 * c) /\ 100 * d <= c * k
  BY <1>2 DEF BackoffDelays, k
<1>4. c \in Nat /\ d \in 0..(2 * MaxDelay)
  BY <1>2, <1>3, ConstantTypes
<1>5. \A m, n, j \in Nat : m <= n => m * j <= n * j
  OBVIOUS
<1>6. c * k <= MaxDelay * k
  BY <1>1, <1>2, <1>4, <1>5, ConstantTypes
<1>7. c * k \in Nat /\ MaxDelay * k \in Nat
  BY <1>1, <1>4, ConstantTypes
<1>8. 100 * d <= MaxDelay * k
  BY <1>3, <1>4, <1>6, <1>7
<1> QED
  BY <1>4, <1>8 DEF Delays, k

\* A tick keeps a wait within its bounds.
LEMMA EarlierWait == \A n \in Waits : Earlier(n) \in Waits
<1> SUFFICES ASSUME NEW n \in Waits, Earlier(n) # n PROVE n - 1 \in Waits
  BY DEF Earlier
<1> DEFINE top == MaxDelay * (100 + JitterPercent)
<1>1. top \in Nat /\ n \in Int
  BY ConstantTypes, WaitTypes
<1>2. Waits = (-OverdueCap..NoCapacityBackoff)
                \cup {d \in 0..(2 * MaxDelay) : 100 * d <= top}
  BY DEF Waits, Delays
<1> HIDE DEF top
<1>3. CASE n > 0
  BY <1>1, <1>2, <1>3, ConstantTypes
<1>4. CASE n <= 0 /\ n > -OverdueCap
  BY <1>1, <1>2, <1>4, ConstantTypes
<1>5. CASE n = -OverdueCap /\ n <= 0
  BY <1>1, <1>5 DEF Earlier
<1>6. n >= -OverdueCap
  BY <1>1, <1>2, ConstantTypes
<1> QED
  BY <1>1, <1>3, <1>4, <1>5, <1>6, ConstantTypes

-----------------------------------------------------------------------------
(* Rows *)

\* A row that exists has a row's type.
LEMMA ExistingRow ==
    ASSUME TypeOK, NEW i \in Ids, Exists(i)
    PROVE  rows[i] \in RowType
  BY DEF TypeOK, Exists, AbsentRow

\* The updates the SQL statements make to a row keep its type.
LEMMA RowUpdates ==
    ASSUME NEW row \in RowType, NEW s \in {"queued", "sending"} \cup Terminal,
           NEW d \in Waits, NEW a \in Nat
    PROVE  /\ [row EXCEPT !.status = s] \in RowType
           /\ [row EXCEPT !.status = s, !.wait = d] \in RowType
           /\ [row EXCEPT !.status = s, !.wait = d, !.attempts = a] \in RowType
           /\ [row EXCEPT !.wait = d] \in RowType
           /\ row.attempts \in Nat /\ row.wait \in Waits /\ row.body \in Msgs
  BY DEF RowType

-----------------------------------------------------------------------------
(* Workers *)

\* A worker that is not idle has a message.
LEMMA BusyWorker ==
    ASSUME TypeOK, NEW w \in Workers, worker[w].pc # "idle"
    PROVE  /\ worker[w] \in BusyWorkerType
           /\ worker[w].id \in Ids /\ worker[w].body \in Msgs
           /\ worker[w].attempts \in Nat /\ worker[w].delay \in Delays
  BY DEF TypeOK, BusyWorkerType, IdleWorker

\* The states a busy worker is put into.
LEMMA WorkerUpdates ==
    ASSUME NEW wk \in BusyWorkerType, NEW d \in Delays, NEW p \in Providers,
           NEW o \in Outcomes,
           NEW v \in {"none", "sent", "dead", "hold", "retry"}
    PROVE  /\ Settling(wk, v, d) \in BusyWorkerType
           /\ Raising(wk) \in BusyWorkerType
           /\ [wk EXCEPT !.pc = "route"] \in BusyWorkerType
           /\ AfterAttempt(wk, p, o) \in BusyWorkerType
<1>1. Settling(wk, v, d) \in BusyWorkerType
  BY WaitTypes DEF BusyWorkerType, Settling, IdleWorker
<1>2. Settling(wk, "sent", 0) \in BusyWorkerType
  BY WaitTypes DEF BusyWorkerType, Settling, IdleWorker
<1>3. Raising(wk) \in BusyWorkerType
  BY WaitTypes DEF BusyWorkerType, Raising, IdleWorker
<1>4. [wk EXCEPT !.pc = "route"] \in BusyWorkerType
  BY DEF BusyWorkerType
<1>5. [wk EXCEPT !.tried = @ \cup {p},
                 !.onlyPermanent = @ /\ o = "permanent"] \in BusyWorkerType
  BY DEF BusyWorkerType
<1> QED
  BY <1>1, <1>2, <1>3, <1>4, <1>5 DEF AfterAttempt

\* An UPDATE by id keeps the table's type.
LEMMA UpdateRowType ==
    ASSUME TypeOK, NEW i \in Ids, NEW row, Exists(i) => row \in RowType,
           UpdateRow(i, row)
    PROVE  rows' \in [Ids -> RowType \cup {AbsentRow}]
  BY DEF TypeOK, UpdateRow

-----------------------------------------------------------------------------
(* Type correctness *)

\* The initial state is well typed: an empty table and idle tasks.
LEMMA InitType == Init => TypeOK
  BY ConstantTypes
  DEF Init, TypeOK, Ids, ProducerType, SelectingProducer, SweepType, IdleSweep

\* The ingress handlers keep the types.
LEMMA IngressType == TypeOK /\ Ingress => TypeOK'
<1> SUFFICES ASSUME TypeOK, NEW m \in Msgs,
                    \/ HandleDataSpool(m)
                    \/ HandleDataEnqueue(m)
                    \/ HandleDataFail(m)
             PROVE  TypeOK'
  BY DEF Ingress
<1> USE DEF TypeOK, ingressVars, dispatchVars, adminVars
<1>1. CASE HandleDataSpool(m)
  BY <1>1 DEF HandleDataSpool
<1>2. CASE HandleDataEnqueue(m)
  <2>1. PICK i \in Ids, wait \in -OverdueCap..0 :
            /\ rows' = [rows EXCEPT ![i] = NewRow(m, wait)]
            /\ lastId' = IF i > lastId THEN i ELSE lastId
    BY <1>2 DEF HandleDataEnqueue
  <2>2. NewRow(m, wait) \in RowType
    BY WaitTypes DEF NewRow, RowType, Terminal
  <2>3. rows' \in [Ids -> RowType \cup {AbsentRow}]
    BY <2>1, <2>2
  <2>4. lastId' \in 0..MaxId
    BY <2>1, ConstantTypes DEF Ids
  <2> QED
    BY <1>2, <2>3, <2>4 DEF HandleDataEnqueue
<1>3. CASE HandleDataFail(m)
  BY <1>3 DEF HandleDataFail, StageAfterFailure
<1> QED
  BY <1>1, <1>2, <1>3

\* The producer keeps the types.
LEMMA ProduceType == TypeOK /\ Produce => TypeOK'
<1> SUFFICES ASSUME TypeOK, Produce PROVE TypeOK'
  OBVIOUS
<1> USE DEF TypeOK, ingressVars, dispatchVars, adminVars
<1>1. CASE ClaimSelect
  BY <1>1 DEF ClaimSelect, Due, ProducerType
<1>2. CASE ClaimUpdate
  <2>1. \A i \in Ids : Exists(i) =>
          [rows[i] EXCEPT !.status = "sending"] \in RowType
    BY ExistingRow, RowUpdates, WaitTypes
  <2>2. rows' \in [Ids -> RowType \cup {AbsentRow}]
    BY <1>2, <2>1 DEF ClaimUpdate
  <2>3. producer' \in ProducerType
    BY <1>2 DEF ClaimUpdate, ProducerType
  <2> QED
    BY <1>2, <2>2, <2>3 DEF ClaimUpdate
<1>3. ASSUME NEW i \in Ids, PutQueue(i) PROVE TypeOK'
  <2>1. producer' \in ProducerType
    BY <1>3 DEF PutQueue, ProducerType, SelectingProducer
  <2>2. queue' \in Seq(Ids)
    BY <1>3 DEF PutQueue
  <2> QED
    BY <1>3, <2>1, <2>2 DEF PutQueue
<1> QED
  BY <1>1, <1>2, <1>3 DEF Produce

\* The consumers keep the types.
LEMMA ConsumeType == TypeOK /\ (\E w \in Workers : Consume(w)) => TypeOK'
<1> SUFFICES ASSUME TypeOK, NEW w \in Workers, Consume(w) PROVE TypeOK'
  OBVIOUS
<1> USE DEF TypeOK, ingressVars, dispatchVars, adminVars
<1>1. CASE Take(w)
  <2>1. Head(queue) \in Ids /\ queue' \in Seq(Ids)
    BY <1>1 DEF Take
  <2>2. Dispatchable(Head(queue)) => Snapshot(Head(queue)) \in BusyWorkerType
    <3> SUFFICES ASSUME Dispatchable(Head(queue))
                 PROVE  Snapshot(Head(queue)) \in BusyWorkerType
      OBVIOUS
    <3>1. rows[Head(queue)] \in RowType
      BY <2>1, ExistingRow DEF Dispatchable
    <3>2. rows[Head(queue)].body \in Msgs /\ rows[Head(queue)].attempts \in Nat
      BY <3>1 DEF RowType
    <3> QED
      BY <2>1, <3>2, WaitTypes DEF Snapshot, IdleWorker, BusyWorkerType
  <2> QED
    BY <1>1, <2>1, <2>2 DEF Take
<1>2. CASE ReadSpool(w)
  <2>1. worker[w] \in BusyWorkerType
    BY <1>2, BusyWorker DEF ReadSpool
  <2>2. /\ Settling(worker[w], "dead", 0) \in BusyWorkerType
        /\ [worker[w] EXCEPT !.pc = "route"] \in BusyWorkerType
    BY <2>1, WaitTypes DEF Settling, IdleWorker, BusyWorkerType
  <2> QED
    BY <1>2, <2>2 DEF ReadSpool
<1>3. ASSUME NEW p \in Providers, NEW o \in Outcomes, Attempt(w, p, o)
      PROVE  TypeOK'
  <2>1. worker[w] \in BusyWorkerType /\ worker[w].id \in Ids
        /\ worker[w].body \in Msgs
    BY <1>3, BusyWorker DEF Attempt
  <2>2. /\ Raising(worker[w]) \in BusyWorkerType
        /\ AfterAttempt(worker[w], p, o) \in BusyWorkerType
    BY <2>1, WorkerUpdates, WaitTypes
  <2>3. worker' \in [Workers -> BusyWorkerType \cup {IdleWorker}]
    BY <1>3, <2>2 DEF Attempt
  <2>4. delivered' \subseteq Msgs
    BY <1>3, <2>1 DEF Attempt
  <2> QED
    BY <1>3, <2>3, <2>4 DEF Attempt
<1>4. CASE GiveUp(w)
  <2>1. worker[w] \in BusyWorkerType /\ worker[w].attempts \in Nat
    BY <1>4, BusyWorker DEF GiveUp
  <2>2. PICK d \in BackoffDelays(worker[w].attempts + 1) :
          worker' = [worker EXCEPT
                       ![w] = Settling(worker[w], Verdict(worker[w], d), d)]
    BY <1>4 DEF GiveUp
  <2>3. d \in Delays
    BY <2>1, BackoffBounded
  <2>4. Verdict(worker[w], d) \in {"none", "sent", "dead", "hold", "retry"}
    BY DEF Verdict
  <2>5. Settling(worker[w], Verdict(worker[w], d), d) \in BusyWorkerType
    BY <2>1, <2>3, <2>4, WaitTypes DEF Settling, IdleWorker, BusyWorkerType
  <2> QED
    BY <1>4, <2>2, <2>5 DEF GiveUp
<1>5. CASE MarkSent(w)
  <2>1. worker[w].id \in Ids
    BY <1>5, BusyWorker DEF MarkSent
  <2>2. Exists(worker[w].id) =>
          [rows[worker[w].id] EXCEPT !.status = "sent"] \in RowType
    BY <2>1, ExistingRow DEF RowType, Terminal
  <2>3. rows' \in [Ids -> RowType \cup {AbsentRow}]
    BY <1>5, <2>1, <2>2, UpdateRowType DEF MarkSent
  <2> QED
    BY <1>5, <2>3 DEF MarkSent
<1>6. CASE Deadletter(w)
  <2>1. worker[w].id \in Ids
    BY <1>6, BusyWorker DEF Deadletter
  <2>2. Exists(worker[w].id) =>
          [rows[worker[w].id] EXCEPT !.status = "deadletter"] \in RowType
    BY <2>1, ExistingRow DEF RowType, Terminal
  <2>3. rows' \in [Ids -> RowType \cup {AbsentRow}]
    BY <1>6, <2>1, <2>2, UpdateRowType DEF Deadletter
  <2> QED
    BY <1>6, <2>3 DEF Deadletter
<1>7. CASE Reschedule(w)
  <2>1. worker[w].id \in Ids /\ worker[w].delay \in Delays
    BY <1>7, BusyWorker DEF Reschedule
  <2>2. Exists(worker[w].id) =>
          Rescheduled(rows[worker[w].id], worker[w]) \in RowType
    <3> SUFFICES ASSUME Exists(worker[w].id)
                 PROVE  Rescheduled(rows[worker[w].id], worker[w]) \in RowType
      OBVIOUS
    <3> DEFINE row == rows[worker[w].id]
    <3>1. row \in RowType
      BY <2>1, ExistingRow
    <3>2. [row EXCEPT !.status = "queued", !.wait = NoCapacityBackoff] \in RowType
      BY <3>1, WaitTypes DEF RowType
    <3>3. [row EXCEPT !.status = "queued", !.wait = worker[w].delay,
                      !.attempts = @ + 1] \in RowType
      <4>1. row.attempts + 1 \in Nat
        BY <3>1 DEF RowType
      <4> HIDE DEF row
      <4> QED
        BY <2>1, <3>1, <4>1, RowUpdates, WaitTypes
    <3> QED
      BY <3>2, <3>3 DEF Rescheduled
  <2>3. rows' \in [Ids -> RowType \cup {AbsentRow}]
    BY <1>7, <2>1, <2>2, UpdateRowType DEF Reschedule
  <2> QED
    BY <1>7, <2>3 DEF Reschedule
<1>8. CASE RequeueNow(w)
  <2>1. worker[w].id \in Ids
    BY <1>8, BusyWorker DEF RequeueNow
  <2>2. rows[worker[w].id].status = "sending" =>
          [rows[worker[w].id] EXCEPT !.status = "queued"] \in RowType
    <3> SUFFICES ASSUME rows[worker[w].id].status = "sending"
                 PROVE  [rows[worker[w].id] EXCEPT !.status = "queued"] \in RowType
      OBVIOUS
    <3>1. rows[worker[w].id] # AbsentRow
      BY DEF AbsentRow
    <3>2. rows[worker[w].id] \in RowType
      BY <2>1, <3>1, ExistingRow DEF Exists
    <3> QED
      BY <3>2 DEF RowType
  <2> QED
    BY <1>8, <2>1, <2>2 DEF RequeueNow
<1> QED
  BY <1>1, <1>2, <1>3, <1>4, <1>5, <1>6, <1>7, <1>8 DEF Consume

\* Faults keep the types.
LEMMA FaultType == TypeOK /\ (\E w \in Workers : Fault(w)) => TypeOK'
<1> SUFFICES ASSUME TypeOK, NEW w \in Workers, Fault(w) PROVE TypeOK'
  OBVIOUS
<1> USE ConstantTypes DEF TypeOK, ingressVars, dispatchVars, adminVars
<1>1. CASE Raise(w)
  <2>1. Raising(worker[w]) \in BusyWorkerType
    BY <1>1, BusyWorker, WaitTypes DEF Raise, Raising, IdleWorker, BusyWorkerType
  <2> QED
    BY <1>1, <2>1 DEF Raise
<1>2. CASE RequeueFails(w)
  <2>1. worker[w].id \in Ids
    BY <1>2, BusyWorker DEF RequeueFails
  <2> QED
    BY <1>2, <2>1 DEF RequeueFails
<1> QED
  BY <1>1, <1>2 DEF Fault

\* A request that is not idle names a row it has read.
LEMMA BusyRequest ==
    ASSUME TypeOK, NEW r \in Requests, request[r].pc # "idle"
    PROVE  /\ request[r] \in BusyRequestType
           /\ request[r].id \in Ids /\ request[r].body \in Msgs
  BY DEF TypeOK, BusyRequestType, IdleRequest

\* The dashboard's requests keep the types.
LEMMA OperateType == TypeOK /\ Operate => TypeOK'
<1> SUFFICES ASSUME TypeOK, Operate PROVE TypeOK'
  OBVIOUS
<1> USE DEF TypeOK, ingressVars, dispatchVars, adminVars
<1>1. ASSUME NEW r \in Requests, NEW i \in Ids, RequeueRead(r, i)
      PROVE  TypeOK'
  <2>1. rows[i].body \in Msgs /\ rows[i].attempts \in Nat
    BY <1>1, ExistingRow DEF RequeueRead, Requeueable, Terminal, Exists, RowType
  <2>2. [pc |-> "requeue", id |-> i, body |-> rows[i].body,
         attempts |-> rows[i].attempts] \in BusyRequestType
    BY <2>1 DEF BusyRequestType
  <2> QED
    BY <1>1, <2>2 DEF RequeueRead
<1>2. ASSUME NEW r \in Requests, RequeueWrite(r) PROVE TypeOK'
  <2> DEFINE row == rows[request[r].id]
             new == [row EXCEPT !.status = "queued", !.wait = 0,
                                !.attempts = IF request[r].attempts = 0 THEN @
                                             ELSE 0]
  <2>1. request[r].id \in Ids
    BY <1>2, BusyRequest DEF RequeueWrite
  <2>2. Exists(request[r].id) => new \in RowType
    <3> SUFFICES ASSUME Exists(request[r].id) PROVE new \in RowType
      OBVIOUS
    <3>1. row \in RowType
      BY <2>1, ExistingRow
    <3> QED
      BY <3>1, WaitTypes DEF RowType
  <2>3. UpdateRow(request[r].id, new)
    BY <1>2 DEF RequeueWrite
  <2>4. rows' \in [Ids -> RowType \cup {AbsentRow}]
    BY <2>1, <2>2, <2>3, UpdateRowType
  <2> QED
    BY <1>2, <2>4 DEF RequeueWrite
<1>3. ASSUME NEW r \in Requests, NEW i \in Ids, DeleteRead(r, i)
      PROVE  TypeOK'
  <2>1. rows[i].body \in Msgs
    BY <1>3, ExistingRow DEF DeleteRead, RowType
  <2>2. [pc |-> "delete", id |-> i, body |-> rows[i].body, attempts |-> 0]
          \in BusyRequestType
    BY <2>1 DEF BusyRequestType
  <2> QED
    BY <1>3, <2>1, <2>2 DEF DeleteRead
<1>4. ASSUME NEW r \in Requests, DeleteWrite(r) PROVE TypeOK'
  <2>1. [request[r] EXCEPT !.pc = "unlink"] \in BusyRequestType
    BY <1>4, BusyRequest DEF DeleteWrite, BusyRequestType
  <2> QED
    BY <1>4, <2>1 DEF DeleteWrite
<1>5. ASSUME NEW r \in Requests, DeleteUnlink(r) PROVE TypeOK'
  BY <1>5 DEF DeleteUnlink
<1>6. ASSUME NEW p \in Providers, SetEnabled(p) PROVE TypeOK'
  BY <1>6 DEF SetEnabled
<1> QED
  BY <1>1, <1>2, <1>3, <1>4, <1>5, <1>6 DEF Operate

\* The sweep keeps the types.
LEMMA HousekeepType == TypeOK /\ Housekeep => TypeOK'
<1> SUFFICES ASSUME TypeOK, Housekeep PROVE TypeOK'
  OBVIOUS
<1> USE DEF TypeOK, ingressVars, dispatchVars, adminVars
<1>1. ASSUME NEW s \in Terminal, SweepSelect(s) PROVE TypeOK'
  <2>1. \A i \in Swept(s) : i \in Ids /\ rows[i].body \in Msgs
    BY <1>1, ExistingRow DEF Swept, Terminal, Exists, RowType
  <2>2. {<<i, rows[i].body>> : i \in Swept(s)} \subseteq Ids \X Msgs
    BY <2>1
  <2>3. sweep' \in SweepType
    BY <1>1, <2>2 DEF SweepSelect, SweepType
  <2> QED
    BY <1>1, <2>1, <2>3 DEF SweepSelect
<1>2. CASE SweepDelete
  BY <1>2 DEF SweepDelete, SweepType
<1>3. CASE SweepUnlink
  BY <1>3 DEF SweepUnlink, SweepType, IdleSweep
<1> QED
  BY <1>1, <1>2, <1>3 DEF Housekeep

\* Failed transactions keep the types.
LEMMA RollbackType == TypeOK /\ Rollback => TypeOK'
<1> SUFFICES ASSUME TypeOK, Rollback PROVE TypeOK'
  OBVIOUS
<1> USE ConstantTypes DEF TypeOK, ingressVars, dispatchVars, adminVars
<1>1. CASE ClaimFails
  BY <1>1 DEF ClaimFails, ProducerType, SelectingProducer
<1>2. ASSUME NEW r \in Requests, RequestFails(r) PROVE TypeOK'
  BY <1>2 DEF RequestFails
<1>3. CASE SweepFails
  BY <1>3 DEF SweepFails, SweepType, IdleSweep
<1> QED
  BY <1>1, <1>2, <1>3 DEF Rollback

\* A restart and the passing of time keep the types.
LEMMA EnvironmentType == TypeOK /\ (Restart \/ Tick) => TypeOK'
<1> SUFFICES ASSUME TypeOK, Restart \/ Tick PROVE TypeOK'
  OBVIOUS
<1> USE ConstantTypes DEF TypeOK, ingressVars, dispatchVars, adminVars
<1>1. CASE Restart
  <2>1. \A i \in Ids : Orphaned(i) =>
          [rows[i] EXCEPT !.status = "queued"] \in RowType
    BY ExistingRow, RowUpdates, WaitTypes DEF Orphaned, Exists
  <2>2. rows' \in [Ids -> RowType \cup {AbsentRow}]
    BY <1>1, <2>1 DEF Restart
  <2>3. UNCHANGED <<spool, lastId, age, enabled, discarded, delivered>>
    BY <1>1 DEF Restart
  <2>4. /\ stage' \in [Msgs -> {"new", "spooled", "accepted", "refused"}]
        /\ queue' \in Seq(Ids)
        /\ stranded' \subseteq Ids
    BY <1>1 DEF Restart
  <2>5. /\ producer' \in ProducerType
        /\ sweep' \in SweepType
    BY <1>1
    DEF Restart, ProducerType, SelectingProducer, SweepType, IdleSweep
  <2>6. /\ worker' \in [Workers -> BusyWorkerType \cup {IdleWorker}]
        /\ request' \in [Requests -> BusyRequestType \cup {IdleRequest}]
    BY <1>1 DEF Restart
  <2>7. faults' \in 0..MaxFaults
    BY <1>1 DEF Restart
  <2> QED
    BY <2>2, <2>3, <2>4, <2>5, <2>6, <2>7
<1>2. CASE Tick
  <2>1. \A row \in RowType : Sooner(row) \in RowType
    <3> TAKE row \in RowType
    <3>1. Earlier(row.wait) \in Waits /\ 0 \in Waits
      BY EarlierWait, WaitTypes DEF RowType
    <3> QED
      BY <3>1 DEF Sooner, RowType
  <2>2. Sooner(AbsentRow) = AbsentRow
    BY DEF Sooner, AbsentRow
  <2>3. rows' \in [Ids -> RowType \cup {AbsentRow}]
    BY <1>2, <2>1, <2>2 DEF Tick
  <2>4. age' \in [Msgs -> 0..AgeCap]
    BY <1>2 DEF Tick
  <2> QED
    BY <1>2, <2>3, <2>4 DEF Tick
<1> QED
  BY <1>1, <1>2

\* Every step keeps the types.
LEMMA NextType == TypeOK /\ [Next]_vars => TypeOK'
<1>1. TypeOK /\ UNCHANGED vars => TypeOK'
  BY DEF TypeOK, vars, ingressVars, dispatchVars, adminVars
<1> QED
  BY <1>1, IngressType, ProduceType, ConsumeType, FaultType, OperateType,
     HousekeepType, RollbackType, EnvironmentType DEF Next

\* Type correctness: no interleaving of ingress, dispatcher, dashboard, sweep
\* and restarts gives a row, a task or a counter a value it cannot have.
THEOREM TypeCorrect == Spec => []TypeOK
  BY InitType, NextType, PTL DEF Spec

-----------------------------------------------------------------------------
(* Every sending row is owned *)

\* Steps outside the dispatcher put no row into sending and move no owner.
LEMMA OwnedOutside ==
    ASSUME TypeOK, SendingIsOwned, UNCHANGED <<dispatchVars, stranded>>,
           \A i \in Ids : rows'[i].status = "sending" => rows[i].status = "sending"
    PROVE  SendingIsOwned'
  BY DEF SendingIsOwned, Owned, Owns, Queued, Claimed, dispatchVars

\* A step of a worker that stays busy with its message.
LEMMA OwnedBusy ==
    ASSUME TypeOK, SendingIsOwned, NEW w \in Workers,
           UNCHANGED <<queue, producer, stranded>>,
           \A v \in Workers \ {w} : worker'[v] = worker[v],
           worker'[w].id = worker[w].id, worker'[w].pc # "idle",
           \A i \in Ids : rows'[i].status = "sending" => rows[i].status = "sending"
    PROVE  SendingIsOwned'
  BY DEF SendingIsOwned, Owned, Owns, Queued, Claimed

\* A step of a worker that drops a message it has moved out of sending.
LEMMA OwnedDone ==
    ASSUME TypeOK, SendingIsOwned, NEW w \in Workers,
           UNCHANGED <<queue, producer>>, stranded \subseteq stranded',
           worker' = [worker EXCEPT ![w] = IdleWorker],
           \A i \in Ids : rows'[i].status = "sending" =>
               /\ rows[i].status = "sending"
               /\ worker[w].id # i \/ i \in stranded'
    PROVE  SendingIsOwned'
  BY DEF TypeOK, SendingIsOwned, Owned, Owns, Queued, Claimed

\* An UPDATE by id changes no other row's status.
LEMMA UpdateRowStatus ==
    ASSUME TypeOK, NEW i \in Ids, NEW row, UpdateRow(i, row),
           row.status # "sending"
    PROVE  \A j \in Ids : rows'[j].status = "sending" =>
             rows[j].status = "sending" /\ j # i
  BY DEF TypeOK, UpdateRow, Exists

\* The producer hands every row it flips to sending to the queue.
LEMMA ProduceOwned == TypeOK /\ SendingIsOwned /\ Produce => SendingIsOwned'
<1> SUFFICES ASSUME TypeOK, SendingIsOwned, Produce,
                    NEW i \in Ids, rows'[i].status = "sending"
             PROVE  Owned(i)' \/ i \in stranded'
  BY DEF SendingIsOwned
<1> USE DEF Owned, Owns, Queued, Claimed
<1>1. CASE ClaimSelect
  BY <1>1 DEF ClaimSelect, SendingIsOwned
<1>2. CASE ClaimUpdate
  <2>1. CASE i \in producer.ids
    BY <1>2, <2>1 DEF ClaimUpdate, TypeOK, ProducerType
  <2>2. CASE i \notin producer.ids
    <3>1. rows'[i] = rows[i]
      BY <1>2, <2>2 DEF ClaimUpdate
    <3> QED
      BY <1>2, <3>1 DEF ClaimUpdate, SendingIsOwned
  <2> QED
    BY <2>1, <2>2
<1>3. ASSUME NEW j \in Ids, PutQueue(j) PROVE Owned(i)' \/ i \in stranded'
  <2>1. /\ queue \in Seq(Ids) /\ queue' = Append(queue, j)
        /\ rows' = rows /\ worker' = worker /\ stranded' = stranded
    BY <1>3 DEF PutQueue, TypeOK
  <2>2. Queued(i) => Queued(i)'
    BY <2>1
  <2>3. Queued(j)'
    BY <2>1
  <2>4. i # j /\ Claimed(i) => Claimed(i)'
    BY <1>3 DEF PutQueue, TypeOK, ProducerType
  <2> QED
    BY <2>1, <2>2, <2>3, <2>4 DEF SendingIsOwned
<1> QED
  BY <1>1, <1>2, <1>3 DEF Produce

\* A worker drops a message only with its row out of sending.
LEMMA ConsumeOwned ==
    TypeOK /\ SendingIsOwned /\ (\E w \in Workers : Consume(w))
      => SendingIsOwned'
<1> SUFFICES ASSUME TypeOK, SendingIsOwned, NEW w \in Workers, Consume(w)
             PROVE  SendingIsOwned'
  OBVIOUS
<1>1. CASE Take(w)
  <2> SUFFICES ASSUME NEW i \in Ids, rows'[i].status = "sending"
               PROVE  Owned(i)' \/ i \in stranded'
    BY DEF SendingIsOwned
  <2>1. /\ queue \in Seq(Ids) /\ queue # <<>> /\ queue' = Tail(queue)
        /\ Head(queue) = queue[1] /\ Head(queue) \in Ids
        /\ UNCHANGED <<rows, producer, stranded>>
        /\ worker[w].pc = "idle"
    BY <1>1 DEF Take, TypeOK
  <2>2. \A v \in Workers : Owns(v, i) => Owns(v, i)'
    BY <1>1 DEF Take, Owns, TypeOK
  <2>3. i = Head(queue) => Owns(w, i)'
    <3> SUFFICES ASSUME i = Head(queue) PROVE Owns(w, i)'
      OBVIOUS
    <3>1. Dispatchable(Head(queue))
      BY <2>1 DEF Dispatchable, Exists, Terminal
    <3>2. worker'[w] = Snapshot(Head(queue))
      BY <1>1, <3>1 DEF Take, TypeOK
    <3> QED
      BY <3>2 DEF Owns, Snapshot, IdleWorker
  <2>4. i # Head(queue) /\ Queued(i) => Queued(i)'
    <3> SUFFICES ASSUME NEW k \in 1..Len(queue), queue[k] = i, k # 1
                 PROVE  Queued(i)'
      BY <2>1 DEF Queued
    <3>1. k - 1 \in 1..Len(queue') /\ queue'[k - 1] = i
      BY <2>1
    <3> QED
      BY <3>1 DEF Queued
  <2> QED
    BY <2>1, <2>2, <2>3, <2>4 DEF SendingIsOwned, Owned, Claimed
<1>2. CASE ReadSpool(w)
  BY <1>2, OwnedBusy
  DEF ReadSpool, TypeOK, Settling, IdleWorker, BusyWorkerType, ingressVars, adminVars
<1>3. ASSUME NEW p \in Providers, NEW o \in Outcomes, Attempt(w, p, o)
      PROVE  SendingIsOwned'
  <2>1. /\ UNCHANGED <<queue, producer, stranded>>
        /\ \A v \in Workers \ {w} : worker'[v] = worker[v]
    BY <1>3 DEF Attempt, TypeOK
  <2>2. worker[w] \in BusyWorkerType /\ worker[w].id \in Ids
    BY <1>3, BusyWorker DEF Attempt
  <2>3. \/ worker'[w] = Raising(worker[w])
        \/ worker'[w] = AfterAttempt(worker[w], p, o)
    BY <1>3 DEF Attempt, TypeOK
  <2>4. worker'[w].id = worker[w].id /\ worker'[w].pc # "idle"
    BY <1>3, <2>2, <2>3
    DEF Raising, AfterAttempt, Settling, IdleWorker, BusyWorkerType, Attempt
  <2>5. \A i \in Ids : rows'[i].status = "sending" => rows[i].status = "sending"
    BY <1>3 DEF Attempt
  <2> QED
    BY <2>1, <2>4, <2>5, OwnedBusy
<1>4. CASE GiveUp(w)
  <2>1. PICK d \in BackoffDelays(worker[w].attempts + 1) :
          worker' = [worker EXCEPT
                       ![w] = Settling(worker[w], Verdict(worker[w], d), d)]
    BY <1>4 DEF GiveUp
  <2> QED
    BY <1>4, <2>1, OwnedBusy DEF GiveUp, TypeOK, Settling, IdleWorker
<1>5. CASE MarkSent(w)
  <2>1. worker[w].id \in Ids
    BY <1>5, BusyWorker DEF MarkSent
  <2> DEFINE row == [rows[worker[w].id] EXCEPT !.status = "sent"]
  <2>2. row.status # "sending"
    BY <2>1 DEF TypeOK, RowType, AbsentRow
  <2> QED
    BY <1>5, <2>1, <2>2, UpdateRowStatus, OwnedDone DEF MarkSent
<1>6. CASE Deadletter(w)
  <2>1. worker[w].id \in Ids
    BY <1>6, BusyWorker DEF Deadletter
  <2> DEFINE row == [rows[worker[w].id] EXCEPT !.status = "deadletter"]
  <2>2. row.status # "sending"
    BY <2>1 DEF TypeOK, RowType, AbsentRow
  <2> QED
    BY <1>6, <2>1, <2>2, UpdateRowStatus, OwnedDone DEF Deadletter
<1>7. CASE Reschedule(w)
  <2>1. worker[w].id \in Ids
    BY <1>7, BusyWorker DEF Reschedule
  <2>2. Rescheduled(rows[worker[w].id], worker[w]).status # "sending"
    BY <2>1 DEF TypeOK, RowType, AbsentRow, Rescheduled
  <2> QED
    BY <1>7, <2>1, <2>2, UpdateRowStatus, OwnedDone DEF Reschedule
<1>8. CASE RequeueNow(w)
  <2>1. worker[w].id \in Ids
    BY <1>8, BusyWorker DEF RequeueNow
  <2>2. \A i \in Ids : rows'[i].status = "sending" =>
          rows[i].status = "sending" /\ worker[w].id # i
    BY <1>8, <2>1 DEF RequeueNow, TypeOK, RowType, AbsentRow
  <2> QED
    BY <1>8, <2>2, OwnedDone DEF RequeueNow
<1> QED
  BY <1>1, <1>2, <1>3, <1>4, <1>5, <1>6, <1>7, <1>8 DEF Consume

\* A failed _requeue_now strands the row, and nothing else does.
LEMMA FaultOwned ==
    TypeOK /\ SendingIsOwned /\ (\E w \in Workers : Fault(w)) => SendingIsOwned'
<1> SUFFICES ASSUME TypeOK, SendingIsOwned, NEW w \in Workers, Fault(w)
             PROVE  SendingIsOwned'
  OBVIOUS
<1>1. CASE Raise(w)
  BY <1>1, OwnedBusy DEF Raise, TypeOK, Raising, IdleWorker
<1>2. CASE RequeueFails(w)
  <2>1. stranded' = stranded \cup {worker[w].id}
    BY <1>2 DEF RequeueFails
  <2> QED
    BY <1>2, <2>1, OwnedDone DEF RequeueFails
<1> QED
  BY <1>1, <1>2 DEF Fault

\* Ingress, dashboard, sweep and time flip no row to sending.
LEMMA OthersOwned ==
    TypeOK /\ SendingIsOwned /\ (Ingress \/ Operate \/ Housekeep \/ Tick)
      => SendingIsOwned'
<1> SUFFICES ASSUME TypeOK, SendingIsOwned,
                    Ingress \/ Operate \/ Housekeep \/ Tick
             PROVE  SendingIsOwned'
  OBVIOUS
<1> DEFINE NoNewSending ==
      /\ UNCHANGED <<dispatchVars, stranded>>
      /\ \A i \in Ids : rows'[i].status = "sending" => rows[i].status = "sending"
<1>1. CASE Ingress
  <2> SUFFICES ASSUME NEW m \in Msgs, \/ HandleDataSpool(m)
                                      \/ HandleDataEnqueue(m)
                                      \/ HandleDataFail(m)
               PROVE  NoNewSending
    BY <1>1, OwnedOutside DEF Ingress
  <2> QED
    BY DEF HandleDataSpool, HandleDataEnqueue, HandleDataFail, NewRow, TypeOK
<1>2. CASE Operate
  <2>1. ASSUME NEW r \in Requests, RequeueWrite(r) PROVE NoNewSending
    <3>1. request[r].id \in Ids
      BY <2>1, BusyRequest DEF RequeueWrite
    <3> DEFINE row == [rows[request[r].id] EXCEPT
                         !.status = "queued", !.wait = 0,
                         !.attempts = IF request[r].attempts = 0 THEN @ ELSE 0]
    <3>2. row.status # "sending"
      BY <3>1 DEF TypeOK, RowType, AbsentRow
    <3> QED
      BY <2>1, <3>1, <3>2, UpdateRowStatus DEF RequeueWrite
  <2>2. ASSUME NEW r \in Requests, DeleteWrite(r) PROVE NoNewSending
    BY <2>2 DEF DeleteWrite, TypeOK, AbsentRow
  <2>3. ASSUME NEW r \in Requests, NEW i \in Ids,
               RequeueRead(r, i) \/ DeleteRead(r, i) \/ DeleteUnlink(r)
        PROVE  NoNewSending
    BY <2>3 DEF RequeueRead, DeleteRead, DeleteUnlink
  <2>4. ASSUME NEW r \in Requests, DeleteUnlink(r) PROVE NoNewSending
    BY <2>4 DEF DeleteUnlink
  <2>5. ASSUME NEW p \in Providers, SetEnabled(p) PROVE NoNewSending
    BY <2>5 DEF SetEnabled
  <2> QED
    BY <1>2, <2>1, <2>2, <2>3, <2>4, <2>5, OwnedOutside DEF Operate
<1>3. CASE Housekeep
  <2>1. NoNewSending
    BY <1>3 DEF Housekeep, SweepSelect, SweepDelete, SweepUnlink, AbsentRow
  <2> QED
    BY <2>1, OwnedOutside
<1>4. CASE Tick
  <2>1. \A i \in Ids : Sooner(rows[i]).status = rows[i].status
    BY DEF TypeOK, Sooner, RowType, AbsentRow
  <2>2. NoNewSending
    BY <1>4, <2>1 DEF Tick
  <2> QED
    BY <2>2, OwnedOutside
<1> QED
  BY <1>1, <1>2, <1>3, <1>4

\* A failed transaction changes no row and takes no claimed id away.
LEMMA RollbackOwned ==
    TypeOK /\ SendingIsOwned /\ Rollback => SendingIsOwned'
<1> SUFFICES ASSUME TypeOK, SendingIsOwned, Rollback PROVE SendingIsOwned'
  OBVIOUS
<1>1. UNCHANGED <<rows, queue, worker, stranded>>
  BY DEF Rollback, ClaimFails, RequestFails, SweepFails, dispatchVars
<1>2. \A i \in Ids : Claimed(i) => Claimed(i)'
  BY DEF Rollback, ClaimFails, RequestFails, SweepFails, dispatchVars, Claimed
<1> QED
  BY <1>1, <1>2 DEF SendingIsOwned, Owned, Owns, Queued

\* After a restart no row is in sending.
LEMMA RestartOwned == TypeOK /\ Restart => SendingIsOwned'
<1> SUFFICES ASSUME TypeOK, Restart, NEW i \in Ids
             PROVE  rows'[i].status # "sending"
  BY DEF SendingIsOwned
<1>1. CASE rows[i].status = "sending"
  BY <1>1 DEF Restart, Orphaned, TypeOK, RowType, AbsentRow
<1>2. CASE rows[i].status # "sending"
  BY <1>2 DEF Restart, Orphaned
<1> QED
  BY <1>1, <1>2

\* No message is ever left in sending without a task that will settle it:
\* whatever requests race, ids are reused or tasks fail, a sending row is held
\* by the producer, the queue or a worker, or its _requeue_now has failed.
THEOREM SendingOwned == Spec => []SendingIsOwned
<1>1. Init => SendingIsOwned
  BY DEF Init, SendingIsOwned, AbsentRow
<1>2. TypeOK /\ SendingIsOwned /\ UNCHANGED vars => SendingIsOwned'
  BY DEF SendingIsOwned, Owned, Owns, Queued, Claimed, vars, dispatchVars
<1>3. TypeOK /\ SendingIsOwned /\ [Next]_vars => SendingIsOwned'
  BY <1>2, ProduceOwned, ConsumeOwned, FaultOwned, OthersOwned, RollbackOwned,
     RestartOwned
  DEF Next
<1> QED
  BY <1>1, <1>3, TypeCorrect, PTL DEF Spec
=============================================================================
