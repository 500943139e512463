--------------------- MODULE DispatcherRefinementProofs ---------------------
(***************************************************************************)
(* What the dispatcher promises of a message as a whole: with unique ids   *)
(* and requests that do not overlap it implements MessageQueue, and it     *)
(* takes a message to a provider a second time only for the reasons the    *)
(* history of DispatcherHistory names.                                     *)
(***************************************************************************)
EXTENDS OwnershipProofs, DispatcherRefinement, DispatcherHistory

-----------------------------------------------------------------------------
(* The mapping *)

\* Where a message without a row is.
NoRowStatus(m) == IF stage[m] = "accepted" THEN "gone"
                  ELSE IF stage[m] = "refused" THEN "refused" ELSE "new"

\* The mapping read off the table: each row tells where its message is.
StatusTable ==
    /\ \A i \in Ids : Exists(i) =>
         /\ rows[i].body \in Msgs
         /\ stage[rows[i].body] = "accepted"
         /\ StatusOf(rows[i].body) = StatusName(rows[i].status)
    /\ \A m \in Msgs : (\A i \in Ids : ~(Exists(i) /\ rows[i].body = m)) =>
         StatusOf(m) = NoRowStatus(m)

\* A message has at most one row, so the CHOOSE of StatusOf finds it.
LEMMA StatusRead == TypeOK /\ BodyInv => StatusTable
<1> SUFFICES ASSUME TypeOK, BodyInv PROVE StatusTable
  OBVIOUS
<1>1. \A i \in Ids : Exists(i) <=> rows[i].body \in Msgs
  <2> TAKE i \in Ids
  <2>1. rows[i] \in RowType \/ rows[i] = AbsentRow
    BY DEF TypeOK
  <2> QED
    BY <2>1, ConstantsAssumption DEF Exists, RowType, AbsentRow, Terminal
<1>2. ASSUME NEW i \in Ids, Exists(i)
      PROVE  StatusOf(rows[i].body) = StatusName(rows[i].status)
  <2> DEFINE m == rows[i].body
  <2>1. \A j \in Ids : rows[j].body = m => j = i
    BY <1>1, <1>2 DEF BodyInv, RowsNamed
  <2>2. (CHOOSE j \in Ids : rows[j].body = m) = i
    BY <2>1
  <2> QED
    BY <2>2 DEF StatusOf
<1>3. \A i \in Ids : Exists(i) => stage[rows[i].body] = "accepted"
  BY <1>1 DEF BodyInv, RowsNamed
<1>4. ASSUME NEW m \in Msgs, \A i \in Ids : ~(Exists(i) /\ rows[i].body = m)
      PROVE  StatusOf(m) = NoRowStatus(m)
  BY <1>1, <1>4 DEF StatusOf, NoRowStatus
<1> QED
  BY <1>1, <1>2, <1>3, <1>4 DEF StatusTable

-----------------------------------------------------------------------------
(* Kinds of moves *)

\* A step of the abstract queue, or none.
Simulated == Queue!Next \/ UNCHANGED <<QueueStatus, delivered>>

\* Rows that stay with their messages, in states or out of them.
LEMMA StaySame ==
    ASSUME StatusTable, StatusTable', UNCHANGED stage,
           \A i \in Ids : rows'[i].body = rows[i].body /\ rows'[i].status = rows[i].status
    PROVE  QueueStatus' = QueueStatus
<1> SUFFICES ASSUME NEW m \in Msgs PROVE StatusOf(m)' = StatusOf(m)
  BY DEF QueueStatus
<1>1. CASE \E i \in Ids : Exists(i) /\ rows[i].body = m
  BY <1>1 DEF StatusTable, Exists
<1>2. CASE \A i \in Ids : ~(Exists(i) /\ rows[i].body = m)
  BY <1>2 DEF StatusTable, Exists, NoRowStatus
<1> QED
  BY <1>1, <1>2

\* One row changes its status, and its message moves.
LEMMA OneMoves ==
    ASSUME StatusTable, StatusTable', UNCHANGED stage, NEW i \in Ids,
           Exists(i), Exists(i)', rows'[i].body = rows[i].body,
           \A j \in Ids \ {i} : rows'[j].body = rows[j].body
                                /\ rows'[j].status = rows[j].status
    PROVE  QueueStatus' = [QueueStatus EXCEPT ![rows[i].body] = StatusName(rows'[i].status)]
<1> SUFFICES ASSUME NEW m \in Msgs
             PROVE  StatusOf(m)' = IF m = rows[i].body THEN StatusName(rows'[i].status)
                                   ELSE StatusOf(m)
  BY DEF QueueStatus
<1>1. CASE m = rows[i].body
  BY <1>1 DEF StatusTable
<1>2. CASE m # rows[i].body /\ \E j \in Ids : Exists(j) /\ rows[j].body = m
  <2>1. PICK j \in Ids : Exists(j) /\ rows[j].body = m
    BY <1>2
  <2>2. j # i /\ Exists(j)'
    BY <1>2, <2>1 DEF Exists
  <2> QED
    BY <1>2, <2>1, <2>2 DEF StatusTable
<1>3. CASE m # rows[i].body /\ \A j \in Ids : ~(Exists(j) /\ rows[j].body = m)
  <2>1. \A j \in Ids : ~(Exists(j)' /\ rows'[j].body = m)
    BY <1>3 DEF Exists
  <2> QED
    BY <1>3, <2>1 DEF StatusTable, NoRowStatus
<1> QED
  BY <1>1, <1>2, <1>3

\* The rows of D go, and their messages are gone.
LEMMA SomeGo ==
    ASSUME TypeOK, BodyInv, StatusTable, StatusTable', UNCHANGED <<stage, delivered>>,
           NEW D \in SUBSET Ids,
           \A i \in D : ~Exists(i)',
           \A i \in Ids \ D : rows'[i] = rows[i]
    PROVE  Simulated
<1> DEFINE some == {rows[i].body : i \in {j \in D : Exists(j)}}
<1>1. some \in SUBSET Msgs
  BY DEF StatusTable
<1>2. \A m \in some : QueueStatus[m] \notin {"new", "refused"}
  <2> SUFFICES ASSUME NEW i \in D, Exists(i)
               PROVE  StatusOf(rows[i].body) \notin {"new", "refused"}
    BY <1>1 DEF QueueStatus
  <2>1. rows[i].status \in {"queued", "sending"} \cup Terminal
    BY ExistingRow DEF RowType
  <2> QED
    BY <2>1 DEF StatusTable, StatusName, Terminal
<1>3. QueueStatus' = [m \in Msgs |-> IF m \in some THEN "gone" ELSE QueueStatus[m]]
  <2> SUFFICES ASSUME NEW m \in Msgs
               PROVE  StatusOf(m)' = IF m \in some THEN "gone" ELSE StatusOf(m)
    BY DEF QueueStatus
  <2>1. CASE m \in some
    <3>1. PICK i \in D : Exists(i) /\ rows[i].body = m
      BY <2>1
    <3>2. \A j \in Ids : rows[j].body = m => j = i
      BY <3>1 DEF BodyInv, RowsNamed
    <3>3. \A j \in Ids : ~(Exists(j)' /\ rows'[j].body = m)
      BY <3>1, <3>2 DEF Exists
    <3>4. stage'[m] = "accepted"
      BY <3>1 DEF StatusTable
    <3> QED
      BY <2>1, <3>3, <3>4 DEF StatusTable, NoRowStatus
  <2>2. CASE m \notin some /\ \E j \in Ids : Exists(j) /\ rows[j].body = m
    <3>1. PICK j \in Ids : Exists(j) /\ rows[j].body = m
      BY <2>2
    <3>2. j \notin D
      BY <2>2, <3>1
    <3> QED
      BY <2>2, <3>1, <3>2 DEF StatusTable, Exists
  <2>3. CASE m \notin some /\ \A j \in Ids : ~(Exists(j) /\ rows[j].body = m)
    <3>1. \A j \in Ids : ~(Exists(j)' /\ rows'[j].body = m)
      BY <2>3 DEF Exists
    <3> QED
      BY <2>3, <3>1 DEF StatusTable, NoRowStatus
  <2> QED
    BY <2>1, <2>2, <2>3
<1> HIDE DEF some
<1>4. Queue!Remove(some)
  BY <1>2, <1>3 DEF Queue!Remove
<1> QED
  BY <1>1, <1>4 DEF Simulated, Queue!Next

-----------------------------------------------------------------------------
(* The steps *)

\* What the steps below start from and end in.
RefInv == /\ TypeOK /\ BodyInv /\ IdInv /\ NameInv
          /\ SentInv /\ OwnInv /\ StatusTable

\* Files, failed inserts, time and what gives up.
LEMMA CalmSimulated ==
    ASSUME RefInv, StatusTable', Calm
    PROVE  Simulated
<1> USE DEF RefInv
<1>0. /\ \A i \in Ids : rows'[i].body = rows[i].body /\ rows'[i].status = rows[i].status
      /\ delivered' = delivered
  BY DEF Calm, RowSame
<1>1. CASE UNCHANGED stage
  BY <1>0, <1>1, StaySame DEF Simulated
<1>2. ASSUME NEW m \in Msgs, NEW s \in {"spooled", "refused"},
             stage[m] \in {"new", "spooled"}, stage' = [stage EXCEPT ![m] = s]
      PROVE  Simulated
  <2>1. \A i \in Ids : ~(Exists(i) /\ rows[i].body = m)
    BY <1>2 DEF StatusTable
  <2>2. \A n \in Msgs \ {m} : stage'[n] = stage[n]
    BY <1>2 DEF TypeOK
  <2>3. \A n \in Msgs \ {m} : StatusOf(n)' = StatusOf(n)
    <3> SUFFICES ASSUME NEW n \in Msgs \ {m} PROVE StatusOf(n)' = StatusOf(n)
      OBVIOUS
    <3>1. CASE \E i \in Ids : Exists(i) /\ rows[i].body = n
      BY <1>0, <3>1 DEF StatusTable, Exists
    <3>2. CASE \A i \in Ids : ~(Exists(i) /\ rows[i].body = n)
      BY <1>0, <2>2, <3>2 DEF StatusTable, Exists, NoRowStatus
    <3> QED
      BY <3>1, <3>2
  <2>4. StatusOf(m) = "new" /\ StatusOf(m)' = IF s = "refused" THEN "refused" ELSE "new"
    <3>1. stage'[m] = s
      BY <1>2 DEF TypeOK
    <3>2. StatusOf(m)' = NoRowStatus(m)'
      BY <1>0, <2>1 DEF StatusTable, Exists
    <3> QED
      BY <1>2, <2>1, <3>1, <3>2 DEF StatusTable, NoRowStatus
  <2>5. CASE s = "spooled"
    BY <1>0, <2>3, <2>4, <2>5 DEF Simulated, QueueStatus
  <2>6. CASE s = "refused"
    <3>1. Queue!Refuse(m)
      BY <1>0, <2>3, <2>4, <2>6 DEF Queue!Refuse, Queue!Move, QueueStatus
    <3> QED
      BY <3>1 DEF Simulated, Queue!Next
  <2> QED
    BY <2>5, <2>6
<1> QED
  BY <1>1, <1>2 DEF Calm

\* The row of a new message.
LEMMA EnqueueSimulated ==
    ASSUME RefInv, UniqueIds, StatusTable', NEW m \in Msgs, HandleDataEnqueue(m)
    PROVE  Simulated
<1> USE DEF RefInv
<1>1. PICK i \in Ids, wait \in -OverdueCap..0 :
          IsNewId(i) /\ rows' = [rows EXCEPT ![i] = NewRow(m, wait)]
  BY DEF HandleDataEnqueue
<1>2. i = lastId + 1 /\ lastId \in Nat
  BY <1>1, NewIds, ConstantTypes DEF TypeOK
<1>3. ~Exists(i)
  BY <1>2 DEF IdInv
<1>4. /\ rows'[i].body = m /\ rows'[i].status = "queued"
      /\ \A j \in Ids \ {i} : rows'[j] = rows[j]
  BY <1>1 DEF TypeOK, NewRow
<1>5. /\ stage[m] = "spooled" /\ stage' = [stage EXCEPT ![m] = "accepted"]
      /\ delivered' = delivered
  BY DEF HandleDataEnqueue
<1>6. StatusOf(m) = "new"
  <2>1. \A j \in Ids : ~(Exists(j) /\ rows[j].body = m)
    BY <1>5 DEF StatusTable
  <2> QED
    BY <1>5, <2>1 DEF StatusTable, NoRowStatus
<1>7. StatusOf(m)' = "waiting"
  BY <1>4 DEF StatusTable, StatusName, Exists
<1>8. ASSUME NEW n \in Msgs \ {m} PROVE StatusOf(n)' = StatusOf(n)
  <2>1. CASE \E j \in Ids : Exists(j) /\ rows[j].body = n
    <3>1. PICK j \in Ids : Exists(j) /\ rows[j].body = n
      BY <2>1
    <3>2. j # i
      BY <1>3, <3>1
    <3> QED
      BY <1>4, <3>1, <3>2 DEF StatusTable, Exists
  <2>2. CASE \A j \in Ids : ~(Exists(j) /\ rows[j].body = n)
    <3>1. \A j \in Ids : ~(Exists(j)' /\ rows'[j].body = n)
      BY <1>4, <2>2 DEF Exists
    <3>2. stage'[n] = stage[n]
      BY <1>5 DEF TypeOK
    <3> QED
      BY <2>2, <3>1, <3>2 DEF StatusTable, NoRowStatus
  <2> QED
    BY <2>1, <2>2
<1>9. Queue!Accept(m)
  BY <1>5, <1>6, <1>7, <1>8 DEF Queue!Accept, Queue!Move, QueueStatus
<1> QED
  BY <1>9 DEF Simulated, Queue!Next

\* A worker's step: it relays only what is claimed or gone, and settles only
\* what is claimed.
LEMMA WorkerSimulated ==
    ASSUME RefInv, StatusTable', NEW w \in Workers, Working(w) \/ Done(w) \/ Take(w)
    PROVE  Simulated
<1> USE DEF RefInv
<1>1. CASE Working(w)
  <2> DEFINE m == worker[w].body
             i == worker[w].id
  <2>1. /\ m \in Msgs /\ i \in Ids /\ stage[m] = "accepted"
        /\ Exists(i) => rows[i].body = m
        /\ \A j \in Ids : rows[j].body = m => j = i
    BY <1>1, BusyWorker DEF Working, NameInv, OnlyAt
  <2>2. Exists(i) => rows[i].status = "sending"
    <3>1. Owned(i)
      BY <1>1, <2>1 DEF Working, Owned, Owns
    <3>2. Exists(i) => rows[i].status \in {"queued", "sending"} \cup Terminal
      BY <2>1, ExistingRow DEF RowType
    <3> QED
      BY <2>1, <3>1, <3>2 DEF OwnInv
  <2>3. StatusOf(m) \in {"claimed", "gone"}
    <3>1. CASE Exists(i)
      BY <2>1, <2>2, <3>1 DEF StatusTable, StatusName
    <3>2. CASE ~Exists(i)
      <4>1. \A j \in Ids : ~(Exists(j) /\ rows[j].body = m)
        BY <2>1, <3>2
      <4> QED
        BY <2>1, <4>1 DEF StatusTable, NoRowStatus
    <3> QED
      BY <3>1, <3>2
  <2>4. QueueStatus' = QueueStatus
    BY <1>1, StaySame DEF Working, RowSame
  <2>5. delivered' \in {delivered, delivered \cup {m}}
    BY <1>1 DEF Working
  <2> HIDE DEF m
  <2>6. CASE delivered' = delivered \cup {m}
    BY <2>1, <2>3, <2>4, <2>6 DEF Simulated, Queue!Next, Queue!Deliver, QueueStatus
  <2> QED
    BY <2>4, <2>5, <2>6 DEF Simulated
<1>2. CASE Done(w)
  <2>1. PICK i \in Ids : i = worker[w].id
    BY <1>2, BusyWorker DEF Done
  <2>2. UNCHANGED <<stage, delivered>> /\ \A j \in Ids \ {i} : RowSame(j)
    BY <1>2, <2>1 DEF Done
  <2>3. CASE RowSame(i)
    BY <2>2, <2>3, StaySame DEF Simulated, RowSame
  <2>4. CASE ~RowSame(i)
    <3>1. /\ Exists(i) /\ rows'[i].body = rows[i].body
          /\ rows'[i].status \in {"queued"} \cup Terminal
          /\ rows'[i].status = "sent" => worker[w].verdict = "sent"
      BY <1>2, <2>1, <2>4 DEF Done, Exists
    <3>2. rows[i].status = "sending"
      <4>1. Owned(i)
        BY <1>2, <2>1 DEF Done, Owned, Owns
      <4>2. rows[i].status \in {"queued", "sending"} \cup Terminal
        BY <3>1, ExistingRow DEF RowType
      <4> QED
        BY <4>1, <4>2 DEF OwnInv
    <3> DEFINE m == rows[i].body
    <3>3. QueueStatus' = [QueueStatus EXCEPT ![m] = StatusName(rows'[i].status)]
      <4>1. Exists(i)'
        BY <3>1 DEF Exists, Terminal
      <4> QED
        BY <2>2, <3>1, <4>1, OneMoves DEF RowSame
    <3>4. m \in Msgs /\ QueueStatus[m] = "claimed"
      BY <3>1, <3>2 DEF StatusTable, QueueStatus, StatusName
    <3>5. rows'[i].status = "sent" => m \in delivered
      BY <1>2, <2>1, <3>1 DEF Done, NameInv, SentInv
    <3> HIDE DEF m
    <3>6. Queue!PutBack(m) \/ Queue!Send(m) \/ Queue!GiveUp(m)
      BY <2>2, <3>1, <3>3, <3>4, <3>5
      DEF Queue!PutBack, Queue!Send, Queue!GiveUp, Queue!Move, StatusName, Terminal
    <3> QED
      BY <3>4, <3>6 DEF Simulated, Queue!Next
  <2> QED
    BY <2>3, <2>4
<1>3. CASE Take(w)
  BY <1>3, StaySame DEF Take, Simulated, ingressVars
<1> QED
  BY <1>1, <1>2, <1>3

\* The producer claims what waits.
LEMMA ClaimSimulated ==
    ASSUME RefInv, StatusTable', ClaimUpdate
    PROVE  Simulated
<1> USE DEF RefInv
<1> DEFINE batch == {rows[i].body : i \in {j \in producer.ids : Exists(j)}}
<1>1. /\ producer.ids \subseteq Ids
      /\ \A i \in producer.ids : Exists(i) => rows[i].status = "queued"
  BY DEF ClaimUpdate, OwnInv, WaitInv, TypeOK, ProducerType, Exists
<1>2. batch \in SUBSET Msgs
  BY <1>1 DEF StatusTable
<1>3. \A m \in batch : QueueStatus[m] = "waiting"
  BY <1>1, <1>2 DEF StatusTable, QueueStatus, StatusName
<1>4. /\ UNCHANGED <<stage, delivered>>
      /\ \A i \in Ids : /\ rows'[i].body = rows[i].body
                        /\ Exists(i)' <=> Exists(i)
                        /\ rows'[i].status = IF i \in producer.ids /\ Exists(i)
                                             THEN "sending" ELSE rows[i].status
  BY DEF ClaimUpdate, TypeOK, RowType, AbsentRow, Exists, ingressVars
<1>5. QueueStatus' = [m \in Msgs |-> IF m \in batch THEN "claimed" ELSE QueueStatus[m]]
  <2> SUFFICES ASSUME NEW m \in Msgs
               PROVE  StatusOf(m)' = IF m \in batch THEN "claimed" ELSE StatusOf(m)
    BY DEF QueueStatus
  <2>1. CASE m \in batch
    <3>1. PICK i \in producer.ids : Exists(i) /\ rows[i].body = m
      BY <2>1
    <3> QED
      BY <1>1, <1>4, <2>1, <3>1 DEF StatusTable, StatusName
  <2>2. CASE m \notin batch /\ \E i \in Ids : Exists(i) /\ rows[i].body = m
    <3>1. PICK i \in Ids : Exists(i) /\ rows[i].body = m
      BY <2>2
    <3>2. i \notin producer.ids
      BY <2>2, <3>1
    <3> QED
      BY <1>4, <2>2, <3>1, <3>2 DEF StatusTable
  <2>3. CASE m \notin batch /\ \A i \in Ids : ~(Exists(i) /\ rows[i].body = m)
    BY <1>4, <2>3 DEF StatusTable, NoRowStatus
  <2> QED
    BY <2>1, <2>2, <2>3
<1> HIDE DEF batch
<1>6. Queue!Claim(batch)
  BY <1>3, <1>4, <1>5 DEF Queue!Claim
<1> QED
  BY <1>2, <1>6 DEF Simulated, Queue!Next

\* A restart: what was claimed waits again.
LEMMA RestartSimulated ==
    ASSUME RefInv, StatusTable', Restart
    PROVE  Simulated
<1> USE DEF RefInv
<1> DEFINE lost == {m \in Msgs : stage[m] = "spooled"}
<1>1. /\ delivered' = delivered
      /\ \A m \in Msgs : stage'[m] = IF m \in lost THEN "refused" ELSE stage[m]
      /\ \A i \in Ids : /\ rows'[i].body = rows[i].body
                        /\ Exists(i)' <=> Exists(i)
                        /\ rows'[i].status = IF rows[i].status = "sending" THEN "queued"
                                             ELSE rows[i].status
  BY DEF Restart, Orphaned, TypeOK, RowType, AbsentRow, Exists
<1>2. \A m \in lost : StatusOf(m) = "new"
  BY DEF StatusTable, NoRowStatus
<1>3. ASSUME NEW m \in Msgs
      PROVE  StatusOf(m)' = IF StatusOf(m) = "claimed" THEN "waiting"
                            ELSE IF m \in lost THEN "refused" ELSE StatusOf(m)
  <2>1. CASE \E i \in Ids : Exists(i) /\ rows[i].body = m
    <3>1. PICK i \in Ids : Exists(i) /\ rows[i].body = m
      BY <2>1
    <3>2. StatusOf(m) = StatusName(rows[i].status) /\ StatusOf(m)' = StatusName(rows'[i].status)
      BY <1>1, <3>1 DEF StatusTable
    <3>3. rows[i].status \in {"queued", "sending"} \cup Terminal /\ m \notin lost
      BY <3>1, ExistingRow DEF RowType, StatusTable
    <3> QED
      BY <1>1, <3>2, <3>3 DEF StatusName, Terminal
  <2>2. CASE \A i \in Ids : ~(Exists(i) /\ rows[i].body = m)
    <3>1. StatusOf(m) = NoRowStatus(m) /\ StatusOf(m)' = NoRowStatus(m)'
      BY <1>1, <2>2 DEF StatusTable
    <3> QED
      BY <1>1, <3>1 DEF NoRowStatus
  <2> QED
    BY <2>1, <2>2
<1> HIDE DEF lost
<1>4. Queue!Recover(lost)
  BY <1>1, <1>2, <1>3 DEF Queue!Recover, QueueStatus, lost
<1> QED
  BY <1>4 DEF Simulated, Queue!Next, lost

\* Every step of the dispatcher is a step of the abstract queue or none.
LEMMA StepSimulated ==
    ASSUME RefInv, UniqueIds, StatusTable', [Next]_vars
    PROVE  Simulated
<1> USE DEF RefInv, dispatchVars, ingressVars, adminVars
<1>1. CASE \/ ClaimSelect \/ ClaimFails \/ \E i \in Ids : PutQueue(i)
           \/ \E r \in Requests, i \in Ids : RequeueRead(r, i) \/ DeleteRead(r, i)
           \/ \E s \in Terminal : SweepSelect(s)
  <2>1. UNCHANGED <<rows, stage, delivered>>
    BY <1>1 DEF ClaimSelect, ClaimFails, PutQueue, RequeueRead, DeleteRead, SweepSelect
  <2> QED
    BY <2>1, StaySame DEF Simulated
<1>2. ASSUME NEW r \in Requests, Requeues(r) PROVE Simulated
  <2>1. PICK i \in Ids : i = request[r].id
    BY <1>2, BusyRequest DEF Requeues
  <2>2. UNCHANGED <<stage, delivered>> /\ \A j \in Ids \ {i} : RowSame(j)
    BY <1>2, <2>1 DEF Requeues
  <2>3. CASE RowSame(i)
    BY <2>2, <2>3, StaySame DEF Simulated, RowSame
  <2>4. CASE ~RowSame(i)
    <3>1. Exists(i) /\ rows'[i].body = rows[i].body /\ rows'[i].status = "queued"
      BY <1>2, <2>1, <2>4 DEF Requeues, Exists
    <3>2. rows[i].status \in Terminal
      BY <1>2, <2>1, <3>1 DEF Requeues, OwnInv, WaitInv, Exists
    <3> DEFINE m == rows[i].body
    <3>3. QueueStatus' = [QueueStatus EXCEPT ![m] = "waiting"]
      <4>1. Exists(i)' /\ StatusName(rows'[i].status) = "waiting"
        BY <3>1 DEF Exists, StatusName
      <4> QED
        BY <2>2, <3>1, <4>1, OneMoves DEF RowSame
    <3>4. m \in Msgs /\ QueueStatus[m] \in {"sent", "dead"}
      BY <3>1, <3>2 DEF StatusTable, QueueStatus, StatusName, Terminal
    <3> HIDE DEF m
    <3> QED
      BY <2>2, <3>3, <3>4 DEF Simulated, Queue!Next, Queue!Requeue, Queue!Move
  <2> QED
    BY <2>3, <2>4
<1>3. ASSUME NEW r \in Requests, DeleteWrite(r) PROVE Simulated
  <2>1. PICK i \in Ids : i = request[r].id
    BY <1>3, BusyRequest DEF DeleteWrite
  <2>2. /\ UNCHANGED <<stage, delivered>> /\ ~Exists(i)'
        /\ \A j \in Ids \ {i} : rows'[j] = rows[j]
    BY <1>3, <2>1 DEF DeleteWrite, TypeOK, AbsentRow, Exists
  <2>3. {i} \in SUBSET Ids
    OBVIOUS
  <2> QED
    BY <2>2, <2>3, SomeGo
<1>4. CASE SweepDelete
  <2>1. SweptIds \in SUBSET Ids
    BY DEF SweptIds, TypeOK, SweepType
  <2>2. PICK D \in SUBSET Ids : D = SweptIds
    BY <2>1
  <2>3. /\ UNCHANGED <<stage, delivered>>
        /\ \A i \in D : ~Exists(i)'
        /\ \A i \in Ids \ D : rows'[i] = rows[i]
    BY <1>4, <2>2 DEF SweepDelete, AbsentRow, Exists
  <2> QED
    BY <2>3, SomeGo
<1> QED
  BY <1>1, <1>2, <1>3, <1>4, CalmSimulated, EnqueueSimulated, WorkerSimulated,
     ClaimSimulated, RestartSimulated, Kinds

\* With unique ids and requests that do not overlap, the dispatcher with its
\* tables, tasks, faults and restarts implements the queue the README promises:
\* no message is relayed that waits or is settled, none is marked sent that no
\* provider took, and none changes state through another one's row.
THEOREM QueueImplemented ==
    ASSUME UniqueIds, OneRequest
    PROVE  Spec => ImplementsQueue
<1>1. Init => Queue!Init
  <2> SUFFICES ASSUME Init PROVE Queue!Init
    OBVIOUS
  <2>1. \A m \in Msgs : StatusOf(m) = "new"
    BY ConstantsAssumption DEF Init, StatusOf, AbsentRow
  <2> QED
    BY <2>1 DEF Init, Queue!Init, QueueStatus
<1>2. RefInv /\ StatusTable' /\ [Next]_vars => [Queue!Next]_(Queue!vars)
  BY StepSimulated DEF Simulated, Queue!vars
<1>3. Spec => []SentInv
  <2>1. Init => SentInv
    BY DEF Init, SentInv, SentMeansDelivered, AbsentRow, IdleWorker
  <2>2. TypeOK /\ IdInv /\ NameInv /\ SentInv /\ [Next]_vars => SentInv'
    BY SentStep
  <2> QED
    BY <2>1, <2>2, TypeCorrect, NamesHold, PTL DEF Spec
<1>4. Spec => []RefInv
  <2>1. TypeOK /\ BodyInv /\ IdInv /\ NameInv /\ SentInv /\ OwnInv => RefInv
    BY StatusRead DEF RefInv
  <2> QED
    BY <1>3, <2>1, TypeCorrect, BodyHolds, NamesHold, OwnHolds, PTL
<1>5. RefInv => StatusTable
  BY DEF RefInv
<1> QED
  BY <1>1, <1>2, <1>4, <1>5, PTL DEF Spec, ImplementsQueue, Queue!Spec

-----------------------------------------------------------------------------
(* Second deliveries *)

\* The messages a second delivery of which nothing explains.
Secret == delivered \ excused

\* A step with its history.
Recorded == [Next /\ excused' = excused \cup Excuses]_historyVars

\* A message becomes one only by an answer its worker has heard, and stays one
\* only while that answer is not lost and nobody requeues the message.
LEMMA SecretSteps ==
    ASSUME TypeOK', Recorded, NEW m \in Secret'
    PROVE  /\ m \in Msgs
           /\ \/ m \in Secret /\ ~Forgotten(m) /\ ~Requeued(m)
              \/ UNCHANGED historyVars
              \/ /\ m \notin delivered
                 /\ \E w \in Workers : worker'[w].body = m /\ worker'[w].verdict = "sent"
<1>1. m \in Msgs
  BY DEF Secret, TypeOK
<1>2. CASE UNCHANGED historyVars
  BY <1>1, <1>2
<1>3. CASE excused' = excused \cup Excuses
  <2>1. m \notin excused /\ ~Unreported(m) /\ ~Forgotten(m) /\ ~Requeued(m)
    BY <1>1, <1>3 DEF Secret, Excuses
  <2>2. m \in delivered'
    BY DEF Secret
  <2> QED
    BY <1>1, <2>1, <2>2 DEF Secret, Unreported
<1> QED
  BY <1>2, <1>3 DEF Recorded

\* Only a worker that is about to write has a verdict.
VerdictInv == \A w \in Workers : worker[w].pc # "write" => worker[w].verdict = "none"

\* A worker that has heard of an acceptance writes it into the row next, unless
\* a fault or a stop comes first.
LEMMA AnswerSteps ==
    ASSUME TypeOK, VerdictInv, [Next]_vars, NEW w \in Workers,
           worker[w].verdict = "sent", worker'[w] # worker[w]
    PROVE  MarkSent(w) \/ faults' > faults
<1> USE DEF dispatchVars, ingressVars, adminVars, TypeOK
<1>0. worker[w].pc = "write" /\ faults \in Nat
  BY ConstantTypes DEF VerdictInv
<1>1. CASE Ingress \/ Produce \/ Operate \/ Housekeep \/ Tick \/ UNCHANGED vars
  BY <1>1 DEF Ingress, HandleDataSpool, HandleDataEnqueue, HandleDataFail, Produce,
     ClaimSelect, ClaimUpdate, PutQueue, Operate, RequeueRead, RequeueWrite, DeleteRead,
     DeleteWrite, DeleteUnlink, SetEnabled, Housekeep, SweepSelect, SweepDelete,
     SweepUnlink, Tick, vars
<1>2. CASE Rollback \/ Restart
  BY <1>0, <1>2 DEF Rollback, ClaimFails, RequestFails, SweepFails, Restart
<1>3. ASSUME NEW v \in Workers, Consume(v) \/ Fault(v)
      PROVE  MarkSent(w) \/ faults' > faults
  <2>1. CASE v # w
    BY <1>3, <2>1 DEF Consume, Take, ReadSpool, Attempt, GiveUp, MarkSent, Deadletter,
       Reschedule, RequeueNow, Fault, Raise, RequeueFails
  <2>2. CASE v = w
    BY <1>0, <1>3, <2>2 DEF Consume, Take, ReadSpool, Attempt, GiveUp, Deadletter,
       Reschedule, RequeueNow, Fault, Raise, RequeueFails
  <2> QED
    BY <2>1, <2>2
<1> QED
  BY <1>1, <1>2, <1>3 DEF Next

\* Every step keeps VerdictInv.
LEMMA VerdictStep ==
    ASSUME TypeOK, VerdictInv, [Next]_vars
    PROVE  VerdictInv'
<1> USE DEF dispatchVars, ingressVars, adminVars
<1>0. IdleWorker.verdict = "none" /\ \A i : Snapshot(i).verdict = "none"
  BY DEF IdleWorker, Snapshot
<1>1. CASE UNCHANGED worker
  BY <1>1 DEF VerdictInv
<1>2. ASSUME NEW w \in Workers, NEW wk, worker' = [worker EXCEPT ![w] = wk],
             wk.pc # "write" => wk.verdict = "none"
      PROVE  VerdictInv'
  BY <1>2 DEF VerdictInv, TypeOK
<1>3. ASSUME NEW w \in Workers, Done(w) \/ Take(w) PROVE VerdictInv'
  BY <1>0, <1>2, <1>3 DEF Done, Take
<1>4. ASSUME NEW w \in Workers, ReadSpool(w) \/ GiveUp(w) \/ Raise(w) PROVE VerdictInv'
  <2>1. /\ \A v, d : Settling(worker[w], v, d).pc = "write"
        /\ Raising(worker[w]).verdict = "none"
    BY DEF Settling, Raising, IdleWorker
  <2>2. CASE ReadSpool(w)
    <3> DEFINE dead == Settling(worker[w], "dead", 0)
               routed == [worker[w] EXCEPT !.pc = "route"]
    <3>1. dead.pc = "write" /\ routed.verdict = "none"
      <4>1. worker[w] \in BusyWorkerType /\ worker[w].verdict = "none"
        BY <2>2, BusyWorker DEF ReadSpool, VerdictInv
      <4> QED
        BY <2>1, <4>1 DEF BusyWorkerType
    <3>2. \/ worker' = [worker EXCEPT ![w] = dead]
          \/ worker' = [worker EXCEPT ![w] = routed]
      BY <2>2 DEF ReadSpool
    <3> HIDE DEF dead, routed
    <3> QED
      BY <1>2, <3>1, <3>2
  <2>3. CASE GiveUp(w)
    <3>1. PICK d : worker' = [worker EXCEPT ![w] = Settling(worker[w], Verdict(worker[w], d), d)]
      BY <2>3 DEF GiveUp
    <3> QED
      BY <1>2, <2>1, <3>1
  <2>4. CASE Raise(w)
    BY <1>2, <2>1, <2>4 DEF Raise
  <2> QED
    BY <1>4, <2>2, <2>3, <2>4
<1>5. ASSUME NEW w \in Workers, NEW p \in Providers, NEW o \in Outcomes, Attempt(w, p, o)
      PROVE  VerdictInv'
  <2>1. worker[w] \in BusyWorkerType /\ worker[w].verdict = "none"
    BY <1>5, BusyWorker DEF Attempt, VerdictInv
  <2>2. /\ Settling(worker[w], "sent", 0).pc = "write"
        /\ Raising(worker[w]).verdict = "none"
        /\ [worker[w] EXCEPT !.tried = @ \cup {p},
                             !.onlyPermanent = @ /\ o = "permanent"].verdict = "none"
    BY <2>1 DEF Settling, Raising, IdleWorker, BusyWorkerType
  <2> QED
    BY <1>2, <1>5, <2>2 DEF Attempt, AfterAttempt
<1>6. CASE Restart
  BY <1>0, <1>6 DEF Restart, VerdictInv
<1>7. CASE Ingress \/ Produce \/ Operate \/ Housekeep \/ Rollback \/ Tick \/ UNCHANGED vars
  BY <1>1, <1>7 DEF Ingress, HandleDataSpool, HandleDataEnqueue, HandleDataFail, Produce,
     ClaimSelect, ClaimUpdate, PutQueue, Operate, RequeueRead, RequeueWrite, DeleteRead,
     DeleteWrite, DeleteUnlink, SetEnabled, Housekeep, SweepSelect, SweepDelete,
     SweepUnlink, Rollback, ClaimFails, RequestFails, SweepFails, Tick, vars
<1>8. ASSUME NEW w \in Workers, Consume(w) \/ Fault(w) PROVE VerdictInv'
  BY <1>3, <1>4, <1>5, <1>8, DoneSteps DEF Consume, Fault
<1> QED
  BY <1>6, <1>7, <1>8 DEF Next

\* A message whose second delivery nothing explains is in a row that says sent,
\* or with a worker that is about to say so.
SecretSeen ==
    /\ \A i \in Ids : rows[i].body \in Secret =>
         \/ rows[i].status = "sent"
         \/ \E w \in Workers : Owns(w, i) /\ worker[w].verdict = "sent"
    /\ \A w \in Workers : worker[w].body \in Secret => worker[w].verdict = "sent"

\* Workers that have the same message have it from the same row, and only
\* messages that were accepted are delivered.
SecretInv ==
    /\ SecretSeen
    /\ \A v, w \in Workers :
         worker[v].pc # "idle" /\ worker[w].pc # "idle" /\ worker[v].body = worker[w].body
         => worker[v].id = worker[w].id
    /\ \A m \in delivered : stage[m] = "accepted"

\* What the steps of a history start from.
HistoryInv == /\ TypeOK /\ BodyInv /\ IdInv /\ NameInv /\ SentInv /\ OwnInv
              /\ VerdictInv /\ SecretInv

\* A worker that remembers a message has it, and no other worker does.
LEMMA WithMessage ==
    ASSUME HistoryInv, NEW w \in Workers, worker[w].body \in Msgs
    PROVE  /\ worker[w].pc # "idle" /\ worker[w].id \in Ids
           /\ OnlyAt(worker[w].body, worker[w].id)
           /\ Exists(worker[w].id) => rows[worker[w].id].body = worker[w].body
           /\ \A v \in Workers : worker[v].body = worker[w].body => v = w
<1>1. ASSUME NEW v \in Workers, worker[v].body = worker[w].body
      PROVE  worker[v].pc # "idle"
  <2>1. worker[v].body # NoBody
    BY <1>1, ConstantsAssumption
  <2>2. worker[v] \in BusyWorkerType \cup {IdleWorker}
    BY DEF HistoryInv, TypeOK
  <2> QED
    BY <2>1, <2>2 DEF IdleWorker, BusyWorkerType
<1>2. worker[w].pc # "idle" /\ worker[w].id \in Ids
  BY <1>1, BusyWorker DEF HistoryInv
<1>3. ASSUME NEW v \in Workers, worker[v].body = worker[w].body PROVE v = w
  <2>1. PICK i \in Ids : i = worker[w].id
    BY <1>2
  <2>2. worker[v].pc # "idle" /\ worker[v].id = i
    BY <1>1, <1>2, <1>3, <2>1 DEF HistoryInv, SecretInv
  <2> QED
    BY <1>2, <2>1, <2>2 DEF HistoryInv, OwnInv, Owns
<1> QED
  BY <1>2, <1>3 DEF HistoryInv, NameInv

\* Two workers that have the same message have it from the same row.
LEMMA SameRow ==
    ASSUME HistoryInv, [Next]_vars, NEW v \in Workers, NEW w \in Workers,
           worker'[v].pc # "idle", worker'[w].pc # "idle",
           worker'[v].body = worker'[w].body
    PROVE  worker'[v].id = worker'[w].id
<1> DEFINE Kept(u) == /\ worker[u].pc # "idle"
                      /\ worker'[u].id = worker[u].id /\ worker'[u].body = worker[u].body
           Reads(u) == /\ worker'[u].id \in Ids /\ Exists(worker'[u].id)
                       /\ worker'[u].body = rows[worker'[u].id].body
<1>1. \A u \in Workers : worker'[u].pc # "idle" => Kept(u) \/ Reads(u)
  BY WhoRemembers DEF HistoryInv
<1>2. \A u \in Workers : Kept(u) => OnlyAt(worker'[u].body, worker'[u].id)
  BY DEF HistoryInv, NameInv
<1>3. \A u \in Workers : Reads(u) => OnlyAt(worker'[u].body, worker'[u].id)
  BY RowBodies DEF HistoryInv, BodyInv, RowsNamed, OnlyAt
<1>4. CASE Kept(v) /\ Kept(w)
  BY <1>4 DEF HistoryInv, SecretInv
<1>5. CASE Reads(v) \/ Reads(w)
  BY <1>1, <1>2, <1>3, <1>5 DEF OnlyAt
<1> QED
  BY <1>1, <1>4, <1>5

\* A row that names a message exists.
LEMMA NamingRow ==
    ASSUME TypeOK, NEW i \in Ids, rows[i].body \in Msgs
    PROVE  Exists(i)
<1>1. rows[i] \in RowType \cup {AbsentRow} /\ rows[i].body # NoBody
  BY ConstantsAssumption DEF TypeOK
<1> QED
  BY <1>1 DEF Exists, RowType, AbsentRow, Terminal

\* Nobody hears anything, and rows that say sent still do.
LEMMA SecretQuiet ==
    ASSUME HistoryInv, TypeOK', Recorded, UNCHANGED <<worker, delivered>>,
           \A i \in Ids : rows'[i].body \in Secret' =>
             /\ rows'[i].body = rows[i].body
             /\ rows[i].status = "sent" => rows'[i].status = "sent"
    PROVE  SecretSeen'
<1>1. \A m \in Secret' : m \in Secret
  BY SecretSteps DEF Secret, historyVars
<1>2. \A w \in Workers, i \in Ids : Owns(w, i)' <=> Owns(w, i)
  BY DEF Owns
<1> QED
  BY <1>1, <1>2 DEF HistoryInv, SecretInv, SecretSeen

\* A worker goes on with its message: if a provider has it unexplained, the
\* worker has just heard so.
LEMMA SecretWorking ==
    ASSUME HistoryInv, TypeOK', Recorded, NEW w \in Workers, Working(w),
           worker[w].verdict = "sent" => worker'[w] = worker[w] \/ faults' > faults
    PROVE  SecretSeen'
<1> USE DEF HistoryInv
<1>1. /\ worker'[w].pc # "idle" /\ worker'[w].id = worker[w].id
      /\ worker'[w].body = worker[w].body
      /\ worker[w].body \in Msgs /\ worker[w].pc # "idle" /\ worker[w].id \in Ids
      /\ \A v \in Workers \ {w} : worker'[v] = worker[v]
      /\ \A i \in Ids : rows'[i].body = rows[i].body /\ rows'[i].status = rows[i].status
  BY BusyWorker DEF Working, TypeOK, BusyWorkerType, RowSame
<1>2. ASSUME NEW m \in Secret', m # worker[w].body PROVE m \in Secret
  <2>1. delivered' \subseteq delivered \cup {worker[w].body}
    BY DEF Working
  <2> QED
    BY <1>2, <2>1, SecretSteps DEF Secret, historyVars
<1>3. worker[w].body \in Secret' => worker'[w].verdict = "sent"
  <2> SUFFICES ASSUME worker[w].body \in Secret' PROVE worker'[w].verdict = "sent"
    OBVIOUS
  <2>1. CASE worker[w].body \in Secret
    <3>1. worker[w].verdict = "sent"
      BY <2>1 DEF SecretInv, SecretSeen
    <3>2. CASE worker'[w] = worker[w]
      BY <3>1, <3>2
    <3>3. CASE worker'[w] # worker[w]
      <4>1. Forgotten(worker[w].body)
        BY <3>1, <3>3 DEF Forgotten
      <4>2. ~UNCHANGED historyVars
        BY <3>3 DEF historyVars, vars, dispatchVars
      <4> QED
        BY <2>1, <4>1, <4>2, SecretSteps DEF Secret
    <3> QED
      BY <3>2, <3>3
  <2>2. CASE worker[w].body \notin Secret
    <3>1. PICK v \in Workers : worker'[v].body = worker[w].body /\ worker'[v].verdict = "sent"
                               /\ worker[w].body \notin delivered
      BY <2>2, SecretSteps DEF Secret, historyVars, vars
    <3>2. v = w
      BY <1>1, <3>1, WithMessage
    <3> QED
      BY <3>1, <3>2
  <2> QED
    BY <2>1, <2>2
<1>4. ASSUME NEW i \in Ids, rows'[i].body \in Secret'
      PROVE  \/ rows'[i].status = "sent"
             \/ \E v \in Workers : Owns(v, i)' /\ worker'[v].verdict = "sent"
  <2>1. CASE rows[i].body = worker[w].body
    <3>1. worker[w].id = i
      BY <1>1, <2>1 DEF NameInv, OnlyAt
    <3> QED
      BY <1>1, <1>3, <1>4, <2>1, <3>1 DEF Owns
  <2>2. CASE rows[i].body # worker[w].body
    <3>1. rows[i].body \in Secret
      BY <1>1, <1>2, <1>4, <2>2
    <3>2. \/ rows[i].status = "sent"
          \/ \E v \in Workers : Owns(v, i) /\ worker[v].verdict = "sent"
      BY <3>1 DEF SecretInv, SecretSeen
    <3>3. CASE rows[i].status = "sent"
      BY <1>1, <3>3
    <3>4. ASSUME NEW v \in Workers, Owns(v, i), worker[v].verdict = "sent"
          PROVE  Owns(v, i)' /\ worker'[v].verdict = "sent"
      <4>1. rows[i].body = worker[v].body
        <5>1. Exists(i)
          BY <3>1, NamingRow DEF Secret, TypeOK
        <5> QED
          BY <3>4, <5>1 DEF Owns, NameInv
      <4> QED
        BY <1>1, <2>2, <3>4, <4>1 DEF Owns
    <3> QED
      BY <3>2, <3>3, <3>4
  <2> QED
    BY <2>1, <2>2
<1>5. ASSUME NEW v \in Workers, worker'[v].body \in Secret'
      PROVE  worker'[v].verdict = "sent"
  <2>1. CASE v = w
    BY <1>1, <1>3, <1>5, <2>1
  <2>2. CASE v # w
    <3>1. worker'[v] = worker[v] /\ worker[v].body \in Msgs
      BY <1>1, <1>5, <2>2 DEF Secret, TypeOK
    <3>2. worker[v].body # worker[w].body
      BY <1>1, <2>2, <3>1, WithMessage
    <3> QED
      BY <1>2, <1>5, <3>1, <3>2 DEF SecretInv, SecretSeen
  <2> QED
    BY <2>1, <2>2
<1> QED
  BY <1>4, <1>5 DEF SecretSeen

\* A worker that is done with its message has told the row what it heard.
LEMMA SecretDone ==
    ASSUME HistoryInv, TypeOK', Recorded, NEW w \in Workers, Done(w),
           worker[w].verdict = "sent" => MarkSent(w) \/ faults' > faults
    PROVE  SecretSeen'
<1> USE DEF HistoryInv
<1>1. /\ worker[w].pc # "idle" /\ worker[w].id \in Ids /\ worker[w].body \in Msgs
      /\ worker'[w] = IdleWorker /\ \A v \in Workers \ {w} : worker'[v] = worker[v]
      /\ delivered' = delivered
      /\ \A i \in Ids : rows'[i].body = rows[i].body
      /\ \A i \in Ids \ {worker[w].id} : rows'[i].status = rows[i].status
  BY BusyWorker DEF Done, TypeOK, RowSame
<1>2. worker' # worker
  BY <1>1 DEF IdleWorker
<1>3. ASSUME NEW m \in Secret'
      PROVE  m \in Secret /\ m \in Msgs /\ ~Forgotten(m)
  <2>1. ~UNCHANGED historyVars
    BY <1>2 DEF historyVars, vars, dispatchVars
  <2> QED
    BY <1>1, <2>1, SecretSteps DEF Secret
<1>4. ASSUME NEW i \in Ids, rows'[i].body \in Secret'
      PROVE  \/ rows'[i].status = "sent"
             \/ \E v \in Workers : Owns(v, i)' /\ worker'[v].verdict = "sent"
  <2>1. rows[i].body \in Secret /\ Exists(i) /\ ~Forgotten(rows[i].body)
    BY <1>1, <1>3, <1>4, NamingRow
  <2>2. CASE i = worker[w].id
    <3>1. rows[i].body = worker[w].body
      BY <1>1, <2>1, <2>2 DEF NameInv
    <3>2. worker[w].verdict = "sent"
      BY <2>1, <3>1 DEF SecretInv, SecretSeen
    <3>3. ~(faults' > faults)
      BY <1>1, <2>1, <3>1, <3>2 DEF Forgotten, IdleWorker
    <3>4. MarkSent(w)
      BY <3>2, <3>3
    <3>5. rows' = [rows EXCEPT ![i] = [rows[i] EXCEPT !.status = "sent"]]
      BY <2>1, <2>2, <3>4 DEF MarkSent, UpdateRow
    <3>6. rows[i] \in RowType
      BY <2>1, ExistingRow
    <3> QED
      BY <3>5, <3>6 DEF TypeOK, RowType
  <2>3. CASE i # worker[w].id
    <3>1. \/ rows[i].status = "sent"
          \/ \E v \in Workers : Owns(v, i) /\ worker[v].verdict = "sent"
      BY <2>1 DEF SecretInv, SecretSeen
    <3> QED
      BY <1>1, <2>3, <3>1 DEF Owns
  <2> QED
    BY <2>2, <2>3
<1>5. ASSUME NEW v \in Workers, worker'[v].body \in Secret'
      PROVE  worker'[v].verdict = "sent"
  <2>1. worker'[v].body # NoBody
    BY <1>3, <1>5, ConstantsAssumption
  <2>2. v # w
    BY <1>1, <2>1 DEF IdleWorker
  <2> QED
    BY <1>1, <1>3, <1>5, <2>2 DEF SecretInv, SecretSeen
<1> QED
  BY <1>4, <1>5 DEF SecretSeen

\* A worker takes no message that was delivered unexplained: its row says sent,
\* or another worker has it.
LEMMA SecretTake ==
    ASSUME HistoryInv, TypeOK', Recorded, NEW w \in Workers, Take(w)
    PROVE  SecretSeen'
<1> USE DEF HistoryInv
<1> DEFINE taken == IF Dispatchable(Head(queue)) THEN Snapshot(Head(queue)) ELSE IdleWorker
<1>1. /\ worker[w].pc = "idle" /\ worker'[w] = taken
      /\ \A v \in Workers \ {w} : worker'[v] = worker[v]
      /\ UNCHANGED <<rows, delivered>>
  BY DEF Take, TypeOK
<1>2. \A m \in Secret' : m \in Secret /\ m \in Msgs
  BY <1>1, SecretSteps DEF Secret, historyVars
<1>3. ASSUME NEW i \in Ids, rows'[i].body \in Secret'
      PROVE  \/ rows'[i].status = "sent"
             \/ \E v \in Workers : Owns(v, i)' /\ worker'[v].verdict = "sent"
  <2>1. \/ rows[i].status = "sent"
        \/ \E v \in Workers : Owns(v, i) /\ worker[v].verdict = "sent"
    BY <1>1, <1>2, <1>3 DEF SecretInv, SecretSeen
  <2> QED
    BY <1>1, <2>1 DEF Owns
<1>4. ASSUME taken.body \in Secret PROVE FALSE
  <2>1. Head(queue) \in Ids /\ Queued(Head(queue))
    <3>1. queue # <<>> /\ queue \in Seq(Ids)
      BY DEF Take, TypeOK
    <3>2. 1 \in 1..Len(queue) /\ Head(queue) = queue[1] /\ queue[1] \in Ids
      BY <3>1
    <3> QED
      BY <3>2 DEF Queued
  <2>2. PICK i \in Ids : i = Head(queue)
    BY <2>1
  <2>3. taken.body # NoBody
    BY <1>4, ConstantsAssumption DEF Secret, TypeOK
  <2>4. Dispatchable(i) /\ taken.body = rows[i].body
    BY <2>2, <2>3 DEF Snapshot, IdleWorker
  <2>5. PICK v \in Workers : Owns(v, i)
    BY <1>4, <2>4 DEF SecretInv, SecretSeen, Dispatchable, Terminal
  <2> QED
    BY <2>1, <2>2, <2>5 DEF OwnInv
<1> HIDE DEF taken
<1>5. \A v \in Workers : worker'[v].body \in Secret' => worker'[v].verdict = "sent"
  BY <1>1, <1>2, <1>4 DEF SecretInv, SecretSeen
<1> QED
  BY <1>3, <1>5 DEF SecretSeen

\* The other steps: what they do to rows is explained or leaves them as they
\* are.
LEMMA SecretStep ==
    ASSUME HistoryInv, TypeOK', Recorded
    PROVE  SecretSeen'
<1> USE DEF HistoryInv, dispatchVars, ingressVars, adminVars
<1>0. [Next]_vars
  BY DEF Recorded, historyVars
<1>1. CASE Calm
  BY <1>1, SecretQuiet DEF Calm, RowSame
<1>2. ASSUME NEW w \in Workers, Working(w) \/ Done(w) \/ Take(w) PROVE SecretSeen'
  <2>1. worker[w].verdict = "sent" =>
          MarkSent(w) \/ worker'[w] = worker[w] \/ faults' > faults
    BY <1>0, AnswerSteps
  <2>2. CASE Done(w)
    <3>1. worker'[w] # worker[w]
      BY <2>2 DEF Done, TypeOK, IdleWorker
    <3> QED
      BY <2>1, <2>2, <3>1, SecretDone
  <2>3. CASE Working(w)
    <3>1. ~MarkSent(w)
      BY <2>3, BusyWorker DEF Working, MarkSent, TypeOK, BusyWorkerType, IdleWorker
    <3> QED
      BY <2>1, <2>3, <3>1, SecretWorking
  <2>4. CASE Take(w)
    BY <2>4, SecretTake
  <2> QED
    BY <1>2, <2>2, <2>3, <2>4
<1>3. ASSUME NEW m \in Msgs, HandleDataEnqueue(m) PROVE SecretSeen'
  <2>1. PICK i \in Ids, wait \in -OverdueCap..0 :
          rows' = [rows EXCEPT ![i] = NewRow(m, wait)]
    BY <1>3 DEF HandleDataEnqueue
  <2>2. m \notin Secret'
    <3>1. m \notin delivered /\ delivered' = delivered
      BY <1>3 DEF HandleDataEnqueue, SecretInv
    <3> QED
      BY <3>1 DEF Secret
  <2>3. /\ rows'[i].body = m
        /\ \A j \in Ids \ {i} : rows'[j] = rows[j]
    BY <2>1 DEF TypeOK, NewRow
  <2> QED
    BY <1>3, <2>2, <2>3, SecretQuiet DEF HandleDataEnqueue
<1>4. CASE \/ ClaimSelect \/ ClaimFails \/ \E i \in Ids : PutQueue(i)
           \/ \E r \in Requests, i \in Ids : RequeueRead(r, i) \/ DeleteRead(r, i)
           \/ \E s \in Terminal : SweepSelect(s)
  <2>1. UNCHANGED <<rows, worker, delivered>>
    BY <1>4 DEF ClaimSelect, ClaimFails, PutQueue, RequeueRead, DeleteRead, SweepSelect
  <2> QED
    BY <2>1, SecretQuiet
<1>5. CASE ClaimUpdate
  <2>1. \A i \in Ids : /\ rows'[i].body = rows[i].body
                       /\ rows[i].status = "sent" => i \notin producer.ids
    <3>1. producer.ids \subseteq Ids
      BY DEF TypeOK, ProducerType
    <3> QED
      BY <1>5, <3>1 DEF ClaimUpdate, OwnInv, WaitInv, TypeOK, RowType, AbsentRow
  <2>2. \A i \in Ids : rows[i].status = "sent" => rows'[i].status = "sent"
    BY <1>5, <2>1 DEF ClaimUpdate
  <2> QED
    BY <1>5, <2>1, <2>2, SecretQuiet DEF ClaimUpdate
<1>6. ASSUME NEW r \in Requests, Requeues(r) PROVE SecretSeen'
  <2>1. PICK i \in Ids : i = request[r].id
    BY <1>6, BusyRequest DEF Requeues
  <2>2. /\ UNCHANGED <<worker, delivered>>
        /\ \A j \in Ids : rows'[j].body = rows[j].body
        /\ \A j \in Ids \ {i} : rows'[j].status = rows[j].status
    BY <1>6, <2>1 DEF Requeues, RowSame
  <2>3. ASSUME rows'[i].body \in Secret', rows[i].status = "sent" PROVE rows'[i].status = "sent"
    <3>1. CASE rows'[i].status = "queued"
      <4>1. Requeued(rows[i].body)
        BY <1>6, <2>1, <2>3, <3>1 DEF Requeued, Requeues, Terminal
      <4>2. rows' # rows
        BY <2>3, <3>1
      <4> QED
        BY <2>2, <2>3, <4>1, <4>2, SecretSteps DEF Secret, historyVars, vars
    <3>2. CASE rows'[i].status # "queued"
      BY <1>6, <2>1, <3>2, <2>3 DEF Requeues, RowSame
    <3> QED
      BY <3>1, <3>2
  <2> QED
    BY <2>2, <2>3, SecretQuiet
<1>7. CASE SweepDelete \/ \E r \in Requests : DeleteWrite(r)
  <2>1. UNCHANGED <<worker, delivered>>
    BY <1>7 DEF SweepDelete, DeleteWrite
  <2>2. \A i \in Ids : rows'[i] = rows[i] \/ rows'[i] = AbsentRow
    BY <1>7 DEF SweepDelete, DeleteWrite, TypeOK
  <2>3. NoBody \notin Secret'
    BY <2>1, ConstantsAssumption DEF Secret, TypeOK
  <2>4. \A i \in Ids : rows'[i].body \in Secret' => rows'[i] = rows[i]
    BY <2>2, <2>3 DEF AbsentRow
  <2> QED
    BY <2>1, <2>4, SecretQuiet
<1>8. CASE Restart
  <2>1. /\ UNCHANGED delivered /\ faults' > faults
        /\ \A w \in Workers : worker'[w] = IdleWorker
    BY <1>8, ConstantTypes DEF Restart, TypeOK
  <2>2. ASSUME NEW m \in Secret' PROVE m \in Secret /\ m \in Msgs /\ ~Forgotten(m)
    <3>1. faults' # faults
      BY <2>1, ConstantTypes DEF TypeOK
    <3> QED
      BY <2>1, <3>1, SecretSteps DEF Secret, historyVars, vars
  <2>3. ASSUME NEW i \in Ids, rows'[i].body \in Secret' PROVE rows'[i].status = "sent"
    <3>1. rows'[i].body = rows[i].body
          /\ (rows[i].status = "sent" => rows'[i].status = "sent")
      BY <1>8 DEF Restart, Orphaned, TypeOK, RowType, AbsentRow
    <3>2. rows[i].body \in Secret /\ Exists(i) /\ ~Forgotten(rows[i].body)
      BY <2>2, <2>3, <3>1, NamingRow
    <3>3. ASSUME NEW v \in Workers, Owns(v, i), worker[v].verdict = "sent" PROVE FALSE
      <4>1. worker[v].body = rows[i].body
        BY <3>2, <3>3 DEF Owns, NameInv
      <4> QED
        BY <2>1, <3>2, <3>3, <4>1 DEF Forgotten, Owns, IdleWorker
    <3> QED
      BY <3>1, <3>2, <3>3 DEF SecretInv, SecretSeen
  <2>4. \A w \in Workers : worker'[w].body \notin Secret'
    BY <2>1, <2>2, ConstantsAssumption DEF IdleWorker
  <2> QED
    BY <2>3, <2>4 DEF SecretSeen
<1> QED
  BY <1>0, <1>1, <1>2, <1>3, <1>4, <1>5, <1>6, <1>7, <1>8, Kinds

\* Only messages that were accepted are delivered.
LEMMA DeliveredStep ==
    ASSUME HistoryInv, [Next]_vars
    PROVE  \A m \in delivered' : stage'[m] = "accepted"
<1> USE DEF HistoryInv, dispatchVars, ingressVars, adminVars
<1>1. \A m \in delivered : m \in Msgs /\ stage[m] = "accepted"
  BY DEF TypeOK, SecretInv
<1>2. CASE Calm
  BY <1>1, <1>2, CalmStage DEF Calm
<1>3. ASSUME NEW w \in Workers, Working(w) \/ Done(w) \/ Take(w)
      PROVE  \A m \in delivered' : stage'[m] = "accepted"
  <2>1. worker[w].pc # "idle" => stage[worker[w].body] = "accepted"
    BY DEF NameInv, OnlyAt
  <2>2. CASE Working(w)
    BY <1>1, <2>1, <2>2 DEF Working
  <2> QED
    BY <1>1, <1>3, <2>2 DEF Done, Take
<1>4. ASSUME NEW m \in Msgs, HandleDataEnqueue(m)
      PROVE  \A n \in delivered' : stage'[n] = "accepted"
  BY <1>1, <1>4 DEF HandleDataEnqueue, TypeOK
<1>5. CASE Restart
  BY <1>1, <1>5 DEF Restart
<1>6. CASE UNCHANGED <<stage, delivered>>
  BY <1>1, <1>6
<1>7. CASE \/ ClaimSelect \/ ClaimUpdate \/ ClaimFails
           \/ \E i \in Ids : PutQueue(i)
           \/ \E r \in Requests : \/ Requeues(r) \/ DeleteWrite(r)
                                   \/ \E i \in Ids : RequeueRead(r, i) \/ DeleteRead(r, i)
           \/ (\E s \in Terminal : SweepSelect(s)) \/ SweepDelete
  BY <1>6, <1>7 DEF ClaimSelect, ClaimUpdate, ClaimFails, PutQueue, Requeues, DeleteWrite,
     RequeueRead, DeleteRead, SweepSelect, SweepDelete
<1> QED
  BY <1>2, <1>3, <1>4, <1>5, <1>7, Kinds

\* With unique ids and requests that do not overlap, a worker takes a message
\* that a provider already has to a provider again only after an acceptance
\* that went unreported, a fault or a stop between the provider's 2xx and the
\* row's "sent", or an operator's requeue: claims, retries, failover and
\* recovery alone never send a message twice.
THEOREM DuplicatesExplained ==
    ASSUME UniqueIds, OneRequest
    PROVE  HistorySpec => []SecondDeliveryExplained
<1>1. HistorySpec => Spec /\ [][Recorded]_historyVars
  <2>1. [Next /\ excused' = excused \cup Excuses]_historyVars => [Next]_vars /\ Recorded
    BY DEF historyVars, Recorded
  <2> QED
    BY <2>1, PTL DEF HistorySpec, Spec
<1>2. Spec => [](TypeOK /\ BodyInv /\ IdInv /\ NameInv /\ OwnInv)
  BY TypeCorrect, BodyHolds, NamesHold, OwnHolds, PTL
<1>3. Spec => []SentInv
  <2>1. Init => SentInv
    BY DEF Init, SentInv, SentMeansDelivered, AbsentRow, IdleWorker
  <2>2. TypeOK /\ IdInv /\ NameInv /\ SentInv /\ [Next]_vars => SentInv'
    BY SentStep
  <2> QED
    BY <1>2, <2>1, <2>2, PTL DEF Spec
<1>4. Spec => []VerdictInv
  <2>1. Init => VerdictInv
    BY DEF Init, VerdictInv, IdleWorker
  <2>2. TypeOK /\ VerdictInv /\ [Next]_vars => VerdictInv'
    BY VerdictStep
  <2> QED
    BY <1>2, <2>1, <2>2, PTL DEF Spec
<1>5. Init => SecretInv
  BY DEF Init, SecretInv, SecretSeen, Secret, IdleWorker
<1>6. HistoryInv /\ TypeOK' /\ [Recorded]_historyVars => SecretInv'
  <2> SUFFICES ASSUME HistoryInv, TypeOK', [Recorded]_historyVars PROVE SecretInv'
    OBVIOUS
  <2>1. Recorded
    BY DEF Recorded
  <2>2. [Next]_vars
    BY <2>1 DEF Recorded, historyVars
  <2> QED
    BY <2>1, <2>2, SecretStep, SameRow, DeliveredStep DEF SecretInv
<1>7. TypeOK /\ VerdictInv /\ SecretInv => SecondDeliveryExplained
  BY DEF TypeOK, VerdictInv, SecretInv, SecretSeen, Secret, SecondDeliveryExplained
<1>8. HistorySpec => []HistoryInv
  <2>1. TypeOK /\ BodyInv /\ IdInv /\ NameInv /\ OwnInv /\ SentInv /\ VerdictInv /\ SecretInv
          <=> HistoryInv
    BY DEF HistoryInv
  <2> QED
    BY <1>1, <1>2, <1>3, <1>4, <1>5, <1>6, <2>1, PTL DEF HistorySpec
<1> QED
  BY <1>7, <1>8, PTL DEF HistoryInv
=============================================================================
