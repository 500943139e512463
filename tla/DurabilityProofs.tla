-------------------------- MODULE DurabilityProofs --------------------------
(***************************************************************************)
(* BodyOutlivesRow for every instance of Dispatcher, reused row ids and    *)
(* concurrent requests included.                                           *)
(*                                                                         *)
(* The invariant is not inductive by itself: a request or a sweep that is  *)
(* about to unlink a file must know that no row names it any more.  That   *)
(* holds although rows are deleted by an id that may by then belong to     *)
(* another message, because a message is inserted once: the id at which    *)
(* its row was read is the only one it ever has.                           *)
(***************************************************************************)
EXTENDS DispatcherProofs

\* A row names an accepted message whose file is there, and no two rows name
\* the same one.
RowsNamed ==
    /\ \A i \in Ids : rows[i].body \in Msgs =>
         rows[i].body \in spool /\ stage[rows[i].body] = "accepted"
    /\ \A i, j \in Ids :
         rows[i].body \in Msgs /\ rows[i].body = rows[j].body => i = j

\* The message b was inserted, and its row, if it still has one, is i.
OnlyAt(b, i) == /\ stage[b] = "accepted"
                /\ \A j \in Ids : rows[j].body = b => j = i

\* The message b was inserted and has no row any more.
Gone(b) == /\ stage[b] = "accepted"
           /\ \A j \in Ids : rows[j].body # b

RequestsNamed ==
    \A r \in Requests :
        /\ request[r].pc = "delete" => OnlyAt(request[r].body, request[r].id)
        /\ request[r].pc = "unlink" => Gone(request[r].body)

SweepNamed ==
    \A i \in Ids, b \in Msgs : <<i, b>> \in sweep.items =>
        /\ sweep.pc = "delete" => OnlyAt(b, i)
        /\ sweep.pc = "unlink" => Gone(b)

BodyInv ==
    /\ RowsNamed
    /\ RequestsNamed
    /\ SweepNamed
    /\ \A m \in Msgs : stage[m] = "spooled" => m \in spool

-----------------------------------------------------------------------------
(* What steps do to the bodies of rows *)

\* No row gets a body it did not have.
BodiesKept == \A i \in Ids : rows'[i].body \in {rows[i].body, NoBody}

\* No request and no sweep comes closer to unlinking a file.
NobodyDeletes ==
    /\ \A r \in Requests :
         request'[r].pc \in {"delete", "unlink"} => request'[r] = request[r]
    /\ sweep'.pc \in {"delete", "unlink"} => sweep' = sweep

\* An UPDATE by id that leaves the body alone keeps the bodies.
LEMMA UpdateKeepsBodies ==
    ASSUME TypeOK, NEW i \in Ids, NEW row, UpdateRow(i, row),
           Exists(i) => row.body = rows[i].body
    PROVE  BodiesKept
  BY DEF TypeOK, UpdateRow, BodiesKept

\* A row is a record with a body, whether it exists or not.
LEMMA RowBodies ==
    ASSUME TypeOK, NEW i \in Ids
    PROVE  /\ rows[i].body \in Msgs \/ rows[i].body = NoBody
           /\ Exists(i) => rows[i].body \in Msgs
  BY DEF TypeOK, RowType, AbsentRow, Exists

\* What requests and sweep know stays true while the messages it is about
\* keep their stage and get no row they did not have.
LEMMA NamesKept ==
    ASSUME TypeOK, BodyInv, UNCHANGED <<request, sweep>>,
           \A b \in Msgs : stage[b] = "accepted" =>
             /\ stage'[b] = "accepted"
             /\ \A i \in Ids : rows'[i].body = b => rows[i].body = b
    PROVE  RequestsNamed' /\ SweepNamed'
<1>1. \A b \in Msgs, i \in Ids : OnlyAt(b, i) => OnlyAt(b, i)'
  BY DEF OnlyAt
<1>2. \A b \in Msgs : Gone(b) => Gone(b)'
  BY DEF Gone
<1>3. RequestsNamed'
  <2> SUFFICES ASSUME NEW r \in Requests, request[r].pc \in {"delete", "unlink"}
               PROVE  /\ request[r].pc = "delete" =>
                           OnlyAt(request[r].body, request[r].id)'
                      /\ request[r].pc = "unlink" => Gone(request[r].body)'
    BY DEF RequestsNamed
  <2>1. request[r].id \in Ids /\ request[r].body \in Msgs
    BY BusyRequest
  <2> QED
    BY <1>1, <1>2, <2>1 DEF BodyInv, RequestsNamed, OnlyAt, Gone
<1>4. SweepNamed'
  BY <1>1, <1>2 DEF BodyInv, SweepNamed
<1> QED
  BY <1>3, <1>4

\* Steps that insert nothing, delete nothing and unlink nothing.
LEMMA QuietBodies ==
    ASSUME TypeOK, BodyInv, BodiesKept, NobodyDeletes, spool' = spool,
           \A m \in Msgs : /\ stage[m] = "accepted" => stage'[m] = "accepted"
                           /\ stage'[m] = "spooled" => stage[m] = "spooled"
    PROVE  BodyInv'
<1> USE ConstantsAssumption
<1>1. \A i \in Ids : rows'[i].body \in Msgs => rows'[i].body = rows[i].body
  BY DEF BodiesKept
<1>2. RowsNamed'
  BY <1>1 DEF BodyInv, RowsNamed
<1>3. \A b \in Msgs, i \in Ids : OnlyAt(b, i) => OnlyAt(b, i)'
  BY <1>1 DEF OnlyAt
<1>4. \A b \in Msgs : Gone(b) => Gone(b)'
  BY <1>1 DEF Gone
<1>5. RequestsNamed'
  <2> SUFFICES ASSUME NEW r \in Requests, request'[r].pc \in {"delete", "unlink"}
               PROVE  /\ request'[r].pc = "delete" =>
                           OnlyAt(request[r].body, request[r].id)'
                      /\ request'[r].pc = "unlink" => Gone(request[r].body)'
    BY DEF RequestsNamed
  <2>1. request'[r] = request[r]
    BY DEF NobodyDeletes
  <2>2. request[r].id \in Ids /\ request[r].body \in Msgs
    BY <2>1, BusyRequest
  <2> QED
    BY <1>3, <1>4, <2>1, <2>2 DEF BodyInv, RequestsNamed, OnlyAt, Gone
<1>6. SweepNamed'
  BY <1>3, <1>4 DEF BodyInv, SweepNamed, NobodyDeletes
<1> QED
  BY <1>2, <1>5, <1>6 DEF BodyInv

-----------------------------------------------------------------------------
(* The steps *)

\* handle_DATA: the file is there before the row that names it.
LEMMA IngressBodies == TypeOK /\ BodyInv /\ Ingress => BodyInv'
<1> SUFFICES ASSUME TypeOK, BodyInv, NEW m \in Msgs,
                    \/ HandleDataSpool(m)
                    \/ HandleDataEnqueue(m)
                    \/ HandleDataFail(m)
             PROVE  BodyInv'
  BY DEF Ingress
<1> USE ConstantsAssumption DEF adminVars
<1>1. CASE HandleDataSpool(m)
  <2>1. /\ stage[m] = "new" /\ spool' = spool \cup {m}
        /\ stage' = [stage EXCEPT ![m] = "spooled"]
        /\ UNCHANGED <<rows, request, sweep>>
    BY <1>1 DEF HandleDataSpool
  <2>2. RowsNamed'
    BY <2>1 DEF TypeOK, BodyInv, RowsNamed
  <2>3. RequestsNamed' /\ SweepNamed'
    BY <2>1, NamesKept DEF TypeOK
  <2> QED
    BY <2>1, <2>2, <2>3 DEF TypeOK, BodyInv
<1>2. CASE HandleDataEnqueue(m)
  <2>1. PICK i \in Ids, wait \in -OverdueCap..0 :
          rows' = [rows EXCEPT ![i] = NewRow(m, wait)]
    BY <1>2 DEF HandleDataEnqueue
  <2>2. /\ stage[m] = "spooled" /\ stage' = [stage EXCEPT ![m] = "accepted"]
        /\ UNCHANGED <<spool, request, sweep>>
    BY <1>2 DEF HandleDataEnqueue
  <2>3. rows'[i].body = m /\ \A j \in Ids \ {i} : rows'[j] = rows[j]
    BY <2>1 DEF TypeOK, NewRow
  <2>4. \A b \in Msgs : stage[b] = "accepted" => b # m /\ stage'[b] = "accepted"
    BY <2>2 DEF TypeOK
  <2>5. /\ m \in spool /\ stage'[m] = "accepted"
        /\ \A j \in Ids : rows[j].body # m
    BY <2>2 DEF TypeOK, BodyInv, RowsNamed
  <2>6. RowsNamed'
    <3>1. \A j \in Ids : rows'[j].body \in Msgs =>
            rows'[j].body \in spool' /\ stage'[rows'[j].body] = "accepted"
      BY <2>2, <2>3, <2>4, <2>5 DEF BodyInv, RowsNamed
    <3>2. \A j, k \in Ids :
            rows'[j].body \in Msgs /\ rows'[j].body = rows'[k].body => j = k
      BY <2>3, <2>5 DEF BodyInv, RowsNamed
    <3> QED
      BY <3>1, <3>2 DEF RowsNamed
  <2>7. RequestsNamed' /\ SweepNamed'
    BY <2>2, <2>3, <2>4, NamesKept
  <2> QED
    BY <2>2, <2>6, <2>7 DEF TypeOK, BodyInv
<1>3. CASE HandleDataFail(m)
  <2>1. /\ stage[m] = "spooled" /\ spool' = spool \ {m}
        /\ stage' = [stage EXCEPT ![m] = "refused"]
        /\ UNCHANGED <<rows, request, sweep>>
    BY <1>3 DEF HandleDataFail, StageAfterFailure
  <2>2. RowsNamed'
    BY <2>1 DEF TypeOK, BodyInv, RowsNamed
  <2>3. RequestsNamed' /\ SweepNamed'
    BY <2>1, NamesKept DEF TypeOK
  <2> QED
    BY <2>1, <2>2, <2>3 DEF TypeOK, BodyInv
<1> QED
  BY <1>1, <1>2, <1>3

\* Producer, workers, faults, failed transactions, restarts and time write
\* rows without touching their bodies.
LEMMA WritesBodies ==
    ASSUME TypeOK, BodyInv,
           \/ Produce \/ Rollback \/ Restart \/ Tick
           \/ \E w \in Workers : Consume(w) \/ Fault(w)
    PROVE  BodyInv'
<1>1. CASE Produce
  <2>1. \A i \in Ids : Exists(i) =>
          [rows[i] EXCEPT !.status = "sending"].body = rows[i].body
    BY ExistingRow DEF RowType
  <2>2. BodiesKept
    BY <1>1, <2>1 DEF Produce, ClaimSelect, ClaimUpdate, PutQueue, BodiesKept
  <2> QED
    BY <1>1, <2>2, QuietBodies DEF Produce, ClaimSelect, ClaimUpdate, PutQueue,
                                   NobodyDeletes, adminVars, ingressVars
<1>2. CASE Rollback
  <2>1. BodiesKept
    BY <1>2 DEF Rollback, ClaimFails, RequestFails, SweepFails, BodiesKept
  <2>2. NobodyDeletes
    BY <1>2 DEF Rollback, ClaimFails, RequestFails, SweepFails, NobodyDeletes,
                adminVars, TypeOK, IdleRequest, IdleSweep
  <2> QED
    BY <1>2, <2>1, <2>2, QuietBodies
    DEF Rollback, ClaimFails, RequestFails, SweepFails, ingressVars
<1>3. CASE Restart
  <2>1. BodiesKept
    BY <1>3 DEF Restart, Orphaned, BodiesKept, TypeOK, RowType, AbsentRow
  <2>2. NobodyDeletes
    BY <1>3 DEF Restart, NobodyDeletes, IdleRequest, IdleSweep
  <2> QED
    BY <1>3, <2>1, <2>2, QuietBodies DEF Restart
<1>4. CASE Tick
  <2>1. \A i \in Ids : Sooner(rows[i]).body = rows[i].body
    BY DEF Sooner, TypeOK, RowType, AbsentRow
  <2>2. \A i \in Ids : rows'[i] = Sooner(rows[i])
    BY <1>4 DEF Tick
  <2>3. BodiesKept
    BY <2>1, <2>2 DEF Sooner, BodiesKept, TypeOK, RowType, AbsentRow
  <2> QED
    BY <1>4, <2>3, QuietBodies DEF Tick, NobodyDeletes, adminVars
<1>5. ASSUME NEW w \in Workers, Consume(w) \/ Fault(w) PROVE BodyInv'
  <2>1. UNCHANGED <<spool, stage, request, sweep>>
    BY <1>5 DEF Consume, Take, ReadSpool, Attempt, GiveUp, MarkSent, Deadletter,
                Reschedule, RequeueNow, Fault, Raise, RequeueFails, adminVars,
                ingressVars
  <2>2. worker[w].pc # "idle" => worker[w].id \in Ids
    BY BusyWorker
  <2>3. BodiesKept
    <3>1. CASE UNCHANGED rows
      BY <3>1 DEF BodiesKept
    <3>2. ASSUME NEW p \in Providers, NEW o \in Outcomes, Attempt(w, p, o)
          PROVE  BodiesKept
      BY <3>1, <3>2 DEF Attempt
    <3>3. CASE MarkSent(w)
      BY <2>2, <3>3, UpdateKeepsBodies, ExistingRow DEF MarkSent, RowType
    <3>4. CASE Deadletter(w)
      BY <2>2, <3>4, UpdateKeepsBodies, ExistingRow DEF Deadletter, RowType
    <3>5. CASE Reschedule(w)
      <4> DEFINE i == worker[w].id
                 row == Rescheduled(rows[i], worker[w])
      <4>1. i \in Ids /\ UpdateRow(i, row)
        BY <2>2, <3>5 DEF Reschedule
      <4>2. Exists(i) => row.body = rows[i].body
        BY <4>1, ExistingRow DEF Rescheduled, RowType
      <4> HIDE DEF i, row
      <4> QED
        BY <4>1, <4>2, UpdateKeepsBodies
    <3>6. CASE RequeueNow(w)
      BY <2>2, <3>6 DEF RequeueNow, BodiesKept, TypeOK, RowType, AbsentRow
    <3> QED
      BY <1>5, <3>1, <3>2, <3>3, <3>4, <3>5, <3>6
      DEF Consume, Take, ReadSpool, GiveUp, Fault, Raise, RequeueFails
  <2> QED
    BY <2>1, <2>3, QuietBodies DEF NobodyDeletes
<1> QED
  BY <1>1, <1>2, <1>3, <1>4, <1>5

\* The dashboard: a delete removes the row before the file.
LEMMA OperateBodies == TypeOK /\ BodyInv /\ Operate => BodyInv'
<1> SUFFICES ASSUME TypeOK, BodyInv, Operate PROVE BodyInv'
  OBVIOUS
<1> USE ConstantsAssumption DEF ingressVars
<1>1. ASSUME NEW r \in Requests, NEW i \in Ids, RequeueRead(r, i) PROVE BodyInv'
  <2>1. NobodyDeletes
    BY <1>1 DEF RequeueRead, NobodyDeletes, TypeOK
  <2> QED
    BY <1>1, <2>1, QuietBodies DEF RequeueRead, BodiesKept
<1>2. ASSUME NEW r \in Requests, RequeueWrite(r) PROVE BodyInv'
  <2>1. request[r].id \in Ids
    BY <1>2, BusyRequest DEF RequeueWrite
  <2>2. BodiesKept
    BY <1>2, <2>1, UpdateKeepsBodies, ExistingRow DEF RequeueWrite, RowType
  <2>3. NobodyDeletes
    BY <1>2 DEF RequeueWrite, NobodyDeletes, TypeOK, IdleRequest
  <2> QED
    BY <1>2, <2>2, <2>3, QuietBodies DEF RequeueWrite
<1>3. ASSUME NEW p \in Providers, SetEnabled(p) PROVE BodyInv'
  BY <1>3, QuietBodies DEF SetEnabled, BodiesKept, NobodyDeletes
<1>4. ASSUME NEW r \in Requests, NEW i \in Ids, DeleteRead(r, i) PROVE BodyInv'
  <2>1. /\ request' = [request EXCEPT ![r] =
                          [pc |-> "delete", id |-> i, body |-> rows[i].body,
                           attempts |-> 0]]
        /\ Exists(i) /\ UNCHANGED <<rows, spool, stage, sweep>>
    BY <1>4 DEF DeleteRead
  <2>2. OnlyAt(rows[i].body, i)
    BY <2>1, RowBodies DEF BodyInv, RowsNamed, OnlyAt
  <2>3. RequestsNamed'
    BY <2>1, <2>2 DEF TypeOK, BodyInv, RequestsNamed, OnlyAt, Gone
  <2> QED
    BY <2>1, <2>3 DEF BodyInv, RowsNamed, SweepNamed, OnlyAt, Gone
<1>5. ASSUME NEW r \in Requests, DeleteWrite(r) PROVE BodyInv'
  <2> DEFINE b == request[r].body
             i == request[r].id
  <2>1. /\ request[r].pc = "delete" /\ b \in Msgs /\ i \in Ids
        /\ rows' = [rows EXCEPT ![i] = AbsentRow]
        /\ request' = [request EXCEPT ![r].pc = "unlink"]
        /\ UNCHANGED <<spool, stage, sweep>>
    BY <1>5, BusyRequest DEF DeleteWrite
  <2>2. \A j \in Ids : \/ j = i /\ rows'[j].body = NoBody
                       \/ j # i /\ rows'[j] = rows[j]
    BY <2>1 DEF TypeOK, AbsentRow
  <2>3. RowsNamed'
    BY <2>1, <2>2 DEF BodyInv, RowsNamed
  <2>4. Gone(b)'
    BY <2>1, <2>2 DEF BodyInv, RequestsNamed, OnlyAt, Gone
  <2>5. \A c \in Msgs, k \in Ids : OnlyAt(c, k) => OnlyAt(c, k)'
    BY <2>1, <2>2 DEF OnlyAt
  <2>6. \A c \in Msgs : Gone(c) => Gone(c)'
    BY <2>1, <2>2 DEF Gone
  <2>7. RequestsNamed'
    <3> SUFFICES ASSUME NEW q \in Requests,
                        request'[q].pc \in {"delete", "unlink"}
                 PROVE  /\ request'[q].pc = "delete" =>
                             OnlyAt(request[q].body, request[q].id)'
                        /\ request'[q].pc = "unlink" => Gone(request[q].body)'
      BY DEF RequestsNamed
    <3>1. CASE q = r
      <4>1. request'[r].pc = "unlink" /\ request'[r].body = b
        BY <2>1 DEF TypeOK, BusyRequestType, IdleRequest
      <4> QED
        BY <3>1, <4>1, <2>4 DEF Gone
    <3>2. CASE q # r
      <4>1. request'[q] = request[q]
        BY <3>2, <2>1 DEF TypeOK
      <4>2. request[q].body \in Msgs /\ request[q].id \in Ids
        BY <4>1, BusyRequest
      <4> QED
        BY <4>1, <4>2, <2>5, <2>6 DEF BodyInv, RequestsNamed, OnlyAt, Gone
    <3> QED
      BY <3>1, <3>2
  <2>8. SweepNamed'
    BY <2>1, <2>5, <2>6 DEF BodyInv, SweepNamed
  <2> QED
    BY <2>1, <2>3, <2>7, <2>8 DEF BodyInv
<1>6. ASSUME NEW r \in Requests, DeleteUnlink(r) PROVE BodyInv'
  <2>1. /\ request[r].pc = "unlink" /\ request[r].body \in Msgs
        /\ spool' = spool \ {request[r].body}
        /\ request' = [request EXCEPT ![r] = IdleRequest]
        /\ UNCHANGED <<rows, stage, sweep>>
    BY <1>6, BusyRequest DEF DeleteUnlink, ReadyToUnlink
  <2>2. Gone(request[r].body)
    BY <2>1 DEF BodyInv, RequestsNamed
  <2>3. RowsNamed'
    BY <2>1, <2>2 DEF BodyInv, RowsNamed, Gone
  <2>4. RequestsNamed'
    BY <2>1 DEF TypeOK, BodyInv, RequestsNamed, OnlyAt, Gone, IdleRequest
  <2> QED
    BY <2>1, <2>2, <2>3, <2>4
    DEF BodyInv, SweepNamed, OnlyAt, Gone
<1> QED
  BY <1>1, <1>2, <1>3, <1>4, <1>5, <1>6 DEF Operate

\* The sweep: its rows go before its files.
LEMMA HousekeepBodies == TypeOK /\ BodyInv /\ Housekeep => BodyInv'
<1> SUFFICES ASSUME TypeOK, BodyInv, Housekeep PROVE BodyInv'
  OBVIOUS
<1> USE ConstantsAssumption DEF ingressVars
<1>1. ASSUME NEW s \in Terminal, SweepSelect(s) PROVE BodyInv'
  <2>1. /\ sweep' = [pc |-> "delete",
                     items |-> {<<i, rows[i].body>> : i \in Swept(s)}]
        /\ UNCHANGED <<rows, spool, stage, request>>
    BY <1>1 DEF SweepSelect
  <2>2. \A i \in Swept(s) : i \in Ids /\ rows[i].body \in Msgs
    BY RowBodies DEF Swept, Terminal, Exists
  <2>3. \A i \in Swept(s) : OnlyAt(rows[i].body, i)
    BY <2>2 DEF BodyInv, RowsNamed, OnlyAt
  <2>4. SweepNamed'
    BY <2>1, <2>3 DEF SweepNamed, OnlyAt
  <2> QED
    BY <2>1, <2>4 DEF BodyInv, RowsNamed, RequestsNamed, OnlyAt, Gone
<1>2. CASE SweepDelete
  <2>1. /\ sweep.pc = "delete" /\ sweep'.pc = "unlink"
        /\ sweep'.items = sweep.items
        /\ rows' = [i \in Ids |-> IF i \in SweptIds THEN AbsentRow ELSE rows[i]]
        /\ UNCHANGED <<spool, stage, request>>
    BY <1>2 DEF SweepDelete, TypeOK, SweepType
  <2>2. \A j \in Ids : \/ j \in SweptIds /\ rows'[j].body = NoBody
                       \/ j \notin SweptIds /\ rows'[j] = rows[j]
    BY <2>1 DEF AbsentRow
  <2>3. RowsNamed'
    BY <2>1, <2>2 DEF BodyInv, RowsNamed
  <2>4. SweepNamed'
    <3> SUFFICES ASSUME NEW i \in Ids, NEW b \in Msgs, <<i, b>> \in sweep.items
                 PROVE  Gone(b)'
      BY <2>1 DEF SweepNamed
    <3>1. i \in SweptIds
      BY DEF SweptIds
    <3>2. OnlyAt(b, i)
      BY <2>1 DEF BodyInv, SweepNamed
    <3> QED
      BY <2>1, <2>2, <3>1, <3>2 DEF OnlyAt, Gone
  <2>5. \A c \in Msgs, k \in Ids : OnlyAt(c, k) => OnlyAt(c, k)'
    BY <2>1, <2>2 DEF OnlyAt
  <2>6. \A c \in Msgs : Gone(c) => Gone(c)'
    BY <2>1, <2>2 DEF Gone
  <2>7. RequestsNamed'
    <3>1. \A r \in Requests : request[r].pc \in {"delete", "unlink"} =>
            request[r].body \in Msgs /\ request[r].id \in Ids
      BY BusyRequest
    <3> QED
      BY <2>1, <2>5, <2>6, <3>1 DEF BodyInv, RequestsNamed, OnlyAt, Gone
  <2> QED
    BY <2>1, <2>3, <2>4, <2>7 DEF BodyInv
<1>3. CASE SweepUnlink
  <2>1. /\ sweep.pc = "unlink" /\ spool' = spool \ SweptBodies
        /\ sweep' = IdleSweep /\ UNCHANGED <<rows, stage, request>>
    BY <1>3 DEF SweepUnlink
  <2>2. \A b \in SweptBodies : Gone(b)
    <3> TAKE b \in SweptBodies
    <3>1. PICK item \in sweep.items : b = item[2]
      BY DEF SweptBodies
    <3>2. item \in Ids \X Msgs
      BY DEF TypeOK, SweepType
    <3>3. item[1] \in Ids /\ item[2] \in Msgs /\ item = <<item[1], item[2]>>
      BY <3>2
    <3> QED
      BY <2>1, <3>1, <3>3 DEF BodyInv, SweepNamed
  <2>3. RowsNamed'
    BY <2>1, <2>2 DEF BodyInv, RowsNamed, Gone
  <2>4. SweepNamed'
    BY <2>1 DEF SweepNamed, IdleSweep
  <2> QED
    BY <2>1, <2>2, <2>3, <2>4 DEF BodyInv, RequestsNamed, OnlyAt, Gone
<1> QED
  BY <1>1, <1>2, <1>3 DEF Housekeep

\* The invariant holds at the start and every step keeps it.
LEMMA BodyHolds == Spec => []BodyInv
<1>1. Init => BodyInv
  BY ConstantsAssumption
  DEF Init, BodyInv, RowsNamed, RequestsNamed, SweepNamed, AbsentRow,
      IdleRequest, IdleSweep
<1>2. TypeOK /\ BodyInv /\ UNCHANGED vars => BodyInv'
  BY QuietBodies DEF vars, ingressVars, adminVars, BodiesKept, NobodyDeletes
<1>3. TypeOK /\ BodyInv /\ [Next]_vars => BodyInv'
  BY <1>2, IngressBodies, WritesBodies, OperateBodies, HousekeepBodies DEF Next
<1> QED
  BY <1>1, <1>3, TypeCorrect, PTL DEF Spec

\* No row ever loses its message: the spool file that the row of a queued,
\* sending or settled message names is on disk, in the code as it is, with
\* reused row ids, any number of concurrent requests, faults and restarts.
THEOREM BodiesDurable == Spec => []BodyOutlivesRow
<1>1. TypeOK /\ BodyInv => BodyOutlivesRow
  BY RowBodies DEF BodyInv, RowsNamed, BodyOutlivesRow
<1> QED
  BY <1>1, BodyHolds, TypeCorrect, PTL
=============================================================================
