------------------------ MODULE CircuitBreakerProofs ------------------------
(***************************************************************************)
(* The safety of CircuitBreaker for any number of workers and any          *)
(* threshold, cooldown and probe limit.  The four invariants are proved    *)
(* together: the types bound the ghost count of lost slots only because    *)
(* the slots are accounted for, and the accounting needs coherence (a      *)
(* report that leaves the probe count alone finds it at zero).             *)
(***************************************************************************)
EXTENDS CircuitBreaker, FiniteSetTheorems, TLAPS

Inv == TypeOK /\ Coherent /\ ProbeSlotsAccounted /\ WrittenThrough

\* The probes in flight are finitely many.
LEMMA ProbingFinite == IsFiniteSet(Probing) /\ Cardinality(Probing) \in Nat
  BY BreakerAssumption, FS_Subset, FS_CardinalityType DEF Probing

\* The state of a provider that has never failed.
LEMMA FreshIsState == FreshState \in State /\ CoherentState(FreshState)
  BY BreakerAssumption DEF FreshState, State, NotOpened, CoherentState

\* A fresh breaker satisfies everything.
LEMMA InitInv == Init => Inv
<1> SUFFICES ASSUME Init PROVE Inv
  OBVIOUS
<1> USE BreakerAssumption DEF Init
<1>1. TypeOK
  <2>1. worker \in [Workers -> {"idle", "available", "claiming", "relaying",
                                "probing", "late", "recording"}]
    OBVIOUS
  <2>2. faults \in 0..MaxFaults /\ lost \in 0..MaxProbes
    OBVIOUS
  <2> QED
    BY <2>1, <2>2, FreshIsState DEF TypeOK
<1>2. Coherent
  BY FreshIsState DEF Coherent
<1>3. ProbeSlotsAccounted
  <2>1. Probing = {}
    BY DEF Probing
  <2> QED
    BY <2>1, FS_EmptySet DEF ProbeSlotsAccounted, FreshState
<1>4. WrittenThrough
  BY DEF WrittenThrough
<1> QED
  BY <1>1, <1>2, <1>3, <1>4 DEF Inv

\* Moves between states that hold no probe slot.
LEMMA OtherMoves ==
    ASSUME Inv, NEW w \in Workers,
           NEW s \in {"idle", "available", "relaying"},
           worker[w] \in {"idle", "available"},
           worker' = [worker EXCEPT ![w] = s],
           UNCHANGED <<mem, db, operator, faults, stale, lost>>
    PROVE  Inv'
<1> USE DEF Inv
<1>1. TypeOK'
  BY DEF TypeOK
<1>2. Coherent'
  BY DEF Coherent, CoherentState
<1>3. Probing' = Probing
  BY DEF Probing, TypeOK
<1>4. ProbeSlotsAccounted'
  BY <1>3 DEF ProbeSlotsAccounted
<1>5. LockFree' => LockFree
  BY DEF LockFree, TypeOK
<1>6. WrittenThrough'
  BY <1>5 DEF WrittenThrough
<1> QED
  BY <1>1, <1>2, <1>4, <1>6

\* The gate: a claimed slot belongs to the worker that claims it.
LEMMA GateInv == Inv /\ (\E w \in Workers : Gate(w)) => Inv'
<1> SUFFICES ASSUME Inv, NEW w \in Workers, Gate(w) PROVE Inv'
  OBVIOUS
<1>1. CASE CheckAvailable(w)
  BY <1>1, OtherMoves DEF CheckAvailable
<1>2. CASE NoReservation(w)
  BY <1>2, OtherMoves DEF NoReservation
<1>3. CASE PassClosed(w)
  BY <1>3, OtherMoves DEF PassClosed
<1>4. CASE ProbeRefused(w)
  BY <1>4, OtherMoves DEF ProbeRefused
<1>5. CASE ClaimProbe(w)
  <2> USE <1>5 DEF ClaimProbe, Inv
  <2>1. mem' \in State /\ mem'.probes = mem.probes + 1
    BY BreakerAssumption DEF TypeOK, State, SlotFree
  <2>2. TypeOK'
    BY <2>1 DEF TypeOK
  <2>3. Coherent'
    BY BreakerAssumption
    DEF Coherent, CoherentState, Status, TypeOK, State, NotOpened
  <2>4. Probing' = Probing \cup {w} /\ w \notin Probing
    BY DEF Probing, TypeOK
  <2>5. Cardinality(Probing') = Cardinality(Probing) + 1
    BY <2>4, ProbingFinite, FS_AddElement
  <2>6. ProbeSlotsAccounted'
    BY <2>1, <2>5, ProbingFinite DEF ProbeSlotsAccounted, TypeOK
  <2>7. ~LockFree'
    BY DEF LockFree, TypeOK
  <2> QED
    BY <2>2, <2>3, <2>6, <2>7 DEF WrittenThrough
<1> QED
  BY <1>1, <1>2, <1>3, <1>4, <1>5 DEF Gate

\* A breaker that has just opened.
LEMMA OpenedState ==
    ASSUME NEW st \in State
    PROVE  /\ Opened(st) \in State
           /\ CoherentState(Opened(st))
           /\ Opened(st).probes = 0
<1>1. 0 \in {NotOpened} \cup (0..Cooldown) /\ 0 \in 0..MaxProbes
  BY BreakerAssumption
<1>2. Opened(st) \in State
  BY <1>1 DEF Opened, State
<1>3. /\ Opened(st).healthy = FALSE
      /\ Opened(st).openAge = 0
      /\ Opened(st).probes = 0
  BY DEF Opened, State
<1> QED
  BY <1>2, <1>3 DEF CoherentState, NotOpened

\* What a report may leave in memory: a coherent state with every slot free.
LEMMA ReportedState ==
    ASSUME Inv, NEW st \in {AfterSuccess, AfterFailure}
    PROVE  st \in State /\ CoherentState(st) /\ st.probes = 0
<1> USE BreakerAssumption DEF Inv, NotOpened
<1>1. CASE st = AfterSuccess
  BY <1>1 DEF AfterSuccess, FreshState, State, CoherentState
<1>2. CASE st = AfterFailure
  <2> DEFINE counted == CountFailure(mem)
  <2>1. /\ counted \in State /\ counted.healthy = mem.healthy
        /\ counted.openAge = mem.openAge /\ counted.probes = mem.probes
    BY DEF CountFailure, TypeOK, State
  <2>2. Opened(counted) \in State /\ CoherentState(Opened(counted))
        /\ Opened(counted).probes = 0
    BY <2>1, OpenedState
  <2>3. CASE Status = "half_open" \/ (mem.healthy /\ counted.failures >= Threshold)
    BY <1>2, <2>2, <2>3 DEF AfterFailure
  <2>4. CASE Status # "half_open" /\ ~(mem.healthy /\ counted.failures >= Threshold)
    <3>1. st = counted
      BY <1>2, <2>4 DEF AfterFailure
    <3>2. mem.probes = 0
      BY <2>4 DEF Status, Coherent, CoherentState, TypeOK, State
    <3>3. CoherentState(counted)
      BY <2>1, <2>4, <3>2 DEF Coherent, CoherentState, TypeOK, State
    <3> QED
      BY <2>1, <3>1, <3>2, <3>3
  <2> QED
    BY <2>3, <2>4
<1> QED
  BY <1>1, <1>2

\* Reports, on time or late, keep the invariant.
LEMMA RecordInv == Inv /\ (\E w \in Workers : Record(w)) => Inv'
<1> SUFFICES ASSUME Inv, NEW w \in Workers,
                    NEW st \in {AfterSuccess, AfterFailure}, Report(w, st)
             PROVE  Inv'
  BY DEF Record, RecordSuccess, RecordFailure
<1> USE DEF Inv, Report
<1>1. st \in State /\ CoherentState(st) /\ st.probes = 0
  BY ReportedState
<1>2. TypeOK'
  BY <1>1, BreakerAssumption DEF TypeOK, EndRound
<1>3. Coherent'
  BY <1>1 DEF Coherent, CoherentState
<1>4. Probing' = {}
  BY DEF Probing, EndRound, LockFree, TypeOK
<1>5. ProbeSlotsAccounted'
  BY <1>1, <1>4, FS_EmptySet DEF ProbeSlotsAccounted
<1>6. ~LockFree'
  BY DEF LockFree, EndRound, TypeOK
<1> QED
  BY <1>2, <1>3, <1>5, <1>6 DEF WrittenThrough

\* The operator's reset keeps the invariant.
LEMMA ResetInv == Inv /\ ResetBreaker => Inv'
<1> SUFFICES ASSUME Inv, ResetBreaker PROVE Inv'
  OBVIOUS
<1> USE DEF Inv, ResetBreaker
<1>1. AfterSuccess \in State /\ CoherentState(AfterSuccess)
      /\ AfterSuccess.probes = 0
  BY ReportedState
<1>2. TypeOK'
  BY <1>1, BreakerAssumption DEF TypeOK, EndRound
<1>3. Coherent'
  BY <1>1 DEF Coherent, CoherentState
<1>4. Probing' = {}
  BY DEF Probing, EndRound, LockFree, TypeOK
<1>5. ProbeSlotsAccounted'
  BY <1>1, <1>4, FS_EmptySet DEF ProbeSlotsAccounted
<1> QED
  BY <1>2, <1>3, <1>5 DEF WrittenThrough, LockFree

\* A write, done or failed, keeps the invariant.
LEMMA WriteInv ==
    /\ Inv
    /\ \/ \E w \in Workers : Persist(w) \/ PersistFails(w)
       \/ ResetPersist \/ ResetPersistFails
    => Inv'
<1> SUFFICES ASSUME Inv,
                    \/ \E w \in Workers : Persist(w) \/ PersistFails(w)
                    \/ ResetPersist \/ ResetPersistFails
             PROVE  Inv'
  OBVIOUS
<1> USE DEF Inv
<1>1. ASSUME NEW w \in Workers, Persist(w) PROVE Inv'
  <2> USE <1>1 DEF Persist, Written, AfterWrite
  <2>1. TypeOK'
    BY DEF TypeOK
  <2>2. Coherent'
    BY DEF Coherent, CoherentState
  <2>3. Probing' = Probing
    BY DEF Probing, TypeOK
  <2>4. ProbeSlotsAccounted'
    BY <2>3 DEF ProbeSlotsAccounted
  <2> QED
    BY <2>1, <2>2, <2>4 DEF WrittenThrough
<1>2. ASSUME NEW w \in Workers, PersistFails(w) PROVE Inv'
  <2> USE <1>2 DEF PersistFails
  <2>1. CASE worker[w] = "claiming"
    <3>1. Probing' = Probing \ {w} /\ w \in Probing
      BY <2>1 DEF Probing, TypeOK
    <3>2. Cardinality(Probing') = Cardinality(Probing) - 1 /\ Cardinality(Probing) > 0
      BY <3>1, ProbingFinite, FS_RemoveElement, FS_EmptySet
    <3>3. ProbeSlotsAccounted' /\ lost' \in 0..MaxProbes
      BY <2>1, <3>2, ProbingFinite, BreakerAssumption
      DEF ProbeSlotsAccounted, TypeOK, State
    <3>4. TypeOK'
      BY <3>3, BreakerAssumption DEF TypeOK
    <3> QED
      BY <3>3, <3>4 DEF WrittenThrough, Coherent, CoherentState
  <2>2. CASE worker[w] = "recording"
    <3>1. Probing' = Probing
      BY <2>2 DEF Probing, TypeOK
    <3>2. TypeOK'
      BY <2>2, BreakerAssumption DEF TypeOK
    <3> QED
      BY <2>2, <3>1, <3>2
      DEF ProbeSlotsAccounted, WrittenThrough, Coherent, CoherentState
  <2> QED
    BY <2>1, <2>2
<1>3. CASE ResetPersist
  <2> USE <1>3 DEF ResetPersist, Written
  <2>1. TypeOK'
    BY DEF TypeOK
  <2> QED
    BY <2>1
    DEF ProbeSlotsAccounted, Probing, WrittenThrough, Coherent, CoherentState
<1>4. CASE ResetPersistFails
  <2> USE <1>4 DEF ResetPersistFails
  <2>1. TypeOK'
    BY BreakerAssumption DEF TypeOK
  <2> QED
    BY <2>1
    DEF ProbeSlotsAccounted, Probing, WrittenThrough, Coherent, CoherentState
<1> QED
  BY <1>1, <1>2, <1>3, <1>4

\* A worker that fails to report keeps the invariant: its slot is lost.
LEMMA AbandonInv == Inv /\ (\E w \in Workers : Abandon(w)) => Inv'
<1> SUFFICES ASSUME Inv, NEW w \in Workers, Abandon(w) PROVE Inv'
  OBVIOUS
<1> USE DEF Inv, Abandon
<1>0. LockFree' => LockFree
  BY DEF LockFree, TypeOK
<1>1. CASE worker[w] = "probing"
  <2>1. Probing' = Probing \ {w} /\ w \in Probing
    BY <1>1 DEF Probing, TypeOK
  <2>2. Cardinality(Probing') = Cardinality(Probing) - 1 /\ Cardinality(Probing) > 0
    BY <2>1, ProbingFinite, FS_RemoveElement, FS_EmptySet
  <2>3. ProbeSlotsAccounted' /\ lost' \in 0..MaxProbes
    BY <1>1, <2>2, ProbingFinite, BreakerAssumption
    DEF ProbeSlotsAccounted, TypeOK, State
  <2>4. TypeOK'
    BY <2>3, BreakerAssumption DEF TypeOK
  <2> QED
    BY <1>0, <2>3, <2>4 DEF WrittenThrough, Coherent, CoherentState
<1>2. CASE worker[w] # "probing"
  <2>1. Probing' = Probing
    BY <1>2 DEF Probing, TypeOK
  <2>2. TypeOK'
    BY <1>2, BreakerAssumption DEF TypeOK
  <2> QED
    BY <1>0, <1>2, <2>1, <2>2
    DEF ProbeSlotsAccounted, WrittenThrough, Coherent, CoherentState
<1> QED
  BY <1>1, <1>2

\* A restart loads a coherent state, and every slot it loads is lost.
LEMMA RestartInv == Inv /\ Restart => Inv'
<1> SUFFICES ASSUME Inv, Restart PROVE Inv'
  OBVIOUS
<1> USE DEF Inv, Restart
<1>1. TypeOK'
  <2>1. worker' \in [Workers -> {"idle", "available", "claiming", "relaying",
                                 "probing", "late", "recording"}]
    OBVIOUS
  <2>2. faults' \in 0..MaxFaults /\ lost' \in 0..MaxProbes
    BY BreakerAssumption DEF TypeOK, State
  <2> QED
    BY <2>1, <2>2 DEF TypeOK
<1>2. Coherent'
  BY DEF Coherent, CoherentState
<1>3. Probing' = {}
  BY DEF Probing
<1>4. ProbeSlotsAccounted'
  BY <1>3, FS_EmptySet DEF ProbeSlotsAccounted, TypeOK, State
<1> QED
  BY <1>1, <1>2, <1>4 DEF WrittenThrough

\* Time takes an open breaker to half-open with every slot free.
LEMMA TickInv == Inv /\ Tick => Inv'
<1> SUFFICES ASSUME Inv, Tick PROVE Inv'
  OBVIOUS
<1> USE DEF Inv, Tick
<1>1. \A st \in State : CoherentState(st) =>
        /\ Aged(st) \in State /\ CoherentState(Aged(st))
        /\ Aged(st).probes = st.probes
  BY BreakerAssumption DEF Aged, State, CoherentState, NotOpened
<1>2. TypeOK'
  BY <1>1 DEF TypeOK, Coherent
<1>3. Coherent'
  BY <1>1 DEF TypeOK, Coherent, CoherentState
<1>4. ProbeSlotsAccounted'
  BY <1>1 DEF ProbeSlotsAccounted, Probing, TypeOK, Coherent
<1>5. WrittenThrough'
  BY DEF WrittenThrough, LockFree
<1> QED
  BY <1>2, <1>3, <1>4, <1>5

\* The four hold together throughout.
LEMMA InvHolds == Spec => []Inv
<1>1. Inv /\ UNCHANGED vars => Inv'
  BY DEF Inv, TypeOK, Coherent, CoherentState, ProbeSlotsAccounted, Probing,
         WrittenThrough, LockFree, vars
<1>2. Inv /\ [Next]_vars => Inv'
  BY <1>1, GateInv, RecordInv, ResetInv, WriteInv, AbandonInv, RestartInv,
     TickInv DEF Next
<1> QED
  BY InitInv, <1>2, PTL DEF Spec

\* The probe count never passes half_open_max_probes, and no more slots are
\* lost than were taken, in memory and in the row.
THEOREM BreakerTyped == Spec => []TypeOK
  BY InvHolds, PTL DEF Inv

\* The breaker is closed, open or half open and nothing in between, in every
\* interleaving of gates, late reports, resets, failed writes and restarts.
THEOREM BreakerCoherent == Spec => []Coherent
  BY InvHolds, PTL DEF Inv

\* Every taken probe slot is a probe in flight or one that was lost: no report
\* of an earlier round frees a slot of this one.
THEOREM SlotsAccounted == Spec => []ProbeSlotsAccounted
  BY InvHolds, PTL DEF Inv

\* The row a restart would load is what memory says, but for a write under way
\* or one that failed.
THEOREM StateWrittenThrough == Spec => []WrittenThrough
  BY InvHolds, PTL DEF Inv
=============================================================================
