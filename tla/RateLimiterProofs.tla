------------------------- MODULE RateLimiterProofs -------------------------
(***************************************************************************)
(* The limits of RateLimiter, for any number of workers, any windows and   *)
(* quotas and any clock.  The concurrency cap and the quotas need nothing  *)
(* beyond the lock.  The sliding windows are only safe while no relay      *)
(* outlives the rows prune keeps: then a released reservation still finds  *)
(* its own row, and recent grants are never missing from send_log.         *)
(***************************************************************************)
EXTENDS RateLimiterRefinement, RateLimiterCalendar, FiniteSetTheorems, TLAPS

-----------------------------------------------------------------------------
(* The period keys: the month key changes on the reset day and on no other *)

\* The number of a month key among all months.
KeyNumber(k) == 12 * k[1] + k[2]

\* A month has between 28 and 31 days.
LEMMA DaysInRange ==
    ASSUME NEW y \in Nat, NEW m \in 1..12
    PROVE  DaysIn(y, m) \in 28..31
BY DEF DaysIn

\* The day after a date is a date: a first of a month, or one day on.
LEMMA NextDateType ==
    ASSUME NEW d \in Dates
    PROVE  NextDate(d) \in Dates
<1> DEFINE days == DaysIn(d.year, d.month)
<1>1. /\ d \in [year : Nat, month : 1..12, day : 1..31]
      /\ d.day <= days
      /\ days \in 28..31
  BY DaysInRange DEF Dates
<1> HIDE DEF days
<1>2. CASE d.day < days
  <2>1. NextDate(d) = [d EXCEPT !.day = d.day + 1]
    BY <1>2 DEF NextDate, days
  <2>2. /\ NextDate(d).year = d.year
        /\ NextDate(d).month = d.month
        /\ NextDate(d).day = d.day + 1
        /\ NextDate(d) \in [year : Nat, month : 1..12, day : 1..31]
    BY <1>1, <1>2, <2>1
  <2> QED
    BY <1>2, <2>2, <1>1 DEF Dates, days
<1>3. CASE ~(d.day < days)
  <2>1. /\ NextDate(d) \in [year : Nat, month : 1..12, day : 1..31]
        /\ NextDate(d).day = 1
    BY <1>1, <1>3 DEF NextDate, days
  <2>2. DaysIn(NextDate(d).year, NextDate(d).month) \in 28..31
    BY <2>1, DaysInRange
  <2> QED
    BY <2>1, <2>2 DEF Dates
<1> QED
  BY <1>2, <1>3

\* month_period_key: from one day to the next the key stays, or, exactly when
\* the reset day has come, becomes the key of the month after.  Month lengths,
\* leap years and the turn of the year make no difference, because a reset day
\* is at most 28.
THEOREM MonthKeyTurns ==
    ASSUME NEW d \in Dates, NEW resetDay \in ResetDays
    PROVE  KeyNumber(MonthKey(NextDate(d), resetDay))
             = KeyNumber(MonthKey(d, resetDay))
                 + (IF NextDate(d).day = resetDay THEN 1 ELSE 0)
<1> DEFINE days == DaysIn(d.year, d.month)
<1>1. /\ d.year \in Nat /\ d.month \in 1..12 /\ d.day \in 1..31
      /\ d \in [year : Nat, month : 1..12, day : 1..31]
      /\ d.day <= days
      /\ days \in 28..31
      /\ resetDay \in 1..28
  BY DaysInRange DEF Dates, ResetDays
<1> HIDE DEF days
<1>2. CASE d.day < days
  <2>1. NextDate(d) = [d EXCEPT !.day = d.day + 1]
    BY <1>2 DEF NextDate, days
  <2>2. /\ NextDate(d).year = d.year
        /\ NextDate(d).month = d.month
        /\ NextDate(d).day = d.day + 1
    BY <1>1, <2>1
  <2> QED
    BY <1>1, <2>2 DEF MonthKey, KeyNumber
<1>3. CASE ~(d.day < days) /\ d.month < 12
  <2>1. NextDate(d) = [year |-> d.year, month |-> d.month + 1, day |-> 1]
    BY <1>3 DEF NextDate, days
  <2> QED
    BY <1>1, <1>3, <2>1 DEF MonthKey, KeyNumber
<1>4. CASE ~(d.day < days) /\ ~(d.month < 12)
  <2>1. NextDate(d) = [year |-> d.year + 1, month |-> 1, day |-> 1]
    BY <1>4 DEF NextDate, days
  <2> QED
    BY <1>1, <1>4, <2>1 DEF MonthKey, KeyNumber
<1> QED
  BY <1>2, <1>3, <1>4

-----------------------------------------------------------------------------
(* The inductive invariant *)

\* What the lock protects: one worker counts at a time, below every bound it
\* has checked.
LockInv ==
    /\ \A w, v \in Workers :
         worker[w].pc = "counting" /\ worker[v].pc = "counting" => w = v
    /\ \A w \in Workers : worker[w].pc = "counting" =>
         inflight < MaxConcurrent /\ grants < MaxGrants
    /\ inflight <= MaxConcurrent
    /\ inflight = Cardinality(Holders) + leaked

\* The ledger: finite, numbered, and holding every open reservation.
LedgerInv ==
    /\ IsFiniteSet(ledger)
    /\ \A g \in ledger : g.n <= grants
    /\ \A g, h \in ledger : g.n = h.n => g = h
    /\ \A w \in Workers : worker[w].pc = "holding" => EntryOf(w) \in ledger
    /\ \A w, v \in Holders : worker[w].n = worker[v].n => w = v

Inv == TypeOK /\ LockInv /\ LedgerInv /\ QuotaExact

-----------------------------------------------------------------------------
(* Facts *)

\* The holders are finitely many.
LEMMA HoldersFinite == IsFiniteSet(Holders) /\ Cardinality(Holders) \in Nat
  BY LimiterAssumption, FS_Subset, FS_CardinalityType DEF Holders

\* An idle worker has a worker's type.
LEMMA IdleType ==
    Idle \in [pc : {"idle", "counting", "holding"}, id : 0..MaxGrants,
              at : Times, n : 0..MaxGrants]
  BY LimiterAssumption DEF Idle, Times

\* A bumped counter is a counter.
LEMMA BumpedType ==
    ASSUME TypeOK, NEW t \in Times, NEW delta \in {-1, 1}
    PROVE  Bumped(t, delta) \in [Scopes -> [Periods -> Nat]]
<1>1. \A s \in Scopes : Period[s][t] \in Periods
  BY LimiterAssumption
<1> QED
  BY <1>1 DEF Bumped, TypeOK

\* The entry a holder settles is an entry of the ledger.
LEMMA HolderEntry ==
    ASSUME TypeOK, LedgerInv, NEW w \in Workers, worker[w].pc = "holding"
    PROVE  /\ EntryOf(w) \in ledger /\ EntryOf(w) \in Entry
           /\ worker[w].at \in Times
           /\ {g \in ledger : g.n # worker[w].n} = ledger \ {EntryOf(w)}
  BY DEF TypeOK, LedgerInv, EntryOf

\* Freeing the slot of a holder takes exactly one from the counter.
LEMMA FreeSlot ==
    ASSUME TypeOK, LockInv, NEW w \in Workers, worker[w].pc = "holding",
           worker' = [worker EXCEPT ![w] = Idle]
    PROVE  /\ Holders' = Holders \ {w}
           /\ Cardinality(Holders') = Cardinality(Holders) - 1
           /\ Cardinality(Holders) > 0
           /\ Freed = inflight - 1
<1>1. Holders' = Holders \ {w} /\ w \in Holders
  BY DEF Holders, TypeOK, Idle
<1>2. Cardinality(Holders') = Cardinality(Holders) - 1 /\ Cardinality(Holders) > 0
  BY <1>1, HoldersFinite, FS_RemoveElement, FS_EmptySet
<1>3. Freed = inflight - 1
  BY <1>2, HoldersFinite DEF Freed, LockInv, TypeOK
<1> QED
  BY <1>1, <1>2, <1>3

\* The workers but one are as they were.
LEMMA LedgerKept ==
    ASSUME TypeOK, LedgerInv, NEW w \in Workers, NEW wk,
           worker' = [worker EXCEPT ![w] = wk], wk.pc # "holding",
           UNCHANGED <<ledger, grants>>
    PROVE  LedgerInv'
  BY DEF TypeOK, LedgerInv, EntryOf, Holders

-----------------------------------------------------------------------------
(* The steps of the lock and of the ledger *)

\* Nothing is reserved and everything is empty at first.
LEMMA InitInv == Init => Inv
<1> SUFFICES ASSUME Init PROVE Inv
  OBVIOUS
<1> USE LimiterAssumption DEF Init
<1>1. TypeOK
  <2>1. worker \in [Workers -> [pc : {"idle", "counting", "holding"},
                                id : 0..MaxGrants, at : Times, n : 0..MaxGrants]]
    BY IdleType
  <2>2. now \in Times /\ grants \in 0..MaxGrants /\ faults \in 0..MaxFaults
    BY DEF Times
  <2> QED
    BY <2>1, <2>2 DEF TypeOK
<1>2. Holders = {}
  BY DEF Holders, Idle
<1>3. LockInv
  BY <1>2, FS_EmptySet DEF LockInv, Idle
<1>4. LedgerInv
  BY <1>2, FS_EmptySet DEF LedgerInv, Idle
<1>5. QuotaExact
  <2>1. \A s \in Scopes : \A k \in Periods :
          {g \in ledger : Period[s][g.at] = k} = {}
    OBVIOUS
  <2> QED
    BY <2>1, FS_EmptySet DEF QuotaExact
<1> QED
  BY <1>1, <1>3, <1>4, <1>5 DEF Inv

\* Taking the lock.
LEMMA AcquireInv == ASSUME Inv, NEW w \in Workers, Acquire(w) PROVE Inv'
<1> USE DEF Inv, Acquire
<1> DEFINE wk == [Idle EXCEPT !.pc = "counting", !.at = now]
<1>1. wk \in [pc : {"idle", "counting", "holding"}, id : 0..MaxGrants,
              at : Times, n : 0..MaxGrants] /\ wk.pc = "counting"
  BY IdleType DEF TypeOK, Idle
<1>2. TypeOK'
  BY <1>1 DEF TypeOK
<1>3. Holders' = Holders
  BY <1>1 DEF Holders, TypeOK
<1>4. LockInv'
  BY <1>1, <1>3 DEF LockInv, LockFree, TypeOK
<1>5. LedgerInv'
  BY <1>1, LedgerKept
<1>6. QuotaExact'
  BY DEF QuotaExact
<1> QED
  BY <1>2, <1>4, <1>5, <1>6

\* Giving the lock back without a reservation.
LEMMA NoReservationInv ==
    ASSUME Inv, NEW w \in Workers, worker[w].pc = "counting",
           worker' = [worker EXCEPT ![w] = Idle], faults' \in 0..MaxFaults,
           UNCHANGED <<now, log, quota, inflight, grants, ledger, leaked>>
    PROVE  Inv'
<1> USE DEF Inv
<1>1. TypeOK'
  BY IdleType DEF TypeOK
<1>2. Holders' = Holders
  BY DEF Holders, TypeOK, Idle
<1>3. LockInv'
  BY <1>2 DEF LockInv, TypeOK, Idle
<1>4. Idle.pc # "holding"
  BY DEF Idle
<1>5. LedgerInv'
  BY <1>4, LedgerKept
<1> QED
  BY <1>1, <1>3, <1>5 DEF QuotaExact

\* A new reservation: one more holder, one more entry with a new number.
LEMMA ReserveInv == ASSUME Inv, NEW w \in Workers, Reserve(w) PROVE Inv'
<1> USE DEF Inv
<1>1. PICK i \in 1..MaxGrants :
        /\ log' = log \cup {[id |-> i, at |-> worker[w].at, n |-> grants + 1]}
        /\ ledger' = ledger \cup {[id |-> i, at |-> worker[w].at, n |-> grants + 1]}
        /\ worker' = [worker EXCEPT ![w] = [pc |-> "holding", id |-> i,
                                           at |-> worker[w].at, n |-> grants + 1]]
  BY DEF Reserve
<1> DEFINE entry == [id |-> i, at |-> worker[w].at, n |-> grants + 1]
           wk == [pc |-> "holding", id |-> i, at |-> worker[w].at,
                  n |-> grants + 1]
<1>2. /\ worker[w].pc = "counting" /\ HasHeadroom(w)
      /\ quota' = Bumped(worker[w].at, 1)
      /\ inflight' = inflight + 1 /\ grants' = grants + 1
      /\ UNCHANGED <<now, leaked, faults>>
  BY DEF Reserve
<1>3. /\ worker[w].at \in Times /\ inflight < MaxConcurrent
      /\ grants + 1 \in 1..MaxGrants
  BY <1>2, LimiterAssumption DEF TypeOK, LockInv
<1>4. entry \in Entry /\ entry \notin ledger
  BY <1>3 DEF Entry, LedgerInv, TypeOK
<1>5. TypeOK'
  <2>1. worker' \in [Workers -> [pc : {"idle", "counting", "holding"},
                                 id : 0..MaxGrants, at : Times, n : 0..MaxGrants]]
    BY <1>1, <1>3 DEF TypeOK
  <2>2. quota' \in [Scopes -> [Periods -> Nat]]
    BY <1>2, <1>3, BumpedType
  <2> QED
    BY <1>1, <1>2, <1>3, <1>4, <2>1, <2>2 DEF TypeOK
<1>6. Holders' = Holders \cup {w} /\ w \notin Holders
  BY <1>1, <1>2 DEF Holders, TypeOK
<1>7. Cardinality(Holders') = Cardinality(Holders) + 1
  BY <1>6, HoldersFinite, FS_AddElement
<1>8. LockInv'
  BY <1>1, <1>2, <1>3, <1>7, HoldersFinite, LimiterAssumption DEF LockInv, TypeOK
<1>9. LedgerInv'
  <2>1. IsFiniteSet(ledger')
    BY <1>1, FS_AddElement DEF LedgerInv
  <2>2. \A g \in ledger' : g.n <= grants'
    BY <1>1, <1>2, <1>4 DEF LedgerInv, TypeOK, Entry
  <2>3. \A g, h \in ledger' : g.n = h.n => g = h
    BY <1>1, <1>4 DEF LedgerInv, TypeOK, Entry
  <2>4. \A v \in Workers : worker'[v].pc = "holding" => EntryOf(v)' \in ledger'
    BY <1>1 DEF LedgerInv, TypeOK, EntryOf
  <2>5. \A v \in Holders : worker[v].n <= grants
    BY DEF LedgerInv, Holders, EntryOf
  <2>6. \A v, u \in Holders' : worker'[v].n = worker'[u].n => v = u
    BY <1>1, <1>6, <2>5 DEF LedgerInv, TypeOK, Holders
  <2> QED
    BY <2>1, <2>2, <2>3, <2>4, <2>6 DEF LedgerInv
<1>10. QuotaExact'
  <2> SUFFICES ASSUME NEW s \in Scopes, NEW k \in Periods
               PROVE  /\ quota'[s][k]
                           = Cardinality({g \in ledger' : Period[s][g.at] = k})
                      /\ quota'[s][k] <= QuotaLimit[s]
    BY DEF QuotaExact
  <2> DEFINE of == {g \in ledger : Period[s][g.at] = k}
             used == Period[s][worker[w].at]
  <2>1. IsFiniteSet(of) /\ Cardinality(of) \in Nat
    BY FS_Subset, FS_CardinalityType DEF LedgerInv
  <2>2. used \in Periods /\ quota[s][used] < QuotaLimit[s]
    BY <1>2, <1>3, LimiterAssumption DEF HasHeadroom, QuotaLeft
  <2>3. quota[s] \in [Periods -> Nat] /\ quota[s][k] = Cardinality(of)
        /\ quota[s][k] <= QuotaLimit[s] /\ QuotaLimit[s] \in Nat
    BY LimiterAssumption DEF TypeOK, QuotaExact
  <2>4. quota'[s] = [quota[s] EXCEPT ![used] = IF @ + 1 < 0 THEN 0 ELSE @ + 1]
    BY <1>2 DEF Bumped
  <2>5. CASE used = k
    <3>1. {g \in ledger' : Period[s][g.at] = k} = of \cup {entry}
      BY <1>1, <2>5
    <3>2. Cardinality(of \cup {entry}) = Cardinality(of) + 1
      BY <1>4, <2>1, FS_AddElement
    <3>3. quota'[s][k] = quota[s][k] + 1
      BY <2>2, <2>3, <2>4, <2>5
    <3>4. quota[s][k] < QuotaLimit[s]
      BY <2>2, <2>5
    <3>5. Cardinality({g \in ledger' : Period[s][g.at] = k}) = Cardinality(of) + 1
      BY <3>1, <3>2
    <3> HIDE DEF of, used
    <3> QED
      BY <2>1, <2>3, <3>3, <3>4, <3>5
  <2>6. CASE used # k
    <3>1. {g \in ledger' : Period[s][g.at] = k} = of
      BY <1>1, <2>6
    <3> QED
      BY <2>2, <2>3, <2>4, <2>6, <3>1
  <2> QED
    BY <2>5, <2>6
<1> QED
  BY <1>5, <1>8, <1>9, <1>10

\* A holder is done and its reservation stays: commit, a failed release or a
\* worker that never settles.
LEMMA KeptInv ==
    ASSUME Inv, NEW w \in Workers, worker[w].pc = "holding",
           worker' = [worker EXCEPT ![w] = Idle], faults' \in 0..MaxFaults,
           UNCHANGED <<now, log, quota, grants, ledger>>,
           \/ inflight' = Freed /\ leaked' = leaked /\ LockFree
           \/ inflight' = inflight /\ leaked' = leaked + 1
    PROVE  Inv'
<1> USE DEF Inv
<1>1. /\ Cardinality(Holders') = Cardinality(Holders) - 1
      /\ Cardinality(Holders) > 0 /\ Freed = inflight - 1
  BY FreeSlot
<1>2. inflight' \in Nat /\ leaked' \in Nat /\ inflight' <= inflight
  BY <1>1, HoldersFinite DEF TypeOK, LockInv
<1>3. TypeOK'
  BY <1>2, IdleType DEF TypeOK
<1>4. LockInv'
  <2>1. \A v \in Workers : worker'[v].pc = "counting" => worker[v].pc = "counting"
    BY DEF TypeOK, Idle
  <2>2. inflight' = Cardinality(Holders') + leaked'
    BY <1>1, HoldersFinite DEF LockInv, TypeOK
  <2> QED
    BY <1>2, <2>1, <2>2, LimiterAssumption DEF LockInv, TypeOK
<1>5. Idle.pc # "holding"
  BY DEF Idle
<1>6. LedgerInv'
  BY <1>5, LedgerKept
<1> QED
  BY <1>3, <1>4, <1>6 DEF QuotaExact

\* A rolled back reservation: its entry leaves the ledger and its period's
\* counter, which stands at one or more.
LEMMA ReleaseInv == ASSUME Inv, NEW w \in Workers, Release(w) PROVE Inv'
<1> USE DEF Inv
<1> DEFINE entry == EntryOf(w)
<1>1. /\ worker[w].pc = "holding" /\ LockFree /\ inflight' = Freed
      /\ log' = {e \in log : e.id # worker[w].id}
      /\ quota' = Bumped(worker[w].at, -1)
      /\ ledger' = {g \in ledger : g.n # worker[w].n}
      /\ worker' = [worker EXCEPT ![w] = Idle]
      /\ UNCHANGED <<now, grants, leaked, faults>>
  BY DEF Release
<1>2. /\ entry \in ledger /\ ledger' = ledger \ {entry}
      /\ worker[w].at \in Times
  BY <1>1, HolderEntry
<1>3. /\ Cardinality(Holders') = Cardinality(Holders) - 1
      /\ Cardinality(Holders) > 0 /\ Freed = inflight - 1
      /\ Holders' = Holders \ {w}
  BY <1>1, FreeSlot
<1>4. inflight' \in Nat /\ inflight' <= inflight
  BY <1>1, <1>3, HoldersFinite DEF TypeOK, LockInv
<1>5. TypeOK'
  <2>1. quota' \in [Scopes -> [Periods -> Nat]]
    BY <1>1, <1>2, BumpedType
  <2>2. worker' \in [Workers -> [pc : {"idle", "counting", "holding"},
                                 id : 0..MaxGrants, at : Times, n : 0..MaxGrants]]
    BY <1>1, IdleType DEF TypeOK
  <2> QED
    BY <1>1, <1>4, <2>1, <2>2 DEF TypeOK
<1>6. LockInv'
  BY <1>1, <1>3, <1>4, HoldersFinite, LimiterAssumption
  DEF LockInv, LockFree, TypeOK, Idle
<1>7. LedgerInv'
  <2>1. IsFiniteSet(ledger')
    BY <1>2, FS_RemoveElement DEF LedgerInv
  <2>2. \A v \in Holders' : v \in Holders /\ v # w /\ worker'[v] = worker[v]
    BY <1>1, <1>3 DEF TypeOK, Holders
  <2>3. \A v \in Workers : worker'[v].pc = "holding" => EntryOf(v)' \in ledger'
    <3> SUFFICES ASSUME NEW v \in Workers, worker'[v].pc = "holding"
                 PROVE  EntryOf(v)' \in ledger'
      OBVIOUS
    <3>1. v \in Holders /\ v # w /\ worker'[v] = worker[v]
      BY <2>2 DEF Holders
    <3>2. EntryOf(v) \in ledger /\ worker[v].n # worker[w].n
      BY <1>1, <3>1 DEF LedgerInv, Holders
    <3> QED
      BY <1>1, <3>1, <3>2 DEF EntryOf
  <2> QED
    BY <1>1, <2>1, <2>2, <2>3 DEF LedgerInv
<1>8. QuotaExact'
  <2> SUFFICES ASSUME NEW s \in Scopes, NEW k \in Periods
               PROVE  /\ quota'[s][k]
                           = Cardinality({g \in ledger' : Period[s][g.at] = k})
                      /\ quota'[s][k] <= QuotaLimit[s]
    BY DEF QuotaExact
  <2> DEFINE of == {g \in ledger : Period[s][g.at] = k}
             used == Period[s][worker[w].at]
  <2>1. IsFiniteSet(of) /\ Cardinality(of) \in Nat
    BY FS_Subset, FS_CardinalityType DEF LedgerInv
  <2>2. used \in Periods
    BY <1>2, LimiterAssumption
  <2>3. quota[s] \in [Periods -> Nat] /\ quota[s][k] = Cardinality(of)
        /\ quota[s][k] <= QuotaLimit[s] /\ QuotaLimit[s] \in Nat
    BY LimiterAssumption DEF TypeOK, QuotaExact
  <2>4. quota'[s] = [quota[s] EXCEPT ![used] = IF @ + -1 < 0 THEN 0 ELSE @ + -1]
    BY <1>1 DEF Bumped
  <2>5. CASE used = k
    <3>1. {g \in ledger' : Period[s][g.at] = k} = of \ {entry} /\ entry \in of
      BY <1>2, <2>5 DEF EntryOf
    <3> HIDE DEF of, entry, used
    <3>2. Cardinality(of \ {entry}) = Cardinality(of) - 1 /\ Cardinality(of) > 0
      BY <2>1, <3>1, FS_RemoveElement, FS_EmptySet
    <3>3. quota'[s][k] = quota[s][k] - 1
      BY <2>2, <2>3, <2>4, <2>5, <3>2
    <3> QED
      BY <2>1, <2>3, <3>1, <3>2, <3>3
  <2>6. CASE used # k
    <3>1. {g \in ledger' : Period[s][g.at] = k} = of
      BY <1>2, <2>6 DEF EntryOf
    <3> QED
      BY <2>2, <2>3, <2>4, <2>6, <3>1
  <2> QED
    BY <2>5, <2>6
<1> QED
  BY <1>5, <1>6, <1>7, <1>8

\* Pruning, restarts and time touch neither ledger nor quotas.
LEMMA EnvironmentInv == Inv /\ (Prune \/ Restart \/ Tick) => Inv'
<1> SUFFICES ASSUME Inv, Prune \/ Restart \/ Tick PROVE Inv'
  OBVIOUS
<1> USE LimiterAssumption DEF Inv
<1>1. CASE Prune
  <2> USE <1>1 DEF Prune
  <2>1. TypeOK'
    BY DEF TypeOK
  <2>2. LockInv'
    BY DEF LockInv, Holders
  <2>3. LedgerInv'
    BY DEF LedgerInv, Holders, EntryOf
  <2> QED
    BY <2>1, <2>2, <2>3 DEF QuotaExact
<1>2. CASE Restart
  <2> USE <1>2 DEF Restart
  <2>1. Holders' = {}
    BY DEF Holders, Idle
  <2>2. worker' \in [Workers -> [pc : {"idle", "counting", "holding"},
                                 id : 0..MaxGrants, at : Times, n : 0..MaxGrants]]
    BY IdleType
  <2>3. TypeOK'
    BY <2>2 DEF TypeOK
  <2>4. LockInv'
    BY <2>1, FS_EmptySet DEF LockInv, Idle
  <2>5. LedgerInv'
    BY <2>1 DEF LedgerInv, Idle
  <2> QED
    BY <2>3, <2>4, <2>5 DEF QuotaExact
<1>3. CASE Tick
  <2> USE <1>3 DEF Tick
  <2>1. now' \in Times
    BY DEF TypeOK, Times
  <2>2. TypeOK'
    BY <2>1 DEF TypeOK
  <2>3. LockInv'
    BY DEF LockInv, Holders
  <2>4. LedgerInv'
    BY DEF LedgerInv, Holders, EntryOf
  <2> QED
    BY <2>2, <2>3, <2>4 DEF QuotaExact
<1> QED
  BY <1>1, <1>2, <1>3

\* Every step keeps the invariant.
LEMMA NextInv == Inv /\ [Next]_vars => Inv'
<1> SUFFICES ASSUME Inv, [Next]_vars PROVE Inv'
  OBVIOUS
<1>1. ASSUME NEW w \in Workers, Refuse(w) \/ ReserveFails(w) PROVE Inv'
  <2>1. faults' \in 0..MaxFaults
    BY <1>1, LimiterAssumption DEF Refuse, ReserveFails, Inv, TypeOK
  <2> QED
    BY <1>1, <2>1, NoReservationInv DEF Refuse, ReserveFails
<1>2. ASSUME NEW w \in Workers, Commit(w) \/ ReleaseFails(w) \/ Abandon(w)
      PROVE  Inv'
  <2>1. faults' \in 0..MaxFaults
    BY <1>2, LimiterAssumption DEF Commit, ReleaseFails, Abandon, Inv, TypeOK
  <2> QED
    BY <1>2, <2>1, KeptInv DEF Commit, ReleaseFails, Abandon
<1>3. CASE UNCHANGED vars
  BY <1>3 DEF vars, Inv, TypeOK, LockInv, LedgerInv, QuotaExact, Holders, EntryOf
<1> QED
  BY <1>1, <1>2, <1>3, AcquireInv, ReserveInv, ReleaseInv, EnvironmentInv
  DEF Next

\* The invariant holds throughout.
LEMMA InvHolds == Spec => []Inv
  BY InitInv, NextInv, PTL DEF Spec

\* The tables, the counter and the workers keep their types: no release takes
\* a counter below zero and no bound is overrun.
THEOREM LimiterTyped == Spec => []TypeOK
<1>1. Inv => TypeOK
  BY DEF Inv
<1> QED
  BY <1>1, InvHolds, PTL

\* max_concurrent holds in every interleaving, and inflight is the number of
\* reservations that are held or were never given back.
THEOREM ConcurrencyCapped == Spec => []ConcurrencyCap
<1>1. Inv => ConcurrencyCap
  <2> SUFFICES ASSUME Inv PROVE ConcurrencyCap
    OBVIOUS
  <2> QED
    BY HoldersFinite, LimiterAssumption DEF Inv, LockInv, TypeOK, ConcurrencyCap
<1> QED
  BY <1>1, InvHolds, PTL

\* The day and month counters hold in every interleaving: none passes its
\* limit or loses count of what was sent.
THEOREM QuotasExact == Spec => []QuotaExact
<1>1. Inv => QuotaExact
  BY DEF Inv
<1> QED
  BY <1>1, InvHolds, PTL

-----------------------------------------------------------------------------
(* The limiter implements Capacity *)

\* What a scope is charged for a worker, and the workers it counts as out.
LEMMA ChargedOut ==
    ASSUME TypeOK, NEW s \in Scopes
    PROVE  /\ \A w \in Workers : worker[w].pc = "holding"
                <=> ChargedTo(s, worker[w]) # NoPeriod
           /\ \A w \in Workers : worker[w].pc = "holding" =>
                /\ ChargedTo(s, worker[w]) = Period[s][worker[w].at]
                /\ Period[s][worker[w].at] \in Periods
           /\ Charges(s)!Out = Holders
<1>1. \A w \in Workers : worker[w].pc = "holding" =>
        /\ ChargedTo(s, worker[w]) = Period[s][worker[w].at]
        /\ Period[s][worker[w].at] \in Periods
  BY LimiterAssumption DEF TypeOK, ChargedTo
<1>2. \A w \in Workers : worker[w].pc = "holding"
                <=> ChargedTo(s, worker[w]) # NoPeriod
  BY <1>1, NoPeriodAssumption DEF ChargedTo
<1> QED
  BY <1>1, <1>2 DEF Charges!Out, Holders

\* Capacity counts with the same Cardinality.
LEMMA SameCardinality ==
    \A s \in Scopes : Charges(s)!Cardinality(Holders) = Cardinality(Holders)
  BY DEF Charges!Cardinality, Cardinality, Charges!IsFiniteSet, IsFiniteSet

\* A worker that holds nothing before or after is none of Capacity's business.
LEMMA HoldsNothing ==
    ASSUME TypeOK, NEW s \in Scopes, NEW w \in Workers, NEW wk,
           worker' = [worker EXCEPT ![w] = wk],
           worker[w].pc # "holding", wk.pc # "holding",
           UNCHANGED <<quota, leaked>>
    PROVE  UNCHANGED Charges(s)!vars
<1>1. \A v \in Workers : ChargedTo(s, worker'[v]) = ChargedTo(s, worker[v])
  BY DEF TypeOK, ChargedTo
<1> QED
  BY <1>1 DEF Charges!vars

\* Capacity reserves: the check of the quota at the noted time and the bump of
\* the same period are one step, below the concurrency limit.
LEMMA ReserveCharges ==
    ASSUME Inv, NEW w \in Workers, Reserve(w), NEW s \in Scopes
    PROVE  Charges(s)!Next
<1> DEFINE k == Period[s][worker[w].at]
           held == [v \in Workers |-> ChargedTo(s, worker[v])]
<1>1. /\ worker[w].pc = "counting" /\ HasHeadroom(w)
      /\ quota' = Bumped(worker[w].at, 1) /\ leaked' = leaked
  BY DEF Reserve
<1>2. PICK i \in 1..MaxGrants :
        worker' = [worker EXCEPT ![w] = [pc |-> "holding", id |-> i,
                                         at |-> worker[w].at, n |-> grants + 1]]
  BY DEF Reserve
<1>3. worker[w].at \in Times /\ k \in Periods
  BY LimiterAssumption DEF Inv, TypeOK
<1>4. held[w] = NoPeriod /\ Charges(s)!Cardinality(Charges(s)!Out) + leaked < MaxConcurrent
  BY <1>1, ChargedOut, SameCardinality DEF Inv, LockInv, ChargedTo
<1>5. quota[s][k] < QuotaLimit[s]
  BY <1>1 DEF HasHeadroom, QuotaLeft
<1>6. [v \in Workers |-> ChargedTo(s, worker'[v])] = [held EXCEPT ![w] = k]
  BY <1>2 DEF Inv, TypeOK, ChargedTo
<1>7. quota'[s] = [quota[s] EXCEPT ![k] = @ + 1]
  <2>1. quota'[s] = [quota[s] EXCEPT ![k] = IF @ + 1 < 0 THEN 0 ELSE @ + 1]
    BY <1>1 DEF Bumped
  <2>2. quota[s][k] \in Nat
    BY <1>3 DEF Inv, TypeOK
  <2> QED
    BY <2>1, <2>2
<1>8. Charges(s)!Reserve(w, k)
  BY <1>1, <1>4, <1>5, <1>6, <1>7 DEF Charges!Reserve
<1> QED
  BY <1>3, <1>8 DEF Charges!Next

\* The end of a reservation, seen by Capacity.
LEMMA EndsCharge ==
    ASSUME TypeOK, NEW s \in Scopes, NEW w \in Workers,
           worker[w].pc = "holding", worker' = [worker EXCEPT ![w] = Idle]
    PROVE  Charges(s)!Ends(w)
<1> DEFINE held == [v \in Workers |-> ChargedTo(s, worker[v])]
<1>1. held[w] # NoPeriod
  BY ChargedOut
<1>2. [v \in Workers |-> ChargedTo(s, worker'[v])] = [held EXCEPT ![w] = NoPeriod]
  BY DEF TypeOK, ChargedTo, Idle
<1> QED
  BY <1>1, <1>2 DEF Charges!Ends

\* Capacity takes it back: the rollback of a reservation is taken from the
\* period it was charged to, which stands at one or more.
LEMMA ReleaseCharges ==
    ASSUME Inv, NEW w \in Workers, Release(w), NEW s \in Scopes
    PROVE  Charges(s)!Next
<1> DEFINE k == Period[s][worker[w].at]
           of == {g \in ledger : Period[s][g.at] = k}
<1>1. /\ worker[w].pc = "holding" /\ quota' = Bumped(worker[w].at, -1)
      /\ leaked' = leaked /\ worker' = [worker EXCEPT ![w] = Idle]
  BY DEF Release
<1>2. worker[w].at \in Times /\ k \in Periods /\ EntryOf(w) \in of
  BY <1>1, HolderEntry, LimiterAssumption DEF Inv, EntryOf
<1>3. quota[s][k] = Cardinality(of) /\ IsFiniteSet(of)
  BY <1>2, FS_Subset DEF Inv, QuotaExact, LedgerInv
<1>4. quota[s][k] \in Nat /\ quota[s][k] # 0
  <2> HIDE DEF of, k
  <2> QED
    BY <1>2, <1>3, FS_EmptySet, FS_CardinalityType
<1>5. quota'[s] = [quota[s] EXCEPT ![k] = @ - 1]
  <2>1. quota'[s] = [quota[s] EXCEPT ![k] = IF @ + -1 < 0 THEN 0 ELSE @ + -1]
    BY <1>1 DEF Bumped
  <2> QED
    BY <1>4, <2>1
<1>6. Charges(s)!Ends(w) /\ ChargedTo(s, worker[w]) = k
  BY <1>1, EndsCharge, ChargedOut DEF Inv
<1>7. Charges(s)!GiveBack(w)
  BY <1>1, <1>5, <1>6 DEF Charges!GiveBack
<1> QED
  BY <1>7 DEF Charges!Next

\* Every step of the limiter is, for every quota, a step of Capacity or none.
LEMMA StepCharges ==
    ASSUME Inv, [Next]_vars, NEW s \in Scopes
    PROVE  UNCHANGED Charges(s)!vars \/ Charges(s)!Next
<1>1. Idle.pc # "holding" /\ [Idle EXCEPT !.pc = "counting", !.at = now].pc # "holding"
  BY DEF Idle
<1>2. ASSUME NEW w \in Workers, Acquire(w) \/ Refuse(w) \/ ReserveFails(w)
      PROVE  UNCHANGED Charges(s)!vars
  BY <1>1, <1>2, HoldsNothing DEF Inv, Acquire, Refuse, ReserveFails
<1>3. ASSUME NEW w \in Workers, Commit(w) \/ ReleaseFails(w)
      PROVE  Charges(s)!Next
  <2>1. Charges(s)!Ends(w)
    BY <1>3, EndsCharge DEF Inv, Commit, ReleaseFails
  <2>2. Charges(s)!Keep(w)
    BY <1>3, <2>1 DEF Commit, ReleaseFails, Charges!Keep
  <2> QED
    BY <2>2 DEF Charges!Next
<1>4. ASSUME NEW w \in Workers, Abandon(w) PROVE Charges(s)!Next
  <2>1. Charges(s)!Ends(w)
    BY <1>4, EndsCharge DEF Inv, Abandon
  <2>2. Charges(s)!Lose(w)
    BY <1>4, <2>1 DEF Abandon, Charges!Lose
  <2> QED
    BY <2>2 DEF Charges!Next
<1>5. CASE Restart
  <2>1. \A v \in Workers : ChargedTo(s, worker'[v]) = NoPeriod
    BY <1>5 DEF Restart, ChargedTo, Idle
  <2>2. Charges(s)!Restart
    BY <1>5, <2>1 DEF Restart, Charges!Restart
  <2> QED
    BY <2>2 DEF Charges!Next
<1>6. CASE Prune \/ Tick \/ UNCHANGED vars
  <2>1. UNCHANGED <<worker, quota, leaked>>
    BY <1>6 DEF Prune, Tick, vars
  <2> QED
    BY <2>1 DEF Charges!vars
<1> QED
  BY <1>2, <1>3, <1>4, <1>5, <1>6, ReserveCharges, ReleaseCharges DEF Next

\* The limiter keeps Capacity's promise for each of its quotas: the locked
\* read and the write of try_reserve are one reservation, release gives back
\* exactly what was charged, and a restart keeps every count.
THEOREM CapacityImplemented == Spec => ImplementsCapacity
<1>1. Init => \A s \in Scopes : Charges(s)!Init
  BY DEF Init, Charges!Init, ChargedTo, Idle
<1>2. Inv /\ [Next]_vars =>
        [\A s \in Scopes : UNCHANGED Charges(s)!vars \/ Charges(s)!Next]_vars
  BY StepCharges
<1> QED
  BY <1>1, <1>2, InvHolds, PTL DEF Spec, ImplementsCapacity

-----------------------------------------------------------------------------
(* check *)

\* send_log never holds more rows of a window than its limit.
CountInv ==
    /\ IsFiniteSet(log)
    /\ \A v \in Windows : Count(v) <= Limit[v]

\* The rows a window counts.
Counted(v) == {e \in log : e.at >= now - Span[v]}

\* A window counts finitely many rows.
LEMMA CountedFinite ==
    ASSUME IsFiniteSet(log), NEW v \in Windows
    PROVE  IsFiniteSet(Counted(v)) /\ Count(v) = Cardinality(Counted(v))
           /\ Count(v) \in Nat
  BY FS_Subset, FS_CardinalityType DEF Counted, Count

\* Rows that leave a window, by time, prune or a release, keep the counts.
LEMMA FewerRows ==
    ASSUME CountInv, log' \subseteq log,
           \A v \in Windows : Counted(v)' \subseteq Counted(v)
    PROVE  CountInv'
<1>1. IsFiniteSet(log')
  BY FS_Subset DEF CountInv
<1> SUFFICES ASSUME NEW v \in Windows PROVE Count(v)' <= Limit[v]
  BY <1>1 DEF CountInv
<1>2. IsFiniteSet(Counted(v)) /\ Count(v) = Cardinality(Counted(v)) /\ Count(v) \in Nat
  BY CountedFinite DEF CountInv
<1>3. IsFiniteSet(Counted(v)') /\ Cardinality(Counted(v)') <= Cardinality(Counted(v))
  BY <1>2, FS_Subset
<1>4. Count(v)' = Cardinality(Counted(v)') /\ Count(v)' \in Nat
  BY <1>3, FS_CardinalityType DEF Counted, Count
<1> QED
  BY <1>2, <1>3, <1>4, LimiterAssumption DEF CountInv

\* Every step keeps the counts within the limits.
LEMMA NextCount == Inv /\ CountInv /\ [Next]_vars => CountInv'
<1> SUFFICES ASSUME Inv, CountInv, [Next]_vars PROVE CountInv'
  OBVIOUS
<1>1. ASSUME NEW w \in Workers, Reserve(w) PROVE CountInv'
  <2>1. PICK i \in 1..MaxGrants :
          log' = log \cup {[id |-> i, at |-> worker[w].at, n |-> grants + 1]}
    BY <1>1 DEF Reserve
  <2> DEFINE entry == [id |-> i, at |-> worker[w].at, n |-> grants + 1]
  <2>2. IsFiniteSet(log')
    BY <2>1, FS_AddElement DEF CountInv
  <2> SUFFICES ASSUME NEW v \in Windows PROVE Count(v)' <= Limit[v]
    BY <2>2 DEF CountInv
  <2>3. now' = now /\ Count(v) < Limit[v]
    BY <1>1 DEF Reserve, HasHeadroom
  <2>4. IsFiniteSet(Counted(v)) /\ Count(v) = Cardinality(Counted(v)) /\ Count(v) \in Nat
    BY CountedFinite DEF CountInv
  <2>5. Counted(v)' = Counted(v) \/ Counted(v)' = Counted(v) \cup {entry}
    BY <2>1, <2>3 DEF Counted
  <2> HIDE DEF entry
  <2>6. \/ Cardinality(Counted(v) \cup {entry}) = Cardinality(Counted(v))
        \/ Cardinality(Counted(v) \cup {entry}) = Cardinality(Counted(v)) + 1
    BY <2>4, FS_AddElement
  <2>7. Count(v)' = Cardinality(Counted(v)') /\ Limit[v] \in Nat
    BY LimiterAssumption DEF Count, Counted
  <2>8. Count(v)' = Count(v) \/ Count(v)' = Count(v) + 1
    BY <2>4, <2>5, <2>6, <2>7, Zenon
  <2> QED
    BY <2>3, <2>4, <2>7, <2>8
<1>2. CASE Tick
  <2>1. now \in Nat /\ now' = now + 1 /\ log' = log
    BY <1>2 DEF Tick, Inv, TypeOK, Times
  <2>2. \A v \in Windows : Counted(v)' \subseteq Counted(v)
    BY <2>1, LimiterAssumption DEF Counted, Inv, TypeOK, Entry, Times
  <2> QED
    BY <2>1, <2>2, FewerRows
<1>3. CASE Prune \/ \E w \in Workers : Release(w)
  <2>1. log' \subseteq log /\ now' = now
    BY <1>3 DEF Prune, Release
  <2>2. \A v \in Windows : Counted(v)' \subseteq Counted(v)
    BY <2>1 DEF Counted
  <2> QED
    BY <2>1, <2>2, FewerRows
<1>4. CASE UNCHANGED <<log, now>>
  BY <1>4 DEF CountInv, Count
<1>5. \/ \E w \in Workers : Reserve(w) \/ Release(w)
      \/ Tick \/ Prune \/ UNCHANGED <<log, now>>
  BY DEF Next, vars, Acquire, Refuse, ReserveFails, Commit, ReleaseFails,
         Abandon, Restart
<1> QED
  BY <1>1, <1>2, <1>3, <1>4, <1>5

\* Every room check computes is at least zero, however long relays take and
\* whatever prune and release delete, and its verdict is the one try_reserve
\* would reach under the lock.
THEOREM CheckTruthful == Spec => []CheckIsTruthful
<1>1. Init => CountInv
  <2> SUFFICES ASSUME Init PROVE CountInv
    OBVIOUS
  <2>1. \A v \in Windows : Counted(v) = {}
    BY DEF Init, Counted
  <2> QED
    BY <2>1, FS_EmptySet, LimiterAssumption DEF Init, CountInv, Count, Counted
<1>2. Inv /\ CountInv => CheckIsTruthful
  <2> SUFFICES ASSUME Inv, CountInv PROVE CheckIsTruthful
    OBVIOUS
  <2>1. /\ inflight \in Nat /\ inflight <= MaxConcurrent /\ MaxConcurrent \in Nat
        /\ \A v \in Windows : Count(v) \in Nat /\ Count(v) <= Limit[v]
                                /\ Limit[v] \in Nat
        /\ now \in Times
    BY LimiterAssumption, CountedFinite DEF Inv, LockInv, CountInv, TypeOK
  <2>2. \A s \in Scopes : \A t \in Times :
           /\ quota[s][Period[s][t]] \in Nat /\ QuotaLimit[s] \in Nat
           /\ quota[s][Period[s][t]] <= QuotaLimit[s]
    <3>1. \A s \in Scopes : \A t \in Times : Period[s][t] \in Periods
      BY LimiterAssumption
    <3> QED
      BY <3>1, LimiterAssumption DEF Inv, TypeOK, QuotaExact
  <2>3. \A room \in Rooms : room >= 0
    BY <2>1, <2>2 DEF Rooms
  <2>4. ASSUME NEW w \in Workers, worker[w].pc = "counting", worker[w].at = now
        PROVE  CheckAllows <=> HasHeadroom(w)
    <3>1. inflight < MaxConcurrent
      BY <2>4 DEF Inv, LockInv
    <3>2. CheckAllows <=> /\ MaxConcurrent - inflight > 0
                          /\ \A v \in Windows : Limit[v] - Count(v) > 0
                          /\ \A s \in Scopes :
                               QuotaLimit[s] - quota[s][Period[s][now]] > 0
      BY DEF CheckAllows, Rooms
    <3> QED
      BY <2>1, <2>2, <2>4, <3>1, <3>2 DEF HasHeadroom, QuotaLeft
  <2> QED
    BY <2>3, <2>4 DEF CheckIsTruthful
<1> QED
  BY <1>1, <1>2, NextCount, InvHolds, PTL DEF Spec

-----------------------------------------------------------------------------
(* The billing cycle *)

\* The month key of a time.
KeyAt(t) == MonthKey(Date[t], ResetDay)

\* Up to now, times of one billing cycle have one month key, and nothing has
\* been reserved for a time still to come.
CycleInv ==
    /\ \A g \in ledger : g.at <= now
    /\ \A w \in Workers : worker[w].at <= now
    /\ \A t, u \in 0..now : Cycle[t] = Cycle[u] => KeyAt(t) = KeyAt(u)

\* From one day to the next, the month key changes on a reset day only.
LEMMA KeyStays ==
    ASSUME NEW d \in Dates, NEW resetDay \in ResetDays, NextDate(d).day # resetDay
    PROVE  MonthKey(NextDate(d), resetDay) = MonthKey(d, resetDay)
<1> DEFINE e == NextDate(d)
           k == MonthKey(d, resetDay)
           l == MonthKey(e, resetDay)
<1>1. KeyNumber(l) = KeyNumber(k) + 0
  <2>1. KeyNumber(l) = KeyNumber(k) + (IF e.day = resetDay THEN 1 ELSE 0)
    BY MonthKeyTurns
  <2> QED
    BY <2>1
<1>2. e \in Dates
  BY NextDateType
<1>3. ASSUME NEW f \in Dates
      PROVE  \E y \in Int, m \in 1..12 : MonthKey(f, resetDay) = <<y, m>>
  <2>1. f.year \in Int /\ f.year - 1 \in Int /\ f.month \in 1..12 /\ 12 \in 1..12
        /\ (f.month > 1 => f.month - 1 \in 1..12)
    BY DEF Dates
  <2> QED
    BY <2>1 DEF MonthKey
<1>4. PICK y \in Int, m \in 1..12 : k = <<y, m>>
  BY <1>3
<1>5. PICK z \in Int, n \in 1..12 : l = <<z, n>>
  BY <1>2, <1>3
<1> HIDE DEF k, l
<1>6. y = z /\ m = n
  BY <1>1, <1>4, <1>5 DEF KeyNumber
<1> QED
  BY <1>4, <1>5, <1>6 DEF k, l

\* The numbers of the cycles: they never fall, and a reset day begins a new one.
LEMMA CycleTurns ==
    ASSUME NEW t \in Times, t + 1 \in Times
    PROVE  /\ Cycle[t] \in Nat
           /\ \A u \in 0..t : Cycle[u] \in Nat /\ Cycle[u] <= Cycle[t]
           /\ Cycle[t + 1] = Cycle[t] + (IF StartsCycle(t + 1) THEN 1 ELSE 0)
<1> DEFINE starts(u) == {x \in 1..u : StartsCycle(x)}
<1>1. t \in Nat /\ \A u \in 0..t + 1 : u \in Times
  BY LimiterAssumption DEF Times
<1>2. \A u \in 0..t + 1 : Cycle[u] = Cardinality(starts(u))
  BY <1>1 DEF Cycle
<1>3. \A u \in 0..t + 1 : IsFiniteSet(starts(u)) /\ Cardinality(starts(u)) \in Nat
  <2> SUFFICES ASSUME NEW u \in 0..t + 1
               PROVE  IsFiniteSet(starts(u)) /\ Cardinality(starts(u)) \in Nat
    OBVIOUS
  <2>1. IsFiniteSet(1..u)
    BY <1>1, FS_Interval
  <2> QED
    BY <2>1, FS_Subset, FS_CardinalityType
<1>4. ASSUME NEW u \in 0..t PROVE Cycle[u] \in Nat /\ Cycle[u] <= Cycle[t]
  <2>1. starts(u) \subseteq starts(t) /\ u \in 0..t + 1 /\ t \in 0..t + 1
    BY <1>1
  <2> HIDE DEF starts
  <2> QED
    BY <1>2, <1>3, <2>1, FS_Subset
<1>5. Cycle[t + 1] = Cycle[t] + (IF StartsCycle(t + 1) THEN 1 ELSE 0)
  <2>1. t + 1 \in 0..t + 1 /\ t \in 0..t + 1
    BY <1>1
  <2>2. CASE StartsCycle(t + 1)
    <3>1. starts(t + 1) = starts(t) \cup {t + 1} /\ t + 1 \notin starts(t)
      BY <1>1, <2>2
    <3> HIDE DEF starts
    <3> QED
      BY <1>2, <1>3, <2>1, <2>2, <3>1, FS_AddElement
  <2>3. CASE ~StartsCycle(t + 1)
    <3>1. starts(t + 1) = starts(t)
      BY <1>1, <2>3
    <3> HIDE DEF starts
    <3> QED
      BY <1>2, <1>3, <2>1, <2>3, <3>1
  <2> QED
    BY <2>2, <2>3
<1> QED
  BY <1>1, <1>4, <1>5

\* A tick of the clock keeps one key per cycle.
LEMMA TickCycle == Inv /\ CycleInv /\ Tick => CycleInv'
<1> SUFFICES ASSUME Inv, CycleInv, Tick PROVE CycleInv'
  OBVIOUS
<1>1. /\ now \in Nat /\ now' = now + 1 /\ now \in Times /\ now + 1 \in Times
      /\ now + 1 \in 1..MaxTime /\ UNCHANGED <<ledger, worker>>
  BY LimiterAssumption DEF Tick, Inv, TypeOK, Times
<1>2. (\A g \in ledger' : g.at <= now') /\ (\A w \in Workers : worker'[w].at <= now')
  BY <1>1 DEF CycleInv, Inv, TypeOK, Entry, Times
<1>3. /\ Cycle[now] \in Nat
      /\ \A u \in 0..now : Cycle[u] \in Nat /\ Cycle[u] <= Cycle[now]
      /\ Cycle[now + 1] = Cycle[now] + (IF StartsCycle(now + 1) THEN 1 ELSE 0)
  BY <1>1, CycleTurns
<1>4. CASE StartsCycle(now + 1)
  <2>1. \A u \in 0..now : Cycle[u] # Cycle[now + 1]
    BY <1>3, <1>4
  <2> QED
    BY <1>1, <1>2, <2>1 DEF CycleInv
<1>5. CASE ~StartsCycle(now + 1)
  <2>1. KeyAt(now + 1) = KeyAt(now)
    <3>1. Date[now] \in Dates /\ Date[now + 1] \in {Date[now], NextDate(Date[now])}
      <4>1. (now + 1) - 1 = now
        BY <1>1
      <4> QED
        BY <1>1, <4>1, CalendarAssumption
    <3>2. Date[now + 1] = Date[now] \/ Date[now + 1].day # ResetDay
      <4>1. (now + 1) - 1 = now
        BY <1>1
      <4> QED
        BY <1>5, <4>1 DEF StartsCycle
    <3> QED
      BY <3>1, <3>2, KeyStays, CalendarAssumption DEF KeyAt
  <2>2. Cycle[now + 1] = Cycle[now]
    BY <1>3, <1>5
  <2> QED
    BY <1>1, <1>2, <2>1, <2>2 DEF CycleInv
<1> QED
  BY <1>4, <1>5

\* Every step keeps one key per cycle.
LEMMA NextCycle == Inv /\ CycleInv /\ [Next]_vars => CycleInv'
<1> SUFFICES ASSUME Inv, CycleInv, [Next]_vars, ~Tick PROVE CycleInv'
  BY TickCycle
<1>1. now' = now /\ now \in Nat
  BY DEF Next, vars, Acquire, Reserve, Refuse, ReserveFails, Commit, Release,
         ReleaseFails, Abandon, Prune, Restart, Inv, TypeOK, Times
<1>2. \A w \in Workers : worker'[w] = worker[w] \/ worker'[w].at \in {0, now, worker[w].at}
  <2>1. \/ worker' = worker
        \/ worker' = [v \in Workers |-> Idle]
        \/ \E w \in Workers : \E wk : /\ worker' = [worker EXCEPT ![w] = wk]
                                       /\ wk.at \in {0, now, worker[w].at}
    <3>1. Idle.at = 0 /\ [Idle EXCEPT !.pc = "counting", !.at = now].at = now
      BY DEF Idle
    <3>2. ASSUME NEW w \in Workers, Acquire(w)
          PROVE  \E wk : worker' = [worker EXCEPT ![w] = wk] /\ wk.at = now
      BY <3>1, <3>2 DEF Acquire
    <3>3. ASSUME NEW w \in Workers, Reserve(w)
          PROVE  \E wk : worker' = [worker EXCEPT ![w] = wk] /\ wk.at = worker[w].at
      BY <3>3 DEF Reserve
    <3>4. ASSUME NEW w \in Workers,
                 \/ Refuse(w) \/ ReserveFails(w) \/ Commit(w) \/ Release(w)
                 \/ ReleaseFails(w) \/ Abandon(w)
          PROVE  \E wk : worker' = [worker EXCEPT ![w] = wk] /\ wk.at = 0
      BY <3>1, <3>4 DEF Refuse, ReserveFails, Commit, Release, ReleaseFails, Abandon
    <3>5. CASE Prune \/ Restart \/ UNCHANGED vars
      BY <3>5 DEF Prune, Restart, vars
    <3> QED
      BY <3>2, <3>3, <3>4, <3>5 DEF Next
  <2>2. worker \in [Workers -> [pc : {"idle", "counting", "holding"},
                                id : 0..MaxGrants, at : Times, n : 0..MaxGrants]]
    BY DEF Inv, TypeOK
  <2> QED
    BY <2>1, <2>2 DEF Idle
<1>3. \A g \in ledger' : g \in ledger \/ \E w \in Workers : g.at = worker[w].at
  BY DEF Next, vars, Acquire, Reserve, Refuse, ReserveFails, Commit, Release,
         ReleaseFails, Abandon, Prune, Restart
<1> QED
  BY <1>1, <1>2, <1>3 DEF CycleInv

\* Between two reset days a provider is charged for at most per_month
\* messages: the month counter's key changes with the billing cycle and at no
\* other time, for every calendar and every reset day.
THEOREM BillingCycleCapped == Spec => []BillingCycleCap
<1>1. Init => CycleInv
  <2> SUFFICES ASSUME Init PROVE CycleInv
    OBVIOUS
  <2>1. now = 0 /\ ledger = {} /\ \A w \in Workers : worker[w].at = 0
    BY DEF Init, Idle
  <2> QED
    BY <2>1 DEF CycleInv
<1>2. Inv /\ CycleInv => BillingCycleCap
  <2> SUFFICES ASSUME Inv, CycleInv, "month" \in Scopes, NEW t \in Times
               PROVE  Cardinality({g \in ledger : Cycle[g.at] = Cycle[t]})
                        <= QuotaLimit["month"]
    BY DEF BillingCycleCap
  <2> DEFINE charged == {g \in ledger : Cycle[g.at] = Cycle[t]}
  <2>1. QuotaLimit["month"] \in Nat
    BY LimiterAssumption
  <2>2. CASE charged = {}
    <3>1. Cardinality(charged) = 0
      BY <2>2, FS_EmptySet, Zenon
    <3> QED
      BY <2>1, <3>1
  <2>3. ASSUME NEW h \in charged
        PROVE  Cardinality(charged) <= QuotaLimit["month"]
    <3> DEFINE k == Period["month"][h.at]
               of == {g \in ledger : Period["month"][g.at] = k}
    <3>1. \A g \in ledger : g.at \in Times /\ g.at \in 0..now
                              /\ Period["month"][g.at] = KeyAt(g.at)
      BY PeriodAssumption
      DEF CycleInv, Inv, TypeOK, Entry, Times, CalendarPeriod, KeyOf, KeyAt
    <3>2. charged \subseteq of
      BY <2>3, <3>1 DEF CycleInv
    <3>3. k \in Periods
      BY <2>3, <3>1, LimiterAssumption
    <3>4. IsFiniteSet(of) /\ Cardinality(of) <= QuotaLimit["month"]
      BY <3>3, FS_Subset DEF Inv, QuotaExact, LedgerInv
    <3> HIDE DEF charged, of, k
    <3>5. /\ Cardinality(charged) <= Cardinality(of) /\ Cardinality(of) \in Nat
          /\ IsFiniteSet(charged) /\ Cardinality(charged) \in Nat
      BY <3>2, <3>4, FS_Subset, FS_CardinalityType
    <3> QED
      BY <2>1, <3>4, <3>5
  <2> QED
    BY <2>2, <2>3
<1> QED
  BY <1>1, <1>2, NextCycle, InvHolds, PTL DEF Spec

-----------------------------------------------------------------------------
(* The sliding windows *)

\* The rows prune keeps, and the entries of a stretch of time.
Recent(g) == g.at >= now - (Widest + PruneSlack)
Stretch(v, t) ==
    {g \in ledger : t - (Span[v] - MaxDrift) <= g.at /\ g.at <= t}

\* send_log is finite with unique ids and has a row for every recent grant.
LogInv ==
    /\ IsFiniteSet(log)
    /\ \A e, f \in log : e.id = f.id => e = f
    /\ \A g \in ledger : Recent(g) => g \in log

\* No task stays in a step longer than its bound.
TimeInv ==
    \A w \in Workers : worker[w].pc # "idle" =>
        worker[w].at <= now /\ now - worker[w].at <= Patience(w)

WindowInv == LogInv /\ TimeInv /\ WindowCap

\* A stretch is finite.
LEMMA StretchFinite ==
    ASSUME Inv, NEW v \in Windows, NEW t \in Times
    PROVE  IsFiniteSet(Stretch(v, t)) /\ Cardinality(Stretch(v, t)) \in Nat
  BY FS_Subset, FS_CardinalityType DEF Inv, LedgerInv, Stretch

\* Fewer entries keep every window below its limit.
LEMMA FewerEntries ==
    ASSUME Inv, WindowCap, ledger' \subseteq ledger
    PROVE  WindowCap'
<1> SUFFICES ASSUME NEW v \in Windows, NEW t \in Times
             PROVE  Cardinality(Stretch(v, t)') <= Limit[v]
  BY DEF WindowCap, Stretch
<1>1. Stretch(v, t)' \subseteq Stretch(v, t)
  BY DEF Stretch
<1>2. Cardinality(Stretch(v, t)) <= Limit[v]
  BY DEF WindowCap, Stretch
<1>3. /\ IsFiniteSet(Stretch(v, t)')
      /\ Cardinality(Stretch(v, t)') <= Cardinality(Stretch(v, t))
  BY <1>1, StretchFinite, FS_Subset
<1>4. Cardinality(Stretch(v, t)') \in Nat
  BY <1>3, FS_CardinalityType
<1> QED
  BY <1>2, <1>3, <1>4, StretchFinite, LimiterAssumption

\* The reservation: every grant that shares a stretch with the new one has
\* been counted, because the count reaches back a full span from a clock that
\* is at most MaxDrift later.
LEMMA ReserveWindow ==
    ASSUME Inv, WindowInv, NEW w \in Workers, Reserve(w)
    PROVE  WindowInv'
<1> USE LimiterAssumption DEF Inv, WindowInv
<1>1. PICK i \in 1..MaxGrants :
        /\ IsNewLogId(i)
        /\ log' = log \cup {[id |-> i, at |-> worker[w].at, n |-> grants + 1]}
        /\ ledger' = ledger \cup {[id |-> i, at |-> worker[w].at, n |-> grants + 1]}
        /\ worker' = [worker EXCEPT ![w] = [pc |-> "holding", id |-> i,
                                           at |-> worker[w].at, n |-> grants + 1]]
  BY DEF Reserve
<1> DEFINE entry == [id |-> i, at |-> worker[w].at, n |-> grants + 1]
<1>2. worker[w].pc = "counting" /\ HasHeadroom(w) /\ now' = now
  BY DEF Reserve
<1>3. /\ worker[w].at \in Times /\ now \in Times
      /\ worker[w].at <= now /\ now - worker[w].at <= MaxDrift
  BY <1>2 DEF TypeOK, TimeInv, Patience
<1>4. LogInv'
  <2>1. IsFiniteSet(log')
    BY <1>1, FS_AddElement DEF LogInv
  <2>2. \A e, f \in log' : e.id = f.id => e = f
    BY <1>1 DEF LogInv, IsNewLogId, TypeOK, Entry
  <2>3. \A g \in ledger' : Recent(g)' => g \in log'
    BY <1>1, <1>2 DEF LogInv, Recent
  <2> QED
    BY <2>1, <2>2, <2>3 DEF LogInv
<1>5. TimeInv'
  BY <1>1, <1>2, <1>3 DEF TimeInv, Patience, TypeOK, Times
<1>6. WindowCap'
  <2> SUFFICES ASSUME NEW v \in Windows, NEW t \in Times
               PROVE  Cardinality(Stretch(v, t)') <= Limit[v]
    BY DEF WindowCap, Stretch
  <2>1. Cardinality(Stretch(v, t)) <= Limit[v]
    BY DEF WindowCap, Stretch
  <2>2. CASE t - (Span[v] - MaxDrift) <= worker[w].at /\ worker[w].at <= t
    <3> DEFINE counted == {e \in log : e.at >= now - Span[v]}
    <3>1. Stretch(v, t) \subseteq counted
      <4> SUFFICES ASSUME NEW g \in ledger,
                          t - (Span[v] - MaxDrift) <= g.at, g.at <= t
                   PROVE  g \in log /\ g.at >= now - Span[v]
        BY DEF Stretch
      <4>1. g.at \in Nat /\ Span[v] \in Nat /\ Span[v] <= Widest
            /\ t \in Nat /\ worker[w].at \in Nat /\ now \in Nat
        BY <1>3 DEF TypeOK, Entry, Times
      <4>2. g.at >= now - Span[v]
        BY <1>3, <2>2, <4>1
      <4>3. Recent(g)
        BY <4>1, <4>2 DEF Recent
      <4> QED
        BY <4>2, <4>3 DEF LogInv
    <3>2. /\ IsFiniteSet(counted) /\ Cardinality(counted) \in Nat
          /\ Cardinality(counted) < Limit[v]
      BY <1>2, FS_Subset, FS_CardinalityType DEF LogInv, HasHeadroom, Count
    <3>3. Cardinality(Stretch(v, t)) <= Cardinality(counted)
      <4> HIDE DEF counted
      <4> QED
        BY <3>1, <3>2, FS_Subset
    <3>4. Stretch(v, t)' = Stretch(v, t) \cup {entry}
      BY <1>1, <2>2 DEF Stretch
    <3>5. Cardinality(Stretch(v, t)') <= Cardinality(Stretch(v, t)) + 1
      <4> HIDE DEF entry
      <4>1. IsFiniteSet(Stretch(v, t)) /\ Cardinality(Stretch(v, t)) \in Nat
        BY StretchFinite, FS_CardinalityType
      <4>2. \/ Cardinality(Stretch(v, t) \cup {entry}) = Cardinality(Stretch(v, t))
            \/ Cardinality(Stretch(v, t) \cup {entry}) = Cardinality(Stretch(v, t)) + 1
        BY <4>1, FS_AddElement
      <4> QED
        BY <3>4, <4>1, <4>2
    <3>6. Cardinality(Stretch(v, t)') \in Nat
      <4> HIDE DEF entry
      <4> QED
        BY <3>4, StretchFinite, FS_AddElement, FS_CardinalityType
    <3> HIDE DEF counted
    <3> QED
      BY <3>2, <3>3, <3>5, <3>6, StretchFinite
  <2>3. CASE ~(t - (Span[v] - MaxDrift) <= worker[w].at /\ worker[w].at <= t)
    <3>1. Stretch(v, t)' = Stretch(v, t)
      BY <1>1, <2>3 DEF Stretch
    <3> QED
      BY <2>1, <3>1
  <2> QED
    BY <2>2, <2>3
<1> QED
  BY <1>4, <1>5, <1>6

\* The release: while no relay outlives the pruned rows, the row found by id
\* is the reservation's own.
LEMMA ReleaseWindow ==
    ASSUME Inv, WindowInv, MaxRelay <= Widest + PruneSlack,
           NEW w \in Workers, Release(w)
    PROVE  WindowInv'
<1> USE LimiterAssumption DEF Inv, WindowInv
<1> DEFINE entry == EntryOf(w)
<1>1. /\ worker[w].pc = "holding" /\ now' = now
      /\ log' = {e \in log : e.id # worker[w].id}
      /\ ledger' = {g \in ledger : g.n # worker[w].n}
      /\ worker' = [worker EXCEPT ![w] = Idle]
  BY DEF Release
<1>2. entry \in ledger /\ ledger' = ledger \ {entry}
  BY <1>1, HolderEntry
<1>3. Recent(entry)
  <2>1. /\ worker[w].at \in Nat /\ now \in Nat
        /\ now - worker[w].at <= MaxRelay
    <3>1. TimeInv /\ worker[w].pc # "idle" /\ Patience(w) = MaxRelay
      BY <1>1 DEF Patience
    <3>2. worker[w].at \in Times /\ now \in Times
      BY DEF TypeOK
    <3> QED
      BY <3>1, <3>2 DEF TimeInv, Times
  <2> QED
    BY <2>1 DEF Recent, EntryOf
<1>4. log' = log \ {entry}
  BY <1>1, <1>2, <1>3 DEF LogInv, EntryOf
<1>5. LogInv'
  <2>1. IsFiniteSet(log')
    BY <1>4, FS_RemoveElement DEF LogInv
  <2> QED
    BY <1>1, <1>2, <1>4, <2>1 DEF LogInv, Recent
<1>6. TimeInv'
  BY <1>1 DEF TimeInv, Patience, TypeOK, Idle
<1>7. WindowCap'
  BY <1>2, FewerEntries
<1> QED
  BY <1>5, <1>6, <1>7

\* Steps that leave send_log and ledger alone.
LEMMA OtherWindow ==
    ASSUME Inv, WindowInv, UNCHANGED <<now, log, ledger>>, TimeInv'
    PROVE  WindowInv'
<1>1. LogInv'
  BY DEF WindowInv, LogInv, Recent
<1>2. WindowCap'
  BY DEF WindowInv, WindowCap
<1> QED
  BY <1>1, <1>2 DEF WindowInv

\* Every step keeps the windows, if relays are short enough.
LEMMA NextWindow ==
    ASSUME MaxRelay <= Widest + PruneSlack, Inv, WindowInv, [Next]_vars
    PROVE  WindowInv'
<1> USE LimiterAssumption DEF Inv
<1>1. ASSUME NEW w \in Workers,
             \/ Refuse(w) \/ ReserveFails(w) \/ Commit(w)
             \/ ReleaseFails(w) \/ Abandon(w)
      PROVE  WindowInv'
  <2>1. UNCHANGED <<now, log, ledger>> /\ worker' = [worker EXCEPT ![w] = Idle]
    BY <1>1 DEF Refuse, ReserveFails, Commit, ReleaseFails, Abandon
  <2>2. TimeInv'
    BY <2>1 DEF WindowInv, TimeInv, Patience, TypeOK, Idle
  <2> QED
    BY <2>1, <2>2, OtherWindow
<1>2. ASSUME NEW w \in Workers, Acquire(w) PROVE WindowInv'
  <2>1. /\ UNCHANGED <<now, log, ledger>>
        /\ worker' = [worker EXCEPT ![w] = [Idle EXCEPT !.pc = "counting",
                                                        !.at = now]]
    BY <1>2 DEF Acquire
  <2>2. TimeInv'
    <3>1. now \in Nat
      BY DEF TypeOK, Times
    <3>2. worker'[w] = [pc |-> "counting", id |-> 0, at |-> now, n |-> 0]
      BY <2>1 DEF TypeOK, Idle
    <3>3. \A x \in Workers \ {w} : worker'[x] = worker[x]
      BY <2>1 DEF TypeOK
    <3>4. now - now = 0 /\ now <= now /\ 0 <= MaxDrift
      BY <3>1
    <3> QED
      BY <2>1, <3>2, <3>3, <3>4 DEF WindowInv, TimeInv, Patience
  <2> QED
    BY <2>1, <2>2, OtherWindow
<1>3. CASE Restart
  <2>1. TimeInv'
    BY <1>3 DEF Restart, TimeInv, Idle
  <2> QED
    BY <1>3, <2>1, OtherWindow DEF Restart
<1>4. CASE Prune
  <2>1. IsFiniteSet(log')
    BY <1>4, FS_Subset DEF Prune, WindowInv, LogInv
  <2>2. LogInv'
    BY <1>4, <2>1 DEF Prune, WindowInv, LogInv, Recent
  <2>3. TimeInv'
    BY <1>4 DEF Prune, WindowInv, TimeInv, Patience
  <2> QED
    BY <1>4, <2>2, <2>3 DEF Prune, WindowInv, WindowCap
<1>5. CASE Tick
  <2>1. now \in Nat /\ now' = now + 1 /\ UNCHANGED <<log, worker, ledger>>
    BY <1>5 DEF Tick, TypeOK, Times
  <2>2. \A g \in ledger : Recent(g)' => Recent(g)
    BY <2>1 DEF Recent, TypeOK, Entry, Times
  <2>3. LogInv'
    BY <2>1, <2>2 DEF WindowInv, LogInv
  <2>4. TimeInv'
    BY <1>5, <2>1 DEF Tick, WindowInv, TimeInv, Patience, TypeOK, Times
  <2> QED
    BY <2>1, <2>3, <2>4 DEF WindowInv, WindowCap
<1>6. CASE UNCHANGED vars
  BY <1>6, OtherWindow DEF vars, WindowInv, TimeInv, Patience
<1> QED
  BY <1>1, <1>2, <1>3, <1>4, <1>5, <1>6, ReserveWindow, ReleaseWindow DEF Next

\* The sliding windows hold in every interleaving, as long as no relay takes
\* longer than the widest window and prune's slack together.
THEOREM WindowSafe ==
    ASSUME MaxRelay <= Widest + PruneSlack
    PROVE  Spec => []WindowCap
<1>1. Init => WindowInv
  <2> SUFFICES ASSUME Init PROVE WindowInv
    OBVIOUS
  <2>1. LogInv
    BY FS_EmptySet DEF Init, LogInv
  <2>2. TimeInv
    BY DEF Init, TimeInv, Idle
  <2>3. \A v \in Windows : \A t \in Times : Stretch(v, t) = {}
    BY DEF Init, Stretch
  <2>4. \A v \in Windows : \A t \in Times : Cardinality(Stretch(v, t)) <= Limit[v]
    <3> TAKE v \in Windows
    <3> TAKE t \in Times
    <3>1. Cardinality(Stretch(v, t)) = 0
      BY <2>3, FS_EmptySet, Zenon
    <3>2. Limit[v] \in Nat
      BY LimiterAssumption
    <3> QED
      BY <3>1, <3>2
  <2> QED
    BY <2>1, <2>2, <2>4 DEF WindowInv, WindowCap, Stretch
<1>2. Inv /\ WindowInv /\ [Next]_vars => WindowInv'
  BY NextWindow
<1>3. WindowInv => WindowCap
  BY DEF WindowInv
<1> QED
  BY <1>1, <1>2, <1>3, InvHolds, PTL DEF Spec
=============================================================================
