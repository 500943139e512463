---------------------------- MODULE RateLimiter ----------------------------
(***************************************************************************)
(* dispatch/rate_limiter.py: the reservations of one provider, taken by    *)
(* concurrent workers under the provider's lock before they relay, and     *)
(* committed or released after.  Sliding windows count the rows of         *)
(* send_log, day and month quotas are counters keyed by period, and        *)
(* max_concurrent is a counter in memory.                                  *)
(*                                                                         *)
(* Time is a bounded clock.  The lock is held while a worker is "counting" *)
(* (between the concurrency check of try_reserve and its transaction);     *)
(* commit and release only need it to be free, because nothing they do     *)
(* under it can be seen half done.  prune takes no lock.  A configured     *)
(* limit of None is a window, a scope or a concurrency that is left out    *)
(* (for MaxConcurrent: any number no smaller than the workers).            *)
(***************************************************************************)
EXTENDS Integers, FiniteSets

CONSTANTS
    Workers,
    Windows,        \* the configured sliding windows
    Span,           \* a window's length
    Limit,          \* a window's limit
    Scopes,         \* the configured quotas: a subset of {"day", "month"}
    QuotaLimit,     \* a quota's limit
    Periods,        \* period keys
    Period,         \* the period key of each scope and time
    MaxConcurrent,  \* limits.max_concurrent
    Widest,         \* the widest window of any provider
    PruneSlack,     \* the 60 seconds prune adds to it
    MaxDrift,       \* bound: ticks a transaction of try_reserve may take
    MaxRelay,       \* bound: ticks from a reservation to its settlement
    MaxTime,        \* bound: the clock
    MaxGrants,      \* bound: reservations
    MaxFaults       \* bound: database faults and restarts

Times == 0..MaxTime

ASSUME LimiterAssumption ==
    /\ IsFiniteSet(Workers)
    /\ Span \in [Windows -> Nat] /\ Limit \in [Windows -> Nat]
    /\ QuotaLimit \in [Scopes -> Nat]
    /\ Period \in [Scopes -> [Times -> Periods]]
    /\ MaxConcurrent \in Nat /\ Widest \in Nat /\ PruneSlack \in Nat
    /\ MaxDrift \in Nat /\ MaxRelay \in Nat /\ MaxTime \in Nat
    /\ MaxGrants \in Nat /\ MaxFaults \in Nat
    /\ MaxDrift <= MaxRelay
    /\ \A v \in Windows : Span[v] <= Widest /\ Limit[v] > 0

VARIABLES
    now,       \* the clock
    log,       \* the send_log table
    quota,     \* the provider_quota table
    inflight,  \* the in-memory concurrency counter
    worker,    \* the workers
    grants,    \* reservations granted so far
    ledger,    \* ghost: the grants that were not rolled back
    leaked,    \* ghost: slots of reservations nobody settled
    faults     \* faults so far

vars == <<now, log, quota, inflight, worker, grants, ledger, leaked, faults>>

\* A send_log row.  n is a ghost: the number of the grant it was made for.
Entry == [id : 1..MaxGrants, at : Times, n : 1..MaxGrants]

Idle == [pc |-> "idle", id |-> 0, at |-> 0, n |-> 0]

TypeOK ==
    /\ now \in Times
    /\ log \subseteq Entry
    /\ quota \in [Scopes -> [Periods -> Nat]]
    /\ inflight \in Nat
    /\ worker \in [Workers -> [pc : {"idle", "counting", "holding"},
                               id : 0..MaxGrants, at : Times, n : 0..MaxGrants]]
    /\ grants \in 0..MaxGrants
    /\ ledger \subseteq Entry
    /\ leaked \in Nat
    /\ faults \in 0..MaxFaults

Init ==
    /\ now = 0
    /\ log = {}
    /\ quota = [s \in Scopes |-> [k \in Periods |-> 0]]
    /\ inflight = 0
    /\ worker = [w \in Workers |-> Idle]
    /\ grants = 0
    /\ ledger = {}
    /\ leaked = 0
    /\ faults = 0

\* Mutant: try_reserve does not take the lock.
LockFreeMutant == TRUE

LockFree == \A w \in Workers : worker[w].pc # "counting"

Holders == {w \in Workers : worker[w].pc = "holding"}
EntryOf(w) == [id |-> worker[w].id, at |-> worker[w].at, n |-> worker[w].n]

-----------------------------------------------------------------------------
(* try_reserve *)

\* The lock is taken, the concurrency limit checked and the time noted.  (At
\* the limit it returns None and nothing has changed.)
Acquire(w) ==
    /\ worker[w].pc = "idle"
    /\ LockFree
    /\ grants < MaxGrants
    /\ inflight < MaxConcurrent
    /\ worker' = [worker EXCEPT ![w] = [Idle EXCEPT !.pc = "counting", !.at = now]]
    /\ UNCHANGED <<now, log, quota, inflight, grants, ledger, leaked, faults>>

\* Mutant: the window's oldest instant is not counted.
CountMutant(v) == Cardinality({e \in log : e.at > now - Span[v]})

\* _sliding_counts reads the clock again: its windows end now, not at the time
\* noted above.
Count(v) == Cardinality({e \in log : e.at >= now - Span[v]})

\* Mutant: an off-by-one at the quota.
QuotaLeftMutant(s, t) == quota[s][Period[s][t]] <= QuotaLimit[s]

QuotaLeft(s, t) == quota[s][Period[s][t]] < QuotaLimit[s]

HasHeadroom(w) == /\ \A v \in Windows : Count(v) < Limit[v]
                  /\ \A s \in Scopes : QuotaLeft(s, worker[w].at)

\* Mutant: the period is that of the clock, not of the reservation.
BumpedMutant(t, delta) ==
    [s \in Scopes |->
       [quota[s] EXCEPT ![Period[s][now]] = IF @ + delta < 0 THEN 0 ELSE @ + delta]]

\* _bump_quota for every configured scope, at the period of time t.
Bumped(t, delta) ==
    [s \in Scopes |->
       [quota[s] EXCEPT ![Period[s][t]] = IF @ + delta < 0 THEN 0 ELSE @ + delta]]

\* The id SQLite gives a new send_log row: one above the largest there.
IsNewLogId(i) == /\ \A e \in log : e.id < i
                 /\ i = 1 \/ \E e \in log : e.id = i - 1

\* The transaction that inserts the send_log row and bumps the counters.
Reserve(w) ==
    /\ worker[w].pc = "counting"
    /\ HasHeadroom(w)
    /\ \E i \in 1..MaxGrants :
         /\ IsNewLogId(i)
         /\ LET entry == [id |-> i, at |-> worker[w].at, n |-> grants + 1]
            IN  /\ log' = log \cup {entry}
                /\ ledger' = ledger \cup {entry}
                /\ worker' = [worker EXCEPT ![w] =
                                [pc |-> "holding", id |-> i,
                                 at |-> worker[w].at, n |-> grants + 1]]
    /\ quota' = Bumped(worker[w].at, 1)
    /\ inflight' = inflight + 1
    /\ grants' = grants + 1
    /\ UNCHANGED <<now, leaked, faults>>

\* A limit is reached: None.
Refuse(w) ==
    /\ worker[w].pc = "counting"
    /\ ~HasHeadroom(w)
    /\ worker' = [worker EXCEPT ![w] = Idle]
    /\ UNCHANGED <<now, log, quota, inflight, grants, ledger, leaked, faults>>

\* The transaction fails and is rolled back.
ReserveFails(w) ==
    /\ worker[w].pc = "counting"
    /\ faults < MaxFaults
    /\ faults' = faults + 1
    /\ worker' = [worker EXCEPT ![w] = Idle]
    /\ UNCHANGED <<now, log, quota, inflight, grants, ledger, leaked>>

-----------------------------------------------------------------------------
(* check: what provider_overview and the metrics show of the limiter *)

\* The room check finds before it is shown as max(0, room).
Rooms == {MaxConcurrent - inflight}
           \cup {Limit[v] - Count(v) : v \in Windows}
           \cup {QuotaLimit[s] - quota[s][Period[s][now]] : s \in Scopes}

\* Mutant: a limit that is just reached does not block.
CheckAllowsMutant == \A room \in Rooms : room >= 0

CheckAllows == \A room \in Rooms : room > 0

-----------------------------------------------------------------------------
(* commit and release *)

\* Mutant: the slot is freed twice.
FreedMutant == inflight - 2

Freed == IF inflight < 1 THEN 0 ELSE inflight - 1

\* The provider saw the message: row and counters stay.
Commit(w) ==
    /\ worker[w].pc = "holding"
    /\ LockFree
    /\ inflight' = Freed
    /\ worker' = [worker EXCEPT ![w] = Idle]
    /\ UNCHANGED <<now, log, quota, grants, ledger, leaked, faults>>

\* The provider was never reached: the reservation is rolled back, its row
\* found by id.
Release(w) ==
    /\ worker[w].pc = "holding"
    /\ LockFree
    /\ inflight' = Freed
    /\ log' = {e \in log : e.id # worker[w].id}
    /\ quota' = Bumped(worker[w].at, -1)
    /\ ledger' = {g \in ledger : g.n # worker[w].n}
    /\ worker' = [worker EXCEPT ![w] = Idle]
    /\ UNCHANGED <<now, grants, leaked, faults>>

\* Its transaction fails after the slot is freed: row and counters stay.
ReleaseFails(w) ==
    /\ worker[w].pc = "holding"
    /\ LockFree
    /\ faults < MaxFaults
    /\ faults' = faults + 1
    /\ inflight' = Freed
    /\ worker' = [worker EXCEPT ![w] = Idle]
    /\ UNCHANGED <<now, log, quota, grants, ledger, leaked>>

\* The worker fails between the reservation and its settlement (begin_probe or
\* _record_attempt raises): nothing gives the slot back.
Abandon(w) ==
    /\ worker[w].pc = "holding"
    /\ faults < MaxFaults
    /\ faults' = faults + 1
    /\ leaked' = leaked + 1
    /\ worker' = [worker EXCEPT ![w] = Idle]
    /\ UNCHANGED <<now, log, quota, inflight, grants, ledger>>

-----------------------------------------------------------------------------
(* Housekeeping, restart and time *)

Prune ==
    /\ Widest > 0
    /\ log' = {e \in log : e.at >= now - (Widest + PruneSlack)}
    /\ UNCHANGED <<now, quota, inflight, worker, grants, ledger, leaked, faults>>

\* The process restarts: the tables stay, the concurrency counter is 0.
Restart ==
    /\ faults < MaxFaults
    /\ faults' = faults + 1
    /\ inflight' = 0
    /\ leaked' = 0
    /\ worker' = [w \in Workers |-> Idle]
    /\ UNCHANGED <<now, log, quota, grants, ledger>>

\* How long a task may stay in the step it is in.
Patience(w) == IF worker[w].pc = "counting" THEN MaxDrift ELSE MaxRelay

Tick ==
    /\ now < MaxTime
    /\ \A w \in Workers : worker[w].pc # "idle" => now - worker[w].at < Patience(w)
    /\ now' = now + 1
    /\ UNCHANGED <<log, quota, inflight, worker, grants, ledger, leaked, faults>>

Next == \/ \E w \in Workers : \/ Acquire(w)
                              \/ Reserve(w)
                              \/ Refuse(w)
                              \/ ReserveFails(w)
                              \/ Commit(w)
                              \/ Release(w)
                              \/ ReleaseFails(w)
                              \/ Abandon(w)
        \/ Prune
        \/ Restart
        \/ Tick

Spec == Init /\ [][Next]_vars

-----------------------------------------------------------------------------
(* Properties *)

\* No more than max_concurrent workers hold a reservation at once, and the
\* in-memory counter says how many do, plus the slots that were never given
\* back.
ConcurrencyCap ==
    /\ Cardinality(Holders) <= MaxConcurrent
    /\ inflight = Cardinality(Holders) + leaked

\* A day or month counter never passes its limit and is exactly the number of
\* reservations of that period that were not rolled back: the rollback of a
\* reservation that outlived its period is taken from the old period, and the
\* clamp at zero never hides a lost count.
QuotaExact ==
    \A s \in Scopes : \A k \in Periods :
        /\ quota[s][k] = Cardinality({g \in ledger : Period[s][g.at] = k})
        /\ quota[s][k] <= QuotaLimit[s]

\* No sliding window is ever overrun: any stretch of a window's length (less
\* the time a reservation may take to be decided) holds at most its limit of
\* the reservations that were not rolled back, whatever prune deletes and
\* however workers' reservations and releases interleave.
WindowCap ==
    \A v \in Windows : \A t \in Times :
        Cardinality({g \in ledger : t - (Span[v] - MaxDrift) <= g.at /\ g.at <= t})
          <= Limit[v]

\* What check shows is what try_reserve does: no limit is overrun (so clamping
\* the room at zero hides nothing), and a worker that holds the lock and noted
\* the present time is granted its reservation exactly when check says a send
\* is allowed, though check takes no lock.  check is one predicate here: while a
\* worker counts, nobody else can change what check reads between two awaits.
CheckIsTruthful ==
    /\ \A room \in Rooms : room >= 0
    /\ \A w \in Workers : worker[w].pc = "counting" /\ worker[w].at = now
                           => (CheckAllows <=> HasHeadroom(w))
=============================================================================
