------------------------------- MODULE Switch -------------------------------
(***************************************************************************)
(* The parts a relay goes through, put together: the failover loop of      *)
(* dispatch/worker.py, router.select with its priority order, the limiter  *)
(* and the breaker of every provider, and sender.relay's classification of *)
(* what the provider did.  Workers meet at every await; a database fault   *)
(* or a restart may end any step.                                          *)
(*                                                                         *)
(* The limiter is seen through what it promises (module Capacity, which    *)
(* RateLimiter implements): one quota, in one period.  The breaker is      *)
(* module CircuitBreaker, one per provider.  What becomes of the message   *)
(* afterwards is module Dispatcher; the operator's reset is left to        *)
(* CircuitBreaker, and how a toggle reaches the list to Dashboard.         *)
(***************************************************************************)
EXTENDS Integers, FiniteSets, FiniteSetsExt

CONSTANTS
    Workers,
    Providers,
    NoProvider,
    Rank,             \* the order of enabled_providers: priority, then name
    FailoverPerTick,  \* dispatch.failover_per_tick
    Quota,            \* each provider's quota in the period
    MaxConcurrent,    \* each provider's limits.max_concurrent
    Threshold,        \* circuit_breaker.failure_threshold
    Cooldown,         \* circuit_breaker.cooldown_seconds
    MaxProbes,        \* circuit_breaker.half_open_max_probes
    MaxEvents,        \* bound: messages picked up and toggles
    MaxFaults         \* bound: faults at a provider, limiter faults included

ASSUME SwitchAssumption ==
    /\ IsFiniteSet(Workers) /\ IsFiniteSet(Providers)
    /\ NoProvider \notin Providers
    /\ Rank \in [Providers -> Nat]
    /\ \A p, q \in Providers : Rank[p] = Rank[q] => p = q
    /\ Quota \in [Providers -> Nat] /\ MaxConcurrent \in [Providers -> Nat]
    /\ FailoverPerTick \in Nat /\ MaxEvents \in Nat /\ MaxFaults \in Nat
    /\ Threshold \in Nat \ {0} /\ Cooldown \in Nat \ {0}
    /\ MaxProbes \in Nat \ {0}

VARIABLES
    enabled,   \* the registry's enabled providers
    breaker,   \* each provider's _State
    row,       \* each provider's provider_state row
    spent,     \* each provider's provider_quota counter
    inflight,  \* each provider's concurrency counter
    worker,    \* the workers
    events,    \* messages picked up and toggles so far
    dbFaults,  \* faults in the limiter's transactions
    ledger     \* ghost: what became of each provider's relays

registryVars == <<enabled, events>>
breakerVars == <<breaker, row>>
limiterVars == <<spent, inflight>>
vars == <<registryVars, breakerVars, limiterVars, worker, dbFaults, ledger>>

-----------------------------------------------------------------------------
(* State *)

\* A worker is idle, waits in try_reserve or begin_probe, gives a reservation
\* back, writes a probe slot, relays, settles its reservation, waits to report
\* or writes its report; or select has returned None.
IdleWorker == [pc |-> "idle", at |-> NoProvider, left |-> {}, tried |-> {},
               offered |-> {}, seen |-> {}, role |-> "traffic",
               result |-> "none", cut |-> FALSE]

Holding == {"gate", "giveback", "claiming", "relaying", "settle"}
WorkerType ==
    [pc : Holding \cup {"idle", "reserving", "report", "recording", "unplaced"},
     at : Providers \cup {NoProvider}, left : SUBSET Providers,
     tried : SUBSET Providers, offered : SUBSET Providers,
     seen : SUBSET Providers, role : {"traffic", "probe", "late"},
     result : {"none", "sent", "transient", "permanent", "connect_error"},
     cut : BOOLEAN]

\* The ghosts: messages the provider took (but for those struck off because
\* the connection broke), slots and probes nobody will give back, whether the
\* row lags behind, and faults.
NewLedger == [taken |-> 0, leaked |-> 0, lost |-> 0, stale |-> FALSE,
              faults |-> 0]
LedgerType == [taken : 0..MaxEvents, leaked : Nat, lost : Nat, stale : BOOLEAN,
               faults : 0..MaxFaults]

Holders(p) == {w \in Workers : worker[w].at = p /\ worker[w].pc \in Holding}

\* A worker as the breaker of p sees it, and as the limiter of p sees it.
Relaying(role) == IF role = "probe" THEN "probing"
                  ELSE IF role = "late" THEN "late" ELSE "relaying"
BreakerView(p, wk) ==
    IF wk.at # p \/ wk.pc = "giveback" THEN "idle"
    ELSE IF wk.pc \in {"reserving", "gate"} THEN "available"
    ELSE IF wk.pc \in {"claiming", "recording"} THEN wk.pc
    ELSE Relaying(wk.role)

Breaker(p) == INSTANCE CircuitBreaker WITH
    mem <- breaker[p], db <- row[p],
    worker <- [w \in Workers |-> BreakerView(p, worker[w])], operator <- "idle",
    faults <- ledger[p].faults, stale <- ledger[p].stale, lost <- ledger[p].lost

BreakerStates == UNION {Breaker(p)!State : p \in Providers}

Limiter(p) == INSTANCE Capacity WITH
    Quota <- Quota[p], MaxConcurrent <- MaxConcurrent[p],
    Periods <- {"period"}, NoPeriod <- "none", spent <- [k \in {"period"} |-> spent[p]],
    held <- [w \in Workers |-> IF w \in Holders(p) THEN "period" ELSE "none"],
    lost <- ledger[p].leaked

TypeOK ==
    /\ enabled \subseteq Providers
    /\ breaker \in [Providers -> BreakerStates]
    /\ row \in [Providers -> BreakerStates]
    /\ spent \in [Providers -> Nat] /\ inflight \in [Providers -> Nat]
    /\ worker \in [Workers -> WorkerType]
    /\ events \in 0..MaxEvents
    /\ dbFaults \in 0..MaxFaults
    /\ ledger \in [Providers -> LedgerType]

Init ==
    /\ enabled = Providers
    /\ breaker = [p \in Providers |-> Breaker(p)!FreshState]
    /\ row = [p \in Providers |-> Breaker(p)!FreshState]
    /\ spent = [p \in Providers |-> 0]
    /\ inflight = [p \in Providers |-> 0]
    /\ worker = [w \in Workers |-> IdleWorker]
    /\ events = 0
    /\ dbFaults = 0
    /\ ledger = [p \in Providers |-> NewLedger]

CanFail == \A p \in Providers : ledger[p].faults + dbFaults < MaxFaults

\* Mutant: the counter is not kept from falling below zero, and is freed twice.
FreedMutant(n) == n - 2

\* What commit and release make of a counter.
Freed(n) == IF n < 1 THEN 0 ELSE n - 1

\* Mutant: the quota is off by one.
HasRoomMutant(p) == inflight[p] < MaxConcurrent[p] /\ spent[p] <= Quota[p]

\* What try_reserve asks of its limits.
HasRoom(p) == inflight[p] < MaxConcurrent[p] /\ spent[p] < Quota[p]

-----------------------------------------------------------------------------
(* router.select *)

\* The list select goes through, one provider after the other.
First(S) == CHOOSE p \in S : \A q \in S : Rank[p] <= Rank[q]
After(p, S) == {q \in S : Rank[q] > Rank[p]}

\* The providers no message could go to at this moment.
Blocked == {p \in Providers : ~Breaker(p)!IsAvailable \/ ~HasRoom(p)}

\* Mutant: a provider that is skipped ends the search.
CandidatesMutant(wk) == {p \in wk.left \ wk.tried :
                           Breaker(p)!IsAvailable /\ p = First(wk.left)}

\* Those of the rest of the list that are not excluded and whose breaker lets
\* traffic through.
Candidates(wk) == {p \in wk.left \ wk.tried : Breaker(p)!IsAvailable}

\* The ghost: which of those select has passed over could not be used.
Noted(wk) == [wk EXCEPT !.seen = @ \cup ((Blocked \cap wk.offered) \ (wk.left \cup wk.tried))]

\* select goes on to the next of them, or returns None.
Advance(wk) ==
    LET next == Candidates(wk)
    IN  Noted(IF next = {}
              THEN [wk EXCEPT !.pc = "unplaced", !.at = NoProvider, !.left = {}]
              ELSE [wk EXCEPT !.pc = "reserving", !.at = First(next),
                              !.left = After(First(next), @)])

\* One turn of the failover loop: select on the providers enabled now.
Turn(tried) ==
    IF Cardinality(tried) < FailoverPerTick
    THEN Advance([IdleWorker EXCEPT !.left = enabled, !.tried = tried,
                                    !.offered = enabled])
    ELSE IdleWorker

Begin(w) ==
    /\ worker[w].pc = "idle"
    /\ events < MaxEvents
    /\ events' = events + 1
    /\ worker' = [worker EXCEPT ![w] = Turn({})]
    /\ UNCHANGED <<enabled, breakerVars, limiterVars, dbFaults, ledger>>

Reserve(w) ==
    LET p == worker[w].at
    IN  /\ worker[w].pc = "reserving"
        /\ HasRoom(p)
        /\ spent' = [spent EXCEPT ![p] = @ + 1]
        /\ inflight' = [inflight EXCEPT ![p] = @ + 1]
        /\ worker' = [worker EXCEPT ![w].pc = "gate"]
        /\ UNCHANGED <<registryVars, breakerVars, dbFaults, ledger>>

ReserveRefused(w) ==
    /\ worker[w].pc = "reserving"
    /\ ~HasRoom(worker[w].at)
    /\ worker' = [worker EXCEPT ![w] = Advance(@)]
    /\ UNCHANGED <<registryVars, breakerVars, limiterVars, dbFaults, ledger>>

\* The transaction fails: _process raises and the message is requeued.
ReserveFails(w) ==
    /\ worker[w].pc = "reserving"
    /\ CanFail
    /\ dbFaults' = dbFaults + 1
    /\ worker' = [worker EXCEPT ![w] = IdleWorker]
    /\ UNCHANGED <<registryVars, breakerVars, limiterVars, ledger>>

\* Mutant: the breaker's lock is not taken.
LockFreeMutant(p) == TRUE

LockFree(p) == Breaker(p)!LockFree

GatePasses(w) ==
    /\ worker[w].pc = "gate"
    /\ LockFree(worker[w].at)
    /\ Breaker(worker[w].at)!Status = "closed"
    /\ worker' = [worker EXCEPT ![w].pc = "relaying"]
    /\ UNCHANGED <<registryVars, breakerVars, limiterVars, dbFaults, ledger>>

ClaimProbe(w) ==
    LET p == worker[w].at
    IN  /\ worker[w].pc = "gate"
        /\ LockFree(p)
        /\ Breaker(p)!Status = "half_open" /\ Breaker(p)!SlotFree
        /\ breaker' = [breaker EXCEPT ![p].probes = @ + 1]
        /\ worker' = [worker EXCEPT ![w].pc = "claiming"]
        /\ UNCHANGED <<registryVars, row, limiterVars, dbFaults, ledger>>

\* Mutant: the reservation is not handed back.
AfterRefusalMutant(wk) == Advance(wk)

AfterRefusal(wk) == Noted([wk EXCEPT !.pc = "giveback"])

\* begin_probe says no: the breaker opened, or the slots went, meanwhile.
ProbeRefused(w) ==
    /\ worker[w].pc = "gate"
    /\ LockFree(worker[w].at)
    /\ ~Breaker(worker[w].at)!IsAvailable
    /\ worker' = [worker EXCEPT ![w] = AfterRefusal(@)]
    /\ UNCHANGED <<registryVars, breakerVars, limiterVars, dbFaults, ledger>>

HandBack(w) ==
    LET p == worker[w].at
    IN  /\ worker[w].pc = "giveback"
        /\ spent' = [spent EXCEPT ![p] = Freed(@)]
        /\ inflight' = [inflight EXCEPT ![p] = Freed(@)]
        /\ worker' = [worker EXCEPT ![w] = Advance(@)]
        /\ UNCHANGED <<registryVars, breakerVars, dbFaults, ledger>>

\* Its transaction fails after the slot was freed: the count stays.
HandBackFails(w) ==
    /\ worker[w].pc = "giveback"
    /\ CanFail
    /\ dbFaults' = dbFaults + 1
    /\ inflight' = [inflight EXCEPT ![worker[w].at] = Freed(@)]
    /\ worker' = [worker EXCEPT ![w] = IdleWorker]
    /\ UNCHANGED <<registryVars, breakerVars, spent, ledger>>

-----------------------------------------------------------------------------
(* sender.relay *)

\* How a conversation may end: a normal end, the exceptions of aiosmtplib, and
\* the codes they carry (of every recipient, when all were refused).
Reply(kind, codes) == [kind |-> kind, codes |-> codes]
Replies ==
    {Reply("ok", {}), Reply("connect", {}), Reply("disconnected", {}),
     Reply("timeout", {}), Reply("auth", {535}), Reply("other", {})}
      \cup {Reply("refused", codes) : codes \in SUBSET {451, 550}}
      \cup {Reply("response", {code}) : code \in {354, 421, 554}}

ClassifyCode(code) == IF code \in 200..299 THEN "sent"
                      ELSE IF code \in 400..499 THEN "transient"
                      ELSE "permanent"

Worst(codes) == IF codes = {} THEN 550 ELSE Max(codes)

\* Mutant: a timeout is taken for a provider that was never reached.
ClassifyMutant(reply) ==
    IF reply.kind = "ok" THEN "sent"
    ELSE IF reply.kind \in {"connect", "disconnected", "timeout"} THEN "connect_error"
    ELSE "transient"

Classify(reply) ==
    IF reply.kind = "ok" THEN "sent"
    ELSE IF reply.kind \in {"connect", "disconnected"} THEN "connect_error"
    ELSE IF reply.kind \in {"timeout", "auth", "other"} THEN "transient"
    ELSE ClassifyCode(Worst(reply.codes))

\* Whether the provider took the message: it may have when the conversation
\* broke off.
MayTake(reply) == IF reply.kind = "ok" THEN {TRUE}
                  ELSE IF reply.kind \in {"disconnected", "timeout", "other"}
                  THEN BOOLEAN ELSE {FALSE}

\* A relay's result, whether the provider took the message, and (a ghost)
\* whether it did and then broke off.
Outcomes == UNION {{[result |-> Classify(reply), taken |-> taken,
                     cut |-> taken /\ reply.kind = "disconnected"] :
                       taken \in MayTake(reply)} : reply \in Replies}

\* relay returns.
Relay(w, o) ==
    LET p == worker[w].at
    IN  /\ worker[w].pc = "relaying"
        /\ ledger' = [ledger EXCEPT ![p].taken = IF o.taken THEN @ + 1 ELSE @]
        /\ worker' = [worker EXCEPT ![w] =
             [worker[w] EXCEPT !.pc = "settle", !.tried = @ \cup {p}, !.left = {},
                               !.offered = {}, !.seen = {}, !.result = o.result,
                               !.cut = o.cut]]
        /\ UNCHANGED <<registryVars, breakerVars, limiterVars, dbFaults>>

\* The worker is lost to its provider: a fault is noted, and the probe slot
\* that only it could have freed.
Dropped(l, wk) == [l EXCEPT !.faults = @ + 1,
                            !.lost = IF wk.role = "probe" THEN @ + 1 ELSE @]

\* _record_attempt fails (or relay raises what it does not catch): nobody
\* settles the reservation and nobody tells the breaker.
Abandon(w) ==
    LET p == worker[w].at
    IN  /\ worker[w].pc \in {"relaying", "settle"}
        /\ CanFail
        /\ ledger' = [ledger EXCEPT ![p] =
                        [Dropped(ledger[p], worker[w]) EXCEPT !.leaked = @ + 1]]
        /\ worker' = [worker EXCEPT ![w] = IdleWorker]
        /\ UNCHANGED <<registryVars, breakerVars, limiterVars, dbFaults>>

-----------------------------------------------------------------------------
(* After the relay: the limiter first, then the breaker *)

Unreached(result) == result = "connect_error"

\* The row that records the attempt, then commit, or release when the provider
\* was never reached.
Settle(w) ==
    LET p == worker[w].at
        wk == worker[w]
    IN  /\ wk.pc = "settle"
        /\ inflight' = [inflight EXCEPT ![p] = Freed(@)]
        /\ spent' = [spent EXCEPT ![p] = IF Unreached(wk.result) THEN Freed(@) ELSE @]
        /\ ledger' = [ledger EXCEPT ![p].taken = IF wk.cut THEN @ - 1 ELSE @]
        /\ worker' = [worker EXCEPT ![w] = [@ EXCEPT !.pc = "report", !.cut = FALSE]]
        /\ UNCHANGED <<registryVars, breakerVars, dbFaults>>

\* The transaction of release fails: the slot is free, the count stays, and
\* the breaker is never told.
SettleFails(w) ==
    LET p == worker[w].at
    IN  /\ worker[w].pc = "settle" /\ Unreached(worker[w].result)
        /\ CanFail
        /\ inflight' = [inflight EXCEPT ![p] = Freed(@)]
        /\ ledger' = [ledger EXCEPT ![p] = Dropped(@, worker[w])]
        /\ worker' = [worker EXCEPT ![w] = IdleWorker]
        /\ UNCHANGED <<registryVars, breakerVars, spent, dbFaults>>

\* The breaker's round ends for every other probe at p.
RoundEnds(p, f) ==
    [w \in Workers |-> IF f[w].at = p /\ f[w].role = "probe"
                       THEN [f[w] EXCEPT !.role = "late"] ELSE f[w]]

\* record_success when the provider answered the message itself, with a yes or
\* a final no; record_failure otherwise.
Report(w) ==
    LET p == worker[w].at
    IN  /\ worker[w].pc = "report"
        /\ LockFree(p)
        /\ breaker' = [breaker EXCEPT ![p] =
             IF worker[w].result \in {"sent", "permanent"}
             THEN Breaker(p)!AfterSuccess ELSE Breaker(p)!AfterFailure]
        /\ worker' = [RoundEnds(p, worker) EXCEPT ![w] =
             [worker[w] EXCEPT !.pc = "recording", !.role = "traffic"]]
        /\ ledger' = [ledger EXCEPT ![p].lost = 0]
        /\ UNCHANGED <<registryVars, row, limiterVars, dbFaults>>

\* _persist: the claim's worker relays as a probe; the report's worker is done
\* if the message was sent, and takes its next turn if not.
Persist(w) ==
    LET p == worker[w].at
        wk == worker[w]
    IN  /\ wk.pc \in {"claiming", "recording"}
        /\ row' = [row EXCEPT ![p] = breaker[p]]
        /\ ledger' = [ledger EXCEPT ![p].stale = FALSE]
        /\ worker' = [worker EXCEPT ![w] =
             IF wk.pc = "claiming" THEN [wk EXCEPT !.pc = "relaying", !.role = "probe"]
             ELSE IF wk.result = "sent" THEN IdleWorker
             ELSE Turn(wk.tried)]
        /\ UNCHANGED <<registryVars, breaker, limiterVars, dbFaults>>

\* _persist raises: a claimed slot and its reservation are lost.
PersistFails(w) ==
    LET p == worker[w].at
        claimed == IF worker[w].pc = "claiming" THEN 1 ELSE 0
    IN  /\ worker[w].pc \in {"claiming", "recording"}
        /\ CanFail
        /\ ledger' = [ledger EXCEPT ![p] =
             [ledger[p] EXCEPT !.faults = @ + 1, !.stale = TRUE, !.lost = @ + claimed,
                               !.leaked = @ + claimed]]
        /\ worker' = [worker EXCEPT ![w] = IdleWorker]
        /\ UNCHANGED <<registryVars, breakerVars, limiterVars, dbFaults>>

\* select returned None: the message is held, retried or given up.
HandleNoSuccess(w) ==
    /\ worker[w].pc = "unplaced"
    /\ worker' = [worker EXCEPT ![w] = IdleWorker]
    /\ UNCHANGED <<registryVars, breakerVars, limiterVars, dbFaults, ledger>>

-----------------------------------------------------------------------------
(* Operator, restart and time *)

SetEnabled(p) ==
    /\ events < MaxEvents
    /\ events' = events + 1
    /\ enabled' = IF p \in enabled THEN enabled \ {p} ELSE enabled \cup {p}
    /\ UNCHANGED <<breakerVars, limiterVars, worker, dbFaults, ledger>>

\* Application.start: counters in memory are new, breakers come from the table.
Restart ==
    /\ CanFail
    /\ breaker' = row
    /\ inflight' = [p \in Providers |-> 0]
    /\ worker' = [w \in Workers |-> IdleWorker]
    /\ ledger' = [p \in Providers |->
         [ledger[p] EXCEPT !.faults = @ + 1, !.leaked = 0, !.stale = FALSE,
                           !.lost = row[p].probes]]
    /\ UNCHANGED <<registryVars, row, spent, dbFaults>>

Tick ==
    /\ breaker' = [p \in Providers |-> Breaker(p)!Aged(breaker[p])]
    /\ row' = [p \in Providers |-> Breaker(p)!Aged(row[p])]
    /\ UNCHANGED <<registryVars, limiterVars, worker, dbFaults, ledger>>

-----------------------------------------------------------------------------
Select(w) == \/ Begin(w)
             \/ Reserve(w) \/ ReserveRefused(w) \/ ReserveFails(w)
             \/ GatePasses(w) \/ ClaimProbe(w) \/ ProbeRefused(w)
             \/ HandBack(w) \/ HandBackFails(w)

Deliver(w) == \/ \E o \in Outcomes : Relay(w, o)
              \/ Abandon(w)
              \/ Settle(w) \/ SettleFails(w)
              \/ Report(w)
              \/ Persist(w) \/ PersistFails(w)
              \/ HandleNoSuccess(w)

Next == \/ \E w \in Workers : Select(w) \/ Deliver(w)
        \/ \E p \in Providers : SetEnabled(p)
        \/ Restart
        \/ Tick

Spec == Init /\ [][Next]_vars

-----------------------------------------------------------------------------
(* Properties *)

\* Every step of the composed system is, for the breaker of each provider, a
\* step of CircuitBreaker or none at all, although a worker passes through
\* several breakers and the steps between them belong to others.
ImplementsBreakers ==
    /\ \A p \in Providers : Breaker(p)!Init
    /\ [][\A p \in Providers : UNCHANGED Breaker(p)!vars \/ Breaker(p)!Next]_vars

\* The same for the limiter: no provider is ever charged past its quota or
\* used past its concurrency, and every reservation select takes is kept, given
\* back or lost to a fault, once.
ImplementsLimiters ==
    /\ \A p \in Providers : Limiter(p)!Init
    /\ [][\A p \in Providers : UNCHANGED Limiter(p)!vars \/ Limiter(p)!Next]_vars

\* "The caller must later call commit or release": a concurrency slot is taken
\* by a worker that is at that provider, or was lost to a fault there.
ReservationsSettled ==
    \A p \in Providers :
        /\ inflight[p] = Cardinality(Holders(p)) + ledger[p].leaked
        /\ ledger[p].leaked <= ledger[p].faults

\* A provider never took more messages than it was charged for, except those
\* it took before the connection broke: "favour never exceeding a provider's
\* quota" covers the timeout, and only that.
TakenWasCharged ==
    \A p \in Providers : ledger[p].taken <= spent[p]

\* A message goes to a provider only if every better one that was enabled when
\* select began has been tried or was, at some moment of that select, down or
\* full; and it is left without a provider only if that holds of all of them.
SelectionJustified ==
    \A w \in Workers :
        LET wk == worker[w]
        IN  /\ wk.pc = "relaying" =>
                 \A q \in wk.offered :
                     Rank[q] < Rank[wk.at] => q \in wk.tried \cup wk.seen
            /\ wk.pc = "unplaced" => wk.offered \subseteq wk.tried \cup wk.seen
=============================================================================
