--------------------------- MODULE CircuitBreaker ---------------------------
(***************************************************************************)
(* dispatch/health.py: the circuit breaker of one provider, used by        *)
(* concurrent workers (the router's gate before a relay, the result after  *)
(* it) and by the operator's reset.  Every change is made in memory and    *)
(* then written through to provider_state, both under the breaker's lock;  *)
(* the write awaits, may fail, and a restart loads what was written.       *)
(*                                                                         *)
(* Time is relative: openAge counts the ticks since opened_at and          *)
(* saturates at the cooldown.  consecutive_failures saturates at the       *)
(* threshold, past which nothing tells its values apart.  The reservation  *)
(* a worker takes between is_available and begin_probe is abstracted: it   *)
(* may be refused.                                                         *)
(***************************************************************************)
EXTENDS Integers, FiniteSets

CONSTANTS
    Workers,
    Threshold,   \* circuit_breaker.failure_threshold
    Cooldown,    \* circuit_breaker.cooldown_seconds
    MaxProbes,   \* circuit_breaker.half_open_max_probes
    MaxFaults    \* bound: failed writes, worker failures and restarts

ASSUME BreakerAssumption ==
    /\ IsFiniteSet(Workers)
    /\ Threshold \in Nat \ {0} /\ Cooldown \in Nat \ {0}
    /\ MaxProbes \in Nat \ {0} /\ MaxFaults \in Nat

VARIABLES
    mem,       \* the provider's _State
    db,        \* its provider_state row
    worker,    \* what each worker is doing
    operator,  \* the reset-breaker request
    faults,    \* faults so far
    stale,     \* ghost: the last write failed
    lost       \* ghost: probe slots whose worker will never report

vars == <<mem, db, worker, operator, faults, stale, lost>>

NotOpened == -1
State == [healthy : BOOLEAN, failures : 0..Threshold,
          openAge : {NotOpened} \cup (0..Cooldown), probes : 0..MaxProbes]
FreshState == [healthy |-> TRUE, failures |-> 0, openAge |-> NotOpened,
               probes |-> 0]

\* A worker is idle; has seen is_available; claims a probe slot (holding the
\* lock); relays, as ordinary traffic, as a probe or as a probe of an earlier
\* round; or writes its result (holding the lock).
TypeOK ==
    /\ mem \in State
    /\ db \in State
    /\ worker \in [Workers -> {"idle", "available", "claiming", "relaying",
                               "probing", "late", "recording"}]
    /\ operator \in {"idle", "recording"}
    /\ faults \in 0..MaxFaults
    /\ stale \in BOOLEAN
    /\ lost \in 0..MaxProbes

\* A provider without a row loads as a fresh state, so its row is that state.
Init ==
    /\ mem = FreshState
    /\ db = FreshState
    /\ worker = [w \in Workers |-> "idle"]
    /\ operator = "idle"
    /\ faults = 0
    /\ stale = FALSE
    /\ lost = 0

LockFree == /\ operator # "recording"
            /\ \A w \in Workers : worker[w] \notin {"claiming", "recording"}

Status == IF mem.healthy THEN "closed"
          ELSE IF mem.openAge = NotOpened THEN "open"
          ELSE IF mem.openAge >= Cooldown THEN "half_open"
          ELSE "open"

IsAvailable == \/ Status = "closed"
               \/ Status = "half_open" /\ mem.probes < MaxProbes

\* The half-open probes still in flight in this round, and what becomes of
\* them when the round ends.
Probing == {w \in Workers : worker[w] \in {"claiming", "probing"}}
EndRound(f) == [w \in Workers |-> IF f[w] = "probing" THEN "late" ELSE f[w]]

-----------------------------------------------------------------------------
(* The router's gate *)

CheckAvailable(w) ==
    /\ worker[w] = "idle"
    /\ IsAvailable
    /\ worker' = [worker EXCEPT ![w] = "available"]
    /\ UNCHANGED <<mem, db, operator, faults, stale, lost>>

\* The rate limiter has no headroom: the next provider is tried.
NoReservation(w) ==
    /\ worker[w] = "available"
    /\ worker' = [worker EXCEPT ![w] = "idle"]
    /\ UNCHANGED <<mem, db, operator, faults, stale, lost>>

\* begin_probe on a closed breaker: pass, nothing is claimed.
PassClosed(w) ==
    /\ worker[w] = "available" /\ LockFree
    /\ Status = "closed"
    /\ worker' = [worker EXCEPT ![w] = "relaying"]
    /\ UNCHANGED <<mem, db, operator, faults, stale, lost>>

\* Mutant: the probe limit is off by one.
SlotFreeMutant == mem.probes <= MaxProbes

SlotFree == mem.probes < MaxProbes

\* begin_probe refuses: the breaker has opened since is_available was asked,
\* or the other probes have taken every slot.
ProbeRefused(w) ==
    /\ worker[w] = "available" /\ LockFree
    /\ Status = "open" \/ (Status = "half_open" /\ ~SlotFree)
    /\ worker' = [worker EXCEPT ![w] = "idle"]
    /\ UNCHANGED <<mem, db, operator, faults, stale, lost>>

\* begin_probe claims a slot and starts to write it through.
ClaimProbe(w) ==
    /\ worker[w] = "available" /\ LockFree
    /\ Status = "half_open" /\ SlotFree
    /\ mem' = [mem EXCEPT !.probes = @ + 1]
    /\ worker' = [worker EXCEPT ![w] = "claiming"]
    /\ UNCHANGED <<db, operator, faults, stale, lost>>

-----------------------------------------------------------------------------
(* Results *)

\* Mutant: a success that keeps the probe count.
AfterSuccessMutant == [FreshState EXCEPT !.probes = mem.probes]

\* record_success.
AfterSuccess == FreshState

\* Mutant: opening keeps the probe count.
OpenedMutant(st) == [st EXCEPT !.healthy = FALSE, !.openAge = 0]

Opened(st) == [st EXCEPT !.healthy = FALSE, !.openAge = 0, !.probes = 0]

CountFailure(st) == [st EXCEPT !.failures = IF @ < Threshold THEN @ + 1 ELSE @]

\* Mutant: opening without noting when.
AfterFailureMutant ==
    LET st == CountFailure(mem)
    IN  IF mem.healthy /\ st.failures >= Threshold
        THEN [st EXCEPT !.healthy = FALSE] ELSE st

\* record_failure: a failed probe opens the breaker again, and so does the
\* last of Threshold failures in a row on a closed one.
AfterFailure ==
    LET st == CountFailure(mem)
    IN  IF Status = "half_open" THEN Opened(st)
        ELSE IF mem.healthy /\ st.failures >= Threshold THEN Opened(st)
        ELSE st

\* Any relay may report, however long ago it was let through; a report ends
\* the round, or comes when there is none.
Report(w, st) ==
    /\ worker[w] \in {"relaying", "probing", "late"} /\ LockFree
    /\ mem' = st
    /\ worker' = [EndRound(worker) EXCEPT ![w] = "recording"]
    /\ lost' = 0
    /\ UNCHANGED <<db, operator, faults, stale>>

RecordSuccess(w) == Report(w, AfterSuccess)
RecordFailure(w) == Report(w, AfterFailure)

\* The operator's reset is a record_success at any time.
ResetBreaker ==
    /\ operator = "idle" /\ LockFree
    /\ mem' = AfterSuccess
    /\ worker' = EndRound(worker)
    /\ operator' = "recording"
    /\ lost' = 0
    /\ UNCHANGED <<db, faults, stale>>

-----------------------------------------------------------------------------
(* Writing through: _persist, still under the lock *)

\* Mutant: a column that is not written.
WrittenMutant == [mem EXCEPT !.failures = db.failures]

Written == mem

\* What a worker does once its write has ended.
AfterWrite(w) == IF worker[w] = "claiming" THEN "probing" ELSE "idle"

Persist(w) ==
    /\ worker[w] \in {"claiming", "recording"}
    /\ db' = Written
    /\ stale' = FALSE
    /\ worker' = [worker EXCEPT ![w] = AfterWrite(w)]
    /\ UNCHANGED <<mem, operator, faults, lost>>

\* The write raises: memory keeps the change, and a claimed slot has nobody
\* to give it back.
PersistFails(w) ==
    /\ worker[w] \in {"claiming", "recording"}
    /\ faults < MaxFaults
    /\ faults' = faults + 1
    /\ stale' = TRUE
    /\ lost' = IF worker[w] = "claiming" THEN lost + 1 ELSE lost
    /\ worker' = [worker EXCEPT ![w] = "idle"]
    /\ UNCHANGED <<mem, db, operator>>

ResetPersist ==
    /\ operator = "recording"
    /\ db' = Written
    /\ stale' = FALSE
    /\ operator' = "idle"
    /\ UNCHANGED <<mem, worker, faults, lost>>

ResetPersistFails ==
    /\ operator = "recording"
    /\ faults < MaxFaults
    /\ faults' = faults + 1
    /\ stale' = TRUE
    /\ operator' = "idle"
    /\ UNCHANGED <<mem, db, worker, lost>>

-----------------------------------------------------------------------------
(* Failures around the breaker *)

\* A worker fails between the gate and its report (recording the attempt
\* raises): the breaker is told nothing.
Abandon(w) ==
    /\ worker[w] \in {"relaying", "probing", "late"}
    /\ faults < MaxFaults
    /\ faults' = faults + 1
    /\ lost' = IF worker[w] = "probing" THEN lost + 1 ELSE lost
    /\ worker' = [worker EXCEPT ![w] = "idle"]
    /\ UNCHANGED <<mem, db, operator, stale>>

\* The process restarts and load() reads the row, probe count included.
Restart ==
    /\ faults < MaxFaults
    /\ faults' = faults + 1
    /\ mem' = db
    /\ lost' = db.probes
    /\ stale' = FALSE
    /\ operator' = "idle"
    /\ worker' = [w \in Workers |-> "idle"]
    /\ UNCHANGED db

Aged(st) == IF st.openAge \in 0..(Cooldown - 1) THEN [st EXCEPT !.openAge = @ + 1]
            ELSE st

Tick ==
    /\ mem' = Aged(mem)
    /\ db' = Aged(db)
    /\ UNCHANGED <<worker, operator, faults, stale, lost>>

-----------------------------------------------------------------------------
Gate(w) == \/ CheckAvailable(w)
           \/ NoReservation(w)
           \/ PassClosed(w)
           \/ ProbeRefused(w)
           \/ ClaimProbe(w)

Record(w) == RecordSuccess(w) \/ RecordFailure(w)

Next == \/ \E w \in Workers : \/ Gate(w)
                              \/ Record(w)
                              \/ Persist(w)
                              \/ PersistFails(w)
                              \/ Abandon(w)
        \/ ResetBreaker \/ ResetPersist \/ ResetPersistFails
        \/ Restart
        \/ Tick

Spec == Init /\ [][Next]_vars

\* Writes end, relays end (every SMTP step has a timeout) and time passes; the
\* lock is an asyncio.Lock, first come first served, so a worker that wants to
\* report gets it even if others keep taking it.  Nobody has to send, and no
\* operator has to reset.
Fairness == /\ \A w \in Workers : WF_vars(Persist(w)) /\ SF_vars(Record(w))
            /\ WF_vars(ResetPersist)
            /\ WF_vars(Tick)

FairSpec == Spec /\ Fairness

-----------------------------------------------------------------------------
(* Properties *)

CoherentState(st) ==
    /\ st.healthy => /\ st.openAge = NotOpened
                     /\ st.probes = 0
                     /\ st.failures < Threshold
    /\ ~st.healthy => st.openAge # NotOpened
    /\ st.openAge \in 0..(Cooldown - 1) => st.probes = 0

\* Memory and row are always a closed, open or half-open breaker and nothing
\* in between: one that is not healthy knows when it opened (without that
\* status() would call it open for ever), a closed one has a clean slate below
\* the threshold, and slots are only taken once the cooldown has passed,
\* whatever late reports, resets, failed writes and restarts do.
Coherent == CoherentState(mem) /\ CoherentState(db)

\* Every taken probe slot belongs to a probe in flight or to one that was lost
\* to a fault or a restart: late results never free a slot twice or leave one
\* behind.
ProbeSlotsAccounted == mem.probes = Cardinality(Probing) + lost

\* What a restart would load is what memory says, except while a change is
\* being written and after a write that failed: "a restart does not forget an
\* ongoing outage".
WrittenThrough == LockFree /\ ~stale => db = mem

\* A breaker that has opened lets traffic through again, over and over, unless
\* a fault or a restart has lost a probe slot.
AvailableUnlessLost == []<>(IsAvailable \/ lost > 0)

\* The same with no exception, as the module's docstring has it: after the
\* cooldown, up to half_open_max_probes messages are allowed through.
AvailableAgain == []<>IsAvailable
=============================================================================
