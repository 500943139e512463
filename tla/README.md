# A TLA+ model of SMTP-Switch

SMTP-Switch accepts mail over SMTP, stores it, and relays it through one of
several providers, with failover, retries, rate limits and a circuit breaker per
provider. It is one Python process: an asyncio event loop whose tasks share
SQLite tables and a spool directory. Nothing runs in parallel inside the loop,
but every `await` (every SQL statement, every relay) lets any other task run, a
fault may end any transaction, and the process may stop anywhere and start again.
This directory models that: what the tasks do between two awaits is one action,
and TLC and TLAPS go through the interleavings a test suite does not reach.

## The system's parts

| Part | State | Operations | Correct when |
|---|---|---|---|
| Ingress (`ingress/server.py`) | spool files, `messages` rows | `handle_DATA`: write the file, insert the row, answer | a message answered 250 is kept; a row's file exists |
| Dispatcher (`dispatch/worker.py`) | `messages`, `delivery_attempts`, the asyncio queue, each worker's snapshot | claim, relay and fail over, mark sent, reschedule, dead-letter, requeue after an exception, recover on start, retention sweep | each message has one owner, ends in a terminal state, says `sent` only if it was |
| Router (`dispatch/router.py`) | none | `select`: health gate, reservation, probe slot | gates are passed in order and given back on refusal |
| Rate limiter (`dispatch/rate_limiter.py`, `util.py`) | `send_log`, `provider_quota`, in-memory concurrency counter, a lock per provider | `try_reserve`, `commit`, `release`, `prune`, `check` | no limit or billing cycle is overrun, no count is lost |
| Circuit breaker (`dispatch/health.py`) | `_State` in memory, `provider_state`, a lock per provider | `is_available`, `begin_probe`, `record_success`, `record_failure`, `load` | coherent, written through, recovers |
| Relay (`dispatch/sender.py`) | none | one SMTP conversation, classified | what a provider took is charged to it |
| Registry (`providers/registry.py`) | overrides in memory and table | `set_enabled` | memory follows the table |
| Dashboard API (`web/api.py`) | all of the above | requeue, delete, enable, disable, reset breaker, accounts | no request undoes what a task is doing |
| Accounts (`ingress/auth.py`, `admin.py`) | account cache and table | refresh, verify, rehash; the command's edits | the cache follows the table, no edit is lost |

Ingress wakes the dispatcher; the dispatcher asks the router, which asks breaker
and limiter and reads the registry; the result of a relay goes to limiter,
breaker and the tables. The dashboard writes the same tables and calls the same
objects, with no lock of its own.

What is hard: reads before an await used after it (claims, requeue, delete,
sweep, the worker's snapshot, `is_available`), writes by an id that SQLite may
have given to another row, results that arrive after the state they belong to has
ended, transactions that fail half way through a sequence, and restarts. The list,
line by line, is `hazards` in `PROJECT.json`.

## Modules

`map` in `PROJECT.json` gives the source lines of each definition.

| Module | What it is |
|---|---|
| `Dispatcher` | the life of a message: ingress, producer, workers, requests, sweep, faults, restart, time |
| `MessageQueue` | the abstract queue: what becomes of a message, without rows, tasks or ids |
| `DispatcherRefinement` | the mapping under which `Dispatcher` implements `MessageQueue` |
| `DispatcherHistory` | `Dispatcher` with a history of the reasons for a second delivery |
| `DispatcherHolding` | `Dispatcher` with a history of which messages were held and which were tried |
| `RateLimiter` | one provider's limiter under concurrent workers |
| `Capacity` | the abstract limiter: reservations, the periods they are charged to, the quota |
| `RateLimiterRefinement` | the mapping under which `RateLimiter` implements `Capacity`, for each quota |
| `QuotaPeriods`, `RateLimiterCalendar` | the period keys of `util.py`, and the limiter on a real calendar |
| `CircuitBreaker` | one provider's breaker |
| `Switch` | the composition: failover loop, router, sender, the breaker and the limiter of every provider |
| `Dashboard` | the overrides and accounts tables, their copies in memory, and everyone who edits them |
| `MC...` | instances for TLC |
| `DispatcherProofs`, `DurabilityProofs`, `OwnershipProofs`, `DispatcherRefinementProofs` | the theorems about the dispatcher, each module resting on the one before |
| `RateLimiterProofs`, `CircuitBreakerProofs`, `SwitchProofs`, `DashboardProofs` | the theorems about the other parts |

How they fit together:

    MessageQueue <= Dispatcher        Capacity <= RateLimiter
                                          ^
                     CircuitBreaker <= Switch

`Dispatcher` lets `router.select` return any enabled provider not tried yet, or none:
it is about the message whatever the router does. `Switch` is about the router and
what happens at the providers, and forgets the message. `Switch` uses the limiter
through its promise `Capacity`, which `RateLimiter` is checked to keep, and has one
instance of the full `CircuitBreaker` per provider.

### Dispatcher

`rows` is the `messages` table, a function from ids to rows or `AbsentRow`. A row's
`wait` is its `next_attempt_at` as seen from now: the ticks that are left, and once it
has passed only its place among the others that have, which is all that
`ORDER BY next_attempt_at` looks at (`Earlier`, `PastTimes`). `stage` is how far `handle_DATA` has got with
each message, `queue` the asyncio queue, `producer`, `worker`, `request` and
`sweep` the tasks' local variables and the await each is in. `delivered`,
`discarded` and `stranded` are ghosts for the properties.

Each SQL statement is a step of its own where the code awaits between a read and
the write that relies on it:

- `_claim_batch`: `ClaimSelect`, `ClaimUpdate` (its WHERE has no status), `PutQueue`;
- `_consumer` and `_process`: `Take` (the snapshot), `ReadSpool` (missing file and
  expiry), `Attempt` (select, relay and record), `GiveUp` (`_handle_no_success`),
  then one of `MarkSent`, `Deadletter`, `Reschedule`; `Raise` is a database fault
  in any of them, `RequeueNow` and `RequeueFails` what `_consumer` does about it;
- `requeue`: `RequeueRead`, `RequeueWrite`; `delete_message`: `DeleteRead`,
  `DeleteWrite`, `DeleteUnlink`; `_retention_sweep`: `SweepSelect`, `SweepDelete`,
  `SweepUnlink`; each with a rollback (`Rollback`);
- `Restart`: memory is lost, sessions end, `_recover_orphans` runs before any task.
  A graceful stop (cancel, `_requeue_now`) ends in a subset of the same states.

Reads in this code do not open a transaction (the SQLite driver begins one with
the first write), which is why a read and a later write of one `session_scope` are
two steps. Ids follow SQLite's rule for a plain `INTEGER PRIMARY KEY`: one above the
largest id in the table, so the id of a deleted newest row is used again.
`Autoincrement = TRUE` is the variant in which it is not.

Left out: the order in which rows of one claim, or rows due at the same time, are put
on the queue (any order is possible), claim timestamps, `last_error` and
`delivery_attempts` (no code decides by them; `DispatcherHolding` keeps a history of
them for the one claim about them), the wake-up event (the producer polls anyway),
metrics and logs. A result that is classified as sent is taken to be an acceptance.
`sender.py` also classifies an exception by its code, and one that carries a 2xx as
sent; only a provider that breaks SMTP, say by a 250 in reply to DATA, can cause it,
and `SentMeansDelivered` does not speak of such a provider.

### RateLimiter

`worker[w].pc` is `"counting"` between the concurrency check and the transaction of
`try_reserve`, while the lock is held, and `"holding"` until `commit` or `release`.
`_sliding_counts` reads the clock a second time; `Tick` may come in between, for at
most `MaxDrift` ticks. `ledger` is the ghost the properties compare the tables with:
every reservation that was not rolled back. `Abandon` is a worker that fails before
it settles (`begin_probe` or `_record_attempt` raises); its slot goes to `leaked`.
`check` changes nothing; `Rooms` and `CheckAllows` are what it answers, to be compared
with what `try_reserve` does. Its awaits are not steps: in the case the property is
about, a worker counts and holds the lock that everyone who could change the answer
needs (`prune` needs none, and removes nothing a window counts). What `check` sees
between two of its reads when nobody counts is not modelled; it is advice for the
dashboard and the gauges. `Period` is a constant of the module, so the theorems hold for any division
into periods; `RateLimiterCalendar` gives it the keys `month_period_key` and `day_period_key` compute from real dates. Its constant `Date`
says which date each tick falls on: any dates that stay or move on by a day.

### CircuitBreaker

`mem` and `db` are `_State` and the `provider_state` row. A change to `mem` and its
write are two steps with the lock held in between, and the write may fail. A probe
whose round has ended (another report came first) is `"late"`: it may still report,
and its report is applied to whatever state the breaker is in by then. `lost`
counts taken slots whose worker will never report.

### Switch

A worker's `pc` is the await it is in: waiting for `try_reserve` (`reserving`) or
`begin_probe` (`gate`), handing a reservation back, writing a claimed slot, relaying,
settling with the limiter, waiting to report to the breaker, writing the report.
`left` is the rest of the list `enabled_providers` returned when `select` began,
`tried` the excluded providers. `Replies` are the ways `aiosmtplib.send` may end and
`Classify` what `relay` makes of each; `MayTake` says in which the provider may have
the message. `offered`, `seen` and `ledger` are ghosts. The composition is interleaved
at the awaits: while one worker is between limiter and breaker of one provider, others
are anywhere, at the same one or another.

### Dashboard

The overrides and the accounts are tables with a copy in memory and more than one
writer: dashboard requests in this process, the admin command in another, and, for
accounts, the hash upgrade that a login schedules. An edit is a read and a write with
an await in between; a request then refreshes the copy, again in two steps, and the
ingress server's loop refreshes every 30 seconds. The tables are independent of each
other and share actors, faults and restarts. The ghosts record which edits overlapped;
the properties say that nothing is lost except in those overlaps.

## Runs

| Run | Shows | Instance |
|---|---|---|
| `dispatcher_code` | the code as it is: `BodyOutlivesRow`, `SendingIsOwned`, `RetryBudget`, and `TypeOK` with its bound on delays | 2 messages, 1 worker, 1 request, reused ids, deletes and sweep, 3 attempts, delays of a tick, 1 fault or restart, `_requeue_now` may fail; 2.1 million states |
| `dispatcher_unique_ids` | `SentMeansDelivered`, `AcceptedIsKept`, `OneOwner`, `SecondDeliveryExplained`, `TerminalIsFinal`, `ImplementsQueue` if ids are not reused and requests do not overlap | 2 messages, 2 workers, 1 provider, 1 request, deletes and sweep, 1 fault or restart, 1 attempt (a held message still goes round), any message may expire at once; 1 million states |
| `dispatcher_liveness` | `EveryMessageSettles` | 2 messages, 1 worker, claims of one message at a time, requeues, 2 attempts, delays of 0 to 2 ticks, 2 faults or restarts, `_requeue_now` may fail, no deletes; 0.5 million states |
| `rate_limiter` | `ConcurrencyCap`, `QuotaExact`, `WindowCap`, `BillingCycleCap`, `CheckIsTruthful`, `ImplementsCapacity` | 3 workers, windows of 2 and 3 ticks, days of 3 ticks from December 31, reset on January 2, 5 reservations, 8 instants, 2 faults; 0.4 million states |
| `circuit_breaker` | `Coherent`, `ProbeSlotsAccounted`, `WrittenThrough`, `AvailableUnlessLost` | 3 workers, threshold 2, cooldown 2, 2 probes, 2 faults |
| `switch` | `ReservationsSettled`, `TakenWasCharged`, `SelectionJustified`, `ImplementsBreakers`, `ImplementsLimiters` | 2 workers, 2 providers (2 slots and a quota of 2; 1 and 1), 2 tried per cycle, threshold 1, cooldown 1, 1 probe, 3 messages or toggles, 1 fault at a provider; 0.7 million states |
| `dashboard` | `OverridesFollowTable`, `PasswordKept`, `EnabledKept`, `CacheCatchesUp` | 2 requests and the command, 1 provider, 2 names, 2 ids, 2 passwords, 2 edits, 1 fault or restart, any number of logins; 0.2 million states |

Every passing run checks a type invariant, or is an instance of a module whose type
invariant another run checks.

What the refinements show. `ImplementsQueue` says every step of the dispatcher is a
step of a queue that could be explained on a page: accept, claim, deliver, send, give
up, put back, requeue, remove, recover. `ImplementsCapacity` says the same of the
limiter and its quotas, and `ImplementsLimiters` and `ImplementsBreakers` carry both
components' properties over to several providers and a router that goes from one to
the next. `DispatcherRefinement` needs the two conditions `dispatcher_id_reuse` and
`dispatcher_double_requeue` break.

Properties that name their exceptions. Some of what this code does in a race is
known and accepted, so the property says that nothing else goes wrong:
`SecondDeliveryExplained` (README.md: no exactly-once delivery), `TakenWasCharged`
(a disconnect after the provider took the message counts as a connect error and
releases the charge), `OverridesFollowTable` (two overlapping toggles of one provider),
`PasswordKept` and `EnabledKept` (overlapping edits of one account; a hash upgrade that
overlaps a new password), `AcceptedIsKept` (a requeue that comes between the sweep's
SELECT and its DELETE counts as swept), `WrittenThrough` (the failed write itself),
`EveryMessageSettles` (a row whose `_requeue_now` failed, until the restart), `WindowCap`
(the window is shorter by the drift between the two readings of the clock). Each ghost
that excuses is set only by the overlap itself. So these properties do not show that the
overlaps are harmless; they show that nothing else does the same harm.

Five runs are expected to fail; each refutes something the repository says.

- `dispatcher_id_reuse`: an operator deletes the newest message while a worker
  relays it, the next message gets its id, and `_mark_sent` marks that one sent.
- `dispatcher_double_requeue`: two overlapping requeue requests return a message to
  `queued` after it was claimed, and it is claimed again while a worker has it.
- `dispatcher_capacity`: a message that was only ever held is dead-lettered.
- `rate_limiter_long_relay`: a relay that outlives the pruned rows releases the
  `send_log` row of another reservation, and a window is overrun.
- `circuit_breaker_restart`: a restart during a probe leaves a half-open breaker
  without a free slot for ever.

The bounds. Two messages are what it takes for one to be mistaken for another, and
two ids for one to be reused. An age limit of 2 or 3 ticks and delays of about one
let a message be tried more than once, held and expire (in `dispatcher_unique_ids`, whose
limit is 0, a message may expire or not at its first pick-up already, and is held any
number of times before); ages saturate at `AgeCap`, above every limit the code
compares them with. One fault is enough to end any transaction or the process; the
`_requeue_now` it may hit follows a relay that raised, and the second fault of
`dispatcher_liveness` is the restart after that. There a claim takes one message, so
two due messages compete, and `OverdueCap = 1` keeps apart a time that passed before
another one did; relays raise and operators requeue without end, and a message is still
not passed over for ever, because claims go by `next_attempt_at`. Without that order
(`EarliestMutant`), without the age limit (`ExpiredMutant`) or without the named
exception TLC finds a message that never settles. Its jitter of 100 percent draws delays
of 0 to 2 ticks around a cap of 1; a draw of 2 reaches the age limit, and the message is
dead-lettered. The safety runs leave the order of due rows open (`OverdueCap = 0`), so
they have every order of claims. `CodeState` is the state without two ghosts that no
action reads, for the runs whose properties do not mention them. Three workers against
limits of two make a third wait; the clock of the limiter runs past two full windows and across
two day ends, a turn of the year and a reset, and two faults let a restart follow a
leak. In `switch` two workers fill one provider and fail over to the other, quotas run
out, one failure opens a breaker, and the third event is a toggle or a third message.
In `dashboard` two edits are what a lost update takes; the second id lets an account be
deleted and its id used again. Workers, messages and providers are symmetric in the
safety runs, and liveness is checked without symmetry. `dispatcher_code` uses one worker: what a second one adds is in
`dispatcher_unique_ids`, and the theorems hold for any number. For `RetryBudget` the
one worker matters: with reused ids and two workers a late worker bumps the counter of
the message that has got its id, a consequence of what `dispatcher_id_reuse` shows. The
theorem `BudgetKept` has any number of workers, and unique ids.

Fairness. The dispatcher's producer and workers and the clock get weak fairness:
the event loop runs every ready task, and relays and statements end by their
timeouts. Ingress, operators, faults and restarts get none. In the breaker a
worker's report gets strong fairness, because `asyncio.Lock` serves its waiters in
order: a worker that waits for the lock gets it although others take it again and
again. The refresh loop of the ingress server gets weak fairness: it sleeps and
refreshes as long as the server runs, and a failed refresh does not end it. Nobody is
obliged to send, to edit or to reset. No run relies on a provider having
capacity or ever answering 2xx.

## Theorems

TLAPS proves these for every value of the constants (any number of messages,
workers, requests, providers and accounts, any limits and bounds), from the `ASSUME`s:
ranges that `config.py` validates, finite sets of workers and providers, distinct null
values, and the bounds being natural numbers. Every safety property of a passing run is
the subject of one of them. Each proof has the same form: an inductive invariant, TLC's
verdict on it first, one lemma per action or per kind of step, and a last temporal step.

### Dispatcher

- `TypeCorrect`: `Spec => []TypeOK`. `TypeOK` bounds every row's wait by the hold and by
  `max_delay_seconds` with its jitter on top. `CappedBelow` and `BackoffBounded` show that
  what `backoff_delay` draws stays below that, for any base, cap and ratio. It does exceed
  the cap: its docstring says "clamped to ``max_seconds``" (`util.py:25`), the code clamps
  first and jitters then, and the bound is the one the code keeps.
- `SendingOwned`: `SendingIsOwned`, for the code as it is. It is inductive with
  `TypeOK`: the producer is the only task that flips a row to `sending`, it then has
  the id in hand, and a task lets go of an id only in a step that takes the row out
  of `sending` or notes that the step failed.
- `BodiesDurable`: `BodyOutlivesRow`, for the code as it is. The inductive invariant
  `BodyInv` adds what a request or sweep about to unlink a file must know: the
  message was inserted once, so the id its row was read at is the only one it ever
  has, and once that id is deleted no row names the file, even if the id by then
  belonged to another message.

The others have hypotheses, stated in each theorem. `UniqueIds`: row ids are not reused
(`AUTOINCREMENT`, or nobody deletes rows). `OneRequest`: dashboard requests do not
overlap. `dispatcher_id_reuse` and `dispatcher_double_requeue` show the code without
them. `OwnershipProofs` first sorts the steps of `Next` into kinds by what they do to
rows and tasks (nothing but time and files, a worker goes on, a worker is done, a
requeue, and the steps that claim, insert, remove or restart); each invariant is then
proved kind by kind.

- `SentTruthful` (`SentMeansDelivered`) and `AcceptedKept` (`AcceptedIsKept`), from
  `UniqueIds`. `IdInv` says that every id a task remembers has been given out, so a new
  row gets an id nobody remembers; `NameInv`, that the row behind a remembered id is
  still the remembered message's, or gone. With that, a worker with the verdict `sent`
  has delivered the message whose row it marks, and whoever deletes has chosen.
- `OwnerUnique` (`OneOwner`), `TerminalFinal` (`TerminalIsFinal`) and `BudgetKept`
  (`RetryBudget`), from both. `OwnInv` adds what is true between a read and the write
  that relies on it: what the producer is about to claim is still free, what a request
  is about to requeue is still settled. `BudgetInv` adds that a worker's snapshot of the
  attempts is the row's count until it writes.
- `QueueImplemented` (`ImplementsQueue`), from both: `StatusTable` reads the abstract
  status off the table (a message has one row, so the `CHOOSE` of the mapping finds it),
  and each kind of step is a step of `MessageQueue` or changes nothing there.
- `DuplicatesExplained` (`SecondDeliveryExplained`), from both. `SecretInv` says
  that a message some provider has, and whose second delivery nothing would explain, is
  in a row that says `sent` or with a worker that is about to say so.

### Rate limiter

- `LimiterTyped`, `ConcurrencyCapped`, `QuotasExact`: `TypeOK`, `ConcurrencyCap`,
  `QuotaExact`. The invariant adds that at most one worker is counting, that holders and
  `leaked` make up `inflight`, and that every holder's entry is in the ledger under a
  number of its own, so that a rollback takes out exactly one entry.
- `CapacityImplemented`: `ImplementsCapacity`. A counter equals the ledger's entries of
  its period, so the clamp at zero is never used and a rollback is a step of `Capacity`.
- `CheckTruthful`: `CheckIsTruthful`. `CountInv` says that `send_log` never
  holds more rows of a window than its limit, which needs no assumption on relays.
- `BillingCycleCapped`: `BillingCycleCap`, for every calendar and reset day. Two times
  are in one billing cycle only if `month_period_key` gives them one key, which follows
  from `MonthKeyTurns`, so `QuotaExact` of that key bounds the cycle. This theorem alone
  uses `CalendarAssumption` and `PeriodAssumption`.
- `WindowSafe`: `WindowCap`, if `MaxRelay <= Widest + PruneSlack`. The invariant adds
  that every ledger entry younger than the prune horizon still has its `send_log`
  row and that row ids are unique; the assumption is needed exactly where
  `rate_limiter_long_relay` breaks it, in the release.
- `MonthKeyTurns`: from one date to the next, the month key stays, or moves to the next
  month exactly when the reset day has come; with the key number strictly growing, no
  key returns. The turn of the year and the months' lengths are the cases; that a reset
  day is at most 28 is what makes it true in February.

### Circuit breaker

- `BreakerTyped`, `BreakerCoherent`, `SlotsAccounted`, `StateWrittenThrough`: `TypeOK`,
  `Coherent`, `ProbeSlotsAccounted` and `WrittenThrough`, from one invariant, with the
  lock's mutual exclusion as the strengthening.

### Switch

Every step is one worker's (a report may also turn other probes late), or a restart. The
invariant has a part for each worker, `Sound`: what its record says by the await it is
in; every provider it was offered lies ahead, has been tried or was seen blocked. And a
part for each provider, `Balanced`: equations and bounds over the counts of four sets of
workers. A step moves each count by the one worker that takes it, which reduces every
case to arithmetic on small numbers.

- `SwitchTyped`, `SlotsSettled` (`ReservationsSettled`), `TakenCharged`
  (`TakenWasCharged`: taken messages and reservations not yet used are both charged),
  `ChoiceJustified` (`SelectionJustified`; the order of preference has a first element
  because a finite set has no infinite descent).
- `LimitersImplemented` (`ImplementsLimiters`) and `BreakersImplemented`
  (`ImplementsBreakers`): every step is, at each provider, a step of `Capacity` and of
  `CircuitBreaker`, or a stutter. So `BreakerCoherent` and `SlotsAccounted` hold of each
  provider inside the failover loop.

### Dashboard

- `DashboardTyped`, `OverridesFollow` (`OverridesFollowTable`), `PasswordsKept`
  (`PasswordKept`), `FlagsKept` (`EnabledKept`). The invariant says what an edit that was
  not noted as late still knows at its write: a toggle of a provider is the only one of
  it and has read what the table says (`OverrideInv`), an edit of a flag has read the
  flag as it is (`FlagInv`), a hash upgrade that is not overtaken carries the password
  in the table (`PasswordInv`). The rest is that every commit on a row marks the edits
  that read it before.

### Model-checked only

The liveness properties `EveryMessageSettles`, `AvailableUnlessLost` and
`CacheCatchesUp`: fairness and `ENABLED` are out of the prover's reach.

## Not modelled

Dashboard pages and read-only queries, login cookies, metrics, logging, migrations
and configuration parsing hold no state the rest depends on. The SMTP and TLS
conversations belong to `aiosmtpd` and `aiosmtplib`. Several instances of the
process on one database are documented as unsupported. Duplicate delivery after a
timeout or a crash is documented as a limitation; `SecondDeliveryExplained` says when it
happens. The peer networks and the size and recipient checks of the ingress refuse
before any state changes. Dashboard users have no copy in memory and are edited only by
single statements or the command; descriptions and `last_used_at` of accounts decide
nothing. The SMTP conversation is one step of `Switch`: what a provider does within it
is in `MayTake`.

## Plan

1. The safety half of the liveness properties: for each, that no step can undo the
   progress it counts on (a settled message stays settled until a requeue, a lost probe
   slot is the only way to a breaker without a free one).
2. The composition's theorems carried over by name: `Coherent` and
   `ProbeSlotsAccounted` of every provider's breaker as theorems of `Switch`.
3. `RetryBudget` of the code as it is: the bound that does hold with reused ids.
