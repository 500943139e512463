------------------------------ MODULE Dashboard ------------------------------
(***************************************************************************)
(* The two tables an operator edits while the process uses a copy of them  *)
(* in memory: provider_overrides with the registry's _overrides            *)
(* (providers/registry.py), and accounts with the AccountStore's snapshot  *)
(* (ingress/auth.py).  They are edited by concurrent requests of the       *)
(* dashboard's API (web/api.py) and by the admin command, a process of its *)
(* own (admin.py); the copies follow by an assignment after the commit, by *)
(* a refresh that reads the table and later replaces the copy, and by the  *)
(* ingress server's refresh loop.                                          *)
(*                                                                         *)
(* A transaction that reads a row and writes it is two steps.  SQLAlchemy  *)
(* writes only columns whose value differs from the one read, refuses to   *)
(* update a row that is gone, and a unique key refuses a second insert.  A *)
(* password stands for its hash; a hash is dated when needs_rehash says    *)
(* so.  Descriptions, notes and time stamps are left out.                  *)
(***************************************************************************)
EXTENDS Integers, FiniteSets

CONSTANTS
    Requests,   \* concurrent requests of the dashboard's API
    Cli,        \* the admin command
    Providers,  \* configured providers
    Users,      \* account names
    MaxId,      \* bound: the largest account id
    Passwords,
    Nobody,     \* the name in a row that does not exist
    MaxEdits,   \* bound: edits
    MaxFaults   \* bound: database faults and restarts

Actors == Requests \cup {Cli}
Ids == 1..MaxId

ASSUME DashboardAssumption ==
    /\ Cli \notin Requests /\ Nobody \notin Users \cup Passwords
    /\ Users # {} /\ Passwords # {}
    /\ MaxId \in Nat /\ MaxEdits \in Nat /\ MaxFaults \in Nat

VARIABLES
    overrideRow,  \* the provider_overrides table
    override,     \* the registry's _overrides
    account,      \* the accounts table
    cache,        \* the account store's _by_name
    actor,        \* what each request, and the command, is doing
    loop,         \* the refresh loop of the ingress server
    touch,        \* the _touch_account task of a login
    edits,        \* edits so far
    faults,       \* faults so far
    raced,        \* ghost: providers whose toggles overlapped
    meant,        \* ghost: what the edits, one after the other, make of a row
    crossed,      \* ghost: ids whose enabled was written from a stale read
    overtaken     \* ghost: ids whose password was set during a hash upgrade

overrideVars == <<overrideRow, override, raced>>
accountVars == <<account, meant, crossed, overtaken>>
vars == <<overrideVars, accountVars, cache, actor, loop, touch, edits, faults>>

-----------------------------------------------------------------------------
(* State *)

Toggles == {"absent", "on", "off"}
Row == [user : Users, password : Passwords, dated : BOOLEAN, enabled : BOOLEAN]
NoRow == [user |-> Nobody, password |-> Nobody, dated |-> FALSE, enabled |-> FALSE]

Exists(i) == account[i] # NoRow
Named(u) == {i \in Ids : account[i].user = u}

\* What refresh makes of the table: each name's id and row.
NotCached == [id |-> 0, row |-> NoRow]
View == [u \in Users |->
           IF Named(u) = {} THEN NotCached
           ELSE LET i == CHOOSE i \in Named(u) : TRUE
                IN  [id |-> i, row |-> account[i]]]
NoView == [u \in Users |-> NotCached]
Views == [Users -> [id : 0..MaxId, row : Row \cup {NoRow}]]

\* An actor is idle; has read a row and is about to write; is about to set the
\* registry's memory; or is about to read or to replace the account snapshot.
\* late is a ghost.
IdleActor == [pc |-> "idle", op |-> "none", target |-> Nobody, value |-> Nobody,
              read |-> Nobody, late |-> FALSE, view |-> NoView]

IdleTouch == [pc |-> "idle", id |-> 0, password |-> Nobody]
SleepingLoop == [pc |-> "sleep", view |-> NoView]

TypeOK ==
    /\ overrideRow \in [Providers -> Toggles]
    /\ override \in [Providers -> Toggles]
    /\ account \in [Ids -> Row \cup {NoRow}]
    /\ \A u \in Users : Cardinality(Named(u)) <= 1
    /\ cache \in Views
    /\ \A a \in Actors :
         /\ actor[a].pc \in {"idle", "write", "memory", "refresh", "apply"}
         /\ actor[a].op \in {"none", "provider", "create", "password", "toggle",
                             "enable", "delete"}
         /\ actor[a].view \in Views
    /\ loop \in [pc : {"sleep", "apply"}, view : Views]
    /\ touch \in [pc : {"idle", "read", "write"}, id : 0..MaxId,
                  password : Passwords \cup {Nobody}]
    /\ edits \in 0..MaxEdits
    /\ faults \in 0..MaxFaults
    /\ raced \subseteq Providers
    /\ crossed \subseteq Ids
    /\ overtaken \subseteq Ids

\* The process has started on a table with one account, whose hash an upgrade
\* of the hash parameters has made dated.
Init ==
    LET row == [user |-> CHOOSE u \in Users : TRUE,
                password |-> CHOOSE pw \in Passwords : TRUE,
                dated |-> TRUE, enabled |-> TRUE]
    IN  /\ account = [i \in Ids |-> IF i = 1 THEN row ELSE NoRow]
        /\ meant = account
        /\ cache = View
        /\ overrideRow = [p \in Providers |-> "absent"]
        /\ override = overrideRow
        /\ actor = [a \in Actors |-> IdleActor]
        /\ loop = SleepingLoop
        /\ touch = IdleTouch
        /\ edits = 0 /\ faults = 0
        /\ raced = {} /\ crossed = {} /\ overtaken = {}

\* The actor that has started op on target, having read what it will compare
\* with; and the actors of S noted as late.
Started(op, target, value, read) ==
    [IdleActor EXCEPT !.pc = "write", !.op = op, !.target = target,
                      !.value = value, !.read = read]
NotedLate(f, S) ==
    [a \in Actors |-> IF a \in S THEN [f[a] EXCEPT !.late = TRUE] ELSE f[a]]

MayStart(a) == actor[a].pc = "idle" /\ edits < MaxEdits
Writing(a, op) == actor[a].pc = "write" /\ actor[a].op = op

-----------------------------------------------------------------------------
(* ProviderRegistry.set_enabled *)

Toggling(p) == {r \in Requests : actor[r].op = "provider" /\ actor[r].target = p}

\* late (a ghost): another set_enabled of p overlaps this one.
SetEnabledRead(r, p, value) ==
    /\ MayStart(r)
    /\ edits' = edits + 1
    /\ actor' = NotedLate([actor EXCEPT ![r] = Started("provider", p, value,
                                                       overrideRow[p])],
                          IF Toggling(p) = {} THEN {} ELSE Toggling(p) \cup {r})
    /\ UNCHANGED <<overrideVars, accountVars, cache, loop, touch, faults>>

\* The insert finds the row there: set_enabled raises.
SetEnabledConflicts(r) ==
    /\ Writing(r, "provider")
    /\ actor[r].read = "absent" /\ overrideRow[actor[r].target] # "absent"
    /\ actor' = [actor EXCEPT ![r] = IdleActor]
    /\ UNCHANGED <<overrideVars, accountVars, cache, loop, touch, edits, faults>>

SetEnabledWrite(r) ==
    LET p == actor[r].target
    IN  /\ Writing(r, "provider")
        /\ actor[r].read = "absent" => overrideRow[p] = "absent"
        /\ overrideRow' = IF actor[r].read = actor[r].value THEN overrideRow
                          ELSE [overrideRow EXCEPT ![p] = actor[r].value]
        /\ actor' = [actor EXCEPT ![r].pc = "memory"]
        /\ UNCHANGED <<override, raced, accountVars, cache, loop, touch, edits,
                       faults>>

\* Back from the commit.  A toggle that was alone from start to end has made
\* table and memory agree.
SetEnabledMemory(r) ==
    LET p == actor[r].target
    IN  /\ actor[r].pc = "memory"
        /\ override' = [override EXCEPT ![p] = actor[r].value]
        /\ actor' = [actor EXCEPT ![r] = IdleActor]
        /\ raced' = IF actor[r].late THEN raced \cup {p} ELSE raced \ {p}
        /\ UNCHANGED <<overrideRow, accountVars, cache, loop, touch, edits, faults>>

-----------------------------------------------------------------------------
(* Account edits: each reads, then commits, then (in the API) refreshes *)

CreateRead(a, u, pw) ==
    /\ MayStart(a)
    /\ Named(u) = {}
    /\ edits' = edits + 1
    /\ actor' = [actor EXCEPT ![a] = Started("create", u, pw, Nobody)]
    /\ UNCHANGED <<overrideVars, accountVars, cache, loop, touch, faults>>

\* A new password, by the API or the command.
PasswordRead(a, i, pw) ==
    /\ MayStart(a)
    /\ Exists(i)
    /\ edits' = edits + 1
    /\ actor' = [actor EXCEPT ![a] = Started("password", i, pw, Nobody)]
    /\ UNCHANGED <<overrideVars, accountVars, cache, loop, touch, faults>>

\* Mutant: toggling only ever disables.
FlippedMutant(enabled) == FALSE

Flipped(enabled) == ~enabled

\* The API toggles, the command sets.
ToggleRead(r, i) ==
    /\ MayStart(r)
    /\ Exists(i)
    /\ edits' = edits + 1
    /\ actor' = [actor EXCEPT ![r] = Started("toggle", i, Flipped(account[i].enabled),
                                             account[i].enabled)]
    /\ UNCHANGED <<overrideVars, accountVars, cache, loop, touch, faults>>

EnableRead(i, enabled) ==
    /\ MayStart(Cli)
    /\ Exists(i)
    /\ edits' = edits + 1
    /\ actor' = [actor EXCEPT ![Cli] = Started("enable", i, enabled,
                                               account[i].enabled)]
    /\ UNCHANGED <<overrideVars, accountVars, cache, loop, touch, faults>>

\* A request goes on to refresh the snapshot; the command ends.
Committed(a) == IF a = Cli THEN IdleActor ELSE [IdleActor EXCEPT !.pc = "refresh"]

\* After a's commit on row i: the others that have read it are late.
CommittedOn(a, i) ==
    NotedLate([actor EXCEPT ![a] = Committed(a)],
              {b \in Actors \ {a} : /\ actor[b].pc = "write"
                                    /\ actor[b].op \in {"toggle", "enable"}
                                    /\ actor[b].target = i})

\* A password is set on row i (a ghost): it may be overwritten by an upgrade
\* of the hash it replaces.
SetDuringUpgrade(i) == IF touch.pc # "idle" /\ touch.id = i
                       THEN overtaken \cup {i} ELSE overtaken \ {i}

\* One above the largest id in the table.
IsNewId(i) == /\ \A j \in Ids : Exists(j) => j < i
              /\ i = 1 \/ \E j \in Ids : j = i - 1 /\ Exists(j)

CreateWrite(a) ==
    LET row == [user |-> actor[a].target, password |-> actor[a].value,
                dated |-> FALSE, enabled |-> TRUE]
    IN  /\ Writing(a, "create")
        /\ Named(row.user) = {}
        /\ \E i \in Ids :
             /\ IsNewId(i)
             /\ account' = [account EXCEPT ![i] = row]
             /\ meant' = [meant EXCEPT ![i] = row]
             /\ overtaken' = SetDuringUpgrade(i)
             /\ crossed' = crossed \ {i}
             /\ actor' = CommittedOn(a, i)
        /\ UNCHANGED <<overrideVars, cache, loop, touch, edits, faults>>

PasswordWrite(a) ==
    LET i == actor[a].target
    IN  /\ Writing(a, "password")
        /\ Exists(i)
        /\ account' = [account EXCEPT ![i].password = actor[a].value,
                                      ![i].dated = FALSE]
        /\ meant' = [meant EXCEPT ![i].password = actor[a].value]
        /\ overtaken' = SetDuringUpgrade(i)
        /\ actor' = [actor EXCEPT ![a] = Committed(a)]
        /\ UNCHANGED <<overrideVars, crossed, cache, loop, touch, edits, faults>>

\* What the edit, done in one piece, would make of the flag.
Meant(a, enabled) == IF actor[a].op = "toggle" THEN ~enabled ELSE actor[a].value

EnabledWrite(a) ==
    LET i == actor[a].target
        changed == actor[a].read # actor[a].value
    IN  /\ Writing(a, "toggle") \/ Writing(a, "enable")
        /\ Exists(i)
        /\ account' = IF changed THEN [account EXCEPT ![i].enabled = actor[a].value]
                      ELSE account
        /\ meant' = [meant EXCEPT ![i].enabled = Meant(a, @)]
        /\ crossed' = IF actor[a].late THEN crossed \cup {i} ELSE crossed
        /\ actor' = CommittedOn(a, i)
        /\ UNCHANGED <<overrideVars, overtaken, cache, loop, touch, edits, faults>>

\* The row to update is gone, or the name is taken: the commit raises.
EditConflicts(a) ==
    /\ \/ Writing(a, "create") /\ Named(actor[a].target) # {}
       \/ /\ \E op \in {"password", "toggle", "enable"} : Writing(a, op)
          /\ ~Exists(actor[a].target)
    /\ actor' = [actor EXCEPT ![a] = IdleActor]
    /\ UNCHANGED <<overrideVars, accountVars, cache, loop, touch, edits, faults>>

\* One DELETE statement, which may find nothing.
Delete(r, i) ==
    /\ MayStart(r)
    /\ edits' = edits + 1
    /\ account' = [account EXCEPT ![i] = NoRow]
    /\ meant' = [meant EXCEPT ![i] = NoRow]
    /\ actor' = CommittedOn(r, i)
    /\ UNCHANGED <<overrideVars, crossed, overtaken, cache, loop, touch, faults>>

-----------------------------------------------------------------------------
(* AccountStore.refresh, on demand and every 30 seconds *)

RefreshRead(r) ==
    /\ actor[r].pc = "refresh"
    /\ actor' = [actor EXCEPT ![r].pc = "apply", ![r].view = View]
    /\ UNCHANGED <<overrideVars, accountVars, cache, loop, touch, edits, faults>>

RefreshApply(r) ==
    /\ actor[r].pc = "apply"
    /\ cache' = actor[r].view
    /\ actor' = [actor EXCEPT ![r] = IdleActor]
    /\ UNCHANGED <<overrideVars, accountVars, loop, touch, edits, faults>>

LoopRead ==
    /\ loop.pc = "sleep"
    /\ loop' = [pc |-> "apply", view |-> View]
    /\ UNCHANGED <<overrideVars, accountVars, cache, actor, touch, edits, faults>>

LoopApply ==
    /\ loop.pc = "apply"
    /\ cache' = loop.view
    /\ loop' = SleepingLoop
    /\ UNCHANGED <<overrideVars, accountVars, actor, touch, edits, faults>>

\* Mutant: a failed refresh ends the loop.
AfterLoopFaultMutant == [SleepingLoop EXCEPT !.pc = "ended"]

\* The loop logs a failed refresh and goes on.
AfterLoopFault == SleepingLoop

LoopFails ==
    /\ loop.pc = "sleep"
    /\ faults < MaxFaults
    /\ faults' = faults + 1
    /\ loop' = AfterLoopFault
    /\ UNCHANGED <<overrideVars, accountVars, cache, actor, touch, edits>>

-----------------------------------------------------------------------------
(* Logins *)

\* Mutant: every login rewrites the hash.
NeedsRehashMutant(row) == TRUE

NeedsRehash(row) == row.dated

\* verify succeeds on a hash that needs an upgrade, and schedules it.  (Other
\* logins change nothing here.  Bound: one upgrade at a time.)
Login(u) ==
    LET row == cache[u].row
        id == cache[u].id
    IN  /\ id # 0 /\ row.enabled
        /\ NeedsRehash(row)
        /\ touch.pc = "idle"
        /\ touch' = [pc |-> "read", id |-> id, password |-> row.password]
        /\ overtaken' = IF row.dated /\ account[id].password # row.password
                        THEN overtaken \cup {id} ELSE overtaken
        /\ UNCHANGED <<overrideVars, account, meant, crossed, cache, actor, loop,
                       edits, faults>>

TouchRead ==
    /\ touch.pc = "read"
    /\ touch' = IF Exists(touch.id) THEN [touch EXCEPT !.pc = "write"] ELSE IdleTouch
    /\ UNCHANGED <<overrideVars, accountVars, cache, actor, loop, edits, faults>>

\* A row that is gone makes the update raise, which is logged.
TouchWrite ==
    /\ touch.pc = "write"
    /\ account' = IF Exists(touch.id)
                  THEN [account EXCEPT ![touch.id].password = touch.password,
                                       ![touch.id].dated = FALSE]
                  ELSE account
    /\ touch' = IdleTouch
    /\ UNCHANGED <<overrideVars, meant, crossed, overtaken, cache, actor, loop,
                   edits, faults>>

-----------------------------------------------------------------------------
(* Faults *)

\* Mutant: the memory is set although the transaction failed.
MemoryAfterFaultMutant(a) ==
    IF Writing(a, "provider")
    THEN [override EXCEPT ![actor[a].target] = actor[a].value] ELSE override

MemoryAfterFault(a) == override

\* The transaction of an edit or of its refresh fails.
ActorFails(a) ==
    /\ actor[a].pc \in {"write", "refresh"}
    /\ faults < MaxFaults
    /\ faults' = faults + 1
    /\ override' = MemoryAfterFault(a)
    /\ actor' = [actor EXCEPT ![a] = IdleActor]
    /\ UNCHANGED <<overrideRow, raced, accountVars, cache, loop, touch, edits>>

TouchFails ==
    /\ touch.pc # "idle"
    /\ faults < MaxFaults
    /\ faults' = faults + 1
    /\ touch' = IdleTouch
    /\ UNCHANGED <<overrideVars, accountVars, cache, actor, loop, edits>>

\* Application.start loads both copies; the admin command is another process.
Restart ==
    /\ faults < MaxFaults
    /\ faults' = faults + 1
    /\ override' = overrideRow
    /\ raced' = {}
    /\ cache' = View
    /\ actor' = [a \in Actors |-> IF a = Cli THEN actor[a] ELSE IdleActor]
    /\ loop' = SleepingLoop
    /\ touch' = IdleTouch
    /\ UNCHANGED <<overrideRow, accountVars, edits>>

-----------------------------------------------------------------------------
ToggleProvider(r) ==
    \/ \E p \in Providers, value \in {"on", "off"} : SetEnabledRead(r, p, value)
    \/ SetEnabledConflicts(r) \/ SetEnabledWrite(r) \/ SetEnabledMemory(r)

EditAccount(a) ==
    \/ \E u \in Users, pw \in Passwords : CreateRead(a, u, pw)
    \/ \E i \in Ids, pw \in Passwords : PasswordRead(a, i, pw)
    \/ CreateWrite(a) \/ PasswordWrite(a) \/ EnabledWrite(a) \/ EditConflicts(a)
    \/ ActorFails(a)

RequestOnly(r) ==
    \/ ToggleProvider(r)
    \/ \E i \in Ids : ToggleRead(r, i) \/ Delete(r, i)
    \/ RefreshRead(r) \/ RefreshApply(r)

Loop == LoopRead \/ LoopApply

Next == \/ \E a \in Actors : EditAccount(a)
        \/ \E r \in Requests : RequestOnly(r)
        \/ \E i \in Ids, enabled \in BOOLEAN : EnableRead(i, enabled)
        \/ Loop \/ LoopFails
        \/ \E u \in Users : Login(u)
        \/ TouchRead \/ TouchWrite \/ TouchFails
        \/ Restart

Spec == Init /\ [][Next]_vars

\* The refresh loop is a task of the event loop that sleeps and refreshes for
\* as long as the server runs; operators and clients come when they please.
FairSpec == Spec /\ WF_vars(Loop)

-----------------------------------------------------------------------------
(* Properties *)

\* Between toggles, the override in use is the one a restart would load,
\* unless two toggles of that provider overlapped: then one may commit first
\* and set the memory last (registry.py, set_enabled).
OverridesFollowTable ==
    \A p \in Providers :
        Toggling(p) = {} /\ p \notin raced => override[p] = overrideRow[p]

\* Once the edits stop, logins are checked against the table as it is: no
\* refresh that read early and ended late, no failed refresh and no edit of
\* the admin command, which refreshes nothing, leaves an old snapshot in
\* memory for good.
CacheCatchesUp == <>[](cache = View)

\* An account keeps the password that was last set for it.  Only the upgrade
\* of a dated hash may bring an older one back, when the password was set
\* while the upgrade was under way or not yet seen by the login behind it.
PasswordKept ==
    \A i \in Ids : Exists(i) /\ i \notin overtaken
                     => account[i].password = meant[i].password

\* An account is enabled as its edits, one after the other, leave it: a toggle
\* is lost only if another edit of the flag was committed between its read and
\* its write.
EnabledKept ==
    \A i \in Ids : Exists(i) /\ i \notin crossed
                     => account[i].enabled = meant[i].enabled
=============================================================================
