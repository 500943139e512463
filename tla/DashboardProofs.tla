-------------------------- MODULE DashboardProofs --------------------------
(***************************************************************************)
(* The copies and the edits of Dashboard, for any number of requests,      *)
(* providers, names, ids and passwords.  An edit is excused only by the    *)
(* race its ghost names: what has to be shown is that an edit that was not *)
(* noted as late still has, at its write, the value it read.               *)
(***************************************************************************)
EXTENDS Dashboard, FiniteSetTheorems, TLAPS

-----------------------------------------------------------------------------
(* The inductive invariant *)

Flags == {"toggle", "enable"}
Pcs == {"idle", "write", "memory", "refresh", "apply"}
Ops == {"none", "provider", "create", "password", "toggle", "enable", "delete"}
Targets == Providers \cup Users \cup Ids \cup {Nobody}
Values == {"on", "off"} \cup Passwords \cup BOOLEAN \cup {Nobody}
Reads == Toggles \cup BOOLEAN \cup {Nobody}
ActorType == [pc : Pcs, op : Ops, target : Targets, value : Values, read : Reads,
              late : BOOLEAN, view : Views]
Meaning == [user : Users \cup {Nobody}, password : Passwords \cup {Nobody},
            dated : BOOLEAN, enabled : BOOLEAN]

\* What an actor's local variables hold, by what it is doing.
Fits(x) ==
    /\ x.pc \in {"idle", "refresh", "apply"} <=> x.op = "none"
    /\ x.pc = "memory" => x.op = "provider"
    /\ x.op = "provider" =>
         x.target \in Providers /\ x.value \in {"on", "off"} /\ x.read \in Toggles
    /\ x.op = "create" => x.target \in Users /\ x.value \in Passwords
    /\ x.op = "password" => x.target \in Ids /\ x.value \in Passwords
    /\ x.op \in Flags =>
         x.target \in Ids /\ x.value \in BOOLEAN /\ x.read \in BOOLEAN
    /\ x.op = "toggle" => x.value # x.read

\* The actors.
ActorInv == /\ actor \in [Actors -> ActorType]
            /\ \A a \in Actors : Fits(actor[a])

\* The accounts table: a name has one row.
TableInv == /\ account \in [Ids -> Row \cup {NoRow}]
            /\ \A i, j \in Ids : Exists(i) /\ account[i].user = account[j].user
                                   => i = j
            /\ meant \in [Ids -> Meaning]

\* The copies of the table, finished and under way.
CopyInv == /\ cache \in Views
           /\ loop \in [pc : {"sleep", "apply"}, view : Views]

\* The rest of the types.
ScalarInv == /\ overrideRow \in [Providers -> Toggles]
             /\ override \in [Providers -> Toggles]
             /\ edits \in 0..MaxEdits /\ faults \in 0..MaxFaults
             /\ raced \subseteq Providers
             /\ crossed \subseteq Ids

\* A toggle that is not late is alone, and has read what is still there; the
\* memory differs from the table only between a commit and the assignment
\* after it, or after a race.
OverrideInv ==
    \A p \in Providers :
        /\ (\A r \in Toggling(p) : actor[r].pc # "memory") /\ p \notin raced
             => override[p] = overrideRow[p]
        /\ \A r \in Toggling(p) : ~actor[r].late =>
             /\ \A s \in Toggling(p) : s = r
             /\ actor[r].pc = "write" => actor[r].read = overrideRow[p]
             /\ actor[r].pc = "memory" => actor[r].value = overrideRow[p]

\* An edit of a flag that is not late has read the flag as it is.
FlagInv ==
    /\ EnabledKept
    /\ \A a \in Actors :
         actor[a].op \in Flags /\ ~actor[a].late /\ Exists(actor[a].target)
           => actor[a].read = account[actor[a].target].enabled

\* A hash upgrade carries the password in the table, unless it is overtaken.
PasswordInv ==
    /\ PasswordKept
    /\ touch \in [pc : {"idle", "read", "write"}, id : 0..MaxId,
                  password : Passwords \cup {Nobody}]
    /\ overtaken \subseteq Ids
    /\ touch.pc # "idle" =>
         /\ touch.id \in Ids /\ touch.password \in Passwords
         /\ Exists(touch.id) /\ touch.id \notin overtaken
              => touch.password = account[touch.id].password

IInv == /\ ActorInv /\ TableInv /\ CopyInv /\ ScalarInv
        /\ OverrideInv /\ FlagInv /\ PasswordInv

-----------------------------------------------------------------------------
(* Rows and views *)

\* A row that exists has a name, and one that does not has none.
LEMMA RowKinds ==
    ASSUME NEW r \in Row \cup {NoRow}
    PROVE  /\ r # NoRow => r \in Row
           /\ r # NoRow <=> r.user \in Users
           /\ r \in Meaning
           /\ NoRow.enabled = FALSE /\ NoRow.user = Nobody /\ NoRow.dated = FALSE
<1>1. /\ NoRow.user = Nobody /\ NoRow.password = Nobody
      /\ NoRow.enabled = FALSE /\ NoRow.dated = FALSE
  BY DEF NoRow
<1>2. NoRow \in Meaning
  BY DEF NoRow, Meaning
<1>3. \A x \in Row : x.user \in Users /\ x \in Meaning
  BY DEF Row, Meaning
<1> QED
  BY <1>1, <1>2, <1>3, DashboardAssumption

\* What refresh makes of the table is a view, and so is the empty one.
LEMMA ViewTyped ==
    ASSUME TableInv
    PROVE  View \in Views
<1>1. NotCached \in [id : 0..MaxId, row : Row \cup {NoRow}]
  BY DashboardAssumption DEF NotCached
<1>2. ASSUME NEW u \in Users, Named(u) # {}
      PROVE  [id |-> CHOOSE i \in Named(u) : TRUE,
              row |-> account[CHOOSE i \in Named(u) : TRUE]]
               \in [id : 0..MaxId, row : Row \cup {NoRow}]
  <2> DEFINE i == CHOOSE i \in Named(u) : TRUE
  <2>1. i \in Named(u)
    BY <1>2
  <2>2. i \in Ids
    BY <2>1 DEF Named
  <2> HIDE DEF i
  <2>3. i \in 0..MaxId /\ account[i] \in Row \cup {NoRow}
    BY <2>2, DashboardAssumption DEF Ids, TableInv
  <2>4. [id |-> i, row |-> account[i]] \in [id : 0..MaxId, row : Row \cup {NoRow}]
    BY <2>3
  <2> QED
    BY <2>4 DEF i
<1>3. \A u \in Users : View[u] \in [id : 0..MaxId, row : Row \cup {NoRow}]
  BY <1>1, <1>2 DEF View
<1> QED
  BY <1>3 DEF View, Views

\* The empty view.
LEMMA NoViewTyped == NoView \in Views
BY DashboardAssumption DEF NoView, Views, NotCached

-----------------------------------------------------------------------------
(* Actors *)

\* An actor that is idle, or about to refresh.
LEMMA IdleFits ==
    /\ IdleActor \in ActorType /\ Fits(IdleActor)
    /\ IdleActor.op = "none" /\ IdleActor.pc = "idle" /\ IdleActor.late = FALSE
    /\ [IdleActor EXCEPT !.pc = "refresh"] \in ActorType
    /\ Fits([IdleActor EXCEPT !.pc = "refresh"])
    /\ [IdleActor EXCEPT !.pc = "refresh"].op = "none"
    /\ [IdleActor EXCEPT !.pc = "refresh"].pc = "refresh"
BY NoViewTyped
   DEF IdleActor, ActorType, Fits, Pcs, Ops, Targets, Values, Reads, Flags

\* The actor after its commit.
LEMMA CommittedFits ==
    ASSUME NEW a \in Actors
    PROVE  /\ Committed(a) \in ActorType /\ Fits(Committed(a))
           /\ Committed(a).op = "none" /\ Committed(a).pc \in {"idle", "refresh"}
BY IdleFits DEF Committed

\* An actor that has begun an edit.
LEMMA StartedFits ==
    ASSUME NEW op \in Ops, NEW target \in Targets, NEW value \in Values,
           NEW read \in Reads, NEW x, x = Started(op, target, value, read)
    PROVE  /\ x \in ActorType
           /\ x.pc = "write" /\ x.op = op /\ x.target = target
           /\ x.value = value /\ x.read = read /\ ~x.late
<1>1. IdleActor \in ActorType /\ IdleActor.late = FALSE
  BY IdleFits
<1>2. Started(op, target, value, read)
        = [IdleActor EXCEPT !.pc = "write", !.op = op, !.target = target,
                            !.value = value, !.read = read]
  BY DEF Started
<1> HIDE DEF IdleActor
<1> QED
  BY <1>1, <1>2 DEF ActorType, Pcs

\* Fits looks at these fields only.
LEMMA SameFits ==
    ASSUME NEW x, NEW y, Fits(y), x.pc = y.pc, x.op = y.op, x.target = y.target,
           x.value = y.value, x.read = y.read
    PROVE  Fits(x)
BY Zenon DEF Fits

\* Noting actors as late changes nothing else about them.
LEMMA NotedFits ==
    ASSUME NEW f \in [Actors -> ActorType], NEW S, NEW g, g = NotedLate(f, S),
           \A a \in Actors : Fits(f[a])
    PROVE  /\ g \in [Actors -> ActorType]
           /\ \A a \in Actors :
                /\ Fits(g[a])
                /\ g[a].pc = f[a].pc /\ g[a].op = f[a].op
                /\ g[a].target = f[a].target /\ g[a].value = f[a].value
                /\ g[a].read = f[a].read
                /\ a \in S => g[a].late
                /\ a \notin S => g[a] = f[a]
<1>1. ASSUME NEW a \in Actors, a \in S
      PROVE  /\ g[a] \in ActorType
             /\ g[a].pc = f[a].pc /\ g[a].op = f[a].op
             /\ g[a].target = f[a].target /\ g[a].value = f[a].value
             /\ g[a].read = f[a].read
             /\ g[a].late
  <2>1. g[a] = [f[a] EXCEPT !.late = TRUE]
    BY <1>1 DEF NotedLate
  <2>2. f[a] \in ActorType
    OBVIOUS
  <2> QED
    BY <2>1, <2>2 DEF ActorType
<1>2. ASSUME NEW a \in Actors, a \notin S
      PROVE  g[a] = f[a]
  BY <1>2 DEF NotedLate
<1>3. ASSUME NEW a \in Actors
      PROVE  Fits(g[a])
  <2>1. CASE a \in S
    BY <1>1, <2>1, SameFits
  <2>2. CASE a \notin S
    BY <1>2, <2>2
  <2> QED
    BY <2>1, <2>2
<1>4. g \in [Actors -> ActorType]
  BY <1>1, <1>2 DEF NotedLate
<1> QED
  BY <1>1, <1>2, <1>3, <1>4

\* An actor takes a step of its own.
LEMMA ActorStep ==
    ASSUME ActorInv, NEW a \in Actors, NEW x \in ActorType, Fits(x),
           actor' = [actor EXCEPT ![a] = x]
    PROVE  /\ ActorInv'
           /\ actor'[a] = x
           /\ \A b \in Actors : b # a => actor'[b] = actor[b]
<1>1. actor' \in [Actors -> ActorType]
  BY DEF ActorInv
<1>2. actor'[a] = x /\ \A b \in Actors : b # a => actor'[b] = actor[b]
  BY DEF ActorInv
<1>3. \A b \in Actors : Fits(actor'[b])
  <2> TAKE b \in Actors
  <2>1. CASE b = a
    BY <1>2, <2>1
  <2>2. CASE b # a
    BY <1>2, <2>2 DEF ActorInv
  <2> QED
    BY <2>1, <2>2
<1>4. ActorInv' <=> /\ actor' \in [Actors -> ActorType]
                    /\ \A b \in Actors : Fits(actor'[b])
  BY DEF ActorInv
<1> QED
  BY <1>1, <1>2, <1>3, <1>4

\* An actor has committed on row i: the edits of that row's flag under way are
\* late, and no other actor notices.
LEMMA CommitStep ==
    ASSUME ActorInv, NEW a \in Actors, NEW i \in Ids, actor' = CommittedOn(a, i)
    PROVE  /\ ActorInv'
           /\ actor'[a] = Committed(a)
           /\ \A b \in Actors \ {a} :
                /\ actor'[b].op = actor[b].op /\ actor'[b].target = actor[b].target
                /\ actor[b].op \in Flags /\ actor[b].target = i
                     => actor'[b].late
                /\ actor[b].op \notin Flags \/ actor[b].target # i
                     => actor'[b] = actor[b]
<1> DEFINE f == [actor EXCEPT ![a] = Committed(a)]
           S == {b \in Actors \ {a} : /\ actor[b].pc = "write"
                                      /\ actor[b].op \in {"toggle", "enable"}
                                      /\ actor[b].target = i}
<1>1. Committed(a) \in ActorType /\ Fits(Committed(a))
  BY CommittedFits
<1>2. /\ f \in [Actors -> ActorType]
      /\ f[a] = Committed(a)
      /\ \A b \in Actors : b # a => f[b] = actor[b]
  <2> HIDE DEF S
  <2> QED
    BY <1>1 DEF ActorInv
<1>3. \A b \in Actors : Fits(f[b])
  <2> TAKE b \in Actors
  <2> HIDE DEF f
  <2>1. CASE b = a
    BY <1>1, <1>2, <2>1
  <2>2. CASE b # a
    BY <1>2, <2>2 DEF ActorInv
  <2> QED
    BY <2>1, <2>2
<1>4. actor' = NotedLate(f, S)
  BY DEF CommittedOn
<1>5. ASSUME NEW b \in Actors \ {a}, actor[b].op \in Flags, actor[b].target = i
      PROVE  b \in S
  BY <1>5 DEF ActorInv, Fits, Flags, ActorType, Pcs
<1>6. ASSUME NEW b \in Actors \ {a}, actor[b].op \notin Flags \/ actor[b].target # i
      PROVE  b \notin S
  BY <1>6 DEF Flags
<1>7. a \notin S
  OBVIOUS
<1> HIDE DEF f, S
<1>8. /\ actor' \in [Actors -> ActorType]
      /\ \A b \in Actors :
           /\ Fits(actor'[b])
           /\ actor'[b].op = f[b].op /\ actor'[b].target = f[b].target
           /\ b \in S => actor'[b].late
           /\ b \notin S => actor'[b] = f[b]
  <2>1. f \in [Actors -> ActorType] /\ (\A b \in Actors : Fits(f[b]))
    BY <1>2, <1>3
  <2>2. PICK h \in [Actors -> ActorType] : h = f
    BY <2>1
  <2>3. \A b \in Actors : Fits(h[b])
    BY <2>1, <2>2
  <2>4. PICK T : T = S
    OBVIOUS
  <2>5. PICK g : g = NotedLate(h, T)
    OBVIOUS
  <2>6. /\ g \in [Actors -> ActorType]
        /\ \A b \in Actors :
               /\ Fits(g[b])
               /\ g[b].pc = h[b].pc /\ g[b].op = h[b].op
               /\ g[b].target = h[b].target /\ g[b].value = h[b].value
               /\ g[b].read = h[b].read
               /\ b \in T => g[b].late
               /\ b \notin T => g[b] = h[b]
    BY <2>3, <2>5, NotedFits
  <2> QED
    BY <1>4, <2>2, <2>4, <2>5, <2>6
<1>9. ActorInv' <=> /\ actor' \in [Actors -> ActorType]
                    /\ \A b \in Actors : Fits(actor'[b])
  BY DEF ActorInv
<1> QED
  BY <1>2, <1>5, <1>6, <1>7, <1>8, <1>9

-----------------------------------------------------------------------------
(* Steps that leave a part of the invariant alone *)

\* No toggle starts, and none that has committed ends.
LEMMA OverrideFrame ==
    ASSUME OverrideInv, UNCHANGED overrideVars,
           \A r \in Requests :
             \/ actor'[r] = actor[r]
             \/ /\ actor'[r].op # "provider"
                /\ ~(actor[r].op = "provider" /\ actor[r].pc = "memory")
    PROVE  OverrideInv'
<1>1. ASSUME NEW p \in Providers, NEW r \in Toggling(p)'
      PROVE  r \in Toggling(p) /\ actor'[r] = actor[r]
  BY DEF Toggling
<1>2. ASSUME NEW p \in Providers, NEW r \in Toggling(p), actor[r].pc = "memory"
      PROVE  r \in Toggling(p)' /\ actor'[r] = actor[r]
  BY <1>2 DEF Toggling
<1>3. overrideRow' = overrideRow /\ override' = override /\ raced' = raced
  BY DEF overrideVars
<1> QED
  BY <1>1, <1>2, <1>3 DEF OverrideInv

\* No flag changes, and no edit of one starts.
LEMMA FlagFrame ==
    ASSUME FlagInv, UNCHANGED <<account, meant, crossed>>,
           \A a \in Actors : actor'[a] = actor[a] \/ actor'[a].op \notin Flags
    PROVE  FlagInv'
<1>1. EnabledKept'
  BY DEF FlagInv, EnabledKept, Exists
<1>2. ASSUME NEW a \in Actors, actor'[a].op \in Flags, ~actor'[a].late,
             Exists(actor[a].target)'
      PROVE  actor'[a].read = account'[actor'[a].target].enabled
  <2>1. actor'[a] = actor[a] /\ Exists(actor[a].target)
    BY <1>2 DEF Exists
  <2> QED
    BY <1>2, <2>1 DEF FlagInv
<1> QED
  BY <1>1, <1>2 DEF FlagInv, Exists

\* No password and no upgrade changes.
LEMMA PasswordFrame ==
    ASSUME PasswordInv, UNCHANGED <<account, meant, overtaken, touch>>
    PROVE  PasswordInv'
BY DEF PasswordInv, PasswordKept, Exists

\* The table does not change.
LEMMA TableFrame ==
    ASSUME TableInv, UNCHANGED <<account, meant>>
    PROVE  TableInv'
BY DEF TableInv, Exists

\* A step of one actor that starts or ends neither a toggle that has committed
\* nor an edit of a flag, and writes nothing.
LEMMA QuietStep ==
    ASSUME IInv, NEW a \in Actors, NEW x \in ActorType, Fits(x),
           x.op # "provider", x.op \notin Flags, actor[a].pc # "memory",
           actor' = [actor EXCEPT ![a] = x],
           UNCHANGED <<overrideVars, accountVars, touch>>
    PROVE  ActorInv' /\ TableInv' /\ OverrideInv' /\ FlagInv' /\ PasswordInv'
<1>1. /\ ActorInv' /\ actor'[a] = x
      /\ \A b \in Actors : b # a => actor'[b] = actor[b]
  BY ActorStep DEF IInv
<1>2. OverrideInv'
  BY <1>1, OverrideFrame DEF IInv, Actors
<1>3. FlagInv'
  BY <1>1, FlagFrame DEF IInv, accountVars
<1> QED
  BY <1>1, <1>2, <1>3, PasswordFrame, TableFrame DEF IInv, accountVars

-----------------------------------------------------------------------------
(* The overrides *)

\* set_enabled begins: alone it knows the table, and otherwise all are late.
LEMMA SetEnabledReadInv ==
    ASSUME IInv, NEW r \in Requests, NEW p \in Providers, NEW value \in {"on", "off"},
           SetEnabledRead(r, p, value)
    PROVE  IInv'
<1> DEFINE x == Started("provider", p, value, overrideRow[p])
           f == [actor EXCEPT ![r] = x]
           S == IF Toggling(p) = {} THEN {} ELSE Toggling(p) \cup {r}
<1>1. /\ actor[r].pc = "idle" /\ edits < MaxEdits /\ edits' = edits + 1
      /\ actor' = NotedLate(f, S)
      /\ UNCHANGED <<overrideVars, accountVars, cache, loop, touch, faults>>
  BY DEF SetEnabledRead, MayStart
<1>2. r \in Actors /\ overrideRow[p] \in Toggles
  BY DEF Actors, IInv, ScalarInv
<1>3. /\ "provider" \in Ops /\ p \in Targets /\ value \in Values
      /\ overrideRow[p] \in Reads
  BY <1>2 DEF Ops, Targets, Values, Reads
<1>4. /\ x \in ActorType
      /\ x.pc = "write" /\ x.op = "provider" /\ x.target = p
      /\ x.value = value /\ x.read = overrideRow[p] /\ ~x.late
  <2>1. PICK op \in Ops : op = "provider"
    BY <1>3
  <2>2. PICK read \in Reads : read = overrideRow[p]
    BY <1>3
  <2>3. PICK y : y = Started(op, p, value, read)
    OBVIOUS
  <2>4. /\ y \in ActorType
        /\ y.pc = "write" /\ y.op = op /\ y.target = p
        /\ y.value = value /\ y.read = read /\ ~y.late
    BY <1>3, <2>3, StartedFits
  <2> QED
    BY <2>1, <2>2, <2>3, <2>4
<1> HIDE DEF x
<1>5. Fits(x)
  BY <1>2, <1>4 DEF Fits, Flags
<1>6. /\ f \in [Actors -> ActorType]
      /\ f[r] = x
      /\ \A b \in Actors : b # r => f[b] = actor[b]
  <2> HIDE DEF S
  <2> QED
    BY <1>2, <1>4 DEF IInv, ActorInv
<1>7. \A b \in Actors : Fits(f[b])
  <2> TAKE b \in Actors
  <2> HIDE DEF f
  <2>1. CASE b = r
    BY <1>5, <1>6, <2>1
  <2>2. CASE b # r
    BY <1>6, <2>2 DEF ActorInv, IInv
  <2> QED
    BY <2>1, <2>2
<1>8. r \notin Toggling(p) /\ actor[r].op = "none"
  BY <1>1, <1>2 DEF Toggling, IInv, ActorInv, Fits
<1> HIDE DEF f
<1>9. PICK h \in [Actors -> ActorType] : h = f
  BY <1>6
<1>10. PICK T : T = S
  OBVIOUS
<1>11. /\ actor' \in [Actors -> ActorType]
       /\ \A b \in Actors :
            /\ Fits(actor'[b])
            /\ actor'[b].pc = h[b].pc /\ actor'[b].op = h[b].op
            /\ actor'[b].target = h[b].target /\ actor'[b].value = h[b].value
            /\ actor'[b].read = h[b].read
            /\ b \in T => actor'[b].late
            /\ b \notin T => actor'[b] = h[b]
  <2>1. \A b \in Actors : Fits(h[b])
    BY <1>7, <1>9
  <2>2. actor' = NotedLate(h, T)
    BY <1>1, <1>9, <1>10
  <2>3. PICK g : g = NotedLate(h, T)
    OBVIOUS
  <2>4. /\ g \in [Actors -> ActorType]
        /\ \A b \in Actors :
             /\ Fits(g[b])
             /\ g[b].pc = h[b].pc /\ g[b].op = h[b].op
             /\ g[b].target = h[b].target /\ g[b].value = h[b].value
             /\ g[b].read = h[b].read
             /\ b \in T => g[b].late
             /\ b \notin T => g[b] = h[b]
    BY <2>1, <2>3, NotedFits
  <2> QED
    BY <2>2, <2>3, <2>4
<1>12. /\ actor'[r].pc = "write" /\ actor'[r].op = "provider" /\ actor'[r].target = p
       /\ actor'[r].read = overrideRow[p]
       /\ Toggling(p) # {} => actor'[r].late
  BY <1>2, <1>4, <1>6, <1>9, <1>10, <1>11
<1>13. \A b \in Actors : b # r =>
         /\ actor'[b].pc = actor[b].pc /\ actor'[b].op = actor[b].op
         /\ actor'[b].target = actor[b].target
         /\ b \in Toggling(p) => actor'[b].late
         /\ b \notin Toggling(p) => actor'[b] = actor[b]
  BY <1>2, <1>6, <1>9, <1>10, <1>11
<1>14. ActorInv'
  BY <1>11 DEF ActorInv
<1>15. TableInv' /\ CopyInv' /\ ScalarInv' /\ PasswordInv'
  <2>1. edits' \in 0..MaxEdits
    BY <1>1, DashboardAssumption DEF IInv, ScalarInv
  <2> QED
    BY <1>1, <2>1, TableFrame, PasswordFrame
       DEF IInv, accountVars, overrideVars, CopyInv, ScalarInv
<1>16. FlagInv'
  <2>1. \A a \in Actors : actor'[a] = actor[a] \/ actor'[a].op \notin Flags
    BY <1>12, <1>13 DEF Toggling, Flags
  <2> QED
    BY <1>1, <2>1, FlagFrame DEF IInv, accountVars
<1>17. OverrideInv'
  <2>1. UNCHANGED <<overrideRow, override, raced>>
    BY <1>1 DEF overrideVars
  <2>2. ASSUME NEW q \in Providers, q # p
        PROVE  /\ Toggling(q)' = Toggling(q)
               /\ \A s \in Toggling(q) : actor'[s] = actor[s]
    <3>1. \A s \in Requests : s \in Toggling(q)' <=> s \in Toggling(q)
      BY <1>8, <1>12, <1>13, <2>2 DEF Toggling, Actors
    <3>2. \A s \in Toggling(q) : s \in Requests /\ s # r /\ s \notin Toggling(p)
      BY <1>8, <2>2 DEF Toggling
    <3> QED
      BY <1>13, <3>1, <3>2 DEF Toggling, Actors
  <2>3. Toggling(p)' = Toggling(p) \cup {r}
    BY <1>12, <1>13 DEF Toggling, Actors
  <2>4. \A s \in Toggling(p) : actor'[s].late /\ actor'[s].pc = actor[s].pc
    BY <1>8, <1>13 DEF Toggling, Actors
  <2>5. ASSUME \A s \in Toggling(p)' : actor'[s].pc # "memory", p \notin raced
        PROVE  override[p] = overrideRow[p]
    BY <2>3, <2>4, <2>5 DEF IInv, OverrideInv
  <2>6. ASSUME NEW s \in Toggling(p)', ~actor'[s].late
        PROVE  /\ \A t \in Toggling(p)' : t = s
               /\ s = r
    BY <1>12, <2>3, <2>4, <2>6
  <2>7. ASSUME NEW q \in Providers, q # p
        PROVE  /\ (\A s \in Toggling(q)' : actor'[s].pc # "memory") /\ q \notin raced'
                    => override'[q] = overrideRow'[q]
               /\ \A s \in Toggling(q)' : ~actor'[s].late =>
                    /\ \A t \in Toggling(q)' : t = s
                    /\ actor'[s].pc = "write" => actor'[s].read = overrideRow'[q]
                    /\ actor'[s].pc = "memory" => actor'[s].value = overrideRow'[q]
    BY <2>1, <2>2, <2>7 DEF IInv, OverrideInv
  <2> QED
    BY <1>12, <2>1, <2>5, <2>6, <2>7 DEF OverrideInv
<1> QED
  BY <1>14, <1>15, <1>16, <1>17 DEF IInv

\* The commit of set_enabled: a toggle that is not late makes the table say
\* what it wanted.
LEMMA SetEnabledWriteInv ==
    ASSUME IInv, NEW r \in Requests, SetEnabledWrite(r)
    PROVE  IInv'
<1>1. PICK p \in Providers : p = actor[r].target
  BY DEF SetEnabledWrite, Writing, IInv, ActorInv, Fits, Actors
<1> DEFINE x == [actor[r] EXCEPT !.pc = "memory"]
<1>2. /\ actor[r].pc = "write" /\ actor[r].op = "provider"
      /\ overrideRow' = IF actor[r].read = actor[r].value THEN overrideRow
                        ELSE [overrideRow EXCEPT ![p] = actor[r].value]
      /\ actor' = [actor EXCEPT ![r] = x]
      /\ UNCHANGED <<override, raced, accountVars, cache, loop, touch, edits, faults>>
  BY <1>1 DEF SetEnabledWrite, Writing
<1>3. r \in Actors /\ actor[r] \in ActorType /\ Fits(actor[r])
  BY DEF Actors, IInv, ActorInv
<1>4. /\ x \in ActorType /\ x.pc = "memory"
      /\ x.op = actor[r].op /\ x.target = actor[r].target /\ x.value = actor[r].value
      /\ x.read = actor[r].read /\ x.late = actor[r].late
  BY <1>3 DEF ActorType, Pcs
<1> HIDE DEF x
<1>5. Fits(x)
  BY <1>2, <1>3, <1>4 DEF Fits, Flags
<1>6. /\ ActorInv' /\ actor'[r] = x
      /\ \A b \in Actors : b # r => actor'[b] = actor[b]
  BY <1>2, <1>3, <1>4, <1>5, ActorStep DEF IInv
<1>7. /\ overrideRow' \in [Providers -> Toggles]
      /\ \A q \in Providers : q # p => overrideRow'[q] = overrideRow[q]
      /\ actor[r].read = overrideRow[p] => overrideRow'[p] = actor[r].value
  <2>1. actor[r].value \in Toggles
    BY <1>2, <1>3 DEF Fits, Toggles
  <2> QED
    BY <1>2, <2>1 DEF IInv, ScalarInv
<1>8. TableInv' /\ CopyInv' /\ ScalarInv' /\ PasswordInv'
  BY <1>2, <1>7, TableFrame, PasswordFrame DEF IInv, accountVars, CopyInv, ScalarInv
<1>9. FlagInv'
  <2>1. \A a \in Actors : actor'[a] = actor[a] \/ actor'[a].op \notin Flags
    BY <1>2, <1>4, <1>6 DEF Flags
  <2> QED
    BY <1>2, <2>1, FlagFrame DEF IInv, accountVars
<1>10. OverrideInv'
  <2>1. \A q \in Providers : Toggling(q)' = Toggling(q)
    BY <1>4, <1>6 DEF Toggling, Actors
  <2>2. r \in Toggling(p)
    BY <1>1, <1>2 DEF Toggling
  <2>3. ASSUME NEW q \in Providers, q # p
        PROVE  /\ \A s \in Toggling(q) : actor'[s] = actor[s]
               /\ overrideRow'[q] = overrideRow[q]
    BY <1>1, <1>6, <1>7, <2>3 DEF Toggling, Actors
  <2>4. ASSUME NEW s \in Toggling(p), ~actor'[s].late
        PROVE  /\ \A t \in Toggling(p) : t = s
               /\ s = r
               /\ actor'[r].pc = "memory" /\ actor'[r].value = overrideRow'[p]
    <3>1. ~actor[s].late
      BY <1>4, <1>6, <2>4 DEF Toggling, Actors
    <3>2. /\ \A t \in Toggling(p) : t = s
          /\ actor[s].pc = "write" => actor[s].read = overrideRow[p]
      BY <3>1 DEF IInv, OverrideInv
    <3>3. s = r
      BY <2>2, <3>2
    <3> QED
      BY <1>2, <1>4, <1>6, <1>7, <3>2, <3>3
  <2>5. UNCHANGED <<override, raced>>
    BY <1>2
  <2>6. actor'[r].pc = "memory"
    BY <1>4, <1>6
  <2>7. ASSUME NEW q \in Providers, q # p
        PROVE  /\ (\A s \in Toggling(q)' : actor'[s].pc # "memory") /\ q \notin raced'
                    => override'[q] = overrideRow'[q]
               /\ \A s \in Toggling(q)' : ~actor'[s].late =>
                    /\ \A t \in Toggling(q)' : t = s
                    /\ actor'[s].pc = "write" => actor'[s].read = overrideRow'[q]
                    /\ actor'[s].pc = "memory" => actor'[s].value = overrideRow'[q]
    BY <2>1, <2>3, <2>5, <2>7 DEF IInv, OverrideInv
  <2> QED
    BY <2>1, <2>2, <2>4, <2>6, <2>7 DEF OverrideInv
<1> QED
  BY <1>6, <1>8, <1>9, <1>10 DEF IInv

\* The assignment after the commit: a toggle that is not late ends with table
\* and memory in agreement, and one that is late marks the provider as raced.
LEMMA SetEnabledMemoryInv ==
    ASSUME IInv, NEW r \in Requests, SetEnabledMemory(r)
    PROVE  IInv'
<1>1. r \in Actors /\ actor[r] \in ActorType /\ Fits(actor[r])
  BY DEF Actors, IInv, ActorInv
<1>2. actor[r].pc = "memory" /\ actor[r].op = "provider"
  BY <1>1 DEF SetEnabledMemory, Fits
<1>3. PICK p \in Providers : p = actor[r].target
  BY <1>1, <1>2 DEF Fits
<1>4. /\ override' = [override EXCEPT ![p] = actor[r].value]
      /\ actor' = [actor EXCEPT ![r] = IdleActor]
      /\ raced' = IF actor[r].late THEN raced \cup {p} ELSE raced \ {p}
      /\ UNCHANGED <<overrideRow, accountVars, cache, loop, touch, edits, faults>>
  BY <1>3 DEF SetEnabledMemory
<1>5. /\ ActorInv' /\ actor'[r] = IdleActor
      /\ \A b \in Actors : b # r => actor'[b] = actor[b]
  BY <1>1, <1>4, IdleFits, ActorStep DEF IInv
<1>6. /\ override' \in [Providers -> Toggles]
      /\ override'[p] = actor[r].value
      /\ \A q \in Providers : q # p => override'[q] = override[q]
  <2>1. actor[r].value \in Toggles
    BY <1>1, <1>2 DEF Fits, Toggles
  <2> QED
    BY <1>4, <2>1 DEF IInv, ScalarInv
<1>7. TableInv' /\ CopyInv' /\ ScalarInv' /\ PasswordInv'
  <2>1. raced' \subseteq Providers
    BY <1>4 DEF IInv, ScalarInv
  <2> QED
    BY <1>4, <1>6, <2>1, TableFrame, PasswordFrame
       DEF IInv, accountVars, CopyInv, ScalarInv
<1>8. FlagInv'
  <2>1. \A a \in Actors : actor'[a] = actor[a] \/ actor'[a].op \notin Flags
    BY <1>5, IdleFits DEF Flags
  <2> QED
    BY <1>4, <2>1, FlagFrame DEF IInv, accountVars
<1>9. OverrideInv'
  <2>1. ASSUME NEW q \in Providers
        PROVE  /\ Toggling(q)' = Toggling(q) \ {r}
               /\ \A s \in Toggling(q)' : actor'[s] = actor[s]
    BY <1>5, IdleFits DEF Toggling, Actors
  <2>2. r \in Toggling(p)
    BY <1>2, <1>3 DEF Toggling
  <2>3. ASSUME NEW q \in Providers, q # p
        PROVE  /\ r \notin Toggling(q)
               /\ q \in raced' <=> q \in raced
    BY <1>3, <1>4, <2>3 DEF Toggling
  <2>4. ASSUME p \notin raced'
        PROVE  override'[p] = overrideRow[p]
    <3>1. ~actor[r].late
      BY <1>4, <2>4
    <3> QED
      BY <1>2, <1>6, <2>2, <3>1 DEF IInv, OverrideInv
  <2>5. overrideRow' = overrideRow
    BY <1>4
  <2>6. ASSUME NEW q \in Providers, NEW s \in Toggling(q)', ~actor'[s].late
        PROVE  /\ \A t \in Toggling(q)' : t = s
               /\ actor'[s].pc = "write" => actor'[s].read = overrideRow'[q]
               /\ actor'[s].pc = "memory" => actor'[s].value = overrideRow'[q]
    BY <2>1, <2>5, <2>6 DEF IInv, OverrideInv
  <2>7. ASSUME NEW q \in Providers, q # p, q \notin raced',
               \A s \in Toggling(q)' : actor'[s].pc # "memory"
        PROVE  override'[q] = overrideRow'[q]
    BY <1>6, <2>1, <2>3, <2>5, <2>7 DEF IInv, OverrideInv
  <2> QED
    BY <2>4, <2>5, <2>6, <2>7 DEF OverrideInv
<1> QED
  BY <1>5, <1>7, <1>8, <1>9 DEF IInv

-----------------------------------------------------------------------------
(* Steps that write neither table *)

\* An insert of an override or an edit of an account that raises, and a
\* transaction that fails.
LEMMA ConflictInv ==
    ASSUME IInv, NEW a \in Actors, EditConflicts(a) \/ ActorFails(a)
                                   \/ SetEnabledConflicts(a)
    PROVE  IInv'
<1>1. /\ actor[a].pc # "memory"
      /\ actor' = [actor EXCEPT ![a] = IdleActor]
      /\ UNCHANGED <<overrideVars, accountVars, cache, loop, touch, edits>>
      /\ faults' \in 0..MaxFaults
  BY DashboardAssumption DEF EditConflicts, ActorFails, SetEnabledConflicts, Writing,
       MemoryAfterFault, overrideVars, IInv, ScalarInv
<1>2. ActorInv' /\ TableInv' /\ OverrideInv' /\ FlagInv' /\ PasswordInv'
  BY <1>1, IdleFits, QuietStep DEF Flags
<1> QED
  BY <1>1, <1>2 DEF IInv, CopyInv, ScalarInv, overrideVars, accountVars

\* An edit that has read: what it will write is of its kind.
LEMMA CreateReadInv ==
    ASSUME IInv, NEW a \in Actors, NEW u \in Users, NEW pw \in Passwords,
           CreateRead(a, u, pw)
    PROVE  IInv'
<1>1. PICK op \in Ops : op = "create"
  BY DEF Ops
<1>2. PICK target \in Targets : target = u
  BY DEF Targets
<1>3. PICK value \in Values : value = pw
  BY DEF Values
<1>4. PICK read \in Reads : read = Nobody
  BY DEF Reads
<1>5. PICK x : x = Started(op, target, value, read)
  OBVIOUS
<1>6. /\ x \in ActorType
      /\ x.pc = "write" /\ x.op = op /\ x.target = target /\ x.value = value
  BY <1>5, StartedFits
<1>7. Fits(x)
  BY <1>1, <1>2, <1>3, <1>6 DEF Fits, Flags
<1>8. /\ actor[a].pc = "idle" /\ edits < MaxEdits /\ edits' = edits + 1
      /\ actor' = [actor EXCEPT ![a] = x]
      /\ UNCHANGED <<overrideVars, accountVars, cache, loop, touch, faults>>
  BY <1>1, <1>2, <1>3, <1>4, <1>5 DEF CreateRead, MayStart
<1>9. ActorInv' /\ TableInv' /\ OverrideInv' /\ FlagInv' /\ PasswordInv'
  BY <1>1, <1>6, <1>7, <1>8, QuietStep DEF Flags
<1>10. edits' \in 0..MaxEdits
  BY <1>8, DashboardAssumption DEF IInv, ScalarInv
<1> QED
  BY <1>8, <1>9, <1>10 DEF IInv, CopyInv, ScalarInv, overrideVars, accountVars

\* The same for a new password.
LEMMA PasswordReadInv ==
    ASSUME IInv, NEW a \in Actors, NEW i \in Ids, NEW pw \in Passwords,
           PasswordRead(a, i, pw)
    PROVE  IInv'
<1>1. PICK op \in Ops : op = "password"
  BY DEF Ops
<1>2. PICK target \in Targets : target = i
  BY DEF Targets
<1>3. PICK value \in Values : value = pw
  BY DEF Values
<1>4. PICK read \in Reads : read = Nobody
  BY DEF Reads
<1>5. PICK x : x = Started(op, target, value, read)
  OBVIOUS
<1>6. /\ x \in ActorType
      /\ x.pc = "write" /\ x.op = op /\ x.target = target /\ x.value = value
  BY <1>5, StartedFits
<1>7. Fits(x)
  BY <1>1, <1>2, <1>3, <1>6 DEF Fits, Flags
<1>8. /\ actor[a].pc = "idle" /\ edits < MaxEdits /\ edits' = edits + 1
      /\ actor' = [actor EXCEPT ![a] = x]
      /\ UNCHANGED <<overrideVars, accountVars, cache, loop, touch, faults>>
  BY <1>1, <1>2, <1>3, <1>4, <1>5 DEF PasswordRead, MayStart
<1>9. ActorInv' /\ TableInv' /\ OverrideInv' /\ FlagInv' /\ PasswordInv'
  BY <1>1, <1>6, <1>7, <1>8, QuietStep DEF Flags
<1>10. edits' \in 0..MaxEdits
  BY <1>8, DashboardAssumption DEF IInv, ScalarInv
<1> QED
  BY <1>8, <1>9, <1>10 DEF IInv, CopyInv, ScalarInv, overrideVars, accountVars

\* The two steps of a request's refresh.
LEMMA RefreshReadInv ==
    ASSUME IInv, NEW r \in Requests, RefreshRead(r)
    PROVE  IInv'
<1>1. r \in Actors /\ actor[r] \in ActorType /\ Fits(actor[r])
  BY DEF Actors, IInv, ActorInv
<1>2. PICK v \in Views : v = View
  BY ViewTyped DEF IInv
<1> DEFINE x == [actor[r] EXCEPT !.pc = "apply", !.view = v]
<1>3. /\ actor[r].pc = "refresh"
      /\ actor' = [actor EXCEPT ![r] = x]
      /\ UNCHANGED <<overrideVars, accountVars, cache, loop, touch, edits, faults>>
  BY <1>2 DEF RefreshRead
<1>4. /\ x \in ActorType /\ x.pc = "apply"
      /\ x.op = actor[r].op /\ actor[r].op = "none"
  BY <1>1, <1>3 DEF ActorType, Pcs, Fits
<1> HIDE DEF x
<1>5. Fits(x)
  BY <1>4 DEF Fits, Flags
<1>6. ActorInv' /\ TableInv' /\ OverrideInv' /\ FlagInv' /\ PasswordInv'
  BY <1>1, <1>3, <1>4, <1>5, QuietStep DEF Flags
<1> QED
  BY <1>3, <1>6 DEF IInv, CopyInv, ScalarInv, overrideVars, accountVars

\* The refresh replaces the snapshot by a view read earlier.
LEMMA RefreshApplyInv ==
    ASSUME IInv, NEW r \in Requests, RefreshApply(r)
    PROVE  IInv'
<1>1. r \in Actors /\ actor[r] \in ActorType
  BY DEF Actors, IInv, ActorInv
<1>2. /\ actor[r].pc = "apply" /\ cache' = actor[r].view
      /\ actor' = [actor EXCEPT ![r] = IdleActor]
      /\ UNCHANGED <<overrideVars, accountVars, loop, touch, edits, faults>>
  BY DEF RefreshApply
<1>3. ActorInv' /\ TableInv' /\ OverrideInv' /\ FlagInv' /\ PasswordInv'
  BY <1>1, <1>2, IdleFits, QuietStep DEF Flags
<1>4. cache' \in Views
  BY <1>1, <1>2 DEF ActorType
<1> QED
  BY <1>2, <1>3, <1>4 DEF IInv, CopyInv, ScalarInv, overrideVars, accountVars

\* An edit of a flag begins, with the flag as it is.
LEMMA FlagReadInv ==
    ASSUME IInv, NEW a \in Actors, NEW i \in Ids, NEW op \in Flags,
           NEW value \in BOOLEAN,
           op = "toggle" => value # account[i].enabled,
           MayStart(a), Exists(i), edits' = edits + 1,
           actor' = [actor EXCEPT ![a] = Started(op, i, value, account[i].enabled)],
           UNCHANGED <<overrideVars, accountVars, cache, loop, touch, faults>>
    PROVE  IInv'
<1>1. account[i] \in Row
  BY RowKinds DEF IInv, TableInv, Exists
<1>2. PICK read \in BOOLEAN : read = account[i].enabled
  BY <1>1 DEF Row
<1>3. op \in Ops /\ i \in Targets /\ value \in Values /\ read \in Reads
  BY DEF Ops, Flags, Targets, Values, Reads
<1>4. PICK x : x = Started(op, i, value, read)
  OBVIOUS
<1>5. /\ x \in ActorType
      /\ x.pc = "write" /\ x.op = op /\ x.target = i /\ x.value = value
      /\ x.read = read
  BY <1>3, <1>4, StartedFits
<1>6. Fits(x)
  BY <1>2, <1>5 DEF Fits, Flags
<1>7. actor' = [actor EXCEPT ![a] = x]
  BY <1>2, <1>4
<1>8. /\ ActorInv' /\ actor'[a] = x
      /\ \A b \in Actors : b # a => actor'[b] = actor[b]
  BY <1>5, <1>6, <1>7, ActorStep DEF IInv
<1>9. actor[a].op = "none" /\ edits < MaxEdits
  BY DEF MayStart, IInv, ActorInv, Fits
<1>10. OverrideInv'
  <2>1. \A r \in Requests :
             \/ actor'[r] = actor[r]
             \/ /\ actor'[r].op # "provider"
                /\ ~(actor[r].op = "provider" /\ actor[r].pc = "memory")
    BY <1>5, <1>8, <1>9 DEF Actors, Flags
  <2> QED
    BY <2>1, OverrideFrame DEF IInv
<1>11. FlagInv'
  <2>1. account' = account /\ meant' = meant /\ crossed' = crossed
    BY DEF accountVars
  <2>2. EnabledKept'
    BY <2>1 DEF IInv, FlagInv, EnabledKept, Exists
  <2>3. ASSUME NEW b \in Actors, actor'[b].op \in Flags, ~actor'[b].late,
               account[actor'[b].target] # NoRow
        PROVE  actor'[b].read = account[actor'[b].target].enabled
    <3>1. CASE b = a
      BY <1>2, <1>5, <1>8, <3>1, Zenon
    <3>2. CASE b # a
      BY <1>8, <2>3, <3>2 DEF IInv, FlagInv, Exists
    <3> QED
      BY <3>1, <3>2
  <2> QED
    BY <2>1, <2>2, <2>3 DEF FlagInv, Exists
<1>12. TableInv' /\ PasswordInv' /\ edits' \in 0..MaxEdits
  BY <1>9, TableFrame, PasswordFrame, DashboardAssumption
     DEF IInv, ScalarInv, accountVars
<1> QED
  BY <1>8, <1>10, <1>11, <1>12
     DEF IInv, CopyInv, ScalarInv, overrideVars, accountVars

\* The API's toggle.
LEMMA ToggleReadInv ==
    ASSUME IInv, NEW r \in Requests, NEW i \in Ids, ToggleRead(r, i)
    PROVE  IInv'
<1>1. account[i] \in Row /\ r \in Actors
  BY RowKinds DEF ToggleRead, IInv, TableInv, Exists, Actors
<1>2. PICK b \in BOOLEAN : b = account[i].enabled
  BY <1>1 DEF Row
<1>3. PICK value \in BOOLEAN : value = Flipped(account[i].enabled) /\ value # b
  BY <1>2 DEF Flipped
<1>4. PICK op \in Flags : op = "toggle"
  BY DEF Flags
<1> QED
  BY <1>1, <1>2, <1>3, <1>4, FlagReadInv DEF ToggleRead

\* The command's enable or disable.
LEMMA EnableReadInv ==
    ASSUME IInv, NEW i \in Ids, NEW enabled \in BOOLEAN, EnableRead(i, enabled)
    PROVE  IInv'
<1>1. Cli \in Actors
  BY DEF Actors
<1>2. PICK op \in Flags : op = "enable"
  BY DEF Flags
<1> QED
  BY <1>1, <1>2, FlagReadInv DEF EnableRead

-----------------------------------------------------------------------------
(* Steps that write the accounts table *)

\* A commit on row i leaves the overrides alone, and the edits of another
\* row's flag: those of row i's are late.
LEMMA CommitKeeps ==
    ASSUME IInv, NEW a \in Actors, NEW i \in Ids, actor[a].pc # "memory",
           actor' = CommittedOn(a, i), UNCHANGED overrideVars,
           \A j \in Ids \ {i} : account'[j] = account[j]
    PROVE  /\ ActorInv' /\ OverrideInv'
           /\ \A b \in Actors :
                actor'[b].op \in Flags /\ ~actor'[b].late
                  /\ account'[actor'[b].target] # NoRow
                => actor'[b].read = account'[actor'[b].target].enabled
<1>1. /\ ActorInv' /\ actor'[a] = Committed(a)
      /\ \A b \in Actors \ {a} :
           /\ actor'[b].op = actor[b].op /\ actor'[b].target = actor[b].target
           /\ actor[b].op \in Flags /\ actor[b].target = i => actor'[b].late
           /\ actor[b].op \notin Flags \/ actor[b].target # i
                => actor'[b] = actor[b]
  BY CommitStep DEF IInv
<1>2. Committed(a).op = "none"
  BY CommittedFits
<1>3. OverrideInv'
  <2>1. \A r \in Requests :
             \/ actor'[r] = actor[r]
             \/ /\ actor'[r].op # "provider"
                /\ ~(actor[r].op = "provider" /\ actor[r].pc = "memory")
    BY <1>1, <1>2 DEF Actors, Flags
  <2> QED
    BY <2>1, OverrideFrame DEF IInv
<1>4. ASSUME NEW b \in Actors, actor'[b].op \in Flags, ~actor'[b].late,
             account'[actor'[b].target] # NoRow
      PROVE  actor'[b].read = account'[actor'[b].target].enabled
  <2>1. b # a
    BY <1>1, <1>2, <1>4 DEF Flags
  <2>2. actor'[b] = actor[b] /\ actor[b].target # i
    BY <1>1, <1>4, <2>1
  <2>3. actor[b].target \in Ids
    BY <1>4, <2>2 DEF IInv, ActorInv, Fits
  <2>4. account'[actor[b].target] = account[actor[b].target]
    BY <2>2, <2>3
  <2> QED
    BY <1>4, <2>2, <2>4 DEF IInv, FlagInv, Exists
<1> QED
  BY <1>1, <1>3, <1>4

\* A password is set on row i: an upgrade of that row under way is overtaken.
LEMMA PasswordSet ==
    ASSUME IInv, NEW i \in Ids, overtaken' = SetDuringUpgrade(i), touch' = touch,
           \A j \in Ids \ {i} : account'[j] = account[j] /\ meant'[j] = meant[j],
           account'[i].password = meant'[i].password
    PROVE  PasswordInv'
<1>1. /\ overtaken' \subseteq Ids
      /\ \A j \in Ids \ {i} : j \in overtaken' <=> j \in overtaken
      /\ touch.pc # "idle" /\ touch.id = i => i \in overtaken'
  BY DEF SetDuringUpgrade, IInv, PasswordInv
<1>2. PasswordKept'
  BY <1>1 DEF IInv, PasswordInv, PasswordKept, Exists
<1>3. ASSUME touch.pc # "idle", account'[touch.id] # NoRow, touch.id \notin overtaken'
      PROVE  touch.password = account'[touch.id].password
  BY <1>1, <1>3 DEF IInv, PasswordInv, Exists
<1> QED
  BY <1>1, <1>2, <1>3 DEF IInv, PasswordInv, Exists

\* create_account: the name is new, and so is every ghost's view of the row.
LEMMA CreateWriteInv ==
    ASSUME IInv, NEW a \in Actors, CreateWrite(a)
    PROVE  IInv'
<1>1. /\ actor[a] \in ActorType /\ actor[a].pc = "write" /\ actor[a].op = "create"
      /\ actor[a].target \in Users /\ actor[a].value \in Passwords
  BY DEF CreateWrite, Writing, IInv, ActorInv, Fits
<1> DEFINE row == [user |-> actor[a].target, password |-> actor[a].value,
                   dated |-> FALSE, enabled |-> TRUE]
<1>2. row \in Row /\ row.user = actor[a].target
  BY <1>1 DEF Row
<1>3. /\ Named(row.user) = {}
      /\ \E i \in Ids :
             /\ account' = [account EXCEPT ![i] = row]
             /\ meant' = [meant EXCEPT ![i] = row]
             /\ overtaken' = SetDuringUpgrade(i)
             /\ crossed' = crossed \ {i}
             /\ actor' = CommittedOn(a, i)
      /\ UNCHANGED <<overrideVars, cache, loop, touch, edits, faults>>
  BY DEF CreateWrite
<1> HIDE DEF row
<1>4. PICK i \in Ids :
             /\ account' = [account EXCEPT ![i] = row]
             /\ meant' = [meant EXCEPT ![i] = row]
             /\ overtaken' = SetDuringUpgrade(i)
             /\ crossed' = crossed \ {i}
             /\ actor' = CommittedOn(a, i)
  BY <1>3
<1>5. row # NoRow /\ row \in Meaning
  <2>1. PICK r \in Row \cup {NoRow} : r = row
    BY <1>2
  <2> QED
    BY <1>1, <1>2, <2>1, RowKinds
<1>6. /\ account' \in [Ids -> Row \cup {NoRow}]
      /\ meant' \in [Ids -> Meaning]
      /\ account'[i] = row /\ meant'[i] = row
      /\ \A j \in Ids \ {i} : account'[j] = account[j] /\ meant'[j] = meant[j]
  BY <1>2, <1>4, <1>5 DEF IInv, TableInv
<1>7. TableInv'
  <2>1. \A j \in Ids : account[j].user # row.user
    BY <1>3 DEF Named
  <2>2. ASSUME NEW j \in Ids, NEW k \in Ids, account'[j] # NoRow,
               account'[j].user = account'[k].user
        PROVE  j = k
    BY <1>6, <2>1, <2>2 DEF IInv, TableInv, Exists
  <2> QED
    BY <1>6, <2>2 DEF TableInv, Exists
<1>8. /\ ActorInv' /\ OverrideInv'
      /\ \A b \in Actors :
           actor'[b].op \in Flags /\ ~actor'[b].late
             /\ account'[actor'[b].target] # NoRow
           => actor'[b].read = account'[actor'[b].target].enabled
  BY <1>1, <1>3, <1>4, <1>6, CommitKeeps
<1>9. FlagInv'
  <2>1. EnabledKept'
    BY <1>4, <1>6 DEF IInv, FlagInv, EnabledKept, Exists
  <2> QED
    BY <1>8, <2>1 DEF FlagInv, Exists
<1>10. PasswordInv'
  BY <1>3, <1>4, <1>6, PasswordSet
<1>11. CopyInv' /\ ScalarInv'
  BY <1>3, <1>4 DEF IInv, CopyInv, ScalarInv, overrideVars
<1> QED
  BY <1>7, <1>8, <1>9, <1>10, <1>11 DEF IInv

\* A new password: nothing else about the row that decides a login changes.
LEMMA PasswordWriteInv ==
    ASSUME IInv, NEW a \in Actors, PasswordWrite(a)
    PROVE  IInv'
<1>1. /\ actor[a] \in ActorType /\ actor[a].pc = "write" /\ actor[a].op = "password"
      /\ actor[a].target \in Ids /\ actor[a].value \in Passwords
  BY DEF PasswordWrite, Writing, IInv, ActorInv, Fits
<1>2. PICK i \in Ids : i = actor[a].target
  BY <1>1
<1>3. PICK pw \in Passwords : pw = actor[a].value
  BY <1>1
<1>4. PICK no \in BOOLEAN : no = FALSE
  OBVIOUS
<1>5. /\ account[i] # NoRow
      /\ account' = [account EXCEPT ![i].password = pw, ![i].dated = no]
      /\ meant' = [meant EXCEPT ![i].password = pw]
      /\ overtaken' = SetDuringUpgrade(i)
      /\ actor' = [actor EXCEPT ![a] = Committed(a)]
      /\ UNCHANGED <<overrideVars, crossed, cache, loop, touch, edits, faults>>
  BY <1>2, <1>3, <1>4 DEF PasswordWrite, Exists
<1>6. account[i] \in Row
  BY <1>5, RowKinds DEF IInv, TableInv
<1>7. /\ account' \in [Ids -> Row \cup {NoRow}]
      /\ account'[i] \in Row
      /\ account'[i].user = account[i].user /\ account'[i].password = pw
      /\ account'[i].enabled = account[i].enabled
      /\ \A j \in Ids \ {i} : account'[j] = account[j]
  <2> DEFINE row == [account[i] EXCEPT !.password = pw, !.dated = no]
  <2>1. account' = [account EXCEPT ![i] = row]
    BY <1>5 DEF IInv, TableInv
  <2>2. /\ row \in Row /\ row.user = account[i].user /\ row.password = pw
        /\ row.enabled = account[i].enabled
    BY <1>6 DEF Row
  <2> HIDE DEF row
  <2> QED
    BY <2>1, <2>2 DEF IInv, TableInv
<1>8. /\ meant' \in [Ids -> Meaning]
      /\ meant'[i].password = pw /\ meant'[i].enabled = meant[i].enabled
      /\ \A j \in Ids \ {i} : meant'[j] = meant[j]
  <2> DEFINE row == [meant[i] EXCEPT !.password = pw]
  <2>1. meant' = [meant EXCEPT ![i] = row]
    BY <1>5 DEF IInv, TableInv
  <2>2. row \in Meaning /\ row.password = pw /\ row.enabled = meant[i].enabled
    BY DEF Meaning, IInv, TableInv
  <2> HIDE DEF row
  <2> QED
    BY <2>1, <2>2 DEF IInv, TableInv
<1>9. \A j \in Ids : /\ account'[j].user = account[j].user
                     /\ account'[j] # NoRow => account[j] # NoRow
                     /\ account'[j].enabled = account[j].enabled
                     /\ meant'[j].enabled = meant[j].enabled
  BY <1>5, <1>7, <1>8
<1>10. TableInv'
  BY <1>7, <1>8, <1>9 DEF IInv, TableInv, Exists
<1>11. /\ Committed(a) \in ActorType /\ Fits(Committed(a))
       /\ Committed(a).op = "none"
  BY CommittedFits
<1>12. /\ ActorInv' /\ actor'[a] = Committed(a)
       /\ \A b \in Actors : b # a => actor'[b] = actor[b]
  BY <1>5, <1>11, ActorStep DEF IInv
<1>13. OverrideInv'
  <2>1. \A r \in Requests :
             \/ actor'[r] = actor[r]
             \/ /\ actor'[r].op # "provider"
                /\ ~(actor[r].op = "provider" /\ actor[r].pc = "memory")
    BY <1>1, <1>11, <1>12 DEF Actors
  <2> QED
    BY <1>5, <2>1, OverrideFrame DEF IInv
<1>14. FlagInv'
  <2>1. EnabledKept'
    <3>1. crossed' = crossed
      BY <1>5
    <3> QED
      BY <1>9, <3>1, Zenon DEF IInv, FlagInv, EnabledKept, Exists
  <2>2. ASSUME NEW b \in Actors, actor'[b].op \in Flags, ~actor'[b].late,
               account'[actor'[b].target] # NoRow
        PROVE  actor'[b].read = account'[actor'[b].target].enabled
    <3>1. actor'[b] = actor[b]
      BY <1>11, <1>12, <2>2 DEF Flags
    <3>2. PICK j \in Ids : j = actor[b].target
      BY <2>2, <3>1 DEF IInv, ActorInv, Fits
    <3>3. account[j] # NoRow /\ account'[j].enabled = account[j].enabled
      BY <1>9, <2>2, <3>1, <3>2
    <3> QED
      BY <2>2, <3>1, <3>2, <3>3, Zenon DEF IInv, FlagInv, Exists
  <2> QED
    BY <2>1, <2>2 DEF FlagInv, Exists
<1>15. PasswordInv'
  BY <1>5, <1>7, <1>8, PasswordSet
<1>16. CopyInv' /\ ScalarInv'
  BY <1>5 DEF IInv, CopyInv, ScalarInv, overrideVars
<1> QED
  BY <1>10, <1>12, <1>13, <1>14, <1>15, <1>16 DEF IInv

\* The flag is written: an edit that is not late still has the flag as it is,
\* so what it writes is what it would make of the flag in one piece.
LEMMA EnabledWriteInv ==
    ASSUME IInv, NEW a \in Actors, EnabledWrite(a)
    PROVE  IInv'
<1>1. actor[a] \in ActorType /\ Fits(actor[a])
  BY DEF IInv, ActorInv
<1>2. actor[a].pc = "write" /\ actor[a].op \in Flags
  BY DEF EnabledWrite, Writing, Flags
<1>3. PICK i \in Ids : i = actor[a].target
  BY <1>1, <1>2 DEF Fits
<1>4. PICK value \in BOOLEAN : value = actor[a].value
  BY <1>1, <1>2 DEF Fits
<1>5. PICK read \in BOOLEAN : read = actor[a].read
  BY <1>1, <1>2 DEF Fits
<1>6. account[i] \in Row /\ account[i] # NoRow
  BY <1>3, RowKinds DEF EnabledWrite, Exists, IInv, TableInv
<1>7. PICK new \in BOOLEAN : new = Meant(a, meant[i].enabled)
  <2>1. meant[i].enabled \in BOOLEAN
    BY DEF IInv, TableInv, Meaning
  <2>2. CASE actor[a].op = "toggle"
    BY <2>1, <2>2 DEF Meant
  <2>3. CASE actor[a].op # "toggle"
    BY <1>4, <2>3 DEF Meant
  <2> QED
    BY <2>2, <2>3
<1>8. /\ account' = IF read # value THEN [account EXCEPT ![i].enabled = value]
                    ELSE account
      /\ meant' = [meant EXCEPT ![i].enabled = new]
      /\ crossed' = IF actor[a].late THEN crossed \cup {i} ELSE crossed
      /\ actor' = CommittedOn(a, i)
      /\ UNCHANGED <<overrideVars, overtaken, cache, loop, touch, edits, faults>>
  BY <1>3, <1>4, <1>5, <1>7 DEF EnabledWrite
<1>9. /\ account' \in [Ids -> Row \cup {NoRow}]
      /\ account'[i] \in Row
      /\ account'[i].user = account[i].user
      /\ account'[i].password = account[i].password
      /\ read = account[i].enabled => account'[i].enabled = value
      /\ \A j \in Ids \ {i} : account'[j] = account[j]
  <2> DEFINE row == [account[i] EXCEPT !.enabled = value]
  <2>1. account' = IF read # value THEN [account EXCEPT ![i] = row] ELSE account
    BY <1>8 DEF IInv, TableInv
  <2>2. /\ row \in Row /\ row.user = account[i].user
        /\ row.password = account[i].password /\ row.enabled = value
    BY <1>6 DEF Row
  <2> HIDE DEF row
  <2> QED
    BY <1>6, <2>1, <2>2 DEF IInv, TableInv
<1>10. /\ meant' \in [Ids -> Meaning]
       /\ meant'[i].enabled = new /\ meant'[i].password = meant[i].password
       /\ \A j \in Ids \ {i} : meant'[j] = meant[j]
  <2> DEFINE row == [meant[i] EXCEPT !.enabled = new]
  <2>1. meant' = [meant EXCEPT ![i] = row]
    BY <1>8 DEF IInv, TableInv
  <2>2. /\ row \in Meaning /\ row.enabled = new
        /\ row.password = meant[i].password
    BY DEF Meaning, IInv, TableInv
  <2> HIDE DEF row
  <2> QED
    BY <2>1, <2>2 DEF IInv, TableInv
<1>11. /\ ActorInv' /\ OverrideInv'
       /\ \A b \in Actors :
            actor'[b].op \in Flags /\ ~actor'[b].late
              /\ account'[actor'[b].target] # NoRow
            => actor'[b].read = account'[actor'[b].target].enabled
  BY <1>2, <1>8, <1>9, CommitKeeps
<1>12. \A j \in Ids : /\ account'[j].user = account[j].user
                      /\ account'[j].password = account[j].password
                      /\ meant'[j].password = meant[j].password
                      /\ account'[j] # NoRow => account[j] # NoRow
  BY <1>6, <1>9, <1>10
<1>13. TableInv'
  BY <1>9, <1>10, <1>12 DEF IInv, TableInv, Exists
<1>14. EnabledKept'
  <2>1. ASSUME i \notin crossed'
        PROVE  account'[i].enabled = meant'[i].enabled
    <3>1. ~actor[a].late /\ i \notin crossed
      BY <1>8, <2>1
    <3>2. read = account[i].enabled
      BY <1>2, <1>3, <1>5, <1>6, <3>1 DEF IInv, FlagInv, Exists
    <3>3. account[i].enabled = meant[i].enabled
      BY <1>6, <3>1 DEF IInv, FlagInv, EnabledKept, Exists
    <3>4. CASE actor[a].op = "toggle"
      <4>1. value # read
        BY <1>1, <1>4, <1>5, <3>4, Zenon DEF Fits
      <4>2. PICK old \in BOOLEAN : old = meant[i].enabled
        BY <3>2, <3>3
      <4>3. new = ~old
        BY <1>7, <3>4, <4>2 DEF Meant
      <4>4. read = old
        BY <3>2, <3>3, <4>2
      <4>5. new = value
        BY <4>1, <4>3, <4>4
      <4> QED
        BY <1>9, <1>10, <3>2, <4>5
    <3>5. CASE actor[a].op # "toggle"
      <4>1. new = value
        BY <1>4, <1>7, <3>5 DEF Meant
      <4> QED
        BY <1>9, <1>10, <3>2, <4>1
    <3> QED
      BY <3>4, <3>5
  <2>2. ASSUME NEW j \in Ids, j # i, account'[j] # NoRow, j \notin crossed'
        PROVE  account'[j].enabled = meant'[j].enabled
    <3>1. account'[j] = account[j] /\ meant'[j] = meant[j]
      BY <1>9, <1>10, <2>2
    <3>2. j \notin crossed
      BY <1>8, <2>2
    <3> QED
      BY <2>2, <3>1, <3>2 DEF IInv, FlagInv, EnabledKept, Exists
  <2> QED
    BY <2>1, <2>2 DEF EnabledKept, Exists
<1>15. FlagInv'
  BY <1>11, <1>14 DEF FlagInv, Exists
<1>16. PasswordInv'
  <2>1. overtaken' = overtaken /\ touch' = touch
    BY <1>8
  <2>2. PasswordKept'
    BY <1>12, <2>1 DEF IInv, PasswordInv, PasswordKept, Exists
  <2> QED
    BY <1>12, <2>1, <2>2 DEF IInv, PasswordInv, Exists
<1>17. CopyInv' /\ ScalarInv'
  BY <1>8 DEF IInv, CopyInv, ScalarInv, overrideVars
<1> QED
  BY <1>11, <1>13, <1>15, <1>16, <1>17 DEF IInv

\* delete_account.
LEMMA DeleteInv ==
    ASSUME IInv, NEW r \in Requests, NEW i \in Ids, Delete(r, i)
    PROVE  IInv'
<1>1. /\ r \in Actors /\ actor[r].pc = "idle" /\ edits < MaxEdits
      /\ edits' = edits + 1
      /\ account' = [account EXCEPT ![i] = NoRow]
      /\ meant' = [meant EXCEPT ![i] = NoRow]
      /\ actor' = CommittedOn(r, i)
      /\ UNCHANGED <<overrideVars, crossed, overtaken, cache, loop, touch, faults>>
  BY DEF Delete, MayStart, Actors
<1>2. NoRow \in Meaning /\ NoRow.user = Nobody
  <2>1. PICK r0 \in Row \cup {NoRow} : r0 = NoRow
    OBVIOUS
  <2> QED
    BY <2>1, RowKinds
<1>3. /\ account' \in [Ids -> Row \cup {NoRow}]
      /\ meant' \in [Ids -> Meaning]
      /\ account'[i] = NoRow
      /\ \A j \in Ids \ {i} : account'[j] = account[j] /\ meant'[j] = meant[j]
  BY <1>1, <1>2 DEF IInv, TableInv
<1>4. TableInv'
  <2>1. ASSUME NEW j \in Ids, NEW k \in Ids, account'[j] # NoRow,
               account'[j].user = account'[k].user
        PROVE  j = k
    <3>1. j # i /\ account'[j] = account[j]
      BY <1>3, <2>1
    <3>2. account[j].user \in Users
      BY <2>1, <3>1, RowKinds DEF IInv, TableInv
    <3>3. k # i
      BY <1>2, <1>3, <2>1, <3>1, <3>2, DashboardAssumption
    <3> QED
      BY <1>3, <2>1, <3>1, <3>3 DEF IInv, TableInv, Exists
  <2> QED
    BY <1>3, <2>1 DEF TableInv, Exists
<1>5. /\ ActorInv' /\ OverrideInv'
      /\ \A b \in Actors :
           actor'[b].op \in Flags /\ ~actor'[b].late
             /\ account'[actor'[b].target] # NoRow
           => actor'[b].read = account'[actor'[b].target].enabled
  BY <1>1, <1>3, CommitKeeps
<1>6. FlagInv'
  <2>1. EnabledKept'
    BY <1>1, <1>3 DEF IInv, FlagInv, EnabledKept, Exists
  <2> QED
    BY <1>5, <2>1 DEF FlagInv, Exists
<1>7. PasswordInv'
  BY <1>1, <1>3 DEF IInv, PasswordInv, PasswordKept, Exists
<1>8. edits' \in 0..MaxEdits
  BY <1>1, DashboardAssumption DEF IInv, ScalarInv
<1>9. CopyInv' /\ ScalarInv'
  BY <1>1, <1>8 DEF IInv, CopyInv, ScalarInv, overrideVars
<1> QED
  BY <1>4, <1>5, <1>6, <1>7, <1>9 DEF IInv

\* An upgrade of a hash writes back the password that is there, unless it is
\* overtaken.
LEMMA TouchWriteInv ==
    ASSUME IInv, TouchWrite
    PROVE  IInv'
<1>1. /\ touch.pc = "write" /\ touch.id \in Ids /\ touch.password \in Passwords
      /\ touch' = IdleTouch
      /\ UNCHANGED <<overrideVars, meant, crossed, overtaken, cache, actor, loop,
                     edits, faults>>
  BY DEF TouchWrite, IInv, PasswordInv
<1>2. PICK i \in Ids : i = touch.id
  BY <1>1
<1>3. PICK pw \in Passwords : pw = touch.password
  BY <1>1
<1>4. PICK no \in BOOLEAN : no = FALSE
  OBVIOUS
<1>5. account' = IF account[i] # NoRow
                 THEN [account EXCEPT ![i].password = pw, ![i].dated = no]
                 ELSE account
  BY <1>2, <1>3, <1>4 DEF TouchWrite, Exists
<1>6. /\ account' \in [Ids -> Row \cup {NoRow}]
      /\ account[i] # NoRow => account'[i].password = pw
      /\ account'[i].user = account[i].user
      /\ account'[i].enabled = account[i].enabled
      /\ account'[i] # NoRow => account[i] # NoRow
      /\ \A j \in Ids \ {i} : account'[j] = account[j]
  <2>1. CASE account[i] # NoRow
    <3> DEFINE row == [account[i] EXCEPT !.password = pw, !.dated = no]
    <3>1. account' = [account EXCEPT ![i] = row]
      BY <1>5, <2>1 DEF IInv, TableInv
    <3>2. account[i] \in Row
      BY <2>1, RowKinds DEF IInv, TableInv
    <3>3. /\ row \in Row /\ row.user = account[i].user /\ row.password = pw
          /\ row.enabled = account[i].enabled
      BY <3>2 DEF Row
    <3> HIDE DEF row
    <3> QED
      BY <2>1, <3>1, <3>3 DEF IInv, TableInv
  <2>2. CASE account[i] = NoRow
    BY <1>5, <2>2 DEF IInv, TableInv
  <2> QED
    BY <2>1, <2>2
<1>7. \A j \in Ids : /\ account'[j].user = account[j].user
                     /\ account'[j] # NoRow => account[j] # NoRow
                     /\ account'[j].enabled = account[j].enabled
  BY <1>6
<1>8. TableInv'
  BY <1>1, <1>6, <1>7 DEF IInv, TableInv, Exists
<1>9. ActorInv'
  BY <1>1 DEF IInv, ActorInv
<1>10. OverrideInv'
  BY <1>1, OverrideFrame DEF IInv
<1>11. FlagInv'
  <2>1. EnabledKept'
    <3>1. crossed' = crossed /\ meant' = meant
      BY <1>1
    <3> QED
      BY <1>7, <3>1, Zenon DEF IInv, FlagInv, EnabledKept, Exists
  <2>2. ASSUME NEW b \in Actors, actor[b].op \in Flags, ~actor[b].late,
               account'[actor[b].target] # NoRow
        PROVE  actor[b].read = account'[actor[b].target].enabled
    <3>1. PICK j \in Ids : j = actor[b].target
      BY <2>2 DEF IInv, ActorInv, Fits
    <3>2. account[j] # NoRow /\ account'[j].enabled = account[j].enabled
      BY <1>7, <2>2, <3>1
    <3> QED
      BY <2>2, <3>1, <3>2, Zenon DEF IInv, FlagInv, Exists
  <2> QED
    BY <1>1, <2>1, <2>2 DEF FlagInv, Exists
<1>12. PasswordInv'
  <2>1. ASSUME account[i] # NoRow, i \notin overtaken
        PROVE  pw = account[i].password
    BY <1>1, <1>2, <1>3, <2>1 DEF IInv, PasswordInv, Exists
  <2>2. PasswordKept'
    BY <1>1, <1>6, <2>1 DEF IInv, PasswordInv, PasswordKept, Exists
  <2>3. /\ IdleTouch \in [pc : {"idle", "read", "write"}, id : 0..MaxId,
                          password : Passwords \cup {Nobody}]
        /\ IdleTouch.pc = "idle"
    BY DashboardAssumption DEF IdleTouch
  <2> QED
    BY <1>1, <2>2, <2>3 DEF IInv, PasswordInv
<1>13. CopyInv' /\ ScalarInv'
  BY <1>1 DEF IInv, CopyInv, ScalarInv, overrideVars
<1> QED
  BY <1>8, <1>9, <1>10, <1>11, <1>12, <1>13 DEF IInv

-----------------------------------------------------------------------------
(* The refresh loop, logins, faults and restarts *)

\* A step that leaves both tables and all actors alone.
LEMMA AsideFrame ==
    ASSUME IInv, UNCHANGED <<overrideVars, account, meant, crossed, actor>>
    PROVE  ActorInv' /\ TableInv' /\ OverrideInv' /\ FlagInv'
<1>1. ActorInv'
  BY DEF IInv, ActorInv
<1>2. OverrideInv'
  BY OverrideFrame DEF IInv
<1>3. FlagInv'
  BY FlagFrame DEF IInv
<1> QED
  BY <1>1, <1>2, <1>3, TableFrame DEF IInv

\* The refresh loop reads, replaces the copy, or fails and goes on.
LEMMA LoopInv ==
    ASSUME IInv, Loop \/ LoopFails
    PROVE  IInv'
<1>1. /\ UNCHANGED <<overrideVars, accountVars, actor, touch, edits>>
      /\ faults' \in 0..MaxFaults
  BY DashboardAssumption DEF Loop, LoopRead, LoopApply, LoopFails, IInv, ScalarInv
<1>2. SleepingLoop \in [pc : {"sleep", "apply"}, view : Views]
  BY NoViewTyped DEF SleepingLoop
<1>3. View \in Views
  BY ViewTyped DEF IInv
<1>4. CopyInv'
  <2>1. CASE LoopRead
    BY <1>3, <2>1 DEF LoopRead, IInv, CopyInv
  <2>2. CASE LoopApply
    BY <1>2, <2>2 DEF LoopApply, IInv, CopyInv
  <2>3. CASE LoopFails
    BY <1>2, <2>3 DEF LoopFails, AfterLoopFault, IInv, CopyInv
  <2> QED
    BY <2>1, <2>2, <2>3 DEF Loop
<1>5. ActorInv' /\ TableInv' /\ OverrideInv' /\ FlagInv'
  BY <1>1, AsideFrame DEF accountVars
<1>6. PasswordInv'
  BY <1>1, PasswordFrame DEF IInv, accountVars
<1> QED
  BY <1>1, <1>4, <1>5, <1>6 DEF IInv, ScalarInv, overrideVars, accountVars

\* A login schedules an upgrade with the password it has checked; one that
\* the table has left behind is overtaken.
LEMMA LoginInv ==
    ASSUME IInv, NEW u \in Users, Login(u)
    PROVE  IInv'
<1>1. cache[u] \in [id : 0..MaxId, row : Row \cup {NoRow}]
  BY DEF IInv, CopyInv, Views
<1>2. PICK id \in 0..MaxId : id = cache[u].id
  BY <1>1
<1>3. PICK row \in Row \cup {NoRow} : row = cache[u].row
  BY <1>1
<1>4. /\ id # 0 /\ row.dated
      /\ touch' = [pc |-> "read", id |-> id, password |-> row.password]
      /\ overtaken' = IF account[id].password # row.password
                      THEN overtaken \cup {id} ELSE overtaken
      /\ UNCHANGED <<overrideVars, account, meant, crossed, cache, actor, loop,
                     edits, faults>>
  BY <1>2, <1>3 DEF Login, NeedsRehash
<1>5. id \in Ids
  BY <1>4, DashboardAssumption DEF Ids
<1>6. row \in Row
  BY <1>4, RowKinds
<1>7. row.password \in Passwords
  BY <1>6 DEF Row
<1>8. /\ touch' \in [pc : {"idle", "read", "write"}, id : 0..MaxId,
                     password : Passwords \cup {Nobody}]
      /\ touch'.id = id /\ touch'.password = row.password
  BY <1>4, <1>7
<1>9. PasswordInv'
  <2>1. /\ overtaken \subseteq overtaken' /\ overtaken' \subseteq Ids
        /\ account[id].password # row.password => id \in overtaken'
    BY <1>4, <1>5 DEF IInv, PasswordInv
  <2>2. PasswordKept'
    BY <1>4, <2>1 DEF IInv, PasswordInv, PasswordKept, Exists
  <2> QED
    BY <1>4, <1>5, <1>7, <1>8, <2>1, <2>2 DEF PasswordInv, Exists
<1>10. ActorInv' /\ TableInv' /\ OverrideInv' /\ FlagInv'
  BY <1>4, AsideFrame
<1> QED
  BY <1>4, <1>9, <1>10 DEF IInv, CopyInv, ScalarInv, overrideVars

\* The upgrade reads its row, or fails.
LEMMA TouchInv ==
    ASSUME IInv, TouchRead \/ TouchFails
    PROVE  IInv'
<1>1. /\ UNCHANGED <<overrideVars, accountVars, cache, actor, loop, edits>>
      /\ faults' \in 0..MaxFaults
      /\ \/ touch' = IdleTouch
         \/ touch.pc = "read" /\ touch' = [touch EXCEPT !.pc = "write"]
  BY DashboardAssumption DEF TouchRead, TouchFails, IInv, ScalarInv
<1>2. PasswordInv'
  <2>1. PasswordKept'
    BY <1>1 DEF IInv, PasswordInv, PasswordKept, Exists, accountVars
  <2>2. CASE touch' = IdleTouch
    <3>1. /\ IdleTouch \in [pc : {"idle", "read", "write"}, id : 0..MaxId,
                            password : Passwords \cup {Nobody}]
          /\ IdleTouch.pc = "idle"
      BY DashboardAssumption DEF IdleTouch
    <3> QED
      BY <1>1, <2>1, <2>2, <3>1 DEF IInv, PasswordInv, accountVars
  <2>3. CASE touch.pc = "read" /\ touch' = [touch EXCEPT !.pc = "write"]
    <3>1. /\ touch' \in [pc : {"idle", "read", "write"}, id : 0..MaxId,
                         password : Passwords \cup {Nobody}]
          /\ touch'.id = touch.id /\ touch'.password = touch.password
      BY <2>3 DEF IInv, PasswordInv
    <3> QED
      BY <1>1, <2>1, <2>3, <3>1 DEF IInv, PasswordInv, accountVars, Exists
  <2> QED
    BY <1>1, <2>2, <2>3
<1>3. ActorInv' /\ TableInv' /\ OverrideInv' /\ FlagInv'
  BY <1>1, AsideFrame DEF accountVars
<1> QED
  BY <1>1, <1>2, <1>3 DEF IInv, CopyInv, ScalarInv, overrideVars, accountVars

\* Application.start: both copies are loaded, and no request survives.
LEMMA RestartInv ==
    ASSUME IInv, Restart
    PROVE  IInv'
<1>1. /\ faults' \in 0..MaxFaults
      /\ override' = overrideRow /\ raced' = {} /\ cache' = View
      /\ actor' = [a \in Actors |-> IF a = Cli THEN actor[a] ELSE IdleActor]
      /\ loop' = SleepingLoop /\ touch' = IdleTouch
      /\ UNCHANGED <<overrideRow, accountVars, edits>>
  BY DashboardAssumption DEF Restart, IInv, ScalarInv
<1>2. /\ actor'[Cli] = actor[Cli]
      /\ \A a \in Actors \ {Cli} : actor'[a] = IdleActor
      /\ actor' \in [Actors -> ActorType]
  BY <1>1, IdleFits DEF Actors, IInv, ActorInv
<1>3. ActorInv'
  <2>1. \A a \in Actors : Fits(actor'[a])
    <3> TAKE a \in Actors
    <3>1. CASE a = Cli
      BY <1>2, <3>1 DEF IInv, ActorInv
    <3>2. CASE a # Cli
      BY <1>2, <3>2, IdleFits
    <3> QED
      BY <3>1, <3>2
  <2> QED
    BY <1>2, <2>1 DEF ActorInv
<1>4. TableInv'
  BY <1>1, TableFrame DEF IInv, accountVars
<1>5. CopyInv'
  BY <1>1, ViewTyped, NoViewTyped DEF CopyInv, IInv, SleepingLoop
<1>6. ScalarInv'
  BY <1>1 DEF IInv, ScalarInv, accountVars
<1>7. OverrideInv'
  <2>1. \A p \in Providers : Toggling(p)' = {}
    BY <1>2, IdleFits, DashboardAssumption DEF Toggling, Actors
  <2> QED
    BY <1>1, <2>1 DEF OverrideInv
<1>8. FlagInv'
  <2>1. \A a \in Actors : actor'[a] = actor[a] \/ actor'[a].op \notin Flags
    BY <1>2, IdleFits DEF Flags
  <2> QED
    BY <1>1, <2>1, FlagFrame DEF IInv, accountVars
<1>9. PasswordInv'
  <2>1. /\ IdleTouch \in [pc : {"idle", "read", "write"}, id : 0..MaxId,
                          password : Passwords \cup {Nobody}]
        /\ IdleTouch.pc = "idle"
    BY DashboardAssumption DEF IdleTouch
  <2> QED
    BY <1>1, <2>1 DEF IInv, PasswordInv, PasswordKept, Exists, accountVars
<1> QED
  BY <1>3, <1>4, <1>5, <1>6, <1>7, <1>8, <1>9 DEF IInv

-----------------------------------------------------------------------------
(* The invariant holds *)

\* It holds when the process has started.
LEMMA InitInv == Init => IInv
<1> SUFFICES ASSUME Init PROVE IInv
  OBVIOUS
<1>1. PICK u \in Users : u = CHOOSE v \in Users : TRUE
  BY DashboardAssumption
<1>2. PICK pw \in Passwords : pw = CHOOSE v \in Passwords : TRUE
  BY DashboardAssumption
<1>3. PICK yes \in BOOLEAN : yes = TRUE
  OBVIOUS
<1> DEFINE row == [user |-> u, password |-> pw, dated |-> yes, enabled |-> yes]
<1>4. /\ account = [i \in Ids |-> IF i = 1 THEN row ELSE NoRow]
      /\ meant = account /\ cache = View
      /\ overrideRow = [p \in Providers |-> "absent"] /\ override = overrideRow
      /\ actor = [a \in Actors |-> IdleActor]
      /\ loop = SleepingLoop /\ touch = IdleTouch
      /\ edits = 0 /\ faults = 0 /\ raced = {} /\ crossed = {} /\ overtaken = {}
  BY <1>1, <1>2, <1>3 DEF Init
<1>5. row \in Row
  BY DEF Row
<1> HIDE DEF row
<1>6. row \in Meaning /\ NoRow \in Meaning /\ row.user \in Users /\ NoRow.user = Nobody
  <2>1. PICK r \in Row \cup {NoRow} : r = row
    BY <1>5
  <2>2. PICK s \in Row \cup {NoRow} : s = NoRow
    OBVIOUS
  <2> QED
    BY <1>5, <2>1, <2>2, RowKinds DEF Row
<1>7. TableInv
  <2>1. \A i, j \in Ids : Exists(i) /\ account[i].user = account[j].user => i = j
    BY <1>4, <1>6, DashboardAssumption DEF Exists
  <2> QED
    BY <1>4, <1>5, <1>6, <2>1 DEF TableInv
<1>8. ActorInv
  <2>1. actor \in [Actors -> ActorType]
    BY <1>4, IdleFits
  <2>2. \A a \in Actors : actor[a] = IdleActor
    BY <1>4
  <2> QED
    BY <2>1, <2>2, IdleFits DEF ActorInv
<1>9. CopyInv
  BY <1>4, <1>7, ViewTyped, NoViewTyped DEF CopyInv, SleepingLoop
<1>10. ScalarInv
  BY <1>4, DashboardAssumption DEF ScalarInv, Toggles
<1>11. \A a \in Actors : actor[a].op = "none"
  BY <1>4, IdleFits
<1>12. OverrideInv
  <2>1. \A p \in Providers : Toggling(p) = {}
    BY <1>11 DEF Toggling, Actors
  <2> QED
    BY <1>4, <2>1 DEF OverrideInv
<1>13. FlagInv
  BY <1>4, <1>11 DEF FlagInv, EnabledKept, Flags
<1>14. PasswordInv
  <2>1. /\ IdleTouch \in [pc : {"idle", "read", "write"}, id : 0..MaxId,
                          password : Passwords \cup {Nobody}]
        /\ IdleTouch.pc = "idle"
    BY DashboardAssumption DEF IdleTouch
  <2> QED
    BY <1>4, <2>1 DEF PasswordInv, PasswordKept
<1> QED
  BY <1>7, <1>8, <1>9, <1>10, <1>12, <1>13, <1>14 DEF IInv

\* Every step keeps the invariant.
LEMMA NextInv == IInv /\ [Next]_vars => IInv'
<1> SUFFICES ASSUME IInv, [Next]_vars PROVE IInv'
  OBVIOUS
<1> Requests \subseteq Actors
  BY DEF Actors
<1>1. ASSUME NEW a \in Actors, EditAccount(a) PROVE IInv'
  BY <1>1, CreateReadInv, PasswordReadInv, CreateWriteInv, PasswordWriteInv,
     EnabledWriteInv, ConflictInv DEF EditAccount
<1>2. ASSUME NEW r \in Requests, RequestOnly(r) PROVE IInv'
  BY <1>2, SetEnabledReadInv, ConflictInv, SetEnabledWriteInv, SetEnabledMemoryInv,
     ToggleReadInv, DeleteInv, RefreshReadInv, RefreshApplyInv
     DEF RequestOnly, ToggleProvider
<1>3. CASE UNCHANGED vars
  BY <1>3, AsideFrame, PasswordFrame
     DEF vars, accountVars, overrideVars, IInv, CopyInv, ScalarInv
<1> QED
  BY <1>1, <1>2, <1>3, EnableReadInv, LoopInv, LoginInv, TouchInv, TouchWriteInv,
     RestartInv DEF Next

\* So it holds throughout.
LEMMA Invariance == Spec => []IInv
BY InitInv, NextInv, PTL DEF Spec

-----------------------------------------------------------------------------
(* What follows *)

\* Type correctness; a name never has two rows, whoever creates accounts at the
\* same time (create_account's check, the unique key, the admin command).
THEOREM DashboardTyped == Spec => []TypeOK
<1>1. IInv => TypeOK
  <2> SUFFICES ASSUME IInv PROVE TypeOK
    OBVIOUS
  <2>1. ASSUME NEW u \in Users
        PROVE  Cardinality(Named(u)) <= 1
    <3>1. \A i, j \in Named(u) : i = j
      <4> TAKE i, j \in Named(u)
      <4>1. i \in Ids /\ j \in Ids /\ account[i].user = u /\ account[j].user = u
        BY DEF Named
      <4>2. Exists(i)
        BY <4>1, RowKinds DEF IInv, TableInv, Exists
      <4> QED
        BY <4>1, <4>2 DEF IInv, TableInv
    <3>2. CASE Named(u) = {}
      BY <3>2, FS_EmptySet
    <3>3. CASE Named(u) # {}
      <4>1. PICK i : i \in Named(u)
        BY <3>3
      <4>2. Named(u) = {i}
        BY <3>1, <4>1
      <4> QED
        BY <4>2, FS_Singleton
    <3> QED
      BY <3>2, <3>3
  <2>2. \A a \in Actors :
         /\ actor[a].pc \in {"idle", "write", "memory", "refresh", "apply"}
         /\ actor[a].op \in {"none", "provider", "create", "password", "toggle",
                             "enable", "delete"}
         /\ actor[a].view \in Views
    BY DEF IInv, ActorInv, ActorType, Pcs, Ops
  <2> QED
    BY <2>1, <2>2 DEF IInv, TypeOK, TableInv, CopyInv, ScalarInv, PasswordInv
<1> QED
  BY <1>1, Invariance, PTL

\* set_enabled: with no toggle under way, the override in use is the one a
\* restart would load, unless toggles of that provider overlapped.
THEOREM OverridesFollow == Spec => []OverridesFollowTable
<1>1. IInv => OverridesFollowTable
  BY DEF IInv, OverrideInv, OverridesFollowTable
<1> QED
  BY <1>1, Invariance, PTL

\* _touch_account and the password edits: an account keeps the password that
\* was last set for it, unless a hash upgrade overlapped the edit.
THEOREM PasswordsKept == Spec => []PasswordKept
<1>1. IInv => PasswordKept
  BY DEF IInv, PasswordInv
<1> QED
  BY <1>1, Invariance, PTL

\* toggle_account and the command's enable: an account is enabled as its edits,
\* one after the other, leave it, unless one was written from a stale read.
THEOREM FlagsKept == Spec => []EnabledKept
<1>1. IInv => EnabledKept
  BY DEF IInv, FlagInv
<1> QED
  BY <1>1, Invariance, PTL
=============================================================================
