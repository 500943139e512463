---------------------------- MODULE SwitchProofs ----------------------------
(***************************************************************************)
(* What the failover loop, the limiters and the breakers do together, for  *)
(* any number of workers and providers, any order of preference, quotas    *)
(* and breaker settings.                                                   *)
(*                                                                         *)
(* Every step is one worker's, up to the roles a report ends, or leaves    *)
(* all workers idle.  So what each worker knows is proved from the record  *)
(* it is left with, and what the counters say from the one place where a   *)
(* worker enters or leaves the sets they count.                            *)
(***************************************************************************)
EXTENDS Switch, FiniteSetTheorems, WellFoundedInduction, TLAPS

-----------------------------------------------------------------------------
(* The order of preference *)

\* Of providers to choose from, First is one and the best: the providers that
\* are better than a given one are ever fewer.
LEMMA FirstIsBest ==
    ASSUME NEW S \in SUBSET Providers, S # {}
    PROVE  First(S) \in S /\ \A q \in S : Rank[First(S)] <= Rank[q]
<1> DEFINE Better(p) == {q \in S : Rank[q] < Rank[p]}
<1>1. Rank \in [Providers -> Nat] /\ IsFiniteSet(S)
  BY SwitchAssumption, FS_Subset
<1>2. {Better(q) : q \in S} \subseteq SUBSET S /\ {Better(q) : q \in S} # {}
  OBVIOUS
<1>3. PICK best \in {Better(q) : q \in S} :
        \A s \in {Better(q) : q \in S} : ~(<<s, best>> \in StrictSubsetOrdering(S))
  <2>1. IsWellFoundedOn(StrictSubsetOrdering(S), SUBSET S)
    BY <1>1, FS_StrictSubsetOrderingWellFounded, FS_FiniteSubsetsOfFinite
  <2> DEFINE T == {Better(q) : q \in S}
  <2>2. T \subseteq SUBSET S /\ T # {}
    BY <1>2
  <2> HIDE DEF T
  <2>3. \E best \in T : \A s \in T : ~(<<s, best>> \in StrictSubsetOrdering(S))
    BY <2>1, <2>2, WFMin
  <2> QED
    BY <2>3 DEF T
<1>4. PICK p \in S : best = Better(p)
  BY <1>3
<1>5. ASSUME NEW q \in S, Rank[q] < Rank[p] PROVE FALSE
  <2>1. Better(q) \subseteq Better(p) /\ q \in Better(p) /\ q \notin Better(q)
    BY <1>1, <1>5
  <2>2. <<Better(q), best>> \in StrictSubsetOrdering(S)
    BY <1>4, <2>1 DEF StrictSubsetOrdering
  <2> QED
    BY <1>3, <2>2
<1>6. \A q \in S : Rank[p] <= Rank[q]
  BY <1>1, <1>5
<1> QED
  BY <1>6 DEF First

-----------------------------------------------------------------------------
(* What each worker knows *)

\* A worker that is not done is at a provider, which counts as tried once it
\* has relayed; a probe or a late one relays or has relayed; only an attempt
\* that never reached the provider is cut.
Placed(wk) ==
    /\ wk.at \in Providers <=> wk.pc \notin {"idle", "unplaced"}
    /\ wk.at \in Providers =>
         (wk.at \in wk.tried <=> wk.pc \in {"settle", "report", "recording"})
    /\ wk.role # "traffic" => wk.pc \in {"relaying", "settle", "report"}
    /\ wk.cut => wk.pc = "settle" /\ Unreached(wk.result)

\* Every provider select was offered lies ahead, is the one it is at, has been
\* tried, or was seen blocked.
Passed(wk) ==
    /\ wk.pc \in {"reserving", "gate", "giveback", "claiming", "relaying"} =>
         /\ wk.at \in wk.offered
         /\ wk.left \subseteq wk.offered
         /\ \A q \in wk.left : Rank[q] > Rank[wk.at]
         /\ wk.offered \subseteq wk.left \cup {wk.at} \cup wk.tried \cup wk.seen
         /\ wk.pc = "giveback" => wk.at \in wk.seen
    /\ wk.pc = "unplaced" => wk.offered \subseteq wk.tried \cup wk.seen

Sound(wk) == wk \in WorkerType /\ Placed(wk) /\ Passed(wk)

\* An idle worker is.
LEMMA IdleSound == Sound(IdleWorker) /\ IdleWorker.pc = "idle" /\ ~IdleWorker.cut
  BY SwitchAssumption DEF Sound, IdleWorker, WorkerType, Placed, Passed, Holding

\* The next provider select comes to, or none: nothing is skipped but what has
\* been tried or is blocked now.
LEMMA AdvanceSound ==
    ASSUME NEW wk \in WorkerType, ~wk.cut, wk.role = "traffic", wk.left \subseteq wk.offered,
           wk.offered \subseteq wk.left \cup wk.tried \cup wk.seen \cup Blocked
    PROVE  /\ Sound(Advance(wk)) /\ Advance(wk).pc \in {"reserving", "unplaced"}
           /\ Advance(wk).tried = wk.tried /\ ~Advance(wk).cut
           /\ Advance(wk).role = wk.role /\ Advance(wk).result = wk.result
           /\ Advance(wk).pc = "reserving" => Advance(wk).at \in Candidates(wk)
<1> DEFINE next == Candidates(wk)
           best == First(next)
           seen(left) == wk.seen \cup ((Blocked \cap wk.offered) \ (left \cup wk.tried))
           none == [wk EXCEPT !.pc = "unplaced", !.at = NoProvider, !.left = {}]
           some == [wk EXCEPT !.pc = "reserving", !.at = best, !.left = After(best, @)]
<1>1. /\ wk.left \in SUBSET Providers /\ wk.offered \in SUBSET Providers
      /\ wk.tried \in SUBSET Providers /\ wk.seen \in SUBSET Providers
      /\ next \in SUBSET Providers /\ Blocked \in SUBSET Providers
  BY DEF WorkerType, Candidates, Blocked
<1>2. CASE next = {}
  <2>1. Advance(wk) = [none EXCEPT !.seen = seen({})]
    BY <1>2 DEF Advance, Noted, WorkerType
  <2>2. /\ none \in WorkerType /\ none.pc = "unplaced" /\ none.tried = wk.tried
        /\ none.role = wk.role /\ none.result = wk.result /\ none.cut = wk.cut
        /\ none.offered = wk.offered /\ none.at = NoProvider
    BY DEF WorkerType
  <2> HIDE DEF none
  <2>2a. seen({}) \in SUBSET Providers
    BY <1>1
  <2> HIDE DEF seen
  <2>2b. /\ Advance(wk) \in WorkerType
        /\ Advance(wk).pc = "unplaced" /\ Advance(wk).tried = wk.tried
        /\ Advance(wk).role = wk.role /\ Advance(wk).result = wk.result
        /\ Advance(wk).cut = wk.cut /\ Advance(wk).offered = wk.offered
        /\ Advance(wk).seen = seen({}) /\ Advance(wk).at = NoProvider
    BY <2>1, <2>2, <2>2a DEF WorkerType
  <2> USE DEF seen
  <2>3. wk.offered \subseteq wk.tried \cup seen({})
    <3> SUFFICES ASSUME NEW q \in wk.offered, q \notin wk.tried, q \notin wk.seen
                 PROVE  q \in Blocked
      BY <1>1
    <3>1. CASE q \in wk.left
      BY <1>1, <1>2, <3>1 DEF Candidates, Blocked
    <3> QED
      BY <3>1
  <2> HIDE DEF seen
  <2> QED
    BY <2>2b, <2>3, SwitchAssumption DEF Sound, Placed, Passed, Holding
<1>3. CASE next # {}
  <2> DEFINE left == After(best, wk.left)
  <2>1. best \in next /\ \A q \in next : Rank[best] <= Rank[q]
    BY <1>1, <1>3, FirstIsBest
  <2>2. /\ best \in wk.left /\ best \notin wk.tried /\ best \in Providers
        /\ left \in SUBSET wk.left /\ \A q \in left : Rank[q] > Rank[best]
    BY <1>1, <2>1 DEF Candidates, After
  <2> HIDE DEF best
  <2>3. Advance(wk) = [some EXCEPT !.seen = seen(left)]
    BY <1>3 DEF Advance, Noted, WorkerType, best
  <2>4. left \in SUBSET Providers /\ seen(left) \in SUBSET Providers
    BY <1>1, <2>2
  <2> HIDE DEF left, seen
  <2>4a. /\ some \in WorkerType /\ some.pc = "reserving" /\ some.tried = wk.tried
        /\ some.at = best /\ some.left = left /\ some.role = wk.role
        /\ some.result = wk.result /\ some.cut = wk.cut /\ some.offered = wk.offered
    BY <2>2, <2>4 DEF WorkerType, left
  <2> HIDE DEF some
  <2>4b. /\ Advance(wk) \in WorkerType
        /\ Advance(wk).pc = "reserving" /\ Advance(wk).tried = wk.tried
        /\ Advance(wk).at = best /\ Advance(wk).left = left
        /\ Advance(wk).role = wk.role /\ Advance(wk).result = wk.result
        /\ Advance(wk).cut = wk.cut /\ Advance(wk).offered = wk.offered
        /\ Advance(wk).seen = seen(left)
    BY <2>3, <2>4, <2>4a DEF WorkerType
  <2> USE DEF left, seen
  <2>5. wk.offered \subseteq left \cup {best} \cup wk.tried \cup seen(left)
    <3> SUFFICES ASSUME NEW q \in wk.offered, q \notin left, q # best, q \notin wk.tried,
                        q \notin wk.seen
                 PROVE  q \in Blocked
      BY <1>1
    <3>1. CASE q \in wk.left
      <4>1. ~(Rank[q] > Rank[best])
        BY <1>1, <3>1 DEF After
      <4>2. Rank[q] # Rank[best] /\ Rank[q] \in Nat /\ Rank[best] \in Nat
        BY <1>1, <2>2, SwitchAssumption
      <4>3. q \notin next
        BY <2>1, <4>1, <4>2
      <4> QED
        BY <1>1, <3>1, <4>3 DEF Candidates, Blocked
    <3> QED
      BY <3>1
  <2> HIDE DEF left, seen
  <2>6. Sound(Advance(wk))
    BY <2>2, <2>4b, <2>5 DEF Sound, Placed, Passed, Holding
  <2>7. Advance(wk).at \in Candidates(wk)
    BY <2>1, <2>4b
  <2> QED
    BY <2>4b, <2>6, <2>7
<1> QED
  BY <1>2, <1>3

\* A new turn of the loop starts sound, with what has been tried.
LEMMA TurnSound ==
    ASSUME TypeOK, NEW tried \in SUBSET Providers
    PROVE  /\ Sound(Turn(tried)) /\ ~Turn(tried).cut
           /\ Turn(tried).pc \in {"idle", "reserving", "unplaced"}
           /\ Turn(tried).role = "traffic"
           /\ Turn(tried).pc # "idle" => Turn(tried).tried = tried
           /\ Turn(tried).pc = "reserving" =>
                Turn(tried).at \notin tried /\ Breaker(Turn(tried).at)!IsAvailable
<1> DEFINE wk == [IdleWorker EXCEPT !.left = enabled, !.tried = tried, !.offered = enabled]
<1>1. /\ wk \in WorkerType /\ ~wk.cut /\ wk.left = enabled /\ wk.offered = enabled
      /\ wk.tried = tried /\ wk.role = "traffic"
  BY DEF TypeOK, IdleWorker, WorkerType
<1> HIDE DEF wk
<1>2. /\ Sound(Advance(wk)) /\ Advance(wk).pc \in {"reserving", "unplaced"}
      /\ Advance(wk).tried = tried /\ ~Advance(wk).cut /\ Advance(wk).role = "traffic"
  BY <1>1, AdvanceSound
<1>2a. Advance(wk).pc = "reserving" =>
         Advance(wk).at \notin tried /\ Breaker(Advance(wk).at)!IsAvailable
  <2>1. Advance(wk).pc = "reserving" => Advance(wk).at \in Candidates(wk)
    BY <1>1, AdvanceSound
  <2> QED
    BY <1>1, <2>1 DEF Candidates
<1>3. Turn(tried) \in {Advance(wk), IdleWorker}
  BY DEF Turn, wk
<1>4. IdleWorker.role = "traffic"
  BY DEF IdleWorker
<1>5. CASE Turn(tried) = Advance(wk)
  BY <1>2, <1>2a, <1>5
<1>6. CASE Turn(tried) = IdleWorker
  BY <1>4, <1>6, IdleSound
<1> QED
  BY <1>3, <1>5, <1>6

-----------------------------------------------------------------------------
(* What the counters say *)

\* The workers a provider is still ahead of; those whose reservation there
\* nothing yet shows to have been used; those whose attempt there is cut.
Ahead(p) == {w \in Workers : worker[w].pc # "idle" /\ p \notin worker[w].tried}
Unused(p) == {w \in Holders(p) : \/ worker[w].pc # "settle"
                                 \/ Unreached(worker[w].result) /\ ~worker[w].cut}
Cuts(p) == {w \in Workers : worker[w].at = p /\ worker[w].cut}

\* A message is taken at most once by each provider; what was taken and what
\* may still be is charged; a slot is a worker's or was lost to a fault.
Balanced(p) ==
    /\ ledger[p].taken + Cardinality(Ahead(p)) <= events
    /\ Cardinality(Cuts(p)) <= ledger[p].taken
    /\ ledger[p].taken + Cardinality(Unused(p)) <= spent[p]
    /\ inflight[p] = Cardinality(Holders(p)) + ledger[p].leaked
    /\ ledger[p].leaked <= ledger[p].faults

IInv == /\ TypeOK
        /\ \A w \in Workers : Sound(worker[w])
        /\ \A p \in Providers : Balanced(p)

\* What a worker adds to each of the four.
One(b) == IF b THEN 1 ELSE 0
AheadOf(wk, p) == One(wk.pc # "idle" /\ p \notin wk.tried)
HoldsAt(wk, p) == One(wk.at = p /\ wk.pc \in Holding)
UnusedAt(wk, p) == One(/\ wk.at = p /\ wk.pc \in Holding
                       /\ wk.pc # "settle" \/ (Unreached(wk.result) /\ ~wk.cut))
CutAt(wk, p) == One(wk.at = p /\ wk.cut)

\* The step of one worker: a report may end the others' rounds as well.
Moves(w) ==
    /\ worker' \in [Workers -> WorkerType]
    /\ \A v \in Workers \ {w} :
         \/ worker'[v] = worker[v]
         \/ worker[v].role = "probe" /\ worker'[v] = [worker[v] EXCEPT !.role = "late"]

\* Two sets that differ at most in one worker.
LEMMA OneApart ==
    ASSUME NEW S \in SUBSET Workers, NEW T \in SUBSET Workers, NEW w \in Workers,
           \A v \in Workers \ {w} : v \in S <=> v \in T
    PROVE  /\ Cardinality(S) \in Nat /\ Cardinality(T) \in Nat
           /\ Cardinality(T) = Cardinality(S) - One(w \in S) + One(w \in T)
           /\ Cardinality(S) >= One(w \in S)
<1>1. IsFiniteSet(S) /\ IsFiniteSet(T) /\ IsFiniteSet(S \ {w})
  BY SwitchAssumption, FS_Subset
<1>2. S \ {w} = T \ {w}
  OBVIOUS
<1>3. ASSUME NEW U \in SUBSET Workers, IsFiniteSet(U)
      PROVE  /\ Cardinality(U) \in Nat /\ Cardinality(U \ {w}) \in Nat
             /\ Cardinality(U) = Cardinality(U \ {w}) + One(w \in U)
  <2>1. Cardinality(U) \in Nat /\ Cardinality(U \ {w}) \in Nat
    BY <1>3, FS_CardinalityType, FS_Subset
  <2>2. Cardinality(U \ {w}) = IF w \in U THEN Cardinality(U) - 1 ELSE Cardinality(U)
    BY <1>3, FS_RemoveElement
  <2> QED
    BY <2>1, <2>2 DEF One
<1> QED
  BY <1>1, <1>2, <1>3 DEF One

\* A step of one worker moves each of the four counts by that worker.
LEMMA CountsMove ==
    ASSUME TypeOK, NEW w \in Workers, NEW p \in Providers, Moves(w)
    PROVE  /\ /\ Cardinality(Ahead(p)) \in Nat
              /\ Cardinality(Ahead(p))' = Cardinality(Ahead(p))
                   - AheadOf(worker[w], p) + AheadOf(worker'[w], p)
              /\ Cardinality(Ahead(p)) >= AheadOf(worker[w], p)
           /\ /\ Cardinality(Holders(p)) \in Nat
              /\ Cardinality(Holders(p))' = Cardinality(Holders(p))
                   - HoldsAt(worker[w], p) + HoldsAt(worker'[w], p)
              /\ Cardinality(Holders(p)) >= HoldsAt(worker[w], p)
           /\ /\ Cardinality(Unused(p)) \in Nat
              /\ Cardinality(Unused(p))' = Cardinality(Unused(p))
                   - UnusedAt(worker[w], p) + UnusedAt(worker'[w], p)
              /\ Cardinality(Unused(p)) >= UnusedAt(worker[w], p)
           /\ /\ Cardinality(Cuts(p)) \in Nat
              /\ Cardinality(Cuts(p))' = Cardinality(Cuts(p))
                   - CutAt(worker[w], p) + CutAt(worker'[w], p)
              /\ Cardinality(Cuts(p)) >= CutAt(worker[w], p)
<1>1. ASSUME NEW v \in Workers \ {w}
      PROVE  /\ worker'[v].pc = worker[v].pc /\ worker'[v].at = worker[v].at
             /\ worker'[v].tried = worker[v].tried
             /\ worker'[v].result = worker[v].result /\ worker'[v].cut = worker[v].cut
  BY DEF Moves, TypeOK, WorkerType
<1>2. /\ Ahead(p) \in SUBSET Workers /\ Ahead(p)' \in SUBSET Workers
      /\ \A v \in Workers \ {w} : v \in Ahead(p) <=> v \in Ahead(p)'
      /\ w \in Ahead(p) <=> worker[w].pc # "idle" /\ p \notin worker[w].tried
      /\ w \in Ahead(p)' <=> worker'[w].pc # "idle" /\ p \notin worker'[w].tried
  BY <1>1 DEF Ahead
<1>3. /\ Holders(p) \in SUBSET Workers /\ Holders(p)' \in SUBSET Workers
      /\ \A v \in Workers \ {w} : v \in Holders(p) <=> v \in Holders(p)'
      /\ w \in Holders(p) <=> worker[w].at = p /\ worker[w].pc \in Holding
      /\ w \in Holders(p)' <=> worker'[w].at = p /\ worker'[w].pc \in Holding
  BY <1>1 DEF Holders
<1>4. /\ Unused(p) \in SUBSET Workers /\ Unused(p)' \in SUBSET Workers
      /\ \A v \in Workers \ {w} : v \in Unused(p) <=> v \in Unused(p)'
      /\ w \in Unused(p) <=>
           /\ worker[w].at = p /\ worker[w].pc \in Holding
           /\ worker[w].pc # "settle" \/ (Unreached(worker[w].result) /\ ~worker[w].cut)
      /\ w \in Unused(p)' <=>
           /\ worker'[w].at = p /\ worker'[w].pc \in Holding
           /\ worker'[w].pc # "settle" \/ (Unreached(worker'[w].result) /\ ~worker'[w].cut)
  BY <1>1 DEF Unused, Holders, Unreached
<1>5. /\ Cuts(p) \in SUBSET Workers /\ Cuts(p)' \in SUBSET Workers
      /\ \A v \in Workers \ {w} : v \in Cuts(p) <=> v \in Cuts(p)'
      /\ w \in Cuts(p) <=> worker[w].at = p /\ worker[w].cut
      /\ w \in Cuts(p)' <=> worker'[w].at = p /\ worker'[w].cut
  BY <1>1 DEF Cuts
<1>6. /\ Cardinality(Ahead(p)) \in Nat
      /\ Cardinality(Ahead(p)') = Cardinality(Ahead(p))
           - One(w \in Ahead(p)) + One(w \in Ahead(p)')
      /\ Cardinality(Ahead(p)) >= One(w \in Ahead(p))
  BY <1>2, OneApart
<1>7. /\ Cardinality(Holders(p)) \in Nat
      /\ Cardinality(Holders(p)') = Cardinality(Holders(p))
           - One(w \in Holders(p)) + One(w \in Holders(p)')
      /\ Cardinality(Holders(p)) >= One(w \in Holders(p))
  BY <1>3, OneApart
<1>8. /\ Cardinality(Unused(p)) \in Nat
      /\ Cardinality(Unused(p)') = Cardinality(Unused(p))
           - One(w \in Unused(p)) + One(w \in Unused(p)')
      /\ Cardinality(Unused(p)) >= One(w \in Unused(p))
  BY <1>4, OneApart
<1>9. /\ Cardinality(Cuts(p)) \in Nat
      /\ Cardinality(Cuts(p)') = Cardinality(Cuts(p))
           - One(w \in Cuts(p)) + One(w \in Cuts(p)')
      /\ Cardinality(Cuts(p)) >= One(w \in Cuts(p))
  BY <1>5, OneApart
<1>10. /\ One(w \in Ahead(p)) = AheadOf(worker[w], p)
       /\ One(w \in Ahead(p)') = AheadOf(worker'[w], p)
  BY <1>2 DEF One, AheadOf
<1>11. /\ One(w \in Holders(p)) = HoldsAt(worker[w], p)
       /\ One(w \in Holders(p)') = HoldsAt(worker'[w], p)
  BY <1>3 DEF One, HoldsAt
<1>12. /\ One(w \in Unused(p)) = UnusedAt(worker[w], p)
       /\ One(w \in Unused(p)') = UnusedAt(worker'[w], p)
  BY <1>4 DEF One, UnusedAt
<1>13. /\ One(w \in Cuts(p)) = CutAt(worker[w], p)
       /\ One(w \in Cuts(p)') = CutAt(worker'[w], p)
  BY <1>5 DEF One, CutAt
<1>14. /\ /\ Cardinality(Ahead(p)) \in Nat
          /\ Cardinality(Ahead(p)') = Cardinality(Ahead(p))
               - AheadOf(worker[w], p) + AheadOf(worker'[w], p)
          /\ Cardinality(Ahead(p)) >= AheadOf(worker[w], p)
       /\ /\ Cardinality(Holders(p)) \in Nat
          /\ Cardinality(Holders(p)') = Cardinality(Holders(p))
               - HoldsAt(worker[w], p) + HoldsAt(worker'[w], p)
          /\ Cardinality(Holders(p)) >= HoldsAt(worker[w], p)
  BY <1>6, <1>7, <1>10, <1>11
<1>15. /\ /\ Cardinality(Unused(p)) \in Nat
          /\ Cardinality(Unused(p)') = Cardinality(Unused(p))
               - UnusedAt(worker[w], p) + UnusedAt(worker'[w], p)
          /\ Cardinality(Unused(p)) >= UnusedAt(worker[w], p)
       /\ /\ Cardinality(Cuts(p)) \in Nat
          /\ Cardinality(Cuts(p)') = Cardinality(Cuts(p))
               - CutAt(worker[w], p) + CutAt(worker'[w], p)
          /\ Cardinality(Cuts(p)) >= CutAt(worker[w], p)
  BY <1>8, <1>9, <1>12, <1>13
<1> QED
  BY <1>14, <1>15

\* What a step must do to a provider's counters for the change in the worker.
Pays(w, p) ==
    LET was == worker[w]
        is == worker'[w]
    IN  /\ ledger'[p].taken - ledger[p].taken + AheadOf(is, p) - AheadOf(was, p)
             <= events' - events
        /\ CutAt(is, p) - CutAt(was, p) <= ledger'[p].taken - ledger[p].taken
        /\ ledger'[p].taken - ledger[p].taken + UnusedAt(is, p) - UnusedAt(was, p)
             <= spent'[p] - spent[p]
        /\ inflight'[p] - inflight[p] = HoldsAt(is, p) - HoldsAt(was, p)
             + ledger'[p].leaked - ledger[p].leaked
        /\ ledger'[p].leaked - ledger[p].leaked <= ledger'[p].faults - ledger[p].faults

\* What a step may do to a provider's limiter: nothing; a worker takes a slot
\* that is free, or ends its reservation, kept, given back or lost.
Charged(w, p) ==
    LET was == HoldsAt(worker[w], p)
        is == HoldsAt(worker'[w], p)
    IN  \/ is = was /\ spent'[p] = spent[p] /\ ledger'[p].leaked = ledger[p].leaked
        \/ /\ was = 0 /\ is = 1 /\ HasRoom(p) /\ spent'[p] = spent[p] + 1
           /\ ledger'[p].leaked = ledger[p].leaked
        \/ /\ was = 1 /\ is = 0 /\ spent'[p] \in {spent[p], spent[p] - 1}
           /\ ledger'[p].leaked = ledger[p].leaked
        \/ /\ was = 1 /\ is = 0 /\ spent'[p] = spent[p]
           /\ ledger'[p].leaked = ledger[p].leaked + 1
Charges(w) == Moves(w) /\ \A p \in Providers : Charged(w, p)

\* The ledgers but for the bound on what was taken.
Ledgers == [Providers -> [taken : Int, leaked : Nat, lost : Nat, stale : BOOLEAN,
                          faults : 0..MaxFaults]]

\* The marks are zero or one.
LEMMA MarksAreBits ==
    ASSUME NEW wk, NEW p
    PROVE  /\ AheadOf(wk, p) \in {0, 1} /\ HoldsAt(wk, p) \in {0, 1}
           /\ UnusedAt(wk, p) \in {0, 1} /\ CutAt(wk, p) \in {0, 1}
  BY DEF AheadOf, HoldsAt, UnusedAt, CutAt, One

\* A step of one worker that pays keeps the balance.
LEMMA PaidBalance ==
    ASSUME TypeOK, NEW w \in Workers, NEW p \in Providers, Balanced(p), Moves(w),
           Pays(w, p), ledger' \in Ledgers, events' \in Nat,
           spent' \in [Providers -> Nat], inflight' \in [Providers -> Nat]
    PROVE  Balanced(p)'
<1> DEFINE ahead == Cardinality(Ahead(p))
           cuts == Cardinality(Cuts(p))
           unused == Cardinality(Unused(p))
           holders == Cardinality(Holders(p))
<1>1. /\ ledger[p].taken \in Int /\ ledger[p].leaked \in Int /\ ledger[p].faults \in Int
      /\ ledger'[p].taken \in Int /\ ledger'[p].leaked \in Int /\ ledger'[p].faults \in Int
      /\ spent[p] \in Int /\ spent'[p] \in Int /\ inflight[p] \in Int
      /\ inflight'[p] \in Int /\ events \in Int /\ events' \in Int
  BY DEF TypeOK, LedgerType, Ledgers
<1>2. /\ ahead \in Int /\ cuts \in Int /\ unused \in Int /\ holders \in Int
      /\ ahead' = ahead - AheadOf(worker[w], p) + AheadOf(worker'[w], p)
      /\ cuts' = cuts - CutAt(worker[w], p) + CutAt(worker'[w], p)
      /\ unused' = unused - UnusedAt(worker[w], p) + UnusedAt(worker'[w], p)
      /\ holders' = holders - HoldsAt(worker[w], p) + HoldsAt(worker'[w], p)
  BY CountsMove
<1>3. /\ ledger[p].taken + ahead <= events /\ cuts <= ledger[p].taken
      /\ ledger[p].taken + unused <= spent[p] /\ inflight[p] = holders + ledger[p].leaked
      /\ ledger[p].leaked <= ledger[p].faults
  BY DEF Balanced
<1> HIDE DEF ahead, cuts, unused, holders
<1>4. /\ ledger'[p].taken + ahead' <= events' /\ cuts' <= ledger'[p].taken
      /\ ledger'[p].taken + unused' <= spent'[p]
      /\ inflight'[p] = holders' + ledger'[p].leaked
      /\ ledger'[p].leaked <= ledger'[p].faults
  BY <1>1, <1>2, <1>3, MarksAreBits DEF Pays
<1> QED
  BY <1>4 DEF Balanced, ahead, cuts, unused, holders

\* A provider's balance bounds what it took.
LEMMA BalanceTypes ==
    ASSUME ledger' \in Ledgers, events' \in 0..MaxEvents,
           \A p \in Providers : Balanced(p)'
    PROVE  ledger' \in [Providers -> LedgerType]
<1>1. ASSUME NEW p \in Providers PROVE ledger'[p].taken \in 0..MaxEvents
  <2>1. IsFiniteSet(Ahead(p)') /\ IsFiniteSet(Cuts(p)')
    BY SwitchAssumption, FS_Subset DEF Ahead, Cuts
  <2>2. Cardinality(Ahead(p)') \in Nat /\ Cardinality(Cuts(p)') \in Nat
    BY <2>1, FS_CardinalityType
  <2>3. /\ ledger'[p].taken + Cardinality(Ahead(p)') <= events'
        /\ Cardinality(Cuts(p)') <= ledger'[p].taken
    BY DEF Balanced
  <2>4. ledger'[p].taken \in Int
    BY DEF Ledgers
  <2> QED
    BY <2>2, <2>3, <2>4, SwitchAssumption
<1> QED
  BY <1>1 DEF Ledgers, LedgerType

\* A worker whose round has ended knows what it knew.
LEMMA LateSound ==
    ASSUME NEW wk \in WorkerType, Sound(wk), wk.role = "probe"
    PROVE  Sound([wk EXCEPT !.role = "late"])
  BY DEF Sound, Placed, Passed, WorkerType

\* What is left to show of a step of one worker.
LEMMA StepKeeps ==
    ASSUME IInv, NEW w \in Workers, Moves(w), Sound(worker'[w]),
           enabled' \in SUBSET Providers,
           breaker' \in [Providers -> BreakerStates],
           row' \in [Providers -> BreakerStates],
           events' \in 0..MaxEvents, dbFaults' \in 0..MaxFaults, ledger' \in Ledgers,
           spent' \in [Providers -> Nat], inflight' \in [Providers -> Nat],
           \A p \in Providers : Pays(w, p)
    PROVE  IInv'
<1>1. events' \in Nat
  BY SwitchAssumption
<1>2. \A p \in Providers : Balanced(p)'
  BY <1>1, PaidBalance DEF IInv
<1>3. ledger' \in [Providers -> LedgerType]
  BY <1>2, BalanceTypes
<1>4. TypeOK'
  BY <1>3 DEF TypeOK, Moves
<1>5. ASSUME NEW v \in Workers PROVE Sound(worker'[v])
  <2>1. Sound(worker[v]) /\ worker[v] \in WorkerType
    BY DEF IInv, TypeOK
  <2>2. CASE v = w
    BY <2>2
  <2>3. CASE v # w
    BY <2>1, <2>3, LateSound DEF Moves
  <2> QED
    BY <2>2, <2>3
<1>6. (\A v \in Workers : Sound(worker[v]))'
  BY <1>5 DEF Sound, Placed, Passed, Unreached
<1> QED
  BY <1>2, <1>4, <1>6 DEF IInv

-----------------------------------------------------------------------------
(* Steps that leave the counters alone *)

\* Every breaker has the same states; its operations stay among them.
LEMMA BreakerSteps ==
    ASSUME TypeOK, NEW p \in Providers
    PROVE  /\ BreakerStates = Breaker(p)!State /\ breaker[p] \in BreakerStates
           /\ Breaker(p)!FreshState \in BreakerStates
           /\ Breaker(p)!AfterSuccess \in BreakerStates
           /\ Breaker(p)!AfterFailure \in BreakerStates
           /\ Breaker(p)!SlotFree => [breaker[p] EXCEPT !.probes = @ + 1] \in BreakerStates
           /\ \A st \in BreakerStates : Breaker(p)!Aged(st) \in BreakerStates
<1> DEFINE S == [healthy : BOOLEAN, failures : 0..Threshold,
                 openAge : {-1} \cup (0..Cooldown), probes : 0..MaxProbes]
<1>1. BreakerStates = S /\ Breaker(p)!State = S
  <2>1. \A q \in Providers : Breaker(q)!State = S
    BY DEF Breaker!State, Breaker!NotOpened
  <2> QED
    BY <2>1 DEF BreakerStates
<1>2. breaker[p] \in S
  BY <1>1 DEF TypeOK
<1> USE SwitchAssumption
<1>3. Breaker(p)!FreshState \in S
  BY DEF Breaker!FreshState, Breaker!NotOpened
<1>4. Breaker(p)!AfterSuccess \in S
  BY <1>3 DEF Breaker!AfterSuccess
<1>5. Breaker(p)!AfterFailure \in S
  <2>1. \A st \in S : Breaker(p)!Opened(st) \in S
    <3>1. 0 \in {-1} \cup (0..Cooldown) /\ 0 \in 0..MaxProbes
      OBVIOUS
    <3> QED
      BY <3>1 DEF Breaker!Opened
  <2>2. Breaker(p)!CountFailure(breaker[p]) \in S
    BY <1>2 DEF Breaker!CountFailure
  <2> HIDE DEF S
  <2> QED
    BY <2>1, <2>2 DEF Breaker!AfterFailure
<1>6. Breaker(p)!SlotFree => [breaker[p] EXCEPT !.probes = @ + 1] \in S
  BY <1>2 DEF Breaker!SlotFree
<1>7. \A st \in S : Breaker(p)!Aged(st) \in S
  BY DEF Breaker!Aged
<1> QED
  BY <1>1, <1>2, <1>3, <1>4, <1>5, <1>6, <1>7

\* The ledger of a step that does not touch it is as free as ever.
LEMMA LedgerIs == TypeOK => ledger \in Ledgers
  BY DEF TypeOK, LedgerType, Ledgers

\* One worker's record is replaced.
LEMMA OneMoves ==
    ASSUME TypeOK, NEW w \in Workers, NEW wk \in WorkerType,
           worker' = [worker EXCEPT ![w] = wk]
    PROVE  Moves(w) /\ worker'[w] = wk
  BY DEF TypeOK, Moves

\* Nothing is counted differently of a worker that holds what it held.
LEMMA QuietKeeps ==
    ASSUME IInv, NEW w \in Workers, Moves(w), Sound(worker'[w]),
           enabled' \in SUBSET Providers,
           breaker' \in [Providers -> BreakerStates],
           row' \in [Providers -> BreakerStates],
           events' \in 0..MaxEvents, dbFaults' \in 0..MaxFaults, ledger' \in Ledgers,
           UNCHANGED limiterVars,
           \A p \in Providers :
             /\ ledger'[p].taken = ledger[p].taken
             /\ ledger'[p].leaked = ledger[p].leaked
             /\ ledger'[p].faults >= ledger[p].faults
             /\ AheadOf(worker'[w], p) - AheadOf(worker[w], p) <= events' - events,
           \A p \in Providers :
             /\ HoldsAt(worker'[w], p) = HoldsAt(worker[w], p)
             /\ UnusedAt(worker'[w], p) <= UnusedAt(worker[w], p)
             /\ CutAt(worker'[w], p) <= CutAt(worker[w], p)
    PROVE  IInv' /\ Charges(w)
<1>1. /\ spent' \in [Providers -> Nat] /\ inflight' \in [Providers -> Nat]
      /\ spent' = spent /\ inflight' = inflight
  BY DEF IInv, TypeOK, limiterVars
<1>2. ASSUME NEW p \in Providers PROVE Pays(w, p)
  <2>1. /\ ledger[p].taken \in Int /\ ledger[p].leaked \in Int /\ ledger[p].faults \in Int
        /\ ledger'[p].faults \in Int /\ events \in Int /\ events' \in Int
        /\ spent[p] \in Int /\ inflight[p] \in Int
    BY DEF IInv, TypeOK, LedgerType, Ledgers
  <2> QED
    BY <1>1, <2>1, MarksAreBits DEF Pays
<1>3. Charges(w)
  BY <1>1 DEF Charges, Charged
<1> QED
  BY <1>1, <1>2, <1>3, StepKeeps

\* A worker that waits at a provider: what it holds there.
LEMMA Marks ==
    ASSUME NEW wk \in WorkerType, Sound(wk), NEW p \in Providers
    PROVE  /\ wk.pc \notin Holding => HoldsAt(wk, p) = 0 /\ UnusedAt(wk, p) = 0
           /\ wk.pc \in Holding /\ wk.at = p => HoldsAt(wk, p) = 1
           /\ wk.at # p => HoldsAt(wk, p) = 0 /\ UnusedAt(wk, p) = 0 /\ CutAt(wk, p) = 0
           /\ wk.pc \in Holding \ {"settle"} /\ wk.at = p => UnusedAt(wk, p) = 1
           /\ wk.pc # "settle" => CutAt(wk, p) = 0
           /\ wk.pc = "settle" /\ wk.at = p =>
                /\ UnusedAt(wk, p) = One(Unreached(wk.result) /\ ~wk.cut)
                /\ CutAt(wk, p) = One(wk.cut)
           /\ wk.pc = "idle" => AheadOf(wk, p) = 0
           /\ wk.pc # "idle" => AheadOf(wk, p) = One(p \notin wk.tried)
<1>1. /\ "settle" \in Holding /\ wk.cut \in BOOLEAN /\ (wk.cut => wk.pc = "settle")
      /\ (wk.pc \in Holding => wk.at \in Providers)
  BY DEF Sound, Placed, WorkerType, Holding
<1>2. /\ wk.pc \notin Holding => HoldsAt(wk, p) = 0 /\ UnusedAt(wk, p) = 0
      /\ wk.pc \in Holding /\ wk.at = p => HoldsAt(wk, p) = 1
      /\ wk.at # p => HoldsAt(wk, p) = 0 /\ UnusedAt(wk, p) = 0 /\ CutAt(wk, p) = 0
  BY DEF HoldsAt, UnusedAt, CutAt, One
<1>3. /\ wk.pc \in Holding \ {"settle"} /\ wk.at = p => UnusedAt(wk, p) = 1
      /\ wk.pc = "settle" /\ wk.at = p =>
           UnusedAt(wk, p) = One(Unreached(wk.result) /\ ~wk.cut)
  BY <1>1 DEF UnusedAt, One
<1>4. /\ wk.pc # "settle" => CutAt(wk, p) = 0
      /\ wk.pc = "settle" /\ wk.at = p => CutAt(wk, p) = One(wk.cut)
  BY <1>1 DEF CutAt, One
<1>5. /\ wk.pc = "idle" => AheadOf(wk, p) = 0
      /\ wk.pc # "idle" => AheadOf(wk, p) = One(p \notin wk.tried)
  BY DEF AheadOf, One
<1> QED
  BY <1>2, <1>3, <1>4, <1>5

\* The counters of a step that changes only the worker: it may only move
\* towards its end.
LEMMA MovesOn ==
    ASSUME IInv, NEW w \in Workers, NEW wk \in WorkerType, Sound(wk),
           worker' = [worker EXCEPT ![w] = wk],
           breaker' \in [Providers -> BreakerStates],
           row' \in [Providers -> BreakerStates],
           dbFaults' \in 0..MaxFaults, UNCHANGED <<registryVars, limiterVars>>,
           ledger' \in Ledgers,
           \A p \in Providers :
             /\ ledger'[p].taken = ledger[p].taken
             /\ ledger'[p].leaked = ledger[p].leaked
             /\ ledger'[p].faults >= ledger[p].faults,
           \/ wk.pc = "idle"
           \/ worker[w].pc # "idle" /\ wk.tried = worker[w].tried,
           \/ wk.pc \notin Holding /\ worker[w].pc \notin Holding
           \/ /\ wk.at = worker[w].at /\ wk.pc \in Holding \ {"settle"}
              /\ worker[w].pc \in Holding \ {"settle"}
    PROVE  IInv' /\ Charges(w)
<1>1. Moves(w) /\ worker'[w] = wk /\ Sound(worker[w]) /\ worker[w] \in WorkerType
  BY OneMoves DEF IInv, TypeOK
<1>2. /\ enabled' \in SUBSET Providers /\ events' \in 0..MaxEvents /\ events' = events
      /\ events \in Int
  BY DEF IInv, TypeOK, registryVars
<1>3. "settle" \in Holding
  BY DEF Holding
<1>4. ASSUME NEW p \in Providers
      PROVE  /\ AheadOf(wk, p) <= AheadOf(worker[w], p)
             /\ HoldsAt(wk, p) = HoldsAt(worker[w], p)
             /\ UnusedAt(wk, p) = UnusedAt(worker[w], p)
             /\ CutAt(wk, p) = CutAt(worker[w], p)
  <2>1. AheadOf(wk, p) <= AheadOf(worker[w], p)
    BY <1>1, Marks, MarksAreBits
  <2>2. CutAt(wk, p) = 0 /\ CutAt(worker[w], p) = 0
    BY <1>1, <1>3, Marks
  <2>3. /\ HoldsAt(wk, p) = HoldsAt(worker[w], p)
        /\ UnusedAt(wk, p) = UnusedAt(worker[w], p)
    BY <1>1, Marks
  <2> QED
    BY <2>1, <2>2, <2>3
<1>5. \A p \in Providers :
        /\ AheadOf(worker'[w], p) - AheadOf(worker[w], p) <= events' - events
        /\ HoldsAt(worker'[w], p) = HoldsAt(worker[w], p)
        /\ UnusedAt(worker'[w], p) <= UnusedAt(worker[w], p)
        /\ CutAt(worker'[w], p) <= CutAt(worker[w], p)
  BY <1>1, <1>2, <1>4, MarksAreBits
<1> QED
  BY <1>1, <1>2, <1>5, QuietKeeps

\* The providers a worker may not use are those it was offered, not those it
\* has tried.
LEMMA AdvanceFrom ==
    ASSUME IInv, NEW w \in Workers, worker[w].pc \in {"reserving", "giveback"},
           worker[w].pc = "reserving" => ~HasRoom(worker[w].at)
    PROVE  /\ Sound(Advance(worker[w])) /\ Advance(worker[w]) \in WorkerType
           /\ Advance(worker[w]).pc \in {"reserving", "unplaced"}
           /\ Advance(worker[w]).tried = worker[w].tried
           /\ ~Advance(worker[w]).cut
           /\ Advance(worker[w]).pc = "reserving" =>
                /\ Advance(worker[w]).at # worker[w].at
                /\ Breaker(Advance(worker[w]).at)!IsAvailable
<1>1. Sound(worker[w]) /\ worker[w] \in WorkerType
  BY DEF IInv, TypeOK
<1>2. worker[w].pc = "reserving" => worker[w].at \in Blocked
  BY <1>1 DEF Sound, Placed, Blocked
<1>3. /\ ~worker[w].cut /\ worker[w].role = "traffic"
      /\ worker[w].left \subseteq worker[w].offered
      /\ worker[w].offered \subseteq
           worker[w].left \cup worker[w].tried \cup worker[w].seen \cup Blocked
  BY <1>1, <1>2 DEF Sound, Placed, Passed
<1>4. Advance(worker[w]).pc = "reserving" => Advance(worker[w]).at \in Candidates(worker[w])
  BY <1>1, <1>3, AdvanceSound
<1>5. worker[w].at \notin worker[w].left
  <2>1. \A q \in worker[w].left : Rank[q] > Rank[worker[w].at]
    BY <1>1 DEF Sound, Passed
  <2>2. worker[w].at \in Providers => Rank[worker[w].at] \in Nat
    BY SwitchAssumption
  <2>3. worker[w].at \in Providers
    BY <1>1 DEF Sound, Placed
  <2> QED
    BY <2>1, <2>2, <2>3
<1>6. Advance(worker[w]).pc = "reserving" =>
        /\ Advance(worker[w]).at # worker[w].at
        /\ Breaker(Advance(worker[w]).at)!IsAvailable
  BY <1>4, <1>5 DEF Candidates
<1> QED
  BY <1>1, <1>3, <1>6, AdvanceSound DEF Sound

\* begin_probe's refusal is why the provider was passed over.
LEMMA RefusalSound ==
    ASSUME IInv, NEW w \in Workers, worker[w].pc = "gate",
           ~Breaker(worker[w].at)!IsAvailable
    PROVE  /\ Sound(AfterRefusal(worker[w])) /\ AfterRefusal(worker[w]) \in WorkerType
           /\ AfterRefusal(worker[w]).pc = "giveback"
           /\ AfterRefusal(worker[w]).at = worker[w].at
           /\ AfterRefusal(worker[w]).tried = worker[w].tried
<1> DEFINE wk == worker[w]
           back == [wk EXCEPT !.pc = "giveback"]
           seen == wk.seen \cup ((Blocked \cap wk.offered) \ (wk.left \cup wk.tried))
<1>1. Sound(wk) /\ wk \in WorkerType
  BY DEF IInv, TypeOK
<1>2. /\ wk.at \in Providers /\ wk.at \notin wk.tried /\ wk.at \in wk.offered
      /\ wk.left \subseteq wk.offered /\ \A q \in wk.left : Rank[q] > Rank[wk.at]
      /\ wk.offered \subseteq wk.left \cup {wk.at} \cup wk.tried \cup wk.seen
      /\ ~wk.cut /\ wk.seen \in SUBSET Providers /\ Rank[wk.at] \in Nat
      /\ wk.role = "traffic"
  BY <1>1, SwitchAssumption DEF Sound, Placed, Passed, Holding, WorkerType
<1>3. wk.at \in Blocked /\ wk.at \notin wk.left /\ wk.at \in seen
  BY <1>2 DEF Blocked
<1>4. seen \in SUBSET Providers /\ wk.seen \subseteq seen
  BY <1>2 DEF Blocked
<1>5. AfterRefusal(wk) = [back EXCEPT !.seen = seen]
  BY <1>1 DEF AfterRefusal, Noted, WorkerType
<1> HIDE DEF seen
<1>6. /\ back \in WorkerType /\ back.pc = "giveback" /\ back.at = wk.at
      /\ back.tried = wk.tried /\ back.left = wk.left /\ back.offered = wk.offered
      /\ back.cut = wk.cut /\ back.role = wk.role
  BY <1>1 DEF WorkerType, Holding
<1> HIDE DEF back
<1>7. /\ AfterRefusal(wk) \in WorkerType /\ AfterRefusal(wk).pc = "giveback"
      /\ AfterRefusal(wk).at = wk.at /\ AfterRefusal(wk).tried = wk.tried
      /\ AfterRefusal(wk).left = wk.left /\ AfterRefusal(wk).offered = wk.offered
      /\ AfterRefusal(wk).cut = wk.cut /\ AfterRefusal(wk).seen = seen
      /\ AfterRefusal(wk).role = wk.role
  BY <1>4, <1>5, <1>6 DEF WorkerType
<1> HIDE DEF wk
<1>8. Sound(AfterRefusal(wk))
  BY <1>2, <1>3, <1>4, <1>7 DEF Sound, Placed, Passed, Holding
<1> QED
  BY <1>7, <1>8 DEF wk

\* select, up to where it takes or gives back a reservation.
LEMMA SelectKeeps ==
    ASSUME IInv, NEW w \in Workers,
           \/ Begin(w) \/ ReserveRefused(w) \/ ReserveFails(w)
           \/ GatePasses(w) \/ ClaimProbe(w) \/ ProbeRefused(w)
    PROVE  IInv' /\ Charges(w)
<1>1. /\ Sound(worker[w]) /\ worker[w] \in WorkerType /\ TypeOK /\ ledger \in Ledgers
      /\ breaker \in [Providers -> BreakerStates] /\ row \in [Providers -> BreakerStates]
      /\ dbFaults \in 0..MaxFaults /\ worker \in [Workers -> WorkerType]
      /\ events \in 0..MaxEvents
  BY LedgerIs DEF IInv, TypeOK
<1>2. \A p \in Providers : /\ ledger[p].faults \in 0..MaxFaults
                           /\ ledger[p].faults >= ledger[p].faults
  BY DEF IInv, TypeOK, LedgerType
<1>3. CASE Begin(w)
  <2>1. /\ events' = events + 1 /\ events' \in 0..MaxEvents /\ events \in Int
        /\ worker' = [worker EXCEPT ![w] = Turn({})] /\ worker[w].pc = "idle"
        /\ UNCHANGED <<enabled, breaker, row, limiterVars, dbFaults, ledger>>
        /\ enabled \in SUBSET Providers
    BY <1>1, <1>3, SwitchAssumption DEF Begin, breakerVars, TypeOK
  <2>2. /\ Sound(Turn({})) /\ Turn({}) \in WorkerType
        /\ Turn({}).pc \in {"idle", "reserving", "unplaced"}
    BY <1>1, TurnSound DEF Sound
  <2>3. Moves(w) /\ worker'[w] = Turn({})
    BY <1>1, <2>1, <2>2, OneMoves
  <2> HIDE DEF Turn
  <2>4. worker'[w].pc \notin Holding /\ worker[w].pc \notin Holding
        /\ worker'[w].pc # "settle" /\ worker[w].pc # "settle"
    BY <2>1, <2>2, <2>3 DEF Holding
  <2>5. \A p \in Providers :
          /\ AheadOf(worker'[w], p) - AheadOf(worker[w], p) <= events' - events
          /\ HoldsAt(worker'[w], p) = HoldsAt(worker[w], p)
          /\ UnusedAt(worker'[w], p) <= UnusedAt(worker[w], p)
          /\ CutAt(worker'[w], p) <= CutAt(worker[w], p)
    BY <1>1, <2>1, <2>2, <2>3, <2>4, Marks, MarksAreBits
  <2> QED
    BY <1>1, <1>2, <2>1, <2>2, <2>3, <2>5, QuietKeeps
<1>4. CASE ReserveRefused(w)
  <2>1. /\ worker' = [worker EXCEPT ![w] = Advance(worker[w])]
        /\ worker[w].pc = "reserving" /\ ~HasRoom(worker[w].at)
        /\ UNCHANGED <<registryVars, breaker, row, limiterVars, dbFaults, ledger>>
    BY <1>1, <1>4 DEF ReserveRefused, breakerVars
  <2>2. /\ Sound(Advance(worker[w])) /\ Advance(worker[w]) \in WorkerType
        /\ Advance(worker[w]).pc \in {"reserving", "unplaced"}
        /\ Advance(worker[w]).tried = worker[w].tried
    BY <2>1, AdvanceFrom
  <2>3. Advance(worker[w]).pc \notin Holding /\ worker[w].pc \notin Holding
    BY <2>1, <2>2 DEF Holding
  <2> QED
    BY <1>1, <1>2, <2>1, <2>2, <2>3, MovesOn
<1>5. CASE ReserveFails(w)
  <2>1. /\ worker' = [worker EXCEPT ![w] = IdleWorker]
        /\ worker[w].pc = "reserving" /\ dbFaults' = dbFaults + 1 /\ CanFail
        /\ UNCHANGED <<registryVars, breaker, row, limiterVars, ledger>>
    BY <1>5 DEF ReserveFails, breakerVars
  <2>2. dbFaults' \in 0..MaxFaults
    <3>1. worker[w].at \in Providers
      BY <1>1, <2>1 DEF Sound, Placed
    <3> QED
      BY <1>1, <1>2, <2>1, <3>1, SwitchAssumption DEF CanFail
  <2>3. IdleWorker.pc \notin Holding /\ worker[w].pc \notin Holding
    BY <2>1, IdleSound DEF Holding
  <2> QED
    BY <1>1, <1>2, <2>1, <2>2, <2>3, IdleSound, MovesOn DEF Sound
<1>6. ASSUME NEW s \in {"relaying", "claiming"}, worker[w].pc = "gate",
             worker' = [worker EXCEPT ![w].pc = s],
             breaker' \in [Providers -> BreakerStates],
             UNCHANGED <<registryVars, row, limiterVars, dbFaults, ledger>>
      PROVE  IInv' /\ Charges(w)
  <2> DEFINE wk == [worker[w] EXCEPT !.pc = s]
  <2>1. worker' = [worker EXCEPT ![w] = wk]
    BY <1>1, <1>6
  <2>2. /\ wk \in WorkerType /\ wk.pc = s /\ wk.at = worker[w].at
        /\ wk.tried = worker[w].tried /\ wk.left = worker[w].left
        /\ wk.offered = worker[w].offered /\ wk.seen = worker[w].seen
        /\ wk.cut = worker[w].cut /\ wk.result = worker[w].result
        /\ wk.role = worker[w].role
    BY <1>1 DEF WorkerType, Holding
  <2> HIDE DEF wk
  <2>3. Sound(wk)
    BY <1>1, <1>6, <2>2 DEF Sound, Placed, Passed, Holding
  <2>4. wk.pc \in Holding \ {"settle"} /\ worker[w].pc \in Holding \ {"settle"}
    BY <1>6, <2>2 DEF Holding
  <2> QED
    BY <1>1, <1>2, <1>6, <2>1, <2>2, <2>3, <2>4, MovesOn
<1>7. CASE GatePasses(w)
  BY <1>1, <1>6, <1>7 DEF GatePasses, breakerVars
<1>8. CASE ClaimProbe(w)
  <2>1. PICK p \in Providers : p = worker[w].at
    BY <1>1, <1>8 DEF Sound, Placed, ClaimProbe
  <2>2. /\ breaker' = [breaker EXCEPT ![p].probes = @ + 1] /\ Breaker(p)!SlotFree
        /\ worker[w].pc = "gate" /\ worker' = [worker EXCEPT ![w].pc = "claiming"]
        /\ UNCHANGED <<registryVars, row, limiterVars, dbFaults, ledger>>
    BY <1>8, <2>1 DEF ClaimProbe
  <2>3. [breaker[p] EXCEPT !.probes = @ + 1] \in BreakerStates
    BY <1>1, <2>2, BreakerSteps
  <2>4. breaker' \in [Providers -> BreakerStates]
    BY <1>1, <2>2, <2>3
  <2> QED
    BY <1>6, <2>2, <2>4
<1>9. CASE ProbeRefused(w)
  <2>1. /\ worker' = [worker EXCEPT ![w] = AfterRefusal(worker[w])]
        /\ worker[w].pc = "gate" /\ ~Breaker(worker[w].at)!IsAvailable
        /\ UNCHANGED <<registryVars, breaker, row, limiterVars, dbFaults, ledger>>
    BY <1>1, <1>9 DEF ProbeRefused, breakerVars
  <2>2. /\ Sound(AfterRefusal(worker[w])) /\ AfterRefusal(worker[w]) \in WorkerType
        /\ AfterRefusal(worker[w]).pc = "giveback"
        /\ AfterRefusal(worker[w]).at = worker[w].at
        /\ AfterRefusal(worker[w]).tried = worker[w].tried
    BY <2>1, RefusalSound
  <2>3. /\ AfterRefusal(worker[w]).pc \in Holding \ {"settle"}
        /\ worker[w].pc \in Holding \ {"settle"}
    BY <2>1, <2>2 DEF Holding
  <2> QED
    BY <1>1, <1>2, <2>1, <2>2, <2>3, MovesOn
<1> QED
  BY <1>3, <1>4, <1>5, <1>7, <1>8, <1>9

-----------------------------------------------------------------------------
(* Steps that take, use or settle a reservation *)

\* What a worker holds has been counted, at the provider it is at.
LEMMA HeldIsCounted ==
    ASSUME IInv, NEW w \in Workers, NEW p \in Providers, worker[w].at = p,
           worker[w].pc \in Holding
    PROVE  /\ inflight[p] \in Nat /\ inflight[p] >= 1 /\ spent[p] \in Nat
           /\ ledger[p].taken \in Nat
           /\ worker[w].pc # "settle" \/ Unreached(worker[w].result) => spent[p] >= 1
           /\ worker[w].cut => ledger[p].taken >= 1
<1>1. Sound(worker[w]) /\ worker[w] \in WorkerType /\ TypeOK /\ Balanced(p)
  BY DEF IInv, TypeOK
<1>2. /\ inflight[p] \in Nat /\ spent[p] \in Nat /\ ledger[p].taken \in Nat
      /\ ledger[p].leaked \in Nat
  BY <1>1 DEF TypeOK, LedgerType
<1>3. /\ w \in Holders(p)
      /\ worker[w].pc # "settle" \/ (Unreached(worker[w].result) /\ ~worker[w].cut)
           => w \in Unused(p)
      /\ worker[w].cut => w \in Cuts(p)
  BY DEF Holders, Unused, Cuts
<1>4. ASSUME NEW S \in SUBSET Workers
      PROVE  Cardinality(S) \in Nat /\ (w \in S => Cardinality(S) >= 1)
  BY OneApart DEF One
<1>5. /\ Cardinality(Holders(p)) \in Nat /\ Cardinality(Holders(p)) >= 1
      /\ Cardinality(Unused(p)) \in Nat /\ Cardinality(Cuts(p)) \in Nat
      /\ w \in Unused(p) => Cardinality(Unused(p)) >= 1
      /\ w \in Cuts(p) => Cardinality(Cuts(p)) >= 1
  BY <1>3, <1>4 DEF Holders, Unused, Cuts
<1>6. /\ inflight[p] = Cardinality(Holders(p)) + ledger[p].leaked
      /\ Cardinality(Cuts(p)) <= ledger[p].taken
      /\ ledger[p].taken + Cardinality(Unused(p)) <= spent[p]
  BY <1>1 DEF Balanced
<1>7. inflight[p] >= 1 /\ (worker[w].cut => ledger[p].taken >= 1)
  BY <1>2, <1>3, <1>5, <1>6
<1>8. CASE worker[w].pc # "settle" \/ (Unreached(worker[w].result) /\ ~worker[w].cut)
  BY <1>2, <1>3, <1>5, <1>6, <1>7, <1>8
<1>9. CASE worker[w].cut
  BY <1>2, <1>3, <1>5, <1>6, <1>7, <1>9
<1> QED
  BY <1>2, <1>7, <1>8, <1>9

\* The steps of one worker at one provider: nothing else is counted
\* differently, and at that provider the sums must come out.
LEMMA AtProviderKeeps ==
    ASSUME IInv, NEW w \in Workers, NEW p \in Providers,
           worker[w].at = p, worker[w].pc # "idle",
           NEW wk \in WorkerType, Sound(wk),
           worker' = [worker EXCEPT ![w] = wk],
           wk.pc \in Holding => wk.at = p,
           wk.pc # "idle" => worker[w].tried \subseteq wk.tried,
           UNCHANGED <<registryVars, breakerVars>>, dbFaults' \in 0..MaxFaults,
           ledger' \in Ledgers, spent' \in [Providers -> Nat],
           inflight' \in [Providers -> Nat],
           \A q \in Providers \ {p} :
             ledger'[q] = ledger[q] /\ spent'[q] = spent[q] /\ inflight'[q] = inflight[q],
           Pays(w, p), Charged(w, p)
    PROVE  IInv' /\ Charges(w)
<1>1. Moves(w) /\ worker'[w] = wk /\ Sound(worker[w]) /\ worker[w] \in WorkerType
  BY OneMoves DEF IInv, TypeOK
<1>2. /\ enabled' \in SUBSET Providers /\ events' \in 0..MaxEvents /\ events' = events
      /\ breaker' \in [Providers -> BreakerStates] /\ row' \in [Providers -> BreakerStates]
  BY DEF IInv, TypeOK, registryVars, breakerVars
<1>3. ASSUME NEW q \in Providers \ {p} PROVE Pays(w, q) /\ Charged(w, q)
  <2>1. /\ ledger[q].taken \in Int /\ ledger[q].leaked \in Int /\ ledger[q].faults \in Int
        /\ events \in Int /\ spent[q] \in Int /\ inflight[q] \in Int
    BY DEF IInv, TypeOK, LedgerType
  <2>2. AheadOf(wk, q) <= AheadOf(worker[w], q)
    BY DEF AheadOf, One
  <2>3. /\ HoldsAt(wk, q) = 0 /\ UnusedAt(wk, q) = 0 /\ HoldsAt(worker[w], q) = 0
        /\ UnusedAt(worker[w], q) = 0 /\ CutAt(worker[w], q) = 0
    BY <1>1, Marks
  <2>4. CutAt(wk, q) = 0
    <3>1. "settle" \in Holding
      BY DEF Holding
    <3> QED
      BY <3>1, Marks
  <2>5. Charged(w, q)
    BY <1>1, <2>3 DEF Charged
  <2> QED
    BY <1>1, <1>2, <2>1, <2>2, <2>3, <2>4, <2>5, MarksAreBits DEF Pays
<1>4. Charges(w)
  BY <1>1, <1>3 DEF Charges
<1> QED
  BY <1>1, <1>2, <1>3, <1>4, StepKeeps

\* try_reserve charges the provider and takes a slot.
LEMMA ReserveKeeps == ASSUME IInv, NEW w \in Workers, Reserve(w) PROVE IInv' /\ Charges(w)
<1> DEFINE wk == [worker[w] EXCEPT !.pc = "gate"]
<1>1. /\ Sound(worker[w]) /\ worker[w] \in WorkerType /\ TypeOK
      /\ worker[w].pc = "reserving"
  BY DEF IInv, TypeOK, Reserve
<1>2. PICK p \in Providers : p = worker[w].at
  BY <1>1 DEF Sound, Placed
<1>3. /\ spent' = [spent EXCEPT ![p] = @ + 1] /\ inflight' = [inflight EXCEPT ![p] = @ + 1]
      /\ worker' = [worker EXCEPT ![w] = wk] /\ UNCHANGED <<registryVars, breakerVars>>
      /\ dbFaults' = dbFaults /\ ledger' = ledger
  BY <1>1, <1>2 DEF Reserve, TypeOK
<1>4. /\ wk \in WorkerType /\ wk.pc = "gate" /\ wk.at = p
      /\ wk.tried = worker[w].tried /\ wk.left = worker[w].left
      /\ wk.offered = worker[w].offered /\ wk.seen = worker[w].seen
      /\ wk.cut = worker[w].cut /\ wk.result = worker[w].result
      /\ wk.role = worker[w].role
  BY <1>1, <1>2 DEF WorkerType, Holding
<1> HIDE DEF wk
<1>5. Sound(wk)
  BY <1>1, <1>2, <1>4 DEF Sound, Placed, Passed, Holding
<1>6. /\ spent[p] \in Nat /\ inflight[p] \in Nat /\ spent'[p] = spent[p] + 1
      /\ inflight'[p] = inflight[p] + 1 /\ spent' \in [Providers -> Nat]
      /\ inflight' \in [Providers -> Nat] /\ ledger' \in Ledgers
      /\ ledger[p].taken \in Int /\ ledger[p].leaked \in Int /\ ledger[p].faults \in Int
      /\ events' = events /\ events \in Int
      /\ dbFaults' \in 0..MaxFaults
  BY <1>1, <1>3, LedgerIs DEF TypeOK, LedgerType, registryVars
<1>7. worker'[w] = wk
  BY <1>1, <1>3 DEF TypeOK
<1>8. "gate" \in Holding \ {"settle"} /\ "reserving" \notin Holding
  BY DEF Holding
<1>9. /\ HoldsAt(wk, p) = 1 /\ UnusedAt(wk, p) = 1 /\ CutAt(wk, p) = 0
      /\ HoldsAt(worker[w], p) = 0 /\ UnusedAt(worker[w], p) = 0
      /\ CutAt(worker[w], p) = 0 /\ AheadOf(wk, p) = AheadOf(worker[w], p)
  BY <1>1, <1>4, <1>5, <1>8, Marks
<1>10. Pays(w, p) /\ Charged(w, p)
  <2>1. HasRoom(p)
    BY <1>2 DEF Reserve
  <2> QED
    BY <1>3, <1>6, <1>7, <1>9, <2>1, MarksAreBits DEF Pays, Charged
<1>11. \A q \in Providers \ {p} :
         ledger'[q] = ledger[q] /\ spent'[q] = spent[q] /\ inflight'[q] = inflight[q]
  BY <1>1, <1>3 DEF TypeOK
<1> QED
  BY <1>1, <1>2, <1>3, <1>4, <1>5, <1>6, <1>10, <1>11, AtProviderKeeps

\* A reservation handed back, its count freed or, after a fault, kept.
LEMMA HandBackKeeps ==
    ASSUME IInv, NEW w \in Workers, HandBack(w) \/ HandBackFails(w)
    PROVE  IInv' /\ Charges(w)
<1>1. /\ Sound(worker[w]) /\ worker[w] \in WorkerType /\ TypeOK
      /\ worker[w].pc = "giveback" /\ worker[w].pc \in Holding \ {"settle"}
  BY DEF IInv, TypeOK, HandBack, HandBackFails, Holding
<1>2. PICK p \in Providers : p = worker[w].at
  BY <1>1 DEF Sound, Placed
<1>3. PICK wk \in WorkerType :
        /\ Sound(wk) /\ worker' = [worker EXCEPT ![w] = wk] /\ ~wk.cut
        /\ wk.pc \in {"idle", "reserving", "unplaced"}
        /\ wk.pc # "idle" => wk.tried = worker[w].tried
        /\ HandBackFails(w) \/ HandBack(w)
  <2>1. CASE HandBack(w)
    BY <1>1, <2>1, AdvanceFrom DEF HandBack
  <2>2. CASE HandBackFails(w)
    BY <2>2, IdleSound DEF HandBackFails, Sound
  <2> QED
    BY <2>1, <2>2
<1>4. /\ inflight' = [inflight EXCEPT ![p] = Freed(inflight[p])]
      /\ spent' = [spent EXCEPT ![p] = Freed(spent[p])] \/ spent' = spent
      /\ UNCHANGED <<registryVars, breakerVars>> /\ ledger' = ledger
      /\ dbFaults' \in 0..MaxFaults
  <2>1. CASE HandBack(w)
    BY <1>1, <1>2, <2>1 DEF HandBack, TypeOK
  <2>2. CASE HandBackFails(w)
    <3>1. ledger[p].faults \in Nat
      BY <1>1 DEF TypeOK, LedgerType
    <3> QED
      BY <1>1, <1>2, <2>2, <3>1, SwitchAssumption DEF HandBackFails, TypeOK, CanFail
  <2> QED
    BY <2>1, <2>2
<1>5. /\ inflight[p] \in Nat /\ inflight[p] >= 1 /\ spent[p] \in Nat /\ spent[p] >= 1
  BY <1>1, <1>2, HeldIsCounted
<1>6. /\ inflight'[p] = inflight[p] - 1 /\ inflight' \in [Providers -> Nat]
      /\ spent'[p] \in {spent[p], spent[p] - 1} /\ spent' \in [Providers -> Nat]
  BY <1>1, <1>4, <1>5 DEF Freed, TypeOK
<1>7. worker'[w] = wk
  BY <1>1, <1>3 DEF TypeOK
<1>8. wk.pc \notin Holding /\ wk.pc # "settle"
  BY <1>3 DEF Holding
<1>9. /\ HoldsAt(wk, p) = 0 /\ UnusedAt(wk, p) = 0 /\ CutAt(wk, p) = 0
      /\ HoldsAt(worker[w], p) = 1 /\ UnusedAt(worker[w], p) = 1
      /\ CutAt(worker[w], p) = 0
  BY <1>1, <1>2, <1>3, <1>8, Marks
<1>10. AheadOf(wk, p) <= AheadOf(worker[w], p)
  BY <1>1, <1>3, Marks, MarksAreBits
<1>11. /\ ledger[p].taken \in Int /\ ledger[p].leaked \in Int /\ ledger[p].faults \in Int
       /\ events' = events /\ events \in Int /\ ledger' \in Ledgers
  BY <1>1, <1>4, LedgerIs DEF TypeOK, LedgerType, registryVars
<1>12. spent'[p] \in Int
  BY <1>6
<1>13. Pays(w, p) /\ Charged(w, p)
  BY <1>4, <1>5, <1>6, <1>7, <1>9, <1>10, <1>11, <1>12, MarksAreBits DEF Pays, Charged
<1>14. \A q \in Providers \ {p} :
         ledger'[q] = ledger[q] /\ spent'[q] = spent[q] /\ inflight'[q] = inflight[q]
  BY <1>1, <1>4 DEF TypeOK
<1> QED
  BY <1>1, <1>2, <1>3, <1>4, <1>6, <1>8, <1>11, <1>13, <1>14, AtProviderKeeps

\* What the provider took counts as reached, unless the connection broke.
LEMMA OutcomeFacts ==
    ASSUME NEW o \in Outcomes
    PROVE  /\ o.result \in {"sent", "transient", "permanent", "connect_error"}
           /\ o.taken \in BOOLEAN /\ o.cut \in BOOLEAN
           /\ o.cut => o.taken /\ Unreached(o.result)
           /\ o.taken /\ Unreached(o.result) => o.cut
<1>0. PICK reply \in Replies : \E taken \in MayTake(reply) :
        o = [result |-> Classify(reply), taken |-> taken,
             cut |-> taken /\ reply.kind = "disconnected"]
  BY DEF Outcomes
<1>1. PICK taken \in MayTake(reply) :
        o = [result |-> Classify(reply), taken |-> taken,
             cut |-> taken /\ reply.kind = "disconnected"]
  BY <1>0
<1>2. taken \in BOOLEAN
  BY <1>1 DEF MayTake
<1>3. /\ Classify(reply) \in {"sent", "transient", "permanent", "connect_error"}
      /\ Classify(reply) = "connect_error" <=> reply.kind \in {"connect", "disconnected"}
  BY DEF Classify, ClassifyCode
<1>4. taken => reply.kind # "connect"
  BY <1>1 DEF MayTake
<1> QED
  BY <1>1, <1>2, <1>3, <1>4 DEF Unreached

\* The provider takes the message or not: it is charged, and it is not ahead of
\* the worker any more.
LEMMA RelayKeeps ==
    ASSUME IInv, NEW w \in Workers, NEW o \in Outcomes, Relay(w, o)
    PROVE  IInv' /\ Charges(w)
<1>1. /\ Sound(worker[w]) /\ worker[w] \in WorkerType /\ TypeOK
      /\ worker[w].pc = "relaying" /\ worker[w].pc \in Holding \ {"settle"}
  BY DEF IInv, TypeOK, Relay, Holding
<1>2. PICK p \in Providers : p = worker[w].at
  BY <1>1 DEF Sound, Placed
<1> DEFINE wk == [worker[w] EXCEPT !.pc = "settle", !.tried = @ \cup {p}, !.left = {},
                                   !.offered = {}, !.seen = {}, !.result = o.result,
                                   !.cut = o.cut]
<1>3. /\ ledger' = [ledger EXCEPT ![p].taken = IF o.taken THEN @ + 1 ELSE @]
      /\ worker' = [worker EXCEPT ![w] = wk]
      /\ UNCHANGED <<registryVars, breakerVars>> /\ dbFaults' = dbFaults
      /\ spent' = spent /\ inflight' = inflight
  <2>1. /\ ledger' = [ledger EXCEPT ![p].taken = IF o.taken THEN @ + 1 ELSE @]
        /\ UNCHANGED <<registryVars, breakerVars>> /\ dbFaults' = dbFaults
        /\ spent' = spent /\ inflight' = inflight
    BY <1>2 DEF Relay, limiterVars
  <2>2. worker' = [worker EXCEPT ![w] = wk]
    BY <1>2, Zenon DEF Relay
  <2> QED
    BY <2>1, <2>2
<1>4. /\ wk \in WorkerType /\ wk.pc = "settle" /\ wk.at = p
      /\ wk.tried = worker[w].tried \cup {p} /\ wk.cut = o.cut /\ wk.result = o.result
  BY <1>1, <1>2, OutcomeFacts DEF WorkerType, Holding
<1> HIDE DEF wk
<1>5. Sound(wk)
  BY <1>4, OutcomeFacts DEF Sound, Placed, Passed, Holding
<1>6. worker'[w] = wk
  BY <1>1, <1>3 DEF TypeOK
<1>7. "settle" \in Holding /\ p \notin worker[w].tried
  BY <1>1, <1>2 DEF Holding, Sound, Placed
<1>8. /\ HoldsAt(wk, p) = 1 /\ UnusedAt(wk, p) = One(Unreached(o.result) /\ ~o.cut)
      /\ CutAt(wk, p) = One(o.cut) /\ AheadOf(wk, p) = 0
      /\ HoldsAt(worker[w], p) = 1 /\ UnusedAt(worker[w], p) = 1
      /\ CutAt(worker[w], p) = 0 /\ AheadOf(worker[w], p) = 1
  BY <1>1, <1>2, <1>4, <1>5, <1>7, Marks DEF One
<1>9. /\ ledger[p].taken \in Int /\ ledger[p].leaked \in Int /\ ledger[p].faults \in Int
      /\ events' = events /\ events \in Int
      /\ spent[p] \in Int /\ inflight[p] \in Int /\ ledger \in Ledgers
      /\ ledger[p] \in [taken : Int, leaked : Nat, lost : Nat, stale : BOOLEAN,
                        faults : 0..MaxFaults]
  BY <1>1, <1>3, LedgerIs DEF TypeOK, LedgerType, registryVars, Ledgers
<1>10. /\ ledger' \in Ledgers /\ ledger'[p].leaked = ledger[p].leaked
       /\ ledger'[p].faults = ledger[p].faults
       /\ ledger'[p].taken = ledger[p].taken + One(o.taken)
  BY <1>3, <1>9 DEF Ledgers, One
<1>11. Pays(w, p) /\ Charged(w, p)
  BY <1>3, <1>6, <1>8, <1>9, <1>10, OutcomeFacts DEF Pays, Charged, One
<1>12. \A q \in Providers \ {p} :
         ledger'[q] = ledger[q] /\ spent'[q] = spent[q] /\ inflight'[q] = inflight[q]
  BY <1>3, <1>9 DEF Ledgers
<1>13. /\ spent' \in [Providers -> Nat] /\ inflight' \in [Providers -> Nat]
       /\ dbFaults' \in 0..MaxFaults
  BY <1>1, <1>3 DEF TypeOK
<1> QED
  BY <1>1, <1>2, <1>3, <1>4, <1>5, <1>10, <1>11, <1>12, <1>13, AtProviderKeeps

\* commit, or release when the provider was never reached.
LEMMA SettleKeeps == ASSUME IInv, NEW w \in Workers, Settle(w) PROVE IInv' /\ Charges(w)
<1>1. /\ Sound(worker[w]) /\ worker[w] \in WorkerType /\ TypeOK
      /\ worker[w].pc = "settle" /\ worker[w].pc \in Holding
  BY DEF IInv, TypeOK, Settle, Holding
<1>2. PICK p \in Providers : p = worker[w].at
  BY <1>1 DEF Sound, Placed
<1> DEFINE wk == [worker[w] EXCEPT !.pc = "report", !.cut = FALSE]
           cut == worker[w].cut
           unreached == Unreached(worker[w].result)
<1>3. /\ ledger' = [ledger EXCEPT ![p].taken = IF cut THEN @ - 1 ELSE @]
      /\ worker' = [worker EXCEPT ![w] = wk]
      /\ inflight' = [inflight EXCEPT ![p] = Freed(inflight[p])]
      /\ spent' = [spent EXCEPT ![p] = IF unreached THEN Freed(spent[p]) ELSE spent[p]]
      /\ UNCHANGED <<registryVars, breakerVars>> /\ dbFaults' = dbFaults
  BY <1>1, <1>2 DEF Settle, TypeOK
<1>4. /\ wk \in WorkerType /\ wk.pc = "report" /\ wk.at = p
      /\ wk.tried = worker[w].tried /\ ~wk.cut /\ wk.role = worker[w].role
  BY <1>1, <1>2 DEF WorkerType
<1> HIDE DEF wk
<1>5. Sound(wk) /\ wk.pc \notin Holding
  BY <1>1, <1>2, <1>4 DEF Sound, Placed, Passed, Holding
<1>6. worker'[w] = wk
  BY <1>1, <1>3 DEF TypeOK
<1>7. /\ HoldsAt(wk, p) = 0 /\ UnusedAt(wk, p) = 0 /\ CutAt(wk, p) = 0
      /\ AheadOf(wk, p) = AheadOf(worker[w], p)
      /\ HoldsAt(worker[w], p) = 1 /\ UnusedAt(worker[w], p) = One(unreached /\ ~cut)
      /\ CutAt(worker[w], p) = One(cut)
  BY <1>1, <1>2, <1>4, <1>5, Marks
<1>8. (cut => unreached) /\ cut \in BOOLEAN
  BY <1>1 DEF Sound, Placed, WorkerType
<1>9. /\ ledger[p].taken \in Int /\ ledger[p].leaked \in Int /\ ledger[p].faults \in Int
      /\ events' = events /\ events \in Int /\ ledger \in Ledgers
      /\ ledger[p] \in [taken : Int, leaked : Nat, lost : Nat, stale : BOOLEAN,
                        faults : 0..MaxFaults]
  BY <1>1, <1>3, LedgerIs DEF TypeOK, LedgerType, registryVars, Ledgers
<1>10. /\ inflight[p] \in Nat /\ inflight[p] >= 1 /\ spent[p] \in Nat
       /\ unreached => spent[p] >= 1
  BY <1>1, <1>2, HeldIsCounted
<1> HIDE DEF cut, unreached
<1>11. /\ ledger' \in Ledgers /\ ledger'[p].leaked = ledger[p].leaked
       /\ ledger'[p].faults = ledger[p].faults
       /\ ledger'[p].taken = ledger[p].taken - One(cut)
  BY <1>3, <1>9 DEF Ledgers, One
<1>12. /\ inflight'[p] = inflight[p] - 1 /\ inflight' \in [Providers -> Nat]
       /\ spent'[p] = spent[p] - One(unreached) /\ spent' \in [Providers -> Nat]
  BY <1>1, <1>3, <1>10 DEF Freed, TypeOK, One
<1>13. Pays(w, p) /\ Charged(w, p)
  <2>1. /\ spent'[p] \in {spent[p], spent[p] - 1}
        /\ HoldsAt(worker[w], p) = 1 /\ HoldsAt(worker'[w], p) = 0
        /\ ledger'[p].leaked = ledger[p].leaked
    BY <1>6, <1>7, <1>10, <1>11, <1>12 DEF One
  <2>2. Charged(w, p)
    BY <2>1 DEF Charged
  <2>3. /\ AheadOf(wk, p) = AheadOf(worker[w], p) /\ AheadOf(wk, p) \in Int
        /\ CutAt(wk, p) = 0 /\ UnusedAt(wk, p) = 0 /\ HoldsAt(wk, p) = 0
    BY <1>7, MarksAreBits
  <2>4. /\ CutAt(worker[w], p) \in Nat /\ UnusedAt(worker[w], p) \in Nat
        /\ ledger'[p].taken = ledger[p].taken - CutAt(worker[w], p)
        /\ spent'[p] = spent[p] - CutAt(worker[w], p) - UnusedAt(worker[w], p)
    <3>1. CASE cut
      <4>1. unreached
        BY <1>8, <3>1
      <4> QED
        BY <1>7, <1>9, <1>10, <1>11, <1>12, <3>1, <4>1 DEF One
    <3>2. CASE ~cut
      BY <1>7, <1>9, <1>10, <1>11, <1>12, <3>2 DEF One
    <3> QED
      BY <3>1, <3>2
  <2>5. Pays(w, p)
    <3>1. ledger'[p].taken - ledger[p].taken + AheadOf(wk, p) - AheadOf(worker[w], p)
            <= events' - events
      BY <1>9, <2>3, <2>4
    <3>2. CutAt(wk, p) - CutAt(worker[w], p) <= ledger'[p].taken - ledger[p].taken
      BY <1>9, <2>3, <2>4
    <3>3. ledger'[p].taken - ledger[p].taken + UnusedAt(wk, p) - UnusedAt(worker[w], p)
            <= spent'[p] - spent[p]
      BY <1>9, <1>10, <2>3, <2>4
    <3>4. inflight'[p] - inflight[p] = HoldsAt(wk, p) - HoldsAt(worker[w], p)
            + ledger'[p].leaked - ledger[p].leaked
      BY <1>9, <1>10, <1>12, <2>1, <2>3
    <3>5. ledger'[p].leaked - ledger[p].leaked <= ledger'[p].faults - ledger[p].faults
      BY <1>9, <1>11
    <3> QED
      BY <1>6, <3>1, <3>2, <3>3, <3>4, <3>5 DEF Pays
  <2> QED
    BY <2>2, <2>5
<1>14. \A q \in Providers \ {p} :
         ledger'[q] = ledger[q] /\ spent'[q] = spent[q] /\ inflight'[q] = inflight[q]
  BY <1>1, <1>3, <1>9 DEF Ledgers, TypeOK
<1>15. dbFaults' \in 0..MaxFaults
  BY <1>1, <1>3 DEF TypeOK
<1> QED
  BY <1>1, <1>2, <1>3, <1>4, <1>5, <1>11, <1>12, <1>13, <1>14, <1>15, AtProviderKeeps

\* A worker that a fault ends at its provider: what it held is freed or is
\* leaked, and a fault is noted.
LEMMA FaultKeeps ==
    ASSUME IInv, NEW w \in Workers,
           Abandon(w) \/ SettleFails(w) \/ PersistFails(w)
    PROVE  IInv' /\ Charges(w)
<1>1. /\ Sound(worker[w]) /\ worker[w] \in WorkerType /\ TypeOK
      /\ worker[w].pc \in {"relaying", "settle", "claiming", "recording"} /\ CanFail
      /\ worker' = [worker EXCEPT ![w] = IdleWorker] /\ spent' = spent
      /\ UNCHANGED <<registryVars, breakerVars>> /\ dbFaults' = dbFaults
  BY DEF IInv, TypeOK, Abandon, SettleFails, PersistFails, limiterVars
<1>2. PICK p \in Providers : p = worker[w].at
  BY <1>1 DEF Sound, Placed
<1>3. /\ ledger[p].taken \in Int /\ ledger[p].leaked \in Nat /\ ledger[p].faults \in Nat
      /\ events' = events /\ events \in Int /\ ledger \in Ledgers
      /\ ledger[p] \in [taken : Int, leaked : Nat, lost : Nat, stale : BOOLEAN,
                        faults : 0..MaxFaults]
      /\ spent[p] \in Int /\ inflight[p] \in Int
  BY <1>1, LedgerIs DEF TypeOK, LedgerType, registryVars, Ledgers
<1>4. ledger[p].faults + 1 \in 0..MaxFaults
  <2>1. ledger[p].faults + dbFaults < MaxFaults /\ dbFaults \in Nat
    BY <1>1 DEF CanFail, TypeOK
  <2> QED
    BY <1>3, <2>1, SwitchAssumption
<1> DEFINE held == worker[w].pc \in Holding
<1>5. PICK l \in [taken : Int, leaked : Nat, lost : Nat, stale : BOOLEAN,
                  faults : 0..MaxFaults] :
        /\ ledger' = [ledger EXCEPT ![p] = l]
        /\ l.taken = ledger[p].taken /\ l.faults = ledger[p].faults + 1
        /\ \/ /\ inflight' = inflight
              /\ l.leaked = ledger[p].leaked + One(held)
           \/ /\ held /\ l.leaked = ledger[p].leaked
              /\ inflight' = [inflight EXCEPT ![p] = Freed(inflight[p])]
  <2> DEFINE d == Dropped(ledger[p], worker[w])
  <2>1. /\ d \in [taken : Int, leaked : Nat, lost : Nat, stale : BOOLEAN,
                  faults : 0..MaxFaults]
        /\ d.taken = ledger[p].taken /\ d.faults = ledger[p].faults + 1
        /\ d.leaked = ledger[p].leaked
    <3>1. PICK n \in Nat : d = [ledger[p] EXCEPT !.faults = ledger[p].faults + 1, !.lost = n]
      <4>1. ledger[p].lost \in Nat /\ ledger[p].lost + 1 \in Nat
        BY <1>3
      <4>2. d = [ledger[p] EXCEPT !.faults = ledger[p].faults + 1,
                   !.lost = IF worker[w].role = "probe" THEN ledger[p].lost + 1
                            ELSE ledger[p].lost]
        BY Zenon DEF Dropped
      <4> QED
        BY <4>1, <4>2
    <3> HIDE DEF d
    <3> QED
      BY <1>3, <1>4, <3>1
  <2> HIDE DEF d
  <2>2. CASE Abandon(w)
    <3> DEFINE l == [d EXCEPT !.leaked = @ + 1]
    <3>1. ledger' = [ledger EXCEPT ![p] = l] /\ inflight' = inflight
      BY <1>2, <2>2, Zenon DEF Abandon, limiterVars, d
    <3>2. /\ l \in [taken : Int, leaked : Nat, lost : Nat, stale : BOOLEAN,
                    faults : 0..MaxFaults]
          /\ l.taken = ledger[p].taken /\ l.faults = ledger[p].faults + 1
          /\ l.leaked = ledger[p].leaked + 1
      BY <1>3, <2>1
    <3>3. One(held) = 1
      BY <2>2 DEF Abandon, Holding, One
    <3> HIDE DEF l
    <3> QED
      BY <3>1, <3>2, <3>3
  <2>3. CASE SettleFails(w)
    <3>1. /\ ledger' = [ledger EXCEPT ![p] = d] /\ held
          /\ inflight' = [inflight EXCEPT ![p] = Freed(inflight[p])]
      BY <1>1, <1>2, <1>3, <2>3 DEF SettleFails, d, Ledgers, Holding, TypeOK
    <3> QED
      BY <2>1, <3>1
  <2>4. CASE PersistFails(w)
    <3> DEFINE claimed == IF worker[w].pc = "claiming" THEN 1 ELSE 0
               faults == ledger[p].faults + 1
               lost == ledger[p].lost + claimed
               leaked == ledger[p].leaked + claimed
               l == [ledger[p] EXCEPT !.faults = faults, !.stale = TRUE, !.lost = lost,
                                      !.leaked = leaked]
    <3>1. ledger' = [ledger EXCEPT ![p] = l] /\ inflight' = inflight
      BY <1>2, <2>4, Zenon DEF PersistFails, limiterVars
    <3>2. claimed = One(held) /\ claimed \in Nat
      BY <2>4 DEF PersistFails, Holding, One
    <3> HIDE DEF claimed
    <3>3. lost \in Nat /\ leaked \in Nat /\ faults \in 0..MaxFaults
      BY <1>3, <1>4, <3>2
    <3> HIDE DEF faults, lost, leaked
    <3>4. /\ l \in [taken : Int, leaked : Nat, lost : Nat, stale : BOOLEAN,
                    faults : 0..MaxFaults]
          /\ l.taken = ledger[p].taken /\ l.faults = faults /\ l.leaked = leaked
      BY <1>3, <3>3
    <3> HIDE DEF l
    <3> USE DEF faults, leaked
    <3> QED
      BY <3>1, <3>2, <3>4
  <2> QED
    BY <2>2, <2>3, <2>4
<1>6. /\ ledger' \in Ledgers /\ ledger'[p] = l
      /\ \A q \in Providers \ {p} : ledger'[q] = ledger[q]
  BY <1>3, <1>5 DEF Ledgers
<1>7. held => inflight[p] \in Nat /\ inflight[p] >= 1
  BY <1>2, HeldIsCounted
<1>8. /\ inflight' \in [Providers -> Nat] /\ spent' \in [Providers -> Nat]
      /\ \A q \in Providers \ {p} : inflight'[q] = inflight[q] /\ spent'[q] = spent[q]
      /\ inflight'[p] - inflight[p] = (l.leaked - ledger[p].leaked) - One(held)
  BY <1>1, <1>3, <1>5, <1>7 DEF Freed, TypeOK, One
<1>9. worker'[w] = IdleWorker
  BY <1>1 DEF TypeOK
<1>10. IdleWorker.pc = "idle" /\ IdleWorker.pc \notin Holding /\ Sound(IdleWorker)
       /\ IdleWorker \in WorkerType
  BY IdleSound DEF Holding, Sound
<1>11. /\ HoldsAt(IdleWorker, p) = 0 /\ UnusedAt(IdleWorker, p) = 0
       /\ CutAt(IdleWorker, p) = 0 /\ AheadOf(IdleWorker, p) = 0
       /\ HoldsAt(worker[w], p) = One(held)
  BY <1>1, <1>2, <1>10, Marks DEF One
<1> HIDE DEF held
<1>12. inflight'[p] \in Int /\ One(held) \in {0, 1} /\ l.leaked <= ledger[p].leaked + 1
  BY <1>3, <1>5, <1>8 DEF One
<1>13. Pays(w, p) /\ Charged(w, p)
  <2>1. held \/ One(held) = 0
    BY DEF One
  <2>2. held => One(held) = 1
    BY DEF One
  <2>3. Pays(w, p)
    BY <1>1, <1>3, <1>5, <1>6, <1>8, <1>9, <1>11, <1>12, <2>1, <2>2, MarksAreBits
    DEF Pays
  <2>4. Charged(w, p)
    BY <1>1, <1>3, <1>5, <1>6, <1>8, <1>9, <1>11, <1>12, <2>1, <2>2 DEF Charged
  <2> QED
    BY <2>3, <2>4
<1>14. dbFaults' \in 0..MaxFaults
  BY <1>1 DEF TypeOK
<1> QED
  BY <1>1, <1>2, <1>6, <1>8, <1>10, <1>13, <1>14, AtProviderKeeps

-----------------------------------------------------------------------------
(* Steps after the relay, and the rest *)

\* A report ends the round for the others, and frees nothing.
LEMMA ReportKeeps == ASSUME IInv, NEW w \in Workers, Report(w) PROVE IInv' /\ Charges(w)
<1>1. /\ Sound(worker[w]) /\ worker[w] \in WorkerType /\ TypeOK
      /\ worker[w].pc = "report" /\ worker \in [Workers -> WorkerType]
  BY DEF IInv, TypeOK, Report
<1>2. PICK p \in Providers : p = worker[w].at
  BY <1>1 DEF Sound, Placed
<1> DEFINE wk == [worker[w] EXCEPT !.pc = "recording", !.role = "traffic"]
<1>3. /\ worker' = [RoundEnds(p, worker) EXCEPT ![w] = wk]
      /\ ledger' = [ledger EXCEPT ![p].lost = 0]
      /\ UNCHANGED <<registryVars, row, limiterVars, dbFaults>>
  BY <1>2 DEF Report
<1>4. breaker' \in [Providers -> BreakerStates]
  <2>1. /\ Breaker(p)!AfterSuccess \in BreakerStates
        /\ Breaker(p)!AfterFailure \in BreakerStates
    BY <1>1, BreakerSteps
  <2>2. \E st \in {Breaker(p)!AfterSuccess, Breaker(p)!AfterFailure} :
          breaker' = [breaker EXCEPT ![p] = st]
    BY <1>2 DEF Report
  <2> QED
    BY <1>1, <2>1, <2>2 DEF TypeOK
<1>5. /\ wk \in WorkerType /\ wk.pc = "recording" /\ wk.at = p
      /\ wk.tried = worker[w].tried /\ wk.cut = worker[w].cut /\ wk.role = "traffic"
  BY <1>1, <1>2 DEF WorkerType
<1> HIDE DEF wk
<1>6. /\ \A v \in Workers : [worker[v] EXCEPT !.role = "late"] \in WorkerType
      /\ RoundEnds(p, worker) \in [Workers -> WorkerType]
      /\ \A v \in Workers :
           \/ RoundEnds(p, worker)[v] = worker[v]
           \/ /\ worker[v].role = "probe"
              /\ RoundEnds(p, worker)[v] = [worker[v] EXCEPT !.role = "late"]
  BY <1>1 DEF RoundEnds, WorkerType
<1>7. Moves(w) /\ worker'[w] = wk
  BY <1>3, <1>5, <1>6 DEF Moves
<1>8. Sound(wk) /\ wk.pc \notin Holding /\ worker[w].pc \notin Holding
      /\ wk.pc # "settle" /\ worker[w].pc # "settle"
  BY <1>1, <1>2, <1>5 DEF Sound, Placed, Passed, Holding
<1>9. /\ ledger' \in Ledgers
      /\ \A q \in Providers : /\ ledger'[q].taken = ledger[q].taken
                              /\ ledger'[q].leaked = ledger[q].leaked
                              /\ ledger'[q].faults = ledger[q].faults
                              /\ ledger[q].faults \in Int
  BY <1>1, <1>3 DEF TypeOK, Ledgers, LedgerType
<1>10. /\ enabled' \in SUBSET Providers /\ events' \in 0..MaxEvents /\ events' = events
       /\ events \in Int /\ row' \in [Providers -> BreakerStates]
       /\ dbFaults' \in 0..MaxFaults /\ UNCHANGED limiterVars
  BY <1>1, <1>3 DEF TypeOK, registryVars
<1>11. \A q \in Providers :
        /\ AheadOf(worker'[w], q) - AheadOf(worker[w], q) <= events' - events
        /\ HoldsAt(worker'[w], q) = HoldsAt(worker[w], q)
        /\ UnusedAt(worker'[w], q) <= UnusedAt(worker[w], q)
        /\ CutAt(worker'[w], q) <= CutAt(worker[w], q)
  BY <1>1, <1>5, <1>7, <1>8, <1>10, Marks, MarksAreBits
<1>12. \A q \in Providers : ledger'[q].faults >= ledger[q].faults
  BY <1>9
<1> QED
  BY <1>4, <1>7, <1>8, <1>9, <1>10, <1>11, <1>12, QuietKeeps

\* _persist ends, and the worker relays, is done or takes its next turn.
LEMMA PersistKeeps == ASSUME IInv, NEW w \in Workers, Persist(w) PROVE IInv' /\ Charges(w)
<1>1. /\ Sound(worker[w]) /\ worker[w] \in WorkerType /\ TypeOK
      /\ worker[w].pc \in {"claiming", "recording"}
  BY DEF IInv, TypeOK, Persist
<1>2. PICK p \in Providers : p = worker[w].at
  BY <1>1 DEF Sound, Placed
<1> DEFINE probe == [worker[w] EXCEPT !.pc = "relaying", !.role = "probe"]
<1>3. /\ row' = [row EXCEPT ![p] = breaker[p]]
      /\ ledger' = [ledger EXCEPT ![p].stale = FALSE]
      /\ UNCHANGED <<registryVars, breaker, limiterVars, dbFaults>>
  BY <1>2 DEF Persist
<1>4. /\ breaker' \in [Providers -> BreakerStates] /\ row' \in [Providers -> BreakerStates]
      /\ dbFaults' \in 0..MaxFaults /\ ledger' \in Ledgers
      /\ \A q \in Providers : /\ ledger'[q].taken = ledger[q].taken
                              /\ ledger'[q].leaked = ledger[q].leaked
                              /\ ledger'[q].faults = ledger[q].faults
                              /\ ledger[q].faults \in Int
  <2>1. /\ breaker' \in [Providers -> BreakerStates]
        /\ row' \in [Providers -> BreakerStates] /\ dbFaults' \in 0..MaxFaults
    BY <1>1, <1>3 DEF TypeOK
  <2>2. /\ ledger' \in Ledgers
        /\ \A q \in Providers : /\ ledger'[q].taken = ledger[q].taken
                                /\ ledger'[q].leaked = ledger[q].leaked
                                /\ ledger'[q].faults = ledger[q].faults
                                /\ ledger[q].faults \in Int
    <3>1. ledger \in Ledgers
      BY <1>1, LedgerIs
    <3>2. PICK b \in BOOLEAN : ledger' = [ledger EXCEPT ![p].stale = b]
      BY <1>3
    <3>3. PICK l \in [taken : Int, leaked : Nat, lost : Nat, stale : BOOLEAN,
                      faults : 0..MaxFaults] :
            /\ ledger' = [ledger EXCEPT ![p] = l]
            /\ l.taken = ledger[p].taken /\ l.leaked = ledger[p].leaked
            /\ l.faults = ledger[p].faults
      <4> DEFINE l == [ledger[p] EXCEPT !.stale = b]
      <4>1. ledger' = [ledger EXCEPT ![p] = l]
        BY <3>1, <3>2 DEF Ledgers
      <4>2. /\ l \in [taken : Int, leaked : Nat, lost : Nat, stale : BOOLEAN,
                      faults : 0..MaxFaults]
            /\ l.taken = ledger[p].taken /\ l.leaked = ledger[p].leaked
            /\ l.faults = ledger[p].faults
        BY <3>1 DEF Ledgers
      <4> HIDE DEF l
      <4> QED
        BY <4>1, <4>2
    <3> QED
      BY <3>1, <3>3 DEF Ledgers
  <2> QED
    BY <2>1, <2>2
<1>5. \A q \in Providers : ledger'[q].faults >= ledger[q].faults
  BY <1>4
<1>6. CASE worker[w].pc = "claiming"
  <2>1. worker' = [worker EXCEPT ![w] = probe]
    BY <1>6 DEF Persist
  <2>2. /\ probe \in WorkerType /\ probe.pc = "relaying" /\ probe.at = worker[w].at
        /\ probe.tried = worker[w].tried /\ probe.left = worker[w].left
        /\ probe.offered = worker[w].offered /\ probe.seen = worker[w].seen
        /\ probe.cut = worker[w].cut /\ probe.result = worker[w].result
    BY <1>1 DEF WorkerType, Holding
  <2> HIDE DEF probe
  <2>3. Sound(probe)
    BY <1>1, <1>6, <2>2 DEF Sound, Placed, Passed, Holding
  <2>4. probe.pc \in Holding \ {"settle"} /\ worker[w].pc \in Holding \ {"settle"}
    BY <1>6, <2>2 DEF Holding
  <2> QED
    BY <1>3, <1>4, <1>5, <1>6, <2>1, <2>2, <2>3, <2>4, MovesOn
<1>7. CASE worker[w].pc = "recording"
  <2>1. PICK wk \in WorkerType :
          /\ Sound(wk) /\ worker' = [worker EXCEPT ![w] = wk]
          /\ wk.pc \in {"idle", "reserving", "unplaced"}
          /\ wk.pc # "idle" => wk.tried = worker[w].tried
    <3>1. \/ worker' = [worker EXCEPT ![w] = IdleWorker]
          \/ worker' = [worker EXCEPT ![w] = Turn(worker[w].tried)]
      BY <1>7 DEF Persist
    <3>2. worker[w].tried \in SUBSET Providers
      BY <1>1 DEF WorkerType
    <3> DEFINE turn == Turn(worker[w].tried)
    <3>3. /\ Sound(turn) /\ turn \in WorkerType
          /\ turn.pc \in {"idle", "reserving", "unplaced"}
          /\ turn.pc # "idle" => turn.tried = worker[w].tried
      BY <1>1, <3>2, TurnSound DEF Sound
    <3> HIDE DEF turn
    <3>4. CASE worker' = [worker EXCEPT ![w] = IdleWorker]
      BY <3>4, IdleSound DEF Sound
    <3>5. CASE worker' = [worker EXCEPT ![w] = turn]
      BY <3>3, <3>5
    <3> QED
      BY <3>1, <3>4, <3>5 DEF turn
  <2>2. wk.pc \notin Holding /\ worker[w].pc \notin Holding /\ worker[w].pc # "idle"
    BY <1>7, <2>1 DEF Holding
  <2> QED
    BY <1>3, <1>4, <1>5, <2>1, <2>2, MovesOn
<1> QED
  BY <1>1, <1>6, <1>7

\* A message without a provider leaves the loop.
LEMMA UnplacedKeeps == ASSUME IInv, NEW w \in Workers, HandleNoSuccess(w) PROVE IInv' /\ Charges(w)
<1>1. /\ worker[w].pc = "unplaced" /\ worker' = [worker EXCEPT ![w] = IdleWorker]
      /\ UNCHANGED <<registryVars, breaker, row, limiterVars, dbFaults, ledger>>
  BY DEF HandleNoSuccess, breakerVars
<1>2. /\ ledger' \in Ledgers /\ breaker' \in [Providers -> BreakerStates]
      /\ row' \in [Providers -> BreakerStates] /\ dbFaults' \in 0..MaxFaults
      /\ \A p \in Providers : ledger[p].faults \in Int
  BY <1>1, LedgerIs DEF IInv, TypeOK, LedgerType
<1>3. /\ Sound(IdleWorker) /\ IdleWorker \in WorkerType /\ IdleWorker.pc = "idle"
      /\ IdleWorker.pc \notin Holding /\ worker[w].pc \notin Holding
  BY <1>1, IdleSound DEF Sound, Holding
<1>4. \A p \in Providers : /\ ledger'[p].taken = ledger[p].taken
                           /\ ledger'[p].leaked = ledger[p].leaked
                           /\ ledger'[p].faults >= ledger[p].faults
  BY <1>1, <1>2
<1> QED
  BY <1>1, <1>2, <1>3, <1>4, MovesOn

\* Steps that leave every worker where it is.
LEMMA OthersKeep ==
    ASSUME IInv, UNCHANGED <<limiterVars, worker, dbFaults, ledger>>,
           enabled' \in SUBSET Providers, events' \in 0..MaxEvents, events' >= events,
           breaker' \in [Providers -> BreakerStates],
           row' \in [Providers -> BreakerStates]
    PROVE  IInv'
<1>1. TypeOK'
  BY DEF IInv, TypeOK, limiterVars
<1>2. (\A w \in Workers : Sound(worker[w]))'
  BY DEF IInv, Sound, Placed, Passed, Unreached
<1>3. ASSUME NEW p \in Providers PROVE Balanced(p)'
  <2>1. /\ Ahead(p)' = Ahead(p) /\ Cuts(p)' = Cuts(p) /\ Holders(p)' = Holders(p)
    BY DEF Ahead, Cuts, Holders
  <2>2. Unused(p)' = Unused(p)
    BY <2>1 DEF Unused, Unreached
  <2>3. Cardinality(Ahead(p)) \in Nat /\ ledger[p].taken \in Nat /\ events \in Nat
        /\ events' \in Nat
    BY SwitchAssumption, FS_Subset, FS_CardinalityType DEF Ahead, IInv, TypeOK, LedgerType
  <2>4. Balanced(p)
    BY DEF IInv
  <2> QED
    BY <2>1, <2>2, <2>3, <2>4 DEF Balanced, limiterVars
<1> QED
  BY <1>1, <1>2, <1>3 DEF IInv

\* With every worker idle and nothing leaked, what was taken was charged.
LEMMA AllIdleKeeps ==
    ASSUME worker' = [w \in Workers |-> IdleWorker], TypeOK',
           \A p \in Providers : /\ ledger'[p].taken <= events'
                                /\ ledger'[p].taken <= spent'[p]
                                /\ inflight'[p] = 0 /\ ledger'[p].leaked = 0
    PROVE  IInv'
<1>1. \A w \in Workers : /\ worker'[w] = IdleWorker /\ worker'[w].pc = "idle"
                         /\ ~worker'[w].cut /\ worker'[w].pc \notin Holding
                         /\ Sound(worker'[w])
  BY IdleSound DEF Holding
<1>2. (\A w \in Workers : Sound(worker[w]))'
  BY <1>1 DEF Sound, Placed, Passed, Unreached
<1>3. ASSUME NEW p \in Providers PROVE Balanced(p)'
  <2>1. Ahead(p)' = {} /\ Cuts(p)' = {} /\ Holders(p)' = {}
    BY <1>1 DEF Ahead, Cuts, Holders
  <2>2. Unused(p)' = {}
    BY <2>1 DEF Unused
  <2>3. Cardinality({}) = 0
    BY FS_EmptySet
  <2>4. /\ ledger'[p].taken \in Int /\ ledger'[p].taken >= 0
        /\ ledger'[p].faults \in Int /\ ledger'[p].faults >= 0
    BY DEF TypeOK, LedgerType
  <2> QED
    BY <2>1, <2>2, <2>3, <2>4 DEF Balanced
<1> QED
  BY <1>2, <1>3 DEF IInv

\* The operator, a restart and time.
LEMMA OutsideKeeps ==
    ASSUME IInv, (\E p \in Providers : SetEnabled(p)) \/ Restart \/ Tick
    PROVE  IInv'
<1>1. /\ TypeOK /\ events \in 0..MaxEvents /\ events \in Int
      /\ breaker \in [Providers -> BreakerStates] /\ row \in [Providers -> BreakerStates]
  BY DEF IInv, TypeOK
<1>2. ASSUME NEW p \in Providers, SetEnabled(p) PROVE IInv'
  <2>1. enabled' \in SUBSET Providers
    BY <1>1, <1>2 DEF SetEnabled, TypeOK
  <2>2. events' \in 0..MaxEvents /\ events' >= events
    BY <1>1, <1>2, SwitchAssumption DEF SetEnabled
  <2> QED
    BY <1>1, <1>2, <2>1, <2>2, OthersKeep DEF SetEnabled, breakerVars
<1>3. CASE Tick
  <2>1. \A p \in Providers : \A st \in BreakerStates : Breaker(p)!Aged(st) \in BreakerStates
    BY <1>1, BreakerSteps
  <2>2. /\ breaker' \in [Providers -> BreakerStates]
        /\ row' \in [Providers -> BreakerStates]
    BY <1>1, <1>3, <2>1 DEF Tick
  <2>3. /\ enabled' \in SUBSET Providers /\ events' \in 0..MaxEvents /\ events' >= events
        /\ UNCHANGED <<limiterVars, worker, dbFaults, ledger>>
    BY <1>1, <1>3 DEF Tick, registryVars, TypeOK
  <2> QED
    BY <2>2, <2>3, OthersKeep
<1>4. CASE Restart
  <2>1. ASSUME NEW p \in Providers
        PROVE  /\ ledger'[p] \in LedgerType /\ ledger'[p].leaked = 0
               /\ ledger'[p].taken = ledger[p].taken
    <3> DEFINE faults == ledger[p].faults + 1
    <3>1. PICK b \in BOOLEAN :
            ledger'[p] = [ledger[p] EXCEPT !.faults = faults, !.leaked = 0, !.stale = b,
                                           !.lost = row[p].probes]
      BY <1>4 DEF Restart
    <3>2. ledger[p] \in LedgerType /\ row[p].probes \in Nat
      <4>1. row[p] \in Breaker(p)!State
        BY <1>1, BreakerSteps
      <4> QED
        BY <1>1, <4>1, SwitchAssumption DEF TypeOK, Breaker!State
    <3>3. faults \in 0..MaxFaults
      <4>1. /\ ledger[p].faults + dbFaults < MaxFaults
            /\ dbFaults \in Nat /\ ledger[p].faults \in Nat
        <5>1. CanFail
          BY <1>4 DEF Restart
        <5> QED
          BY <1>1, <5>1 DEF CanFail, TypeOK, LedgerType
      <4> QED
        BY <4>1, SwitchAssumption
    <3> HIDE DEF faults
    <3> DEFINE lost == row[p].probes
               l == [ledger[p] EXCEPT !.faults = faults, !.leaked = 0, !.stale = b,
                                      !.lost = lost]
    <3>4. ledger'[p] = l
      BY <3>1
    <3>5. lost \in Nat
      BY <3>2
    <3> HIDE DEF lost
    <3>6. l \in LedgerType /\ l.leaked = 0 /\ l.taken = ledger[p].taken
      BY <3>2, <3>3, <3>5 DEF LedgerType
    <3> QED
      BY <3>4, <3>6
  <2>2. ledger' \in [Providers -> LedgerType]
    BY <1>4, <2>1 DEF Restart
  <2>3. worker' \in [Workers -> WorkerType] /\ worker' = [w \in Workers |-> IdleWorker]
    BY <1>4, IdleSound DEF Restart, Sound
  <2>4. /\ inflight' \in [Providers -> Nat] /\ spent' = spent /\ events' = events
        /\ breaker' = row /\ row' = row /\ enabled' = enabled /\ dbFaults' = dbFaults
        /\ \A p \in Providers : inflight'[p] = 0
    BY <1>4 DEF Restart, registryVars
  <2>5. TypeOK'
    BY <1>1, <2>2, <2>3, <2>4 DEF TypeOK
  <2>6. ASSUME NEW p \in Providers
        PROVE  ledger[p].taken <= events /\ ledger[p].taken <= spent[p]
    <3>1. /\ Cardinality(Ahead(p)) \in Nat /\ Cardinality(Unused(p)) \in Nat
      BY SwitchAssumption, FS_Subset, FS_CardinalityType DEF Ahead, Unused, Holders
    <3>2. ledger[p].taken \in Nat /\ spent[p] \in Nat /\ Balanced(p)
      BY <1>1 DEF TypeOK, LedgerType, IInv
    <3> QED
      BY <1>1, <3>1, <3>2 DEF Balanced
  <2> QED
    BY <2>1, <2>3, <2>4, <2>5, <2>6, AllIdleKeeps
<1> QED
  BY <1>2, <1>3, <1>4

-----------------------------------------------------------------------------
(* The invariant and what it says *)

\* A new process: nothing is counted, and every breaker is closed.
LEMMA InitKeeps == Init => IInv
<1> SUFFICES ASSUME Init PROVE IInv
  OBVIOUS
<1>1. \A p \in Providers : Breaker(p)!FreshState \in BreakerStates
  <2>1. \A p \in Providers : Breaker(p)!FreshState \in Breaker(p)!State
    BY SwitchAssumption DEF Breaker!FreshState, Breaker!State, Breaker!NotOpened
  <2> QED
    BY <2>1 DEF BreakerStates
<1>2. NewLedger \in LedgerType /\ NewLedger.taken = 0 /\ NewLedger.leaked = 0
      /\ NewLedger.faults = 0
  BY SwitchAssumption DEF NewLedger, LedgerType
<1>3. /\ breaker \in [Providers -> BreakerStates] /\ row \in [Providers -> BreakerStates]
  BY <1>1 DEF Init
<1>4. ledger \in [Providers -> LedgerType] /\ worker \in [Workers -> WorkerType]
  BY <1>2, IdleSound DEF Init, Sound
<1>5. TypeOK
  BY <1>3, <1>4, SwitchAssumption DEF TypeOK, Init
<1>6. \A w \in Workers : /\ Sound(worker[w]) /\ worker[w].pc = "idle" /\ ~worker[w].cut
                         /\ worker[w].pc \notin Holding
  BY IdleSound DEF Init, Holding
<1>7. ASSUME NEW p \in Providers PROVE Balanced(p)
  <2>1. Ahead(p) = {} /\ Cuts(p) = {} /\ Holders(p) = {}
    BY <1>6 DEF Ahead, Cuts, Holders
  <2>2. Unused(p) = {}
    BY <2>1 DEF Unused
  <2>3. Cardinality({}) = 0
    BY FS_EmptySet
  <2>4. /\ ledger[p].taken = 0 /\ ledger[p].leaked = 0 /\ ledger[p].faults = 0
        /\ spent[p] = 0 /\ inflight[p] = 0 /\ events = 0
    BY <1>2 DEF Init
  <2> QED
    BY <2>1, <2>2, <2>3, <2>4 DEF Balanced
<1> QED
  BY <1>5, <1>6, <1>7 DEF IInv

\* Workers, operator, restarts and time keep the invariant.
LEMMA NextKeeps == IInv /\ [Next]_vars => IInv'
<1> SUFFICES ASSUME IInv, [Next]_vars PROVE IInv'
  OBVIOUS
<1>1. ASSUME NEW w \in Workers, Select(w) PROVE IInv'
  BY <1>1, SelectKeeps, ReserveKeeps, HandBackKeeps DEF Select
<1>2. ASSUME NEW w \in Workers, Deliver(w) PROVE IInv'
  BY <1>2, RelayKeeps, SettleKeeps, FaultKeeps, ReportKeeps, PersistKeeps, UnplacedKeeps
  DEF Deliver
<1>3. CASE (\E p \in Providers : SetEnabled(p)) \/ Restart \/ Tick
  BY <1>3, OutsideKeeps
<1>4. CASE UNCHANGED vars
  <2>1. /\ UNCHANGED <<limiterVars, worker, dbFaults, ledger>> /\ enabled' = enabled
        /\ events' = events /\ breaker' = breaker /\ row' = row
    BY <1>4 DEF vars, registryVars, breakerVars
  <2>2. /\ enabled' \in SUBSET Providers /\ events' \in 0..MaxEvents /\ events' >= events
        /\ breaker' \in [Providers -> BreakerStates]
        /\ row' \in [Providers -> BreakerStates]
    BY <2>1 DEF IInv, TypeOK
  <2> QED
    BY <2>1, <2>2, OthersKeep
<1> QED
  BY <1>1, <1>2, <1>3, <1>4 DEF Next

\* The invariant holds throughout.
LEMMA IInvHolds == Spec => []IInv
  BY InitKeeps, NextKeeps, PTL DEF Spec

\* The counters of the composed system stay in range: in particular no provider
\* takes more messages than were picked up, and no breaker more probes than it
\* allows, however workers, faults and restarts interleave.
THEOREM SwitchTyped == Spec => []TypeOK
  BY IInvHolds, PTL DEF IInv

\* Every reservation select takes is settled by the worker that took it, or was
\* lost to a fault: commit or release is called once on every path.
THEOREM SlotsSettled == Spec => []ReservationsSettled
<1>1. IInv => ReservationsSettled
  BY DEF IInv, Balanced, ReservationsSettled
<1> QED
  BY <1>1, IInvHolds, PTL

\* No provider took more than it was charged for, but for connections that broke
\* after it had: the classification of replies and the choice between commit and
\* release agree, in every order of workers, refusals, faults and restarts.
THEOREM TakenCharged == Spec => []TakenWasCharged
<1>1. IInv => TakenWasCharged
  <2> SUFFICES ASSUME IInv, NEW p \in Providers PROVE ledger[p].taken <= spent[p]
    BY DEF TakenWasCharged
  <2>1. Cardinality(Unused(p)) \in Nat
    BY SwitchAssumption, FS_Subset, FS_CardinalityType DEF Unused, Holders
  <2>2. ledger[p].taken \in Nat /\ spent[p] \in Nat
        /\ ledger[p].taken + Cardinality(Unused(p)) <= spent[p]
    BY DEF IInv, TypeOK, LedgerType, Balanced
  <2> QED
    BY <2>1, <2>2
<1> QED
  BY <1>1, IInvHolds, PTL

\* A message reaches a provider only past better ones that were tried, down or
\* full while select looked, and none only when that is true of all.
THEOREM ChoiceJustified == Spec => []SelectionJustified
<1>1. IInv => SelectionJustified
  <2> SUFFICES ASSUME IInv, NEW w \in Workers
               PROVE  /\ worker[w].pc = "relaying" =>
                           \A q \in worker[w].offered :
                             Rank[q] < Rank[worker[w].at] =>
                               q \in worker[w].tried \cup worker[w].seen
                      /\ worker[w].pc = "unplaced" =>
                           worker[w].offered \subseteq worker[w].tried \cup worker[w].seen
    BY DEF SelectionJustified
  <2>1. Passed(worker[w]) /\ worker[w] \in WorkerType /\ Placed(worker[w])
    BY DEF IInv, Sound
  <2>2. ASSUME worker[w].pc = "relaying", NEW q \in worker[w].offered,
               Rank[q] < Rank[worker[w].at]
        PROVE  q \in worker[w].tried \cup worker[w].seen
    <3>1. q \in Providers /\ worker[w].at \in Providers
      BY <2>1, <2>2 DEF WorkerType, Placed
    <3>2. Rank[q] \in Nat /\ Rank[worker[w].at] \in Nat
      BY <3>1, SwitchAssumption
    <3>3. q # worker[w].at /\ q \notin worker[w].left
      BY <2>1, <2>2, <3>2 DEF Passed
    <3> QED
      BY <2>1, <2>2, <3>3 DEF Passed
  <2> QED
    BY <2>1, <2>2 DEF Passed
<1> QED
  BY <1>1, IInvHolds, PTL

-----------------------------------------------------------------------------
(* The limiters *)

\* A worker's reservation at p as module Capacity has it, before and after a
\* step.
Held(p) == [w \in Workers |-> IF w \in Holders(p) THEN "period" ELSE "none"]
SpentIn(p) == [k \in {"period"} |-> spent[p]]

\* Those Capacity counts are the workers that hold a reservation.
LEMMA OutIsHolders ==
    ASSUME NEW p \in Providers
    PROVE  Limiter(p)!Cardinality(Limiter(p)!Out) = Cardinality(Holders(p))
<1>1. Limiter(p)!Out = Holders(p)
  BY DEF Limiter!Out, Holders
<1>2. Limiter(p)!Cardinality(Holders(p)) = Cardinality(Holders(p))
  BY DEF Limiter!Cardinality, Cardinality, Limiter!IsFiniteSet, IsFiniteSet
<1> QED
  BY <1>1, <1>2

\* A step of one worker is a step of the limiter of each provider, or none.
LEMMA LimiterStep ==
    ASSUME IInv, NEW w \in Workers, NEW p \in Providers, Charges(w)
    PROVE  UNCHANGED Limiter(p)!vars \/ Limiter(p)!Next
<1>1. TypeOK /\ Moves(w) /\ Charged(w, p) /\ Balanced(p)
  BY DEF IInv, Charges
<1>2. /\ HoldsAt(worker[w], p) = One(w \in Holders(p))
      /\ HoldsAt(worker'[w], p) = One(w \in Holders(p)')
      /\ \A v \in Workers \ {w} : v \in Holders(p) <=> v \in Holders(p)'
  <2>1. \A v \in Workers \ {w} :
          worker'[v].pc = worker[v].pc /\ worker'[v].at = worker[v].at
    BY <1>1 DEF Moves, TypeOK, WorkerType
  <2> QED
    BY <2>1 DEF Holders, HoldsAt, One
<1> DEFINE was == w \in Holders(p)
           is == w \in Holders(p)'
<1>3. /\ Held(p)' = [Held(p) EXCEPT ![w] = IF is THEN "period" ELSE "none"]
      /\ Held(p)[w] = IF was THEN "period" ELSE "none"
  BY <1>2 DEF Held
<1>4. CASE (is <=> was) /\ spent'[p] = spent[p] /\ ledger'[p].leaked = ledger[p].leaked
  <2>1. Held(p)' = Held(p)
    BY <1>2, <1>4 DEF Held
  <2>2. SpentIn(p)' = SpentIn(p)
    BY <1>4 DEF SpentIn
  <2> QED
    BY <1>4, <2>1, <2>2 DEF Limiter!vars, Held, SpentIn
<1>5. CASE /\ ~was /\ is /\ HasRoom(p) /\ spent'[p] = spent[p] + 1
           /\ ledger'[p].leaked = ledger[p].leaked
  <2>1. Held(p)[w] = "none" /\ Held(p)' = [Held(p) EXCEPT ![w] = "period"]
    BY <1>3, <1>5
  <2>2. /\ SpentIn(p)["period"] < Quota[p]
        /\ SpentIn(p)' = [SpentIn(p) EXCEPT !["period"] = @ + 1]
    BY <1>5 DEF SpentIn, HasRoom
  <2>3. Cardinality(Holders(p)) + ledger[p].leaked < MaxConcurrent[p]
    BY <1>1, <1>5 DEF HasRoom, Balanced
  <2>4. Limiter(p)!Reserve(w, "period")
    BY <1>5, <2>1, <2>2, <2>3, OutIsHolders DEF Limiter!Reserve, Held, SpentIn
  <2> QED
    BY <2>4 DEF Limiter!Next
<1>6. ASSUME was, ~is PROVE Limiter(p)!Ends(w)
  <2>1. Held(p)[w] # "none" /\ Held(p)' = [Held(p) EXCEPT ![w] = "none"]
    BY <1>3, <1>6
  <2> QED
    BY <2>1 DEF Limiter!Ends, Held
<1>7. CASE was /\ ~is /\ spent'[p] = spent[p] /\ ledger'[p].leaked = ledger[p].leaked
  <2>1. SpentIn(p)' = SpentIn(p)
    BY <1>7 DEF SpentIn
  <2>2. Limiter(p)!Keep(w)
    BY <1>6, <1>7, <2>1 DEF Limiter!Keep, SpentIn
  <2> QED
    BY <2>2 DEF Limiter!Next
<1>8. CASE was /\ ~is /\ spent'[p] = spent[p] - 1 /\ ledger'[p].leaked = ledger[p].leaked
  <2>1. Held(p)[w] = "period"
    BY <1>3, <1>8
  <2>2. SpentIn(p)' = [SpentIn(p) EXCEPT ![Held(p)[w]] = @ - 1]
    BY <1>8, <2>1 DEF SpentIn
  <2>3. Limiter(p)!GiveBack(w)
    BY <1>6, <1>8, <2>2 DEF Limiter!GiveBack, SpentIn, Held
  <2> QED
    BY <2>3 DEF Limiter!Next
<1>9. CASE was /\ ~is /\ spent'[p] = spent[p] /\ ledger'[p].leaked = ledger[p].leaked + 1
  <2>1. SpentIn(p)' = SpentIn(p)
    BY <1>9 DEF SpentIn
  <2>2. Limiter(p)!Lose(w)
    BY <1>6, <1>9, <2>1 DEF Limiter!Lose, SpentIn
  <2> QED
    BY <2>2 DEF Limiter!Next
<1> HIDE DEF was, is
<1>10. /\ HoldsAt(worker[w], p) = 1 <=> was
       /\ HoldsAt(worker[w], p) = 0 <=> ~was
       /\ HoldsAt(worker'[w], p) = 1 <=> is
       /\ HoldsAt(worker'[w], p) = 0 <=> ~is
       /\ HoldsAt(worker'[w], p) = HoldsAt(worker[w], p) <=> (is <=> was)
  BY <1>2 DEF One, was, is
<1> QED
  BY <1>1, <1>4, <1>5, <1>7, <1>8, <1>9, <1>10 DEF Charged

\* What is no worker's step leaves the limiters alone or restarts them.
LEMMA LimiterOutside ==
    ASSUME IInv, NEW p \in Providers,
           \/ (\E q \in Providers : SetEnabled(q)) \/ Restart \/ Tick
    PROVE  UNCHANGED Limiter(p)!vars \/ Limiter(p)!Next
<1>1. CASE Restart
  <2>1. Holders(p)' = {}
    BY <1>1, IdleSound DEF Restart, Holders, Holding
  <2>2. Held(p)' = [v \in Workers |-> "none"]
    BY <2>1 DEF Held
  <2>3. SpentIn(p)' = SpentIn(p)
    BY <1>1 DEF Restart, SpentIn
  <2>4. ledger'[p].leaked = 0
    <3>1. ledger[p] \in LedgerType
      BY DEF IInv, TypeOK
    <3>2. ledger'[p] = [ledger[p] EXCEPT !.faults = @ + 1, !.leaked = 0, !.stale = FALSE,
                                         !.lost = row[p].probes]
      BY <1>1, Zenon DEF Restart
    <3> QED
      BY <3>1, <3>2 DEF LedgerType
  <2>5. Limiter(p)!Restart
    BY <2>2, <2>3, <2>4 DEF Limiter!Restart, Held, SpentIn
  <2> QED
    BY <2>5 DEF Limiter!Next
<1>2. CASE (\E q \in Providers : SetEnabled(q)) \/ Tick
  <2>1. UNCHANGED <<limiterVars, worker, ledger>>
    BY <1>2 DEF SetEnabled, Tick
  <2>2. Held(p)' = Held(p) /\ SpentIn(p)' = SpentIn(p) /\ ledger'[p].leaked = ledger[p].leaked
    BY <2>1 DEF Held, SpentIn, Holders, limiterVars
  <2> QED
    BY <2>2 DEF Limiter!vars, Held, SpentIn
<1> QED
  BY <1>1, <1>2

\* Nobody holds anything at first.
LEMMA LimiterInit == ASSUME Init, NEW p \in Providers PROVE Limiter(p)!Init
<1>1. Holders(p) = {}
  BY IdleSound DEF Init, Holders, Holding
<1>2. Held(p) = [w \in Workers |-> "none"]
  BY <1>1 DEF Held
<1>3. SpentIn(p) = [k \in {"period"} |-> 0]
  BY DEF Init, SpentIn
<1>4. ledger[p].leaked = 0
  BY DEF Init, NewLedger
<1> QED
  BY <1>2, <1>3, <1>4 DEF Limiter!Init, Held, SpentIn

\* Whatever the failover loop, the breakers and faults do between a
\* reservation and its end, every provider's limiter sees only what module
\* Capacity allows.
THEOREM LimitersImplemented == Spec => ImplementsLimiters
<1>1. Init => \A p \in Providers : Limiter(p)!Init
  BY LimiterInit
<1>2. IInv /\ [Next]_vars =>
        [\A p \in Providers : UNCHANGED Limiter(p)!vars \/ Limiter(p)!Next]_vars
  <2> SUFFICES ASSUME IInv, Next, NEW p \in Providers
               PROVE  UNCHANGED Limiter(p)!vars \/ Limiter(p)!Next
    OBVIOUS
  <2>1. ASSUME NEW w \in Workers, Select(w) PROVE Charges(w)
    BY <2>1, SelectKeeps, ReserveKeeps, HandBackKeeps DEF Select
  <2>2. ASSUME NEW w \in Workers, Deliver(w) PROVE Charges(w)
    BY <2>2, RelayKeeps, SettleKeeps, FaultKeeps, ReportKeeps, PersistKeeps, UnplacedKeeps
    DEF Deliver
  <2> QED
    BY <2>1, <2>2, LimiterStep, LimiterOutside DEF Next
<1> QED
  BY <1>1, <1>2, IInvHolds, PTL DEF Spec, ImplementsLimiters

-----------------------------------------------------------------------------
(* The breakers *)

\* The workers as the breaker of p sees them, and its step.
View(p) == [w \in Workers |-> BreakerView(p, worker[w])]
BreakerMoves(p) == UNCHANGED Breaker(p)!vars \/ Breaker(p)!Next

\* What a step leaves alone at p, but for the workers.
Idle(p) == /\ breaker'[p] = breaker[p] /\ row'[p] = row[p]
           /\ ledger'[p].faults = ledger[p].faults
           /\ ledger'[p].stale = ledger[p].stale /\ ledger'[p].lost = ledger[p].lost

\* What the breaker of p sees of a worker.
LEMMA Views ==
    ASSUME NEW wk \in WorkerType, Sound(wk), NEW p \in Providers
    PROVE  /\ wk.at # p => BreakerView(p, wk) = "idle"
           /\ wk.pc \in {"idle", "unplaced", "giveback"} => BreakerView(p, wk) = "idle"
           /\ wk.at = p /\ wk.pc \in {"reserving", "gate"} => BreakerView(p, wk) = "available"
           /\ wk.at = p /\ wk.pc \in {"claiming", "recording"} => BreakerView(p, wk) = wk.pc
           /\ wk.at = p /\ wk.pc \in {"relaying", "settle", "report"} =>
                /\ BreakerView(p, wk) \in {"relaying", "probing", "late"}
                /\ BreakerView(p, wk) = Relaying(wk.role)
                /\ BreakerView(p, wk) = "probing" <=> wk.role = "probe"
  BY DEF BreakerView, Relaying, Sound, Placed

\* The breaker sees one worker move.
LEMMA ViewMoves ==
    ASSUME IInv, NEW w \in Workers, NEW p \in Providers, NEW wk \in WorkerType,
           worker' = [worker EXCEPT ![w] = wk]
    PROVE  View(p)' = [View(p) EXCEPT ![w] = BreakerView(p, wk)]
<1>1. \A v \in Workers : worker'[v] = IF v = w THEN wk ELSE worker[v]
  BY DEF IInv, TypeOK
<1>2. View(p)' = [v \in Workers |-> BreakerView(p, worker'[v])]
  BY DEF View, BreakerView, Relaying
<1>3. View(p) = [v \in Workers |-> BreakerView(p, worker[v])]
  BY DEF View
<1>4. \A v \in Workers : BreakerView(p, worker'[v]) =
        IF v = w THEN BreakerView(p, wk) ELSE BreakerView(p, worker[v])
  BY <1>1
<1> QED
  BY <1>2, <1>3, <1>4

\* A worker that is of no concern to the breaker of p stays so, or comes to it
\* while it is available.
LEMMA Elsewhere ==
    ASSUME IInv, NEW w \in Workers, NEW p \in Providers, NEW wk \in WorkerType, Sound(wk),
           worker' = [worker EXCEPT ![w] = wk], Idle(p),
           BreakerView(p, worker[w]) = "idle",
           wk.at = p /\ wk.pc # "giveback" => wk.pc = "reserving" /\ Breaker(p)!IsAvailable
    PROVE  BreakerMoves(p)
<1>1. View(p)' = [View(p) EXCEPT ![w] = BreakerView(p, wk)] /\ View(p)[w] = "idle"
  BY ViewMoves DEF View
<1>2. CASE BreakerView(p, wk) = "idle"
  <2>1. View(p)' = View(p)
    BY <1>1, <1>2 DEF View
  <2> QED
    BY <2>1 DEF BreakerMoves, Breaker!vars, View, Idle
<1>3. CASE wk.at = p /\ wk.pc = "reserving" /\ Breaker(p)!IsAvailable
  <2>1. View(p)' = [View(p) EXCEPT ![w] = "available"]
    BY <1>1, <1>3, Views
  <2>2. Breaker(p)!CheckAvailable(w)
    BY <1>1, <1>3, <2>1 DEF Breaker!CheckAvailable, View, Idle
  <2> QED
    BY <2>2 DEF BreakerMoves, Breaker!Next, Breaker!Gate
<1> QED
  BY <1>2, <1>3, Views

\* A worker at p that the breaker sees no differently.
LEMMA SeenSame ==
    ASSUME IInv, NEW w \in Workers, NEW p \in Providers, NEW wk \in WorkerType,
           worker' = [worker EXCEPT ![w] = wk], Idle(p),
           BreakerView(p, wk) = BreakerView(p, worker[w])
    PROVE  BreakerMoves(p)
<1>1. View(p)' = View(p)
  BY ViewMoves DEF View
<1> QED
  BY <1>1 DEF BreakerMoves, Breaker!vars, View, Idle

\* select asks, reserves and passes the gate of one breaker after the other.
LEMMA SelectBreakers ==
    ASSUME IInv, NEW w \in Workers, Select(w), NEW p \in Providers
    PROVE  BreakerMoves(p)
<1>1. /\ Sound(worker[w]) /\ worker[w] \in WorkerType /\ TypeOK
      /\ worker \in [Workers -> WorkerType]
  BY DEF IInv, TypeOK
<1>2. /\ Sound(IdleWorker) /\ IdleWorker \in WorkerType /\ IdleWorker.pc = "idle"
      /\ IdleWorker.at \notin Providers
  BY IdleSound DEF Sound, Placed
<1>3. ASSUME UNCHANGED <<breaker, row, ledger>> PROVE Idle(p)
  BY <1>3 DEF Idle
<1>4. CASE Begin(w)
  <2> DEFINE wk == Turn({})
  <2>1. /\ Sound(wk) /\ wk.pc \in {"idle", "reserving", "unplaced"}
        /\ wk.pc = "reserving" => Breaker(wk.at)!IsAvailable
    BY <1>1, TurnSound
  <2>2. worker' = [worker EXCEPT ![w] = wk] /\ Idle(p) /\ worker[w].pc = "idle"
    BY <1>3, <1>4 DEF Begin, breakerVars
  <2> HIDE DEF wk
  <2>3. wk.at = p => wk.pc = "reserving" /\ Breaker(p)!IsAvailable
    BY <2>1 DEF Sound, Placed
  <2> QED
    BY <1>1, <2>1, <2>2, <2>3, Views, Elsewhere DEF Sound
<1>5. CASE Reserve(w)
  <2> DEFINE wk == [worker[w] EXCEPT !.pc = "gate"]
  <2>1. worker' = [worker EXCEPT ![w] = wk] /\ Idle(p) /\ worker[w].pc = "reserving"
    BY <1>1, <1>3, <1>5 DEF Reserve, breakerVars
  <2>2. wk \in WorkerType /\ wk.pc = "gate" /\ wk.at = worker[w].at
    BY <1>1 DEF WorkerType, Holding
  <2> HIDE DEF wk
  <2>3. BreakerView(p, wk) = BreakerView(p, worker[w])
    BY <2>1, <2>2 DEF BreakerView
  <2> QED
    BY <2>1, <2>2, <2>3, SeenSame
<1>6. ASSUME worker[w].pc = "reserving", Idle(p), NEW wk \in WorkerType, Sound(wk),
             worker' = [worker EXCEPT ![w] = wk],
             wk.pc \in {"idle", "reserving", "unplaced"}, wk.at # worker[w].at,
             wk.pc = "reserving" => Breaker(wk.at)!IsAvailable
      PROVE  BreakerMoves(p)
  <2>1. CASE worker[w].at = p
    <3>1. View(p)[w] = "available" /\ View(p)' = [View(p) EXCEPT ![w] = "idle"]
      BY <1>1, <1>6, <2>1, Views, ViewMoves DEF View
    <3>2. Breaker(p)!NoReservation(w)
      BY <1>6, <3>1 DEF Breaker!NoReservation, View, Idle
    <3> QED
      BY <3>2 DEF BreakerMoves, Breaker!Next, Breaker!Gate
  <2>2. CASE worker[w].at # p
    <3>1. wk.at = p => wk.pc = "reserving" /\ Breaker(p)!IsAvailable
      BY <1>6 DEF Sound, Placed
    <3> QED
      BY <1>1, <1>6, <2>2, <3>1, Views, Elsewhere
  <2> QED
    BY <2>1, <2>2
<1>7. CASE ReserveRefused(w)
  <2> DEFINE wk == Advance(worker[w])
  <2>1. /\ worker' = [worker EXCEPT ![w] = wk] /\ Idle(p) /\ worker[w].pc = "reserving"
        /\ ~HasRoom(worker[w].at)
    BY <1>1, <1>3, <1>7 DEF ReserveRefused, breakerVars
  <2>2. /\ Sound(wk) /\ wk \in WorkerType /\ wk.pc \in {"reserving", "unplaced"}
        /\ wk.pc = "reserving" => wk.at # worker[w].at /\ Breaker(wk.at)!IsAvailable
    BY <2>1, AdvanceFrom
  <2> HIDE DEF wk
  <2>3. wk.at # worker[w].at
    BY <1>1, <2>1, <2>2 DEF Sound, Placed
  <2> QED
    BY <1>6, <2>1, <2>2, <2>3
<1>8. CASE ReserveFails(w)
  <2>1. /\ worker' = [worker EXCEPT ![w] = IdleWorker] /\ Idle(p)
        /\ worker[w].pc = "reserving"
    BY <1>3, <1>8 DEF ReserveFails, breakerVars
  <2>2. IdleWorker.at # worker[w].at
    BY <1>1, <1>2, <2>1 DEF Sound, Placed
  <2> QED
    BY <1>2, <1>6, <2>1, <2>2
<1>9. ASSUME worker[w].pc = "gate", NEW wk \in WorkerType, Sound(wk), Idle(p),
             worker' = [worker EXCEPT ![w] = wk], wk.at = worker[w].at, worker[w].at # p
      PROVE  BreakerMoves(p)
  BY <1>1, <1>9, Views, Elsewhere
<1>10. CASE GatePasses(w)
  <2> DEFINE wk == [worker[w] EXCEPT !.pc = "relaying"]
  <2>1. worker' = [worker EXCEPT ![w] = wk] /\ Idle(p) /\ worker[w].pc = "gate"
    BY <1>1, <1>3, <1>10 DEF GatePasses, breakerVars
  <2>2. /\ wk \in WorkerType /\ wk.pc = "relaying" /\ wk.at = worker[w].at
        /\ wk.role = worker[w].role
    BY <1>1 DEF WorkerType, Holding
  <2> HIDE DEF wk
  <2>3. wk.role = "traffic"
    BY <1>1, <2>1, <2>2 DEF Sound, Placed
  <2>4. CASE worker[w].at = p
    <3>1. BreakerView(p, wk) = "relaying"
      BY <2>2, <2>3, <2>4 DEF BreakerView, Relaying
    <3>2. View(p)[w] = "available" /\ View(p)' = [View(p) EXCEPT ![w] = "relaying"]
      BY <1>1, <2>1, <2>2, <2>4, <3>1, Views, ViewMoves DEF View
    <3>3. Breaker(p)!LockFree /\ Breaker(p)!Status = "closed"
      BY <1>10, <2>4 DEF GatePasses, LockFree
    <3>4. Breaker(p)!PassClosed(w)
      BY <2>1, <3>2, <3>3 DEF Breaker!PassClosed, View, Idle
    <3> QED
      BY <3>4 DEF BreakerMoves, Breaker!Next, Breaker!Gate
  <2>5. CASE worker[w].at # p
    <3>1. BreakerView(p, wk) = BreakerView(p, worker[w])
      BY <2>2, <2>5 DEF BreakerView
    <3> QED
      BY <2>1, <2>2, <3>1, SeenSame
  <2> QED
    BY <2>4, <2>5
<1>11. CASE ClaimProbe(w)
  <2> DEFINE wk == [worker[w] EXCEPT !.pc = "claiming"]
  <2>1. worker' = [worker EXCEPT ![w] = wk] /\ worker[w].pc = "gate"
        /\ UNCHANGED <<row, ledger>>
    BY <1>1, <1>11 DEF ClaimProbe
  <2>2. wk \in WorkerType /\ wk.pc = "claiming" /\ wk.at = worker[w].at
    BY <1>1 DEF WorkerType, Holding
  <2> HIDE DEF wk
  <2>3. CASE worker[w].at = p
    <3>1. BreakerView(p, wk) = "claiming"
      BY <2>2, <2>3 DEF BreakerView
    <3>2. View(p)[w] = "available" /\ View(p)' = [View(p) EXCEPT ![w] = "claiming"]
      BY <1>1, <2>1, <2>2, <2>3, <3>1, Views, ViewMoves DEF View
    <3>3. /\ Breaker(p)!LockFree /\ Breaker(p)!Status = "half_open" /\ Breaker(p)!SlotFree
          /\ breaker' = [breaker EXCEPT ![p].probes = @ + 1]
      BY <1>11, <2>3 DEF ClaimProbe, LockFree
    <3>4. breaker'[p] = [breaker[p] EXCEPT !.probes = @ + 1]
      BY <1>1, <3>3 DEF TypeOK
    <3>5. Breaker(p)!ClaimProbe(w)
      BY <2>1, <3>2, <3>3, <3>4 DEF Breaker!ClaimProbe, View
    <3> QED
      BY <3>5 DEF BreakerMoves, Breaker!Next, Breaker!Gate
  <2>4. CASE worker[w].at # p
    <3>1. BreakerView(p, wk) = BreakerView(p, worker[w])
      BY <2>2, <2>4 DEF BreakerView
    <3>2. breaker'[p] = breaker[p]
      BY <1>1, <1>11, <2>4 DEF ClaimProbe, TypeOK
    <3>3. Idle(p)
      BY <2>1, <3>2 DEF Idle
    <3> QED
      BY <2>1, <2>2, <3>1, <3>3, SeenSame
  <2> QED
    BY <2>3, <2>4
<1>12. CASE ProbeRefused(w)
  <2> DEFINE wk == AfterRefusal(worker[w])
  <2>1. /\ worker' = [worker EXCEPT ![w] = wk] /\ Idle(p) /\ worker[w].pc = "gate"
        /\ ~Breaker(worker[w].at)!IsAvailable
    BY <1>1, <1>3, <1>12 DEF ProbeRefused, breakerVars
  <2>2. Sound(wk) /\ wk \in WorkerType /\ wk.pc = "giveback" /\ wk.at = worker[w].at
    BY <2>1, RefusalSound
  <2> HIDE DEF wk
  <2>3. CASE worker[w].at = p
    <3>1. View(p)[w] = "available" /\ View(p)' = [View(p) EXCEPT ![w] = "idle"]
      BY <1>1, <2>1, <2>2, <2>3, Views, ViewMoves DEF View
    <3>2. Breaker(p)!LockFree /\ ~Breaker(p)!IsAvailable
      BY <1>12, <2>3 DEF ProbeRefused, LockFree
    <3>3. \/ Breaker(p)!Status = "open"
          \/ Breaker(p)!Status = "half_open" /\ ~Breaker(p)!SlotFree
      BY <3>2 DEF Breaker!IsAvailable, Breaker!Status, Breaker!SlotFree
    <3>4. Breaker(p)!ProbeRefused(w)
      BY <2>1, <3>1, <3>2, <3>3 DEF Breaker!ProbeRefused, View, Idle
    <3> QED
      BY <3>4 DEF BreakerMoves, Breaker!Next, Breaker!Gate
  <2> QED
    BY <1>9, <2>1, <2>2, <2>3
<1>13. CASE HandBack(w)
  <2> DEFINE wk == Advance(worker[w])
  <2>1. /\ worker' = [worker EXCEPT ![w] = wk] /\ Idle(p) /\ worker[w].pc = "giveback"
    BY <1>1, <1>3, <1>13 DEF HandBack, breakerVars
  <2>2. /\ Sound(wk) /\ wk \in WorkerType /\ wk.pc \in {"reserving", "unplaced"}
        /\ wk.pc = "reserving" => Breaker(wk.at)!IsAvailable
    BY <2>1, AdvanceFrom
  <2> HIDE DEF wk
  <2>3. wk.at = p => wk.pc = "reserving" /\ Breaker(p)!IsAvailable
    BY <2>2 DEF Sound, Placed
  <2> QED
    BY <1>1, <2>1, <2>2, <2>3, Views, Elsewhere
<1>14. CASE HandBackFails(w)
  <2>1. worker' = [worker EXCEPT ![w] = IdleWorker] /\ Idle(p) /\ worker[w].pc = "giveback"
    BY <1>3, <1>14 DEF HandBackFails, breakerVars
  <2> QED
    BY <1>1, <1>2, <2>1, Views, Elsewhere
<1> QED
  BY <1>4, <1>5, <1>7, <1>8, <1>10, <1>11, <1>12, <1>13, <1>14 DEF Select

\* A relay and its settlement are nothing to a breaker.
LEMMA RelayBreakers ==
    ASSUME IInv, NEW w \in Workers, NEW p \in Providers,
           (\E o \in Outcomes : Relay(w, o)) \/ Settle(w)
    PROVE  BreakerMoves(p)
<1>1. Sound(worker[w]) /\ worker[w] \in WorkerType /\ TypeOK
      /\ worker[w].pc \in {"relaying", "settle"}
  BY DEF IInv, TypeOK, Relay, Settle
<1>2. PICK q \in Providers : q = worker[w].at
  BY <1>1 DEF Sound, Placed
<1>3. \E n : ledger' = [ledger EXCEPT ![q].taken = n]
  BY <1>2 DEF Relay, Settle
<1>4. /\ ledger'[p].faults = ledger[p].faults /\ ledger'[p].stale = ledger[p].stale
      /\ ledger'[p].lost = ledger[p].lost
  BY <1>1, <1>3 DEF TypeOK, LedgerType
<1>5. Idle(p)
  BY <1>4 DEF Relay, Settle, breakerVars, Idle
<1>6. ASSUME NEW wk \in WorkerType, worker' = [worker EXCEPT ![w] = wk],
             wk.at = worker[w].at, wk.role = worker[w].role, wk.pc \in {"settle", "report"}
      PROVE  BreakerMoves(p)
  <2>1. BreakerView(p, wk) = BreakerView(p, worker[w])
    BY <1>1, <1>6 DEF BreakerView
  <2> QED
    BY <1>5, <1>6, <2>1, SeenSame
<1>7. ASSUME NEW o \in Outcomes, Relay(w, o) PROVE BreakerMoves(p)
  <2> DEFINE wk == [worker[w] EXCEPT !.pc = "settle", !.tried = @ \cup {q}, !.left = {},
                                     !.offered = {}, !.seen = {}, !.result = o.result,
                                     !.cut = o.cut]
  <2>1. worker' = [worker EXCEPT ![w] = wk]
    BY <1>2, <1>7, Zenon DEF Relay
  <2>2. /\ wk \in WorkerType /\ wk.at = worker[w].at /\ wk.role = worker[w].role
        /\ wk.pc = "settle"
    BY <1>1, <1>2, OutcomeFacts DEF WorkerType, Holding
  <2> HIDE DEF wk
  <2> QED
    BY <1>6, <2>1, <2>2
<1>8. CASE Settle(w)
  <2> DEFINE wk == [worker[w] EXCEPT !.pc = "report", !.cut = FALSE]
  <2>1. worker' = [worker EXCEPT ![w] = wk]
    BY <1>8 DEF Settle
  <2>2. /\ wk \in WorkerType /\ wk.at = worker[w].at /\ wk.role = worker[w].role
        /\ wk.pc = "report"
    BY <1>1 DEF WorkerType
  <2> HIDE DEF wk
  <2> QED
    BY <1>6, <2>1, <2>2
<1> QED
  BY <1>7, <1>8

\* What a fault at q writes in the ledgers.
LEMMA FaultLedger ==
    ASSUME IInv, NEW w \in Workers, NEW q \in Providers, q = worker[w].at,
           Abandon(w) \/ SettleFails(w) \/ PersistFails(w)
    PROVE  /\ ledger'[q].faults = ledger[q].faults + 1
           /\ Abandon(w) \/ SettleFails(w) =>
                /\ ledger'[q].stale = ledger[q].stale
                /\ ledger'[q].lost = IF worker[w].role = "probe" THEN ledger[q].lost + 1
                                     ELSE ledger[q].lost
           /\ PersistFails(w) =>
                /\ ledger'[q].stale
                /\ ledger'[q].lost = IF worker[w].pc = "claiming" THEN ledger[q].lost + 1
                                     ELSE ledger[q].lost
           /\ \A p \in Providers \ {q} : ledger'[p] = ledger[p]
<1>1. ledger \in [Providers -> LedgerType]
  BY DEF IInv, TypeOK
<1>2. ledger[q] \in LedgerType /\ ledger[q].faults \in Nat /\ ledger[q].lost \in Nat
  BY <1>1 DEF LedgerType
<1> DEFINE lost == IF worker[w].role = "probe" THEN ledger[q].lost + 1 ELSE ledger[q].lost
           d == [ledger[q] EXCEPT !.faults = @ + 1, !.lost = lost]
<1>3. Dropped(ledger[q], worker[w]) = d
  BY Zenon DEF Dropped
<1>4. CASE Abandon(w)
  <2>1. ledger' = [ledger EXCEPT ![q] = [d EXCEPT !.leaked = @ + 1]]
    BY <1>3, <1>4, Zenon DEF Abandon
  <2>2. worker[w].pc # "claiming" /\ worker[w].pc # "recording"
    BY <1>4 DEF Abandon
  <2> HIDE DEF lost
  <2>3. /\ ledger'[q].faults = ledger[q].faults + 1 /\ ledger'[q].stale = ledger[q].stale
        /\ ledger'[q].lost = lost /\ \A p \in Providers \ {q} : ledger'[p] = ledger[p]
    BY <1>1, <1>2, <2>1 DEF LedgerType
  <2> QED
    BY <2>2, <2>3 DEF PersistFails, lost
<1>5. CASE SettleFails(w)
  <2>1. ledger' = [ledger EXCEPT ![q] = d]
    BY <1>3, <1>5, Zenon DEF SettleFails
  <2>2. worker[w].pc # "claiming" /\ worker[w].pc # "recording"
    BY <1>5 DEF SettleFails
  <2> HIDE DEF lost
  <2>3. /\ ledger'[q].faults = ledger[q].faults + 1 /\ ledger'[q].stale = ledger[q].stale
        /\ ledger'[q].lost = lost /\ \A p \in Providers \ {q} : ledger'[p] = ledger[p]
    BY <1>1, <1>2, <2>1 DEF LedgerType
  <2> QED
    BY <2>2, <2>3 DEF PersistFails, lost
<1>6. CASE PersistFails(w)
  <2> DEFINE claimed == IF worker[w].pc = "claiming" THEN 1 ELSE 0
             l == [ledger[q] EXCEPT !.faults = @ + 1, !.stale = TRUE, !.lost = @ + claimed,
                                    !.leaked = @ + claimed]
  <2>1. ledger' = [ledger EXCEPT ![q] = l]
    BY <1>6, Zenon DEF PersistFails
  <2>2. worker[w].pc \in {"claiming", "recording"}
    BY <1>6 DEF PersistFails
  <2>3. ledger[q].lost + claimed = IF worker[w].pc = "claiming" THEN ledger[q].lost + 1
                                   ELSE ledger[q].lost
    BY <1>2
  <2> HIDE DEF claimed
  <2>4. /\ l.faults = ledger[q].faults + 1 /\ l.stale = TRUE
        /\ l.lost = ledger[q].lost + claimed
    BY <1>2 DEF LedgerType
  <2> HIDE DEF l
  <2>5. ledger'[q] = l /\ \A p \in Providers \ {q} : ledger'[p] = ledger[p]
    BY <1>1, <2>1
  <2>6. ~Abandon(w) /\ ~SettleFails(w)
    BY <2>2 DEF Abandon, SettleFails
  <2> QED
    BY <2>3, <2>4, <2>5, <2>6
<1> QED
  BY <1>4, <1>5, <1>6

\* A fault between the gate and the end of the report.
LEMMA FaultBreakers ==
    ASSUME IInv, NEW w \in Workers, NEW p \in Providers,
           Abandon(w) \/ SettleFails(w) \/ PersistFails(w)
    PROVE  BreakerMoves(p)
<1>1. /\ Sound(worker[w]) /\ worker[w] \in WorkerType /\ TypeOK
      /\ worker[w].pc \in {"relaying", "settle", "claiming", "recording"} /\ CanFail
      /\ worker' = [worker EXCEPT ![w] = IdleWorker] /\ UNCHANGED <<breaker, row>>
  BY DEF IInv, TypeOK, Abandon, SettleFails, PersistFails, breakerVars
<1>2. PICK q \in Providers : q = worker[w].at
  BY <1>1 DEF Sound, Placed
<1>3. /\ Sound(IdleWorker) /\ IdleWorker \in WorkerType /\ IdleWorker.pc = "idle"
      /\ IdleWorker.at \notin Providers
  BY IdleSound DEF Sound, Placed
<1>4. ledger[p].faults < MaxFaults
  <2>1. /\ ledger[p].faults + dbFaults < MaxFaults /\ ledger[p].faults \in Nat
        /\ dbFaults \in Nat
    BY <1>1 DEF CanFail, TypeOK, LedgerType
  <2> QED
    BY <2>1, SwitchAssumption
<1>5. CASE p # q
  <2>1. ledger'[p] = ledger[p]
    BY <1>2, <1>5, FaultLedger
  <2>2. Idle(p)
    BY <1>1, <2>1 DEF Idle
  <2> QED
    BY <1>1, <1>2, <1>3, <1>5, <2>2, Views, Elsewhere
<1>6. CASE p = q
  <2>1. View(p)' = [View(p) EXCEPT ![w] = "idle"] /\ View(p)[w] = BreakerView(p, worker[w])
    <3>1. BreakerView(p, IdleWorker) = "idle"
      BY <1>3, Views
    <3>2. View(p)' = [View(p) EXCEPT ![w] = BreakerView(p, IdleWorker)]
      BY <1>1, <1>3, ViewMoves
    <3> QED
      BY <3>1, <3>2 DEF View
  <2>2. CASE Abandon(w) \/ SettleFails(w)
    <3>1. worker[w].pc \in {"relaying", "settle"}
      BY <2>2 DEF Abandon, SettleFails
    <3>2. /\ View(p)[w] \in {"relaying", "probing", "late"}
          /\ View(p)[w] = "probing" <=> worker[w].role = "probe"
      BY <1>1, <1>2, <1>6, <2>1, <3>1, Views
    <3>3. /\ ledger'[p].faults = ledger[p].faults + 1 /\ ledger'[p].stale = ledger[p].stale
          /\ ledger'[p].lost = IF View(p)[w] = "probing" THEN ledger[p].lost + 1
                               ELSE ledger[p].lost
      BY <1>2, <1>6, <2>2, <3>2, FaultLedger
    <3>4. Breaker(p)!Abandon(w)
      BY <1>1, <1>4, <2>1, <3>2, <3>3 DEF Breaker!Abandon, View
    <3> QED
      BY <3>4 DEF BreakerMoves, Breaker!Next
  <2>3. CASE PersistFails(w)
    <3>1. worker[w].pc \in {"claiming", "recording"}
      BY <2>3 DEF PersistFails
    <3>2. View(p)[w] = worker[w].pc
      BY <1>1, <1>2, <1>6, <2>1, <3>1, Views
    <3>3. /\ ledger'[p].faults = ledger[p].faults + 1 /\ ledger'[p].stale = TRUE
          /\ ledger'[p].lost = IF View(p)[w] = "claiming" THEN ledger[p].lost + 1
                               ELSE ledger[p].lost
      <4>1. ledger'[p] \in LedgerType
        BY <2>3, FaultKeeps DEF IInv, TypeOK
      <4> QED
        BY <1>2, <1>6, <2>3, <3>2, <4>1, FaultLedger DEF LedgerType
    <3>4. Breaker(p)!PersistFails(w)
      BY <1>1, <1>4, <2>1, <3>1, <3>2, <3>3 DEF Breaker!PersistFails, View
    <3> QED
      BY <3>4 DEF BreakerMoves, Breaker!Next
  <2> QED
    BY <2>2, <2>3
<1> QED
  BY <1>5, <1>6

\* A report ends the round at its own breaker and at no other.
LEMMA ReportBreakers ==
    ASSUME IInv, NEW w \in Workers, NEW p \in Providers, Report(w)
    PROVE  BreakerMoves(p)
<1>1. /\ Sound(worker[w]) /\ worker[w] \in WorkerType /\ TypeOK
      /\ worker[w].pc = "report" /\ worker \in [Workers -> WorkerType]
      /\ \A v \in Workers : Sound(worker[v]) /\ worker[v] \in WorkerType
  BY DEF IInv, TypeOK, Report
<1>2. PICK q \in Providers : q = worker[w].at
  BY <1>1 DEF Sound, Placed
<1> DEFINE wk == [worker[w] EXCEPT !.pc = "recording", !.role = "traffic"]
<1>3. /\ worker' = [RoundEnds(q, worker) EXCEPT ![w] = wk]
      /\ ledger' = [ledger EXCEPT ![q].lost = 0] /\ row' = row
      /\ LockFree(q)
      /\ breaker' = [breaker EXCEPT ![q] =
           IF worker[w].result \in {"sent", "permanent"}
           THEN Breaker(q)!AfterSuccess ELSE Breaker(q)!AfterFailure]
  BY <1>2 DEF Report
<1>4. /\ wk \in WorkerType /\ wk.pc = "recording" /\ wk.at = q
  BY <1>1, <1>2 DEF WorkerType
<1> HIDE DEF wk
<1>5. /\ worker'[w] = wk
      /\ \A v \in Workers \ {w} :
           worker'[v] = IF worker[v].at = q /\ worker[v].role = "probe"
                        THEN [worker[v] EXCEPT !.role = "late"] ELSE worker[v]
  BY <1>3 DEF RoundEnds
<1>6. View(p)' = [v \in Workers |-> BreakerView(p, worker'[v])]
  BY DEF View, BreakerView, Relaying
<1>7. View(p) = [v \in Workers |-> BreakerView(p, worker[v])]
  BY DEF View
<1>8. CASE p # q
  <2>1. ASSUME NEW v \in Workers
        PROVE  BreakerView(p, worker'[v]) = BreakerView(p, worker[v])
    <3>1. CASE v = w
      BY <1>2, <1>4, <1>5, <1>8, <3>1 DEF BreakerView
    <3>2. CASE v # w /\ worker[v].at = q /\ worker[v].role = "probe"
      <4>1. worker'[v].at = q
        <5>1. worker'[v] = [worker[v] EXCEPT !.role = "late"] /\ worker[v] \in WorkerType
          BY <1>1, <1>5, <3>2
        <5> QED
          BY <3>2, <5>1 DEF WorkerType
      <4> QED
        BY <1>8, <3>2, <4>1 DEF BreakerView
    <3>3. CASE v # w /\ ~(worker[v].at = q /\ worker[v].role = "probe")
      BY <1>5, <3>3
    <3> QED
      BY <3>1, <3>2, <3>3
  <2>2. View(p)' = View(p)
    BY <1>6, <1>7, <2>1
  <2>3. breaker'[p] = breaker[p] /\ ledger'[p] = ledger[p]
    BY <1>1, <1>3, <1>8 DEF TypeOK
  <2> QED
    BY <1>3, <2>2, <2>3 DEF BreakerMoves, Breaker!vars, View
<1>9. CASE p = q
  <2> DEFINE ended == [v \in Workers |-> IF View(p)[v] = "probing" THEN "late"
                                         ELSE View(p)[v]]
  <2>1. ASSUME NEW v \in Workers \ {w}
        PROVE  BreakerView(p, worker'[v]) = ended[v]
    <3>1. View(p)[v] = BreakerView(p, worker[v])
      BY <1>7
    <3>2. CASE worker[v].at = q /\ worker[v].role = "probe"
      <4>1. worker[v].pc \in {"relaying", "settle", "report"}
        BY <1>1, <3>2 DEF Sound, Placed
      <4>2. BreakerView(p, worker[v]) = "probing"
        BY <1>1, <1>9, <3>2, <4>1, Views
      <4>3. /\ worker'[v].at = q /\ worker'[v].role = "late"
            /\ worker'[v].pc = worker[v].pc
        BY <1>1, <1>5, <3>2 DEF WorkerType
      <4>4. BreakerView(p, worker'[v]) = "late"
        BY <1>9, <4>1, <4>3 DEF BreakerView, Relaying
      <4> QED
        BY <3>1, <4>2, <4>4
    <3>3. CASE ~(worker[v].at = q /\ worker[v].role = "probe")
      <4>1. worker'[v] = worker[v]
        BY <1>5, <3>3
      <4>2. BreakerView(p, worker[v]) # "probing"
        BY <1>1, <1>9, <3>3 DEF BreakerView, Relaying
      <4> QED
        BY <3>1, <4>1, <4>2
    <3> QED
      BY <3>2, <3>3
  <2>2. BreakerView(p, worker'[w]) = "recording"
    BY <1>4, <1>5, <1>9 DEF BreakerView
  <2>3. View(p)' = [ended EXCEPT ![w] = "recording"]
    BY <1>6, <2>1, <2>2
  <2>4. Breaker(p)!EndRound(View(p)) = ended
    BY DEF Breaker!EndRound
  <2> HIDE DEF ended
  <2>5. View(p)[w] \in {"relaying", "probing", "late"}
    BY <1>1, <1>2, <1>7, <1>9, Views
  <2>6. /\ ledger'[p].lost = 0 /\ ledger'[p].faults = ledger[p].faults
        /\ ledger'[p].stale = ledger[p].stale
    BY <1>1, <1>3, <1>9 DEF TypeOK, LedgerType
  <2>7. PICK st \in {Breaker(p)!AfterSuccess, Breaker(p)!AfterFailure} : breaker'[p] = st
    BY <1>1, <1>3, <1>9 DEF TypeOK
  <2>8. Breaker(p)!Report(w, st)
    BY <1>3, <1>9, <2>3, <2>4, <2>5, <2>6, <2>7 DEF Breaker!Report, View, LockFree
  <2>9. Breaker(p)!Record(w)
    BY <2>7, <2>8 DEF Breaker!Record, Breaker!RecordSuccess, Breaker!RecordFailure
  <2> QED
    BY <2>9 DEF BreakerMoves, Breaker!Next
<1> QED
  BY <1>8, <1>9

\* _persist ends a claim or a report at its own breaker; the next turn may
\* begin at another.
LEMMA PersistBreakers ==
    ASSUME IInv, NEW w \in Workers, NEW p \in Providers, Persist(w)
    PROVE  BreakerMoves(p)
<1>1. /\ Sound(worker[w]) /\ worker[w] \in WorkerType /\ TypeOK
      /\ worker[w].pc \in {"claiming", "recording"} /\ worker[w].tried \in SUBSET Providers
  BY DEF IInv, TypeOK, Persist, WorkerType
<1>2. PICK q \in Providers : q = worker[w].at
  BY <1>1 DEF Sound, Placed
<1>3. /\ row' = [row EXCEPT ![q] = breaker[q]]
      /\ ledger' = [ledger EXCEPT ![q].stale = FALSE] /\ breaker' = breaker
  BY <1>2 DEF Persist
<1>4. PICK wk \in WorkerType :
        /\ Sound(wk) /\ worker' = [worker EXCEPT ![w] = wk]
        /\ worker[w].pc = "claiming" => /\ wk.at = q /\ wk.pc = "relaying"
                                        /\ wk.role = "probe"
        /\ worker[w].pc = "recording" =>
             /\ wk.at # q /\ wk.pc \in {"idle", "reserving", "unplaced"}
             /\ wk.pc = "reserving" => Breaker(wk.at)!IsAvailable
  <2>1. CASE worker[w].pc = "claiming"
    <3> DEFINE probe == [worker[w] EXCEPT !.pc = "relaying", !.role = "probe"]
    <3>1. worker' = [worker EXCEPT ![w] = probe]
      BY <2>1 DEF Persist
    <3>2. /\ probe \in WorkerType /\ probe.pc = "relaying" /\ probe.at = worker[w].at
          /\ probe.tried = worker[w].tried /\ probe.left = worker[w].left
          /\ probe.offered = worker[w].offered /\ probe.seen = worker[w].seen
          /\ probe.cut = worker[w].cut /\ probe.role = "probe"
      BY <1>1 DEF WorkerType, Holding
    <3> HIDE DEF probe
    <3>3. Sound(probe)
      BY <1>1, <2>1, <3>2 DEF Sound, Placed, Passed, Holding
    <3> QED
      BY <1>2, <2>1, <3>1, <3>2, <3>3
  <2>2. CASE worker[w].pc = "recording"
    <3> DEFINE turn == Turn(worker[w].tried)
    <3>1. \/ worker' = [worker EXCEPT ![w] = IdleWorker]
          \/ worker' = [worker EXCEPT ![w] = turn]
      BY <2>2 DEF Persist
    <3>2. /\ Sound(turn) /\ turn \in WorkerType
          /\ turn.pc \in {"idle", "reserving", "unplaced"}
          /\ turn.pc = "reserving" =>
               turn.at \notin worker[w].tried /\ Breaker(turn.at)!IsAvailable
      BY <1>1, TurnSound DEF Sound
    <3> HIDE DEF turn
    <3>3. q \in worker[w].tried
      BY <1>1, <1>2, <2>2 DEF Sound, Placed
    <3>4. turn.at # q
      BY <3>2, <3>3 DEF Sound, Placed
    <3>5. Sound(IdleWorker) /\ IdleWorker \in WorkerType /\ IdleWorker.at # q
          /\ IdleWorker.pc = "idle"
      BY IdleSound DEF Sound, Placed
    <3>6. CASE worker' = [worker EXCEPT ![w] = IdleWorker]
      BY <2>2, <3>5, <3>6
    <3>7. CASE worker' = [worker EXCEPT ![w] = turn]
      BY <2>2, <3>2, <3>4, <3>7
    <3> QED
      BY <3>1, <3>6, <3>7
  <2> QED
    BY <1>1, <2>1, <2>2
<1>5. CASE p # q
  <2>1. Idle(p)
    BY <1>1, <1>3, <1>5 DEF Idle, TypeOK
  <2>2. BreakerView(p, worker[w]) = "idle"
    BY <1>1, <1>2, <1>5, Views
  <2>3. wk.at = p => wk.pc = "reserving" /\ Breaker(p)!IsAvailable
    BY <1>1, <1>4, <1>5 DEF Sound, Placed
  <2> QED
    BY <1>4, <2>1, <2>2, <2>3, Elsewhere
<1>6. CASE p = q
  <2>1. View(p)[w] = worker[w].pc /\ View(p)' = [View(p) EXCEPT ![w] = BreakerView(p, wk)]
    <3>1. BreakerView(p, worker[w]) = worker[w].pc
      BY <1>1, <1>2, <1>6, Views
    <3>2. View(p)' = [View(p) EXCEPT ![w] = BreakerView(p, wk)]
      BY <1>4, ViewMoves
    <3> QED
      BY <3>1, <3>2 DEF View
  <2>2. BreakerView(p, wk) = IF View(p)[w] = "claiming" THEN "probing" ELSE "idle"
    BY <1>1, <1>4, <1>6, <2>1 DEF BreakerView, Relaying
  <2>3. /\ row'[p] = breaker[p] /\ breaker'[p] = breaker[p]
    BY <1>1, <1>3, <1>6 DEF TypeOK
  <2>4. /\ ledger'[p].faults = ledger[p].faults /\ ledger'[p].lost = ledger[p].lost
        /\ ledger'[p].stale = FALSE
    <3>1. ledger[p] \in LedgerType /\ ledger'[p] = [ledger[p] EXCEPT !.stale = FALSE]
      BY <1>1, <1>3, <1>6 DEF TypeOK
    <3> QED
      BY <3>1 DEF LedgerType
  <2>5. Breaker(p)!AfterWrite(w) = BreakerView(p, wk)
    BY <2>2 DEF Breaker!AfterWrite, View
  <2>6. Breaker(p)!Written = breaker[p]
    BY DEF Breaker!Written
  <2>7. Breaker(p)!Persist(w)
    BY <1>1, <2>1, <2>3, <2>4, <2>5, <2>6 DEF Breaker!Persist, View
  <2> QED
    BY <2>7 DEF BreakerMoves, Breaker!Next
<1> QED
  BY <1>5, <1>6

\* A message that found no provider is nothing to any breaker.
LEMMA UnplacedBreakers ==
    ASSUME IInv, NEW w \in Workers, NEW p \in Providers, HandleNoSuccess(w)
    PROVE  BreakerMoves(p)
<1>1. /\ worker[w].pc = "unplaced" /\ worker' = [worker EXCEPT ![w] = IdleWorker]
      /\ UNCHANGED <<breaker, row, ledger>> /\ Sound(worker[w]) /\ worker[w] \in WorkerType
  BY DEF HandleNoSuccess, breakerVars, IInv, TypeOK
<1>2. /\ Sound(IdleWorker) /\ IdleWorker \in WorkerType /\ IdleWorker.at # p
  BY IdleSound DEF Sound, Placed
<1>3. Idle(p)
  BY <1>1 DEF Idle
<1> QED
  BY <1>1, <1>2, <1>3, Views, Elsewhere

\* The operator's toggle, a restart and time.
LEMMA OutsideBreakers ==
    ASSUME IInv, NEW p \in Providers,
           (\E q \in Providers : SetEnabled(q)) \/ Restart \/ Tick
    PROVE  BreakerMoves(p)
<1>1. TypeOK
  BY DEF IInv
<1>2. CASE \E q \in Providers : SetEnabled(q)
  BY <1>2 DEF SetEnabled, breakerVars, BreakerMoves, Breaker!vars, BreakerView, Relaying
<1>3. CASE Restart
  <2>1. /\ breaker'[p] = row[p] /\ row'[p] = row[p]
        /\ worker' = [w \in Workers |-> IdleWorker] /\ CanFail
    BY <1>3 DEF Restart
  <2>2. View(p)' = [w \in Workers |-> "idle"]
    <3>1. View(p)' = [w \in Workers |-> BreakerView(p, worker'[w])]
      BY DEF View, BreakerView, Relaying
    <3>2. BreakerView(p, IdleWorker) = "idle"
      BY IdleSound, Views DEF Sound
    <3> QED
      BY <2>1, <3>1, <3>2
  <2>3. /\ ledger'[p].faults = ledger[p].faults + 1 /\ ledger'[p].stale = FALSE
        /\ ledger'[p].lost = row[p].probes
    <3>1. ledger'[p] = [ledger[p] EXCEPT !.faults = @ + 1, !.leaked = 0, !.stale = FALSE,
                                         !.lost = row[p].probes]
      BY <1>3, Zenon DEF Restart
    <3>2. ledger[p] \in LedgerType
      BY <1>1 DEF TypeOK
    <3> QED
      BY <3>1, <3>2 DEF LedgerType
  <2>4. ledger[p].faults < MaxFaults
    <3>1. /\ ledger[p].faults + dbFaults < MaxFaults /\ ledger[p].faults \in Nat
          /\ dbFaults \in Nat
      BY <1>1, <2>1 DEF CanFail, TypeOK, LedgerType
    <3> QED
      BY <3>1, SwitchAssumption
  <2>5. Breaker(p)!Restart
    BY <2>1, <2>2, <2>3, <2>4 DEF Breaker!Restart, View
  <2> QED
    BY <2>5 DEF BreakerMoves, Breaker!Next
<1>4. CASE Tick
  <2>1. /\ breaker'[p] = Breaker(p)!Aged(breaker[p]) /\ row'[p] = Breaker(p)!Aged(row[p])
        /\ UNCHANGED <<worker, ledger>>
    BY <1>4 DEF Tick
  <2>2. View(p)' = View(p)
    BY <2>1 DEF View, BreakerView, Relaying
  <2>3. Breaker(p)!Tick
    BY <2>1, <2>2 DEF Breaker!Tick, View
  <2> QED
    BY <2>3 DEF BreakerMoves, Breaker!Next
<1> QED
  BY <1>2, <1>3, <1>4

\* Each breaker starts closed, with nobody at it.
LEMMA BreakerInit == ASSUME Init, NEW p \in Providers PROVE Breaker(p)!Init
<1>1. BreakerView(p, IdleWorker) = "idle"
  BY IdleSound, Views DEF Sound
<1>2. View(p) = [w \in Workers |-> "idle"]
  BY <1>1 DEF Init, View
<1>3. /\ breaker[p] = Breaker(p)!FreshState /\ row[p] = Breaker(p)!FreshState
      /\ ledger[p].faults = 0 /\ ledger[p].stale = FALSE /\ ledger[p].lost = 0
  BY DEF Init, NewLedger
<1> QED
  BY <1>2, <1>3 DEF Breaker!Init, View

\* The failover loop uses every breaker as module CircuitBreaker assumes it is
\* used: it asks, claims, reports and writes in that order, under the lock, and
\* what a worker does at one provider is no step of another's breaker.
THEOREM BreakersImplemented == Spec => ImplementsBreakers
<1>1. Init => \A p \in Providers : Breaker(p)!Init
  BY BreakerInit
<1>2. IInv /\ [Next]_vars =>
        [\A p \in Providers : UNCHANGED Breaker(p)!vars \/ Breaker(p)!Next]_vars
  <2> SUFFICES ASSUME IInv, Next, NEW p \in Providers PROVE BreakerMoves(p)
    BY DEF BreakerMoves
  <2>1. ASSUME NEW w \in Workers, Deliver(w) PROVE BreakerMoves(p)
    BY <2>1, RelayBreakers, FaultBreakers, ReportBreakers, PersistBreakers,
       UnplacedBreakers DEF Deliver
  <2> QED
    BY <2>1, SelectBreakers, OutsideBreakers DEF Next
<1> QED
  BY <1>1, <1>2, IInvHolds, PTL DEF Spec, ImplementsBreakers
=============================================================================
