------------------------------ MODULE EventProofs ------------------------------
(***************************************************************************)
(* Theorems about the event log: an indexer that replays it agrees with    *)
(* storage, and may rely on the order of its events.                       *)
(***************************************************************************)
EXTENDS EventLog, CustodyProofs, SequenceTheorems

-----------------------------------------------------------------------------
(* Sums, continued                                                         *)

(* Any term may be taken out of a sum first, not only the one the fold     *)
(* picks.                                                                  *)
LEMMA SumRemoves ==
  ASSUME NEW S, IsFiniteSet(S), NEW f \in [S -> Nat]
  PROVE  \A s \in SUBSET S : \A p \in s :
           /\ TheSum(f, S)[s] = f[p] + TheSum(f, S)[s \ {p}]
           /\ TheSum(f, S)[s \ {p}] \in Nat
PROOF
<1> DEFINE g == TheSum(f, S)
           Splits(s) == /\ g[s] \in Nat
                        /\ \A p \in s : g[s] = f[p] + g[s \ {p}]
           bad == {s \in SUBSET S : ~Splits(s)}
           sizes == {Cardinality(s) : s \in bad}
<1>1. /\ g[{}] = 0
      /\ \A s \in SUBSET S : s # {} => g[s] = f[Pick(s)] + g[s \ {Pick(s)}]
  BY SumUnrolls
<1>2. \A s \in SUBSET S : IsFiniteSet(s) /\ Cardinality(s) \in Nat
  BY FS_Subset, FS_CardinalityType
<1>3. \A s \in SUBSET S : \A p \in s : Cardinality(s \ {p}) < Cardinality(s)
  <2> TAKE s \in SUBSET S
  <2> TAKE p \in s
  <2>1. IsFiniteSet(s) /\ Cardinality(s) \in Nat
    BY <1>2
  <2>2. Cardinality(s \ {p}) = Cardinality(s) - 1
    BY <2>1, FS_RemoveElement
  <2> QED
    BY <2>1, <2>2
<1> HIDE DEF g
<1>4. ASSUME NEW s \in SUBSET S,
             \A r \in SUBSET S : Cardinality(r) < Cardinality(s) => Splits(r)
      PROVE  Splits(s)
  <2>1. CASE s = {}
    BY <1>1, <2>1
  <2>2. CASE s # {}
    <3> DEFINE q == Pick(s)
    <3>1. q \in s /\ q \in S /\ g[s] = f[q] + g[s \ {q}]
      BY <1>1, <2>2 DEF Pick
    <3> HIDE DEF q
    <3>2. ASSUME NEW p \in s PROVE Splits(s \ {p}) /\ g[s \ {p}] \in Nat
      <4>1. s \ {p} \in SUBSET S /\ Cardinality(s \ {p}) < Cardinality(s)
        BY <1>3
      <4> QED
        BY <1>4, <4>1
    <3>3. g[s] \in Nat
      BY <3>1, <3>2
    <3>4. ASSUME NEW p \in s, p # q PROVE g[s] = f[p] + g[s \ {p}]
      <4> DEFINE rest == (s \ {p}) \ {q}
      <4>1. (s \ {q}) \ {p} = rest
        OBVIOUS
      <4>2. g[s \ {p}] = f[q] + g[rest]
        BY <3>1, <3>2, <3>4
      <4>3. g[s \ {q}] = f[p] + g[(s \ {q}) \ {p}]
        BY <3>1, <3>2, <3>4
      <4>4. rest \in SUBSET S /\ Cardinality(rest) < Cardinality(s)
        <5>1. /\ s \ {p} \in SUBSET S /\ q \in s \ {p}
          BY <3>1, <3>4
        <5>2. /\ Cardinality(rest) < Cardinality(s \ {p})
              /\ Cardinality(s \ {p}) < Cardinality(s)
          BY <1>3, <5>1
        <5>3. /\ rest \in SUBSET S
              /\ Cardinality(rest) \in Nat /\ Cardinality(s \ {p}) \in Nat
              /\ Cardinality(s) \in Nat
          BY <1>2, <5>1
        <5> HIDE DEF rest
        <5> QED
          BY <5>2, <5>3
      <4>5. g[rest] \in Nat
        BY <1>4, <4>4
      <4>6. f[p] \in Nat /\ f[q] \in Nat
        BY <3>1
      <4>7. g[s] = f[q] + (f[p] + g[rest])
        BY <3>1, <4>1, <4>3
      <4> HIDE DEF rest
      <4> QED
        BY <4>2, <4>5, <4>6, <4>7
    <3> QED
      BY <3>1, <3>3, <3>4
  <2> QED
    BY <2>1, <2>2
<1>5. bad = {}
  <2> SUFFICES ASSUME bad # {} PROVE FALSE
    OBVIOUS
  <2>1. sizes \in SUBSET Nat /\ sizes # {}
    BY <1>2
  <2>2. PICK n \in sizes : \A k \in sizes : n <= k
    <3> HIDE DEF sizes
    <3> QED
      BY <2>1, LeastNatural
  <2>3. PICK s \in bad : Cardinality(s) = n
    OBVIOUS
  <2>4. ASSUME NEW r \in SUBSET S, Cardinality(r) < Cardinality(s)
        PROVE  Splits(r)
    <3>1. CASE r \in bad
      <4>1. Cardinality(r) \in sizes /\ n <= Cardinality(r)
        BY <2>2, <3>1
      <4>2. Cardinality(r) \in Nat /\ n \in Nat
        BY <1>2, <2>1
      <4> QED
        BY <2>3, <2>4, <4>1, <4>2
    <3> QED
      BY <3>1
  <2> QED
    BY <1>4, <2>3, <2>4
<1>6. \A s \in SUBSET S : Splits(s)
  BY <1>5
<1>7. ASSUME NEW s \in SUBSET S, NEW p \in s
      PROVE  g[s] = f[p] + g[s \ {p}] /\ g[s \ {p}] \in Nat
  <2>1. s \ {p} \in SUBSET S
    OBVIOUS
  <2> QED
    BY <1>6, <2>1
<1> QED
  BY <1>7 DEF g

(* Sums over a part of the domain do not depend on the rest.               *)
LEMMA SumOfPart ==
  ASSUME NEW D, IsFiniteSet(D), NEW f \in [D -> Nat], NEW S \in SUBSET D,
         NEW h \in [S -> Nat], \A x \in S : h[x] = f[x]
  PROVE  TheSum(f, D)[S] = SumFunction(h)
PROOF
<1> DEFINE sf == TheSum(f, D)
           sh == TheSum(h, S)
           bad == {s \in SUBSET S : sf[s] # sh[s]}
<1>1. IsFiniteSet(S)
  BY FS_Subset
<1>2. /\ sf[{}] = 0 /\ sh[{}] = 0
      /\ \A s \in SUBSET S : s # {} => sf[s] = f[Pick(s)] + sf[s \ {Pick(s)}]
      /\ \A s \in SUBSET S : s # {} => sh[s] = h[Pick(s)] + sh[s \ {Pick(s)}]
  <2>1. SUBSET S \subseteq SUBSET D
    OBVIOUS
  <2> QED
    BY <1>1, <2>1, SumUnrolls
<1> HIDE DEF sf, sh
<1>3. bad = {}
  <2>1. bad \in SUBSET SUBSET S
    OBVIOUS
  <2>2. ASSUME NEW s \in bad PROVE s # {} /\ s \ {Pick(s)} \in bad
    <3>1. s # {}
      BY <1>2
    <3>2. Pick(s) \in S /\ h[Pick(s)] = f[Pick(s)]
      BY <1>1, <3>1, PickRemoves
    <3> QED
      BY <1>2, <3>1, <3>2
  <2> HIDE DEF bad
  <2> QED
    BY <1>1, <2>1, <2>2, SmallestSubset
<1>4. SumFunction(h) = sh[S]
  BY SumIsFold DEF sh
<1> QED
  BY <1>3, <1>4 DEF sf

(* f has one term more than h, at a.                                       *)
OneMoreTerm(f, h, S, a) ==
  /\ IsFiniteSet(S) /\ a \notin S
  /\ h \in [S -> Nat] /\ f \in [S \cup {a} -> Nat]
  /\ \A x \in S : f[x] = h[x]

(* A new term adds itself.                                                 *)
LEMMA SumExtended ==
  ASSUME NEW f, NEW h, NEW S, NEW a, OneMoreTerm(f, h, S, a)
  PROVE  SumFunction(f) = SumFunction(h) + f[a]
PROOF
<1> USE DEF OneMoreTerm
<1> DEFINE D == S \cup {a}
<1>1. IsFiniteSet(D) /\ a \in D /\ S \in SUBSET D /\ D \ {a} = S
  BY FS_AddElement
<1>2. DOMAIN f = D
  OBVIOUS
<1> HIDE DEF D
<1>3. SumFunction(f) = TheSum(f, D)[D]
  BY <1>2, SumIsFold
<1>4. f \in [D -> Nat]
  BY DEF D
<1>5. /\ TheSum(f, D)[D] = f[a] + TheSum(f, D)[D \ {a}]
      /\ TheSum(f, D)[D \ {a}] \in Nat
  BY <1>1, <1>4, SumRemoves
<1>6. TheSum(f, D)[S] = SumFunction(h)
  <2>1. \A x \in S : h[x] = f[x]
    OBVIOUS
  <2> QED
    BY <1>1, <1>4, <2>1, SumOfPart
<1>7. f[a] \in Nat
  BY <1>1, <1>4
<1>8. SumFunction(f) = f[a] + SumFunction(h) /\ SumFunction(h) \in Nat
  BY <1>1, <1>3, <1>5, <1>6
<1> QED
  BY <1>7, <1>8

-----------------------------------------------------------------------------
(* Logs                                                                    *)

Event ==
  [topic : {"resolved"}, task : TaskId, weight : Nat]
    \cup [topic : {"wt_vote"}, task : TaskId, guardian : Address, weight : Nat]
    \cup [topic : {"rw_start"}, task : TaskId, contributor : Contributor]
    \cup [topic : {"cb_trip"}, count : Nat]
    \cup [topic : {"cancelled"}, task : TaskId]
    \cup [topic : {"archived"}, task : TaskId, resolved_at : Nat]

LEMMA EventFields ==
  ASSUME NEW e \in Event
  PROVE  /\ e.topic # "cb_trip" => e.task \in TaskId
         /\ e.topic = "wt_vote" => e.weight \in Nat
PROOF
  BY DEF Event

Mentions(e, t, topic) == e.topic = topic /\ e.task = t

LEMMA AppendEvent ==
  ASSUME NEW l \in Seq(Event), NEW e \in Event
  PROVE  /\ Append(l, e) \in Seq(Event)
         /\ Len(l) \in Nat /\ Len(Append(l, e)) = Len(l) + 1
         /\ \A i \in 1..Len(l) : Append(l, e)[i] = l[i] /\ l[i] \in Event
         /\ Append(l, e)[Len(l) + 1] = e
PROOF
  OBVIOUS

LEMMA PositionsType ==
  ASSUME NEW l \in Seq(Event), NEW t, NEW topic
  PROVE  /\ IsFiniteSet(Positions(l, t, topic))
         /\ Cardinality(Positions(l, t, topic)) \in Nat
         /\ Positions(l, t, topic) \subseteq 1..Len(l)
         /\ Len(l) + 1 \notin Positions(l, t, topic)
PROOF
<1>1. Len(l) \in Nat
  OBVIOUS
<1>2. Positions(l, t, topic) \subseteq 1..Len(l)
  BY DEF Positions
<1>3. IsFiniteSet(1..Len(l))
  BY <1>1, FS_Interval
<1>4. IsFiniteSet(Positions(l, t, topic))
  BY <1>2, <1>3, FS_Subset
<1> QED
  BY <1>1, <1>2, <1>4, FS_CardinalityType

LEMMA AppendPositions ==
  ASSUME NEW l \in Seq(Event), NEW e \in Event, NEW t, NEW topic
  PROVE  Positions(Append(l, e), t, topic)
           = Positions(l, t, topic)
               \cup (IF Mentions(e, t, topic) THEN {Len(l) + 1} ELSE {})
PROOF
<1> DEFINE k == Append(l, e)
<1>1. /\ Len(l) \in Nat /\ Len(k) = Len(l) + 1
      /\ \A i \in 1..Len(l) : k[i] = l[i]
      /\ k[Len(l) + 1] = e
  BY AppendEvent
<1> HIDE DEF k
<1>2. 1..Len(k) = 1..Len(l) \cup {Len(l) + 1}
  BY <1>1
<1>3. ASSUME NEW i \in 1..Len(l)
      PROVE  i \in Positions(k, t, topic) <=> i \in Positions(l, t, topic)
  BY <1>1, <1>2 DEF Positions
<1>4. Len(l) + 1 \in Positions(k, t, topic) <=> Mentions(e, t, topic)
  BY <1>1, <1>2 DEF Positions, Mentions
<1>5. /\ Positions(k, t, topic) \subseteq 1..Len(l) \cup {Len(l) + 1}
      /\ Positions(l, t, topic) \subseteq 1..Len(l)
  BY <1>2 DEF Positions
<1> QED
  BY <1>3, <1>4, <1>5 DEF k

(* The positions a weight sums over.                                       *)
VotesUpTo(l, t, n) == {j \in Positions(l, t, "wt_vote") : j <= n}

LEMMA WeightTerms ==
  ASSUME NEW l \in Seq(Event), NEW t, NEW n
  PROVE  /\ IsFiniteSet(VotesUpTo(l, t, n))
         /\ VotesUpTo(l, t, n) \subseteq 1..Len(l)
         /\ [i \in VotesUpTo(l, t, n) |-> l[i].weight]
              \in [VotesUpTo(l, t, n) -> Nat]
         /\ WeightUpTo(l, t, n)
              = SumFunction([i \in VotesUpTo(l, t, n) |-> l[i].weight])
         /\ WeightUpTo(l, t, n) \in Nat
PROOF
<1>1. VotesUpTo(l, t, n) \in SUBSET Positions(l, t, "wt_vote")
  BY DEF VotesUpTo
<1>2. IsFiniteSet(VotesUpTo(l, t, n)) /\ VotesUpTo(l, t, n) \subseteq 1..Len(l)
  BY <1>1, PositionsType, FS_Subset
<1>3. \A i \in VotesUpTo(l, t, n) : l[i].weight \in Nat
  <2> TAKE i \in VotesUpTo(l, t, n)
  <2>1. i \in 1..Len(l) /\ l[i].topic = "wt_vote"
    BY <1>1, <1>2 DEF Positions
  <2> QED
    BY <2>1, EventFields
<1>4. [i \in VotesUpTo(l, t, n) |-> l[i].weight] \in [VotesUpTo(l, t, n) -> Nat]
  BY <1>3
<1>5. WeightUpTo(l, t, n)
        = SumFunction([i \in VotesUpTo(l, t, n) |-> l[i].weight])
  BY DEF WeightUpTo, VotesUpTo
<1> QED
  BY <1>2, <1>4, <1>5, SumCovers

(* A new event leaves the weight of the earlier ones alone and adds its    *)
(* own if it is a vote on the task.                                        *)
LEMMA AppendWeight ==
  ASSUME NEW l \in Seq(Event), NEW e \in Event, NEW t
  PROVE  /\ \A n \in 0..Len(l) :
              WeightUpTo(Append(l, e), t, n) = WeightUpTo(l, t, n)
         /\ WeightUpTo(Append(l, e), t, Len(l) + 1)
              = WeightUpTo(l, t, Len(l))
                  + (IF Mentions(e, t, "wt_vote") THEN e.weight ELSE 0)
PROOF
<1> DEFINE k == Append(l, e)
<1>1. /\ Len(l) \in Nat /\ k \in Seq(Event) /\ Len(k) = Len(l) + 1
      /\ \A i \in 1..Len(l) : k[i] = l[i]
      /\ k[Len(l) + 1] = e
  BY AppendEvent
<1>2. Positions(k, t, "wt_vote")
        = Positions(l, t, "wt_vote")
            \cup (IF Mentions(e, t, "wt_vote") THEN {Len(l) + 1} ELSE {})
  BY AppendPositions
<1>3. Positions(l, t, "wt_vote") \subseteq 1..Len(l)
  BY PositionsType
<1> HIDE DEF k
<1>4. ASSUME NEW n, NEW p, VotesUpTo(k, t, p) = VotesUpTo(l, t, n)
      PROVE  WeightUpTo(k, t, p) = WeightUpTo(l, t, n)
  <2> DEFINE V == VotesUpTo(l, t, n)
  <2>1. V \subseteq 1..Len(l)
    BY WeightTerms
  <2>2. [i \in VotesUpTo(k, t, p) |-> k[i].weight] = [i \in V |-> l[i].weight]
    BY <1>1, <1>4, <2>1
  <2> QED
    BY <1>1, <2>2, WeightTerms
<1>5. ASSUME NEW n \in 0..Len(l) PROVE WeightUpTo(k, t, n) = WeightUpTo(l, t, n)
  <2>1. VotesUpTo(k, t, n) = VotesUpTo(l, t, n)
    BY <1>1, <1>2, <1>3 DEF VotesUpTo
  <2> QED
    BY <1>4, <2>1
<1>6. CASE ~Mentions(e, t, "wt_vote")
  <2>1. VotesUpTo(k, t, Len(l) + 1) = VotesUpTo(l, t, Len(l))
    BY <1>1, <1>2, <1>3, <1>6 DEF VotesUpTo
  <2>2. WeightUpTo(k, t, Len(l) + 1) = WeightUpTo(l, t, Len(l))
    BY <1>4, <2>1
  <2>3. WeightUpTo(l, t, Len(l)) \in Nat
    BY WeightTerms
  <2> QED
    BY <1>5, <1>6, <2>2, <2>3 DEF k
<1>7. CASE Mentions(e, t, "wt_vote")
  <2> DEFINE V == VotesUpTo(l, t, Len(l))
             a == Len(l) + 1
             h == [i \in V |-> l[i].weight]
             f == [i \in V \cup {a} |-> k[i].weight]
  <2>1. VotesUpTo(k, t, a) = V \cup {a} /\ a \notin V
    BY <1>1, <1>2, <1>3, <1>7 DEF VotesUpTo
  <2>2. /\ V \subseteq 1..Len(l) /\ IsFiniteSet(V) /\ h \in [V -> Nat]
        /\ WeightUpTo(l, t, Len(l)) = SumFunction(h)
    BY WeightTerms
  <2>3. /\ f \in [V \cup {a} -> Nat]
        /\ WeightUpTo(k, t, a) = SumFunction(f)
    <3> HIDE DEF V, a
    <3> QED
      BY <1>1, <2>1, WeightTerms
  <2>4. \A i \in V : f[i] = h[i]
    BY <1>1, <2>2
  <2>5. f[a] = e.weight
    BY <1>1
  <2> HIDE DEF V, a, h, f
  <2>6. SumFunction(f) = SumFunction(h) + f[a]
    <3>1. OneMoreTerm(f, h, V, a)
      BY <2>1, <2>2, <2>3, <2>4 DEF OneMoreTerm
    <3> QED
      BY <3>1, SumExtended
  <2> QED
    BY <1>5, <1>7, <2>2, <2>3, <2>5, <2>6 DEF k, a
<1> QED
  BY <1>6, <1>7

-----------------------------------------------------------------------------
(* The inductive invariant                                                 *)

TaskTopics == {"wt_vote", "resolved", "cancelled", "archived", "rw_start"}

(* What a log tells of a task's record.                                    *)
Told(l, t, r) ==
  /\ r.votes = Cardinality(Positions(l, t, "wt_vote"))
  /\ r.total_weight_accrued = WeightUpTo(l, t, Len(l))
  /\ r.is_done <=> Positions(l, t, "resolved") # {}
  /\ r.is_cancelled <=> Positions(l, t, "cancelled") # {}

(* ReplayAgrees for one task, and what it lacks to be inductive: nothing   *)
(* is published of a task before it is registered.                         *)
Replays(t) ==
  /\ Registered(t) => Told(log, t, Record(t))
  /\ has_archived_task(t) <=> Positions(log, t, "archived") # {}
  /\ reward_stream[t] # None <=> Positions(log, t, "rw_start") # {}
  /\ ~Registered(t) => \A topic \in TaskTopics : Positions(log, t, topic) = {}

(* LogOrdered, of any log.                                                 *)
Ordered(l) ==
  \A i \in 1..Len(l) :
    /\ l[i].topic = "resolved" => CarriesTotal(l, i)
    /\ l[i].topic \in {"archived", "rw_start"} => ResolvedBefore(l, i)
    /\ \A j \in (i + 1)..Len(l) : SameTask(l[i], l[j]) => MayFollow(l[i], l[j])

EventInv ==
  /\ log \in Seq(Event)
  /\ \A t \in TaskId : Replays(t)
  /\ Ordered(log)

LEMMA EventInvSays ==
  ASSUME EventInv
  PROVE  ReplayAgrees /\ LogOrdered
PROOF
  BY DEF EventInv, Replays, Told, ReplayAgrees, Published, Ordered, LogOrdered

-----------------------------------------------------------------------------
(* Order                                                                   *)

(* What already held between the events of a log holds after more.         *)
LEMMA OrderKept ==
  ASSUME NEW l \in Seq(Event), NEW e \in Event, Ordered(l),
         NEW i \in 1..Len(l)
  PROVE  LET k == Append(l, e)
         IN  /\ k[i].topic = "resolved" => CarriesTotal(k, i)
             /\ k[i].topic \in {"archived", "rw_start"} => ResolvedBefore(k, i)
             /\ \A j \in (i + 1)..Len(l) :
                  SameTask(k[i], k[j]) => MayFollow(k[i], k[j])
PROOF
<1> DEFINE k == Append(l, e)
<1>1. /\ Len(l) \in Nat /\ Len(k) = Len(l) + 1
      /\ \A j \in 1..Len(l) : k[j] = l[j]
  BY AppendEvent
<1>2. /\ l[i].topic = "resolved" => CarriesTotal(l, i)
      /\ l[i].topic \in {"archived", "rw_start"} => ResolvedBefore(l, i)
      /\ \A j \in (i + 1)..Len(l) :
           SameTask(l[i], l[j]) => MayFollow(l[i], l[j])
  BY DEF Ordered
<1>3. \A t : \A n \in 0..Len(l) : WeightUpTo(k, t, n) = WeightUpTo(l, t, n)
  BY AppendWeight
<1> HIDE DEF k
<1>4. ASSUME l[i].topic = "resolved" PROVE CarriesTotal(k, i)
  <2>1. CarriesTotal(l, i)
    BY <1>2, <1>4
  <2>2. i + 1 \in 1..Len(l) /\ i + 1 \in 0..Len(l) /\ i < Len(k)
    BY <1>1, <2>1 DEF CarriesTotal
  <2>3. WeightUpTo(k, l[i].task, i + 1) = WeightUpTo(l, l[i].task, i + 1)
    BY <1>3, <2>2
  <2> QED
    BY <1>1, <2>1, <2>2, <2>3 DEF CarriesTotal
<1>5. ASSUME ResolvedBefore(l, i) PROVE ResolvedBefore(k, i)
  BY <1>1, <1>5 DEF ResolvedBefore
<1> QED
  BY <1>1, <1>2, <1>4, <1>5 DEF k

(* An event other than a resolution keeps the order if it may follow what  *)
(* was said of its task.                                                   *)
LEMMA OrderedAppend ==
  ASSUME NEW l \in Seq(Event), NEW e \in Event, Ordered(l),
         e.topic # "resolved",
         e.topic \in {"archived", "rw_start"} =>
           \E j \in 1..Len(l) : Mentions(l[j], e.task, "resolved"),
         \A i \in 1..Len(l) : SameTask(l[i], e) => MayFollow(l[i], e)
  PROVE  Ordered(Append(l, e))
PROOF
<1> DEFINE k == Append(l, e)
<1>1. /\ Len(l) \in Nat /\ Len(k) = Len(l) + 1
      /\ \A j \in 1..Len(l) : k[j] = l[j]
      /\ k[Len(l) + 1] = e
  BY AppendEvent
<1>2. ASSUME NEW i \in 1..Len(l)
      PROVE  /\ k[i].topic = "resolved" => CarriesTotal(k, i)
             /\ k[i].topic \in {"archived", "rw_start"} => ResolvedBefore(k, i)
             /\ \A j \in (i + 1)..Len(l) :
                  SameTask(k[i], k[j]) => MayFollow(k[i], k[j])
  BY OrderKept
<1> HIDE DEF k
<1>3. e.topic \in {"archived", "rw_start"} => ResolvedBefore(k, Len(l) + 1)
  BY <1>1 DEF ResolvedBefore, Mentions
<1>4. ASSUME NEW i \in 1..Len(k)
      PROVE  /\ k[i].topic = "resolved" => CarriesTotal(k, i)
             /\ k[i].topic \in {"archived", "rw_start"} => ResolvedBefore(k, i)
             /\ \A j \in (i + 1)..Len(k) :
                  SameTask(k[i], k[j]) => MayFollow(k[i], k[j])
  <2>1. CASE i \in 1..Len(l)
    <3>1. \A j \in (i + 1)..Len(k) : j \in (i + 1)..Len(l) \/ j = Len(l) + 1
      BY <1>1
    <3>2. SameTask(k[i], k[Len(l) + 1]) => MayFollow(k[i], k[Len(l) + 1])
      BY <1>1, <2>1
    <3> QED
      BY <1>2, <2>1, <3>1, <3>2
  <2>2. CASE i = Len(l) + 1
    <3>1. (i + 1)..Len(k) = {}
      BY <1>1, <2>2
    <3> QED
      BY <1>1, <1>3, <2>2, <3>1
  <2> QED
    BY <1>1, <2>1, <2>2
<1> QED
  BY <1>4 DEF Ordered, k

(* A resolution and the vote that caused it keep the order.                *)
LEMMA OrderedVote ==
  ASSUME NEW l \in Seq(Event), Ordered(l), NEW r \in Event, NEW v \in Event,
         NEW t \in TaskId,
         Mentions(r, t, "resolved"), Mentions(v, t, "wt_vote"),
         r.weight = WeightUpTo(l, t, Len(l)) + v.weight,
         \A i \in 1..Len(l) : SameTask(l[i], r) => MayFollow(l[i], r),
         \A i \in 1..Len(l) : SameTask(l[i], v) => MayFollow(l[i], v)
  PROVE  Ordered(Append(Append(l, r), v))
PROOF
<1> DEFINE m == Append(l, r)
           k == Append(m, v)
<1>1. /\ Len(l) \in Nat /\ m \in Seq(Event) /\ Len(m) = Len(l) + 1
      /\ \A j \in 1..Len(l) : m[j] = l[j]
      /\ m[Len(l) + 1] = r
  BY AppendEvent
<1>2. /\ Len(m) \in Nat /\ Len(k) = Len(m) + 1
      /\ \A j \in 1..Len(m) : k[j] = m[j]
      /\ k[Len(m) + 1] = v
  <2> HIDE DEF m
  <2> QED
    BY <1>1, AppendEvent
<1>3. /\ Len(k) = Len(l) + 2
      /\ \A j \in 1..Len(l) : k[j] = l[j]
      /\ k[Len(l) + 1] = r /\ k[Len(l) + 2] = v
  <2> HIDE DEF m, k
  <2> QED
    BY <1>1, <1>2
<1>4. /\ \A n \in 0..Len(l) : \A u : WeightUpTo(k, u, n) = WeightUpTo(l, u, n)
      /\ WeightUpTo(k, t, Len(l) + 2) = WeightUpTo(l, t, Len(l)) + v.weight
  <2>1. \A u : \A n \in 0..Len(l) : WeightUpTo(m, u, n) = WeightUpTo(l, u, n)
    BY AppendWeight
  <2>2. WeightUpTo(m, t, Len(l) + 1) = WeightUpTo(l, t, Len(l)) + 0
    BY AppendWeight DEF Mentions
  <2> HIDE DEF m
  <2>3. \A u : \A n \in 0..Len(m) : WeightUpTo(k, u, n) = WeightUpTo(m, u, n)
    BY <1>1, AppendWeight
  <2>4. WeightUpTo(k, t, Len(m) + 1) = WeightUpTo(m, t, Len(m)) + v.weight
    BY <1>1, AppendWeight
  <2>5. WeightUpTo(l, t, Len(l)) \in Nat
    BY WeightTerms
  <2>6. WeightUpTo(m, t, Len(m)) = WeightUpTo(l, t, Len(l))
    BY <1>1, <2>2, <2>5
  <2>7. Len(m) + 1 = Len(l) + 2 /\ \A n \in 0..Len(l) : n \in 0..Len(m)
    BY <1>1
  <2> QED
    BY <2>1, <2>3, <2>4, <2>6, <2>7
<1> HIDE DEF m, k
<1>5. ASSUME NEW i \in 1..Len(k)
      PROVE  /\ k[i].topic = "resolved" => CarriesTotal(k, i)
             /\ k[i].topic \in {"archived", "rw_start"} => ResolvedBefore(k, i)
             /\ \A j \in (i + 1)..Len(k) :
                  SameTask(k[i], k[j]) => MayFollow(k[i], k[j])
  <2>1. CASE i \in 1..Len(l)
    <3>1. /\ l[i].topic = "resolved" => CarriesTotal(l, i)
          /\ l[i].topic \in {"archived", "rw_start"} => ResolvedBefore(l, i)
          /\ \A j \in (i + 1)..Len(l) :
               SameTask(l[i], l[j]) => MayFollow(l[i], l[j])
      BY <2>1 DEF Ordered
    <3>2. ASSUME k[i].topic = "resolved" PROVE CarriesTotal(k, i)
      <4>1. CarriesTotal(l, i)
        BY <1>3, <2>1, <3>1, <3>2
      <4>2. i + 1 \in 1..Len(l) /\ i + 1 \in 0..Len(l) /\ i < Len(k)
        BY <1>1, <1>3, <2>1, <4>1 DEF CarriesTotal
      <4>3. WeightUpTo(k, l[i].task, i + 1) = WeightUpTo(l, l[i].task, i + 1)
        BY <1>4, <4>2
      <4> QED
        BY <1>3, <2>1, <4>1, <4>2, <4>3 DEF CarriesTotal
    <3>3. ResolvedBefore(l, i) => ResolvedBefore(k, i)
      BY <1>1, <1>3, <2>1 DEF ResolvedBefore
    <3>4. \A j \in (i + 1)..Len(k) :
            j \in (i + 1)..Len(l) \/ j = Len(l) + 1 \/ j = Len(l) + 2
      BY <1>1, <1>3
    <3>5. /\ \A j \in (i + 1)..Len(l) : j \in 1..Len(l)
      BY <1>1, <2>1
    <3> QED
      BY <1>3, <2>1, <3>1, <3>2, <3>3, <3>4, <3>5
  <2>2. CASE i = Len(l) + 1
    <3>1. CarriesTotal(k, i)
      <4>1. i < Len(k) /\ i + 1 = Len(l) + 2
        BY <1>1, <1>3, <2>2
      <4> QED
        BY <1>3, <1>4, <2>2, <4>1 DEF CarriesTotal, Mentions
    <3>2. k[i].topic = "resolved"
      BY <1>3, <2>2 DEF Mentions
    <3> QED
      BY <3>1, <3>2 DEF MayFollow
  <2>3. CASE i = Len(l) + 2
    <3>1. (i + 1)..Len(k) = {} /\ k[i].topic = "wt_vote"
      BY <1>1, <1>3, <2>3 DEF Mentions
    <3> QED
      BY <3>1
  <2> QED
    BY <1>1, <1>3, <2>1, <2>2, <2>3
<1> QED
  BY <1>5 DEF Ordered, m, k

(* What the log may say of a task that is still active.                    *)
LEMMA ActiveHistory ==
  ASSUME EventInv, TasksPartition, NEW u \in TaskId, has_active_task(u),
         NEW i \in 1..Len(log), log[i].topic # "cb_trip", log[i].task = u
  PROVE  /\ log[i].topic # "archived"
         /\ log[i].topic = "cancelled" => active_task[u].is_cancelled
         /\ log[i].topic = "rw_start" => reward_stream[u] # None
PROOF
<1>1. i \in Positions(log, u, log[i].topic)
  BY DEF Positions
<1>2. ~has_archived_task(u) /\ Registered(u) /\ Record(u) = active_task[u]
  BY DEF TasksPartition, Registered, Record
<1>3. Replays(u)
  BY DEF EventInv
<1> QED
  BY <1>1, <1>2, <1>3 DEF Replays, Told

-----------------------------------------------------------------------------
(* Steps                                                                   *)

(* Publishing no, one or two events.                                       *)
LEMMA Published0 ==
  ASSUME NEW l \in Seq(Event)
  PROVE  l \o <<>> = l
PROOF
  OBVIOUS

LEMMA Published1 ==
  ASSUME NEW l \in Seq(Event), NEW e \in Event
  PROVE  l \o <<e>> = Append(l, e)
PROOF
  OBVIOUS

LEMMA Published2 ==
  ASSUME NEW l \in Seq(Event), NEW r \in Event, NEW v \in Event
  PROVE  l \o <<r, v>> = Append(Append(l, r), v)
PROOF
  OBVIOUS

(* Nothing the log speaks of changes for task t.                           *)
Unmoved(t) ==
  /\ Registered(t)' <=> Registered(t)
  /\ Registered(t) => Record(t)' = Record(t)
  /\ has_archived_task(t)' <=> has_archived_task(t)
  /\ (reward_stream'[t] # None) <=> (reward_stream[t] # None)

LEMMA SameEntries ==
  ASSUME NEW t, active_task'[t] = active_task[t],
         archived_task'[t] = archived_task[t],
         reward_stream'[t] = reward_stream[t]
  PROVE  Unmoved(t)
PROOF
  BY DEF Unmoved, Registered, Record, has_active_task, has_archived_task

(* A longer log k says nothing of task t that l does not.                  *)
SaysNothing(l, k, t) ==
  /\ \A topic \in TaskTopics : Positions(k, t, topic) = Positions(l, t, topic)
  /\ WeightUpTo(k, t, Len(k)) = WeightUpTo(l, t, Len(l))

Unheard(t) == SaysNothing(log, log', t)

LEMMA OtherTask ==
  ASSUME NEW t, Unmoved(t), Unheard(t), Replays(t)
  PROVE  Replays(t)'
PROOF
  BY DEF Unmoved, Unheard, SaysNothing, Replays, Told, TaskTopics

(* An event of one task says nothing of the others.                        *)
LEMMA OneEventSays ==
  ASSUME NEW l \in Seq(Event), NEW e \in Event, NEW t,
         e.topic = "cb_trip" \/ e.task # t
  PROVE  SaysNothing(l, Append(l, e), t)
PROOF
<1> DEFINE k == Append(l, e)
<1>1. \A topic \in TaskTopics : ~Mentions(e, t, topic)
  BY DEF Mentions, TaskTopics
<1>2. ASSUME NEW topic \in TaskTopics
      PROVE  Positions(k, t, topic) = Positions(l, t, topic)
  <2>1. Positions(k, t, topic)
          = Positions(l, t, topic)
              \cup (IF Mentions(e, t, topic) THEN {Len(l) + 1} ELSE {})
    BY AppendPositions
  <2> QED
    BY <1>1, <2>1
<1>3. Len(k) = Len(l) + 1
  BY AppendEvent
<1>4. WeightUpTo(k, t, Len(l) + 1) = WeightUpTo(l, t, Len(l)) + 0
  BY <1>1, AppendWeight DEF TaskTopics
<1>5. WeightUpTo(l, t, Len(l)) \in Nat
  BY WeightTerms
<1> HIDE DEF k
<1>6. SaysNothing(l, k, t)
  BY <1>2, <1>3, <1>4, <1>5 DEF SaysNothing
<1> QED
  BY <1>6 DEF k

(* A task just registered has no history.                                  *)
LEMMA ToldNothing ==
  ASSUME NEW l \in Seq(Event), NEW t,
         \A topic \in TaskTopics : Positions(l, t, topic) = {}
  PROVE  Told(l, t, NewTask)
PROOF
<1>1. /\ Positions(l, t, "wt_vote") = {} /\ Positions(l, t, "resolved") = {}
      /\ Positions(l, t, "cancelled") = {}
  BY DEF TaskTopics
<1>2. VotesUpTo(l, t, Len(l)) = {}
  BY <1>1 DEF VotesUpTo
<1>3. WeightUpTo(l, t, Len(l)) = 0
  <2>1. [i \in {} |-> l[i].weight] = [i \in {} |-> 0]
    OBVIOUS
  <2>2. SumFunction([i \in {} |-> 0]) = 0
    BY FS_EmptySet, SumOfZeros
  <2> QED
    BY <1>2, <2>1, <2>2, WeightTerms
<1>4. Cardinality({}) = 0
  BY FS_EmptySet
<1> QED
  BY <1>1, <1>3, <1>4 DEF Told, NewTask

(* The steps that publish nothing.                                         *)
LEMMA SilentKeeps ==
  ASSUME TypeOK, EventInv, SilentStep
  PROVE  EventInv'
PROOF
<1>1. log' = log
  BY DEF SilentStep
<1>2. log' \in Seq(Event) /\ Ordered(log') /\ \A t : Unheard(t)
  BY <1>1 DEF EventInv, Unheard, SaysNothing
<1>3. ASSUME UNCHANGED <<active_task, archived_task, reward_stream>>
      PROVE  \A t \in TaskId : Replays(t)'
  BY <1>2, <1>3, SameEntries, OtherTask DEF EventInv
<1>4. ASSUME NEW u \in TaskId, RegisterTask(u)
      PROVE  \A t \in TaskId : Replays(t)'
  <2>1. /\ active_task' = [active_task EXCEPT ![u] = NewTask]
        /\ archived_task' = archived_task /\ reward_stream' = reward_stream
        /\ ~Registered(u)
    BY <1>4
    DEF RegisterTask, RegisterTaskError, Ok, Registered, streamVars
  <2>2. ASSUME NEW t \in TaskId, t # u PROVE Replays(t)'
    <3>1. Unmoved(t)
      BY <2>1, <2>2, SameEntries DEF TypeOK
    <3> QED
      BY <1>2, <3>1, OtherTask DEF EventInv
  <2>3. Replays(u)'
    <3>1. /\ Replays(u) /\ log \in Seq(Event)
      BY DEF EventInv
    <3>2. \A topic \in TaskTopics : Positions(log, u, topic) = {}
      BY <2>1, <3>1 DEF Replays
    <3>3. Told(log', u, NewTask)
      BY <1>1, <3>1, <3>2, ToldNothing
    <3>4. NewTask # None
      <4>1. NewTask \in TaskRecord
        BY ConstantsAssumption DEF NewTask, TaskRecord
      <4> QED
        BY <4>1, NoneAssumption
    <3>5. Registered(u)' /\ Record(u)' = NewTask
      BY <2>1, <3>4 DEF Registered, Record, has_active_task, TypeOK
    <3>6. /\ has_archived_task(u)' <=> has_archived_task(u)
          /\ (reward_stream'[u] # None) <=> (reward_stream[u] # None)
      BY <2>1 DEF has_archived_task
    <3> QED
      BY <1>1, <3>1, <3>3, <3>5, <3>6 DEF Replays
  <2> QED
    BY <2>2, <2>3
<1>5. ASSUME ~\E u \in TaskId : RegisterTask(u)
      PROVE  UNCHANGED <<active_task, archived_task, reward_stream>>
  <2> USE DEF taskVars, streamVars
  <2>1. CASE TogglePause \/ Pause \/ Unpause \/ ResetCircuitBreaker
    BY <2>1 DEF TogglePause, Pause, Unpause, SetPaused, ResetCircuitBreaker
  <2>2. CASE GuardianStep
    BY <2>2 DEF GuardianStep, AddGuardian, RemoveGuardian, SetReputation
  <2>3. CASE TokenStep
    BY <2>3
    DEF TokenStep, Initialize, LockTokens, ResignGuardian, UnlockTokens
  <2>4. CASE \/ \E th \in WeightThresholds : SetWeightThreshold(th)
             \/ \E v \in Vault : SetVaultAddress(v)
    BY <2>4 DEF SetWeightThreshold, SetVaultAddress
  <2>5. CASE Tick
    BY <2>5 DEF Tick
  <2> QED
    BY <1>5, <2>1, <2>2, <2>3, <2>4, <2>5 DEF SilentStep
<1> QED
  BY <1>2, <1>3, <1>4, <1>5 DEF EventInv

(* One event of an active task that is not a vote.                         *)
LEMMA TaskEvent ==
  ASSUME EventInv, TasksPartition, NEW u \in TaskId, has_active_task(u),
         NEW e \in Event, log' = Append(log, e), e.task = u,
         e.topic \in {"cancelled", "archived", "rw_start"},
         e.topic # "cancelled" => active_task[u].is_done,
         e.topic = "rw_start" => /\ ~active_task[u].is_cancelled
                                 /\ reward_stream[u] = None,
         \A t \in TaskId \ {u} : Unmoved(t)
  PROVE  /\ log' \in Seq(Event)
         /\ Ordered(log')
         /\ \A t \in TaskId \ {u} : Replays(t)'
         /\ Positions(log', u, e.topic) # {}
         /\ \A topic \in TaskTopics \ {e.topic} :
              Positions(log', u, topic) = Positions(log, u, topic)
         /\ WeightUpTo(log', u, Len(log')) = WeightUpTo(log, u, Len(log))
PROOF
<1>1. log \in Seq(Event) /\ Ordered(log) /\ \A t \in TaskId : Replays(t)
  BY DEF EventInv
<1>2. log' \in Seq(Event) /\ Len(log') = Len(log) + 1
  BY <1>1, AppendEvent
<1>3. ASSUME NEW t \in TaskId \ {u} PROVE Replays(t)'
  <2>1. Unheard(t)
    BY <1>1, OneEventSays DEF Unheard
  <2> QED
    BY <1>1, <2>1, OtherTask
<1>4. ASSUME NEW topic
      PROVE  Positions(log', u, topic)
               = Positions(log, u, topic)
                   \cup (IF e.topic = topic THEN {Len(log) + 1} ELSE {})
  <2>1. Mentions(e, u, topic) <=> e.topic = topic
    BY DEF Mentions
  <2> QED
    BY <1>1, <2>1, AppendPositions
<1>5. Positions(log', u, e.topic) # {}
  <2>1. Positions(log', u, e.topic)
          = Positions(log, u, e.topic) \cup {Len(log) + 1}
    BY <1>4
  <2> QED
    BY <2>1
<1>6. ASSUME NEW topic, topic # e.topic
      PROVE  Positions(log', u, topic) = Positions(log, u, topic)
  <2>1. Positions(log', u, topic)
          = Positions(log, u, topic)
              \cup (IF e.topic = topic THEN {Len(log) + 1} ELSE {})
    BY <1>4
  <2> QED
    BY <1>6, <2>1
<1>7. WeightUpTo(log', u, Len(log')) = WeightUpTo(log, u, Len(log))
  <2>1. ~Mentions(e, u, "wt_vote")
    BY DEF Mentions
  <2>2. WeightUpTo(log', u, Len(log) + 1) = WeightUpTo(log, u, Len(log)) + 0
    BY <1>1, <2>1, AppendWeight
  <2>3. WeightUpTo(log, u, Len(log)) \in Nat
    BY <1>1, WeightTerms
  <2> QED
    BY <1>2, <2>2, <2>3
<1>8. Ordered(log')
  <2>1. e.topic # "cancelled" =>
          \E j \in 1..Len(log) : Mentions(log[j], e.task, "resolved")
    <3>1. Registered(u) /\ Record(u) = active_task[u]
      BY DEF Registered, Record
    <3>2. e.topic # "cancelled" => Positions(log, u, "resolved") # {}
      BY <1>1, <3>1 DEF Replays, Told
    <3> QED
      BY <3>2 DEF Positions, Mentions
  <2>2. ASSUME NEW i \in 1..Len(log), SameTask(log[i], e)
        PROVE  MayFollow(log[i], e)
    <3>1. log[i].topic # "cb_trip" /\ log[i].task = u
      BY <2>2 DEF SameTask
    <3> QED
      BY <3>1, ActiveHistory DEF MayFollow
  <2> QED
    BY <1>1, <2>1, <2>2, OrderedAppend
<1> QED
  BY <1>2, <1>3, <1>5, <1>6, <1>7, <1>8

LEMMA StreamKeeps ==
  ASSUME TypeOK, TasksPartition, EventInv, PublishStream
  PROVE  EventInv'
PROOF
<1>1. PICK c \in Contributor, u \in TaskId, drips_up \in BOOLEAN :
        /\ StartRewardStream(c, u, drips_up)
        /\ Publish(<<emit_reward_stream_started(u, c)>>)
  BY DEF PublishStream
<1> DEFINE e == emit_reward_stream_started(u, c)
<1>2. /\ e \in Event /\ e.task = u /\ e.topic = "rw_start"
      /\ log' = Append(log, e)
  <2>1. e \in Event /\ e.task = u /\ e.topic = "rw_start"
    BY DEF emit_reward_stream_started, Event
  <2> HIDE DEF e
  <2> QED
    BY <1>1, <2>1, Published1 DEF Publish, EventInv, e
<1> HIDE DEF e
<1>3. /\ has_active_task(u) /\ active_task[u].is_done
      /\ ~active_task[u].is_cancelled /\ reward_stream[u] = None
      /\ reward_stream' = [reward_stream EXCEPT ![u] = c]
      /\ active_task' = active_task /\ archived_task' = archived_task
  BY <1>1 DEF StartRewardStream, StartRewardStreamError, Ok, taskVars
<1>4. \A t \in TaskId \ {u} : Unmoved(t)
  BY <1>3, SameEntries DEF TypeOK
<1>5. /\ log' \in Seq(Event)
      /\ Ordered(log')
      /\ \A t \in TaskId \ {u} : Replays(t)'
      /\ Positions(log', u, "rw_start") # {}
      /\ \A topic \in TaskTopics \ {"rw_start"} :
           Positions(log', u, topic) = Positions(log, u, topic)
      /\ WeightUpTo(log', u, Len(log')) = WeightUpTo(log, u, Len(log))
  BY <1>2, <1>3, <1>4, TaskEvent
<1>6. Replays(u)'
  <2>1. Replays(u)
    BY DEF EventInv
  <2>2. /\ Registered(u) /\ Registered(u)' /\ Record(u)' = Record(u)
        /\ has_archived_task(u)' <=> has_archived_task(u)
    BY <1>3 DEF Registered, Record, has_active_task, has_archived_task
  <2>3. reward_stream'[u] # None
    BY <1>3, NoneAssumption DEF TypeOK
  <2>4. \A topic \in {"wt_vote", "resolved", "cancelled", "archived"} :
          Positions(log', u, topic) = Positions(log, u, topic)
    BY <1>5 DEF TaskTopics
  <2> QED
    BY <1>5, <2>1, <2>2, <2>3, <2>4 DEF Replays, Told
<1> QED
  BY <1>5, <1>6 DEF EventInv

LEMMA CancelKeeps ==
  ASSUME TypeOK, TasksPartition, EventInv, NEW u \in TaskId, CancelTask(u),
         Publish(<<emit_task_cancelled(u)>>)
  PROVE  EventInv'
PROOF
<1> DEFINE e == emit_task_cancelled(u)
<1>1. /\ e \in Event /\ e.task = u /\ e.topic = "cancelled"
      /\ log' = Append(log, e)
  <2>1. e \in Event /\ e.task = u /\ e.topic = "cancelled"
    BY DEF emit_task_cancelled, Event
  <2> HIDE DEF e
  <2> QED
    BY <2>1, Published1 DEF Publish, EventInv, e
<1> HIDE DEF e
<1>2. /\ has_active_task(u)
      /\ active_task' = [active_task EXCEPT ![u] =
                           [active_task[u] EXCEPT !.is_cancelled = TRUE]]
      /\ archived_task' = archived_task /\ reward_stream' = reward_stream
  BY DEF CancelTask, CancelTaskError, Ok, streamVars
<1>3. \A t \in TaskId \ {u} : Unmoved(t)
  BY <1>2, SameEntries DEF TypeOK
<1>4. /\ log' \in Seq(Event)
      /\ Ordered(log')
      /\ \A t \in TaskId \ {u} : Replays(t)'
      /\ Positions(log', u, "cancelled") # {}
      /\ \A topic \in TaskTopics \ {"cancelled"} :
           Positions(log', u, topic) = Positions(log, u, topic)
      /\ WeightUpTo(log', u, Len(log')) = WeightUpTo(log, u, Len(log))
  BY <1>1, <1>2, <1>3, TaskEvent
<1>5. Replays(u)'
  <2> DEFINE r == active_task[u]
             new == [r EXCEPT !.is_cancelled = TRUE]
  <2>1. Replays(u) /\ Registered(u) /\ Record(u) = r /\ r \in TaskRecord
    BY <1>2 DEF EventInv, Registered, Record, has_active_task, TypeOK
  <2>2. /\ new \in TaskRecord /\ new.is_cancelled
        /\ new.votes = r.votes /\ new.is_done = r.is_done
        /\ new.total_weight_accrued = r.total_weight_accrued
    BY <2>1 DEF TaskRecord
  <2>3. active_task'[u] = new
    BY <1>2 DEF TypeOK
  <2> HIDE DEF r, new
  <2>4. Registered(u)' /\ Record(u)' = new
    BY <2>2, <2>3, NoneAssumption DEF Registered, Record, has_active_task
  <2>5. /\ has_archived_task(u)' <=> has_archived_task(u)
        /\ reward_stream'[u] = reward_stream[u]
    BY <1>2 DEF has_archived_task
  <2>6. \A topic \in {"wt_vote", "resolved", "archived", "rw_start"} :
          Positions(log', u, topic) = Positions(log, u, topic)
    BY <1>4 DEF TaskTopics
  <2>7. Told(log', u, new)
    BY <1>4, <2>1, <2>2, <2>6 DEF Replays, Told
  <2> QED
    BY <2>1, <2>4, <2>5, <2>6, <2>7 DEF Replays
<1> QED
  BY <1>4, <1>5 DEF EventInv

LEMMA ArchiveKeeps ==
  ASSUME TypeOK, TasksPartition, EventInv, NEW u \in TaskId, ArchiveTask(u),
         Publish(<<emit_task_archived(u, active_task[u].resolved_at)>>)
  PROVE  EventInv'
PROOF
<1> DEFINE e == emit_task_archived(u, active_task[u].resolved_at)
<1>1. /\ has_active_task(u) /\ active_task[u].is_done
      /\ ~has_archived_task(u)
      /\ active_task' = [active_task EXCEPT ![u] = None]
      /\ archived_task' = [archived_task EXCEPT ![u] = active_task[u]]
      /\ reward_stream' = reward_stream
  BY DEF ArchiveTask, ArchiveTaskError, IsVerified, Ok, streamVars
<1>2. /\ e \in Event /\ e.task = u /\ e.topic = "archived"
      /\ log' = Append(log, e)
  <2>1. active_task[u] \in TaskRecord
    BY <1>1 DEF has_active_task, TypeOK
  <2>2. active_task[u].resolved_at \in Nat
    BY <2>1 DEF TaskRecord
  <2>3. e \in Event /\ e.task = u /\ e.topic = "archived"
    BY <2>2 DEF emit_task_archived, Event
  <2> HIDE DEF e
  <2> QED
    BY <2>3, Published1 DEF Publish, EventInv, e
<1> HIDE DEF e
<1>3. \A t \in TaskId \ {u} : Unmoved(t)
  BY <1>1, SameEntries DEF TypeOK
<1>4. /\ log' \in Seq(Event)
      /\ Ordered(log')
      /\ \A t \in TaskId \ {u} : Replays(t)'
      /\ Positions(log', u, "archived") # {}
      /\ \A topic \in TaskTopics \ {"archived"} :
           Positions(log', u, topic) = Positions(log, u, topic)
      /\ WeightUpTo(log', u, Len(log')) = WeightUpTo(log, u, Len(log))
  BY <1>1, <1>2, <1>3, TaskEvent
<1>5. Replays(u)'
  <2>1. Replays(u)
    BY DEF EventInv
  <2>2. active_task'[u] = None /\ archived_task'[u] = active_task[u]
    BY <1>1 DEF TypeOK
  <2>3. /\ Registered(u) /\ Registered(u)' /\ Record(u)' = Record(u)
        /\ has_archived_task(u)'
    BY <1>1, <2>2 DEF Registered, Record, has_active_task, has_archived_task
  <2>4. \A topic \in {"wt_vote", "resolved", "cancelled", "rw_start"} :
          Positions(log', u, topic) = Positions(log, u, topic)
    BY <1>4 DEF TaskTopics
  <2> QED
    BY <1>1, <1>4, <2>1, <2>3, <2>4 DEF Replays, Told
<1> QED
  BY <1>4, <1>5 DEF EventInv

LEMMA FailureKeeps ==
  ASSUME TypeOK, EventInv, PublishFailure
  PROVE  EventInv'
PROOF
<1>1. /\ UNCHANGED <<active_task, archived_task, reward_stream>>
      /\ failure_count + 1 \in Nat
  BY DEF PublishFailure, RecordFailure, taskVars, streamVars, TypeOK
<1>2. log \in Seq(Event) /\ Ordered(log) /\ \A t \in TaskId : Replays(t)
  BY DEF EventInv
<1>3. \A t \in TaskId : Unmoved(t)
  BY <1>1, SameEntries
<1>4. CASE FailureEvents = <<>>
  <2>1. log' = log
    BY <1>2, <1>4, Published0 DEF PublishFailure, Publish
  <2>2. \A t \in TaskId : Unheard(t)
    BY <2>1 DEF Unheard, SaysNothing
  <2> QED
    BY <1>2, <1>3, <2>1, <2>2, OtherTask DEF EventInv
<1>5. CASE FailureEvents = <<emit_circuit_breaker_triggered(failure_count + 1)>>
  <2> DEFINE e == emit_circuit_breaker_triggered(failure_count + 1)
  <2>1. e \in Event /\ e.topic = "cb_trip"
    BY <1>1 DEF emit_circuit_breaker_triggered, Event
  <2> HIDE DEF e
  <2>2. log' = Append(log, e)
    BY <1>2, <1>5, <2>1, Published1 DEF PublishFailure, Publish, e
  <2>3. \A t \in TaskId : Unheard(t)
    BY <1>2, <2>1, <2>2, OneEventSays DEF Unheard
  <2>4. Ordered(log')
    <3>1. \A i \in 1..Len(log) : ~SameTask(log[i], e)
      BY <2>1 DEF SameTask
    <3> QED
      BY <1>2, <2>1, <2>2, <3>1, OrderedAppend
  <2>5. log' \in Seq(Event)
    BY <1>2, <2>1, <2>2, AppendEvent
  <2> QED
    BY <1>2, <1>3, <2>3, <2>4, <2>5, OtherTask DEF EventInv
<1> QED
  BY <1>4, <1>5 DEF FailureEvents

-----------------------------------------------------------------------------
(* Votes                                                                   *)

(* What a vote publishes, as appended to the log.                          *)
ResolvedEvent(g, u) ==
  emit_task_resolved(u, WeightAfter(active_task[u], reputation[g]))

VoteEvent(g, u) == emit_weighted_vote(u, g, reputation[g])

BeforeVote(g, u) ==
  IF Resolves(active_task[u], reputation[g])
  THEN Append(log, ResolvedEvent(g, u)) ELSE log

LEMMA VotePublishes ==
  ASSUME TypeOK, log \in Seq(Event), NEW g \in Address, NEW u \in TaskId,
         AcceptedVote(g, u), Publish(VoteEvents(g, u))
  PROVE  /\ ResolvedEvent(g, u) \in Event
         /\ Mentions(ResolvedEvent(g, u), u, "resolved")
         /\ ResolvedEvent(g, u).weight
              = active_task[u].total_weight_accrued + reputation[g]
         /\ VoteEvent(g, u) \in Event
         /\ Mentions(VoteEvent(g, u), u, "wt_vote")
         /\ VoteEvent(g, u).weight = reputation[g]
         /\ BeforeVote(g, u) \in Seq(Event)
         /\ log' = Append(BeforeVote(g, u), VoteEvent(g, u))
PROOF
<1> DEFINE r == ResolvedEvent(g, u)
           v == VoteEvent(g, u)
           total == active_task[u].total_weight_accrued + reputation[g]
<1>1. reputation[g] \in Nat /\ total \in Nat
  BY ConstantsAssumption DEF AcceptedVote, TaskRecord
<1>2. /\ r = emit_task_resolved(u, total)
      /\ v = emit_weighted_vote(u, g, reputation[g])
  BY DEF ResolvedEvent, VoteEvent, WeightAfter
<1> HIDE DEF total, r, v
<1>3. r \in Event /\ Mentions(r, u, "resolved") /\ r.weight = total
  BY <1>1, <1>2 DEF emit_task_resolved, Event, Mentions
<1>4. v \in Event /\ Mentions(v, u, "wt_vote") /\ v.weight = reputation[g]
  BY <1>1, <1>2 DEF emit_weighted_vote, Event, Mentions
<1>5. /\ Resolves(active_task[u], reputation[g]) => log' = log \o <<r, v>>
      /\ ~Resolves(active_task[u], reputation[g]) => log' = log \o <<v>>
  BY DEF Publish, VoteEvents, calculate_voting_power, r, v, ResolvedEvent,
         VoteEvent
<1>6. /\ log \o <<r, v>> = Append(Append(log, r), v)
      /\ log \o <<v>> = Append(log, v)
      /\ Append(log, r) \in Seq(Event)
  BY <1>3, <1>4, Published1, Published2, AppendEvent
<1>7. BeforeVote(g, u) = IF Resolves(active_task[u], reputation[g])
                         THEN Append(log, r) ELSE log
  BY DEF BeforeVote, r
<1>8. BeforeVote(g, u) \in Seq(Event) /\ log' = Append(BeforeVote(g, u), v)
  BY <1>5, <1>6, <1>7
<1> QED
  BY <1>3, <1>4, <1>8 DEF r, v, total

(* How the log's account of the task voted on changes.                     *)
LEMMA VoteTells ==
  ASSUME TypeOK, log \in Seq(Event), NEW g \in Address, NEW u \in TaskId,
         AcceptedVote(g, u), Publish(VoteEvents(g, u))
  PROVE  /\ log' \in Seq(Event)
         /\ Cardinality(Positions(log', u, "wt_vote"))
              = Cardinality(Positions(log, u, "wt_vote")) + 1
         /\ Positions(log', u, "resolved")
              = Positions(log, u, "resolved")
                  \cup (IF Resolves(active_task[u], reputation[g])
                        THEN {Len(log) + 1} ELSE {})
         /\ \A topic \in {"cancelled", "archived", "rw_start"} :
              Positions(log', u, topic) = Positions(log, u, topic)
         /\ WeightUpTo(log', u, Len(log'))
              = WeightUpTo(log, u, Len(log)) + reputation[g]
         /\ \A t : t # u => Unheard(t)
PROOF
<1> DEFINE r == ResolvedEvent(g, u)
           v == VoteEvent(g, u)
           m == BeforeVote(g, u)
           resolves == Resolves(active_task[u], reputation[g])
<1>1. /\ r \in Event /\ Mentions(r, u, "resolved")
      /\ v \in Event /\ Mentions(v, u, "wt_vote")
      /\ v.weight = reputation[g]
      /\ m \in Seq(Event) /\ log' = Append(m, v)
  BY VotePublishes
<1>2. m = IF resolves THEN Append(log, r) ELSE log
  BY DEF BeforeVote
<1> HIDE DEF r, v, m, resolves
<1>3. ASSUME NEW topic
      PROVE  Positions(m, u, topic)
               = Positions(log, u, topic)
                   \cup (IF resolves /\ topic = "resolved"
                         THEN {Len(log) + 1} ELSE {})
  <2>1. Mentions(r, u, topic) <=> topic = "resolved"
    BY <1>1 DEF Mentions
  <2>2. Positions(Append(log, r), u, topic)
          = Positions(log, u, topic)
              \cup (IF Mentions(r, u, topic) THEN {Len(log) + 1} ELSE {})
    BY <1>1, AppendPositions
  <2> QED
    BY <1>2, <2>1, <2>2
<1>4. ASSUME NEW topic
      PROVE  Positions(log', u, topic)
               = Positions(m, u, topic)
                   \cup (IF topic = "wt_vote" THEN {Len(m) + 1} ELSE {})
  <2>1. Mentions(v, u, topic) <=> topic = "wt_vote"
    BY <1>1 DEF Mentions
  <2>2. Positions(Append(m, v), u, topic)
          = Positions(m, u, topic)
              \cup (IF Mentions(v, u, topic) THEN {Len(m) + 1} ELSE {})
    BY <1>1, AppendPositions
  <2> QED
    BY <1>1, <2>1, <2>2
<1>5. log' \in Seq(Event) /\ Len(log') = Len(m) + 1
  BY <1>1, AppendEvent
<1>6. Cardinality(Positions(log', u, "wt_vote"))
        = Cardinality(Positions(log, u, "wt_vote")) + 1
  <2>1. Positions(m, u, "wt_vote") = Positions(log, u, "wt_vote") \cup {}
    <3>1. Positions(m, u, "wt_vote")
            = Positions(log, u, "wt_vote")
                \cup (IF resolves /\ "wt_vote" = "resolved"
                      THEN {Len(log) + 1} ELSE {})
      BY <1>3
    <3> QED
      BY <3>1
  <2>2. Positions(log', u, "wt_vote")
          = Positions(m, u, "wt_vote") \cup {Len(m) + 1}
    BY <1>4
  <2>3. /\ IsFiniteSet(Positions(m, u, "wt_vote"))
        /\ Len(m) + 1 \notin Positions(m, u, "wt_vote")
    BY <1>1, PositionsType
  <2>4. Positions(m, u, "wt_vote") = Positions(log, u, "wt_vote")
    BY <2>1
  <2> QED
    BY <2>2, <2>3, <2>4, FS_AddElement
<1>7. Positions(log', u, "resolved")
        = Positions(log, u, "resolved")
            \cup (IF resolves THEN {Len(log) + 1} ELSE {})
  <2>1. Positions(log', u, "resolved")
          = Positions(m, u, "resolved")
              \cup (IF "resolved" = "wt_vote" THEN {Len(m) + 1} ELSE {})
    BY <1>4
  <2>2. Positions(m, u, "resolved")
          = Positions(log, u, "resolved")
              \cup (IF resolves THEN {Len(log) + 1} ELSE {})
    BY <1>3
  <2> QED
    BY <2>1, <2>2
<1>8. ASSUME NEW topic \in {"cancelled", "archived", "rw_start"}
      PROVE  Positions(log', u, topic) = Positions(log, u, topic)
  <2>1. topic # "wt_vote" /\ topic # "resolved"
    OBVIOUS
  <2>2. Positions(log', u, topic)
          = Positions(m, u, topic)
              \cup (IF topic = "wt_vote" THEN {Len(m) + 1} ELSE {})
    BY <1>4
  <2>3. Positions(m, u, topic)
          = Positions(log, u, topic)
              \cup (IF resolves /\ topic = "resolved"
                    THEN {Len(log) + 1} ELSE {})
    BY <1>3
  <2> QED
    BY <2>1, <2>2, <2>3
<1>9. WeightUpTo(log', u, Len(log'))
        = WeightUpTo(log, u, Len(log)) + reputation[g]
  <2>1. WeightUpTo(m, u, Len(m)) = WeightUpTo(log, u, Len(log))
    <3>1. CASE resolves
      <4>1. m = Append(log, r)
        BY <1>2, <3>1
      <4>2. ~Mentions(r, u, "wt_vote")
        BY <1>1 DEF Mentions
      <4>3. WeightUpTo(m, u, Len(log) + 1) = WeightUpTo(log, u, Len(log)) + 0
        BY <1>1, <4>1, <4>2, AppendWeight
      <4>4. Len(m) = Len(log) + 1
        BY <1>1, <4>1, AppendEvent
      <4>5. WeightUpTo(log, u, Len(log)) \in Nat
        BY WeightTerms
      <4> QED
        BY <4>3, <4>4, <4>5
    <3>2. CASE ~resolves
      BY <1>2, <3>2
    <3> QED
      BY <3>1, <3>2
  <2>2. WeightUpTo(log', u, Len(m) + 1)
          = WeightUpTo(m, u, Len(m)) + reputation[g]
    BY <1>1, AppendWeight
  <2> QED
    BY <1>5, <2>1, <2>2
<1>10. ASSUME NEW t, t # u PROVE Unheard(t)
  <2>1. SaysNothing(m, log', t)
    BY <1>1, <1>10, OneEventSays DEF Mentions
  <2>2. SaysNothing(log, m, t)
    <3>1. CASE resolves
      BY <1>1, <1>2, <1>10, <3>1, OneEventSays DEF Mentions
    <3>2. CASE ~resolves
      BY <1>2, <3>2 DEF SaysNothing
    <3> QED
      BY <3>1, <3>2
  <2> QED
    BY <2>1, <2>2 DEF SaysNothing, Unheard
<1> QED
  BY <1>5, <1>6, <1>7, <1>8, <1>9, <1>10 DEF resolves

LEMMA VoteKeeps ==
  ASSUME TypeOK, TasksPartition, EventInv, PublishVote
  PROVE  EventInv'
PROOF
<1>1. PICK g \in Address, u \in TaskId, escrow_up \in BOOLEAN :
        Vote(g, u, escrow_up) /\ Publish(VoteEvents(g, u))
  BY DEF PublishVote
<1> DEFINE task == active_task[u]
           w == reputation[g]
           r == ResolvedEvent(g, u)
           v == VoteEvent(g, u)
<1>2. AcceptedVote(g, u)
  BY <1>1, VoteAccepted
<1>3. /\ task \in TaskRecord /\ ~task.is_cancelled /\ w \in Nat
      /\ w \in 0..U64Max /\ has_active_task(u) /\ now \in Nat
      /\ Accrue(task, w) \in TaskRecord
      /\ active_task' = [active_task EXCEPT ![u] = Accrue(task, w)]
  BY <1>2, NoneAssumption, ConstantsAssumption
  DEF AcceptedVote, has_active_task, TypeOK
<1>4. archived_task' = archived_task /\ reward_stream' = reward_stream
  BY <1>1 DEF Vote, streamVars
<1>5. log \in Seq(Event) /\ Ordered(log) /\ \A t \in TaskId : Replays(t)
  BY DEF EventInv
<1>6. /\ r \in Event /\ Mentions(r, u, "resolved")
      /\ r.weight = task.total_weight_accrued + w
      /\ v \in Event /\ Mentions(v, u, "wt_vote") /\ v.weight = w
      /\ log' = Append(BeforeVote(g, u), v)
  BY <1>1, <1>2, <1>5, VotePublishes
<1>7. BeforeVote(g, u) = IF Resolves(task, w) THEN Append(log, r) ELSE log
  BY DEF BeforeVote
<1>8. /\ log' \in Seq(Event)
      /\ Cardinality(Positions(log', u, "wt_vote"))
           = Cardinality(Positions(log, u, "wt_vote")) + 1
      /\ Positions(log', u, "resolved")
           = Positions(log, u, "resolved")
               \cup (IF Resolves(task, w) THEN {Len(log) + 1} ELSE {})
      /\ \A topic \in {"cancelled", "archived", "rw_start"} :
           Positions(log', u, topic) = Positions(log, u, topic)
      /\ WeightUpTo(log', u, Len(log')) = WeightUpTo(log, u, Len(log)) + w
      /\ \A t : t # u => Unheard(t)
  BY <1>1, <1>2, <1>5, VoteTells
<1>9. ASSUME NEW t \in TaskId, t # u PROVE Replays(t)'
  <2>1. Unmoved(t)
    BY <1>3, <1>4, <1>9, SameEntries DEF TypeOK
  <2> QED
    BY <1>5, <1>8, <1>9, <2>1, OtherTask
<1>10. Registered(u) /\ Record(u) = task /\ Told(log, u, task)
  BY <1>3, <1>5 DEF Registered, Record, Replays
<1>11. Replays(u)'
  <2>1. active_task'[u] = Accrue(task, w)
    BY <1>3 DEF TypeOK
  <2>2. Registered(u)' /\ Record(u)' = Accrue(task, w)
    BY <1>3, <2>1, NoneAssumption DEF Registered, Record, has_active_task
  <2>3. /\ has_archived_task(u)' <=> has_archived_task(u)
        /\ reward_stream'[u] = reward_stream[u]
    BY <1>4 DEF has_archived_task
  <2> HIDE DEF task, w
  <2>4. /\ Accrue(task, w).votes = task.votes + 1
        /\ Accrue(task, w).total_weight_accrued = task.total_weight_accrued + w
        /\ Accrue(task, w).is_cancelled = task.is_cancelled
        /\ Accrue(task, w).is_done <=> (task.is_done \/ Resolves(task, w))
    BY <1>2, <1>3, AccrueType DEF AcceptedVote, task, w
  <2>5. Told(log', u, Accrue(task, w))
    BY <1>8, <1>10, <2>4 DEF Told
  <2> QED
    BY <1>5, <1>8, <2>2, <2>3, <2>5 DEF Replays
<1>12. Ordered(log')
  <2>1. ASSUME NEW i \in 1..Len(log), log[i].topic # "cb_trip",
               log[i].task = u
        PROVE  /\ log[i].topic # "archived" /\ log[i].topic # "cancelled"
    BY <1>3, <2>1, ActiveHistory
  <2>2. ASSUME NEW i \in 1..Len(log), NEW e \in {r, v}, SameTask(log[i], e)
        PROVE  MayFollow(log[i], e)
    <3>1. log[i].topic # "cb_trip" /\ log[i].task = u /\ e.topic # "rw_start"
      BY <1>6, <2>2 DEF SameTask, Mentions
    <3> QED
      BY <2>1, <3>1 DEF MayFollow
  <2>3. r.weight = WeightUpTo(log, u, Len(log)) + v.weight
    BY <1>6, <1>10 DEF Told
  <2> HIDE DEF r, v
  <2>4. CASE Resolves(task, w)
    BY <1>5, <1>6, <1>7, <2>2, <2>3, <2>4, OrderedVote
  <2>5. CASE ~Resolves(task, w)
    <3>1. log' = Append(log, v)
      BY <1>6, <1>7, <2>5
    <3>2. v.topic = "wt_vote"
      BY <1>6 DEF Mentions
    <3> QED
      BY <1>5, <1>6, <2>2, <3>1, <3>2, OrderedAppend
  <2> QED
    BY <2>4, <2>5
<1> QED
  BY <1>8, <1>9, <1>11, <1>12 DEF EventInv

-----------------------------------------------------------------------------
(* Theorems                                                                *)

(* Publishing events changes nothing else.                                 *)
LEMMA PublishingIsHarmless == EventSpec => Spec
PROOF
<1>1. EventInit => Init
  BY DEF EventInit
<1>2. [EventNext]_<<vars, log>> => [Next]_vars
  BY DEF EventNext, PublishVote, PublishStream, PublishTask, PublishFailure,
         SilentStep, Next, BreakerStep, TaskStep, VotingStep, StreamStep
<1> QED
  BY <1>1, <1>2, PTL DEF EventSpec, Spec

LEMMA EventStep ==
  ASSUME TypeOK, TasksPartition, EventInv, [EventNext]_<<vars, log>>
  PROVE  EventInv'
PROOF
<1>1. CASE PublishTask
  BY <1>1, CancelKeeps, ArchiveKeeps DEF PublishTask
<1>2. CASE UNCHANGED <<vars, log>>
  <2>1. /\ log' = log
        /\ UNCHANGED <<active_task, archived_task, reward_stream>>
    BY <1>2 DEF vars, taskVars, streamVars
  <2> QED
    BY <2>1 DEF EventInv, Replays, Registered, Record, has_active_task,
                has_archived_task
<1> QED
  BY <1>1, <1>2, VoteKeeps, StreamKeeps, FailureKeeps, SilentKeeps,
     [EventNext]_<<vars, log>> DEF EventNext

LEMMA EventInvariant == EventSpec => []EventInv
PROOF
<1>1. EventInit => EventInv
  <2> SUFFICES ASSUME EventInit PROVE EventInv
    OBVIOUS
  <2>1. log = <<>> /\ Init
    BY DEF EventInit
  <2>2. log \in Seq(Event) /\ 1..Len(log) = {}
    BY <2>1
  <2>3. \A t, topic : Positions(log, t, topic) = {}
    BY <2>2 DEF Positions
  <2>4. Ordered(log)
    BY <2>2 DEF Ordered
  <2>5. \A t \in TaskId : /\ ~Registered(t) /\ ~has_archived_task(t)
                          /\ reward_stream[t] = None
    BY <2>1 DEF Init, Registered, has_active_task, has_archived_task
  <2> QED
    BY <2>2, <2>3, <2>4, <2>5 DEF EventInv, Replays
<1>2. TypeOK /\ TasksPartition /\ EventInv /\ [EventNext]_<<vars, log>>
        => EventInv'
  BY EventStep
<1> QED
  BY <1>1, <1>2, PublishingIsHarmless, TypeCorrect, RegisteredOnce, PTL
  DEF EventSpec

(* Whoever replays the log knows every task's votes, weight, resolution,   *)
(* cancellation, archiving and stream, in every reachable state.           *)
THEOREM ReplayIsFaithful == EventSpec => []ReplayAgrees
PROOF
<1>1. EventInv => ReplayAgrees
  BY EventInvSays
<1> QED
  BY <1>1, EventInvariant, PTL

(* The order an indexer relies on holds of every log: totals next to their *)
(* votes, streams and archiving after a resolution, silence after          *)
(* archiving.                                                              *)
THEOREM LogStaysOrdered == EventSpec => []LogOrdered
PROOF
<1>1. EventInv => LogOrdered
  BY EventInvSays
<1> QED
  BY <1>1, EventInvariant, PTL

LEMMA RestartIsHeard ==
  ASSUME TypeOK, EventInv, [EventNext]_<<vars, log>>, NEW t \in TaskId
  PROVE  RestartStep(t)
PROOF
<1> SUFFICES ASSUME Registered(t),
                    Record(t)'.resolved_at # Record(t).resolved_at
             PROVE  Cardinality(Positions(log', t, "resolved"))
                      = Cardinality(Positions(log, t, "resolved")) + 1
  BY DEF RestartStep
<1>1. [Next]_vars
  BY DEF EventNext, PublishVote, PublishStream, PublishTask, PublishFailure,
         SilentStep, Next, BreakerStep, TaskStep, VotingStep, StreamStep
<1>2. PICK g \in Address : Counts(t, g)
  <2>1. RecordStep(t)
    BY <1>1, RecordSteps
  <2>2. ~Keeps(t)
    BY DEF Keeps
  <2>3. ~Cancels(t)
    <3>1. Record(t) \in TaskRecord
      BY RecordType
    <3> QED
      BY <3>1 DEF Cancels, TaskRecord
  <2> QED
    BY <2>1, <2>2, <2>3 DEF RecordStep, LeavesUnregistered, Opens
<1>3. Voters(t)' # Voters(t)
  BY <1>2 DEF Counts
<1>4. voted' # voted
  BY <1>3 DEF Voters
<1>5. PublishVote
  <2>1. ~PublishStream
    BY <1>4 DEF PublishStream, StartRewardStream, voteVars
  <2>2. ~PublishTask
    BY <1>4 DEF PublishTask, CancelTask, ArchiveTask, voteVars
  <2>3. ~PublishFailure
    BY <1>4 DEF PublishFailure, RecordFailure, voteVars
  <2>4. ~SilentStep
    <3> USE DEF voteVars
    <3>1. ~(TogglePause \/ Pause \/ Unpause \/ ResetCircuitBreaker \/ Tick)
      BY <1>4
      DEF TogglePause, Pause, Unpause, SetPaused, ResetCircuitBreaker, Tick
    <3>2. ~GuardianStep
      BY <1>4 DEF GuardianStep, AddGuardian, RemoveGuardian, SetReputation
    <3>3. ~TokenStep
      BY <1>4
      DEF TokenStep, Initialize, LockTokens, ResignGuardian, UnlockTokens
    <3>4. /\ ~\E u \in TaskId : RegisterTask(u)
          /\ ~\E th \in WeightThresholds : SetWeightThreshold(th)
          /\ ~\E v \in Vault : SetVaultAddress(v)
      BY <1>4 DEF RegisterTask, SetWeightThreshold, SetVaultAddress
    <3> QED
      BY <3>1, <3>2, <3>3, <3>4 DEF SilentStep
  <2>5. ~UNCHANGED vars
    BY <1>4 DEF vars, voteVars
  <2> QED
    BY <2>1, <2>2, <2>3, <2>4, <2>5, [EventNext]_<<vars, log>> DEF EventNext
<1>6. PICK h \in Address, u \in TaskId, escrow_up \in BOOLEAN :
        Vote(h, u, escrow_up) /\ Publish(VoteEvents(h, u))
  BY <1>5 DEF PublishVote
<1>7. AcceptedVote(h, u)
  BY <1>6, VoteAccepted
<1>8. u = t
  <2>1. voted' = voted \cup {<<u, h>>}
    BY <1>6 DEF Vote
  <2> QED
    BY <1>3, <2>1 DEF Voters
<1>9. log \in Seq(Event)
  BY DEF EventInv
<1>10. Positions(log', t, "resolved")
         = Positions(log, t, "resolved")
             \cup (IF Resolves(active_task[t], reputation[h])
                   THEN {Len(log) + 1} ELSE {})
  BY <1>6, <1>7, <1>8, <1>9, VoteTells
<1>11. Resolves(active_task[t], reputation[h])
  <2> DEFINE task == active_task[t]
             w == reputation[h]
  <2>1. /\ task \in TaskRecord /\ w \in 0..U64Max /\ now \in Nat
        /\ ~Overflows(task, w) /\ task.votes # U32Max
        /\ active_task' = [active_task EXCEPT ![t] = Accrue(task, w)]
        /\ Accrue(task, w) \in TaskRecord
    BY <1>7, <1>8, ConstantsAssumption DEF AcceptedVote, TypeOK
  <2>2. Record(t) = task /\ Record(t)' = Accrue(task, w)
    BY <2>1, NoneAssumption DEF Record, has_active_task, TypeOK
  <2> HIDE DEF task, w
  <2>3. Accrue(task, w).resolved_at
          = IF Resolves(task, w) THEN now ELSE task.resolved_at
    BY <2>1, AccrueType
  <2> QED
    BY <2>2, <2>3 DEF task, w
<1>12. /\ IsFiniteSet(Positions(log, t, "resolved"))
       /\ Len(log) + 1 \notin Positions(log, t, "resolved")
  BY <1>9, PositionsType
<1>13. Positions(log', t, "resolved")
         = Positions(log, t, "resolved") \cup {Len(log) + 1}
  BY <1>10, <1>11
<1> QED
  BY <1>12, <1>13, FS_AddElement

(* No vote moves a resolution stamp, and with it the archive period,       *)
(* without publishing resolved once more.                                  *)
THEOREM RestartsAreAnnounced == EventSpec => RestartsAnnounced
PROOF
<1>1. TypeOK /\ EventInv /\ [EventNext]_<<vars, log>>
        => [\A t \in TaskId : RestartStep(t)]_<<vars, log>>
  BY RestartIsHeard
<1> QED
  BY <1>1, PublishingIsHarmless, TypeCorrect, EventInvariant, PTL
  DEF EventSpec, RestartsAnnounced
=============================================================================
