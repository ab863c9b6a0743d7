---------------------------- MODULE ReviewProofs ----------------------------
(***************************************************************************)
(* Proofs about Review, and with it about Catalogue, for every set of      *)
(* workers, reviewers, experiments and policies, every clock and every     *)
(* number of scenarios, trials and revisions.                              *)
(***************************************************************************)
EXTENDS Review, FiniteSetTheorems, SequenceTheorems, TLAPS

-----------------------------------------------------------------------------
(* Ids: every tick of a worker is after the one before, whatever its clock *)
(* shows, and an id of a later tick is greater.                            *)

Ticks == [time : -1..MaxTime, counter : 0..MaxCounter]

Serial(tick) == tick.time * (MaxCounter + 1) + tick.counter

LEMMA Bounds == MaxTime \in Nat /\ MaxCounter \in Nat /\ MaxRandom \in Nat
BY IdsAssumption

LEMMA SerialIsInt ==
  ASSUME NEW tick \in Ticks
  PROVE  Serial(tick) \in Int
BY Bounds DEF Ticks, Serial

LEMMA LaterTime ==
  ASSUME NEW t1 \in Int, NEW t2 \in Int, t1 < t2, NEW c1 \in 0..MaxCounter, NEW c2 \in Nat
  PROVE  t1 * (MaxCounter + 1) + c1 < t2 * (MaxCounter + 1) + c2
<1>1. MaxCounter \in Nat
  BY Bounds
<1>2. (t1 + 1) * (MaxCounter + 1) <= t2 * (MaxCounter + 1)
  BY <1>1
<1>3. (t1 + 1) * (MaxCounter + 1) = t1 * (MaxCounter + 1) + MaxCounter + 1
  BY <1>1
<1> QED BY <1>1, <1>2, <1>3

\* Ticked makes a tick of a tick, of a time that is not before the epoch.
LEMMA TickedIsTick ==
  ASSUME NEW was \in Ticks, NEW clock \in Clocks
  PROVE  /\ Ticked(was, clock) \in Ticks
         /\ Ticked(was, clock).time >= 0
<1> clock \in Nat /\ MaxTime \in Nat /\ MaxCounter \in Nat
  BY IdsAssumption
<1>1. CASE Lesser(clock, MaxTime) > was.time
  BY <1>1 DEF Ticked, Ticks, Lesser
<1>2. CASE ~(Lesser(clock, MaxTime) > was.time) /\ was.counter < MaxCounter
  <2>1. Ticked(was, clock) = [was EXCEPT !.counter = was.counter + 1]
    BY <1>2 DEF Ticked
  <2>2. was.time \in Nat /\ was.time <= MaxTime /\ was.counter \in Nat
    BY <1>2 DEF Ticks, Lesser
  <2> QED BY <1>2, <2>1, <2>2 DEF Ticks
<1>3. CASE ~(Lesser(clock, MaxTime) > was.time) /\ ~(was.counter < MaxCounter)
  <2>1. Ticked(was, clock) = [time |-> Lesser(was.time + 1, MaxTime), counter |-> 0]
    BY <1>3 DEF Ticked
  <2>2. was.time \in Nat
    BY <1>3 DEF Ticks, Lesser
  <2> QED BY <2>1, <2>2 DEF Ticks, Lesser
<1> QED BY <1>1, <1>2, <1>3

LEMMA TickedIsLater ==
  ASSUME NEW was \in Ticks, NEW clock \in Clocks,
         was # [time |-> MaxTime, counter |-> MaxCounter]
  PROVE  Serial(was) < Serial(Ticked(was, clock))
<1> clock \in Nat /\ MaxTime \in Nat /\ MaxCounter \in Nat
  BY IdsAssumption
<1>1. CASE Lesser(clock, MaxTime) > was.time
  <2>1. Ticked(was, clock) = [time |-> Lesser(clock, MaxTime), counter |-> 0]
    BY <1>1 DEF Ticked
  <2>2. was.time \in Int /\ Lesser(clock, MaxTime) \in Int /\ was.counter \in 0..MaxCounter
    BY DEF Ticks, Lesser
  <2>3. was.time * (MaxCounter + 1) + was.counter
          < Lesser(clock, MaxTime) * (MaxCounter + 1) + 0
    BY <1>1, <2>2, LaterTime
  <2> QED BY <2>1, <2>3 DEF Serial
<1>2. CASE ~(Lesser(clock, MaxTime) > was.time) /\ was.counter < MaxCounter
  <2>1. Ticked(was, clock) = [was EXCEPT !.counter = was.counter + 1]
    BY <1>2 DEF Ticked
  <2>2. Ticked(was, clock).time = was.time /\ Ticked(was, clock).counter = was.counter + 1
    BY <2>1 DEF Ticks
  <2>3. was.time \in Int /\ was.counter \in Int
    BY DEF Ticks
  <2>4. was.time * (MaxCounter + 1) \in Int
    BY <2>3
  <2> QED BY <2>2, <2>3, <2>4 DEF Serial
<1>3. CASE ~(Lesser(clock, MaxTime) > was.time) /\ ~(was.counter < MaxCounter)
  <2>1. Ticked(was, clock) = [time |-> Lesser(was.time + 1, MaxTime), counter |-> 0]
    BY <1>3 DEF Ticked
  <2>2. was.time \in Int /\ was.counter \in 0..MaxCounter /\ was.counter = MaxCounter
    BY <1>3 DEF Ticks
  <2>3. was = [time |-> was.time, counter |-> was.counter]
    BY DEF Ticks
  <2>4. was.time # MaxTime /\ was.time <= MaxTime
    BY <2>2, <2>3 DEF Ticks
  <2>5. Lesser(was.time + 1, MaxTime) = was.time + 1
    BY <2>2, <2>4 DEF Lesser
  <2>6. was.time * (MaxCounter + 1) + was.counter < (was.time + 1) * (MaxCounter + 1) + 0
    BY <2>2, LaterTime
  <2> QED BY <2>1, <2>5, <2>6 DEF Serial
<1> QED BY <1>1, <1>2, <1>3

LEMMA IdIsInt ==
  ASSUME NEW tick \in Ticks, NEW random \in 0..MaxRandom
  PROVE  IdOf(tick, random) \in Int
BY Bounds, SerialIsInt DEF IdOf, Serial

LEMMA LaterId ==
  ASSUME NEW tick1 \in Ticks, NEW tick2 \in Ticks, Serial(tick1) < Serial(tick2),
         NEW random1 \in 0..MaxRandom, NEW random2 \in 0..MaxRandom
  PROVE  IdOf(tick1, random1) < IdOf(tick2, random2)
<1> MaxRandom \in Nat
  BY Bounds
<1> DEFINE s1 == Serial(tick1)
           s2 == Serial(tick2)
<1>1. s1 \in Int /\ s2 \in Int
  BY SerialIsInt
<1>2. IdOf(tick1, random1) = s1 * (MaxRandom + 1) + random1 + 1
  BY DEF IdOf, Serial
<1>3. IdOf(tick2, random2) = s2 * (MaxRandom + 1) + random2 + 1
  BY DEF IdOf, Serial
<1>4. s1 < s2
  OBVIOUS
<1> HIDE DEF s1, s2
<1>5. (s1 + 1) * (MaxRandom + 1) <= s2 * (MaxRandom + 1)
  BY <1>1, <1>4
<1>6. (s1 + 1) * (MaxRandom + 1) = s1 * (MaxRandom + 1) + MaxRandom + 1
  BY <1>1
<1> QED BY <1>1, <1>2, <1>3, <1>5, <1>6

LEMMA IdInRange ==
  ASSUME NEW tick \in Ticks, tick.time >= 0, NEW random \in 0..MaxRandom
  PROVE  IdOf(tick, random) \in Ids
<1> MaxTime \in Nat /\ MaxCounter \in Nat /\ MaxRandom \in Nat
  BY Bounds
<1> DEFINE top == [time |-> MaxTime, counter |-> MaxCounter]
<1>1. top \in Ticks
  BY DEF Ticks
<1>2. IdOf(tick, random) \in Int /\ IdOf(top, MaxRandom) \in Int
  BY <1>1, IdIsInt
<1>3. tick.time \in 0..MaxTime /\ tick.counter \in 0..MaxCounter
  BY DEF Ticks
<1>4. 0 <= Serial(tick)
  BY <1>3 DEF Serial
<1>5. Serial(tick) <= Serial(top)
  <2>1. tick.time * (MaxCounter + 1) <= MaxTime * (MaxCounter + 1)
    BY <1>3
  <2> QED BY <1>3, <2>1 DEF Serial
<1>6. Serial(tick) \in Int /\ Serial(top) \in Int
  BY <1>1, SerialIsInt
<1>7. IdOf(tick, random) = Serial(tick) * (MaxRandom + 1) + random + 1
  BY DEF IdOf, Serial
<1>8. IdOf(top, MaxRandom) = Serial(top) * (MaxRandom + 1) + MaxRandom + 1
  BY DEF IdOf, Serial
<1>9. 0 <= Serial(tick) * (MaxRandom + 1)
  BY <1>4, <1>6
<1>10. Serial(tick) * (MaxRandom + 1) <= Serial(top) * (MaxRandom + 1)
  BY <1>5, <1>6
<1> HIDE DEF top
<1>11. 1 <= IdOf(tick, random)
  BY <1>6, <1>7, <1>9
<1>12. IdOf(tick, random) <= IdOf(top, MaxRandom)
  BY <1>6, <1>7, <1>8, <1>10
<1>13. IdOf(tick, random) \in 1..IdOf(top, MaxRandom)
  BY <1>2, <1>11, <1>12
<1> QED BY <1>13 DEF Ids, top

-----------------------------------------------------------------------------
(* The trials of an experiment: TrialsOf names each policy with each       *)
(* scenario, and none twice.                                               *)

TrialSet == Experiments \X Policies \X Seeds

\* What the API has made of what was posted.
Posted ==
  /\ scenarios \in Seq(Seeds) /\ IsInjective(scenarios)
  /\ policies \in [Experiments -> Seq(Policies)]
  /\ \A e \in Experiments :
       IsInjective(policies[e]) /\ (scenarios = <<>> => policies[e] = <<>>)

LEMMA DivisionBounds ==
  ASSUME NEW a \in Nat, NEW n \in Nat, n > 0, NEW m \in Nat, a < m * n
  PROVE  /\ (a \div n) + 1 \in 1..m
         /\ (a % n) + 1 \in 1..n
<1>1. a \div n \in Int /\ a \div n >= 0
  OBVIOUS
<1>2. a \div n < m
  OBVIOUS
<1>3. a % n \in Int
  OBVIOUS
<1>4. a % n >= 0 /\ a % n < n
  OBVIOUS
<1> QED BY <1>1, <1>2, <1>3, <1>4

LEMMA DivisionUnique ==
  ASSUME NEW a \in Nat, NEW b \in Nat, NEW n \in Nat, n > 0, a \div n = b \div n, a % n = b % n
  PROVE  a = b
OBVIOUS

LEMMA SumsAreSame ==
  \A a, b \in Int : a + 1 = b + 1 => a = b
OBVIOUS

LEMMA DivisionOfSum ==
  ASSUME NEW i \in Nat, NEW j \in Nat, NEW n \in Nat, n > 0, j < n
  PROVE  (i * n + j) \div n = i /\ (i * n + j) % n = j
OBVIOUS

LEMMA ProductIsNat ==
  ASSUME NEW m \in Nat, NEW n \in Nat
  PROVE  m * n \in Nat
OBVIOUS

LEMMA TrialAt ==
  ASSUME Posted, NEW e \in Experiments, NEW k \in DOMAIN TrialsOf(e)
  PROVE  LET n == Len(scenarios)
             i == ((k - 1) \div n) + 1
             j == ((k - 1) % n) + 1
         IN  /\ n \in Nat /\ n > 0 /\ k \in Nat \ {0}
             /\ i \in DOMAIN policies[e] /\ j \in DOMAIN scenarios
             /\ TrialsOf(e)[k] = <<e, policies[e][i], scenarios[j]>>
             /\ TrialsOf(e)[k] \in TrialSet
<1> DEFINE n == Len(scenarios)
           m == Len(policies[e])
           i == ((k - 1) \div n) + 1
           j == ((k - 1) % n) + 1
<1>1. scenarios \in Seq(Seeds) /\ policies[e] \in Seq(Policies)
  BY DEF Posted
<1>2. n \in Nat /\ m \in Nat /\ DOMAIN scenarios = 1..n /\ DOMAIN policies[e] = 1..m
  BY <1>1, LenProperties
<1>3. k \in 1..(m * n)
  BY DEF TrialsOf
<1>4. TrialsOf(e)[k] = <<e, policies[e][i], scenarios[j]>>
  BY <1>3 DEF TrialsOf
<1>5. m * n \in Nat
  BY <1>2
<1>6. k \in Nat /\ k - 1 \in Nat /\ k - 1 < m * n /\ k > 0
  BY <1>3, <1>5
<1>7. n > 0
  <2>1. n = 0 => m * n = 0
    BY <1>2
  <2> QED BY <1>2, <1>6, <2>1
<1> HIDE DEF n, m
<1>8. ((k - 1) \div n) + 1 \in 1..m /\ ((k - 1) % n) + 1 \in 1..n
  BY <1>2, <1>6, <1>7, DivisionBounds
<1>9. policies[e][i] \in Policies /\ scenarios[j] \in Seeds
  BY <1>1, <1>2, <1>8, ElementOfSeq DEF n, m
<1> QED BY <1>2, <1>4, <1>6, <1>7, <1>8, <1>9 DEF n, TrialSet

LEMMA TrialsAreSeq ==
  ASSUME Posted, NEW e \in Experiments
  PROVE  /\ TrialsOf(e) \in Seq(TrialSet)
         /\ Len(TrialsOf(e)) = Len(policies[e]) * Len(scenarios)
         /\ Len(TrialsOf(e)) \in Nat
         /\ DOMAIN TrialsOf(e) = 1..Len(TrialsOf(e))
<1> DEFINE c == Len(policies[e]) * Len(scenarios)
           T == TrialsOf(e)
<1>1. Len(policies[e]) \in Nat /\ Len(scenarios) \in Nat
  BY LenProperties DEF Posted
<1>2. c \in Nat
  BY <1>1, ProductIsNat
<1>3. DOMAIN T = 1..c
  BY DEF TrialsOf
<1>4. \A k \in 1..c : T[k] \in TrialSet
  BY <1>3, TrialAt
<1>5. T = [k \in 1..c |-> T[k]]
  BY DEF TrialsOf
<1> HIDE DEF T, c
<1>6. T \in [1..c -> TrialSet]
  BY <1>3, <1>4, <1>5
<1>7. T \in Seq(TrialSet)
  BY <1>2, <1>6
<1>8. Len(T) = c
  BY <1>2, <1>3, <1>7, LenProperties
<1> QED BY <1>2, <1>3, <1>7, <1>8 DEF T, c

\* A trial appears once.
LEMMA TrialsDiffer ==
  ASSUME Posted, NEW e \in Experiments, NEW k \in DOMAIN TrialsOf(e), NEW l \in DOMAIN TrialsOf(e),
         TrialsOf(e)[k] = TrialsOf(e)[l]
  PROVE  k = l
<1> DEFINE n == Len(scenarios)
           I(x) == ((x - 1) \div n) + 1
           J(x) == ((x - 1) % n) + 1
<1>1. /\ n \in Nat /\ n > 0 /\ k \in Nat \ {0} /\ l \in Nat \ {0}
      /\ I(k) \in DOMAIN policies[e] /\ J(k) \in DOMAIN scenarios
      /\ I(l) \in DOMAIN policies[e] /\ J(l) \in DOMAIN scenarios
      /\ TrialsOf(e)[k] = <<e, policies[e][I(k)], scenarios[J(k)]>>
      /\ TrialsOf(e)[l] = <<e, policies[e][I(l)], scenarios[J(l)]>>
  BY TrialAt
<1>2. policies[e][I(k)] = policies[e][I(l)] /\ scenarios[J(k)] = scenarios[J(l)]
  <2> HIDE DEF I, J
  <2>1. <<e, policies[e][I(k)], scenarios[J(k)]>> = <<e, policies[e][I(l)], scenarios[J(l)]>>
    BY <1>1
  <2> QED BY <2>1
<1>3. I(k) = I(l)
  BY <1>1, <1>2 DEF Posted, IsInjective
<1>4. J(k) = J(l)
  BY <1>1, <1>2 DEF Posted, IsInjective
<1>5. (k - 1) \div n \in Int /\ (l - 1) \div n \in Int /\ (k - 1) % n \in Int /\ (l - 1) % n \in Int
  BY <1>1
<1>6. (k - 1) \div n = (l - 1) \div n /\ (k - 1) % n = (l - 1) % n
  BY <1>3, <1>4, <1>5, SumsAreSame
<1>7. k - 1 \in Nat /\ l - 1 \in Nat
  BY <1>1
<1> HIDE DEF n
<1>8. k - 1 = l - 1
  BY <1>1, <1>6, <1>7, DivisionUnique
<1> QED BY <1>1, <1>8

\* Every policy runs every scenario.
LEMMA TrialsCover ==
  ASSUME Posted, NEW e \in Experiments, NEW i \in DOMAIN policies[e], NEW j \in DOMAIN scenarios
  PROVE  \E k \in DOMAIN TrialsOf(e) : TrialsOf(e)[k] = <<e, policies[e][i], scenarios[j]>>
<1> DEFINE n == Len(scenarios)
           m == Len(policies[e])
           k == (i - 1) * n + j
<1>1. scenarios \in Seq(Seeds) /\ policies[e] \in Seq(Policies)
  BY DEF Posted
<1>2. n \in Nat /\ m \in Nat /\ DOMAIN scenarios = 1..n /\ DOMAIN policies[e] = 1..m
  BY <1>1, LenProperties
<1>3. i \in 1..m /\ j \in 1..n
  BY <1>2
<1>4. DOMAIN TrialsOf(e) = 1..(m * n)
  BY DEF TrialsOf
<1> HIDE DEF n, m
<1>5. k \in 1..(m * n)
  BY <1>2, <1>3
<1>6. i - 1 \in Nat /\ j - 1 \in Nat /\ n > 0 /\ j - 1 < n
  BY <1>2, <1>3
<1>7. ((i - 1) * n + (j - 1)) \div n = i - 1 /\ ((i - 1) * n + (j - 1)) % n = j - 1
  BY <1>2, <1>6, DivisionOfSum
<1>8. k - 1 = (i - 1) * n + (j - 1)
  <2>1. (i - 1) * n \in Int
    BY <1>2, <1>6
  <2> QED BY <1>3, <1>2, <2>1
<1>9. ((k - 1) \div n) + 1 = i /\ ((k - 1) % n) + 1 = j
  <2>1. (k - 1) \div n = i - 1 /\ (k - 1) % n = j - 1
    BY <1>7, <1>8
  <2>2. (i - 1) + 1 = i /\ (j - 1) + 1 = j
    BY <1>2, <1>3
  <2> QED BY <2>1, <2>2
<1> HIDE DEF k
<1>10. TrialsOf(e)[k] = <<e, policies[e][((k - 1) \div n) + 1], scenarios[((k - 1) % n) + 1]>>
  BY <1>5 DEF TrialsOf, n, m
<1> QED BY <1>4, <1>5, <1>9, <1>10

-----------------------------------------------------------------------------
(* The invariant of the catalogue.                                         *)

IdMaps == {f \in UNION {[S -> Ids] : S \in SUBSET TrialSet} : IsInjective(f)}

\* The transaction of worker w is about to insert trial k + 1 of experiment e: it has
\* found or inserted the ones before, in that order.
Creating(w, e, k) ==
  LET T   == TrialsOf(e)
      new == tx[w].new
  IN  /\ tx[w].open /\ policies[e] # <<>>
      /\ k \in 0..Len(T)
      /\ tx[w].order \in Seq(TrialSet) /\ Len(tx[w].order) = Len(T) - k
      /\ \A i \in 1..Len(tx[w].order) : tx[w].order[i] = T[k + i]
      /\ \A i \in 1..k : T[i] \in DOMAIN ids \cup DOMAIN new
      /\ \A t \in DOMAIN new : \E i \in 1..k : t = T[i]
      /\ \A i, j \in 1..k :
           i < j /\ T[i] \in DOMAIN new /\ T[j] \in DOMAIN new => new[T[i]] < new[T[j]]
      /\ \A t \in DOMAIN new : new[t] <= IdOf(last[w], MaxRandom)

Working(w) == tx[w] = Closed \/ \E e \in Experiments, k \in Nat : Creating(w, e, k)

\* The workers' clocks and transactions.
WorkersOpen ==
  /\ last \in [Workers -> Ticks]
  /\ tx = [w \in Workers |-> tx[w]]
  /\ \A w \in Workers : tx[w].new \in IdMaps /\ Working(w)

\* No trial and no id is anybody else's.
Apart ==
  /\ ids \in IdMaps
  /\ \A w \in Workers : /\ DOMAIN tx[w].new \cap DOMAIN ids = {}
                        /\ Range(tx[w].new) \cap Range(ids) = {}
  /\ \A w, v \in Workers : w # v => /\ DOMAIN tx[w].new \cap DOMAIN tx[v].new = {}
                                    /\ Range(tx[w].new) \cap Range(tx[v].new) = {}

WholeOf(e) ==
  {t \in DOMAIN ids : t[1] = e} = {} \/ {t \in DOMAIN ids : t[1] = e} = Range(TrialsOf(e))

Whole == \A e \in Experiments : WholeOf(e)

\* What the client has drawn; a placement is one that was found valid.
Drafted ==
  /\ draft \in [seeds : Seq(Seeds), obj : Objects \cup {NoObject}, tries : Nat,
                 place : {NoPlace} \cup [obj : Objects, at : Positions, yaw : Yaws]]
  /\ draft.place # NoPlace =>
       PlacementIsValid(draft.place.obj, draft.place.at, draft.place.yaw)

CatalogueInv == Drafted /\ Posted /\ WorkersOpen /\ Apart /\ Whole

-----------------------------------------------------------------------------
(* Lemmas about maps of ids.                                               *)

LEMMA IdMapShape ==
  ASSUME NEW f \in IdMaps
  PROVE  /\ f \in [DOMAIN f -> Ids] /\ DOMAIN f \subseteq TrialSet
         /\ \A t \in DOMAIN f : f[t] \in Ids
         /\ IsInjective(f)
<1>1. PICK S \in SUBSET TrialSet : f \in [S -> Ids]
  BY DEF IdMaps
<1> QED BY <1>1 DEF IdMaps

LEMMA IdMapMade ==
  ASSUME NEW S \in SUBSET TrialSet, NEW f \in [S -> Ids], IsInjective(f)
  PROVE  f \in IdMaps
BY DEF IdMaps

LEMMA JoinedAt ==
  ASSUME NEW f, NEW g
  PROVE  /\ DOMAIN Joined(f, g) = DOMAIN f \cup DOMAIN g
         /\ \A t \in DOMAIN f : Joined(f, g)[t] = f[t]
         /\ \A t \in DOMAIN g : t \notin DOMAIN f => Joined(f, g)[t] = g[t]
BY DEF Joined

LEMMA JoinedIsIdMap ==
  ASSUME NEW f \in IdMaps, NEW g \in IdMaps,
         DOMAIN f \cap DOMAIN g = {}, Range(f) \cap Range(g) = {}
  PROVE  Joined(f, g) \in IdMaps
<1> DEFINE h == Joined(f, g)
<1>1. /\ DOMAIN h = DOMAIN f \cup DOMAIN g
      /\ \A t \in DOMAIN f : h[t] = f[t]
      /\ \A t \in DOMAIN g : t \notin DOMAIN f => h[t] = g[t]
  BY JoinedAt
<1>2. h = [t \in DOMAIN h |-> h[t]]
  BY DEF Joined
<1>3. /\ DOMAIN f \subseteq TrialSet /\ DOMAIN g \subseteq TrialSet
      /\ \A t \in DOMAIN f : f[t] \in Ids
      /\ \A t \in DOMAIN g : g[t] \in Ids
      /\ IsInjective(f) /\ IsInjective(g)
  BY IdMapShape
<1> HIDE DEF h
<1>4. ASSUME NEW t \in DOMAIN h PROVE h[t] \in Ids
  BY <1>1, <1>3
<1>5. h \in [DOMAIN h -> Ids]
  BY <1>2, <1>4
<1>6. ASSUME NEW t \in DOMAIN h, NEW u \in DOMAIN h, h[t] = h[u] PROVE t = u
  <2>1. CASE t \in DOMAIN f /\ u \in DOMAIN f
    BY <1>1, <1>3, <1>6, <2>1 DEF IsInjective
  <2>2. CASE t \in DOMAIN f /\ u \in DOMAIN g
    BY <1>1, <1>6, <2>2 DEF Range
  <2>3. CASE t \in DOMAIN g /\ u \in DOMAIN f
    BY <1>1, <1>6, <2>3 DEF Range
  <2>4. CASE t \in DOMAIN g /\ u \in DOMAIN g
    BY <1>1, <1>3, <1>6, <2>4 DEF IsInjective
  <2> QED BY <1>1, <1>6, <2>1, <2>2, <2>3, <2>4
<1>7. IsInjective(h)
  BY <1>6 DEF IsInjective
<1>8. DOMAIN h \in SUBSET TrialSet
  BY <1>1, <1>3
<1>9. h \in IdMaps
  BY <1>5, <1>7, <1>8, IdMapMade
<1> QED BY <1>9 DEF h

LEMMA JoinedRange ==
  ASSUME NEW f, NEW g, DOMAIN f \cap DOMAIN g = {}
  PROVE  Range(Joined(f, g)) = Range(f) \cup Range(g)
<1> DEFINE h == Joined(f, g)
<1>1. /\ DOMAIN h = DOMAIN f \cup DOMAIN g
      /\ \A t \in DOMAIN f : h[t] = f[t]
      /\ \A t \in DOMAIN g : t \notin DOMAIN f => h[t] = g[t]
  BY JoinedAt
<1> HIDE DEF h
<1>2. \A t \in DOMAIN g : h[t] = g[t]
  BY <1>1
<1>3. Range(h) \subseteq Range(f) \cup Range(g)
  BY <1>1, <1>2 DEF Range
<1>4. Range(f) \subseteq Range(h)
  BY <1>1 DEF Range
<1>5. Range(g) \subseteq Range(h)
  BY <1>1, <1>2 DEF Range
<1> QED BY <1>3, <1>4, <1>5 DEF h

LEMMA SingleIdMap ==
  ASSUME NEW trial \in TrialSet, NEW id \in Ids
  PROVE  LET f == [t \in {trial} |-> id]
         IN  f \in IdMaps /\ DOMAIN f = {trial} /\ Range(f) = {id} /\ f[trial] = id
<1> DEFINE f == [t \in {trial} |-> id]
<1>1. f \in [{trial} -> Ids] /\ DOMAIN f = {trial} /\ f[trial] = id
  OBVIOUS
<1>2. IsInjective(f)
  BY DEF IsInjective
<1>3. f \in IdMaps
  BY <1>1, <1>2, IdMapMade
<1>4. Range(f) = {id}
  BY <1>1 DEF Range
<1> QED BY <1>1, <1>3, <1>4

LEMMA NoTrialsIsIdMap == NoTrials \in IdMaps /\ DOMAIN NoTrials = {} /\ Range(NoTrials) = {}
<1>1. DOMAIN NoTrials = {} /\ NoTrials \in [{} -> Ids]
  BY DEF NoTrials
<1>2. IsInjective(NoTrials)
  BY <1>1 DEF IsInjective
<1>3. NoTrials \in IdMaps
  BY <1>1, <1>2, IdMapMade
<1> QED BY <1>1, <1>3 DEF Range

LEMMA ClosedFields == Closed.new = NoTrials /\ ~Closed.open /\ Closed.order = <<>>
BY DEF Closed

-----------------------------------------------------------------------------
(* What a step leaves alone.                                               *)

TrialsStay == policies' = policies /\ scenarios' = scenarios

LEMMA CreatingKept ==
  ASSUME NEW w \in Workers, NEW e \in Experiments, NEW k \in Nat, Creating(w, e, k),
         tx'[w] = tx[w], last'[w] = last[w], DOMAIN ids \subseteq DOMAIN ids', TrialsStay
  PROVE  Creating(w, e, k)'
<1>1. TrialsOf(e)' = TrialsOf(e) /\ policies'[e] = policies[e]
  BY DEF TrialsOf, TrialsStay
<1> QED BY <1>1 DEF Creating

LEMMA WorkingKept ==
  ASSUME NEW w \in Workers, Working(w),
         tx'[w] = tx[w], last'[w] = last[w], DOMAIN ids \subseteq DOMAIN ids', TrialsStay
  PROVE  Working(w)'
<1>1. CASE tx[w] = Closed
  BY <1>1 DEF Working, Closed, NoTrials
<1>2. CASE \E e \in Experiments, k \in Nat : Creating(w, e, k)
  <2>1. PICK e \in Experiments, k \in Nat : Creating(w, e, k)
    BY <1>2
  <2>2. Creating(w, e, k)'
    BY <2>1, CreatingKept
  <2> QED BY <2>2 DEF Working
<1> QED BY <1>1, <1>2 DEF Working

LEMMA DraftedKept ==
  ASSUME Drafted, draft' = draft
  PROVE  Drafted'
BY DEF Drafted

LEMMA PostedKept ==
  ASSUME Posted, TrialsStay
  PROVE  Posted'
BY DEF Posted, TrialsStay

LEMMA WholeKept ==
  ASSUME Whole, TrialsStay, ids' = ids
  PROVE  Whole'
<1>1. \A e \in Experiments : TrialsOf(e)' = TrialsOf(e)
  BY DEF TrialsOf, TrialsStay
<1>2. \A e \in Experiments : WholeOf(e)' <=> WholeOf(e)
  BY <1>1 DEF WholeOf, Range
<1> QED BY <1>2 DEF Whole

LEMMA ApartKept ==
  ASSUME Apart, ids' = ids, tx' = tx
  PROVE  Apart'
<1>1. IdMaps' = IdMaps
  BY DEF IdMaps, Ids, TrialSet
<1>2. Range(ids)' = Range(ids) /\ \A w \in Workers : Range(tx'[w].new) = Range(tx[w].new)
  BY DEF Range
<1> QED BY <1>1, <1>2 DEF Apart

LEMMA WorkersKept ==
  ASSUME WorkersOpen, ids' = ids, tx' = tx, last' = last, TrialsStay
  PROVE  WorkersOpen'
<1>1. \A w \in Workers : Working(w)'
  BY WorkingKept DEF WorkersOpen
<1> QED BY <1>1 DEF WorkersOpen, IdMaps, Ids, TrialSet, Ticks

\* A step that leaves the workers and the posts alone.
LEMMA ClientKeeps ==
  ASSUME CatalogueInv, TrialsStay, Drafted', UNCHANGED <<last, tx, ids>>
  PROVE  CatalogueInv'
BY PostedKept, WholeKept, ApartKept, WorkersKept DEF CatalogueInv

LEMMA NoDraftIsDrafted ==
  ASSUME draft' = NoDraft
  PROVE  Drafted'
<1>1. draft' = [seeds |-> <<>>, obj |-> NoObject, tries |-> 0, place |-> NoPlace]
  BY DEF NoDraft
<1>2. <<>> \in Seq(Seeds)
  OBVIOUS
<1> QED BY <1>1, <1>2 DEF Drafted

LEMMA DrawObjectKeeps ==
  ASSUME CatalogueInv, DrawObject
  PROVE  CatalogueInv'
<1>1. PICK seed \in Seeds, obj \in Objects :
        draft' = [NoDraft EXCEPT !.seeds = Append(draft.seeds, seed), !.obj = obj]
  BY DEF DrawObject
<1>2. draft' = [seeds |-> Append(draft.seeds, seed), obj |-> obj, tries |-> 0, place |-> NoPlace]
  BY <1>1 DEF NoDraft
<1>3. Append(draft.seeds, seed) \in Seq(Seeds)
  BY AppendProperties DEF CatalogueInv, Drafted
<1>4. Drafted'
  BY <1>2, <1>3 DEF Drafted
<1> QED BY <1>4, ClientKeeps DEF DrawObject, TrialsStay

LEMMA DrawPlaceKeeps ==
  ASSUME CatalogueInv, DrawPlace
  PROVE  CatalogueInv'
<1>1. PICK at \in Positions, yaw \in Yaws :
        draft' = IF PlacementIsValid(draft.obj, at, yaw)
                THEN [NoDraft EXCEPT !.seeds = draft.seeds,
                        !.place = [obj |-> draft.obj, at |-> at, yaw |-> yaw]]
                ELSE IF draft.tries + 1 < RetryLimit
                THEN [draft EXCEPT !.tries = @ + 1]
                ELSE NoDraft
  BY DEF DrawPlace
<1>2. /\ draft.seeds \in Seq(Seeds) /\ draft.obj \in Objects /\ draft.tries \in Nat
      /\ draft = [seeds |-> draft.seeds, obj |-> draft.obj, tries |-> draft.tries,
                  place |-> draft.place]
  BY DEF CatalogueInv, Drafted, DrawPlace
<1>3. CASE PlacementIsValid(draft.obj, at, yaw)
  <2> DEFINE place == [obj |-> draft.obj, at |-> at, yaw |-> yaw]
  <2>1. draft' = [seeds |-> draft.seeds, obj |-> NoObject, tries |-> 0, place |-> place]
    BY <1>1, <1>3 DEF NoDraft
  <2>2. place \in [obj : Objects, at : Positions, yaw : Yaws]
    BY <1>2
  <2>3. PlacementIsValid(place.obj, place.at, place.yaw)
    BY <1>3
  <2> HIDE DEF place
  <2>4. Drafted'
    BY <1>2, <2>1, <2>2, <2>3 DEF Drafted
  <2> QED BY <2>4, ClientKeeps DEF DrawPlace, TrialsStay
<1>4. CASE ~PlacementIsValid(draft.obj, at, yaw) /\ draft.tries + 1 < RetryLimit
  <2>1. draft' = [draft EXCEPT !.tries = draft.tries + 1]
    BY <1>1, <1>4
  <2>2. Drafted'
    BY <1>2, <2>1 DEF CatalogueInv, Drafted
  <2> QED BY <2>2, ClientKeeps DEF DrawPlace, TrialsStay
<1>5. CASE ~PlacementIsValid(draft.obj, at, yaw) /\ ~(draft.tries + 1 < RetryLimit)
  <2>1. draft' = NoDraft
    BY <1>1, <1>5
  <2>3. Drafted'
    BY <2>1, NoDraftIsDrafted
  <2> QED BY <2>3, ClientKeeps DEF DrawPlace, TrialsStay
<1> QED BY <1>3, <1>4, <1>5

\* A set of scenarios that is accepted has every drawn seed once.
LEMMA ByOrdinalIsInjective ==
  ASSUME NEW seeds \in Seq(Seeds), NEW ordinals \in [DOMAIN seeds -> DOMAIN seeds],
         Acceptable(seeds, ordinals)
  PROVE  ByOrdinal(seeds, ordinals) \in Seq(Seeds) /\ IsInjective(ByOrdinal(seeds, ordinals))
<1> DEFINE n == Len(seeds)
           I(o) == CHOOSE i \in DOMAIN seeds : ordinals[i] = o
           rows == ByOrdinal(seeds, ordinals)
<1>1. n \in Nat /\ DOMAIN seeds = 1..n
  BY LenProperties
<1>2. ordinals \in Injection(1..n, 1..n)
  BY <1>1 DEF Acceptable, IsInjective, Injection
<1>3. IsFiniteSet(1..n)
  BY <1>1, FS_Interval
<1>4. ordinals \in Surjection(1..n, 1..n)
  BY <1>2, <1>3, FS_Injection
<1>5. \A o \in 1..n : \E i \in DOMAIN seeds : ordinals[i] = o
  BY <1>1, <1>4 DEF Surjection
<1>6. \A o \in 1..n : I(o) \in DOMAIN seeds /\ ordinals[I(o)] = o
  BY <1>5
<1>7. rows = [o \in 1..n |-> seeds[I(o)]]
  BY DEF ByOrdinal
<1> HIDE DEF I, n, rows
<1>8. \A o \in 1..n : seeds[I(o)] \in Seeds
  BY <1>1, <1>6, ElementOfSeq
<1>9. rows \in [1..n -> Seeds]
  BY <1>7, <1>8
<1>10. rows \in Seq(Seeds)
  BY <1>1, <1>9
<1>11. ASSUME NEW o \in 1..n, NEW p \in 1..n, rows[o] = rows[p] PROVE o = p
  <2>1. seeds[I(o)] = seeds[I(p)]
    BY <1>7, <1>11
  <2>2. I(o) = I(p)
    BY <1>6, <2>1 DEF Acceptable, IsInjective
  <2> QED BY <1>6, <2>2
<1>12. IsInjective(rows)
  BY <1>9, <1>11 DEF IsInjective
<1> QED BY <1>10, <1>12 DEF rows

LEMMA NothingBeforeScenarios ==
  ASSUME CatalogueInv, scenarios = <<>>
  PROVE  /\ \A e \in Experiments : policies[e] = <<>>
         /\ \A w \in Workers : tx[w] = Closed
BY DEF CatalogueInv, Posted, WorkersOpen, Working, Creating

LEMMA NoTrialsWithoutPolicies ==
  ASSUME Posted, NEW e \in Experiments, policies[e] = <<>>
  PROVE  DOMAIN TrialsOf(e) = {} /\ Range(TrialsOf(e)) = {}
<1>1. Len(policies[e]) = 0 /\ Len(scenarios) \in Nat
  BY LenProperties DEF Posted
<1>2. Len(TrialsOf(e)) = 0 /\ DOMAIN TrialsOf(e) = 1..Len(TrialsOf(e))
  BY <1>1, TrialsAreSeq
<1>3. DOMAIN TrialsOf(e) = {}
  BY <1>2
<1> QED BY <1>3 DEF Range

LEMMA PostScenarioSetKeeps ==
  ASSUME CatalogueInv, PostScenarioSet
  PROVE  CatalogueInv'
<1>1. PICK ordinals \in [DOMAIN draft.seeds -> DOMAIN draft.seeds] :
        scenarios' = IF Acceptable(draft.seeds, ordinals)
                     THEN ByOrdinal(draft.seeds, ordinals) ELSE <<>>
  BY DEF PostScenarioSet
<1>2. draft.seeds \in Seq(Seeds)
  BY DEF CatalogueInv, Drafted
<1>3. scenarios' \in Seq(Seeds) /\ IsInjective(scenarios')
  <2>1. CASE Acceptable(draft.seeds, ordinals)
    BY <1>1, <1>2, <2>1, ByOrdinalIsInjective
  <2>2. CASE ~Acceptable(draft.seeds, ordinals)
    <3>1. scenarios' = <<>>
      BY <1>1, <2>2
    <3> QED BY <3>1 DEF IsInjective
  <2> QED BY <2>1, <2>2
<1>4. scenarios = <<>> /\ UNCHANGED <<policies, last, tx, ids>> /\ draft' = NoDraft
  BY DEF PostScenarioSet
<1>5. /\ \A e \in Experiments : policies[e] = <<>>
      /\ \A w \in Workers : tx[w] = Closed
  BY <1>4, NothingBeforeScenarios
<1>6. Posted'
  BY <1>3, <1>4, <1>5 DEF CatalogueInv, Posted
<1>7. Drafted'
  BY <1>4, NoDraftIsDrafted
<1>8. Apart'
  BY <1>4, ApartKept DEF CatalogueInv
<1>9. WorkersOpen'
  <2>1. \A w \in Workers : Working(w)'
    BY <1>4, <1>5 DEF Working, Closed, NoTrials
  <2>2. IdMaps' = IdMaps /\ Ticks' = Ticks
    BY DEF IdMaps, Ids, TrialSet, Ticks
  <2> QED BY <1>4, <2>1, <2>2 DEF CatalogueInv, WorkersOpen
<1>10. Whole'
  <2> SUFFICES ASSUME NEW e \in Experiments PROVE WholeOf(e)'
    BY DEF Whole
  <2>1. Range(TrialsOf(e)) = {}
    BY <1>5, NoTrialsWithoutPolicies DEF CatalogueInv
  <2>2. {t \in DOMAIN ids : t[1] = e} = {}
    BY <2>1 DEF CatalogueInv, Whole, WholeOf
  <2> QED BY <1>4, <2>2 DEF WholeOf
<1> QED BY <1>6, <1>7, <1>8, <1>9, <1>10 DEF CatalogueInv

LEMMA PostExperimentKeeps ==
  ASSUME CatalogueInv, NEW e \in Experiments, PostExperiment(e)
  PROVE  CatalogueInv'
<1>1. PICK request \in BoundedSeq(Policies, Cardinality(Policies)) :
        /\ request # <<>> /\ IsInjective(request)
        /\ policies' = [policies EXCEPT ![e] = request]
  BY DEF PostExperiment
<1>2. /\ scenarios # <<>> /\ policies[e] = <<>>
      /\ UNCHANGED <<draft, scenarios, last, tx, ids>>
  BY DEF PostExperiment
<1>3. request \in Seq(Policies)
  <2>1. PICK m \in 0..Cardinality(Policies) : request \in [1..m -> Policies]
    BY <1>1 DEF BoundedSeq, SeqOf
  <2>2. m \in Nat
    BY <2>1
  <2> QED BY <2>1, <2>2
<1>4. /\ policies'[e] = request
      /\ \A f \in Experiments \ {e} : policies'[f] = policies[f]
      /\ policies' \in [Experiments -> Seq(Policies)]
  BY <1>1, <1>3 DEF CatalogueInv, Posted
<1>5. Posted'
  BY <1>1, <1>2, <1>4 DEF CatalogueInv, Posted
<1>6. Drafted'
  BY <1>2, DraftedKept DEF CatalogueInv
<1>7. Apart'
  BY <1>2, ApartKept DEF CatalogueInv
<1>8. \A f \in Experiments \ {e} : TrialsOf(f)' = TrialsOf(f)
  BY <1>2, <1>4 DEF TrialsOf
<1>9. ASSUME NEW w \in Workers PROVE Working(w)'
  <2>1. Working(w)
    BY DEF CatalogueInv, WorkersOpen
  <2>2. CASE tx[w] = Closed
    BY <1>2, <2>2 DEF Working, Closed, NoTrials
  <2>3. CASE \E f \in Experiments, k \in Nat : Creating(w, f, k)
    <3>1. PICK f \in Experiments, k \in Nat : Creating(w, f, k)
      BY <2>3
    <3>2. f \in Experiments \ {e}
      BY <1>2, <3>1 DEF Creating
    <3>3. Creating(w, f, k)'
      BY <1>2, <1>4, <1>8, <3>1, <3>2 DEF Creating
    <3> QED BY <3>3 DEF Working
  <2> QED BY <2>1, <2>2, <2>3 DEF Working
<1>10. WorkersOpen'
  <2>1. IdMaps' = IdMaps /\ Ticks' = Ticks
    BY DEF IdMaps, Ids, TrialSet, Ticks
  <2> QED BY <1>2, <1>9, <2>1 DEF CatalogueInv, WorkersOpen
<1>11. Whole'
  <2> SUFFICES ASSUME NEW f \in Experiments PROVE WholeOf(f)'
    BY DEF Whole
  <2>1. CASE f = e
    <3>1. Range(TrialsOf(e)) = {}
      BY <1>2, NoTrialsWithoutPolicies DEF CatalogueInv
    <3>2. {t \in DOMAIN ids : t[1] = e} = {}
      BY <3>1 DEF CatalogueInv, Whole, WholeOf
    <3> QED BY <1>2, <2>1, <3>2 DEF WholeOf
  <2>2. CASE f # e
    <3>1. TrialsOf(f)' = TrialsOf(f) /\ WholeOf(f)
      BY <1>8, <2>2 DEF CatalogueInv, Whole
    <3> QED BY <1>2, <3>1 DEF WholeOf, Range
  <2> QED BY <2>1, <2>2
<1> QED BY <1>5, <1>6, <1>7, <1>10, <1>11 DEF CatalogueInv

-----------------------------------------------------------------------------
(* The steps of the workers.                                               *)

\* Worker w takes a step: its transaction becomes t.
LEMMA WorkersMove ==
  ASSUME WorkersOpen, NEW w \in Workers, NEW t, tx' = [tx EXCEPT ![w] = t], TrialsStay,
         last' \in [Workers -> Ticks], \A v \in Workers \ {w} : last'[v] = last[v],
         DOMAIN ids \subseteq DOMAIN ids', t.new \in IdMaps, Working(w)'
  PROVE  WorkersOpen'
<1>1. tx'[w] = t /\ \A v \in Workers \ {w} : tx'[v] = tx[v]
  BY DEF WorkersOpen
<1>2. \A v \in Workers : Working(v)'
  BY <1>1, WorkingKept DEF WorkersOpen
<1>3. \A v \in Workers : tx'[v].new \in IdMaps
  BY <1>1 DEF WorkersOpen
<1>4. tx' = [v \in Workers |-> tx'[v]]
  BY DEF WorkersOpen
<1>5. IdMaps' = IdMaps /\ Ticks' = Ticks
  BY DEF IdMaps, Ids, TrialSet, Ticks
<1> QED BY <1>2, <1>3, <1>4, <1>5 DEF WorkersOpen

LEMMA OthersStay ==
  ASSUME WorkersOpen, NEW w \in Workers, NEW t, tx' = [tx EXCEPT ![w] = t]
  PROVE  tx'[w] = t /\ \A v \in Workers \ {w} : tx'[v] = tx[v]
BY DEF WorkersOpen

\* Worker w has inserted nothing.
LEMMA ApartWithout ==
  ASSUME Apart, WorkersOpen, NEW w \in Workers, NEW t, tx' = [tx EXCEPT ![w] = t],
         t.new = NoTrials, ids' = ids
  PROVE  Apart'
<1>1. tx'[w] = t /\ \A v \in Workers \ {w} : tx'[v] = tx[v]
  BY OthersStay
<1>2. DOMAIN tx'[w].new = {} /\ Range(tx'[w].new) = {}
  BY <1>1, NoTrialsIsIdMap
<1>3. IdMaps' = IdMaps
  BY DEF IdMaps, Ids, TrialSet
<1>4. /\ \A v \in Workers : Range(tx[v].new)' = Range(tx'[v].new)
      /\ Range(ids)' = Range(ids)
  BY DEF Range
<1>5. ASSUME NEW v \in Workers
      PROVE  DOMAIN tx'[v].new \cap DOMAIN ids = {} /\ Range(tx'[v].new) \cap Range(ids) = {}
  BY <1>1, <1>2 DEF Apart
<1>6. ASSUME NEW u \in Workers, NEW v \in Workers, u # v
      PROVE  /\ DOMAIN tx'[u].new \cap DOMAIN tx'[v].new = {}
             /\ Range(tx'[u].new) \cap Range(tx'[v].new) = {}
  BY <1>1, <1>2, <1>6 DEF Apart
<1> QED BY <1>3, <1>4, <1>5, <1>6 DEF Apart

LEMMA BeginKeeps ==
  ASSUME CatalogueInv, NEW w \in Workers, NEW e \in Experiments, Begin(w, e)
  PROVE  CatalogueInv'
<1> DEFINE T == TrialsOf(e)
           t == [open |-> TRUE, order |-> T, new |-> NoTrials]
<1>1. /\ policies[e] # <<>> /\ tx' = [tx EXCEPT ![w] = t]
      /\ UNCHANGED <<draft, scenarios, policies, last, ids>>
  BY DEF Begin
<1>2. TrialsStay
  BY <1>1 DEF TrialsStay
<1>3. tx'[w] = t
  BY <1>1, OthersStay DEF CatalogueInv
<1>4. T \in Seq(TrialSet) /\ Len(T) \in Nat
  BY TrialsAreSeq DEF CatalogueInv
<1>5. Creating(w, e, 0)'
  <2>1. TrialsOf(e)' = T
    BY <1>2 DEF TrialsOf, TrialsStay
  <2>2. tx'[w].open /\ tx'[w].order = T /\ tx'[w].new = NoTrials
    BY <1>3
  <2>3. TrialSet' = TrialSet
    BY DEF TrialSet
  <2> HIDE DEF T, t
  <2>4. 0 \in 0..Len(T) /\ Len(T) = Len(T) - 0 /\ \A i \in 1..Len(T) : T[i] = T[0 + i]
    BY <1>4
  <2> QED BY <1>1, <1>4, <2>1, <2>2, <2>3, <2>4, NoTrialsIsIdMap DEF Creating
<1>6. Working(w)'
  BY <1>5 DEF Working
<1>7. t.new \in IdMaps /\ t.new = NoTrials
  BY NoTrialsIsIdMap
<1>8. WorkersOpen'
  <2> HIDE DEF t
  <2> QED BY <1>1, <1>2, <1>6, <1>7, WorkersMove DEF CatalogueInv, WorkersOpen
<1>9. Apart'
  <2> HIDE DEF t
  <2> QED BY <1>1, <1>7, ApartWithout DEF CatalogueInv
<1> QED BY <1>1, <1>2, <1>8, <1>9, DraftedKept, PostedKept, WholeKept DEF CatalogueInv

LEMMA RollbackKeeps ==
  ASSUME CatalogueInv, NEW w \in Workers, Rollback(w)
  PROVE  CatalogueInv'
<1>1. /\ tx' = [tx EXCEPT ![w] = Closed] /\ last' \in {last, [last EXCEPT ![w] = NoId]}
      /\ UNCHANGED <<draft, scenarios, policies, ids>>
  BY DEF Rollback
<1>2. TrialsStay
  BY <1>1 DEF TrialsStay
<1>3. NoId \in Ticks
  BY Bounds DEF NoId, Ticks
<1>4. last' \in [Workers -> Ticks] /\ \A v \in Workers \ {w} : last'[v] = last[v]
  BY <1>1, <1>3 DEF CatalogueInv, WorkersOpen
<1>5. tx'[w] = Closed
  BY <1>1, OthersStay DEF CatalogueInv
<1>6. Working(w)'
  BY <1>5 DEF Working, Closed, NoTrials
<1>7. WorkersOpen'
  BY <1>1, <1>2, <1>4, <1>6, ClosedFields, NoTrialsIsIdMap, WorkersMove DEF CatalogueInv
<1>8. Apart'
  BY <1>1, ClosedFields, ApartWithout DEF CatalogueInv
<1> QED BY <1>1, <1>2, <1>7, <1>8, DraftedKept, PostedKept, WholeKept DEF CatalogueInv

\* What worker w inserts next: a trial that no transaction has inserted.
LEMMA NextTrial ==
  ASSUME CatalogueInv, NEW w \in Workers, tx[w].order # <<>>, \A v \in Workers : ~WaitsFor(w, v)
  PROVE  \E e \in Experiments, k \in Nat :
           /\ Creating(w, e, k) /\ k + 1 \in 1..Len(TrialsOf(e))
           /\ Head(tx[w].order) = TrialsOf(e)[k + 1]
           /\ \A v \in Workers : TrialsOf(e)[k + 1] \notin DOMAIN tx[v].new
<1>1. PICK e \in Experiments, k \in Nat : Creating(w, e, k)
  BY ClosedFields DEF CatalogueInv, WorkersOpen, Working
<1> DEFINE T == TrialsOf(e)
           order == tx[w].order
<1>2. /\ T \in Seq(TrialSet) /\ Len(T) \in Nat /\ DOMAIN T = 1..Len(T)
  BY TrialsAreSeq DEF CatalogueInv
<1>3. /\ order \in Seq(TrialSet) /\ Len(order) = Len(T) - k
      /\ \A i \in 1..Len(order) : order[i] = T[k + i]
      /\ \A t \in DOMAIN tx[w].new : \E i \in 1..k : t = T[i]
      /\ k \in 0..Len(T)
  BY <1>1 DEF Creating
<1>4. order # <<>>
  OBVIOUS
<1> HIDE DEF order
<1>5. Len(order) \in Nat /\ Len(order) > 0
  BY <1>3, <1>4, LenProperties, EmptySeq
<1>6. k + 1 \in 1..Len(T) /\ 1 \in 1..Len(order)
  BY <1>2, <1>3, <1>5
<1>7. Head(order) = order[1]
  BY <1>3, <1>4
<1>8. Head(order) = T[k + 1]
  BY <1>3, <1>6, <1>7
<1>9. ASSUME NEW v \in Workers PROVE T[k + 1] \notin DOMAIN tx[v].new
  <2>1. CASE v # w
    BY <1>4, <1>8, <2>1 DEF WaitsFor, order
  <2>2. CASE v = w
    <3> SUFFICES ASSUME T[k + 1] \in DOMAIN tx[w].new PROVE FALSE
      BY <2>2
    <3>1. PICK i \in 1..k : T[k + 1] = T[i]
      BY <1>3
    <3>2. i \in DOMAIN T /\ k + 1 \in DOMAIN T
      BY <1>2, <1>3, <1>6
    <3>3. k + 1 = i
      BY <3>1, <3>2, TrialsDiffer DEF CatalogueInv
    <3> QED BY <3>3
  <2> QED BY <2>1, <2>2
<1> QED BY <1>1, <1>6, <1>8, <1>9 DEF order

\* The id that is drawn is nobody's.
LEMMA ApartWithOneMore ==
  ASSUME Apart, WorkersOpen, NEW w \in Workers, NEW t, tx' = [tx EXCEPT ![w] = t],
         NEW trial \in TrialSet, NEW id \in Ids, id \notin Taken, trial \notin DOMAIN ids,
         \A v \in Workers : trial \notin DOMAIN tx[v].new,
         t.new = Joined(tx[w].new, [u \in {trial} |-> id]), ids' = ids
  PROVE  Apart' /\ t.new \in IdMaps
<1> DEFINE one == [u \in {trial} |-> id]
           new == tx[w].new
<1>1. tx'[w] = t /\ \A v \in Workers \ {w} : tx'[v] = tx[v]
  BY OthersStay
<1>2. one \in IdMaps /\ DOMAIN one = {trial} /\ Range(one) = {id}
  BY SingleIdMap
<1>3. new \in IdMaps
  BY DEF WorkersOpen
<1>4. \A v \in Workers : id \notin Range(tx[v].new)
  BY DEF Taken
<1>5. id \notin Range(ids)
  BY DEF Taken
<1>6. DOMAIN new \cap DOMAIN one = {} /\ Range(new) \cap Range(one) = {}
  BY <1>2, <1>4
<1>7. t.new = Joined(new, one)
  OBVIOUS
<1> HIDE DEF one, new
<1>8. /\ t.new \in IdMaps /\ DOMAIN t.new = DOMAIN new \cup {trial}
      /\ Range(t.new) = Range(new) \cup {id}
  <2>1. t.new \in IdMaps
    BY <1>2, <1>3, <1>6, <1>7, JoinedIsIdMap
  <2>2. DOMAIN t.new = DOMAIN new \cup {trial}
    <3>1. DOMAIN Joined(new, one) = DOMAIN new \cup DOMAIN one
      BY JoinedAt
    <3> QED BY <1>2, <1>7, <3>1
  <2>3. Range(t.new) = Range(new) \cup {id}
    <3>1. Range(Joined(new, one)) = Range(new) \cup Range(one)
      BY <1>6, JoinedRange
    <3> QED BY <1>2, <1>7, <3>1
  <2> QED BY <2>1, <2>2, <2>3
<1>9. DOMAIN tx'[w].new = DOMAIN new \cup {trial} /\ Range(tx'[w].new) = Range(new) \cup {id}
  BY <1>1, <1>8
<1>10. IdMaps' = IdMaps
  BY DEF IdMaps, Ids, TrialSet
<1>11. /\ \A v \in Workers : Range(tx[v].new)' = Range(tx'[v].new)
       /\ Range(ids)' = Range(ids)
  BY DEF Range
<1>12. ASSUME NEW v \in Workers
       PROVE  DOMAIN tx'[v].new \cap DOMAIN ids = {} /\ Range(tx'[v].new) \cap Range(ids) = {}
  BY <1>1, <1>5, <1>9 DEF Apart, new
<1>13. ASSUME NEW u \in Workers, NEW v \in Workers, u # v
       PROVE  /\ DOMAIN tx'[u].new \cap DOMAIN tx'[v].new = {}
              /\ Range(tx'[u].new) \cap Range(tx'[v].new) = {}
  <2>1. CASE u = w
    BY <1>1, <1>4, <1>9, <1>13, <2>1 DEF Apart, new
  <2>2. CASE v = w
    BY <1>1, <1>4, <1>9, <1>13, <2>2 DEF Apart, new
  <2>3. CASE u # w /\ v # w
    BY <1>1, <1>13, <2>3 DEF Apart
  <2> QED BY <2>1, <2>2, <2>3
<1> QED BY <1>8, <1>10, <1>11, <1>12, <1>13 DEF Apart

\* What the transaction still does after trial k + 1 of the sequence T.
LEMMA OrderAfter ==
  ASSUME NEW T \in Seq(TrialSet), NEW k \in 0..Len(T), NEW order \in Seq(TrialSet),
         order # <<>>, Len(order) = Len(T) - k, \A i \in 1..Len(order) : order[i] = T[k + i]
  PROVE  /\ Tail(order) \in Seq(TrialSet) /\ Len(Tail(order)) = Len(T) - (k + 1)
         /\ \A i \in 1..Len(Tail(order)) : Tail(order)[i] = T[(k + 1) + i]
<1>1. Len(T) \in Nat /\ Len(order) \in Nat
  BY LenProperties
<1>2. Len(order) > 0
  <2>1. Len(order) \in Nat \ {0}
    BY EmptySeq
  <2> QED BY <2>1
<1>3. Tail(order) \in Seq(TrialSet) /\ Len(Tail(order)) = Len(order) - 1
  BY <1>2
<1>4. \A i \in 1..Len(Tail(order)) : Tail(order)[i] = order[i + 1] /\ i + 1 \in 1..Len(order)
  BY <1>1, <1>2, <1>3
<1>5. \A i \in 1..Len(Tail(order)) : k + (i + 1) = (k + 1) + i
  BY <1>1, <1>3
<1> QED BY <1>1, <1>3, <1>4, <1>5

LEMMA IdUpToTop ==
  ASSUME NEW tick \in Ticks, NEW random \in 0..MaxRandom
  PROVE  IdOf(tick, random) <= IdOf(tick, MaxRandom)
<1> MaxRandom \in Nat
  BY Bounds
<1>1. IdOf(tick, random) = Serial(tick) * (MaxRandom + 1) + random + 1
  BY DEF IdOf, Serial
<1>2. IdOf(tick, MaxRandom) = Serial(tick) * (MaxRandom + 1) + MaxRandom + 1
  BY DEF IdOf, Serial
<1>3. Serial(tick) \in Int
  BY SerialIsInt
<1>4. Serial(tick) * (MaxRandom + 1) \in Int
  BY <1>3
<1> QED BY <1>1, <1>2, <1>4

LEMMA IdsAreInts == \A id \in Ids : id \in Int
<1> DEFINE top == IdOf([time |-> MaxTime, counter |-> MaxCounter], MaxRandom)
<1>1. [time |-> MaxTime, counter |-> MaxCounter] \in Ticks /\ MaxRandom \in 0..MaxRandom
  BY Bounds DEF Ticks
<1>2. top \in Int
  BY <1>1, IdIsInt
<1>3. Ids = 1..top
  BY DEF Ids
<1> HIDE DEF top
<1> QED BY <1>2, <1>3

\* The transaction has found trial k + 1, or inserted it with a later id.
LEMMA CreatesOneMore ==
  ASSUME CatalogueInv, NEW w \in Workers, NEW e \in Experiments, NEW k \in Nat, Creating(w, e, k),
         k + 1 \in 1..Len(TrialsOf(e)), tx[w].order # <<>>,
         NEW tick \in Ticks, NEW random \in 0..MaxRandom, Serial(last[w]) < Serial(tick),
         last'[w] = tick, TrialsStay, ids' = ids, NEW new,
         tx'[w].open, tx'[w].order = Tail(tx[w].order), tx'[w].new = new,
         DOMAIN tx[w].new \subseteq DOMAIN new,
         DOMAIN new \subseteq DOMAIN tx[w].new \cup {TrialsOf(e)[k + 1]},
         \A t \in DOMAIN tx[w].new : new[t] = tx[w].new[t],
         TrialsOf(e)[k + 1] \notin DOMAIN tx[w].new,
         TrialsOf(e)[k + 1] \in DOMAIN new => new[TrialsOf(e)[k + 1]] = IdOf(tick, random),
         TrialsOf(e)[k + 1] \in DOMAIN ids \cup DOMAIN new
  PROVE  Creating(w, e, k + 1)'
<1> DEFINE T == TrialsOf(e)
           old == tx[w].new
           next == T[k + 1]
<1>1. T \in Seq(TrialSet) /\ Len(T) \in Nat
  BY TrialsAreSeq DEF CatalogueInv
<1>2. TrialsOf(e)' = T /\ policies'[e] = policies[e] /\ TrialSet' = TrialSet
  BY DEF TrialsOf, TrialsStay, TrialSet
<1>3. /\ tx'[w].open /\ tx'[w].order = Tail(tx[w].order) /\ tx'[w].new = new
  OBVIOUS
<1>4. last'[w] = tick /\ last[w] \in Ticks
  BY DEF CatalogueInv, WorkersOpen
<1>5. /\ policies[e] # <<>> /\ k \in 0..Len(T)
      /\ tx[w].order \in Seq(TrialSet) /\ Len(tx[w].order) = Len(T) - k
      /\ \A i \in 1..Len(tx[w].order) : tx[w].order[i] = T[k + i]
  BY DEF Creating
<1>6. /\ \A i \in 1..k : T[i] \in DOMAIN ids \cup DOMAIN old
      /\ \A t \in DOMAIN old : \E i \in 1..k : t = T[i]
      /\ \A i, j \in 1..k :
           i < j /\ T[i] \in DOMAIN old /\ T[j] \in DOMAIN old => old[T[i]] < old[T[j]]
      /\ \A t \in DOMAIN old : old[t] <= IdOf(last[w], MaxRandom)
  BY DEF Creating
<1>7. /\ Tail(tx[w].order) \in Seq(TrialSet) /\ Len(Tail(tx[w].order)) = Len(T) - (k + 1)
      /\ \A i \in 1..Len(Tail(tx[w].order)) : Tail(tx[w].order)[i] = T[(k + 1) + i]
  <2> HIDE DEF T
  <2> QED BY <1>1, <1>5, OrderAfter
<1>8. MaxRandom \in 0..MaxRandom
  BY Bounds
<1>9. \A t \in DOMAIN old : old[t] \in Int
  BY IdMapShape, IdsAreInts DEF CatalogueInv, WorkersOpen
<1>10. /\ IdOf(last[w], MaxRandom) < IdOf(tick, random)
       /\ IdOf(tick, random) <= IdOf(tick, MaxRandom)
       /\ IdOf(last[w], MaxRandom) \in Int /\ IdOf(tick, random) \in Int
       /\ IdOf(tick, MaxRandom) \in Int
  BY <1>4, <1>8, LaterId, IdUpToTop, IdIsInt
<1>11. /\ DOMAIN old \subseteq DOMAIN new /\ DOMAIN new \subseteq DOMAIN old \cup {next}
       /\ \A t \in DOMAIN old : new[t] = old[t]
       /\ next \notin DOMAIN old
       /\ next \in DOMAIN new => new[next] = IdOf(tick, random)
       /\ next \in DOMAIN ids \cup DOMAIN new
  OBVIOUS
<1>12. /\ k + 1 \in 0..Len(T) /\ k + 1 \in Nat /\ k + 1 \in 1..(k + 1)
       /\ \A i \in 1..(k + 1) : i \in 1..k \/ i = k + 1
       /\ \A i \in 1..k : i \in 1..(k + 1)
  BY <1>1
<1> HIDE DEF T, old
<1>13. ASSUME NEW i \in 1..(k + 1) PROVE T[i] \in DOMAIN ids \cup DOMAIN new
  BY <1>6, <1>11, <1>12
<1>14. ASSUME NEW t \in DOMAIN new PROVE \E i \in 1..(k + 1) : t = T[i]
  BY <1>6, <1>11, <1>12
<1>15. ASSUME NEW i \in 1..(k + 1), NEW j \in 1..(k + 1), i < j, T[i] \in DOMAIN new,
              T[j] \in DOMAIN new
       PROVE  new[T[i]] < new[T[j]]
  <2>1. i \in 1..k
    BY <1>15
  <2>2. T[i] \in DOMAIN old
    <3>1. CASE T[i] \in DOMAIN old
      BY <3>1
    <3>2. CASE T[i] = next
      <4>1. DOMAIN T = 1..Len(T)
        BY TrialsAreSeq DEF CatalogueInv, T
      <4>2. i \in DOMAIN T /\ k + 1 \in DOMAIN T
        <5>1. k + 1 \in 1..Len(T)
          BY <1>1, <1>12
        <5>2. i \in 1..Len(T)
          BY <1>1, <1>12, <2>1
        <5> QED BY <4>1, <5>1, <5>2
      <4>3. i = k + 1
        BY <3>2, <4>2, TrialsDiffer DEF CatalogueInv, T
      <4> QED BY <2>1, <4>3
    <3> QED BY <1>11, <1>15, <3>1, <3>2
  <2>3. CASE j \in 1..k /\ T[j] \in DOMAIN old
    BY <1>6, <1>11, <1>15, <2>1, <2>2, <2>3
  <2>4. CASE T[j] = next
    <3>1. old[T[i]] <= IdOf(last[w], MaxRandom) /\ old[T[i]] \in Int
      BY <1>6, <1>9, <2>2
    <3>2. new[T[i]] = old[T[i]] /\ new[T[j]] = IdOf(tick, random)
      BY <1>11, <1>15, <2>2, <2>4
    <3> QED BY <1>10, <3>1, <3>2
  <2> QED BY <1>11, <1>12, <1>15, <2>3, <2>4
<1>16. ASSUME NEW t \in DOMAIN new PROVE new[t] <= IdOf(tick, MaxRandom)
  <2>1. CASE t \in DOMAIN old
    <3>1. old[t] <= IdOf(last[w], MaxRandom) /\ old[t] \in Int /\ new[t] = old[t]
      BY <1>6, <1>9, <1>11, <2>1
    <3> QED BY <1>10, <3>1
  <2>2. CASE t = next
    BY <1>10, <1>11, <2>2
  <2> QED BY <1>11, <2>1, <2>2
<1>17. IdOf(last[w], MaxRandom)' = IdOf(tick, MaxRandom)
  BY <1>4 DEF IdOf
<1> HIDE DEF next
<1> QED BY <1>2, <1>3, <1>5, <1>7, <1>12, <1>13, <1>14, <1>15, <1>16, <1>17 DEF Creating

LEMMA InsertKeeps ==
  ASSUME CatalogueInv, NEW w \in Workers, Insert(w)
  PROVE  CatalogueInv'
<1>1. PICK clock \in Clocks, random \in 0..MaxRandom :
        LET tick == Ticked(last[w], clock)
            id == IdOf(tick, random)
            trial == Head(tx[w].order)
        IN  /\ id \notin Taken
            /\ last' = [last EXCEPT ![w] = tick]
            /\ tx' = [tx EXCEPT ![w] =
                        [open |-> TRUE, order |-> Tail(@.order),
                         new |-> IF trial \in DOMAIN ids THEN @.new
                                 ELSE Joined(@.new, [t \in {trial} |-> id])]]
  BY DEF Insert
<1> DEFINE tick == Ticked(last[w], clock)
           id == IdOf(tick, random)
           trial == Head(tx[w].order)
           old == tx[w].new
           new == IF trial \in DOMAIN ids THEN old ELSE Joined(old, [t \in {trial} |-> id])
           t == [open |-> TRUE, order |-> Tail(tx[w].order), new |-> new]
<1>2. /\ tx[w].order # <<>> /\ \A v \in Workers : ~WaitsFor(w, v)
      /\ last[w] # [time |-> MaxTime, counter |-> MaxCounter]
      /\ UNCHANGED <<draft, scenarios, policies, ids>>
  BY DEF Insert
<1>3. id \notin Taken /\ last' = [last EXCEPT ![w] = tick]
  BY <1>1
<1>4. tx' = [tx EXCEPT ![w] = t]
  BY <1>1
<1>5. last[w] \in Ticks
  BY DEF CatalogueInv, WorkersOpen
<1>6. tick \in Ticks /\ tick.time >= 0 /\ Serial(last[w]) < Serial(tick)
  BY <1>2, <1>5, TickedIsTick, TickedIsLater
<1>7. id \in Ids
  <2> HIDE DEF tick
  <2> QED BY <1>6, IdInRange
<1>8. PICK e \in Experiments, k \in Nat :
        /\ Creating(w, e, k) /\ k + 1 \in 1..Len(TrialsOf(e)) /\ trial = TrialsOf(e)[k + 1]
        /\ \A v \in Workers : TrialsOf(e)[k + 1] \notin DOMAIN tx[v].new
  BY <1>2, NextTrial
<1>9. trial \in TrialSet
  <2>1. TrialsOf(e) \in Seq(TrialSet) /\ DOMAIN TrialsOf(e) = 1..Len(TrialsOf(e))
    BY TrialsAreSeq DEF CatalogueInv
  <2> QED BY <1>8, <2>1, ElementOfSeq
<1>10. TrialsStay /\ ids' = ids /\ draft' = draft
  BY <1>2 DEF TrialsStay
<1>11. tx'[w] = t
  BY <1>4, OthersStay DEF CatalogueInv
<1>12. last' \in [Workers -> Ticks] /\ \A v \in Workers \ {w} : last'[v] = last[v]
  <2> HIDE DEF tick
  <2> QED BY <1>3, <1>6 DEF CatalogueInv, WorkersOpen
<1>13. old \in IdMaps
  BY DEF CatalogueInv, WorkersOpen
<1>14. /\ DOMAIN old \subseteq DOMAIN new /\ DOMAIN new \subseteq DOMAIN old \cup {trial}
       /\ \A u \in DOMAIN old : new[u] = old[u]
       /\ trial \in DOMAIN new => new[trial] = id
       /\ trial \in DOMAIN ids \cup DOMAIN new
  <2>0. trial \notin DOMAIN old
    BY <1>8
  <2>1. CASE trial \in DOMAIN ids
    BY <2>0, <2>1
  <2>2. CASE trial \notin DOMAIN ids
    <3> DEFINE one == [u \in {trial} |-> id]
    <3>1. DOMAIN one = {trial} /\ one[trial] = id
      OBVIOUS
    <3>2. new = Joined(old, one)
      BY <2>2
    <3> HIDE DEF one, new, old, trial, id
    <3>3. /\ DOMAIN Joined(old, one) = DOMAIN old \cup DOMAIN one
          /\ \A u \in DOMAIN old : Joined(old, one)[u] = old[u]
          /\ \A u \in DOMAIN one : u \notin DOMAIN old => Joined(old, one)[u] = one[u]
      BY JoinedAt
    <3> QED BY <2>0, <3>1, <3>2, <3>3
  <2> QED BY <2>1, <2>2
<1>15. Apart' /\ new \in IdMaps
  <2>1. CASE trial \in DOMAIN ids
    <3>1. new = old
      BY <2>1
    <3>2. \A v \in Workers : tx'[v].new = tx[v].new
      BY <1>4, <1>11, <3>1, OthersStay DEF CatalogueInv
    <3>3. IdMaps' = IdMaps
      BY DEF IdMaps, Ids, TrialSet
    <3>4. Range(ids)' = Range(ids) /\ \A v \in Workers : Range(tx[v].new)' = Range(tx[v].new)
      BY <1>10, <3>2 DEF Range
    <3>5. Apart'
      BY <1>10, <3>2, <3>3, <3>4 DEF CatalogueInv, Apart
    <3> QED BY <1>13, <3>1, <3>5
  <2>2. CASE trial \notin DOMAIN ids
    <3>1. t.new = Joined(tx[w].new, [u \in {trial} |-> id])
      BY <2>2
    <3>2. \A v \in Workers : trial \notin DOMAIN tx[v].new
      BY <1>8
    <3>3. t.new = new
      OBVIOUS
    <3> HIDE DEF t, new, trial, id
    <3>4. Apart' /\ t.new \in IdMaps
      BY <1>3, <1>4, <1>7, <1>9, <1>10, <2>2, <3>1, <3>2, ApartWithOneMore DEF CatalogueInv
    <3> QED BY <3>3, <3>4
  <2> QED BY <2>1, <2>2
<1>16. Working(w)'
  <2> HIDE DEF tick, new, trial
  <2>3. last'[w] = tick
    BY <1>3 DEF CatalogueInv, WorkersOpen
  <2>8. tx'[w].open /\ tx'[w].order = Tail(tx[w].order) /\ tx'[w].new = new
    BY <1>11
  <2>9. TrialsOf(e)[k + 1] \notin DOMAIN tx[w].new
    BY <1>8
  <2>4. /\ DOMAIN tx[w].new \subseteq DOMAIN new
        /\ DOMAIN new \subseteq DOMAIN tx[w].new \cup {TrialsOf(e)[k + 1]}
    BY <1>8, <1>14
  <2>5. \A u \in DOMAIN tx[w].new : new[u] = tx[w].new[u]
    BY <1>14
  <2>6. TrialsOf(e)[k + 1] \in DOMAIN new => new[TrialsOf(e)[k + 1]] = IdOf(tick, random)
    BY <1>8, <1>14
  <2>7. TrialsOf(e)[k + 1] \in DOMAIN ids \cup DOMAIN new
    BY <1>8, <1>14
  <2>1. Creating(w, e, k + 1)'
    BY <1>2, <1>6, <1>8, <1>10, <2>3, <2>4, <2>5, <2>6, <2>7, <2>8, <2>9,
       CreatesOneMore
  <2>2. k + 1 \in Nat
    OBVIOUS
  <2> QED BY <2>1, <2>2 DEF Working
<1>17. WorkersOpen'
  <2>1. t.new \in IdMaps
    BY <1>15
  <2> HIDE DEF t
  <2> QED BY <1>4, <1>10, <1>12, <1>16, <2>1, WorkersMove DEF CatalogueInv
<1> QED BY <1>10, <1>15, <1>17, DraftedKept, PostedKept, WholeKept DEF CatalogueInv

\* A transaction commits all the trials of its experiment, or finds them all.
LEMMA CommitsAll ==
  ASSUME CatalogueInv, NEW w \in Workers, tx[w].open, tx[w].order = <<>>
  PROVE  \E e \in Experiments :
           /\ DOMAIN tx[w].new \subseteq Range(TrialsOf(e))
           /\ Range(TrialsOf(e)) \subseteq DOMAIN ids \cup DOMAIN tx[w].new
<1>1. PICK e \in Experiments, k \in Nat : Creating(w, e, k)
  BY ClosedFields DEF CatalogueInv, WorkersOpen, Working
<1> DEFINE T == TrialsOf(e)
<1>2. Len(T) \in Nat /\ DOMAIN T = 1..Len(T)
  BY TrialsAreSeq DEF CatalogueInv
<1>3. k \in 0..Len(T) /\ Len(tx[w].order) = Len(T) - k
  BY <1>1 DEF Creating
<1>4. k = Len(T)
  <2>1. Len(tx[w].order) = 0
    BY EmptySeq
  <2>2. Len(T) \in Nat /\ k \in 0..Len(T) /\ Len(T) - k = 0
    BY <1>2, <1>3, <2>1
  <2>3. \A n \in Nat : \A i \in 0..n : n - i = 0 => i = n
    OBVIOUS
  <2> QED BY <2>2, <2>3
<1>5. DOMAIN tx[w].new \subseteq Range(T)
  BY <1>1, <1>2, <1>4 DEF Creating, Range
<1>6. Range(T) \subseteq DOMAIN ids \cup DOMAIN tx[w].new
  BY <1>1, <1>2, <1>4 DEF Creating, Range
<1> QED BY <1>5, <1>6

LEMMA TrialsOfOne ==
  ASSUME Posted, NEW e \in Experiments, NEW t \in Range(TrialsOf(e))
  PROVE  t[1] = e
<1>1. PICK k \in DOMAIN TrialsOf(e) : t = TrialsOf(e)[k]
  BY DEF Range
<1> DEFINE p == policies[e][((k - 1) \div Len(scenarios)) + 1]
           s == scenarios[((k - 1) % Len(scenarios)) + 1]
<1>2. t = <<e, p, s>>
  BY <1>1, TrialAt
<1> HIDE DEF p, s
<1> QED BY <1>2

LEMMA CommitKeeps ==
  ASSUME CatalogueInv, NEW w \in Workers, Commit(w)
  PROVE  CatalogueInv'
<1> DEFINE new == tx[w].new
<1>1. /\ tx[w].open /\ tx[w].order = <<>>
      /\ ids' = Joined(ids, new) /\ tx' = [tx EXCEPT ![w] = Closed]
      /\ UNCHANGED <<draft, scenarios, policies, last>>
  BY DEF Commit
<1>2. TrialsStay
  BY <1>1 DEF TrialsStay
<1>3. tx'[w] = Closed /\ \A v \in Workers \ {w} : tx'[v] = tx[v]
  BY <1>1, OthersStay DEF CatalogueInv
<1>4. new \in IdMaps /\ ids \in IdMaps
  BY DEF CatalogueInv, WorkersOpen, Apart
<1>5. DOMAIN ids \cap DOMAIN new = {} /\ Range(ids) \cap Range(new) = {}
  BY DEF CatalogueInv, Apart
<1>6. DOMAIN ids' = DOMAIN ids \cup DOMAIN new
  BY <1>1, JoinedAt
<1>7. ids' \in IdMaps
  BY <1>1, <1>4, <1>5, JoinedIsIdMap
<1>8. Range(ids') = Range(ids) \cup Range(new)
  BY <1>1, <1>5, JoinedRange
<1>9. Working(w)'
  BY <1>3 DEF Working, Closed, NoTrials
<1>10. WorkersOpen'
  <2>1. last' \in [Workers -> Ticks] /\ \A v \in Workers \ {w} : last'[v] = last[v]
    BY <1>1 DEF CatalogueInv, WorkersOpen
  <2> QED BY <1>1, <1>2, <1>6, <1>9, <2>1, ClosedFields, NoTrialsIsIdMap, WorkersMove
          DEF CatalogueInv
<1>11. Apart'
  <2>1. DOMAIN tx'[w].new = {} /\ Range(tx'[w].new) = {}
    BY <1>3, ClosedFields, NoTrialsIsIdMap
  <2>2. IdMaps' = IdMaps
    BY DEF IdMaps, Ids, TrialSet
  <2>3. Range(ids)' = Range(ids') /\ \A v \in Workers : Range(tx[v].new)' = Range(tx'[v].new)
    BY DEF Range
  <2>4. ASSUME NEW v \in Workers
        PROVE  /\ DOMAIN tx'[v].new \cap DOMAIN ids' = {}
               /\ Range(tx'[v].new) \cap Range(ids') = {}
    <3>1. CASE v = w
      BY <2>1, <3>1
    <3>2. CASE v # w
      BY <1>3, <1>6, <1>8, <3>2 DEF CatalogueInv, Apart
    <3> QED BY <3>1, <3>2
  <2>5. ASSUME NEW u \in Workers, NEW v \in Workers, u # v
        PROVE  /\ DOMAIN tx'[u].new \cap DOMAIN tx'[v].new = {}
               /\ Range(tx'[u].new) \cap Range(tx'[v].new) = {}
    BY <1>3, <2>1, <2>5 DEF CatalogueInv, Apart
  <2> QED BY <1>7, <2>2, <2>3, <2>4, <2>5 DEF Apart
<1>12. Whole'
  <2>1. PICK e \in Experiments :
          /\ DOMAIN new \subseteq Range(TrialsOf(e))
          /\ Range(TrialsOf(e)) \subseteq DOMAIN ids \cup DOMAIN new
    BY <1>1, CommitsAll
  <2> SUFFICES ASSUME NEW f \in Experiments PROVE WholeOf(f)'
    BY DEF Whole
  <2>2. Range(TrialsOf(f))' = Range(TrialsOf(f))
    BY <1>2 DEF TrialsOf, TrialsStay, Range
  <2>3. WholeOf(f)
    BY DEF CatalogueInv, Whole
  <2>4. \A t \in Range(TrialsOf(e)) : t[1] = e
    BY TrialsOfOne DEF CatalogueInv
  <2> HIDE DEF new
  <2>5. CASE f = e
    BY <1>6, <2>1, <2>2, <2>3, <2>4, <2>5 DEF WholeOf
  <2>6. CASE f # e
    BY <1>6, <2>1, <2>2, <2>3, <2>4, <2>6 DEF WholeOf
  <2> QED BY <2>5, <2>6
<1> QED BY <1>1, <1>2, <1>10, <1>11, <1>12, DraftedKept, PostedKept DEF CatalogueInv

-----------------------------------------------------------------------------
(* The invariant of the catalogue holds in every reachable state.          *)

LEMMA CatalogueBegins ==
  ASSUME CatalogueInit
  PROVE  CatalogueInv
<1>1. /\ draft = NoDraft /\ scenarios = <<>> /\ policies = [e \in Experiments |-> <<>>]
      /\ last = [w \in Workers |-> NoId] /\ tx = [w \in Workers |-> Closed] /\ ids = NoTrials
  BY DEF CatalogueInit
<1>2. Drafted
  <2>1. draft = [seeds |-> <<>>, obj |-> NoObject, tries |-> 0, place |-> NoPlace]
    BY <1>1 DEF NoDraft
  <2>2. <<>> \in Seq(Seeds)
    OBVIOUS
  <2> QED BY <2>1, <2>2 DEF Drafted
<1>3. Posted
  <2>1. <<>> \in Seq(Seeds) /\ <<>> \in Seq(Policies)
    OBVIOUS
  <2>2. IsInjective(<<>>)
    BY DEF IsInjective
  <2> QED BY <1>1, <2>1, <2>2 DEF Posted
<1>4. \A w \in Workers : tx[w] = Closed /\ tx[w].new = NoTrials
  BY <1>1, ClosedFields
<1>5. WorkersOpen
  <2>1. NoId \in Ticks
    BY Bounds DEF NoId, Ticks
  <2>2. last \in [Workers -> Ticks] /\ tx = [w \in Workers |-> tx[w]]
    BY <1>1, <2>1
  <2>3. \A w \in Workers : tx[w].new \in IdMaps
    BY <1>4, NoTrialsIsIdMap
  <2> QED BY <1>4, <2>2, <2>3 DEF WorkersOpen, Working
<1>6. Apart
  BY <1>1, <1>4, NoTrialsIsIdMap DEF Apart
<1>7. Whole
  BY <1>1, NoTrialsIsIdMap DEF Whole, WholeOf
<1> QED BY <1>2, <1>3, <1>5, <1>6, <1>7 DEF CatalogueInv

LEMMA CatalogueKeeps ==
  ASSUME CatalogueInv, CatalogueNext
  PROVE  CatalogueInv'
<1>1. CASE DrawObject
  BY <1>1, DrawObjectKeeps
<1>2. CASE DrawPlace
  BY <1>2, DrawPlaceKeeps
<1>3. CASE PostScenarioSet
  BY <1>3, PostScenarioSetKeeps
<1>4. CASE \E e \in Experiments : PostExperiment(e)
  BY <1>4, PostExperimentKeeps
<1>5. CASE \E e \in Experiments : \E w \in Workers : Begin(w, e)
  BY <1>5, BeginKeeps
<1>6. CASE \E w \in Workers : Insert(w)
  BY <1>6, InsertKeeps
<1>7. CASE \E w \in Workers : Commit(w)
  BY <1>7, CommitKeeps
<1>8. CASE \E w \in Workers : Rollback(w)
  BY <1>8, RollbackKeeps
<1> QED BY <1>1, <1>2, <1>3, <1>4, <1>5, <1>6, <1>7, <1>8 DEF CatalogueNext

LEMMA CatalogueUnmoved ==
  ASSUME CatalogueInv, UNCHANGED catalogue
  PROVE  CatalogueInv'
<1>1. /\ draft' = draft /\ last' = last /\ tx' = tx /\ ids' = ids /\ TrialsStay
  BY DEF catalogue, TrialsStay
<1>2. Drafted' /\ Posted' /\ Whole' /\ Apart'
  BY <1>1, DraftedKept, PostedKept, WholeKept, ApartKept DEF CatalogueInv
<1>3. WorkersOpen'
  BY <1>1, WorkersKept DEF CatalogueInv
<1> QED BY <1>2, <1>3 DEF CatalogueInv

\* The reviewers and the listing leave the catalogue alone.
LEMMA StepOfCatalogue ==
  ASSUME [Next]_vars
  PROVE  CatalogueNext \/ UNCHANGED catalogue
BY DEF Next, vars, Reviewing, Look, CreateAnnotation, UpdateAnnotation, CommitAnnotation,
       FailToCommit, StartListing, NextPage

\* What the workers create, whatever their clocks show, in whatever order they commit
\* and whichever of their transactions fail (ids.py, worker.py _ensure_trials).
THEOREM CatalogueInvariant == Spec => []CatalogueInv
<1>1. Init => CatalogueInv
  BY CatalogueBegins DEF Init
<1>2. CatalogueInv /\ [Next]_vars => CatalogueInv'
  BY StepOfCatalogue, CatalogueKeeps, CatalogueUnmoved
<1> QED BY <1>1, <1>2, PTL DEF Spec

\* Others see a trial of an experiment for every policy and scenario, or none, however
\* many workers create them at once (worker.py _ensure_trials).
THEOREM TrialsAreWhole == Spec => []AllOrNoTrials
<1>1. CatalogueInv => AllOrNoTrials
  <2> SUFFICES ASSUME CatalogueInv, NEW e \in Experiments
               PROVE  {t \in Trials : t[1] = e}
                        \in {{}, {e} \X Range(policies[e]) \X Range(scenarios)}
    BY DEF AllOrNoTrials
  <2>1. Posted /\ WholeOf(e)
    BY DEF CatalogueInv, Whole
  <2>2. Range(TrialsOf(e)) \subseteq {e} \X Range(policies[e]) \X Range(scenarios)
    <3> SUFFICES ASSUME NEW k \in DOMAIN TrialsOf(e)
                 PROVE  TrialsOf(e)[k] \in {e} \X Range(policies[e]) \X Range(scenarios)
      BY DEF Range
    <3> DEFINE i == ((k - 1) \div Len(scenarios)) + 1
               j == ((k - 1) % Len(scenarios)) + 1
    <3>1. /\ i \in DOMAIN policies[e] /\ j \in DOMAIN scenarios
          /\ TrialsOf(e)[k] = <<e, policies[e][i], scenarios[j]>>
      BY <2>1, TrialAt
    <3> HIDE DEF i, j
    <3>2. policies[e][i] \in Range(policies[e]) /\ scenarios[j] \in Range(scenarios)
      BY <3>1 DEF Range
    <3> QED BY <3>1, <3>2
  <2>3. {e} \X Range(policies[e]) \X Range(scenarios) \subseteq Range(TrialsOf(e))
    <3> SUFFICES ASSUME NEW i \in DOMAIN policies[e], NEW j \in DOMAIN scenarios
                 PROVE  <<e, policies[e][i], scenarios[j]>> \in Range(TrialsOf(e))
      BY DEF Range
    <3>1. PICK k \in DOMAIN TrialsOf(e) : TrialsOf(e)[k] = <<e, policies[e][i], scenarios[j]>>
      BY <2>1, TrialsCover
    <3> QED BY <3>1 DEF Range
  <2>4. Range(TrialsOf(e)) = {e} \X Range(policies[e]) \X Range(scenarios)
    BY <2>2, <2>3
  <2>5. {t \in Trials : t[1] = e} \in {{}, Range(TrialsOf(e))}
    BY <2>1 DEF WholeOf, Trials
  <2> QED BY <2>4, <2>5
<1> QED BY <1>1, CatalogueInvariant, PTL

\* A worker's trials have ids in the order of their creation, even if its clock stands
\* still or goes back (ids.py).
THEOREM IdsInOrder == Spec => []CreatedInOrder
<1>1. CatalogueInv => CreatedInOrder
  <2> SUFFICES ASSUME CatalogueInv, NEW w \in Workers, NEW e \in Experiments,
                      NEW i \in DOMAIN TrialsOf(e), NEW j \in DOMAIN TrialsOf(e), i < j,
                      TrialsOf(e)[i] \in DOMAIN tx[w].new, TrialsOf(e)[j] \in DOMAIN tx[w].new
               PROVE  tx[w].new[TrialsOf(e)[i]] < tx[w].new[TrialsOf(e)[j]]
    BY DEF CreatedInOrder
  <2>1. tx[w] # Closed
    BY ClosedFields, NoTrialsIsIdMap
  <2>2. PICK f \in Experiments, k \in Nat : Creating(w, f, k)
    BY <2>1 DEF CatalogueInv, WorkersOpen, Working
  <2>3. PICK a \in 1..k, b \in 1..k : TrialsOf(e)[i] = TrialsOf(f)[a] /\ TrialsOf(e)[j] = TrialsOf(f)[b]
    BY <2>2 DEF Creating
  <2>4. k \in 0..Len(TrialsOf(f))
    BY <2>2 DEF Creating
  <2>5. a \in DOMAIN TrialsOf(f) /\ b \in DOMAIN TrialsOf(f)
    <3>1. DOMAIN TrialsOf(f) = 1..Len(TrialsOf(f)) /\ Len(TrialsOf(f)) \in Nat
      BY TrialsAreSeq DEF CatalogueInv
    <3> QED BY <2>4, <3>1
  <2>6. e = f
    <3>1. TrialsOf(e)[i] \in Range(TrialsOf(e)) /\ TrialsOf(f)[a] \in Range(TrialsOf(f))
      BY <2>5 DEF Range
    <3>2. TrialsOf(e)[i][1] = e
      BY <3>1, TrialsOfOne DEF CatalogueInv
    <3>3. TrialsOf(f)[a][1] = f
      BY <3>1, TrialsOfOne DEF CatalogueInv
    <3> QED BY <2>3, <3>2, <3>3
  <2>7. i = a /\ j = b
    BY <2>3, <2>5, <2>6, TrialsDiffer DEF CatalogueInv
  <2> QED BY <2>2, <2>3, <2>6, <2>7 DEF Creating
<1> QED BY <1>1, CatalogueInvariant, PTL

-----------------------------------------------------------------------------
(* The committed trials stay.                                              *)

LEMMA CommittedStay ==
  ASSUME CatalogueInv, CatalogueNext \/ UNCHANGED catalogue
  PROVE  DOMAIN ids \subseteq DOMAIN ids' /\ \A t \in DOMAIN ids : ids'[t] = ids[t]
<1>1. CASE \E w \in Workers : Commit(w)
  <2>1. PICK w \in Workers : ids' = Joined(ids, tx[w].new)
    BY <1>1 DEF Commit
  <2>2. /\ DOMAIN Joined(ids, tx[w].new) = DOMAIN ids \cup DOMAIN tx[w].new
        /\ \A t \in DOMAIN ids : Joined(ids, tx[w].new)[t] = ids[t]
    BY JoinedAt
  <2> QED BY <2>1, <2>2
<1>2. CASE ~\E w \in Workers : Commit(w)
  <2>1. ids' = ids
    BY <1>2 DEF CatalogueNext, catalogue, DrawObject, DrawPlace, PostScenarioSet, PostExperiment,
                Begin, Insert, Rollback
  <2> QED BY <2>1
<1> QED BY <1>1, <1>2

-----------------------------------------------------------------------------
(* Annotations: a reviewer whose view is not hollow saw a committed note,  *)
(* which may have been replaced since by one of a greater revision.        *)

WriteOf(r) ==
  write[r] # NoWrite =>
    /\ write[r].trial \in Trials /\ write[r].note.revision \in 1..MaxRevision
    /\ view[r].trial = write[r].trial /\ view[r].note = write[r].note /\ ~view[r].hollow
    /\ write[r].trial \in DOMAIN notes =>
         /\ write[r].note.revision = notes[write[r].trial].revision + 1
         /\ write[r].from.note = notes[write[r].trial] \/ write[r].from.hollow

ViewOf(r) ==
  write[r] = NoWrite /\ view[r] # NoView /\ ~view[r].hollow =>
    LET t == view[r].trial
    IN  /\ t \in DOMAIN notes /\ view[r].note.revision \in Int
        /\ view[r].note.revision <= notes[t].revision
        /\ view[r].note.revision = notes[t].revision => view[r].note = notes[t]

\* The row of a trial is written by one reviewer at a time.
OneWriter ==
  \A r, q \in Reviewers :
    write[r] # NoWrite /\ write[q] # NoWrite /\ write[r].trial = write[q].trial => r = q

NotesTyped == \A t \in DOMAIN notes : t \in Trials /\ notes[t].revision \in 1..MaxRevision

AnnotationInv ==
  /\ DOMAIN view = Reviewers /\ DOMAIN write = Reviewers
  /\ NotesTyped /\ OneWriter
  /\ \A r \in Reviewers : WriteOf(r) /\ ViewOf(r)

LEMMA TrialIsNotEmpty ==
  ASSUME CatalogueInv
  PROVE  <<>> \notin Trials
<1>1. Trials \subseteq TrialSet
  BY IdMapShape DEF CatalogueInv, Apart, Trials
<1>2. ASSUME NEW t \in TrialSet PROVE t # <<>>
  <2>1. Len(t) = 3 /\ Len(<<>>) = 0
    BY DEF TrialSet
  <2> QED BY <2>1
<1> QED BY <1>1, <1>2

LEMMA AnnotationsBegin ==
  ASSUME Init
  PROVE  AnnotationInv
BY DEF Init, AnnotationInv, NotesTyped, OneWriter, WriteOf, ViewOf

LEMMA AnnotationsKept ==
  ASSUME AnnotationInv, Trials \subseteq Trials', UNCHANGED <<notes, view, write>>
  PROVE  AnnotationInv'
<1>1. NotesTyped' /\ OneWriter'
  BY DEF AnnotationInv, NotesTyped, OneWriter
<1>2. \A r \in Reviewers : WriteOf(r)' /\ ViewOf(r)'
  BY DEF AnnotationInv, WriteOf, ViewOf
<1> QED BY <1>1, <1>2 DEF AnnotationInv

LEMMA ToldWrites ==
  ASSUME AnnotationInv, NEW r \in Reviewers, NEW t, NEW note, Told(r, t, note)
  PROVE  /\ DOMAIN view' = Reviewers /\ DOMAIN write' = Reviewers
         /\ view'[r].trial = t /\ view'[r].note = note /\ ~view'[r].hollow
         /\ write'[r].trial = t /\ write'[r].note = note /\ write'[r].from = view[r]
         /\ \A q \in Reviewers \ {r} : view'[q] = view[q] /\ write'[q] = write[q]
BY DEF AnnotationInv, Told

\* A reviewer is told of a write of a trial that nobody else writes.
LEMMA ToldKeeps ==
  ASSUME CatalogueInv, AnnotationInv, NEW r \in Reviewers, NEW t \in Trials, NEW note,
         Told(r, t, note), UNCHANGED <<catalogue, notes>>, Idle(r),
         \A q \in Reviewers : write[q].trial # t,
         note.revision \in 1..MaxRevision,
         t \in DOMAIN notes => /\ note.revision = notes[t].revision + 1
                               /\ view[r].note = notes[t] \/ view[r].hollow
  PROVE  AnnotationInv'
<1>1. /\ DOMAIN view' = Reviewers /\ DOMAIN write' = Reviewers
      /\ view'[r].trial = t /\ view'[r].note = note /\ ~view'[r].hollow
      /\ write'[r].trial = t /\ write'[r].note = note /\ write'[r].from = view[r]
      /\ \A q \in Reviewers \ {r} : view'[q] = view[q] /\ write'[q] = write[q]
  BY ToldWrites
<1>2. Trials' = Trials /\ notes' = notes
  BY DEF catalogue, Trials
<1>3. write'[r] # NoWrite
  BY <1>1, TrialIsNotEmpty DEF NoWrite
<1>4. NotesTyped'
  BY <1>2 DEF AnnotationInv, NotesTyped
<1>5. OneWriter'
  BY <1>1 DEF AnnotationInv, OneWriter
<1>6. WriteOf(r)' /\ ViewOf(r)'
  BY <1>1, <1>2, <1>3 DEF WriteOf, ViewOf
<1>7. \A q \in Reviewers \ {r} : WriteOf(q)' /\ ViewOf(q)'
  BY <1>1, <1>2 DEF AnnotationInv, WriteOf, ViewOf
<1> QED BY <1>1, <1>4, <1>5, <1>6, <1>7 DEF AnnotationInv

LEMMA CreateKeeps ==
  ASSUME CatalogueInv, AnnotationInv, NEW r \in Reviewers, NEW t \in Trials,
         CreateAnnotation(r, t)
  PROVE  AnnotationInv'
<1> DEFINE note == [revision |-> 1, by |-> r]
<1>1. Told(r, t, note) /\ Idle(r) /\ UNCHANGED <<catalogue, notes>>
  BY DEF CreateAnnotation
<1>2. t \notin DOMAIN notes /\ \A q \in Reviewers : write[q].trial # t
  BY TrialIsNotEmpty DEF CreateAnnotation, MayAnnotate, Annotated
<1>3. note.revision \in 1..MaxRevision
  BY ReviewAssumption
<1> HIDE DEF note
<1> QED BY <1>1, <1>2, <1>3, ToldKeeps

LEMMA LookKeeps ==
  ASSUME CatalogueInv, AnnotationInv, NEW r \in Reviewers, NEW t \in Trials, Look(r, t)
  PROVE  AnnotationInv'
<1>1. /\ DOMAIN view' = Reviewers /\ write' = write /\ notes' = notes
      /\ view'[r].trial = t /\ view'[r].note = notes[t] /\ ~view'[r].hollow
      /\ \A q \in Reviewers \ {r} : view'[q] = view[q]
      /\ t \in DOMAIN notes /\ write[r] = NoWrite
  BY DEF AnnotationInv, Look, Idle
<1>2. Trials' = Trials
  BY DEF Look, catalogue, Trials
<1>3. NotesTyped' /\ OneWriter'
  BY <1>1, <1>2 DEF AnnotationInv, NotesTyped, OneWriter
<1>4. notes[t].revision \in Int
  BY <1>1 DEF AnnotationInv, NotesTyped
<1>5. WriteOf(r)' /\ ViewOf(r)'
  BY <1>1, <1>4 DEF WriteOf, ViewOf
<1>6. \A q \in Reviewers \ {r} : WriteOf(q)' /\ ViewOf(q)'
  BY <1>1, <1>2 DEF AnnotationInv, WriteOf, ViewOf
<1> QED BY <1>1, <1>3, <1>5, <1>6 DEF AnnotationInv

LEMMA UpdateKeeps ==
  ASSUME CatalogueInv, AnnotationInv, NEW r \in Reviewers, UpdateAnnotation(r)
  PROVE  AnnotationInv'
<1> DEFINE t == view[r].trial
           note == [revision |-> notes[t].revision + 1, by |-> r]
<1>1. /\ Told(r, t, note) /\ Idle(r) /\ UNCHANGED <<catalogue, notes>> /\ t \in DOMAIN notes
      /\ view[r].note.revision = notes[t].revision /\ notes[t].revision < MaxRevision
  BY DEF UpdateAnnotation
<1>2. t \in Trials /\ notes[t].revision \in 1..MaxRevision
  BY <1>1 DEF AnnotationInv, NotesTyped
<1>3. \A q \in Reviewers : write[q].trial # t
  BY DEF UpdateAnnotation, RowLocked
<1>4. note.revision \in 1..MaxRevision /\ note.revision = notes[t].revision + 1
  BY <1>1, <1>2, ReviewAssumption
<1>5. view[r].note = notes[t] \/ view[r].hollow
  <2>1. view[r] # NoView
    BY <1>2, TrialIsNotEmpty DEF NoView
  <2> QED BY <1>1, <2>1 DEF AnnotationInv, ViewOf, Idle
<1> HIDE DEF note, t
<1>6. UNCHANGED <<catalogue, notes>>
  BY <1>1
<1>7. t \in DOMAIN notes => /\ note.revision = notes[t].revision + 1
                            /\ view[r].note = notes[t] \/ view[r].hollow
  BY <1>4, <1>5
<1> QED BY <1>1, <1>2, <1>3, <1>4, <1>6, <1>7, ToldKeeps

LEMMA CommitOfNote ==
  ASSUME NEW r \in Reviewers, CommitAnnotation(r)
  PROVE  /\ write[r] # NoWrite
         /\ DOMAIN notes' = DOMAIN notes \cup {write[r].trial}
         /\ notes'[write[r].trial] = write[r].note
         /\ \A t \in DOMAIN notes : t # write[r].trial => notes'[t] = notes[t]
BY DEF CommitAnnotation, Idle

LEMMA CommitAnnotationKeeps ==
  ASSUME AnnotationInv, NEW r \in Reviewers, CommitAnnotation(r)
  PROVE  AnnotationInv'
<1> DEFINE t == write[r].trial
<1>1. /\ write[r] # NoWrite
      /\ DOMAIN notes' = DOMAIN notes \cup {t} /\ notes'[t] = write[r].note
      /\ \A u \in DOMAIN notes : u # t => notes'[u] = notes[u]
  BY CommitOfNote
<1>2. /\ view' = view /\ Trials' = Trials /\ DOMAIN write' = Reviewers
      /\ write'[r] = NoWrite /\ \A q \in Reviewers \ {r} : write'[q] = write[q]
  BY DEF AnnotationInv, CommitAnnotation, catalogue, Trials
<1>3. t \in Trials /\ write[r].note.revision \in 1..MaxRevision
  BY <1>1 DEF AnnotationInv, WriteOf
<1>4. NotesTyped'
  BY <1>1, <1>2, <1>3 DEF AnnotationInv, NotesTyped
<1>5. OneWriter'
  BY <1>2 DEF AnnotationInv, OneWriter
<1>6. WriteOf(r)' /\ ViewOf(r)'
  <2>1. view[r].trial = t /\ view[r].note = write[r].note
    BY <1>1 DEF AnnotationInv, WriteOf
  <2>2. write[r].note.revision \in Int
    BY <1>3
  <2> HIDE DEF t
  <2> QED BY <1>1, <1>2, <2>1, <2>2 DEF WriteOf, ViewOf
<1>7. ASSUME NEW q \in Reviewers \ {r} PROVE WriteOf(q)'
  <2>1. write[q] # NoWrite => write[q].trial # t
    BY <1>1 DEF AnnotationInv, OneWriter
  <2> HIDE DEF t
  <2> QED BY <1>1, <1>2, <2>1 DEF AnnotationInv, WriteOf
<1>8. ASSUME NEW q \in Reviewers \ {r} PROVE ViewOf(q)'
  <2> DEFINE u == view[q].trial
  <2> SUFFICES ASSUME write[q] = NoWrite, view[q] # NoView, ~view[q].hollow
               PROVE  /\ u \in DOMAIN notes' /\ view[q].note.revision \in Int
                      /\ view[q].note.revision <= notes'[u].revision
                      /\ view[q].note.revision = notes'[u].revision => view[q].note = notes'[u]
    BY <1>2 DEF ViewOf
  <2>1. /\ u \in DOMAIN notes /\ view[q].note.revision \in Int
        /\ view[q].note.revision <= notes[u].revision
        /\ view[q].note.revision = notes[u].revision => view[q].note = notes[u]
    BY DEF AnnotationInv, ViewOf
  <2>2. CASE u # t
    BY <1>1, <2>1, <2>2
  <2>3. CASE u = t
    <3>1. notes[t].revision \in Int /\ write[r].note.revision = notes[t].revision + 1
      BY <1>1, <2>1, <2>3 DEF AnnotationInv, WriteOf, NotesTyped
    <3> HIDE DEF t, u
    <3> QED BY <1>1, <2>1, <2>3, <3>1
  <2> QED BY <2>2, <2>3
<1> QED BY <1>2, <1>4, <1>5, <1>6, <1>7, <1>8 DEF AnnotationInv

LEMMA FailToCommitKeeps ==
  ASSUME AnnotationInv, NEW r \in Reviewers, FailToCommit(r)
  PROVE  AnnotationInv'
<1>1. /\ Trials' = Trials /\ notes' = notes
      /\ DOMAIN view' = Reviewers /\ DOMAIN write' = Reviewers
      /\ write'[r] = NoWrite /\ view'[r].hollow
      /\ \A q \in Reviewers \ {r} : write'[q] = write[q] /\ view'[q] = view[q]
  BY DEF AnnotationInv, FailToCommit, catalogue, Trials
<1>2. NotesTyped' /\ OneWriter'
  BY <1>1 DEF AnnotationInv, NotesTyped, OneWriter
<1>3. WriteOf(r)' /\ ViewOf(r)'
  BY <1>1 DEF WriteOf, ViewOf
<1>4. \A q \in Reviewers \ {r} : WriteOf(q)' /\ ViewOf(q)'
  BY <1>1 DEF AnnotationInv, WriteOf, ViewOf
<1> QED BY <1>1, <1>2, <1>3, <1>4 DEF AnnotationInv

LEMMA AnnotationStep ==
  ASSUME CatalogueInv, AnnotationInv, [Next]_vars
  PROVE  AnnotationInv'
<1>1. CASE UNCHANGED <<notes, view, write>>
  <2>1. Trials \subseteq Trials'
    BY StepOfCatalogue, CommittedStay DEF Trials
  <2> QED BY <1>1, <2>1, AnnotationsKept
<1>2. CASE Reviewing
  <2> SUFFICES ASSUME NEW r \in Reviewers,
                      \/ \E t \in Trials : Look(r, t) \/ CreateAnnotation(r, t)
                      \/ UpdateAnnotation(r) \/ CommitAnnotation(r) \/ FailToCommit(r)
               PROVE  AnnotationInv'
    BY <1>2 DEF Reviewing
  <2> QED BY LookKeeps, CreateKeeps, UpdateKeeps, CommitAnnotationKeeps, FailToCommitKeeps
<1> QED BY <1>1, <1>2 DEF Next, vars, StartListing, NextPage

\* What the reviewers have seen of the notes, and what their pending writes rest on
\* (services/annotations.py).
THEOREM AnnotationInvariant == Spec => []AnnotationInv
<1>1. Init => AnnotationInv
  BY AnnotationsBegin
<1>2. CatalogueInv /\ AnnotationInv /\ [Next]_vars => AnnotationInv'
  BY AnnotationStep
<1> QED BY <1>1, <1>2, CatalogueInvariant, PTL DEF Spec

\* A committed update replaces the note that its author was shown, unless the author
\* was told of a write of their own that was not committed (annotations.py
\* update_annotation).
THEOREM OverwritesWhatWasSeen == Spec => SeenBeforeOverwritten
<1> DEFINE Seen == \A t \in DOMAIN notes : notes'[t] # notes[t] =>
                     \E r \in Reviewers :
                       /\ write[r].trial = t /\ write'[r] = NoWrite
                       /\ write[r].from.note = notes[t] \/ write[r].from.hollow
<1>1. AnnotationInv /\ [Next]_vars => [Seen]_vars
  <2> SUFFICES ASSUME AnnotationInv, [Next]_vars, NEW t \in DOMAIN notes, notes'[t] # notes[t]
               PROVE  \E r \in Reviewers :
                        /\ write[r].trial = t /\ write'[r] = NoWrite
                        /\ write[r].from.note = notes[t] \/ write[r].from.hollow
    OBVIOUS
  <2>1. PICK r \in Reviewers : CommitAnnotation(r)
    BY DEF Next, vars, Reviewing, Look, CreateAnnotation, UpdateAnnotation, FailToCommit,
           StartListing, NextPage
  <2>2. write[r] # NoWrite /\ write[r].trial = t
    BY <2>1, CommitOfNote
  <2>3. write[r].from.note = notes[t] \/ write[r].from.hollow
    BY <2>2 DEF AnnotationInv, WriteOf
  <2>4. write'[r] = NoWrite
    BY <2>1 DEF AnnotationInv, CommitAnnotation
  <2> QED BY <2>2, <2>3, <2>4
<1> QED BY <1>1, AnnotationInvariant, PTL DEF Spec, SeenBeforeOverwritten

-----------------------------------------------------------------------------
(* The increasing enumeration of a finite set of integers.                 *)

Rank(S, x) == Cardinality({y \in S : y <= x})

LEMMA RankRange ==
  ASSUME NEW S \in SUBSET Int, IsFiniteSet(S), NEW x \in S
  PROVE  Rank(S, x) \in 1..Cardinality(S)
<1> DEFINE B == {y \in S : y <= x}
<1>1. B \in SUBSET S /\ x \in B
  OBVIOUS
<1> HIDE DEF B
<1>2. IsFiniteSet(B) /\ Cardinality(B) <= Cardinality(S)
  BY <1>1, FS_Subset
<1>3. Cardinality(B) \in Nat /\ Cardinality(S) \in Nat
  BY <1>2, FS_CardinalityType
<1>4. Cardinality(B) # 0
  BY <1>1, <1>2, FS_EmptySet
<1>5. Cardinality(B) \in 1..Cardinality(S)
  BY <1>2, <1>3, <1>4
<1> QED BY <1>5 DEF Rank, B

LEMMA OrderOfInts ==
  \A x, y, z \in Int : (x < z /\ y <= x => y <= z) /\ (x < z => ~(z <= x)) /\ z <= z
OBVIOUS

LEMMA RankRises ==
  ASSUME NEW S \in SUBSET Int, IsFiniteSet(S), NEW x \in S, NEW z \in S, x < z
  PROVE  Rank(S, x) < Rank(S, z)
<1> DEFINE B == {y \in S : y <= x}
           C == {y \in S : y <= z}
<1>0. x \in Int /\ z \in Int /\ \A y \in S : y \in Int
  OBVIOUS
<1>1. B \in SUBSET C /\ C \in SUBSET S /\ B # C
  <2>1. B \subseteq C
    <3>1. \A y \in S : y <= x => y <= z
      BY <1>0, OrderOfInts
    <3> QED BY <3>1
  <2>2. z \in C /\ z \notin B
    BY <1>0, OrderOfInts
  <2> QED BY <2>1, <2>2
<1> HIDE DEF B, C
<1>2. IsFiniteSet(C)
  BY <1>1, FS_Subset
<1>3. IsFiniteSet(B) /\ Cardinality(B) <= Cardinality(C) /\ Cardinality(C) # Cardinality(B)
  BY <1>1, <1>2, FS_Subset
<1>4. Cardinality(B) \in Nat /\ Cardinality(C) \in Nat
  BY <1>2, <1>3, FS_CardinalityType
<1>5. Cardinality(B) < Cardinality(C)
  BY <1>3, <1>4
<1> QED BY <1>5 DEF Rank, B, C

LEMMA CardinalityUpTo ==
  ASSUME NEW n \in Nat
  PROVE  IsFiniteSet(1..n) /\ Cardinality(1..n) = n
<1>1. IsFiniteSet(1..n) /\ Cardinality(1..n) = IF 1 > n THEN 0 ELSE n - 1 + 1
  BY FS_Interval
<1> QED BY <1>1

LEMMA RankIsOnto ==
  ASSUME NEW S \in SUBSET Int, IsFiniteSet(S)
  PROVE  \A i \in 1..Cardinality(S) : \E x \in S : Rank(S, x) = i
<1> DEFINE n == Cardinality(S)
           rank == [x \in S |-> Rank(S, x)]
<1>1. n \in Nat
  BY FS_CardinalityType
<1>2. rank \in [S -> 1..n]
  BY RankRange
<1>3. IsInjective(rank)
  <2> SUFFICES ASSUME NEW x \in S, NEW z \in S, Rank(S, x) = Rank(S, z)
               PROVE  x = z
    BY DEF IsInjective
  <2>1. Rank(S, x) \in Int /\ Rank(S, z) \in Int
    BY <1>1, RankRange
  <2>2. ~(x < z)
    BY <2>1, RankRises
  <2>3. ~(z < x)
    BY <2>1, RankRises
  <2> QED BY <2>2, <2>3
<1>4. rank \in Injection(S, 1..n)
  BY <1>2, <1>3 DEF Injection
<1>5. IsFiniteSet(1..n) /\ Cardinality(1..n) = n
  BY <1>1, CardinalityUpTo
<1>6. rank \in Surjection(S, 1..n)
  <2>1. Cardinality(S) = Cardinality(1..n)
    BY <1>5
  <2> HIDE DEF rank, n
  <2> QED BY <1>4, <1>5, <2>1, FS_Injection
<1>7. \A i \in 1..n : \E x \in S : rank[x] = i
  BY <1>6 DEF Surjection
<1> QED BY <1>7

LEMMA Ascends ==
  ASSUME NEW S \in SUBSET Int, IsFiniteSet(S)
  PROVE  /\ Cardinality(S) \in Nat
         /\ Ascending(S) \in [1..Cardinality(S) -> S]
         /\ \A i, j \in 1..Cardinality(S) : i < j => Ascending(S)[i] < Ascending(S)[j]
         /\ \A x \in S : \E i \in 1..Cardinality(S) : Ascending(S)[i] = x
<1> DEFINE n == Cardinality(S)
           f == Ascending(S)
           g == [i \in 1..n |-> CHOOSE x \in S : Rank(S, x) = i]
           Rising(h) == \A i, j \in 1..n : i < j => h[i] < h[j]
<1>1. n \in Nat
  BY FS_CardinalityType
<1>2. \A i \in 1..n : g[i] \in S /\ Rank(S, g[i]) = i
  BY RankIsOnto
<1>3. g \in [1..n -> S]
  BY <1>2
<1>4. Rising(g)
  <2> SUFFICES ASSUME NEW i \in 1..n, NEW j \in 1..n, i < j PROVE g[i] < g[j]
    OBVIOUS
  <2> HIDE DEF g
  <2>1. g[i] \in S /\ g[j] \in S /\ Rank(S, g[i]) = i /\ Rank(S, g[j]) = j
    BY <1>2
  <2>2. g[i] # g[j]
    BY <2>1
  <2>3. g[i] \in Int /\ g[j] \in Int
    BY <2>1
  <2>4. ASSUME g[j] < g[i] PROVE FALSE
    <3>1. Rank(S, g[j]) < Rank(S, g[i])
      BY <2>1, <2>4, RankRises
    <3>2. ~(i < j)
      <4> HIDE DEF n
      <4> QED BY <2>1, <3>1
    <3> QED BY <3>2
  <2> HIDE DEF Rising
  <2> QED BY <2>2, <2>3, <2>4
<1>5. \E h \in [1..n -> S] : Rising(h)
  BY <1>3, <1>4
<1>6. f \in [1..n -> S] /\ Rising(f)
  <2>1. f = CHOOSE h \in [1..n -> S] : Rising(h)
    BY DEF Ascending
  <2> HIDE DEF f, Rising
  <2> QED BY <1>5, <2>1
<1>7. IsInjective(f)
  <2> SUFFICES ASSUME NEW i \in 1..n, NEW j \in 1..n, f[i] = f[j] PROVE i = j
    BY <1>6 DEF IsInjective
  <2>1. f[i] \in Int /\ f[j] \in Int
    BY <1>6
  <2>2. ~(i < j)
    BY <1>6, <2>1
  <2>3. ~(j < i)
    BY <1>6, <2>1
  <2> QED BY <2>2, <2>3
<1>8. f \in Injection(1..n, S)
  BY <1>6, <1>7 DEF Injection
<1>9. f \in Surjection(1..n, S)
  <2>1. Cardinality(1..n) = Cardinality(S)
    BY <1>1, CardinalityUpTo
  <2> HIDE DEF f, n
  <2> QED BY <1>8, <2>1, FS_Injection
<1>10. \A x \in S : \E i \in 1..n : f[i] = x
  BY <1>9 DEF Surjection
<1> QED BY <1>1, <1>6, <1>10

-----------------------------------------------------------------------------
(* A page of a listing.                                                    *)

LEMMA FoundIsFinite ==
  ASSUME CatalogueInv, NEW reviewed, NEW cursor \in Nat
  PROVE  /\ Found(reviewed, cursor) \in SUBSET Ids /\ Found(reviewed, cursor) \in SUBSET Int
         /\ IsFiniteSet(Found(reviewed, cursor))
<1>1. \A t \in Trials : ids[t] \in Ids
  BY IdMapShape DEF CatalogueInv, Apart, Trials
<1>2. Found(reviewed, cursor) \in SUBSET Ids
  BY <1>1 DEF Found
<1>3. IsFiniteSet(Ids)
  <2> DEFINE top == IdOf([time |-> MaxTime, counter |-> MaxCounter], MaxRandom)
  <2>1. [time |-> MaxTime, counter |-> MaxCounter] \in Ticks /\ MaxRandom \in 0..MaxRandom
    BY Bounds DEF Ticks
  <2>2. top \in Int
    BY <2>1, IdIsInt
  <2> HIDE DEF top
  <2>3. IsFiniteSet(1..top)
    BY <2>2, FS_Interval
  <2> QED BY <2>3 DEF Ids, top
<1>4. Found(reviewed, cursor) \in SUBSET Int
  BY <1>2, IdsAreInts
<1> QED BY <1>2, <1>3, <1>4, FS_Subset

LEMMA PageShows ==
  ASSUME NEW f, NEW n \in Nat, NEW S, f \in [1..n -> S], NEW size \in Nat \ {0}
  PROVE  LET page == SubSeq(f, 1, Lesser(Len(f), size + 1))
             part == SubSeq(page, 1, Lesser(Len(page), size))
         IN  /\ part \in Seq(S) /\ Len(part) = Lesser(n, size)
             /\ \A i \in 1..Lesser(n, size) : part[i] = f[i]
             /\ NextCursor(page, size) = IF n > size THEN f[size] ELSE 0
<1> DEFINE m == Lesser(n, size + 1)
           page == SubSeq(f, 1, Lesser(Len(f), size + 1))
           k == Lesser(m, size)
           part == SubSeq(page, 1, Lesser(Len(page), size))
<1>1. f \in Seq(S) /\ Len(f) = n
  <2>1. f \in Seq(S) /\ DOMAIN f = 1..n
    OBVIOUS
  <2> QED BY <2>1, LenProperties
<1>2. m \in Nat /\ m <= n /\ k \in Nat /\ k <= m /\ k = Lesser(n, size)
      /\ (n > size => m = size + 1) /\ (n <= size => m = n)
  BY DEF Lesser
<1>3. page = SubSeq(f, 1, m)
  BY <1>1
<1> HIDE DEF m, k, page
<1>4. \A i \in 1..m : f[i] \in S
  BY <1>2
<1>5. page \in Seq(S) /\ Len(page) = m /\ \A i \in 1..m : page[i] = f[i]
  <2>1. /\ SubSeq(f, 1, m) \in Seq(S)
        /\ Len(SubSeq(f, 1, m)) = IF 1 <= m THEN m - 1 + 1 ELSE 0
        /\ \A i \in 1..(m - 1 + 1) : SubSeq(f, 1, m)[i] = f[1 + i - 1]
    BY <1>2, <1>4, SubSeqProperties
  <2> QED BY <1>2, <1>3, <2>1
<1>6. part = SubSeq(page, 1, k)
  BY <1>5 DEF k
<1> HIDE DEF part
<1>7. part \in Seq(S) /\ Len(part) = k /\ \A i \in 1..k : part[i] = page[i]
  <2>1. \A i \in 1..k : page[i] \in S
    BY <1>2, <1>4, <1>5
  <2>2. /\ SubSeq(page, 1, k) \in Seq(S)
        /\ Len(SubSeq(page, 1, k)) = IF 1 <= k THEN k - 1 + 1 ELSE 0
        /\ \A i \in 1..(k - 1 + 1) : SubSeq(page, 1, k)[i] = page[1 + i - 1]
    BY <1>2, <2>1, SubSeqProperties
  <2> QED BY <1>2, <1>6, <2>2
<1>8. \A i \in 1..k : part[i] = f[i]
  BY <1>2, <1>5, <1>7
<1>9. NextCursor(page, size) = IF n > size THEN f[size] ELSE 0
  <2>1. CASE n > size
    <3>1. Len(page) > size /\ size \in 1..m
      BY <1>2, <1>5, <2>1
    <3>2. page[size] = f[size]
      BY <1>5, <3>1
    <3> QED BY <2>1, <3>1, <3>2 DEF NextCursor
  <2>2. CASE ~(n > size)
    <3>1. ~(Len(page) > size)
      BY <1>2, <1>5, <2>2
    <3> QED BY <2>2, <3>1 DEF NextCursor
  <2> QED BY <2>1, <2>2
<1> QED BY <1>2, <1>7, <1>8, <1>9 DEF page, part

-----------------------------------------------------------------------------
(* A listing: whatever passes its filter up to the cursor has been shown.  *)

DueTyped ==
  /\ listing.due \subseteq Range(ids)
  /\ listing.reviewed = "yes" => \A t \in Trials : ids[t] \in listing.due => t \in DOMAIN notes

ShownRise == \A i, j \in DOMAIN listing.shown : i < j => listing.shown[i] < listing.shown[j]

ShownSoFar ==
  \A t \in Trials :
    /\ ids[t] \in listing.due /\ Passes(t, listing.reviewed)
    /\ listing.at = "asking" => ids[t] <= listing.cursor
    => ids[t] \in Range(listing.shown)

ListingInv ==
  /\ listing.cursor \in Nat
  /\ listing.shown \in Seq(Ids) /\ Range(listing.shown) \subseteq Range(ids)
  /\ listing.at = "asking" =>
       \A i \in DOMAIN listing.shown : listing.shown[i] <= listing.cursor
  /\ DueTyped /\ ShownRise /\ ShownSoFar

LEMMA ListingBegins ==
  ASSUME Init
  PROVE  ListingInv
<1>1. listing = [at |-> "none", reviewed |-> "any", due |-> {}, shown |-> <<>>, cursor |-> 0]
  BY DEF Init, NoList
<1>2. /\ listing.shown = <<>> /\ listing.due = {} /\ listing.cursor = 0
      /\ listing.at = "none" /\ listing.reviewed = "any"
  BY <1>1
<1>3. <<>> \in Seq(Ids) /\ DOMAIN <<>> = {} /\ Range(<<>>) = {}
  BY DEF Range
<1>4. DueTyped /\ ShownRise /\ ShownSoFar
  BY <1>2, <1>3 DEF DueTyped, ShownRise, ShownSoFar
<1> QED BY <1>2, <1>3, <1>4 DEF ListingInv

LEMMA StartListingKeeps ==
  ASSUME CatalogueInv, StartListing
  PROVE  ListingInv'
<1>1. PICK reviewed \in Reviewed :
        listing' = [at |-> "asking", reviewed |-> reviewed, shown |-> <<>>, cursor |-> 0,
                    due |-> {ids[t] : t \in {t \in Trials : Passes(t, reviewed)}}]
  BY DEF StartListing
<1>2. /\ listing'.shown = <<>> /\ listing'.cursor = 0 /\ listing'.reviewed = reviewed
      /\ listing'.due = {ids[t] : t \in {t \in Trials : Passes(t, reviewed)}}
  BY <1>1
<1>3. ids' = ids /\ notes' = notes
  BY DEF StartListing, catalogue
<1>4. <<>> \in Seq(Ids') /\ DOMAIN <<>> = {} /\ Range(<<>>) = {}
  BY DEF Range
<1>5. \A t \in Trials : ids[t] \in Ids
  BY IdMapShape DEF CatalogueInv, Apart, Trials
<1>6. listing'.at = "asking"
  BY <1>1
<1>7. ShownSoFar'
  <2>1. \A id \in Ids : ~(id <= 0)
    BY IdsAreInts DEF Ids
  <2> QED BY <1>2, <1>3, <1>5, <1>6, <2>1 DEF ShownSoFar, Trials
<1>8. ShownRise'
  BY <1>2, <1>4 DEF ShownRise
<1>9. DueTyped'
  <2>1. listing'.due \subseteq Range(ids)
    BY <1>2 DEF Range, Trials
  <2>2. ASSUME reviewed = "yes", NEW t \in Trials, ids[t] \in listing'.due
        PROVE  t \in DOMAIN notes
    <3>1. PICK u \in Trials : Passes(u, reviewed) /\ ids[u] = ids[t]
      BY <1>2, <2>2
    <3>2. u = t
      BY <3>1, IdMapShape DEF CatalogueInv, Apart, IsInjective, Trials
    <3> QED BY <2>2, <3>1, <3>2 DEF Passes
  <2>3. Range(ids)' = Range(ids)
    BY <1>3 DEF Range
  <2> QED BY <1>2, <1>3, <2>1, <2>2, <2>3 DEF DueTyped, Trials
<1>10. Range(listing'.shown) \subseteq Range(ids')
  BY <1>2, <1>4
<1>11. \A i \in DOMAIN listing'.shown : listing'.shown[i] <= listing'.cursor
  BY <1>2, <1>4
<1>12. Range(listing.shown)' = Range(listing'.shown) /\ Range(ids)' = Range(ids')
  BY DEF Range
<1> QED BY <1>2, <1>4, <1>7, <1>8, <1>9, <1>10, <1>11, <1>12 DEF ListingInv

\* Notes stay as well.
LEMMA NotesStay ==
  ASSUME AnnotationInv, [Next]_vars
  PROVE  DOMAIN notes \subseteq DOMAIN notes'
<1>1. CASE \E r \in Reviewers : CommitAnnotation(r)
  BY <1>1, CommitOfNote
<1>2. CASE ~\E r \in Reviewers : CommitAnnotation(r)
  <2>1. notes' = notes
    BY <1>2 DEF Next, vars, Reviewing, Look, CreateAnnotation, UpdateAnnotation, FailToCommit,
                StartListing, NextPage
  <2> QED BY <2>1
<1> QED BY <1>1, <1>2

\* What is inserted or annotated meanwhile makes nothing due pass that did not.
LEMMA ListingKept ==
  ASSUME CatalogueInv, CatalogueInv', AnnotationInv, ListingInv, [Next]_vars, listing' = listing
  PROVE  ListingInv'
<1>1. /\ DOMAIN ids \subseteq DOMAIN ids' /\ \A t \in DOMAIN ids : ids'[t] = ids[t]
      /\ DOMAIN notes \subseteq DOMAIN notes'
  BY StepOfCatalogue, CommittedStay, NotesStay
<1>2. Range(ids) \subseteq Range(ids')
  BY <1>1 DEF Range
<1>3. ASSUME NEW t \in DOMAIN ids', ids'[t] \in listing.due
      PROVE  t \in DOMAIN ids /\ ids[t] = ids'[t]
  <2>1. PICK u \in DOMAIN ids : ids[u] = ids'[t]
    BY <1>3 DEF ListingInv, DueTyped, Range
  <2>2. IsInjective(ids')
    <3>1. (ids \in IdMaps)'
      BY DEF CatalogueInv, Apart
    <3>2. (ids \in IdMaps => IsInjective(ids))'
      BY DEF IdMaps
    <3> QED BY <3>1, <3>2 DEF IsInjective
  <2>3. u = t
    BY <1>1, <2>1, <2>2 DEF IsInjective
  <2> QED BY <2>1, <2>3
<1>4. Range(ids)' = Range(ids') /\ Range(listing.shown)' = Range(listing.shown) /\ Ids' = Ids
  BY DEF Range, Ids
<1>5. DueTyped'
  <2>1. (listing.due \subseteq Range(ids))'
    BY <1>2, <1>4 DEF ListingInv, DueTyped
  <2>2. ASSUME listing.reviewed = "yes", NEW t \in DOMAIN ids', ids'[t] \in listing.due
        PROVE  t \in DOMAIN notes'
    <3>1. t \in DOMAIN ids /\ ids[t] \in listing.due
      BY <1>3, <2>2
    <3> QED BY <1>1, <2>2, <3>1 DEF ListingInv, DueTyped, Trials
  <2> QED BY <2>1, <2>2 DEF DueTyped, Trials
<1>6. ShownSoFar'
  <2> SUFFICES ASSUME NEW t \in DOMAIN ids', ids'[t] \in listing.due, Passes(t, listing.reviewed)',
                      listing.at = "asking" => ids'[t] <= listing.cursor
               PROVE  ids'[t] \in Range(listing.shown)
    BY <1>4 DEF ShownSoFar, Trials
  <2>1. t \in DOMAIN ids /\ ids[t] = ids'[t]
    BY <1>3
  <2>2. Passes(t, listing.reviewed)
    <3>1. CASE listing.reviewed = "yes"
      BY <2>1, <3>1 DEF Passes, ListingInv, DueTyped, Trials
    <3>2. CASE listing.reviewed = "no"
      BY <1>1, <3>2 DEF Passes
    <3>3. CASE listing.reviewed \notin {"yes", "no"}
      BY <3>3 DEF Passes
    <3> QED BY <3>1, <3>2, <3>3
  <2> QED BY <2>1, <2>2 DEF ListingInv, ShownSoFar, Trials
<1>7. ShownRise'
  BY DEF ListingInv, ShownRise
<1> QED BY <1>2, <1>4, <1>5, <1>6, <1>7 DEF ListingInv

LEMMA SeqOfMore ==
  ASSUME NEW A, NEW B, A \subseteq B, NEW seq \in Seq(A)
  PROVE  seq \in Seq(B)
<1>1. Len(seq) \in Nat /\ seq \in [1..Len(seq) -> A]
  BY LenProperties
<1>2. seq \in [1..Len(seq) -> B]
  BY <1>1
<1> QED BY <1>1, <1>2

LEMMA NextPageKeeps ==
  ASSUME CatalogueInv, ListingInv, NextPage
  PROVE  ListingInv'
<1>1. PICK size \in 1..MaxPage :
        LET page == PageOf(listing.reviewed, listing.cursor, size)
            next == NextCursor(page, size)
        IN  listing' = [at |-> IF next = 0 THEN "ended" ELSE "asking",
                        reviewed |-> listing.reviewed, due |-> listing.due,
                        shown |-> listing.shown \o SubSeq(page, 1, Lesser(Len(page), size)),
                        cursor |-> next]
  BY DEF NextPage
<1> DEFINE c == listing.cursor
           old == listing.shown
           S == Found(listing.reviewed, c)
           n == Cardinality(S)
           f == Ascending(S)
           page == PageOf(listing.reviewed, c, size)
           part == SubSeq(page, 1, Lesser(Len(page), size))
           m == Lesser(n, size)
           next == NextCursor(page, size)
<1>2. /\ listing.at = "asking" /\ ids' = ids /\ notes' = notes
      /\ listing'.reviewed = listing.reviewed /\ listing'.due = listing.due
      /\ listing'.shown = old \o part /\ listing'.cursor = next
      /\ listing'.at = IF next = 0 THEN "ended" ELSE "asking"
  BY <1>1 DEF NextPage, catalogue
<1>3. size \in Nat \ {0} /\ c \in Nat
  BY ReviewAssumption DEF ListingInv
<1>4. S \in SUBSET Ids /\ S \in SUBSET Int /\ IsFiniteSet(S)
  BY <1>3, FoundIsFinite
<1>5. /\ n \in Nat /\ f \in [1..n -> S]
      /\ \A i, j \in 1..n : i < j => f[i] < f[j]
      /\ \A x \in S : \E i \in 1..n : f[i] = x
  <2> HIDE DEF S
  <2> QED BY <1>4, Ascends
<1>6. /\ part \in Seq(S) /\ Len(part) = m /\ \A i \in 1..m : part[i] = f[i]
      /\ next = IF n > size THEN f[size] ELSE 0
  <2>1. page = SubSeq(f, 1, Lesser(Len(f), size + 1))
    BY DEF PageOf
  <2> DEFINE made == SubSeq(f, 1, Lesser(Len(f), size + 1))
             rest == SubSeq(made, 1, Lesser(Len(made), size))
  <2>2. n \in Nat /\ size \in Nat \ {0} /\ f \in [1..n -> S]
    BY <1>3, <1>5
  <2> HIDE DEF n, f, page, S
  <2>3. /\ rest \in Seq(S) /\ Len(rest) = m /\ \A i \in 1..m : rest[i] = f[i]
        /\ NextCursor(made, size) = IF n > size THEN f[size] ELSE 0
    BY <2>2, PageShows
  <2>4. part = rest /\ next = NextCursor(made, size)
    BY <2>1
  <2> QED BY <2>3, <2>4
<1>7. \A x \in S : x > c /\ x \in Range(ids)
  BY DEF Found, After, Range, Trials
<1>8. /\ old \in Seq(Ids) /\ DOMAIN old = 1..Len(old) /\ Len(old) \in Nat
      /\ \A i, j \in 1..Len(old) : i < j => old[i] < old[j]
      /\ \A i \in 1..Len(old) : old[i] <= c /\ old[i] \in Range(ids) /\ old[i] \in Int
  <2>1. old \in Seq(Ids)
    BY DEF ListingInv
  <2>2. DOMAIN old = 1..Len(old) /\ Len(old) \in Nat
    BY <2>1, LenProperties
  <2>3. \A i \in 1..Len(old) : old[i] \in Int
    BY <2>1, <2>2, ElementOfSeq, IdsAreInts
  <2>4. \A i \in 1..Len(old) : old[i] \in Range(ids)
    BY <2>2 DEF ListingInv, Range
  <2> QED BY <1>2, <2>1, <2>2, <2>3, <2>4 DEF ListingInv, ShownRise
<1>9. m \in Nat /\ m <= n /\ m <= size /\ (n > size => m = size) /\ (n <= size => m = n)
  BY <1>3, <1>5 DEF Lesser
<1> DEFINE new == old \o part
           k == Len(old)
<1>10. \A i \in 1..m : f[i] \in S /\ f[i] \in Int
  BY <1>4, <1>5, <1>9
<1> HIDE DEF S, n, f, page, part, m, next, c, old
<1>11. /\ new \in Seq(Ids) /\ Len(new) = k + m /\ DOMAIN new = 1..(k + m)
       /\ \A i \in 1..k : new[i] = old[i]
       /\ \A i \in 1..m : new[k + i] = f[i]
  <2>1. part \in Seq(Ids)
    BY <1>4, <1>6, SeqOfMore
  <2>2. /\ new \in Seq(Ids) /\ Len(new) = Len(old) + Len(part)
        /\ \A i \in 1..(Len(old) + Len(part)) :
             new[i] = IF i <= Len(old) THEN old[i] ELSE part[i - Len(old)]
    BY <1>8, <2>1, ConcatProperties
  <2>3. Len(new) = k + m /\ DOMAIN new = 1..(k + m)
    BY <1>6, <2>2, LenProperties
  <2>4. \A i \in 1..k : new[i] = old[i]
    BY <1>6, <1>8, <1>9, <2>2
  <2>5. ASSUME NEW i \in 1..m PROVE new[k + i] = f[i]
    <3>1. k + i \in 1..(k + m) /\ ~(k + i <= k) /\ (k + i) - k = i
      BY <1>8, <1>9
    <3>2. new[k + i] = part[(k + i) - k]
      BY <1>6, <2>2, <3>1
    <3> QED BY <1>6, <3>1, <3>2
  <2> QED BY <2>2, <2>3, <2>4, <2>5
<1>12. \A i \in 1..(k + m) : i \in 1..k \/ (i - k \in 1..m /\ k + (i - k) = i)
  BY <1>8, <1>9
<1> HIDE DEF new, k
<1>13. \A i \in 1..(k + m) : new[i] \in Range(ids)
  BY <1>7, <1>8, <1>10, <1>11, <1>12 DEF k
<1>14. ASSUME NEW i \in 1..(k + m), NEW j \in 1..(k + m), i < j
       PROVE  new[i] < new[j]
  <2>1. k \in Nat /\ c \in Int
    BY <1>3, <1>8 DEF k
  <2>2. CASE j \in 1..k
    <3>1. i \in 1..k
      BY <1>14, <2>1, <2>2
    <3> QED BY <1>8, <1>11, <1>14, <2>2, <3>1 DEF k
  <2>3. CASE i \in 1..k /\ j \notin 1..k
    <3>1. j - k \in 1..m /\ new[j] = f[j - k]
      BY <1>11, <1>12, <2>3
    <3>2. new[j] > c /\ new[j] \in Int
      BY <1>7, <1>10, <3>1
    <3>3. new[i] <= c /\ new[i] \in Int
      BY <1>8, <1>11, <2>3 DEF k
    <3> QED BY <2>1, <3>2, <3>3
  <2>4. CASE i \notin 1..k /\ j \notin 1..k
    <3>1. i - k \in 1..m /\ new[i] = f[i - k] /\ j - k \in 1..m /\ new[j] = f[j - k]
      BY <1>11, <1>12, <2>4
    <3>2. i - k \in 1..n /\ j - k \in 1..n /\ i - k < j - k
      BY <1>5, <1>9, <1>14, <2>1, <3>1
    <3> QED BY <1>5, <3>1, <3>2
  <2> QED BY <2>2, <2>3, <2>4
<1>15. next \in Nat
  <2>1. \A x \in Int : x > c => x \in Nat
    BY <1>3
  <2>2. n > size => size \in 1..m
    BY <1>3, <1>9
  <2> QED BY <1>6, <1>7, <1>10, <2>1, <2>2
<1>16. ASSUME next # 0, NEW i \in 1..(k + m) PROVE new[i] <= next
  <2>1. n > size /\ m = size /\ next = f[size] /\ size \in 1..m /\ size \in 1..n
    BY <1>3, <1>6, <1>9, <1>5, <1>16
  <2>2. next \in Int /\ c \in Int /\ next > c
    BY <1>3, <1>7, <1>10, <2>1
  <2>3. CASE i \in 1..k
    <3>1. new[i] <= c /\ new[i] \in Int
      BY <1>8, <1>11, <2>3 DEF k
    <3> QED BY <2>2, <3>1
  <2>4. CASE i \notin 1..k
    <3>1. i - k \in 1..m /\ new[i] = f[i - k]
      BY <1>11, <1>12, <2>4
    <3>2. i - k \in 1..n /\ (i - k = size \/ i - k < size)
      BY <1>3, <1>5, <1>9, <2>1, <3>1
    <3>3. f[i - k] \in Int
      BY <1>10, <3>1
    <3>4. i - k < size => f[i - k] < f[size]
      BY <1>5, <2>1, <3>2
    <3> QED BY <2>1, <2>2, <3>1, <3>2, <3>3, <3>4
  <2> QED BY <2>3, <2>4
<1>17. ASSUME NEW t \in Trials, ids[t] \in listing.due, Passes(t, listing.reviewed),
              next # 0 => ids[t] <= next
       PROVE  \E i \in 1..(k + m) : new[i] = ids[t]
  <2>1. ids[t] \in Int /\ c \in Int /\ k \in Nat
    BY <1>3, <1>8, IdMapShape, IdsAreInts DEF CatalogueInv, Apart, Trials, k
  <2>2. CASE ids[t] <= c
    <3>1. ids[t] \in Range(old)
      BY <1>2, <1>17, <2>2 DEF ListingInv, ShownSoFar, old, c
    <3>2. PICK i \in 1..k : old[i] = ids[t]
      BY <1>8, <3>1 DEF Range, k
    <3>3. i \in 1..(k + m)
      BY <1>9, <2>1
    <3> QED BY <1>11, <3>2, <3>3
  <2>3. CASE ids[t] > c
    <3>1. ids[t] \in S
      BY <1>17, <2>3 DEF S, Found, After
    <3>2. PICK i \in 1..n : f[i] = ids[t]
      BY <1>5, <3>1
    <3>3. i <= m
      <4>1. CASE next = 0
        <5>1. ~(n > size)
          <6>1. n > size => f[size] \in S /\ f[size] \in Int /\ f[size] = 0
            BY <1>3, <1>6, <1>9, <1>10, <4>1
          <6>2. 0 <= c
            BY <1>3
          <6> QED BY <1>3, <1>7, <6>1, <6>2, <2>1
        <5> QED BY <1>3, <1>5, <1>9, <5>1
      <4>2. CASE next # 0
        <5>1. n > size /\ m = size /\ next = f[size] /\ size \in 1..n
          BY <1>3, <1>5, <1>6, <1>9, <4>2
        <5>2. f[i] <= f[size] /\ f[i] \in Int /\ f[size] \in Int
          BY <1>10, <1>17, <2>1, <3>2, <4>2, <5>1, <1>15
        <5>3. ~(size < i)
          <6>1. size < i => f[size] < f[i]
            BY <1>5, <3>2, <5>1
          <6> QED BY <5>2, <6>1
        <5> QED BY <1>3, <5>1, <5>3
      <4> QED BY <4>1, <4>2
    <3>4. i \in 1..m /\ k + i \in 1..(k + m)
      BY <1>5, <1>9, <2>1, <3>3
    <3> QED BY <1>11, <3>2, <3>4
  <2> QED BY <1>3, <2>1, <2>2, <2>3
<1>18. listing'.shown = new
  BY <1>2 DEF new
<1>19. Trials' = Trials /\ Range(ids)' = Range(ids) /\ Ids' = Ids
       /\ Range(listing.shown)' = Range(new)
       /\ \A t \in Trials : Passes(t, listing.reviewed)' <=> Passes(t, listing.reviewed)
  BY <1>2, <1>18 DEF Trials, Range, Ids, Passes
<1>20. DueTyped'
  BY <1>2, <1>19 DEF ListingInv, DueTyped
<1>21. ShownRise'
  BY <1>11, <1>14, <1>18 DEF ShownRise
<1>22. ShownSoFar'
  <2> SUFFICES ASSUME NEW t \in Trials, ids[t] \in listing.due, Passes(t, listing.reviewed),
                      listing'.at = "asking" => ids[t] <= listing'.cursor
               PROVE  ids[t] \in Range(new)
    BY <1>2, <1>19 DEF ShownSoFar
  <2>1. next # 0 => ids[t] <= next
    BY <1>2
  <2> QED BY <1>11, <1>17, <2>1 DEF Range
<1>23. Range(new) \subseteq Range(ids)
  BY <1>11, <1>13 DEF Range
<1>24. listing'.at = "asking" => \A i \in DOMAIN listing'.shown : listing'.shown[i] <= listing'.cursor
  BY <1>2, <1>11, <1>16, <1>18
<1> QED BY <1>2, <1>11, <1>15, <1>18, <1>19, <1>20, <1>21, <1>22, <1>23, <1>24 DEF ListingInv

LEMMA ListingStep ==
  ASSUME CatalogueInv, CatalogueInv', AnnotationInv, ListingInv, [Next]_vars
  PROVE  ListingInv'
<1>1. StartListing \/ NextPage \/ listing' = listing
  BY DEF Next, vars, Reviewing, Look, CreateAnnotation, UpdateAnnotation, CommitAnnotation,
         FailToCommit
<1> QED BY <1>1, StartListingKeeps, NextPageKeeps, ListingKept

\* What a listing has shown when its cursor has come to a trial (api pagination.py,
\* services/trials.py list_trials).
THEOREM ListingInvariant == Spec => []ListingInv
<1>1. Init => ListingInv
  BY ListingBegins
<1>2. CatalogueInv /\ CatalogueInv' /\ AnnotationInv /\ ListingInv /\ [Next]_vars => ListingInv'
  BY ListingStep
<1> QED BY <1>1, <1>2, CatalogueInvariant, AnnotationInvariant, PTL DEF Spec

\* A listing shows no trial twice, and misses none that was there and passed its filter
\* from its beginning to its end (services/trials.py list_trials).
THEOREM ListingMissesNothing == Spec => []NothingMissed
<1>1. ListingInv => NothingMissed
  BY DEF ListingInv, ShownRise, ShownSoFar, NothingMissed
<1> QED BY <1>1, ListingInvariant, PTL

\* The types of the whole state; no two trials share an id (ids.py,
\* repositories/trials.py), and no listing shows one that is not there.
THEOREM ReviewTyped == Spec => []TypeOK
<1>1. CatalogueInv /\ AnnotationInv /\ ListingInv => TypeOK
  <2> SUFFICES ASSUME CatalogueInv, AnnotationInv, ListingInv PROVE TypeOK
    OBVIOUS
  <2>1. IsInjective(scenarios) /\ \A e \in Experiments : IsInjective(policies[e])
    BY DEF CatalogueInv, Posted
  <2>2. IsInjective(ids) /\ Range(ids) \subseteq Ids
    <3>1. ids \in IdMaps
      BY DEF CatalogueInv, Apart
    <3> QED BY <3>1, IdMapShape DEF Range
  <2>3. ASSUME NEW w \in Workers
        PROVE  Range(tx[w].new) \subseteq Ids /\ DOMAIN tx[w].new \cap DOMAIN ids = {}
    <3>1. \A t \in DOMAIN tx[w].new : tx[w].new[t] \in Ids
      BY IdMapShape DEF CatalogueInv, WorkersOpen
    <3>2. DOMAIN tx[w].new \cap DOMAIN ids = {}
      BY DEF CatalogueInv, Apart
    <3> QED BY <3>1, <3>2 DEF Range
  <2>4. \A t \in DOMAIN notes : t \in Trials /\ notes[t].revision \in 1..MaxRevision
    BY DEF AnnotationInv, NotesTyped
  <2>5. Range(listing.shown) \subseteq Range(ids)
    BY DEF ListingInv
  <2> QED BY <2>1, <2>2, <2>3, <2>4, <2>5 DEF TypeOK
<1> QED BY <1>1, CatalogueInvariant, AnnotationInvariant, ListingInvariant, PTL

-----------------------------------------------------------------------------
(* Geometry: an object covers no point beyond its corners.                 *)

LEMMA TimesBounded ==
  ASSUME NEW a \in Int, NEW u \in Int, NEW b \in Int, u <= b, -u <= b
  PROVE  (a >= 0 => a * u <= a * b) /\ (a < 0 => a * u <= -1 * a * b)
<1>1. CASE a >= 0
  BY <1>1
<1>2. CASE a < 0
  <2>1. (-a) * (-u) <= (-a) * b
    BY <1>2
  <2>2. (-a) * (-u) = a * u /\ (-a) * b = -1 * a * b
    OBVIOUS
  <2> QED BY <1>2, <2>1, <2>2
<1> QED BY <1>1, <1>2

LEMMA SquareCancels ==
  ASSUME NEW d \in Nat \ {0}, NEW x \in Int, NEW k \in Int, d * d * x <= d * (d * k)
  PROVE  x <= k
<1>1. SUFFICES ASSUME k + 1 <= x PROVE FALSE
  OBVIOUS
<1>2. d * (k + 1) <= d * x
  BY <1>1
<1>3. d * (k + 1) \in Int /\ d * x \in Int /\ d * k \in Int
  OBVIOUS
<1>4. d * (d * (k + 1)) <= d * (d * x)
  BY <1>2, <1>3
<1>5. d * (d * (k + 1)) = d * (d * k) + d * d /\ d * (d * x) = d * d * x /\ d * d > 0
  OBVIOUS
<1>6. d * (d * k) \in Int /\ d * d * x \in Int /\ d * d \in Int
  OBVIOUS
<1> QED BY <1>4, <1>5, <1>6

\* The farthest that a sum of turned sides reaches is a corner.
LEMMA CornerReaches ==
  ASSUME NEW d \in Nat \ {0}, NEW a \in Int, NEW b \in Int, NEW hx \in Nat, NEW hy \in Nat,
         NEW u \in Int, NEW v \in Int, u <= hx * d, -u <= hx * d, v <= hy * d, -v <= hy * d,
         NEW x \in Int, d * d * x = a * u + b * v
  PROVE  \E i, j \in {-1, 1} : \A k \in Int : d * k = i * hx * a + j * hy * b => x <= k
<1> DEFINE i == IF a >= 0 THEN 1 ELSE -1
           j == IF b >= 0 THEN 1 ELSE -1
<1>1. i \in {-1, 1} /\ j \in {-1, 1}
  OBVIOUS
<1>2. hx * d \in Int /\ hy * d \in Int
  OBVIOUS
<1>3. a * u <= i * a * (hx * d)
  BY <1>2, TimesBounded
<1>4. b * v <= j * b * (hy * d)
  BY <1>2, TimesBounded
<1> HIDE DEF i, j
<1>5. ASSUME NEW k \in Int, d * k = i * hx * a + j * hy * b
      PROVE  x <= k
  <2>1. i \in Int /\ j \in Int
    BY <1>1
  <2>2. d * (d * k) = d * (i * hx * a + j * hy * b)
    BY <1>5
  <2>3. d * (i * hx * a + j * hy * b) = i * a * (hx * d) + j * b * (hy * d)
    BY <2>1
  <2>4. a * u \in Int /\ b * v \in Int /\ i * a * (hx * d) \in Int /\ j * b * (hy * d) \in Int
    BY <2>1
  <2>5. a * u + b * v <= i * a * (hx * d) + j * b * (hy * d)
    BY <1>3, <1>4, <2>4
  <2>6. d * d * x <= d * (d * k)
    BY <2>2, <2>3, <2>5
  <2> QED BY <2>6, SquareCancels
<1> QED BY <1>1, <1>5

LEMMA CornerReachesBack ==
  ASSUME NEW d \in Nat \ {0}, NEW a \in Int, NEW b \in Int, NEW hx \in Nat, NEW hy \in Nat,
         NEW u \in Int, NEW v \in Int, u <= hx * d, -u <= hx * d, v <= hy * d, -v <= hy * d,
         NEW x \in Int, d * d * x = a * u + b * v
  PROVE  \E i, j \in {-1, 1} : \A k \in Int : d * k = i * hx * a + j * hy * b => k <= x
<1>1. d * d * (-x) = (-a) * u + (-b) * v
  <2>1. d * d * (-x) = -(d * d * x) /\ (-a) * u = -(a * u) /\ (-b) * v = -(b * v)
    OBVIOUS
  <2>2. a * u \in Int /\ b * v \in Int /\ d * d * x \in Int
    OBVIOUS
  <2> QED BY <2>1, <2>2
<1>2. -x \in Int /\ -a \in Int /\ -b \in Int
  OBVIOUS
<1>3. PICK i \in {-1, 1}, j \in {-1, 1} :
        \A k \in Int : d * k = i * hx * (-a) + j * hy * (-b) => -x <= k
  BY <1>1, <1>2, CornerReaches
<1>4. ASSUME NEW k \in Int, d * k = i * hx * a + j * hy * b PROVE k <= x
  <2>1. d * (-k) = -(d * k) /\ i * hx * (-a) = -(i * hx * a) /\ j * hy * (-b) = -(j * hy * b)
    OBVIOUS
  <2>2. d * k \in Int /\ i * hx * a \in Int /\ j * hy * b \in Int /\ -k \in Int
    OBVIOUS
  <2>3. d * (-k) = i * hx * (-a) + j * hy * (-b)
    BY <1>4, <2>1, <2>2
  <2>4. -x <= -k
    BY <1>3, <2>2, <2>3
  <2> QED BY <2>4
<1> QED BY <1>4

LEMMA WholeQuotient ==
  ASSUME NEW n \in Int, NEW d \in Nat \ {0}, n % d = 0
  PROVE  n \div d \in Int /\ d * (n \div d) = n
OBVIOUS

LEMMA GeometryOfInputs ==
  ASSUME NEW obj \in Objects, NEW at \in Positions, NEW yaw \in Yaws
  PROVE  /\ obj.hx \in Nat /\ obj.hy \in Nat /\ at[1] \in Int /\ at[2] \in Int
         /\ yaw[1] \in Int /\ yaw[2] \in Int /\ yaw[3] \in Nat \ {0}
         /\ yaw[1] * yaw[1] + yaw[2] * yaw[2] = yaw[3] * yaw[3]
<1>1. at \in Int \X Int
  BY GeometryAssumption
<1> QED BY <1>1, GeometryAssumption

LEMMA BoxesAreInts ==
  ASSUME NEW box \in Bins \cup {Pickup}
  PROVE  box.x1 \in Int /\ box.x2 \in Int /\ box.y1 \in Int /\ box.y2 \in Int
BY GeometryAssumption

\* Where a corner is.
LEMMA CornerAt ==
  ASSUME NEW obj \in Objects, NEW at \in Positions, NEW yaw \in Yaws, obj.shape # "cylinder",
         NEW i \in {-1, 1}, NEW j \in {-1, 1}
  PROVE  LET p == Turned(at, i * obj.hx, j * obj.hy, yaw)
         IN  /\ p \in Corners(obj, at, yaw) /\ p[1] \in Int /\ p[2] \in Int
             /\ yaw[3] * (p[1] - at[1]) = i * obj.hx * yaw[1] - j * obj.hy * yaw[2]
             /\ yaw[3] * (p[2] - at[2]) = i * obj.hx * yaw[2] + j * obj.hy * yaw[1]
<1> DEFINE p == Turned(at, i * obj.hx, j * obj.hy, yaw)
           m == i * obj.hx * yaw[1] - j * obj.hy * yaw[2]
           n == i * obj.hx * yaw[2] + j * obj.hy * yaw[1]
           d == yaw[3]
<1>1. /\ obj.hx \in Nat /\ obj.hy \in Nat /\ at[1] \in Int /\ at[2] \in Int
      /\ yaw[1] \in Int /\ yaw[2] \in Int /\ d \in Nat \ {0}
  BY GeometryOfInputs
<1>2. m \in Int /\ n \in Int
  BY <1>1
<1>3. m % d = 0 /\ n % d = 0
  BY GeometryAssumption
<1>4. p = <<at[1] + m \div d, at[2] + n \div d>>
  BY DEF Turned
<1>5. p \in Corners(obj, at, yaw)
  BY DEF Corners
<1> HIDE DEF m, n, d, p
<1>6. m \div d \in Int /\ d * (m \div d) = m
  BY <1>1, <1>2, <1>3, WholeQuotient
<1>7. n \div d \in Int /\ d * (n \div d) = n
  BY <1>1, <1>2, <1>3, WholeQuotient
<1>8. p[1] = at[1] + m \div d /\ p[2] = at[2] + n \div d
  BY <1>4
<1>9. p[1] - at[1] = m \div d /\ p[2] - at[2] = n \div d
  BY <1>1, <1>6, <1>7, <1>8
<1> QED BY <1>1, <1>5, <1>6, <1>7, <1>8, <1>9 DEF p, m, n, d

\* A point that a box covers is between corners of it, in both directions.
LEMMA CoveredIsBetween ==
  ASSUME NEW obj \in Objects, NEW at \in Positions, NEW yaw \in Yaws, obj.shape # "cylinder",
         NEW x \in Int, NEW y \in Int, Covers(obj, at, yaw, <<x, y>>)
  PROVE  /\ \E p \in Corners(obj, at, yaw) : x <= p[1]
         /\ \E p \in Corners(obj, at, yaw) : p[1] <= x
         /\ \E p \in Corners(obj, at, yaw) : y <= p[2]
         /\ \E p \in Corners(obj, at, yaw) : p[2] <= y
<1> DEFINE c == yaw[1]
           s == yaw[2]
           d == yaw[3]
           hx == obj.hx
           hy == obj.hy
           dx == x - at[1]
           dy == y - at[2]
           u == dx * c + dy * s
           v == dy * c - dx * s
           P(i, j) == Turned(at, i * hx, j * hy, yaw)
<1>1. /\ hx \in Nat /\ hy \in Nat /\ at[1] \in Int /\ at[2] \in Int
      /\ c \in Int /\ s \in Int /\ d \in Nat \ {0} /\ c * c + s * s = d * d
  BY GeometryOfInputs
<1>2. dx \in Int /\ dy \in Int
  BY <1>1
<1>3. u <= hx * d /\ -u <= hx * d /\ v <= hy * d /\ -v <= hy * d
  BY DEF Covers
<1>4. \A i, j \in {-1, 1} :
        /\ P(i, j) \in Corners(obj, at, yaw) /\ P(i, j)[1] \in Int /\ P(i, j)[2] \in Int
        /\ d * (P(i, j)[1] - at[1]) = i * hx * c - j * hy * s
        /\ d * (P(i, j)[2] - at[2]) = i * hx * s + j * hy * c
  BY CornerAt
<1> HIDE DEF c, s, d, hx, hy, dx, dy, P
<1>5. u \in Int /\ v \in Int /\ -s \in Int
  BY <1>1, <1>2
<1>6. d * d * dx = c * u + (-s) * v
  <2>1. c * u + (-s) * v = (c * c + s * s) * dx
    BY <1>1, <1>2
  <2> QED BY <1>1, <2>1
<1>7. d * d * dy = s * u + c * v
  <2>1. s * u + c * v = (c * c + s * s) * dy
    BY <1>1, <1>2
  <2> QED BY <1>1, <2>1
<1> HIDE DEF u, v
<1>8. \A i, j \in {-1, 1} :
        /\ P(i, j)[1] - at[1] \in Int /\ P(i, j)[2] - at[2] \in Int
        /\ d * (P(i, j)[1] - at[1]) = i * hx * c + j * hy * (-s)
        /\ d * (P(i, j)[2] - at[2]) = i * hx * s + j * hy * c
  <2> SUFFICES ASSUME NEW i \in {-1, 1}, NEW j \in {-1, 1}
               PROVE  /\ P(i, j)[1] - at[1] \in Int /\ P(i, j)[2] - at[2] \in Int
                      /\ d * (P(i, j)[1] - at[1]) = i * hx * c + j * hy * (-s)
                      /\ d * (P(i, j)[2] - at[2]) = i * hx * s + j * hy * c
    OBVIOUS
  <2>1. i * hx * c - j * hy * s = i * hx * c + j * hy * (-s)
    BY <1>1
  <2>2. /\ P(i, j)[1] \in Int /\ P(i, j)[2] \in Int
        /\ d * (P(i, j)[1] - at[1]) = i * hx * c - j * hy * s
        /\ d * (P(i, j)[2] - at[2]) = i * hx * s + j * hy * c
    BY <1>4
  <2>3. P(i, j)[1] - at[1] \in Int /\ P(i, j)[2] - at[2] \in Int
    BY <1>1, <2>2
  <2>4. d * (P(i, j)[1] - at[1]) = i * hx * c + j * hy * (-s)
    BY <2>1, <2>2
  <2> QED BY <2>2, <2>3, <2>4
<1>9. \E p \in Corners(obj, at, yaw) : x <= p[1]
  <2>1. PICK i \in {-1, 1}, j \in {-1, 1} :
          \A k \in Int : d * k = i * hx * c + j * hy * (-s) => dx <= k
    BY <1>1, <1>2, <1>3, <1>5, <1>6, CornerReaches
  <2>2. dx <= P(i, j)[1] - at[1]
    BY <1>8, <2>1
  <2>3. x <= P(i, j)[1]
    BY <1>1, <1>4, <2>2 DEF dx
  <2> QED BY <1>4, <2>3
<1>10. \E p \in Corners(obj, at, yaw) : p[1] <= x
  <2>1. PICK i \in {-1, 1}, j \in {-1, 1} :
          \A k \in Int : d * k = i * hx * c + j * hy * (-s) => k <= dx
    BY <1>1, <1>2, <1>3, <1>5, <1>6, CornerReachesBack
  <2>2. P(i, j)[1] - at[1] <= dx
    BY <1>8, <2>1
  <2>3. P(i, j)[1] <= x
    BY <1>1, <1>4, <2>2 DEF dx
  <2> QED BY <1>4, <2>3
<1>11. \E p \in Corners(obj, at, yaw) : y <= p[2]
  <2>1. PICK i \in {-1, 1}, j \in {-1, 1} :
          \A k \in Int : d * k = i * hx * s + j * hy * c => dy <= k
    BY <1>1, <1>2, <1>3, <1>5, <1>7, CornerReaches
  <2>2. dy <= P(i, j)[2] - at[2]
    BY <1>8, <2>1
  <2>3. y <= P(i, j)[2]
    BY <1>1, <1>4, <2>2 DEF dy
  <2> QED BY <1>4, <2>3
<1>12. \E p \in Corners(obj, at, yaw) : p[2] <= y
  <2>1. PICK i \in {-1, 1}, j \in {-1, 1} :
          \A k \in Int : d * k = i * hx * s + j * hy * c => k <= dy
    BY <1>1, <1>2, <1>3, <1>5, <1>7, CornerReachesBack
  <2>2. P(i, j)[2] - at[2] <= dy
    BY <1>8, <2>1
  <2>3. P(i, j)[2] <= y
    BY <1>1, <1>4, <2>2 DEF dy
  <2> QED BY <1>4, <2>3
<1> QED BY <1>9, <1>10, <1>11, <1>12

LEMMA CornersAreInts ==
  ASSUME NEW obj \in Objects, NEW at \in Positions, NEW yaw \in Yaws, obj.shape # "cylinder",
         NEW p \in Corners(obj, at, yaw)
  PROVE  p[1] \in Int /\ p[2] \in Int
<1>1. PICK i \in {-1, 1}, j \in {-1, 1} : p = Turned(at, i * obj.hx, j * obj.hy, yaw)
  BY DEF Corners
<1> QED BY <1>1, CornerAt

LEMMA FourHaveBounds ==
  ASSUME NEW a \in Int, NEW b \in Int, NEW c \in Int, NEW d \in Int,
         NEW S, S = {a, b, c, d}
  PROVE  /\ Max(S) \in S /\ \A x \in S : x <= Max(S)
         /\ Min(S) \in S /\ \A x \in S : Min(S) <= x
<1>1. \E x \in S : \A y \in S : x >= y
  OBVIOUS
<1>2. \E x \in S : \A y \in S : x =< y
  OBVIOUS
<1>3. S \subseteq Int
  OBVIOUS
<1>4. Max(S) \in S /\ \A y \in S : Max(S) >= y
  BY <1>1 DEF Max
<1>5. Min(S) \in S /\ \A y \in S : Min(S) =< y
  BY <1>2 DEF Min
<1>6. \A y \in S : y <= Max(S)
  BY <1>3, <1>4
<1> QED BY <1>4, <1>5, <1>6

LEMMA BoxOfCorners ==
  ASSUME NEW obj \in Objects, NEW at \in Positions, NEW yaw \in Yaws, obj.shape # "cylinder"
  PROVE  LET box == BoxOf(Corners(obj, at, yaw))
         IN  /\ box.x1 \in Int /\ box.x2 \in Int /\ box.y1 \in Int /\ box.y2 \in Int
             /\ \A p \in Corners(obj, at, yaw) :
                  box.x1 <= p[1] /\ p[1] <= box.x2 /\ box.y1 <= p[2] /\ p[2] <= box.y2
<1> DEFINE C == Corners(obj, at, yaw)
           P(i, j) == Turned(at, i * obj.hx, j * obj.hy, yaw)
           p1 == P(-1, -1)
           p2 == P(-1, 1)
           p3 == P(1, -1)
           p4 == P(1, 1)
           X == {p[1] : p \in C}
           Y == {p[2] : p \in C}
<1>1. C = {P(i, j) : i, j \in {-1, 1}}
  BY DEF Corners
<1>2. C = {p1, p2, p3, p4}
  <2> HIDE DEF P, C
  <2> QED BY <1>1
<1>3. \A p \in C : p[1] \in Int /\ p[2] \in Int
  BY CornersAreInts
<1>4. /\ BoxOf(C).x1 = Min(X) /\ BoxOf(C).x2 = Max(X)
      /\ BoxOf(C).y1 = Min(Y) /\ BoxOf(C).y2 = Max(Y)
  BY DEF BoxOf
<1> HIDE DEF C, p1, p2, p3, p4
<1>5. X = {p1[1], p2[1], p3[1], p4[1]} /\ Y = {p1[2], p2[2], p3[2], p4[2]}
  BY <1>2
<1>6. /\ p1[1] \in Int /\ p2[1] \in Int /\ p3[1] \in Int /\ p4[1] \in Int
      /\ p1[2] \in Int /\ p2[2] \in Int /\ p3[2] \in Int /\ p4[2] \in Int
  BY <1>2, <1>3
<1>7. X \subseteq Int /\ Y \subseteq Int /\ \A p \in C : p[1] \in X /\ p[2] \in Y
  BY <1>3
<1> HIDE DEF X, Y
<1>8. /\ Max(X) \in X /\ \A x \in X : x <= Max(X)
      /\ Min(X) \in X /\ \A x \in X : Min(X) <= x
  BY <1>5, <1>6, FourHaveBounds
<1>9. /\ Max(Y) \in Y /\ \A y \in Y : y <= Max(Y)
      /\ Min(Y) \in Y /\ \A y \in Y : Min(Y) <= y
  BY <1>5, <1>6, FourHaveBounds
<1> QED BY <1>4, <1>7, <1>8, <1>9 DEF C

LEMMA CoveredOfAround ==
  ASSUME NEW obj \in Objects, NEW at \in Positions, NEW p \in Around(obj, at)
  PROVE  p = <<p[1], p[2]>> /\ p[1] \in Int /\ p[2] \in Int
BY DEF Around

LEMMA BoxStandsClear ==
  ASSUME NEW obj \in Objects, NEW at \in Positions, NEW yaw \in Yaws, obj.shape # "cylinder",
         PlacementIsValid(obj, at, yaw)
  PROVE  StandsClear(obj, at, yaw)
<1> DEFINE C == Corners(obj, at, yaw)
<1> SUFFICES ASSUME NEW p \in Around(obj, at), Covers(obj, at, yaw, p)
             PROVE  PointInBox(p, Pickup) /\ \A bin \in Bins : ~PointInBox(p, bin)
  BY DEF StandsClear
<1>1. p = <<p[1], p[2]>> /\ p[1] \in Int /\ p[2] \in Int
  BY CoveredOfAround
<1>2. Covers(obj, at, yaw, <<p[1], p[2]>>)
  BY <1>1
<1>3. /\ \E q \in C : p[1] <= q[1]
      /\ \E q \in C : q[1] <= p[1]
      /\ \E q \in C : p[2] <= q[2]
      /\ \E q \in C : q[2] <= p[2]
  BY <1>1, <1>2, CoveredIsBetween
<1>4. \A q \in C : q[1] \in Int /\ q[2] \in Int
  BY CornersAreInts
<1>5. PointInBox(p, Pickup)
  <2>1. \A q \in C : PointInBox(q, Pickup)
    BY DEF PlacementIsValid, ObjectInPickup
  <2>2. /\ Pickup.x1 \in Int /\ Pickup.x2 \in Int /\ Pickup.y1 \in Int /\ Pickup.y2 \in Int
    BY BoxesAreInts
  <2> HIDE DEF C
  <2>3. \A q \in C : /\ Pickup.x1 <= q[1] /\ q[1] <= Pickup.x2
                     /\ Pickup.y1 <= q[2] /\ q[2] <= Pickup.y2
    BY <2>1, <2>2 DEF PointInBox
  <2>4. p[1] \in Pickup.x1..Pickup.x2
    BY <1>1, <1>3, <1>4, <2>2, <2>3
  <2>5. p[2] \in Pickup.y1..Pickup.y2
    BY <1>1, <1>3, <1>4, <2>2, <2>3
  <2> QED BY <2>4, <2>5 DEF PointInBox
<1>6. ASSUME NEW bin \in Bins, PointInBox(p, bin) PROVE FALSE
  <2> DEFINE box == BoxOf(C)
  <2>1. ~BoxesMeet(box, bin)
    BY DEF PlacementIsValid, ObjectMeetsBins
  <2>2. /\ box.x1 \in Int /\ box.x2 \in Int /\ box.y1 \in Int /\ box.y2 \in Int
        /\ \A q \in C : box.x1 <= q[1] /\ q[1] <= box.x2 /\ box.y1 <= q[2] /\ q[2] <= box.y2
    BY BoxOfCorners
  <2>3. bin.x1 \in Int /\ bin.x2 \in Int /\ bin.y1 \in Int /\ bin.y2 \in Int
    BY BoxesAreInts
  <2> HIDE DEF box, C
  <2>4. box.x1 <= p[1] /\ p[1] <= box.x2 /\ box.y1 <= p[2] /\ p[2] <= box.y2
    BY <1>1, <1>3, <1>4, <2>2
  <2>5. bin.x1 <= p[1] /\ p[1] <= bin.x2 /\ bin.y1 <= p[2] /\ p[2] <= bin.y2
    BY <1>1, <1>6, <2>3 DEF PointInBox
  <2>6. ~(box.x2 < bin.x1 \/ box.x1 > bin.x2 \/ box.y2 < bin.y1 \/ box.y1 > bin.y2)
    BY <1>1, <2>2, <2>3, <2>4, <2>5
  <2> QED BY <2>1, <2>6 DEF BoxesMeet
<1> QED BY <1>5, <1>6

LEMMA SquareWithin ==
  ASSUME NEW x \in Int, NEW r \in Nat, x * x <= r * r
  PROVE  x <= r /\ -x <= r
<1>1. ASSUME NEW y \in Int, r + 1 <= y, y * y <= r * r PROVE FALSE
  <2>1. y * y >= (r + 1) * (r + 1)
    BY <1>1
  <2>2. (r + 1) * (r + 1) = r * r + 2 * r + 1 /\ r * r \in Int /\ y * y \in Int
    BY <1>1
  <2> QED BY <1>1, <2>1, <2>2
<1>2. (-x) * (-x) = x * x
  OBVIOUS
<1>3. ~(r + 1 <= x)
  BY <1>1
<1>4. ~(r + 1 <= -x)
  BY <1>1, <1>2
<1> QED BY <1>3, <1>4

\* No point of a range is nearer to v than the one that Nearest takes.
LEMMA NearestIsNear ==
  ASSUME NEW v \in Int, NEW low \in Int, NEW high \in Int, NEW x \in low..high
  PROVE  LET near == IF v < low THEN low ELSE IF v > high THEN high ELSE v
         IN  near \in Int /\ (v - near) * (v - near) <= (x - v) * (x - v)
<1> DEFINE near == IF v < low THEN low ELSE IF v > high THEN high ELSE v
<1>0. \A a, b \in Nat : a <= b => a * a <= b * b
  OBVIOUS
<1>1. x \in Int /\ low <= x /\ x <= high
  OBVIOUS
<1>2. CASE v < low
  <2>1. near = low /\ low - v \in Nat /\ x - v \in Nat /\ low - v <= x - v
    BY <1>1, <1>2
  <2>2. (low - v) * (low - v) <= (x - v) * (x - v)
    BY <1>0, <2>1
  <2>3. (v - low) * (v - low) = (low - v) * (low - v)
    OBVIOUS
  <2> QED BY <2>1, <2>2, <2>3
<1>3. CASE ~(v < low) /\ v > high
  <2>1. near = high /\ v - high \in Nat /\ v - x \in Nat /\ v - high <= v - x
    BY <1>1, <1>3
  <2>2. (v - high) * (v - high) <= (v - x) * (v - x)
    BY <1>0, <2>1
  <2>3. (v - x) * (v - x) = (x - v) * (x - v)
    BY <1>1
  <2> QED BY <2>1, <2>2, <2>3
<1>4. CASE ~(v < low) /\ ~(v > high)
  <2>1. near = v /\ (v - near) * (v - near) = 0
    BY <1>4
  <2>2. (x - v) * (x - v) >= 0
    BY <1>1
  <2> QED BY <2>1, <2>2
<1> QED BY <1>2, <1>3, <1>4

LEMMA CylinderStandsClear ==
  ASSUME NEW obj \in Objects, NEW at \in Positions, NEW yaw \in Yaws, obj.shape = "cylinder",
         PlacementIsValid(obj, at, yaw)
  PROVE  StandsClear(obj, at, yaw)
<1> DEFINE r == obj.hx
           x == at[1]
           y == at[2]
<1> SUFFICES ASSUME NEW p \in Around(obj, at), Covers(obj, at, yaw, p)
             PROVE  PointInBox(p, Pickup) /\ \A bin \in Bins : ~PointInBox(p, bin)
  BY DEF StandsClear
<1>1. p[1] \in Int /\ p[2] \in Int
  BY CoveredOfAround
<1>2. r \in Nat /\ x \in Int /\ y \in Int
  BY GeometryOfInputs
<1> DEFINE dx == p[1] - x
           dy == p[2] - y
<1>3. dx * dx + dy * dy <= r * r
  BY DEF Covers
<1>4. dx \in Int /\ dy \in Int
  BY <1>1, <1>2
<1>5. PointInBox(p, Pickup)
  <2>1. CircleInBox(at, r, Pickup)
    BY DEF PlacementIsValid, ObjectInPickup
  <2>2. /\ Pickup.x1 \in Int /\ Pickup.x2 \in Int /\ Pickup.y1 \in Int /\ Pickup.y2 \in Int
    BY BoxesAreInts
  <2>3. dx <= r /\ -dx <= r /\ dy <= r /\ -dy <= r
    <3> HIDE DEF dx, dy, r
    <3>1. dx * dx \in Nat /\ dy * dy \in Nat /\ r * r \in Nat
      BY <1>2, <1>4
    <3>2. dx * dx <= r * r /\ dy * dy <= r * r
      BY <1>3, <3>1
    <3> QED BY <1>2, <1>4, <3>2, SquareWithin
  <2>4. x - r >= Pickup.x1 /\ x + r <= Pickup.x2 /\ y - r >= Pickup.y1 /\ y + r <= Pickup.y2
    BY <2>1 DEF CircleInBox
  <2>5. p[1] \in Pickup.x1..Pickup.x2
    <3> HIDE DEF x, r
    <3> QED BY <1>1, <1>2, <2>2, <2>3, <2>4
  <2>6. p[2] \in Pickup.y1..Pickup.y2
    <3> HIDE DEF y, r
    <3> QED BY <1>1, <1>2, <2>2, <2>3, <2>4
  <2> QED BY <2>5, <2>6 DEF PointInBox
<1>6. ASSUME NEW bin \in Bins, PointInBox(p, bin) PROVE FALSE
  <2>1. ~CircleMeetsBox(at, r, bin)
    BY DEF PlacementIsValid, ObjectMeetsBins
  <2>2. bin.x1 \in Int /\ bin.x2 \in Int /\ bin.y1 \in Int /\ bin.y2 \in Int
    BY BoxesAreInts
  <2>3. p[1] \in bin.x1..bin.x2 /\ p[2] \in bin.y1..bin.y2
    BY <1>6 DEF PointInBox
  <2> DEFINE nx == IF x < bin.x1 THEN bin.x1 ELSE IF x > bin.x2 THEN bin.x2 ELSE x
             ny == IF y < bin.y1 THEN bin.y1 ELSE IF y > bin.y2 THEN bin.y2 ELSE y
  <2>4. nx \in Int /\ (x - nx) * (x - nx) <= dx * dx
    BY <1>2, <2>2, <2>3, NearestIsNear
  <2>5. ny \in Int /\ (y - ny) * (y - ny) <= dy * dy
    BY <1>2, <2>2, <2>3, NearestIsNear
  <2>6. ~((x - nx) * (x - nx) + (y - ny) * (y - ny) <= r * r)
    BY <2>1 DEF CircleMeetsBox
  <2> HIDE DEF nx, ny, dx, dy, x, y, r
  <2>7. /\ (x - nx) * (x - nx) \in Int /\ (y - ny) * (y - ny) \in Int
        /\ dx * dx \in Int /\ dy * dy \in Int /\ r * r \in Int
    BY <1>2, <1>4, <2>4, <2>5
  <2> QED BY <1>3, <2>4, <2>5, <2>6, <2>7
<1> QED BY <1>5, <1>6

\* Every scenario that the generator makes stands wholly in the pickup region and on no
\* bin, whatever its shape and yaw (generator.py _placement_is_valid).
THEOREM PlacementsAreClear == Spec => []PlacedClear
<1>1. CatalogueInv => PlacedClear
  <2> SUFFICES ASSUME CatalogueInv, draft.place # NoPlace
               PROVE  StandsClear(draft.place.obj, draft.place.at, draft.place.yaw)
    BY DEF PlacedClear
  <2> DEFINE place == draft.place
  <2>1. place \in {NoPlace} \cup [obj : Objects, at : Positions, yaw : Yaws]
    BY DEF CatalogueInv, Drafted
  <2>2. place.obj \in Objects /\ place.at \in Positions /\ place.yaw \in Yaws
    BY <2>1
  <2>3. PlacementIsValid(place.obj, place.at, place.yaw)
    BY DEF CatalogueInv, Drafted
  <2> HIDE DEF place
  <2>4. StandsClear(place.obj, place.at, place.yaw)
    BY <2>2, <2>3, BoxStandsClear, CylinderStandsClear
  <2> QED BY <2>4 DEF place
<1> QED BY <1>1, CatalogueInvariant, PTL

-----------------------------------------------------------------------------
(* A policy's configuration.                                               *)

LEMMA ConfigShape ==
  ASSUME NEW config \in Configs
  PROVE  /\ config = [timeout |-> config.timeout, regrasps |-> config.regrasps,
                      stages |-> config.stages]
         /\ config.timeout \in Nat /\ config.timeout > 0
         /\ config.regrasps \in Nat /\ config.stages \in Nat
         /\ config # Refused
<1>1. config \in [timeout : Nat \ {0}, regrasps : Nat, stages : Nat]
  BY ConfigsAssumption
<1>2. config # Refused
  <2>1. "timeout" \in DOMAIN config /\ "timeout" \notin DOMAIN Refused
    BY <1>1 DEF Refused
  <2> QED BY <2>1
<1> QED BY <1>1, <1>2

LEMMA HalvesBack ==
  ASSUME NEW n \in Nat
  PROVE  Truncated(2 * n) = n
<1>1. 2 * n >= 0 /\ (2 * n) \div 2 = n
  OBVIOUS
<1> QED BY <1>1 DEF Truncated

\* What a configuration is stored as is read back as that configuration.
LEMMA ParsedBack ==
  ASSUME NEW config \in Configs
  PROVE  ParsedConfig(ConfigPayload(config)) = config
<1> DEFINE json == ConfigPayload(config)
<1>1. ConfigKeys \subseteq DOMAIN json
  BY DEF ConfigKeys, ConfigPayload
<1>2. /\ json.move_timeout_seconds = config.timeout
      /\ json.regrasp_limit = 2 * config.regrasps /\ json.approach_stage_count = 2 * config.stages
  BY DEF ConfigPayload
<1> HIDE DEF json
<1>3. /\ config = [timeout |-> config.timeout, regrasps |-> config.regrasps,
                   stages |-> config.stages]
      /\ config.timeout > 0 /\ config.regrasps \in Nat /\ config.stages \in Nat
  BY ConfigShape
<1>4. Truncated(json.regrasp_limit) = config.regrasps
      /\ Truncated(json.approach_stage_count) = config.stages
  BY <1>2, <1>3, HalvesBack
<1> DEFINE read == [timeout |-> json.move_timeout_seconds,
                    regrasps |-> Truncated(json.regrasp_limit),
                    stages |-> Truncated(json.approach_stage_count)]
<1>5. read = config
  BY <1>2, <1>3, <1>4
<1>6. read.timeout > 0 /\ read.regrasps >= 0 /\ read.stages >= 0
  <2> HIDE DEF read
  <2> QED BY <1>3, <1>5
<1>7. ParsedConfig(json) = read
  BY <1>1, <1>6 DEF ParsedConfig
<1> QED BY <1>5, <1>7 DEF json

\* A policy runs with the configuration that its stored checksum digests, and one that
\* its implementation allows, or not at all; one that is stored whole, or is the
\* default, is not refused (trial_execution.py resolve_policy_config).
THEOREM ConfigsAreAsStored == Spec => []ConfigAsStored
<1>1. ConfigAsStored
  <2> SUFFICES ASSUME NEW name \in Implementations \cup {"unknown"}, NEW checksum \in Configs,
                      NEW json \in Payloads \cup {ConfigPayload(checksum)}
               PROVE  LET config == PolicyConfigOf(name, json, checksum)
                      IN  /\ config # Refused =>
                               config = checksum /\ name # "unknown" /\ Allows(name, checksum)
                          /\ /\ name # "unknown" /\ Allows(name, checksum)
                             /\ json = ConfigPayload(checksum) \/ DefaultConfig(name) = checksum
                             => config = checksum
    BY DEF ConfigAsStored
  <2> DEFINE resolved == ResolvedConfig(name, json, checksum)
  <2>1. checksum # Refused
    BY ConfigShape
  <2>2. name # "unknown" <=> name \in Implementations
    BY DEF Implementations
  <2>3. resolved # Refused => resolved = checksum /\ name \in Implementations
    BY DEF ResolvedConfig
  <2>4. ASSUME name \in Implementations,
               json = ConfigPayload(checksum) \/ DefaultConfig(name) = checksum
        PROVE  resolved = checksum
    <3>1. ParsedConfig(json) = checksum \/ DefaultConfig(name) = checksum
      BY <2>4, ParsedBack
    <3> QED BY <2>4, <3>1 DEF ResolvedConfig
  <2>5. PolicyConfigOf(name, json, checksum) =
          IF resolved # Refused /\ Allows(name, resolved) THEN resolved ELSE Refused
    BY DEF PolicyConfigOf
  <2> HIDE DEF resolved
  <2> QED BY <2>1, <2>2, <2>3, <2>4, <2>5
<1> QED BY <1>1, PTL

-----------------------------------------------------------------------------
(* A drawn scenario, and the rows that tell of it.                         *)

LEMMA RoundedTwice ==
  ASSUME NEW v \in Int
  PROVE  Rounded(v) \in Int /\ Rounded(Rounded(v)) = Rounded(v)
<1> DEFINE half == Grain \div 2
           q == (v + half) \div Grain
<1>1. Grain \in Nat /\ Grain > 0
  BY GrainAssumption
<1>2. half \in Nat /\ half < Grain
  BY <1>1
<1>3. q \in Int
  BY <1>1, <1>2
<1>4. Rounded(v) = q * Grain
  BY DEF Rounded
<1> HIDE DEF half, q
<1>5. (q * Grain + half) \div Grain = q
  BY <1>1, <1>2, <1>3
<1>6. Rounded(q * Grain) = ((q * Grain + half) \div Grain) * Grain
  BY DEF Rounded, half
<1> QED BY <1>1, <1>3, <1>4, <1>5, <1>6

\* A scenario as it is once rounded.
ScenarioWith(object, at, yaw, mass, noise, bin) ==
  [object |-> object, pose |-> WorldPose(at, yaw), mass |-> mass, noise |-> noise,
   bin |-> bin, aim |-> bin]

Canonical(object, at, mass, noise, bin) ==
  /\ ObjectIsValid(object) /\ object = [shape |-> object.shape, half |-> object.half]
  /\ noise >= 0 /\ bin \in Bins
  /\ at = <<at[1], at[2]>> /\ Rounded(at[1]) = at[1] /\ Rounded(at[2]) = at[2]
  /\ Rounded(mass) = mass /\ mass > 0

LEMMA ScenarioAgain ==
  ASSUME NEW object, NEW at, NEW yaw, NEW mass, NEW noise, NEW bin,
         Canonical(object, at, mass, noise, bin)
  PROVE  Scenario(object, WorldPose(at, yaw), mass, noise, bin, bin)
           = ScenarioWith(object, at, yaw, mass, noise, bin)
<1> DEFINE pose == WorldPose(at, yaw)
<1>1. pose.frame = "world" /\ pose.at = at
  BY DEF WorldPose
<1>2. [pose EXCEPT !.at = <<Rounded(@[1]), Rounded(@[2])>>] = pose
  <2>1. <<Rounded(at[1]), Rounded(at[2])>> = at
    BY DEF Canonical
  <2>2. [pose EXCEPT !.at = <<Rounded(@[1]), Rounded(@[2])>>] =
          [pose EXCEPT !.at = <<Rounded(at[1]), Rounded(at[2])>>]
    BY <1>1
  <2>3. [pose EXCEPT !.at = at] = pose
    BY DEF WorldPose
  <2> QED BY <2>1, <2>2, <2>3
<1> HIDE DEF pose
<1>3. ObjectIsValid(object) /\ NoiseIsValid(noise) /\ Rounded(mass) > 0 /\ bin \in Bins
      /\ Rounded(mass) = mass
  BY DEF Canonical, NoiseIsValid
<1> QED BY <1>1, <1>2, <1>3 DEF Scenario, ScenarioWith, pose

LEMMA DrawnIs ==
  ASSUME NEW place \in [obj : Objects, at : Positions, yaw : Yaws], NEW height \in Heights,
         NEW mass \in Masses, NEW noise \in {0, 1}, NEW bin \in Bins
  PROVE  LET object == [shape |-> place.obj.shape, half |-> <<place.obj.hx, place.obj.hy, height>>]
             at == <<Rounded(place.at[1]), Rounded(place.at[2])>>
         IN  /\ Drawn(place, height, mass, noise, bin)
                  = ScenarioWith(object, at, place.yaw, Rounded(mass), noise, bin)
             /\ Canonical(object, at, Rounded(mass), noise, bin)
             /\ Made(SpawnCall(object)) = object.half
<1> DEFINE obj == place.obj
           object == [shape |-> obj.shape, half |-> <<obj.hx, obj.hy, height>>]
           at == <<Rounded(place.at[1]), Rounded(place.at[2])>>
           pose == WorldPose(place.at, place.yaw)
<1>1. obj \in Objects /\ place.at \in Positions
  OBVIOUS
<1>2. /\ obj.shape \in {"box", "cylinder"} /\ obj.hx > 0 /\ obj.hy > 0
      /\ obj.shape = "cylinder" => obj.hx = obj.hy
      /\ height \in Nat /\ height > 0
  <2>1. height \in Nat \ {0}
    BY DrawnAssumption
  <2> HIDE DEF obj
  <2>2. obj.shape \in {"box", "cylinder"}
    BY <1>1, DrawnAssumption
  <2>3. obj.hx > 0 /\ obj.hy > 0
    BY <1>1, DrawnAssumption
  <2>4. obj.shape = "cylinder" => obj.hx = obj.hy
    BY <1>1, DrawnAssumption
  <2> QED BY <2>1, <2>2, <2>3, <2>4
<1>3. place.at[1] \in Int /\ place.at[2] \in Int
  <2>1. place.at \in Int \X Int
    BY <1>1, GeometryAssumption
  <2> QED BY <2>1
<1>4. mass \in Int /\ Rounded(mass) > 0
  BY DrawnAssumption
<1>5. ObjectIsValid(object)
  <2>1. \A i \in 1..3 : object.half[i] > 0
    BY <1>2
  <2> QED BY <1>2, <2>1 DEF ObjectIsValid
<1>6. Canonical(object, at, Rounded(mass), noise, bin)
  <2>1. Rounded(Rounded(mass)) = Rounded(mass)
    BY <1>4, RoundedTwice
  <2>2. Rounded(Rounded(place.at[1])) = Rounded(place.at[1])
    BY <1>3, RoundedTwice
  <2>3. Rounded(Rounded(place.at[2])) = Rounded(place.at[2])
    BY <1>3, RoundedTwice
  <2>4. noise >= 0
    OBVIOUS
  <2>6. object = [shape |-> object.shape, half |-> object.half]
    OBVIOUS
  <2>5. at[1] = Rounded(place.at[1]) /\ at[2] = Rounded(place.at[2]) /\ at = <<at[1], at[2]>>
    OBVIOUS
  <2> HIDE DEF at, object
  <2> QED BY <1>4, <1>5, <2>1, <2>2, <2>3, <2>4, <2>5, <2>6 DEF Canonical
<1>7. Drawn(place, height, mass, noise, bin)
        = ScenarioWith(object, at, place.yaw, Rounded(mass), noise, bin)
  <2>1. pose.frame = "world" /\ pose.at = place.at
    BY DEF WorldPose
  <2>2. [pose EXCEPT !.at = <<Rounded(@[1]), Rounded(@[2])>>] = [pose EXCEPT !.at = at]
    BY <2>1
  <2>3. [pose EXCEPT !.at = at] = WorldPose(at, place.yaw)
    BY DEF WorldPose
  <2>4. Drawn(place, height, mass, noise, bin) = Scenario(object, pose, mass, noise, bin, bin)
    BY DEF Drawn
  <2>5. NoiseIsValid(noise)
    BY DEF NoiseIsValid
  <2> HIDE DEF object, at, pose
  <2> QED BY <1>4, <1>5, <2>1, <2>2, <2>3, <2>4, <2>5 DEF Scenario, ScenarioWith
<1>8. Made(SpawnCall(object)) = object.half
  <2>1. CASE obj.shape = "cylinder"
    <3>1. SpawnCall(object) = [make |-> "cylinder", radius |-> obj.hx, height |-> 2 * height]
      BY <2>1 DEF SpawnCall
    <3>2. Made(SpawnCall(object)) = <<obj.hx, obj.hx, (2 * height) \div 2>>
      BY <3>1 DEF Made
    <3>3. (2 * height) \div 2 = height
      BY <1>2
    <3> QED BY <1>2, <2>1, <3>2, <3>3
  <2>2. CASE obj.shape # "cylinder"
    <3>1. SpawnCall(object) = [make |-> "box", half |-> object.half]
      BY <2>2 DEF SpawnCall
    <3> QED BY <3>1 DEF Made
  <2> QED BY <2>1, <2>2
<1> QED BY <1>6, <1>7, <1>8

LEMMA WithoutLacks ==
  ASSUME NEW json, NEW key
  PROVE  /\ DOMAIN Without(json, key) = DOMAIN json \ {key}
         /\ \A k \in DOMAIN json \ {key} : Without(json, key)[k] = json[k]
BY DEF Without

\* A pose that is stored whole is read back.
LEMMA PoseRead ==
  ASSUME NEW at, NEW yaw
  PROVE  /\ DOMAIN PosePayload(WorldPose(at, yaw)) = PoseKeys
         /\ PoseOf(PosePayload(WorldPose(at, yaw))) = WorldPose(at, yaw)
         /\ WorldPose(at, yaw) # Refused
<1> DEFINE json == PosePayload(WorldPose(at, yaw))
<1>1. json = [schema_version |-> "1", frame |-> "world", position_meters |-> at,
              orientation_xyzw |-> yaw]
  BY DEF PosePayload, WorldPose
<1>2. DOMAIN json = PoseKeys
  BY <1>1 DEF PoseKeys
<1>3. json.position_meters = at /\ json.orientation_xyzw = yaw /\ json.frame = "world"
  BY <1>1
<1> HIDE DEF json
<1>4. PoseOf(json) = [at |-> at, yaw |-> yaw, frame |-> "world"]
  BY <1>2, <1>3 DEF PoseOf
<1>5. WorldPose(at, yaw) # Refused
  <2>1. "yaw" \in DOMAIN WorldPose(at, yaw) /\ "yaw" \notin DOMAIN Refused
    BY DEF WorldPose, Refused
  <2> QED BY <2>1
<1> QED BY <1>2, <1>4, <1>5 DEF json, WorldPose

LEMMA PayloadKeys ==
  ASSUME NEW s
  PROVE  DOMAIN ScenarioPayload(s) = ScenarioKeys
BY DEF ScenarioPayload, ScenarioKeys

\* A scenario that is stored whole is read back.
LEMMA PayloadRead ==
  ASSUME NEW object, NEW at, NEW yaw, NEW mass, NEW noise, NEW bin,
         Canonical(object, at, mass, noise, bin)
  PROVE  LET s == ScenarioWith(object, at, yaw, mass, noise, bin)
         IN  ScenarioOf(ScenarioPayload(s)) = s
<1> DEFINE s == ScenarioWith(object, at, yaw, mass, noise, bin)
           json == ScenarioPayload(s)
           pose == WorldPose(at, yaw)
<1>1. /\ s.object = object /\ s.pose = pose /\ s.mass = mass /\ s.noise = noise
      /\ s.bin = bin /\ s.aim = bin
  BY DEF ScenarioWith
<1>2. /\ json.object_type = s.object /\ json.initial_pose = PosePayload(s.pose)
      /\ json.mass_kilograms = s.mass /\ json.allowed_perturbations = s.noise
      /\ json.target_bin = s.bin /\ json.target_bin_pose = s.aim
  BY DEF ScenarioPayload
<1>3. DOMAIN json = ScenarioKeys
  BY PayloadKeys
<1> HIDE DEF s, json
<1>4. PoseOf(json.initial_pose) = pose /\ PoseOf(json.initial_pose) # Refused
  BY <1>1, <1>2, PoseRead
<1>5. ScenarioOf(json) = Scenario(object, pose, mass, noise, bin, bin)
  BY <1>1, <1>2, <1>3, <1>4 DEF ScenarioOf
<1>6. Scenario(object, pose, mass, noise, bin, bin) = s
  BY ScenarioAgain DEF s
<1> QED BY <1>5, <1>6 DEF s, json

\* A row whose payload lacks a key is refused.
LEMMA PayloadLacking ==
  ASSUME NEW s, NEW row, NEW key \in ScenarioKeys,
         row.initial_pose = Without(ScenarioPayload(s), key)
  PROVE  ScenarioFromContext(row) = Refused
<1> DEFINE json == Without(ScenarioPayload(s), key)
<1>1. DOMAIN json = ScenarioKeys \ {key}
  BY PayloadKeys, WithoutLacks
<1> HIDE DEF json
<1>2. row.initial_pose = json
  BY DEF json
<1>3. DOMAIN json # ScenarioKeys
  BY <1>1
<1>4. ScenarioOf(json) = Refused
  BY <1>3 DEF ScenarioOf
<1>5. StoredPose(json) = Refused
  <2>1. "orientation_xyzw" \notin DOMAIN json
    BY <1>1 DEF ScenarioKeys
  <2> QED BY <2>1 DEF StoredPose
<1>6. FromColumns(row) = Refused
  BY <1>2, <1>5 DEF FromColumns
<1> QED BY <1>2, <1>4, <1>6 DEF ScenarioFromContext

\* The three ways of writing down a pose alone.
LEMMA PosesRead ==
  ASSUME NEW at, NEW yaw, NEW s, s.pose = WorldPose(at, yaw), NEW json \in PosesOf(s)
  PROVE  /\ ~IsScenarioPayload(json) /\ StoredPose(json) = s.pose
         /\ \A key \in DOMAIN json :
              /\ ~IsScenarioPayload(Without(json, key))
              /\ StoredPose(Without(json, key)) \in {s.pose, Refused}
<1> DEFINE pose == WorldPose(at, yaw)
<1>1. pose.at = at /\ pose.yaw = yaw /\ pose = [at |-> at, yaw |-> yaw, frame |-> "world"]
  BY DEF WorldPose
<1>2. CASE json = PosePayload(pose)
  <2>1. /\ DOMAIN json = PoseKeys /\ PoseOf(json) = pose
        /\ json["position_meters"] = at /\ json["orientation_xyzw"] = yaw
    <3>1. DOMAIN json = PoseKeys /\ PoseOf(json) = pose
      BY <1>2, PoseRead
    <3>2. json.position_meters = at /\ json.orientation_xyzw = yaw
      BY <1>1, <1>2 DEF PosePayload
    <3> QED BY <3>1, <3>2
  <2>2. ~IsScenarioPayload(json)
    BY <2>1 DEF IsScenarioPayload, PoseKeys
  <2>3. StoredPose(json) = pose
    BY <2>1 DEF StoredPose, PoseKeys
  <2>4. ASSUME NEW key \in DOMAIN json
        PROVE  /\ ~IsScenarioPayload(Without(json, key))
               /\ StoredPose(Without(json, key)) \in {pose, Refused}
    <3> DEFINE rest == Without(json, key)
    <3>1. DOMAIN rest = PoseKeys \ {key} /\ \A k \in PoseKeys \ {key} : rest[k] = json[k]
      BY <2>1, WithoutLacks
    <3> HIDE DEF rest
    <3>2. ~IsScenarioPayload(rest)
      BY <3>1 DEF IsScenarioPayload, PoseKeys
    <3>3. CASE key = "orientation_xyzw"
      <4>1. "orientation_xyzw" \notin DOMAIN rest
        BY <3>1, <3>3
      <4>2. StoredPose(rest) = Refused
        BY <4>1 DEF StoredPose
      <4> QED BY <3>2, <4>2 DEF rest
    <3>4. CASE key = "position_meters"
      <4>1. "position_meters" \notin DOMAIN rest /\ "position_m" \notin DOMAIN rest
        BY <3>1, <3>4 DEF PoseKeys
      <4>2. StoredPose(rest) = Refused
        BY <4>1 DEF StoredPose
      <4> QED BY <3>2, <4>2 DEF rest
    <3>5. CASE key = "schema_version"
      <4>1. /\ "orientation_xyzw" \in DOMAIN rest /\ "position_meters" \in DOMAIN rest
            /\ "schema_version" \notin DOMAIN rest
        BY <3>1, <3>5 DEF PoseKeys
      <4>2. rest["position_meters"] = at /\ rest["orientation_xyzw"] = yaw
        BY <2>1, <3>1, <3>5 DEF PoseKeys
      <4>3. StoredPose(rest) = pose
        BY <1>1, <4>1, <4>2 DEF StoredPose
      <4> QED BY <3>2, <4>3 DEF rest
    <3>6. CASE key = "frame"
      <4>1. /\ "orientation_xyzw" \in DOMAIN rest /\ "position_meters" \in DOMAIN rest
            /\ "schema_version" \in DOMAIN rest /\ DOMAIN rest # PoseKeys
        BY <3>1, <3>6 DEF PoseKeys
      <4>2. StoredPose(rest) = Refused
        BY <4>1 DEF StoredPose, PoseOf
      <4> QED BY <3>2, <4>2 DEF rest
    <3> QED BY <2>1, <3>3, <3>4, <3>5, <3>6 DEF PoseKeys
  <2> HIDE DEF pose
  <2> QED BY <2>2, <2>3, <2>4 DEF pose
<1>3. ASSUME NEW place \in {"position_meters", "position_m"},
             DOMAIN json = {place, "orientation_xyzw"},
             json[place] = at, json["orientation_xyzw"] = yaw
      PROVE  /\ ~IsScenarioPayload(json) /\ StoredPose(json) = pose
             /\ \A key \in DOMAIN json :
                  /\ ~IsScenarioPayload(Without(json, key))
                  /\ StoredPose(Without(json, key)) = Refused
  <2>1. ~IsScenarioPayload(json)
    BY <1>3 DEF IsScenarioPayload
  <2>2. StoredPose(json) = pose
    BY <1>1, <1>3 DEF StoredPose
  <2>3. ASSUME NEW key \in DOMAIN json
        PROVE  /\ ~IsScenarioPayload(Without(json, key))
               /\ StoredPose(Without(json, key)) = Refused
    <3> DEFINE rest == Without(json, key)
    <3>1. DOMAIN rest = {place, "orientation_xyzw"} \ {key}
      BY <1>3, WithoutLacks
    <3> HIDE DEF rest
    <3>2. ~IsScenarioPayload(rest)
      BY <3>1 DEF IsScenarioPayload
    <3>3. CASE key = "orientation_xyzw"
      <4>1. "orientation_xyzw" \notin DOMAIN rest
        BY <3>1, <3>3
      <4> QED BY <3>2, <4>1 DEF StoredPose, rest
    <3>4. CASE key = place
      <4>1. "position_meters" \notin DOMAIN rest /\ "position_m" \notin DOMAIN rest
        BY <3>1, <3>4
      <4> QED BY <3>2, <4>1 DEF StoredPose, rest
    <3> QED BY <1>3, <3>3, <3>4
  <2> QED BY <2>1, <2>2, <2>3
<1>4. CASE json = [position_meters |-> s.pose.at, orientation_xyzw |-> s.pose.yaw]
  <2>1. /\ DOMAIN json = {"position_meters", "orientation_xyzw"}
        /\ json["position_meters"] = at /\ json["orientation_xyzw"] = yaw
    BY <1>1, <1>4
  <2> HIDE DEF pose
  <2> QED BY <1>3, <2>1 DEF pose
<1>5. CASE json = [position_m |-> s.pose.at, orientation_xyzw |-> s.pose.yaw]
  <2>1. /\ DOMAIN json = {"position_m", "orientation_xyzw"}
        /\ json["position_m"] = at /\ json["orientation_xyzw"] = yaw
    BY <1>1, <1>5
  <2> HIDE DEF pose
  <2> QED BY <1>3, <2>1 DEF pose
<1> QED BY <1>2, <1>4, <1>5 DEF PosesOf

\* What the columns say, all of it or what differs from the defaults.
LEMMA ColumnsRead ==
  ASSUME NEW object, NEW at, NEW yaw, NEW mass, NEW noise, NEW bin,
         Canonical(object, at, mass, noise, bin), NEW row,
         row.physical_properties \in PropertiesOf(ScenarioWith(object, at, yaw, mass, noise, bin)),
         row.target_bin = bin
  PROVE  LET s == ScenarioWith(object, at, yaw, mass, noise, bin)
             pose == StoredPose(row.initial_pose)
         IN  /\ pose = Refused => FromColumns(row) = Refused
             /\ pose = s.pose => FromColumns(row) = s
<1> DEFINE s == ScenarioWith(object, at, yaw, mass, noise, bin)
           pose == StoredPose(row.initial_pose)
           P == row.physical_properties
           Get(key, default) == IF key \in DOMAIN P THEN P[key] ELSE default
           read == Scenario([shape |-> Get("shape", "box"),
                             half  |-> Get("half_extents_meters", DefaultHalf)],
                            pose, Get("mass_kilograms", Get("mass_kg", DefaultMass)),
                            Get("allowed_perturbations", 0), bin, bin)
<1>1. FromColumns(row) = IF pose = Refused THEN Refused ELSE read
  BY DEF FromColumns
<1>2. s.object = object /\ s.pose = WorldPose(at, yaw) /\ s.mass = mass /\ s.noise = noise
  BY DEF ScenarioWith
<1>3. pose = s.pose => pose # Refused
  BY <1>2, PoseRead
<1>4. \A m : Rounded(m) = mass =>
        Scenario(object, WorldPose(at, yaw), m, noise, bin, bin) = s
  <2> SUFFICES ASSUME NEW m, Rounded(m) = mass
               PROVE  Scenario(object, WorldPose(at, yaw), m, noise, bin, bin) = s
    OBVIOUS
  <2>1. Scenario(object, WorldPose(at, yaw), mass, noise, bin, bin) = s
    BY ScenarioAgain
  <2>2. Rounded(m) = Rounded(mass)
    BY DEF Canonical
  <2> HIDE DEF s
  <2>3. Scenario(object, WorldPose(at, yaw), m, noise, bin, bin)
          = Scenario(object, WorldPose(at, yaw), mass, noise, bin, bin)
    BY <2>2 DEF Scenario
  <2> QED BY <2>1, <2>3
<1>5. Rounded(mass) = mass /\ object = [shape |-> object.shape, half |-> object.half]
  BY DEF Canonical
<1>6. \/ P = [shape |-> object.shape, half_extents_meters |-> object.half,
              mass_kilograms |-> mass, allowed_perturbations |-> noise]
      \/ /\ object = [shape |-> "box", half |-> DefaultHalf] /\ noise = 0
         /\ \/ P = [mass_kg |-> mass]
            \/ P = Nothing /\ mass = Rounded(DefaultMass)
  BY <1>2 DEF PropertiesOf
<1> HIDE DEF s, P, pose
<1>7. \E m : Rounded(m) = mass /\ read = Scenario(object, pose, m, noise, bin, bin)
  <2>1. CASE P = [shape |-> object.shape, half_extents_meters |-> object.half,
                  mass_kilograms |-> mass, allowed_perturbations |-> noise]
    <3>1. /\ Get("shape", "box") = object.shape
          /\ Get("half_extents_meters", DefaultHalf) = object.half
          /\ Get("mass_kilograms", Get("mass_kg", DefaultMass)) = mass
          /\ Get("allowed_perturbations", 0) = noise
      BY <2>1
    <3> HIDE DEF Get
    <3> QED BY <1>5, <3>1
  <2>2. CASE P = [mass_kg |-> mass] /\ object = [shape |-> "box", half |-> DefaultHalf] /\ noise = 0
    <3>1. /\ Get("shape", "box") = "box"
          /\ Get("half_extents_meters", DefaultHalf) = DefaultHalf
          /\ Get("mass_kilograms", Get("mass_kg", DefaultMass)) = mass
          /\ Get("allowed_perturbations", 0) = 0
      BY <2>2
    <3> HIDE DEF Get
    <3> QED BY <1>5, <2>2, <3>1
  <2>3. CASE /\ P = Nothing /\ mass = Rounded(DefaultMass)
             /\ object = [shape |-> "box", half |-> DefaultHalf] /\ noise = 0
    <3>0. DOMAIN P = {}
      BY <2>3 DEF Nothing
    <3>1. /\ Get("shape", "box") = "box"
          /\ Get("half_extents_meters", DefaultHalf) = DefaultHalf
          /\ Get("mass_kilograms", Get("mass_kg", DefaultMass)) = DefaultMass
          /\ Get("allowed_perturbations", 0) = 0
      BY <3>0
    <3> HIDE DEF Get
    <3> QED BY <2>3, <3>1
  <2> QED BY <1>6, <2>1, <2>2, <2>3
<1> HIDE DEF read
<1>8. pose = s.pose => read = s
  BY <1>2, <1>4, <1>7
<1> QED BY <1>1, <1>3, <1>8 DEF s, pose

\* Every row that tells of a scenario.
LEMMA RowsRead ==
  ASSUME NEW object, NEW at, NEW yaw, NEW mass, NEW noise, NEW bin,
         Canonical(object, at, mass, noise, bin),
         NEW row \in RowsOf(ScenarioWith(object, at, yaw, mass, noise, bin))
  PROVE  LET s == ScenarioWith(object, at, yaw, mass, noise, bin)
         IN  /\ ScenarioFromContext(row) = s
             /\ \A key \in DOMAIN row.initial_pose :
                  ScenarioFromContext([row EXCEPT !.initial_pose = Without(@, key)])
                    \in {s, Refused}
<1> DEFINE s == ScenarioWith(object, at, yaw, mass, noise, bin)
<1>1. s.pose = WorldPose(at, yaw) /\ s.bin = bin
  BY DEF ScenarioWith
<1>2. CASE row \in [initial_pose : {ScenarioPayload(s)},
                    physical_properties : {Nothing} \cup PropertiesOf([s EXCEPT !.mass = @ + Grain]),
                    target_bin : Bins]
  <2>1. row.initial_pose = ScenarioPayload(s)
    BY <1>2
  <2>2. DOMAIN row.initial_pose = ScenarioKeys
    BY <2>1, PayloadKeys
  <2>3. IsScenarioPayload(row.initial_pose)
    BY <2>2 DEF IsScenarioPayload, ScenarioKeys
  <2>4. ScenarioOf(ScenarioPayload(s)) = s
    BY PayloadRead
  <2>5. ScenarioFromContext(row) = s
    BY <2>1, <2>3, <2>4 DEF ScenarioFromContext
  <2>6. ASSUME NEW key \in DOMAIN row.initial_pose
        PROVE  ScenarioFromContext([row EXCEPT !.initial_pose = Without(@, key)]) = Refused
    <3> DEFINE less == [row EXCEPT !.initial_pose = Without(@, key)]
    <3>1. less.initial_pose = Without(ScenarioPayload(s), key)
      BY <1>2, <2>1
    <3> HIDE DEF less, s
    <3>2. ScenarioFromContext(less) = Refused
      BY <2>2, <3>1, PayloadLacking
    <3> QED BY <3>2 DEF less
  <2> QED BY <2>5, <2>6
<1>3. CASE row \in [initial_pose : PosesOf(s), physical_properties : PropertiesOf(s),
                    target_bin : {s.bin}]
  <2>1. /\ row.initial_pose \in PosesOf(s) /\ row.physical_properties \in PropertiesOf(s)
        /\ row.target_bin = bin
    BY <1>1, <1>3
  <2>2. /\ ~IsScenarioPayload(row.initial_pose) /\ StoredPose(row.initial_pose) = s.pose
        /\ \A key \in DOMAIN row.initial_pose :
             /\ ~IsScenarioPayload(Without(row.initial_pose, key))
             /\ StoredPose(Without(row.initial_pose, key)) \in {s.pose, Refused}
    <3> HIDE DEF s
    <3> QED BY <1>1, <2>1, PosesRead
  <2>3. FromColumns(row) = s
    BY <2>1, <2>2, ColumnsRead
  <2>4. ScenarioFromContext(row) = s
    BY <2>2, <2>3 DEF ScenarioFromContext
  <2>5. ASSUME NEW key \in DOMAIN row.initial_pose
        PROVE  ScenarioFromContext([row EXCEPT !.initial_pose = Without(@, key)]) \in {s, Refused}
    <3> DEFINE less == [row EXCEPT !.initial_pose = Without(@, key)]
    <3>1. /\ less.initial_pose = Without(row.initial_pose, key)
          /\ less.physical_properties = row.physical_properties
          /\ less.target_bin = row.target_bin
      BY <1>3
    <3> HIDE DEF less
    <3>2. /\ ~IsScenarioPayload(less.initial_pose)
          /\ StoredPose(less.initial_pose) \in {s.pose, Refused}
      BY <2>2, <3>1
    <3>3. less.physical_properties \in PropertiesOf(s) /\ less.target_bin = bin
      BY <2>1, <3>1
    <3>4. /\ StoredPose(less.initial_pose) = Refused => FromColumns(less) = Refused
          /\ StoredPose(less.initial_pose) = s.pose => FromColumns(less) = s
      BY <3>3, ColumnsRead
    <3>5. FromColumns(less) \in {s, Refused}
      <4> HIDE DEF s
      <4> QED BY <3>2, <3>4
    <3>6. ScenarioFromContext(less) = FromColumns(less)
      BY <3>2 DEF ScenarioFromContext
    <3> QED BY <3>5, <3>6 DEF less
  <2> QED BY <2>4, <2>5
<1> QED BY <1>2, <1>3 DEF RowsOf

\* However a client writes down a drawn scenario, the executor reads back that scenario,
\* rounded as it was, and makes a body of its size; a row that lacks a key of the pose is
\* refused or tells the same (trial_execution.py _scenario_from_context).
THEOREM ScenariosRunAsPosted == Spec => []RunsAsPosted
<1>1. CatalogueInv => RunsAsPosted
  <2> SUFFICES ASSUME CatalogueInv, draft.place # NoPlace,
                      NEW height \in Heights, NEW mass \in Masses, NEW noise \in {0, 1},
                      NEW bin \in Bins
               PROVE  LET s == Drawn(draft.place, height, mass, noise, bin)
                      IN  /\ s # Refused /\ Made(SpawnCall(s.object)) = s.object.half
                          /\ \A row \in RowsOf(s) :
                               /\ ScenarioFromContext(row) = s
                               /\ \A key \in DOMAIN row.initial_pose :
                                    ScenarioFromContext([row EXCEPT !.initial_pose = Without(@, key)])
                                      \in {s, Refused}
    BY DEF RunsAsPosted
  <2> DEFINE place == draft.place
             object == [shape |-> place.obj.shape,
                        half |-> <<place.obj.hx, place.obj.hy, height>>]
             at == <<Rounded(place.at[1]), Rounded(place.at[2])>>
             s == Drawn(place, height, mass, noise, bin)
             m == Rounded(mass)
  <2>1. place \in [obj : Objects, at : Positions, yaw : Yaws]
    BY DEF CatalogueInv, Drafted
  <2>2. /\ s = ScenarioWith(object, at, place.yaw, m, noise, bin)
        /\ Canonical(object, at, m, noise, bin)
        /\ Made(SpawnCall(object)) = object.half
    <3> HIDE DEF place
    <3> QED BY <2>1, DrawnIs
  <2> HIDE DEF object, at, s, m
  <2>3. s.object = object
    BY <2>2 DEF ScenarioWith
  <2>4. s # Refused
    <3>1. "pose" \in DOMAIN s /\ "pose" \notin DOMAIN Refused
      BY <2>2 DEF ScenarioWith, Refused
    <3> QED BY <3>1
  <2>5. ASSUME NEW row \in RowsOf(s)
        PROVE  /\ ScenarioFromContext(row) = s
               /\ \A key \in DOMAIN row.initial_pose :
                    ScenarioFromContext([row EXCEPT !.initial_pose = Without(@, key)])
                      \in {s, Refused}
    <3>1. row \in RowsOf(ScenarioWith(object, at, place.yaw, m, noise, bin))
      BY <2>2
    <3> HIDE DEF place
    <3> QED BY <2>2, <3>1, RowsRead
  <2> QED BY <2>2, <2>3, <2>4, <2>5 DEF s
<1> QED BY <1>1, CatalogueInvariant, PTL
=============================================================================
