----------------------------- MODULE Catalogue ------------------------------
(***************************************************************************)
(* What is to be evaluated: a client draws scenarios (scenarios/           *)
(* generator.py) and posts them as a scenario set, posts experiments of    *)
(* that set and some policies (the API's services), and the workers that   *)
(* run an experiment create its trials, one for each policy and scenario,  *)
(* with identifiers of their own clocks (ids.py; create_trial_if_absent).  *)
(*                                                                         *)
(* A worker creates the trials in one transaction.  The database shows     *)
(* others nothing of it before the commit; an INSERT of a trial that       *)
(* another open transaction has inserted waits until that one has ended.   *)
(***************************************************************************)
EXTENDS TrialInputs, SequencesExt

CONSTANTS Workers, Experiments, Policies, Seeds,
          RetryLimit,          \* placements tried for a scenario
          MaxScenarios,        \* of a set
          Clocks,              \* times that a worker's clock may show, in ms
          MaxTime, MaxCounter, MaxRandom    \* the largest values of an id's parts

ASSUME IdsAssumption == Clocks \subseteq Nat /\ {MaxTime, MaxCounter, MaxRandom} \subseteq Nat

VARIABLES draft,               \* the scenarios that the client draws
          scenarios,           \* seeds of the posted set, by ordinal
          policies,            \* of each posted experiment, by execution order
          last,                \* of each worker: the time and counter of its last id
          tx,                  \* of each worker: its transaction
          ids                  \* of the committed trials

catalogue == <<draft, scenarios, policies, last, tx, ids>>

-----------------------------------------------------------------------------
(* new_id                                                                  *)

NoId == [time |-> -1, counter |-> 0]

Lesser(a, b) == IF a <= b THEN a ELSE b

\* Mutant of Ticked: when the clock stands still or goes back, it is believed.
TickedBack(was, clock) ==
  IF Lesser(clock, MaxTime) # was.time THEN [time |-> Lesser(clock, MaxTime), counter |-> 0]
  ELSE [time |-> was.time, counter |-> (was.counter + 1) % (MaxCounter + 1)]

\* A clock that has not moved on, or has gone back, counts up instead; a counter that
\* overflows runs ahead of the clock.
Ticked(was, clock) ==
  IF Lesser(clock, MaxTime) > was.time THEN [time |-> Lesser(clock, MaxTime), counter |-> 0]
  ELSE IF was.counter < MaxCounter THEN [was EXCEPT !.counter = @ + 1]
  ELSE [time |-> Lesser(was.time + 1, MaxTime), counter |-> 0]

\* The id as the database orders it.
IdOf(tick, random) == (tick.time * (MaxCounter + 1) + tick.counter) * (MaxRandom + 1) + random + 1

-----------------------------------------------------------------------------
(* The client's drawing of scenarios.                                      *)

NoObject == [shape |-> "none", hx |-> 0, hy |-> 0]

NoPlace == [obj |-> NoObject, at |-> <<0, 0>>, yaw |-> <<1, 0, 1>>]

NoDraft == [seeds |-> <<>>, obj |-> NoObject, tries |-> 0, place |-> NoPlace]

\* A scenario begins: its seed is chosen, and its object drawn.
DrawObject ==
  /\ scenarios = <<>> /\ draft.obj = NoObject /\ Len(draft.seeds) < MaxScenarios
  /\ \E seed \in Seeds, obj \in Objects :
       draft' = [NoDraft EXCEPT !.seeds = Append(draft.seeds, seed), !.obj = obj]
  /\ UNCHANGED <<scenarios, policies, last, tx, ids>>

\* A placement is drawn; one that is not valid is drawn again, until the limit, when
\* the generation of all the scenarios raises.
DrawPlace ==
  /\ draft.obj # NoObject
  /\ \E at \in Positions, yaw \in Yaws :
       draft' = IF PlacementIsValid(draft.obj, at, yaw)
                THEN [NoDraft EXCEPT !.seeds = draft.seeds,
                        !.place = [obj |-> draft.obj, at |-> at, yaw |-> yaw]]
                ELSE IF draft.tries + 1 < RetryLimit
                THEN [draft EXCEPT !.tries = @ + 1]
                ELSE NoDraft
  /\ UNCHANGED <<scenarios, policies, last, tx, ids>>

-----------------------------------------------------------------------------
(* The API: create_scenario_set and create_experiment.  A request that is  *)
(* refused, or that the database refuses, leaves nothing.                  *)

\* The rows of a request that gives the i-th seed the ordinal ordinals[i].
ByOrdinal(seeds, ordinals) ==
  [o \in 1..Len(seeds) |-> seeds[CHOOSE i \in DOMAIN seeds : ordinals[i] = o]]

Acceptable(seeds, ordinals) == IsInjective(ordinals) /\ IsInjective(seeds)

PostScenarioSet ==
  /\ scenarios = <<>> /\ draft.seeds # <<>> /\ draft.obj = NoObject
  /\ \E ordinals \in [DOMAIN draft.seeds -> DOMAIN draft.seeds] :
       scenarios' = IF Acceptable(draft.seeds, ordinals)
                    THEN ByOrdinal(draft.seeds, ordinals) ELSE <<>>
  /\ draft' = NoDraft
  /\ UNCHANGED <<policies, last, tx, ids>>

PostExperiment(e) ==
  /\ scenarios # <<>> /\ policies[e] = <<>>
  /\ \E request \in BoundedSeq(Policies, Cardinality(Policies)) :
       /\ request # <<>> /\ IsInjective(request)
       /\ policies' = [policies EXCEPT ![e] = request]
  /\ UNCHANGED <<draft, scenarios, last, tx, ids>>

-----------------------------------------------------------------------------
(* The workers: _ensure_trials.                                            *)

\* The trials of an experiment, in order: policy by policy, each with the scenarios by
\* ordinal.
TrialsOf(e) ==
  LET n == Len(scenarios)
  IN  [k \in 1..(Len(policies[e]) * n) |->
         <<e, policies[e][(k - 1) \div n + 1], scenarios[((k - 1) % n) + 1]>>]

NoTrials == [t \in {} |-> 0]

Joined(f, g) == [t \in DOMAIN f \cup DOMAIN g |-> IF t \in DOMAIN f THEN f[t] ELSE g[t]]

\* order: what remains of the transaction; new: the ids of the trials that it inserted.
Closed == [open |-> FALSE, order |-> <<>>, new |-> NoTrials]

\* Bound: a worker that finds all the trials does not begin; it would change nothing.
Begin(w, e) ==
  /\ policies[e] # <<>> /\ ~tx[w].open
  /\ ~(Range(TrialsOf(e)) \subseteq DOMAIN ids)
  /\ tx' = [tx EXCEPT ![w] = [open |-> TRUE, order |-> TrialsOf(e), new |-> NoTrials]]
  /\ UNCHANGED <<draft, scenarios, policies, last, ids>>

\* v has inserted, and not yet committed, what w inserts next.
WaitsFor(w, v) ==
  /\ v # w /\ tx[w].order # <<>>
  /\ Head(tx[w].order) \in DOMAIN tx[v].new

\* The ids in use are never drawn again: 62 random bits.
Taken == Range(ids) \cup UNION {Range(tx[w].new) : w \in Workers}

\* new_id, for a trial that may exist already, and INSERT ... ON CONFLICT DO NOTHING.
Insert(w) ==
  /\ tx[w].order # <<>>
  /\ \A v \in Workers : ~WaitsFor(w, v)
  /\ last[w] # [time |-> MaxTime, counter |-> MaxCounter]    \* bound: ids last
  /\ \E clock \in Clocks, random \in 0..MaxRandom :
       LET tick == Ticked(last[w], clock)
           id == IdOf(tick, random)
           trial == Head(tx[w].order)
       IN  /\ id \notin Taken
           /\ last' = [last EXCEPT ![w] = tick]
           /\ tx' = [tx EXCEPT ![w] =
                       [open |-> TRUE, order |-> Tail(@.order),
                        new |-> IF trial \in DOMAIN ids THEN @.new
                                ELSE Joined(@.new, [t \in {trial} |-> id])]]
  /\ UNCHANGED <<draft, scenarios, policies, ids>>

Commit(w) ==
  /\ tx[w].open /\ tx[w].order = <<>>
  /\ ids' = Joined(ids, tx[w].new)
  /\ tx' = [tx EXCEPT ![w] = Closed]
  /\ UNCHANGED <<draft, scenarios, policies, last>>

\* Mutant of Rollback: each trial is committed as soon as it is inserted.
RollbackPartly(w) ==
  /\ tx[w].open
  /\ ids' = Joined(ids, tx[w].new)
  /\ tx' = [tx EXCEPT ![w] = Closed]
  /\ UNCHANGED <<draft, scenarios, policies, last>>

\* The transaction fails; when the worker dies it forgets its last id as well.
Rollback(w) ==
  /\ tx[w].open
  /\ tx' = [tx EXCEPT ![w] = Closed]
  /\ last' \in {last, [last EXCEPT ![w] = NoId]}
  /\ UNCHANGED <<draft, scenarios, policies, ids>>

-----------------------------------------------------------------------------

CatalogueInit ==
  /\ draft = NoDraft /\ scenarios = <<>>
  /\ policies = [e \in Experiments |-> <<>>]
  /\ last = [w \in Workers |-> NoId]
  /\ tx = [w \in Workers |-> Closed]
  /\ ids = NoTrials

CatalogueNext ==
  \/ DrawObject \/ DrawPlace \/ PostScenarioSet
  \/ \E e \in Experiments : PostExperiment(e) \/ \E w \in Workers : Begin(w, e)
  \/ \E w \in Workers : Insert(w) \/ Commit(w) \/ Rollback(w)
=============================================================================
