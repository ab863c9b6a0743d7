-------------------------- MODULE TrialWorldProofs --------------------------
(***************************************************************************)
(* Proofs about TrialWorld, for every physics, robot, configuration and    *)
(* policy, and so for samples of any number and at any times.              *)
(***************************************************************************)
EXTENDS TrialWorld, FiniteSetTheorems, SequenceTheorems, WellFoundedInduction, TLAPS

-----------------------------------------------------------------------------
(* Least and greatest elements.                                            *)

LEMMA LeastNatural ==
  ASSUME NEW S \in SUBSET Nat, S # {}
  PROVE  \E m \in S : \A n \in S : m <= n
<1> DEFINE T == {1..n : n \in S}
<1>1. IsWellFoundedOn(StrictSubsetOrdering(Nat), FiniteSubsetsOf(Nat))
  BY FS_StrictSubsetOrderingWellFounded
<1>2. T \subseteq FiniteSubsetsOf(Nat)
  <2> SUFFICES ASSUME NEW n \in S PROVE 1..n \in FiniteSubsetsOf(Nat)
    OBVIOUS
  <2>1. n \in Int /\ 1 \in Int
    OBVIOUS
  <2>2. IsFiniteSet(1..n)
    BY <2>1, FS_Interval
  <2> QED BY <2>2 DEF FiniteSubsetsOf
<1>3. T # {}
  OBVIOUS
<1> HIDE DEF T
<1>4. PICK x \in T : \A y \in T : <<y, x>> \notin StrictSubsetOrdering(Nat)
  BY <1>1, <1>2, <1>3, WFMin
<1>5. PICK m \in S : x = 1..m
  BY DEF T
<1>6. ASSUME NEW n \in S PROVE m <= n
  <2>1. 1..n \in T
    BY DEF T
  <2>2. 1..n \in SUBSET Nat /\ 1..m \in SUBSET Nat
    OBVIOUS
  <2>3. <<1..n, 1..m>> \in (SUBSET Nat) \X (SUBSET Nat)
    BY <2>2
  <2>4. ~(1..n \subseteq 1..m /\ 1..n # 1..m)
    BY <1>4, <1>5, <2>1, <2>3 DEF StrictSubsetOrdering
  <2>5. n < m => 1..n \subseteq 1..m /\ m \in 1..m /\ m \notin 1..n
    OBVIOUS
  <2> QED BY <2>4, <2>5
<1> QED BY <1>6

LEMMA GreatestUpTo ==
  ASSUME NEW n \in Nat, NEW S \in SUBSET (0..n), S # {}
  PROVE  \E m \in S : \A k \in S : k <= m
<1> DEFINE T == {n - k : k \in S}
<1>1. T \in SUBSET Nat /\ T # {}
  <2>1. \A k \in S : n - k \in Nat
    OBVIOUS
  <2> QED BY <2>1
<1> HIDE DEF T
<1>2. PICK t \in T : \A u \in T : t <= u
  BY <1>1, LeastNatural
<1>3. PICK m \in S : t = n - m
  BY DEF T
<1>4. ASSUME NEW k \in S PROVE k <= m
  <2>1. n - k \in T
    BY DEF T
  <2> QED BY <1>2, <1>3, <2>1
<1> QED BY <1>4

\* Induction on a set of numbers, without an operator as a parameter.
LEMMA Reaches ==
  ASSUME NEW n \in Nat, NEW S, 0 \in S,
         \A k \in 0..(n - 1) : k \in S => k + 1 \in S
  PROVE  \A k \in 0..n : k \in S
<1> SUFFICES ASSUME NEW bad \in 0..n, bad \notin S PROVE FALSE
  OBVIOUS
<1> DEFINE B == {k \in 0..n : k \notin S}
<1>1. B \in SUBSET Nat /\ B # {}
  OBVIOUS
<1>2. PICK m \in B : \A k \in B : m <= k
  BY <1>1, LeastNatural
<1>3. m \in Nat /\ m # 0 /\ m <= n
  OBVIOUS
<1>4. m - 1 \in 0..(n - 1) /\ m - 1 \notin B
  BY <1>2, <1>3
<1>5. m - 1 \in S
  BY <1>3, <1>4
<1>6. (m - 1) + 1 \in S
  BY <1>4, <1>5
<1>7. (m - 1) + 1 = m
  BY <1>3
<1> QED BY <1>6, <1>7

LEMMA MaxUpTo ==
  ASSUME NEW n \in Nat, NEW S \in SUBSET (0..n), S # {}
  PROVE  Max(S) \in S /\ \A k \in S : Max(S) >= k
<1>1. PICK m \in S : \A k \in S : k <= m
  BY GreatestUpTo
<1>2. \A k \in S : m >= k
  BY <1>1
<1> QED BY <1>2 DEF Max

LEMMA MinOfNaturals ==
  ASSUME NEW S \in SUBSET Nat, S # {}
  PROVE  Min(S) \in S /\ \A k \in S : Min(S) =< k
<1>1. PICK m \in S : \A k \in S : m =< k
  BY LeastNatural
<1> QED BY <1>1 DEF Min

-----------------------------------------------------------------------------
(* The record of a world.                                                  *)

Fields ==
  {"state", "status", "code", "clock", "samples", "trackers", "collided", "verified",
   "reach", "sent", "closed", "released", "log", "written", "last", "regrasps"}

Shaped(w) == w = [f \in Fields |-> w[f]]

Noticed(w, see, detected, reach) == [Observed(w, see, detected) EXCEPT !.reach = reach]

SampleOf(w, see) ==
  [t |-> w.clock, in |-> w.state, shut |-> w.closed, points |-> see.points,
   grip |-> Grip(SampleContacts(see.points)), high |-> see.high, place |-> see.place,
   still |-> see.still]

LEMMA ObservedFields ==
  ASSUME NEW w, Shaped(w), NEW see, NEW detected, NEW v, v = Observed(w, see, detected)
  PROVE  /\ Shaped(v)
         /\ v.samples = Append(w.samples, SampleOf(w, see))
         /\ v.trackers = Tracked(w.trackers, PressedPairs(SampleContacts(see.points)), Elapsed(w))
         /\ v.collided = (w.collided \/ detected)
         /\ v.state = w.state /\ v.status = w.status /\ v.code = w.code
         /\ v.clock = w.clock /\ v.reach = w.reach /\ v.closed = w.closed
         /\ v.log = w.log /\ v.written = w.written
         /\ v.regrasps = w.regrasps /\ v.last = w.last /\ v.sent = w.sent
<1> DEFINE events == SampleContacts(see.points)
           a == Tracked(w.trackers, PressedPairs(events), Elapsed(w))
           s == SampleOf(w, see)
<1>1. v = [w EXCEPT !.trackers = a,
                    !.collided = @ \/ detected,
                    !.verified = @ \/ Grip(events) # "none",
                    !.samples = Append(@, s)]
  BY DEF Observed, SampleOf
<1> HIDE DEF a, s, events
<1>2. Shaped(v)
  BY <1>1 DEF Shaped, Fields
<1>3. v.samples = Append(w.samples, s)
  BY <1>1 DEF Shaped, Fields
<1>4. v.trackers = a
  BY <1>1 DEF Shaped, Fields
<1>5. v.collided = (w.collided \/ detected)
  BY <1>1 DEF Shaped, Fields
<1>6. v.state = w.state /\ v.status = w.status /\ v.code = w.code
  BY <1>1 DEF Shaped, Fields
<1>7. v.clock = w.clock /\ v.reach = w.reach /\ v.closed = w.closed
  BY <1>1 DEF Shaped, Fields
<1>8. v.log = w.log /\ v.written = w.written
  BY <1>1 DEF Shaped, Fields
<1>9. v.regrasps = w.regrasps /\ v.last = w.last /\ v.sent = w.sent
  BY <1>1 DEF Shaped, Fields
<1> QED BY <1>2, <1>3, <1>4, <1>5, <1>6, <1>7, <1>8, <1>9 DEF a, s, events

LEMMA NoticedFields ==
  ASSUME NEW w, Shaped(w), NEW see, NEW detected, NEW reach,
         NEW v, v = Noticed(w, see, detected, reach)
  PROVE  /\ Shaped(v)
         /\ v.samples = Append(w.samples, SampleOf(w, see))
         /\ v.trackers = Tracked(w.trackers, PressedPairs(SampleContacts(see.points)), Elapsed(w))
         /\ v.collided = (w.collided \/ detected)
         /\ v.state = w.state /\ v.status = w.status /\ v.code = w.code
         /\ v.clock = w.clock /\ v.reach = reach /\ v.closed = w.closed
         /\ v.log = w.log /\ v.written = w.written /\ v.sent = w.sent
<1> DEFINE u == Observed(w, see, detected)
<1>1. v = [u EXCEPT !.reach = reach]
  BY DEF Noticed
<1>2. Shaped(u)
  BY ObservedFields
<1>3. /\ u.samples = Append(w.samples, SampleOf(w, see))
      /\ u.trackers = Tracked(w.trackers, PressedPairs(SampleContacts(see.points)), Elapsed(w))
      /\ u.collided = (w.collided \/ detected)
      /\ u.state = w.state /\ u.status = w.status /\ u.code = w.code
      /\ u.clock = w.clock /\ u.closed = w.closed
      /\ u.log = w.log /\ u.written = w.written /\ u.sent = w.sent
  BY ObservedFields
<1> HIDE DEF u
<1>4. Shaped(v)
  BY <1>1, <1>2 DEF Shaped, Fields
<1>5. v.reach = reach /\ v.sent = u.sent
  BY <1>1, <1>2 DEF Shaped, Fields
<1>6. v.samples = u.samples /\ v.trackers = u.trackers /\ v.collided = u.collided
  BY <1>1, <1>2 DEF Shaped, Fields
<1>7. v.state = u.state /\ v.status = u.status /\ v.code = u.code
  BY <1>1, <1>2 DEF Shaped, Fields
<1>8. v.clock = u.clock /\ v.closed = u.closed /\ v.log = u.log /\ v.written = u.written
  BY <1>1, <1>2 DEF Shaped, Fields
<1> QED BY <1>3, <1>4, <1>5, <1>6, <1>7, <1>8

LEMMA ExecutedFields ==
  ASSUME NEW w, Shaped(w), NEW commands, NEW result, NEW v, v = Executed(w, commands, result)
  PROVE  /\ Shaped(v)
         /\ v.clock = w.clock + result[1] /\ v.closed = ShutBy(w.closed, commands)
         /\ v.samples = w.samples /\ v.trackers = w.trackers /\ v.collided = w.collided
         /\ v.state = w.state /\ v.status = w.status /\ v.code = w.code
         /\ v.reach = w.reach /\ v.log = w.log /\ v.written = w.written
         /\ v.sent = w.sent \cup Targets(commands)
<1> DEFINE c == Do("open") \in ToSet(commands)
           k == w.clock + result[1]
           x == ShutBy(w.closed, commands)
           y == result[2]
           m == Targets(commands)
<1>1. v = [w EXCEPT !.closed = x, !.released = @ \/ c, !.sent = @ \cup m, !.last = y, !.clock = k]
  BY DEF Executed
<1> HIDE DEF c, k, x, y, m
<1>2. Shaped(v)
  BY <1>1 DEF Shaped, Fields
<1>3. v.clock = k /\ v.closed = x
  BY <1>1 DEF Shaped, Fields
<1>4. v.samples = w.samples /\ v.trackers = w.trackers /\ v.collided = w.collided
  BY <1>1 DEF Shaped, Fields
<1>5. v.state = w.state /\ v.status = w.status /\ v.code = w.code
  BY <1>1 DEF Shaped, Fields
<1>6. v.reach = w.reach /\ v.log = w.log /\ v.written = w.written
  BY <1>1 DEF Shaped, Fields
<1>7. v.sent = w.sent \cup m
  BY <1>1 DEF Shaped, Fields
<1> QED BY <1>2, <1>3, <1>4, <1>5, <1>6, <1>7 DEF k, x, m

\* The world v is w after the controller's move.
Past(v, w, plan) ==
  /\ Shaped(v)
  /\ v.state = plan.next /\ v.log = Transition(w.log, w.state, plan, w.clock)
  /\ v.written = w.written \cup P(policy)!Milestones(w.state, plan.next)
  /\ v.status = IF P(policy)!Milestones(w.state, plan.next) \cap w.written # {}
                THEN "failed" ELSE w.status
  /\ v.samples = w.samples /\ v.trackers = w.trackers /\ v.collided = w.collided
  /\ v.clock = w.clock /\ v.closed = w.closed /\ v.reach = w.reach /\ v.code = w.code
  /\ v.sent = w.sent

LEMMA CrossedFields ==
  ASSUME NEW w, Shaped(w), NEW plan, NEW v, v = Crossed(w, plan)
  PROVE  Past(v, w, plan)
<1> DEFINE frames == P(policy)!Milestones(w.state, plan.next)
           n == plan.next
           l == Transition(w.log, w.state, plan, w.clock)
           g == IF plan.regrasp THEN w.regrasps + 1 ELSE w.regrasps
           s == IF frames \cap w.written # {} THEN "failed" ELSE w.status
<1>1. v = [w EXCEPT !.state = n, !.log = l, !.regrasps = g,
                    !.written = @ \cup frames, !.status = s]
  BY DEF Crossed
<1> HIDE DEF frames, n, l, g, s
<1>2. Shaped(v)
  BY <1>1 DEF Shaped, Fields
<1>3. v.state = n /\ v.log = l
  BY <1>1 DEF Shaped, Fields
<1>4. v.written = w.written \cup frames /\ v.status = s
  BY <1>1 DEF Shaped, Fields
<1>5. v.samples = w.samples /\ v.trackers = w.trackers /\ v.collided = w.collided
  BY <1>1 DEF Shaped, Fields
<1>6. v.clock = w.clock /\ v.closed = w.closed /\ v.reach = w.reach /\ v.code = w.code
  BY <1>1 DEF Shaped, Fields
<1>7. v.sent = w.sent
  BY <1>1 DEF Shaped, Fields
<1> QED BY <1>2, <1>3, <1>4, <1>5, <1>6, <1>7 DEF Past, frames, n, l, s

LEMMA NewWorldFields ==
  /\ Shaped(NewWorld)
  /\ NewWorld.state = "reset" /\ NewWorld.status = "running" /\ NewWorld.code = "none"
  /\ NewWorld.clock = 0 /\ NewWorld.samples = <<>> /\ NewWorld.trackers = NoTrackers
  /\ NewWorld.collided = FALSE /\ NewWorld.reach = NotAssessed /\ NewWorld.closed = FALSE
  /\ NewWorld.log = NewLog /\ NewWorld.written = {} /\ NewWorld.sent = {}
<1>1. Shaped(NewWorld)
  BY DEF NewWorld, Shaped, Fields
<1>2. /\ NewWorld.state = "reset" /\ NewWorld.status = "running" /\ NewWorld.code = "none"
      /\ NewWorld.clock = 0 /\ NewWorld.samples = <<>> /\ NewWorld.trackers = NoTrackers
  BY DEF NewWorld
<1>3. NewWorld.collided = FALSE /\ NewWorld.closed = FALSE
  BY DEF NewWorld
<1>4. /\ NewWorld.reach = NotAssessed
      /\ NewWorld.log = NewLog /\ NewWorld.written = {} /\ NewWorld.sent = {}
  BY DEF NewWorld
<1> QED BY <1>1, <1>2, <1>3, <1>4

-----------------------------------------------------------------------------
(* A step of the executor.                                                 *)

Todo(see, plan) ==
  IF plan.abort THEN <<>> ELSE Commands(Configs[policy], world.state, Planned(see))

\* Execute, field by field: what was noticed and planned, and how long the commands took.
Moves(see, reach, detected, plan, took, shut) ==
  /\ see \in Sights(scene, world.state)
  /\ reach \in Assessments(world, see)
  /\ detected \in Detections(Tracked(world.trackers, PressedPairs(SampleContacts(see.points)),
                                     Elapsed(world)))
  /\ plan = P(policy)!Plan(Observation(Noticed(world, see, detected, reach)))
  /\ \/ Todo(see, plan) = <<>> /\ took = 0 /\ shut = world.closed
     \/ /\ Todo(see, plan) # <<>> /\ shut = ShutBy(world.closed, Todo(see, plan))
        /\ \E result \in Results(Todo(see, plan)) : took = result[1]
  /\ Shaped(world')
  /\ world'.samples = Append(world.samples, SampleOf(world, see))
  /\ world'.trackers = Tracked(world.trackers, PressedPairs(SampleContacts(see.points)),
                               Elapsed(world))
  /\ world'.collided = (world.collided \/ detected)
  /\ world'.reach = reach
  /\ world'.sent = world.sent \cup Targets(Todo(see, plan))
  /\ world'.clock = world.clock + took
  /\ world'.closed = shut
  /\ world'.code = world.code
  /\ world'.state = plan.next
  /\ world'.log = Transition(world.log, world.state, plan, world.clock + took)
  /\ world'.written = world.written \cup P(policy)!Milestones(world.state, plan.next)
  /\ world'.status = IF P(policy)!Milestones(world.state, plan.next) \cap world.written # {}
                     THEN "failed" ELSE world.status

LEMMA NothingTargeted == Targets(<<>>) = {}
BY DEF Targets

LEMMA ExecuteMoves ==
  ASSUME Shaped(world), world.clock \in Nat, Execute
  PROVE  \E see, reach, detected, plan, took, shut :
           Moves(see, reach, detected, plan, took, shut)
<1>1. PICK see \in Sights(scene, world.state) :
       \E reach \in Assessments(world, see),
          detected \in Detections(Tracked(world.trackers,
                                          PressedPairs(SampleContacts(see.points)),
                                          Elapsed(world))) :
         LET w    == [Observed(world, see, detected) EXCEPT !.reach = reach]
             plan == P(policy)!Plan(Observation(w))
             todo == IF plan.abort THEN <<>>
                     ELSE Commands(Configs[policy], w.state, Planned(see))
         IN  \/ todo = <<>> /\ world' = Crossed(w, plan)
             \/ /\ todo # <<>>
                /\ \E result \in Results(todo) :
                     world' = Crossed(Executed(w, todo, result), plan)
  BY DEF Execute
<1>2. PICK reach \in Assessments(world, see),
           detected \in Detections(Tracked(world.trackers,
                                           PressedPairs(SampleContacts(see.points)),
                                           Elapsed(world))) :
         LET w    == [Observed(world, see, detected) EXCEPT !.reach = reach]
             plan == P(policy)!Plan(Observation(w))
             todo == IF plan.abort THEN <<>>
                     ELSE Commands(Configs[policy], w.state, Planned(see))
         IN  \/ todo = <<>> /\ world' = Crossed(w, plan)
             \/ /\ todo # <<>>
                /\ \E result \in Results(todo) :
                     world' = Crossed(Executed(w, todo, result), plan)
  BY <1>1
<1> DEFINE w == Noticed(world, see, detected, reach)
           plan == P(policy)!Plan(Observation(w))
           todo == IF plan.abort THEN <<>>
                     ELSE Commands(Configs[policy], w.state, Planned(see))
<1>3. \/ todo = <<>> /\ world' = Crossed(w, plan)
      \/ /\ todo # <<>>
         /\ \E result \in Results(todo) : world' = Crossed(Executed(w, todo, result), plan)
  BY <1>2 DEF Noticed
<1>4. /\ Shaped(w)
      /\ w.samples = Append(world.samples, SampleOf(world, see))
      /\ w.trackers = Tracked(world.trackers, PressedPairs(SampleContacts(see.points)),
                              Elapsed(world))
      /\ w.collided = (world.collided \/ detected)
      /\ w.state = world.state /\ w.status = world.status /\ w.code = world.code
      /\ w.clock = world.clock /\ w.reach = reach /\ w.closed = world.closed
      /\ w.log = world.log /\ w.written = world.written /\ w.sent = world.sent
  BY NoticedFields
<1>5. todo = Todo(see, plan)
  BY <1>4 DEF Todo
<1>6. plan = P(policy)!Plan(Observation(Noticed(world, see, detected, reach)))
  OBVIOUS
<1> HIDE DEF w, plan, todo
<1>7. CASE todo = <<>> /\ world' = Crossed(w, plan)
  <2>1. Past(world', w, plan)
    BY <1>4, <1>7, CrossedFields
  <2>2. w.clock = world.clock + 0
    BY <1>4
  <2>3. Targets(Todo(see, plan)) = {}
    BY <1>5, <1>7, NothingTargeted
  <2>4. Moves(see, reach, detected, plan, 0, world.closed)
    BY <1>4, <1>5, <1>6, <1>7, <2>1, <2>2, <2>3 DEF Moves, Past
  <2> QED BY <2>4
<1>8. CASE /\ todo # <<>>
           /\ \E result \in Results(todo) : world' = Crossed(Executed(w, todo, result), plan)
  <2>1. PICK result \in Results(todo) : world' = Crossed(Executed(w, todo, result), plan)
    BY <1>8
  <2> DEFINE e == Executed(w, todo, result)
  <2>2. /\ Shaped(e)
        /\ e.clock = w.clock + result[1] /\ e.closed = ShutBy(w.closed, todo)
        /\ e.samples = w.samples /\ e.trackers = w.trackers /\ e.collided = w.collided
        /\ e.state = w.state /\ e.status = w.status /\ e.code = w.code
        /\ e.reach = w.reach /\ e.log = w.log /\ e.written = w.written
        /\ e.sent = w.sent \cup Targets(todo)
    BY <1>4, ExecutedFields
  <2>3. world' = Crossed(e, plan)
    BY <2>1
  <2> HIDE DEF e
  <2>4. Past(world', e, plan)
    BY <2>2, <2>3, CrossedFields
  <2>5. Moves(see, reach, detected, plan, result[1], ShutBy(world.closed, Todo(see, plan)))
    BY <1>4, <1>5, <1>6, <1>8, <2>2, <2>4 DEF Moves, Past
  <2> QED BY <2>5
<1> QED BY <1>3, <1>7, <1>8

LEMMA StatesAre ==
  States = {"reset", "observe", "plan", "approach", "grasp", "verify_grasp", "lift",
            "transfer", "release", "verify_place", "retract", "terminal"}
BY DEF States, P!ControllerStates

\* The moves of the controller that no policy calls an abort.
Onward ==
  {<<"reset", "observe">>, <<"observe", "plan">>, <<"plan", "approach">>,
   <<"approach", "grasp">>, <<"grasp", "verify_grasp">>, <<"verify_grasp", "lift">>,
   <<"verify_grasp", "approach">>, <<"lift", "transfer">>, <<"transfer", "release">>,
   <<"release", "verify_place">>, <<"verify_place", "retract">>, <<"retract", "terminal">>}

LEMMA AbortGoes ==
  ASSUME NEW state \in States \ {"terminal", "retract"}, NEW plan, plan = P(policy)!Abort(state)
  PROVE  /\ plan.abort = TRUE
         /\ plan.next = IF state = "reset" THEN "terminal" ELSE "retract"
<1>1. plan.abort = TRUE /\ plan.next = P(policy)!AbortTarget(state)
  BY DEF P!Abort
<1>2. state # "reset" => <<state, "retract">> \in P(policy)!AbortSources \X {"retract"}
  BY StatesAre DEF P!AbortSources, P!ControllerStates
<1>3. state # "reset" => <<state, "retract">> \in P(policy)!AllowedTransitions
  BY <1>2 DEF P!AllowedTransitions
<1>4. <<"reset", "retract">> \notin P(policy)!AllowedTransitions
  BY DEF P!AllowedTransitions, P!HappyPathTransitions, P!RegraspTransitions,
         P!AbortSources, P!ErrorSources
<1> QED BY <1>1, <1>3, <1>4 DEF P!AbortTarget

LEMMA PlanGoes ==
  ASSUME NEW obs, obs.state \in States \ {"terminal"}, NEW plan, plan = P(policy)!Plan(obs)
  PROVE  /\ plan.abort \in BOOLEAN
         /\ plan.abort => /\ obs.state # "retract"
                          /\ plan.next = IF obs.state = "reset" THEN "terminal" ELSE "retract"
         /\ ~plan.abort => <<obs.state, plan.next>> \in Onward
<1>1. CASE P(policy)!MustAbort(obs)
  <2>1. plan = P(policy)!Abort(obs.state)
    BY <1>1 DEF P!Plan
  <2>2. obs.state # "retract"
    BY <1>1 DEF P!MustAbort
  <2> QED BY <2>1, <2>2, AbortGoes
<1>2. CASE ~P(policy)!MustAbort(obs) /\ obs.state = "verify_grasp"
  <2>1. plan = P(policy)!VerifyGrasp(obs)
    BY <1>2 DEF P!Plan
  <2>2. CASE plan = P(policy)!Abort("verify_grasp")
    <3>1. "verify_grasp" \in States \ {"terminal", "retract"}
      BY StatesAre
    <3> QED BY <1>2, <2>2, <3>1, AbortGoes
  <2>3. CASE plan # P(policy)!Abort("verify_grasp")
    <3>1. \/ plan = P(policy)!Decision("lift")
          \/ plan = [next |-> "approach", abort |-> FALSE, regrasp |-> TRUE]
      BY <2>1, <2>3 DEF P!VerifyGrasp
    <3>2. plan.abort = FALSE /\ plan.next \in {"lift", "approach"}
      BY <3>1 DEF P!Decision
    <3> QED BY <1>2, <3>2 DEF Onward
  <2> QED BY <2>2, <2>3
<1>3. CASE ~P(policy)!MustAbort(obs) /\ obs.state # "verify_grasp"
  <2>1. plan = P(policy)!Decision(P(policy)!Advance[obs.state])
    BY <1>3 DEF P!Plan
  <2>2. plan.abort = FALSE /\ plan.next = P(policy)!Advance[obs.state]
    BY <2>1 DEF P!Decision
  <2>3. <<obs.state, P(policy)!Advance[obs.state]>> \in Onward
    BY <1>3, StatesAre DEF P!Advance, Onward
  <2> QED BY <2>2, <2>3
<1> QED BY <1>1, <1>2, <1>3

-----------------------------------------------------------------------------
(* Sequences of samples.                                                   *)

Samples ==
  [t : Nat, in : States, shut : BOOLEAN, points : SUBSET Points, grip : Grips,
   high : BOOLEAN, place : Places, still : BOOLEAN]

InOrder(samples) == \A i, j \in DOMAIN samples : i < j => samples[i].t <= samples[j].t

LEMMA Grows ==
  ASSUME NEW S, NEW s \in Seq(S), NEW x \in S, NEW r, r = Append(s, x)
  PROVE  /\ r \in Seq(S) /\ Len(s) \in Nat /\ Len(r) = Len(s) + 1
         /\ DOMAIN s = 1..Len(s) /\ DOMAIN r = 1..(Len(s) + 1)
         /\ \A i \in 1..Len(s) : r[i] = s[i]
         /\ r[Len(s) + 1] = x
OBVIOUS

\* The new sequence has the old elements and the new one.
LEMMA GrowsBy ==
  ASSUME NEW S, NEW s \in Seq(S), NEW x \in S, NEW r, r = Append(s, x)
  PROVE  /\ \A i \in DOMAIN r : (i \in DOMAIN s /\ r[i] = s[i]) \/ (i = Len(s) + 1 /\ r[i] = x)
         /\ \A i \in DOMAIN s : s[i] \in S /\ i \in Nat /\ i <= Len(s)
<1>2. /\ Len(s) \in Nat /\ DOMAIN s = 1..Len(s) /\ DOMAIN r = 1..(Len(s) + 1)
      /\ \A i \in 1..Len(s) : r[i] = s[i]
      /\ r[Len(s) + 1] = x
  BY Grows
<1>1. ASSUME NEW i \in DOMAIN s
      PROVE  s[i] \in S /\ i \in Nat /\ i <= Len(s)
  <2>1. s[i] \in S
    OBVIOUS
  <2>2. i \in 1..Len(s)
    BY <1>2
  <2> QED BY <1>2, <2>1, <2>2
<1>3. ASSUME NEW i \in DOMAIN r
      PROVE  (i \in DOMAIN s /\ r[i] = s[i]) \/ (i = Len(s) + 1 /\ r[i] = x)
  <2>1. i \in 1..(Len(s) + 1)
    BY <1>2
  <2>2. i \in 1..Len(s) \/ i = Len(s) + 1
    BY <1>2, <2>1
  <2> QED BY <1>2, <2>2
<1> QED BY <1>1, <1>3

LEMMA GripOfEvents ==
  ASSUME NEW events
  PROVE  Grip(events) \in Grips
BY DEF Grip, Grips

-----------------------------------------------------------------------------
(* Types, and the order of the samples.                                    *)

WorldTyped ==
  /\ scene \in Scenes /\ policy \in Policies
  /\ Shaped(world)
  /\ world.state \in States
  /\ world.closed \in BOOLEAN /\ world.collided \in BOOLEAN
  /\ world.clock \in Nat
  /\ world.samples \in Seq(Samples)
  /\ \A i \in DOMAIN world.samples :
       /\ world.samples[i].grip = Grip(SampleContacts(world.samples[i].points))
       /\ world.samples[i].t <= world.clock
  /\ InOrder(world.samples)

LEMMA WorldTypedBegins ==
  ASSUME Init
  PROVE  WorldTyped
<1>1. world = NewWorld
  BY DEF Init
<1>2. /\ Shaped(world) /\ world.state = "reset" /\ world.closed = FALSE
      /\ world.collided = FALSE /\ world.clock = 0 /\ world.samples = <<>>
  BY <1>1, NewWorldFields
<1>3. world.samples \in Seq(Samples) /\ DOMAIN world.samples = {}
  BY <1>2
<1>4. world.state \in States /\ world.closed \in BOOLEAN /\ world.collided \in BOOLEAN
  BY <1>2, StatesAre
<1> QED BY <1>2, <1>3, <1>4 DEF WorldTyped, InOrder, Init

\* A step of a typed world is one of Moves, and its sample is one.
LEMMA SampleTaken ==
  ASSUME WorldTyped, Execute
  PROVE  \E see, reach, detected, plan, took, shut :
           /\ Moves(see, reach, detected, plan, took, shut)
           /\ SampleOf(world, see) \in Samples
           /\ took \in Nat /\ shut \in BOOLEAN /\ detected \in BOOLEAN
           /\ see \in Seen
<1>1. Shaped(world) /\ world.clock \in Nat
  BY DEF WorldTyped
<1>2. PICK see, reach, detected, plan, took, shut :
             Moves(see, reach, detected, plan, took, shut)
  BY <1>1, ExecuteMoves
<1>3. scene \in Scenes /\ world.state \in States
  BY DEF WorldTyped
<1>4. see \in Seen
  BY <1>2, <1>3, PhysicsAssumption DEF Moves
<1>5. SampleOf(world, see) \in Samples
  <2>1. see.points \in SUBSET Points /\ see.high \in BOOLEAN
    BY <1>4 DEF Seen
  <2>2. see.place \in Places /\ see.still \in BOOLEAN
    BY <1>4 DEF Seen
  <2>3. world.clock \in Nat /\ world.closed \in BOOLEAN
    BY DEF WorldTyped
  <2>4. Grip(SampleContacts(see.points)) \in Grips
    BY GripOfEvents
  <2> DEFINE g == Grip(SampleContacts(see.points))
  <2>5. SampleOf(world, see) =
          [t |-> world.clock, in |-> world.state, shut |-> world.closed, points |-> see.points,
           grip |-> g, high |-> see.high, place |-> see.place, still |-> see.still]
    BY DEF SampleOf
  <2>6. g \in Grips
    BY <2>4
  <2> HIDE DEF g
  <2> QED BY <1>3, <2>1, <2>2, <2>3, <2>5, <2>6 DEF Samples
<1>6. took \in Nat
  <2>1. CASE took = 0
    BY <2>1
  <2>2. CASE \E result \in Results(Todo(see, plan)) : took = result[1]
    <3>1. PICK result \in Results(Todo(see, plan)) : took = result[1]
      BY <2>2
    <3>2. result \in Takes(scene, world.state)
      BY DEF Results
    <3>3. result \in Nat \X STRING
      BY <1>3, <3>2, PhysicsAssumption
    <3> QED BY <3>1, <3>3
  <2> QED BY <1>2, <2>1, <2>2 DEF Moves
<1>7. shut \in BOOLEAN
  <2>1. shut = world.closed \/ shut = ShutBy(world.closed, Todo(see, plan))
    BY <1>2 DEF Moves
  <2>2. world.closed \in BOOLEAN
    BY DEF WorldTyped
  <2>3. \A c \in BOOLEAN : ShutBy(c, Todo(see, plan)) \in BOOLEAN
    BY DEF ShutBy
  <2> QED BY <2>1, <2>2, <2>3
<1>8. detected \in BOOLEAN
  <2> DEFINE tr == Tracked(world.trackers, PressedPairs(SampleContacts(see.points)),
                           Elapsed(world))
  <2>1. detected \in Detections(tr)
    BY <1>2 DEF Moves
  <2> HIDE DEF tr
  <2> QED BY <2>1 DEF Detections
<1> QED BY <1>2, <1>4, <1>5, <1>6, <1>7, <1>8

LEMMA WorldTypedKept ==
  ASSUME WorldTyped, Execute
  PROVE  WorldTyped'
<1>1. PICK see, reach, detected, plan, took, shut :
        /\ Moves(see, reach, detected, plan, took, shut)
        /\ SampleOf(world, see) \in Samples
        /\ took \in Nat /\ shut \in BOOLEAN /\ detected \in BOOLEAN
        /\ see \in Seen
  BY SampleTaken
<1> DEFINE s == world.samples
           x == SampleOf(world, see)
           r == world'.samples
<1>2. s \in Seq(Samples) /\ x \in Samples /\ r = Append(s, x)
  BY <1>1 DEF WorldTyped, Moves
<1>3. x.t = world.clock /\ x.grip = Grip(SampleContacts(x.points))
  BY DEF SampleOf
<1>4. world.clock \in Nat /\ world'.clock = world.clock + took
  BY <1>1 DEF WorldTyped, Moves
<1>5. /\ \A i \in DOMAIN s : s[i].grip = Grip(SampleContacts(s[i].points))
      /\ \A i \in DOMAIN s : s[i].t <= world.clock
      /\ InOrder(s)
  BY DEF WorldTyped
<1> HIDE DEF s, x, r
<1>6. /\ r \in Seq(Samples) /\ Len(s) \in Nat
      /\ DOMAIN s = 1..Len(s) /\ DOMAIN r = 1..(Len(s) + 1)
      /\ \A i \in 1..Len(s) : r[i] = s[i]
      /\ r[Len(s) + 1] = x
  BY <1>2, Grows
<1>7. /\ \A i \in DOMAIN r : (i \in DOMAIN s /\ r[i] = s[i]) \/ (i = Len(s) + 1 /\ r[i] = x)
      /\ \A i \in DOMAIN s : s[i] \in Samples /\ i \in Nat /\ i <= Len(s)
  BY <1>2, GrowsBy
<1>8. \A i \in DOMAIN s : s[i].t \in Nat
  BY <1>7 DEF Samples
<1>9. \A i \in DOMAIN r : /\ r[i].grip = Grip(SampleContacts(r[i].points))
                          /\ r[i].t <= world'.clock
  BY <1>1, <1>3, <1>4, <1>5, <1>7, <1>8
<1>10. InOrder(r)
  <2> SUFFICES ASSUME NEW i \in DOMAIN r, NEW j \in DOMAIN r, i < j PROVE r[i].t <= r[j].t
    BY DEF InOrder
  <2>1. i \in DOMAIN s /\ r[i] = s[i]
    BY <1>6, <1>7
  <2> QED BY <1>3, <1>5, <1>7, <2>1 DEF InOrder
<1>11. scene' = scene /\ policy' = policy
  BY DEF Execute
<1>12. world'.state \in States
  <2>1. world.state \in States \ {"terminal"}
    BY DEF WorldTyped, Execute
  <2> DEFINE obs == Observation(Noticed(world, see, detected, reach))
  <2>2. obs.state = world.state
    <3>1. Noticed(world, see, detected, reach).state = world.state
      BY NoticedFields DEF WorldTyped
    <3> QED BY <3>1 DEF Observation
  <2>3. plan = P(policy)!Plan(obs) /\ world'.state = plan.next
    BY <1>1 DEF Moves
  <2> HIDE DEF obs
  <2>4. \/ plan.next \in {"terminal", "retract"}
        \/ <<obs.state, plan.next>> \in Onward
    BY <2>1, <2>2, <2>3, PlanGoes
  <2> QED BY <2>3, <2>4, StatesAre DEF Onward
<1>13. world'.closed \in BOOLEAN /\ world'.collided \in BOOLEAN
  BY <1>1 DEF Moves, WorldTyped
<1>14. Shaped(world') /\ world'.clock \in Nat
  BY <1>1, <1>4 DEF Moves
<1> QED BY <1>6, <1>9, <1>10, <1>11, <1>12, <1>13, <1>14 DEF WorldTyped, r

-----------------------------------------------------------------------------
(* The collision monitor: what it has timed for a pair is the time since   *)
(* the first of the latest samples that all press it.                      *)

PressesPair(s, pair) == pair \in PressedPairs(SampleContacts(s.points))

PressedSince(samples, i, pair) == \A k \in i..Len(samples) : PressesPair(samples[k], pair)

Timed(samples, trackers) ==
  /\ \A pair \in ProhibitedPairs :
       pair \in DOMAIN trackers <=>
         samples # <<>> /\ PressesPair(samples[Len(samples)], pair)
  /\ DOMAIN trackers \subseteq ProhibitedPairs
  /\ \A pair \in DOMAIN trackers :
       /\ \E i \in DOMAIN samples :
            /\ PressedSince(samples, i, pair)
            /\ trackers[pair] = samples[Len(samples)].t - samples[i].t
       /\ \A i \in DOMAIN samples :
            PressedSince(samples, i, pair)
              => samples[Len(samples)].t - samples[i].t <= trackers[pair]

\* Some pair was pressed at every sample over that many updates.
PressedFor(samples, updates) ==
  \E i, j \in DOMAIN samples, pair \in ProhibitedPairs :
    /\ i <= j /\ samples[j].t - samples[i].t >= updates
    /\ \A k \in i..j : PressesPair(samples[k], pair)

\* At exactly 0.05 s the comparison may fall on either side.
Reported(samples, collided) ==
  /\ collided => PressedFor(samples, CollisionDuration)
  /\ PressedFor(samples, CollisionDuration + 1) => collided

LEMMA SinceBefore ==
  ASSUME NEW s \in Seq(Samples), NEW x \in Samples, NEW r, r = Append(s, x), NEW pair,
         NEW i \in DOMAIN s
  PROVE  PressedSince(r, i, pair) <=> PressedSince(s, i, pair) /\ PressesPair(x, pair)
<1>1. /\ Len(s) \in Nat /\ Len(r) = Len(s) + 1
      /\ DOMAIN s = 1..Len(s)
      /\ \A k \in 1..Len(s) : r[k] = s[k]
      /\ r[Len(s) + 1] = x
  BY Grows
<1>2. i \in 1..Len(s)
  BY <1>1
<1>3. \A k \in i..Len(s) : k \in 1..Len(s) /\ k \in i..(Len(s) + 1)
  BY <1>1, <1>2
<1>4. \A k \in i..(Len(s) + 1) : k \in i..Len(s) \/ k = Len(s) + 1
  BY <1>1, <1>2
<1>5. Len(s) + 1 \in i..(Len(s) + 1)
  BY <1>1, <1>2
<1> QED BY <1>1, <1>3, <1>4, <1>5 DEF PressedSince

LEMMA TimedOneMore ==
  ASSUME NEW s \in Seq(Samples), NEW trackers, Timed(s, trackers), InOrder(s),
         NEW x \in Samples, \A i \in DOMAIN s : s[i].t <= x.t,
         NEW elapsed, elapsed = IF s = <<>> THEN 0 ELSE x.t - Last(s).t,
         NEW r, r = Append(s, x),
         NEW now, now = Tracked(trackers, PressedPairs(SampleContacts(x.points)), elapsed)
  PROVE  Timed(r, now)
<1>1. /\ r \in Seq(Samples) /\ Len(s) \in Nat /\ Len(r) = Len(s) + 1
      /\ DOMAIN s = 1..Len(s) /\ DOMAIN r = 1..(Len(s) + 1)
      /\ \A k \in 1..Len(s) : r[k] = s[k]
      /\ r[Len(s) + 1] = x
  BY Grows
<1>2. /\ \A i \in DOMAIN r : (i \in DOMAIN s /\ r[i] = s[i]) \/ (i = Len(s) + 1 /\ r[i] = x)
      /\ \A i \in DOMAIN s : s[i] \in Samples /\ i \in Nat /\ i <= Len(s)
  BY GrowsBy
<1>3. x.t \in Nat /\ \A i \in DOMAIN s : s[i].t \in Nat
  BY <1>2 DEF Samples
<1>4. r # <<>> /\ r[Len(r)] = x
  BY <1>1
<1>5. DOMAIN now = PressedPairs(SampleContacts(x.points))
  BY DEF Tracked
<1>6. DOMAIN now \subseteq ProhibitedPairs
  BY <1>5 DEF PressedPairs
<1>7. \A pair \in DOMAIN now : PressesPair(x, pair)
  BY <1>5 DEF PressesPair
<1>8. ASSUME NEW pair \in DOMAIN now
      PROVE  /\ \E i \in DOMAIN r : PressedSince(r, i, pair) /\ now[pair] = x.t - r[i].t
             /\ \A i \in DOMAIN r : PressedSince(r, i, pair) => x.t - r[i].t <= now[pair]
  <2>1. now[pair] = IF pair \in DOMAIN trackers THEN trackers[pair] + elapsed ELSE 0
    BY <1>5 DEF Tracked
  <2>2. PressedSince(r, Len(s) + 1, pair) /\ Len(s) + 1 \in DOMAIN r
    <3>1. \A k \in (Len(s) + 1)..Len(r) : k = Len(s) + 1
      BY <1>1
    <3>2. PressedSince(r, Len(s) + 1, pair)
      BY <1>1, <1>7, <3>1 DEF PressedSince
    <3> QED BY <1>1, <3>2
  <2>3. CASE pair \in DOMAIN trackers
    <3>1. s # <<>> /\ pair \in ProhibitedPairs
      BY <2>3 DEF Timed
    <3>2. Len(s) \in DOMAIN s /\ Last(s) = s[Len(s)]
      BY <1>1, <3>1 DEF Last
    <3>3. elapsed = x.t - s[Len(s)].t /\ s[Len(s)].t \in Nat
      BY <1>3, <3>1, <3>2
    <3>4. PICK i \in DOMAIN s : /\ PressedSince(s, i, pair)
                                /\ trackers[pair] = s[Len(s)].t - s[i].t
      BY <2>3 DEF Timed
    <3>5. PressedSince(r, i, pair) /\ i \in DOMAIN r /\ r[i] = s[i]
      <4>1. PressedSince(r, i, pair)
        BY <1>7, <3>4, SinceBefore
      <4>2. i \in 1..Len(s)
        BY <1>1
      <4>3. i \in 1..(Len(s) + 1)
        BY <1>1, <4>2
      <4> QED BY <1>1, <4>1, <4>2, <4>3
    <3>6. now[pair] = x.t - r[i].t
      BY <1>3, <2>1, <2>3, <3>3, <3>4, <3>5
    <3>7. ASSUME NEW j \in DOMAIN r, PressedSince(r, j, pair)
          PROVE  x.t - r[j].t <= now[pair]
      <4>1. CASE j = Len(s) + 1
        <5>1. r[j] = x /\ s[i].t <= x.t
          BY <1>1, <4>1
        <5> QED BY <1>3, <3>5, <3>6, <5>1
      <4>2. CASE j \in DOMAIN s /\ r[j] = s[j]
        <5>1. PressedSince(s, j, pair)
          BY <3>7, <4>2, SinceBefore
        <5>2. s[Len(s)].t - s[j].t <= trackers[pair]
          BY <2>3, <4>2, <5>1 DEF Timed
        <5>3. s[j].t \in Nat /\ s[i].t \in Nat
          BY <1>3, <4>2
        <5>4. now[pair] = trackers[pair] + (x.t - s[Len(s)].t)
          BY <2>1, <2>3, <3>3
        <5> QED BY <1>3, <3>3, <3>4, <4>2, <5>2, <5>3, <5>4
      <4> QED BY <1>2, <4>1, <4>2
    <3> QED BY <3>5, <3>6, <3>7
  <2>4. CASE pair \notin DOMAIN trackers
    <3>1. now[pair] = 0
      BY <2>1, <2>4
    <3>2. now[pair] = x.t - r[Len(s) + 1].t
      BY <1>1, <1>3, <3>1
    <3>3. ASSUME NEW j \in DOMAIN r, PressedSince(r, j, pair)
          PROVE  x.t - r[j].t <= now[pair]
      <4>1. CASE j = Len(s) + 1
        BY <1>1, <1>3, <3>1, <4>1
      <4>2. CASE j \in DOMAIN s
        <5>1. PressedSince(s, j, pair)
          BY <3>3, <4>2, SinceBefore
        <5>2. Len(s) \in j..Len(s) /\ s # <<>>
          BY <1>1, <1>2, <4>2
        <5>3. PressesPair(s[Len(s)], pair)
          BY <5>1, <5>2 DEF PressedSince
        <5>4. pair \in ProhibitedPairs
          BY <1>6
        <5> QED BY <2>4, <5>2, <5>3, <5>4 DEF Timed
      <4> QED BY <1>2, <4>1, <4>2
    <3> QED BY <2>2, <3>2, <3>3
  <2> QED BY <2>3, <2>4
<1>9. \A pair \in ProhibitedPairs :
        pair \in DOMAIN now <=> r # <<>> /\ PressesPair(r[Len(r)], pair)
  BY <1>4, <1>5 DEF PressesPair
<1> QED BY <1>4, <1>6, <1>8, <1>9 DEF Timed

\* What was pressed before is pressed for as long with one sample more.
LEMMA PressedForMore ==
  ASSUME NEW s \in Seq(Samples), NEW x \in Samples, NEW r, r = Append(s, x), NEW updates \in Nat,
         PressedFor(s, updates)
  PROVE  PressedFor(r, updates)
<1>1. /\ Len(s) \in Nat
      /\ DOMAIN s = 1..Len(s) /\ DOMAIN r = 1..(Len(s) + 1)
      /\ \A k \in 1..Len(s) : r[k] = s[k]
  BY Grows
<1>2. PICK i \in DOMAIN s, j \in DOMAIN s, pair \in ProhibitedPairs :
        /\ i <= j /\ s[j].t - s[i].t >= updates
        /\ \A k \in i..j : PressesPair(s[k], pair)
  BY DEF PressedFor
<1>3. i \in 1..Len(s) /\ j \in 1..Len(s)
  BY <1>1
<1>4. i \in DOMAIN r /\ j \in DOMAIN r /\ r[i] = s[i] /\ r[j] = s[j]
  BY <1>1, <1>3
<1>5. \A k \in i..j : r[k] = s[k]
  BY <1>1, <1>3
<1>6. \A k \in i..j : PressesPair(r[k], pair)
  BY <1>2, <1>5
<1> QED BY <1>2, <1>4, <1>6 DEF PressedFor

LEMMA DetectedIsPressed ==
  ASSUME NEW r \in Seq(Samples), r # <<>>, NEW now, Timed(r, now), NEW detected \in Detections(now)
  PROVE  /\ detected => PressedFor(r, CollisionDuration)
         /\ (\E pair \in DOMAIN now : now[pair] > CollisionDuration) => detected
<1>1. Len(r) \in Nat /\ Len(r) \in DOMAIN r /\ DOMAIN r = 1..Len(r)
  OBVIOUS
<1>2. \A i \in DOMAIN r : r[i] \in Samples
  OBVIOUS
<1>3. \A i \in DOMAIN r : r[i].t \in Nat
  BY <1>2 DEF Samples
<1>4. \A pair \in DOMAIN now : now[pair] \in Int
  BY <1>1, <1>3 DEF Timed
<1>5. ASSUME detected
      PROVE  PressedFor(r, CollisionDuration)
  <2>1. PICK pair \in DOMAIN now : now[pair] >= CollisionDuration
    BY <1>4, <1>5 DEF Detections, CollisionDuration
  <2>2. PICK i \in DOMAIN r : /\ PressedSince(r, i, pair)
                              /\ now[pair] = r[Len(r)].t - r[i].t
    BY DEF Timed
  <2>3. pair \in ProhibitedPairs
    BY DEF Timed
  <2>4. i <= Len(r)
    BY <1>1
  <2>5. r[Len(r)].t - r[i].t >= CollisionDuration
    BY <2>1, <2>2
  <2> QED BY <1>1, <2>2, <2>3, <2>4, <2>5 DEF PressedFor, PressedSince
<1>6. ASSUME NEW pair \in DOMAIN now, now[pair] > CollisionDuration
      PROVE  detected
  <2>1. now[pair] >= CollisionDuration
    BY <1>4, <1>6 DEF CollisionDuration
  <2> QED BY <1>6, <2>1 DEF Detections
<1> QED BY <1>5, <1>6

\* What _observe makes of a detection: it is kept.
Either(kept, collided, detected) == kept = (collided \/ detected)

LEMMA CollidedOneMore ==
  ASSUME NEW s \in Seq(Samples), NEW x \in Samples, \A i \in DOMAIN s : s[i].t <= x.t,
         NEW r, r = Append(s, x), NEW now, Timed(r, now),
         NEW detected \in Detections(now), NEW collided, Reported(s, collided),
         NEW either, Either(either, collided, detected)
  PROVE  Reported(r, either)
<1>1. /\ r \in Seq(Samples) /\ Len(s) \in Nat /\ Len(r) = Len(s) + 1
      /\ DOMAIN s = 1..Len(s) /\ DOMAIN r = 1..(Len(s) + 1)
      /\ \A k \in 1..Len(s) : r[k] = s[k]
      /\ r[Len(s) + 1] = x
  BY Grows
<1>2. r # <<>>
  BY <1>1
<1>3. /\ detected => PressedFor(r, CollisionDuration)
      /\ (\E pair \in DOMAIN now : now[pair] > CollisionDuration) => detected
  BY <1>1, <1>2, DetectedIsPressed
<1>4. CollisionDuration \in Nat /\ CollisionDuration = 3
  BY DEF CollisionDuration
<1>5. collided => PressedFor(r, CollisionDuration)
  BY <1>4, PressedForMore DEF Reported
<1>6. ASSUME PressedFor(r, CollisionDuration + 1)
      PROVE  collided \/ detected
  <2>1. PICK i \in DOMAIN r, j \in DOMAIN r, pair \in ProhibitedPairs :
          /\ i <= j /\ r[j].t - r[i].t >= CollisionDuration + 1
          /\ \A k \in i..j : PressesPair(r[k], pair)
    BY <1>6 DEF PressedFor
  <2>2. i \in 1..(Len(s) + 1) /\ j \in 1..(Len(s) + 1) /\ i <= j
    BY <1>1, <2>1
  <2>3. CASE j = Len(s) + 1
    <3>1. PressedSince(r, i, pair) /\ r[j] = r[Len(r)]
      BY <1>1, <2>1, <2>3 DEF PressedSince
    <3>2. PressesPair(r[Len(r)], pair)
      BY <1>1, <2>1, <2>2, <2>3
    <3>3. pair \in DOMAIN now
      BY <1>2, <3>2 DEF Timed
    <3>4. r[Len(r)].t - r[i].t <= now[pair]
      BY <3>1, <3>3 DEF Timed
    <3>5. \A k \in DOMAIN r : r[k] \in Samples
      BY <1>1
    <3>6. r[Len(r)].t \in Nat /\ r[i].t \in Nat
      BY <1>1, <3>5 DEF Samples
    <3>7. now[pair] \in Int
      <4>1. PICK k \in DOMAIN r : now[pair] = r[Len(r)].t - r[k].t
        BY <3>3 DEF Timed
      <4>2. r[k].t \in Nat
        BY <3>5 DEF Samples
      <4> QED BY <3>6, <4>1, <4>2
    <3>8. now[pair] > CollisionDuration
      BY <1>4, <2>1, <3>1, <3>4, <3>6, <3>7
    <3> QED BY <1>3, <3>3, <3>8
  <2>4. CASE j # Len(s) + 1
    <3>1. i \in DOMAIN s /\ j \in DOMAIN s
      BY <1>1, <2>2, <2>4
    <3>2. r[i] = s[i] /\ r[j] = s[j]
      BY <1>1, <3>1
    <3>3. \A k \in i..j : r[k] = s[k]
      BY <1>1, <3>1
    <3>4. \A k \in i..j : PressesPair(s[k], pair)
      BY <2>1, <3>3
    <3>5. PressedFor(s, CollisionDuration + 1)
      BY <2>1, <3>1, <3>2, <3>4 DEF PressedFor
    <3> QED BY <3>5 DEF Reported
  <2> QED BY <2>3, <2>4
<1> QED BY <1>3, <1>5, <1>6 DEF Reported, Either

\* The inductive invariant of the monitor.
MonitorInv ==
  /\ WorldTyped
  /\ Timed(world.samples, world.trackers)
  /\ Reported(world.samples, world.collided)

LEMMA MonitorBegins ==
  ASSUME Init
  PROVE  MonitorInv
<1>1. world = NewWorld
  BY DEF Init
<1>2. world.samples = <<>> /\ world.trackers = NoTrackers /\ world.collided = FALSE
  BY <1>1, NewWorldFields
<1>3. DOMAIN world.samples = {} /\ DOMAIN world.trackers = {}
  BY <1>2 DEF NoTrackers
<1>4. Timed(world.samples, world.trackers)
  BY <1>2, <1>3 DEF Timed
<1>5. ~PressedFor(world.samples, CollisionDuration + 1)
  BY <1>3 DEF PressedFor
<1> QED BY <1>2, <1>4, <1>5, WorldTypedBegins DEF MonitorInv, Reported

LEMMA MonitorKept ==
  ASSUME MonitorInv, Execute
  PROVE  MonitorInv'
<1>1. WorldTyped /\ WorldTyped'
  BY WorldTypedKept DEF MonitorInv
<1>2. PICK see, reach, detected, plan, took, shut :
        /\ Moves(see, reach, detected, plan, took, shut)
        /\ SampleOf(world, see) \in Samples
  BY <1>1, SampleTaken
<1> DEFINE s == world.samples
           x == SampleOf(world, see)
           r == world'.samples
           now == world'.trackers
<1>3. s \in Seq(Samples) /\ x \in Samples /\ r = Append(s, x)
  BY <1>1, <1>2 DEF WorldTyped, Moves
<1>4. InOrder(s) /\ \A i \in DOMAIN s : s[i].t <= x.t
  BY <1>1 DEF WorldTyped, SampleOf
<1>5. now = Tracked(world.trackers, PressedPairs(SampleContacts(x.points)), Elapsed(world))
  BY <1>2 DEF Moves, SampleOf
<1>6. Elapsed(world) = IF s = <<>> THEN 0 ELSE x.t - Last(s).t
  BY DEF Elapsed, SampleOf
<1>7. Timed(s, world.trackers)
  BY DEF MonitorInv
<1>8. detected \in Detections(now)
  BY <1>2 DEF Moves
<1> DEFINE c == world.collided
           either == world'.collided
<1>9. Either(either, c, detected)
  BY <1>2 DEF Moves, Either
<1>10. Reported(s, c)
  BY DEF MonitorInv
<1> HIDE DEF s, x, r, now, c, either
<1>11. Timed(r, now)
  BY <1>3, <1>4, <1>5, <1>6, <1>7, TimedOneMore
<1>12. \A i \in DOMAIN s : s[i].t <= x.t
  BY <1>4
<1>13. Reported(r, either)
  BY <1>3, <1>8, <1>9, <1>10, <1>11, <1>12, CollidedOneMore
<1> QED BY <1>1, <1>11, <1>13 DEF MonitorInv, r, now, either

\* What the end of an attempt leaves as it is.
LEMMA FinalizeFields ==
  ASSUME Shaped(world), Finalize
  PROVE  /\ Shaped(world')
         /\ world'.status = Judgement(world).outcome /\ world'.code = Judgement(world).code
         /\ world'.samples = world.samples /\ world'.trackers = world.trackers
         /\ world'.collided = world.collided /\ world'.state = world.state
         /\ world'.clock = world.clock /\ world'.closed = world.closed
         /\ world'.reach = world.reach /\ world'.log = world.log
         /\ world'.written = world.written /\ world'.sent = world.sent
<1> DEFINE o == Judgement(world).outcome
           c == Judgement(world).code
<1>1. world' = [world EXCEPT !.status = o, !.code = c]
  BY DEF Finalize
<1> HIDE DEF o, c
<1>2. Shaped(world')
  BY <1>1 DEF Shaped, Fields
<1>3. world'.status = o /\ world'.code = c
  BY <1>1 DEF Shaped, Fields
<1>4. world'.samples = world.samples /\ world'.trackers = world.trackers
  BY <1>1 DEF Shaped, Fields
<1>5. world'.collided = world.collided /\ world'.state = world.state
  BY <1>1 DEF Shaped, Fields
<1>6. world'.clock = world.clock /\ world'.closed = world.closed
  BY <1>1 DEF Shaped, Fields
<1>7. world'.reach = world.reach /\ world'.log = world.log /\ world'.written = world.written
  BY <1>1 DEF Shaped, Fields
<1>8. world'.sent = world.sent
  BY <1>1 DEF Shaped, Fields
<1> QED BY <1>2, <1>3, <1>4, <1>5, <1>6, <1>7, <1>8 DEF o, c

LEMMA FinalizeKeepsMonitor ==
  ASSUME MonitorInv, Finalize
  PROVE  MonitorInv'
<1>1. Shaped(world)
  BY DEF MonitorInv, WorldTyped
<1>2. /\ Shaped(world')
      /\ world'.samples = world.samples /\ world'.trackers = world.trackers
      /\ world'.collided = world.collided /\ world'.state = world.state
      /\ world'.clock = world.clock /\ world'.closed = world.closed
  BY <1>1, FinalizeFields
<1>3. scene' = scene /\ policy' = policy
  BY DEF Finalize
<1>4. WorldTyped'
  BY <1>2, <1>3 DEF MonitorInv, WorldTyped
<1> QED BY <1>2, <1>4 DEF MonitorInv

\* The monitor has timed each pair since the first of the latest samples that all press
\* it, and reports a collision exactly when one was pressed for 0.05 s (contacts.py
\* CollisionMonitor.observe).
THEOREM MonitorInvariant == Spec => []MonitorInv
<1>1. Init => MonitorInv
  BY MonitorBegins
<1>2. MonitorInv /\ [Next]_vars => MonitorInv'
  <2> SUFFICES ASSUME MonitorInv, [Next]_vars PROVE MonitorInv'
    OBVIOUS
  <2>1. CASE Execute
    BY <2>1, MonitorKept
  <2>2. CASE Finalize
    BY <2>2, FinalizeKeepsMonitor
  <2>3. CASE UNCHANGED vars
    BY <2>3 DEF MonitorInv, WorldTyped, vars
  <2> QED BY <2>1, <2>2, <2>3 DEF Next
<1> QED BY <1>1, <1>2, PTL DEF Spec

\* The pair of a prohibited body matches an event exactly when the event is between the
\* robot and that body.
LEMMA PairOfBody ==
  ASSUME NEW s \in Samples, NEW body \in ProhibitedBodies
  PROVE  PressesPair(s, <<<<RobotBody, "*">>, <<body, "*">>>>)
           <=> \E p \in s.points : Between(p, RobotBody, body) /\ p.force >= 5
<1> DEFINE pair == <<<<RobotBody, "*">>, <<body, "*">>>>
<1>1. pair \in ProhibitedPairs
  BY DEF ProhibitedPairs
<1>2. \A x, y : DirectedMatch(pair, x, y) <=> RobotBody = x[1] /\ body = y[1]
  BY DEF DirectedMatch, SideMatches
<1>3. ASSUME NEW p
      PROVE  Matches(pair, NormalizedContact(p)) <=> Between(p, RobotBody, body)
  <2> DEFINE e == NormalizedContact(p)
             x == BodyNames[p.a[1]]
             y == BodyNames[p.b[1]]
  <2>1. e.a[1] = x /\ e.b[1] = y
    BY DEF NormalizedContact
  <2>2. Matches(pair, e) <=> (RobotBody = x /\ body = y) \/ (RobotBody = y /\ body = x)
    BY <1>2, <2>1 DEF Matches
  <2>3. Between(p, RobotBody, body) <=> {x, y} = {RobotBody, body}
    BY DEF Between
  <2> HIDE DEF e, x, y, pair
  <2>4. {x, y} = {RobotBody, body}
          <=> (RobotBody = x /\ body = y) \/ (RobotBody = y /\ body = x)
    OBVIOUS
  <2> QED BY <2>2, <2>3, <2>4 DEF e
<1>4. \A p : NormalizedContact(p).force = p.force
  BY DEF NormalizedContact
<1>5. pair \in PressedPairs(SampleContacts(s.points))
        <=> \E event \in SampleContacts(s.points) : Matches(pair, event) /\ event.force >= 5
  BY <1>1 DEF PressedPairs, CollisionForce
<1> HIDE DEF pair
<1>6. (\E event \in SampleContacts(s.points) : Matches(pair, event) /\ event.force >= 5)
        <=> \E p \in s.points : Matches(pair, NormalizedContact(p)) /\ p.force >= 5
  BY <1>4 DEF SampleContacts
<1> QED BY <1>3, <1>5, <1>6 DEF PressesPair, pair

LEMMA PressedIsReported ==
  ASSUME MonitorInv
  PROVE  CollisionMeansSustained
<1> DEFINE Presses(s, body) == \E p \in s.points : Between(p, RobotBody, body) /\ p.force >= 5
           Pressed(updates) ==
             \E i, j \in DOMAIN world.samples, body \in ProhibitedBodies :
               /\ i <= j /\ Span(i, j) >= updates
               /\ \A k \in i..j : Presses(world.samples[k], body)
<1>1. world.samples \in Seq(Samples)
  BY DEF MonitorInv, WorldTyped
<1>2. \A k \in DOMAIN world.samples : world.samples[k] \in Samples
  BY <1>1
<1>3. \A i, j \in DOMAIN world.samples : \A k \in i..j : k \in DOMAIN world.samples
  BY <1>1
<1>4. \A s \in Samples, body \in ProhibitedBodies :
        PressesPair(s, <<<<RobotBody, "*">>, <<body, "*">>>>) <=> Presses(s, body)
  BY PairOfBody
<1>5. ASSUME NEW updates
      PROVE  PressedFor(world.samples, updates) <=> Pressed(updates)
  <2>1. PressedFor(world.samples, updates) <=>
          \E i, j \in DOMAIN world.samples, body \in ProhibitedBodies :
            /\ i <= j /\ Span(i, j) >= updates
            /\ \A k \in i..j :
                 PressesPair(world.samples[k], <<<<RobotBody, "*">>, <<body, "*">>>>)
    BY DEF PressedFor, ProhibitedPairs, Span
  <2> HIDE DEF Presses
  <2>2. ASSUME NEW i \in DOMAIN world.samples, NEW j \in DOMAIN world.samples,
               NEW body \in ProhibitedBodies
        PROVE  (\A k \in i..j :
                  PressesPair(world.samples[k], <<<<RobotBody, "*">>, <<body, "*">>>>))
               <=> \A k \in i..j : Presses(world.samples[k], body)
    <3>1. \A k \in i..j : world.samples[k] \in Samples
      BY <1>2, <1>3
    <3> QED BY <1>4, <3>1
  <2> QED BY <2>1, <2>2
<1>6. CollisionMeansSustained <=>
        /\ world.collided => Pressed(CollisionDuration)
        /\ Pressed(CollisionDuration + 1) => world.collided
  BY DEF CollisionMeansSustained, Throughout
<1> QED BY <1>5, <1>6 DEF MonitorInv, Reported

\* A collision is reported exactly when one body was pressed at every sample over
\* 0.05 s, whatever is touched beside it or before: touches never add up, and none that
\* lasts is forgotten (contacts.py observe).
THEOREM CollisionsAreSustained == Spec => []CollisionMeansSustained
<1>1. MonitorInv => CollisionMeansSustained
  BY PressedIsReported
<1> QED BY <1>1, MonitorInvariant, PTL

-----------------------------------------------------------------------------
(* The pickup and the place: which of their waypoints were assessed, and   *)
(* within reach, when a policy is sent to them.                            *)

LEMMA PlanWithoutAbort ==
  ASSUME NEW obs, NEW plan, plan = P(policy)!Plan(obs), ~plan.abort
  PROVE  ~P(policy)!MustAbort(obs)
<1>1. ASSUME P(policy)!MustAbort(obs)
      PROVE  FALSE
  <2>1. plan = P(policy)!Abort(obs.state)
    BY <1>1 DEF P!Plan
  <2>2. plan.abort = TRUE
    BY <2>1 DEF P!Abort
  <2> QED BY <2>2
<1> QED BY <1>1

\* A waypoint that the policies and the executor compute apart.
InPickup(x) == x.over = "object" \/ x.height = "place"

\* On the way to the object, up with it, and to the bin.
Pursuing == {"approach", "grasp", "verify_grasp", "lift", "transfer"}

\* The fixed policy plans with one position of the object in all its states.
Plannable(object) == policy = "fixed" => object = Position("initial", "nominal")

\* PLAN has assessed the waypoints for one position of the object, and the collision-aware
\* policy has found them all in reach.
LookedAhead ==
  /\ \E object : Plannable(object) /\ DOMAIN world.reach = Assessed(Configs[policy], object)
  /\ policy = "collision_aware" => RequiredReachable(world.reach)

PickupInv ==
  /\ WorldTyped
  /\ world.state \in {"reset", "observe", "plan"} => world.sent = {}
  /\ world.state \in Pursuing => LookedAhead
  /\ \A x \in world.sent : InPickup(x) =>
       /\ LookedAhead
       /\ \E object : Plannable(object) /\ x \in Assessed(Configs[policy], object)

LEMMA TargetsOf ==
  ASSUME NEW S, NEW commands \in Seq(S)
  PROVE  Targets(commands) \subseteq {c.to : c \in S} \ {Nowhere}
<1>1. \A i \in DOMAIN commands : commands[i] \in S
  OBVIOUS
<1> QED BY <1>1 DEF Targets

\* What a state commands, as far as its waypoints are concerned.
LEMMA TargetsAmong ==
  ASSUME NEW config, NEW object, NEW S, NEW commands \in Seq(S),
         \A s \in S : \/ s.to = Nowhere \/ ~InPickup(s.to)
                      \/ s.to \in Assessed(config, object)
  PROVE  \A x \in Targets(commands) : InPickup(x) => x \in Assessed(config, object)
BY TargetsOf

LEMMA ApproachTargets ==
  ASSUME NEW config, config.approach \in Nat, NEW object
  PROVE  \A x \in Targets(ApproachCommands(config, object)) :
           InPickup(x) => x \in Assessed(config, object)
<1> DEFINE n == config.approach
           S == {Do("open"), Move(At("object", "approach", 0, object))}
                  \cup {Move(At("object", "staged", k, object)) : k \in 1..n}
           a == <<Do("open")>>
           b == [i \in 1..n |-> Move(At("object", "staged", n + 1 - i, object))]
           c == <<Move(At("object", "approach", 0, object))>>
<1>1. ApproachCommands(config, object) = a \o b \o c
  BY DEF ApproachCommands
<1>2. \A i \in 1..n : Move(At("object", "staged", n + 1 - i, object)) \in S
  <2>1. \A i \in 1..n : n + 1 - i \in 1..n
    OBVIOUS
  <2> QED BY <2>1
<1>3. a \in Seq(S) /\ c \in Seq(S)
  <2>1. Do("open") \in S /\ Move(At("object", "approach", 0, object)) \in S
    OBVIOUS
  <2> HIDE DEF S
  <2> QED BY <2>1
<1>4. b \in Seq(S)
  <2> HIDE DEF S
  <2> QED BY <1>2
<1>5. \A s \in S : s.to = Nowhere \/ s.to \in Assessed(config, object)
  BY DEF Do, Move, Assessed
<1> HIDE DEF S, a, b, c
<1>6. a \o b \o c \in Seq(S)
  BY <1>3, <1>4
<1> QED BY <1>1, <1>5, <1>6, TargetsAmong

LEMMA TransferTargets ==
  ASSUME NEW config, config.transfer \in Nat, NEW object
  PROVE  \A x \in Targets(TransferCommands(config, object)) :
           InPickup(x) => x \in Assessed(config, object)
<1> DEFINE n == config.transfer
           place == PlannedPlacePosition(object)
           S == {Move(At("bin", "lift", 0, place)), Move(At("bin", "place", 0, place))}
                  \cup {Move(At("between", "via", k, object)) : k \in 1..n}
           b == [i \in 1..n |-> Move(At("between", "via", i, object))]
           c == <<Move(At("bin", "lift", 0, place)), Move(At("bin", "place", 0, place))>>
<1>1. TransferCommands(config, object) = b \o c
  BY DEF TransferCommands
<1>2. b \in Seq(S)
  <2>1. \A i \in 1..n : Move(At("between", "via", i, object)) \in S
    OBVIOUS
  <2> HIDE DEF S
  <2> QED BY <2>1
<1>3. c \in Seq(S)
  <2>1. Move(At("bin", "lift", 0, place)) \in S /\ Move(At("bin", "place", 0, place)) \in S
    OBVIOUS
  <2> HIDE DEF S, place
  <2> QED BY <2>1
<1>4. \A s \in S : ~InPickup(s.to) \/ s.to \in Assessed(config, object)
  BY DEF Move, Assessed, InPickup, At
<1> HIDE DEF S, b, c
<1>5. b \o c \in Seq(S)
  BY <1>2, <1>3
<1> QED BY <1>1, <1>4, <1>5, TargetsAmong

LEMMA ReleaseTargets ==
  ASSUME NEW config, config.settles \in Nat \ {0}
  PROVE  Targets(ReleaseCommands(config)) = {}
<1> DEFINE S == {Do("open"), Do("settle")}
           a == <<Do("settle"), Do("open")>>
           b == [i \in 1..(config.settles - 1) |-> Do("settle")]
<1>1. ReleaseCommands(config) = IF config.settles = 1 THEN <<Do("open")>> ELSE a \o b
  BY DEF ReleaseCommands
<1>2. \A s \in S : s.to = Nowhere
  BY DEF Do
<1>3. Do("open") \in S /\ Do("settle") \in S
  OBVIOUS
<1> HIDE DEF S
<1>4. <<Do("open")>> \in Seq(S) /\ a \in Seq(S) /\ b \in Seq(S)
  BY <1>3
<1> HIDE DEF a, b
<1>5. ReleaseCommands(config) \in Seq(S)
  BY <1>1, <1>4
<1> QED BY <1>2, <1>5, TargetsOf

\* However many poses are staged, and wherever the object is planned to be, the commands
\* go to waypoints that an assessment would solve for: the two sides build their poses
\* apart, one from the highest down, one from the lowest up (base.py _approach_commands,
\* trial_execution.py _assess_reachability).
LEMMA PickupTargets ==
  ASSUME NEW config, config.approach \in Nat, config.transfer \in Nat,
         config.settles \in Nat \ {0}, NEW state \in States, NEW object
  PROVE  \A x \in Targets(Commands(config, state, object)) :
           InPickup(x) => x \in Assessed(config, object)
<1>1. CASE state = "approach"
  <2>1. Commands(config, state, object) = ApproachCommands(config, object)
    BY <1>1 DEF Commands
  <2> QED BY <2>1, ApproachTargets
<1>2. CASE state = "grasp"
  <2> DEFINE S == {Move(At("object", "grasp", 0, object)), Do("close"), Do("hold")}
             one == GraspCommands(object)
  <2>1. Commands(config, state, object) = one
    BY <1>2 DEF Commands
  <2>2. one \in Seq(S)
    BY DEF GraspCommands
  <2>3. \A s \in S : s.to = Nowhere \/ s.to \in Assessed(config, object)
    BY DEF Do, Move, Assessed
  <2> HIDE DEF S, one
  <2> QED BY <2>1, <2>2, <2>3, TargetsAmong
<1>3. CASE state = "lift"
  <2> DEFINE S == {Move(At("object", "lift", 0, object))}
             one == <<Move(At("object", "lift", 0, object))>>
  <2>1. Commands(config, state, object) = one
    BY <1>3 DEF Commands
  <2>2. one \in Seq(S)
    OBVIOUS
  <2>3. \A s \in S : s.to \in Assessed(config, object)
    BY DEF Move, Assessed
  <2> HIDE DEF S, one
  <2> QED BY <2>1, <2>2, <2>3, TargetsAmong
<1>4. CASE state = "transfer"
  <2>1. Commands(config, state, object) = TransferCommands(config, object)
    BY <1>4 DEF Commands
  <2> QED BY <2>1, TransferTargets
<1>5. CASE state = "release"
  <2>1. Commands(config, state, object) = ReleaseCommands(config)
    BY <1>5 DEF Commands
  <2> QED BY <2>1, ReleaseTargets
<1>6. CASE state = "verify_place"
  <2> DEFINE S == {Do("settle")}
             one == <<Do("settle")>>
  <2>1. Commands(config, state, object) = one
    BY <1>6 DEF Commands
  <2>2. one \in Seq(S)
    OBVIOUS
  <2>3. \A s \in S : s.to = Nowhere
    BY DEF Do
  <2> HIDE DEF S, one
  <2> QED BY <2>1, <2>2, <2>3, TargetsAmong
<1>7. CASE state = "retract"
  <2> DEFINE S == {[do |-> "retract", to |-> RetractPose(object)]}
             one == <<[do |-> "retract", to |-> RetractPose(object)]>>
  <2>1. Commands(config, state, object) = one
    BY <1>7 DEF Commands
  <2>2. one \in Seq(S)
    OBVIOUS
  <2>3. \A s \in S : ~InPickup(s.to)
    BY DEF RetractPose, At, InPickup
  <2> HIDE DEF S, one
  <2> QED BY <2>1, <2>2, <2>3, TargetsAmong
<1>8. CASE state \in {"reset", "observe", "plan", "verify_grasp", "terminal"}
  <2>1. Commands(config, state, object) = <<>>
    BY <1>8 DEF Commands
  <2> QED BY <2>1, NothingTargeted
<1> QED BY <1>1, <1>2, <1>3, <1>4, <1>5, <1>6, <1>7, <1>8, StatesAre

\* Only these states command a waypoint of the pickup.
LEMMA OthersPickNothing ==
  ASSUME NEW config, config.settles \in Nat \ {0}, NEW state \in States \ Pursuing, NEW object
  PROVE  \A x \in Targets(Commands(config, state, object)) : ~InPickup(x)
<1>1. CASE state = "release"
  <2>1. Commands(config, state, object) = ReleaseCommands(config)
    BY <1>1 DEF Commands
  <2> QED BY <2>1, ReleaseTargets
<1>2. CASE state = "verify_place"
  <2> DEFINE S == {Do("settle")}
             one == <<Do("settle")>>
  <2>1. Commands(config, state, object) = one
    BY <1>2 DEF Commands
  <2>2. one \in Seq(S)
    OBVIOUS
  <2>3. \A s \in S : s.to = Nowhere
    BY DEF Do
  <2> HIDE DEF S, one
  <2> QED BY <2>1, <2>2, <2>3, TargetsOf
<1>3. CASE state = "retract"
  <2> DEFINE S == {[do |-> "retract", to |-> RetractPose(object)]}
             one == <<[do |-> "retract", to |-> RetractPose(object)]>>
  <2>1. Commands(config, state, object) = one
    BY <1>3 DEF Commands
  <2>2. one \in Seq(S)
    OBVIOUS
  <2>3. \A s \in S : ~InPickup(s.to)
    BY DEF RetractPose, At, InPickup
  <2> HIDE DEF S, one
  <2> QED BY <2>1, <2>2, <2>3, TargetsOf
<1>4. CASE state \in {"reset", "observe", "plan", "terminal"}
  <2>1. Commands(config, state, object) = <<>>
    BY <1>4 DEF Commands
  <2> QED BY <2>1, NothingTargeted
<1> QED BY <1>1, <1>2, <1>3, <1>4, StatesAre DEF Pursuing

\* What PLAN finds is the assessment of one position.
LEMMA PlanLooks ==
  ASSUME NEW w, w.state = "plan", NEW see, NEW reach \in Assessments(w, see)
  PROVE  Plannable(Planned(see)) /\ DOMAIN reach = Assessed(Configs[policy], Planned(see))
<1>1. Plannable(Planned(see))
  BY DEF Plannable, Planned, PlannedObjectPosition
<1> DEFINE waypoints == Assessed(Configs[policy], Planned(see))
<1>2. \E missed : reach = [x \in waypoints |-> x \notin missed]
  BY DEF Assessments
<1> HIDE DEF waypoints
<1>3. DOMAIN reach = waypoints
  BY <1>2
<1> QED BY <1>1, <1>3 DEF waypoints

LEMMA PickupKept ==
  ASSUME PickupInv, Execute
  PROVE  PickupInv'
<1>1. WorldTyped /\ WorldTyped'
  BY WorldTypedKept DEF PickupInv
<1>2. PICK see, reach, detected, plan, took, shut :
        Moves(see, reach, detected, plan, took, shut)
  BY <1>1, SampleTaken
<1>3. policy' = policy /\ world.state \in States \ {"terminal"}
  BY <1>1 DEF Execute, WorldTyped
<1> DEFINE w == Noticed(world, see, detected, reach)
           obs == Observation(w)
           sends == Targets(Todo(see, plan))
<1>4. w.state = world.state /\ w.reach = reach
  BY <1>1, NoticedFields DEF WorldTyped
<1>5. obs.state = world.state /\ obs.reachable = RequiredReachable(reach)
  BY <1>4 DEF Observation
<1>6. plan = P(policy)!Plan(obs)
  BY <1>2 DEF Moves
<1>7. /\ world'.state = plan.next /\ world'.reach = reach
      /\ world'.sent = world.sent \cup sends
  BY <1>2 DEF Moves
<1> HIDE DEF w, obs, sends
<1>8. /\ plan.abort \in BOOLEAN
      /\ plan.abort => plan.next \in {"terminal", "retract"}
      /\ ~plan.abort => <<world.state, plan.next>> \in Onward
  BY <1>3, <1>5, <1>6, PlanGoes
<1>9. world.state # "plan" => reach = world.reach
  BY <1>2 DEF Moves, Assessments
<1>10. world.state \in {"reset", "observe", "plan"} => world'.sent = {}
  <2> SUFFICES ASSUME world.state \in {"reset", "observe", "plan"} PROVE world'.sent = {}
    OBVIOUS
  <2>1. Todo(see, plan) = <<>>
    BY DEF Todo, Commands
  <2> QED BY <1>7, <2>1, NothingTargeted DEF PickupInv, sends
<1>11. ASSUME world'.state \in {"reset", "observe", "plan"}
       PROVE  world'.sent = {}
  BY <1>7, <1>8, <1>10, <1>11 DEF Onward
<1>12. LookedAhead /\ reach = world.reach => LookedAhead'
  BY <1>3, <1>7 DEF LookedAhead, Plannable
<1>13. ASSUME world'.state \in Pursuing
       PROVE  LookedAhead'
  <2>1. ~plan.abort /\ <<world.state, plan.next>> \in Onward
    BY <1>7, <1>8, <1>13 DEF Pursuing
  <2>2. CASE world.state = "plan"
    <3>1. Plannable(Planned(see)) /\ DOMAIN reach = Assessed(Configs[policy], Planned(see))
      BY <1>2, <2>2, PlanLooks DEF Moves
    <3>2. policy = "collision_aware" => RequiredReachable(reach)
      BY <1>5, <1>6, <2>1, <2>2, PlanWithoutAbort DEF P!MustAbort, P!CollisionAware
    <3> QED BY <1>3, <1>7, <3>1, <3>2 DEF LookedAhead, Plannable
  <2>3. CASE world.state # "plan"
    <3>1. world.state \in Pursuing
      BY <1>7, <1>13, <2>1, <2>3 DEF Onward, Pursuing
    <3> QED BY <1>9, <1>12, <2>3, <3>1 DEF PickupInv
  <2> QED BY <2>2, <2>3
<1>14. ASSUME NEW x \in world'.sent, InPickup(x)
       PROVE  /\ LookedAhead'
              /\ \E object : Plannable(object)' /\ x \in Assessed(Configs[policy], object)
  <2>1. world.state # "plan" /\ reach = world.reach
    BY <1>9, <1>10
  <2>2. CASE x \in world.sent
    <3>1. /\ LookedAhead
          /\ \E object : Plannable(object) /\ x \in Assessed(Configs[policy], object)
      BY <1>14, <2>2 DEF PickupInv
    <3> QED BY <1>3, <1>12, <2>1, <3>1 DEF Plannable
  <2>3. CASE x \in sends
    <3>1. Todo(see, plan) # <<>>
      BY <2>3, NothingTargeted DEF sends
    <3>2. Todo(see, plan) = Commands(Configs[policy], world.state, Planned(see))
      BY <3>1 DEF Todo
    <3>3. /\ Configs[policy].approach \in Nat /\ Configs[policy].transfer \in Nat
          /\ Configs[policy].settles \in Nat \ {0}
      BY <1>1, ConfigsAssumption DEF WorldTyped, ConfigIsValid
    <3> DEFINE config == Configs[policy]
               state == world.state
               object == Planned(see)
    <3>4. x \in Targets(Commands(config, state, object))
      BY <2>3, <3>2 DEF sends
    <3>5. x \in Assessed(config, object) /\ state \in Pursuing
      <4>1. /\ config.approach \in Nat /\ config.transfer \in Nat
            /\ config.settles \in Nat \ {0} /\ state \in States
        BY <1>3, <3>3
      <4> HIDE DEF config, state, object
      <4> QED BY <1>14, <3>4, <4>1, PickupTargets, OthersPickNothing
    <3>6. Plannable(object)
      BY DEF Plannable, Planned, PlannedObjectPosition
    <3>7. LookedAhead'
      BY <1>12, <2>1, <3>5 DEF PickupInv
    <3> QED BY <1>3, <3>5, <3>6, <3>7 DEF Plannable
  <2> QED BY <1>7, <1>14, <2>2, <2>3
<1> QED BY <1>1, <1>3, <1>11, <1>13, <1>14 DEF PickupInv

\* What a policy is sent to on its way to the object and to the bin was assessed for a
\* position at which it plans the object to be, after PLAN has assessed the waypoints for
\* one such position, and, if it is the collision-aware one, found them all in reach.
THEOREM PickupInvariant == Spec => []PickupInv
<1>1. Init => PickupInv
  <2> SUFFICES ASSUME Init PROVE PickupInv
    OBVIOUS
  <2>1. world = NewWorld
    BY DEF Init
  <2>2. world.state = "reset" /\ world.sent = {}
    BY <2>1, NewWorldFields
  <2> QED BY <2>2, WorldTypedBegins DEF PickupInv, Pursuing
<1>2. PickupInv /\ [Next]_vars => PickupInv'
  <2> SUFFICES ASSUME PickupInv, [Next]_vars PROVE PickupInv'
    OBVIOUS
  <2>1. CASE Execute
    BY <2>1, PickupKept
  <2>2. CASE Finalize
    <3>1. /\ Shaped(world')
          /\ world'.samples = world.samples
          /\ world'.collided = world.collided /\ world'.state = world.state
          /\ world'.clock = world.clock /\ world'.closed = world.closed
          /\ world'.reach = world.reach /\ world'.sent = world.sent
      BY <2>2, FinalizeFields DEF PickupInv, WorldTyped
    <3>2. scene' = scene /\ policy' = policy
      BY <2>2 DEF Finalize
    <3>3. WorldTyped'
      BY <3>1, <3>2 DEF PickupInv, WorldTyped
    <3>4. LookedAhead => LookedAhead'
      BY <3>1, <3>2 DEF LookedAhead, Plannable
    <3> QED BY <3>1, <3>2, <3>3, <3>4 DEF PickupInv, Plannable
  <2>3. CASE UNCHANGED vars
    BY <2>3 DEF PickupInv, WorldTyped, LookedAhead, Plannable, vars
  <2> QED BY <2>1, <2>2, <2>3 DEF Next
<1> QED BY <1>1, <1>2, PTL DEF Spec

\* Two waypoints of one kind that are computed from one position are of one assessment.
LEMMA SamePosition ==
  ASSUME NEW config, NEW here, NEW there, NEW x \in Assessed(config, here),
         NEW a \in Assessed(config, there), a.over = x.over, a.position = x.position
  PROVE  x \in Assessed(config, there)
<1> DEFINE Poses(object) ==
             {At("object", height, 0, object) : height \in {"approach", "grasp", "lift"}}
               \cup {At("object", "staged", n, object) : n \in 1..config.approach}
           Place(object) == At("bin", "place", 0, PlannedPlacePosition(object))
<1>1. \A object, y : y \in Assessed(config, object) <=> y \in Poses(object) \/ y = Place(object)
  BY DEF Assessed
<1>2. \A object : \A y \in Poses(object) : y.over = "object" /\ y.position = object
  BY DEF At
<1>3. \A object : /\ Place(object).over = "bin"
                  /\ Place(object).position = PlannedPlacePosition(object)
  BY DEF At
<1>4. \A o, p : PlannedPlacePosition(o) = PlannedPlacePosition(p) => Place(o) = Place(p)
  OBVIOUS
<1> HIDE DEF Poses, Place
<1>5. CASE x \in Poses(here)
  <2>1. a \in Poses(there)
    BY <1>1, <1>2, <1>3, <1>5
  <2>2. here = there
    BY <1>2, <1>5, <2>1
  <2> QED BY <2>2
<1>6. CASE x = Place(here)
  <2>1. a = Place(there)
    BY <1>1, <1>2, <1>3, <1>6
  <2>2. Place(here) = Place(there)
    BY <1>3, <1>4, <1>6, <2>1
  <2> QED BY <1>1, <1>6, <2>2
<1> QED BY <1>1, <1>5, <1>6

\* With any number of staged poses, wherever the object is seen and whatever the inverse
\* kinematics misses: the fixed policy is sent to no waypoint of the pickup that PLAN has
\* not assessed, the others to none while the object is where PLAN saw it, and the
\* collision-aware one only to those in reach (trial_execution.py, base.py).
THEOREM PickupsAreAssessed == Spec => []PickupAssessed
<1>1. PickupInv => PickupAssessed
  <2> SUFFICES ASSUME PickupInv, NEW x \in world.sent, InPickup(x),
                      policy = "fixed" \/ LookedFrom(x)
               PROVE  /\ x \in DOMAIN world.reach
                      /\ policy = "collision_aware" => world.reach[x]
    BY DEF PickupAssessed, InPickup
  <2>1. LookedAhead
    BY DEF PickupInv
  <2>2. PICK there : Plannable(there) /\ DOMAIN world.reach = Assessed(Configs[policy], there)
    BY <2>1 DEF LookedAhead
  <2>3. PICK here : Plannable(here) /\ x \in Assessed(Configs[policy], here)
    BY DEF PickupInv
  <2>4. x \in DOMAIN world.reach
    <3>1. CASE policy = "fixed"
      BY <2>2, <2>3, <3>1 DEF Plannable
    <3>2. CASE LookedFrom(x)
      <4>1. PICK a \in DOMAIN world.reach : a.over = x.over /\ a.position = x.position
        BY <3>2 DEF LookedFrom
      <4> QED BY <2>2, <2>3, <4>1, SamePosition
    <3> QED BY <3>1, <3>2
  <2>5. policy = "collision_aware" => world.reach[x]
    BY <2>1, <2>4 DEF LookedAhead, RequiredReachable
  <2> QED BY <2>4, <2>5
<1> QED BY <1>1, PickupInvariant, PTL

-----------------------------------------------------------------------------
(* The loop over the samples that looks for a verified grasp.              *)

NoRun == [start |-> Never, at |-> Never]

\* The loop up to the n-th sample, as a function that refers to itself.
RunUpTo(run, samples, n) ==
  run = [k \in 0..n |-> IF k = 0 THEN NoRun ELSE GraspStep(run[k - 1], samples[k])]

LEMMA RunsExist ==
  ASSUME NEW samples, NEW n \in Nat
  PROVE  \E run : RunUpTo(run, samples, n)
<1> DEFINE S == {k \in Nat : \E run : RunUpTo(run, samples, k)}
<1>1. 0 \in S
  <2> DEFINE run == [k \in 0..0 |-> NoRun]
  <2>1. run = [k \in 0..0 |-> IF k = 0 THEN NoRun ELSE GraspStep(run[k - 1], samples[k])]
    OBVIOUS
  <2> HIDE DEF run
  <2>2. RunUpTo(run, samples, 0)
    BY <2>1 DEF RunUpTo
  <2> QED BY <2>2
<1>2. ASSUME NEW m \in 0..(n - 1), m \in S
      PROVE  m + 1 \in S
  <2>1. PICK old : RunUpTo(old, samples, m)
    BY <1>2
  <2>2. m \in Nat
    OBVIOUS
  <2>3. \A k \in 0..m : old[k] = IF k = 0 THEN NoRun ELSE GraspStep(old[k - 1], samples[k])
    BY <2>1 DEF RunUpTo
  <2> DEFINE new == [k \in 0..(m + 1) |->
                       IF k = m + 1 THEN GraspStep(old[m], samples[m + 1]) ELSE old[k]]
  <2>4. \A k \in 0..m : new[k] = old[k]
    BY <2>2
  <2>5. new[m + 1] = GraspStep(old[m], samples[m + 1])
    BY <2>2
  <2>6. ASSUME NEW k \in 0..(m + 1)
        PROVE  new[k] = IF k = 0 THEN NoRun ELSE GraspStep(new[k - 1], samples[k])
    <3> HIDE DEF new
    <3>1. CASE k = m + 1
      <4>1. k # 0 /\ k - 1 = m /\ m \in 0..m
        BY <2>2, <3>1
      <4>2. new[k - 1] = old[m]
        BY <2>4, <4>1
      <4> QED BY <2>5, <3>1, <4>1, <4>2
    <3>2. CASE k = 0
      <4>1. k \in 0..m
        BY <2>2, <3>2
      <4> QED BY <2>3, <2>4, <3>2, <4>1
    <3>3. CASE k # m + 1 /\ k # 0
      <4>1. k \in 0..m /\ k - 1 \in 0..m
        BY <2>2, <3>3
      <4>2. new[k] = GraspStep(old[k - 1], samples[k])
        BY <2>3, <2>4, <3>3, <4>1
      <4>3. new[k - 1] = old[k - 1]
        BY <2>4, <4>1
      <4> QED BY <3>3, <4>2, <4>3
    <3> QED BY <3>1, <3>2, <3>3
  <2>7. new = [k \in 0..(m + 1) |-> new[k]]
    OBVIOUS
  <2> HIDE DEF new
  <2>8. new = [k \in 0..(m + 1) |->
                 IF k = 0 THEN NoRun ELSE GraspStep(new[k - 1], samples[k])]
    BY <2>6, <2>7
  <2>9. RunUpTo(new, samples, m + 1)
    BY <2>8 DEF RunUpTo
  <2> QED BY <2>2, <2>9
<1> HIDE DEF S
<1>3. \A k \in 0..n : k \in S
  BY <1>1, <1>2, Reaches
<1>4. n \in S
  BY <1>3
<1> QED BY <1>4 DEF S

LEMMA GraspRunSteps ==
  ASSUME NEW S, NEW samples \in Seq(S), NEW run, run = GraspRun(samples)
  PROVE  /\ run[0] = NoRun
         /\ \A k \in 1..Len(samples) : run[k] = GraspStep(run[k - 1], samples[k])
<1> DEFINE n == Len(samples)
<1>1. n \in Nat
  OBVIOUS
<1>2. \E r : RunUpTo(r, samples, n)
  BY <1>1, RunsExist
<1>3. run = CHOOSE r : RunUpTo(r, samples, n)
  BY DEF GraspRun, RunUpTo, NoRun
<1>4. RunUpTo(run, samples, n)
  BY <1>2, <1>3
<1> HIDE DEF n
<1>5. \A k \in 0..n : run[k] = IF k = 0 THEN NoRun ELSE GraspStep(run[k - 1], samples[k])
  BY <1>4 DEF RunUpTo
<1>6. run[0] = NoRun
  BY <1>1, <1>5
<1>7. \A k \in 1..n : k \in 0..n /\ k # 0
  BY <1>1
<1>8. \A k \in 1..n : run[k] = GraspStep(run[k - 1], samples[k])
  BY <1>5, <1>7
<1> QED BY <1>6, <1>8 DEF n

StableFrom(samples, i, j) == \A k \in i..j : IsStableGraspSample(samples[k])

GraspEnds(samples, j) ==
  \E i \in 1..j : /\ samples[j].t - samples[i].t >= GraspContactDuration
                  /\ StableFrom(samples, i, j)

\* No grasp was verified among the first n samples, and a run of stable samples may have
\* begun at the i-th.
StillLooking(samples, n, run) ==
  /\ run.at = Never
  /\ \A j \in 1..n : ~GraspEnds(samples, j)
  /\ \/ run.start = Never /\ \A i \in 1..n : ~StableFrom(samples, i, n)
     \/ \E i \in 1..n : /\ run.start = samples[i].t /\ StableFrom(samples, i, n)
                        /\ \A h \in 1..n : StableFrom(samples, h, n) => i <= h

FoundFirst(samples, n, run) ==
  \E j \in 1..n : /\ run.at = samples[j].t /\ GraspEnds(samples, j)
                  /\ \A h \in 1..n : GraspEnds(samples, h) => j <= h

RunTells(samples, n, run) ==
  /\ run = [start |-> run.start, at |-> run.at]
  /\ StillLooking(samples, n, run) \/ FoundFirst(samples, n, run)

LEMMA StableOneMore ==
  ASSUME NEW samples, NEW n \in Nat, NEW i \in 1..n
  PROVE  StableFrom(samples, i, n + 1)
           <=> StableFrom(samples, i, n) /\ IsStableGraspSample(samples[n + 1])
<1>1. \A k \in i..n : k \in i..(n + 1)
  OBVIOUS
<1>2. \A k \in i..(n + 1) : k \in i..n \/ k = n + 1
  OBVIOUS
<1>3. n + 1 \in i..(n + 1)
  OBVIOUS
<1> QED BY <1>1, <1>2, <1>3 DEF StableFrom

LEMMA LooksOn ==
  ASSUME NEW samples \in Seq(Samples), InOrder(samples),
         NEW n \in Nat, n + 1 \in 1..Len(samples), NEW old, RunTells(samples, n, old),
         StillLooking(samples, n, old),
         NEW new, new = GraspStep(old, samples[n + 1])
  PROVE  RunTells(samples, n + 1, new)
<1> DEFINE x == samples[n + 1]
<1>1. Len(samples) \in Nat /\ DOMAIN samples = 1..Len(samples)
  OBVIOUS
<1>2. \A k \in 1..(n + 1) : k \in DOMAIN samples
  BY <1>1
<1>3. \A k \in DOMAIN samples : samples[k] \in Samples
  OBVIOUS
<1>4. \A k \in 1..(n + 1) : samples[k].t \in Nat
  BY <1>2, <1>3 DEF Samples
<1>5. x.t \in Nat /\ x.t # Never
  <2>1. n + 1 \in 1..(n + 1)
    OBVIOUS
  <2> QED BY <1>4, <2>1 DEF Never
<1>6. \A k \in 1..n : k \in 1..(n + 1)
  OBVIOUS
<1>7. \A k \in 1..(n + 1) : k \in 1..n \/ k = n + 1
  OBVIOUS
<1>8. old.at = Never /\ \A j \in 1..n : ~GraspEnds(samples, j)
  BY DEF StillLooking
<1>9. CASE ~IsStableGraspSample(x)
  <2>1. new = [old EXCEPT !.start = Never]
    BY <1>8, <1>9 DEF GraspStep
  <2>2. old = [start |-> old.start, at |-> old.at]
    BY DEF RunTells
  <2>3. new = [start |-> Never, at |-> old.at]
    BY <2>1, <2>2
  <2>4. new.start = Never /\ new.at = Never /\ new = [start |-> new.start, at |-> new.at]
    BY <1>8, <2>3
  <2>5. \A i \in 1..(n + 1) : ~StableFrom(samples, i, n + 1)
    <3>1. \A i \in 1..(n + 1) : n + 1 \in i..(n + 1)
      OBVIOUS
    <3> QED BY <1>9, <3>1 DEF StableFrom
  <2>6. ~GraspEnds(samples, n + 1)
    BY <2>5 DEF GraspEnds
  <2>7. \A j \in 1..(n + 1) : ~GraspEnds(samples, j)
    BY <1>7, <1>8, <2>6
  <2> QED BY <2>4, <2>5, <2>7 DEF RunTells, StillLooking
<1>10. ASSUME IsStableGraspSample(x), NEW i \in 1..(n + 1), NEW start, start = samples[i].t,
              StableFrom(samples, i, n + 1),
              \A h \in 1..(n + 1) : StableFrom(samples, h, n + 1) => i <= h,
              new = [start |-> start,
                     at    |-> IF x.t - start >= GraspContactDuration THEN x.t ELSE Never]
       PROVE  RunTells(samples, n + 1, new)
  <2>1. start \in Nat
    BY <1>4, <1>10
  <2>2. n + 1 \in 1..(n + 1)
    OBVIOUS
  <2>3. CASE x.t - start >= GraspContactDuration
    <3>1. new.at = x.t /\ new.start = start
      BY <1>10, <2>3
    <3>2. GraspEnds(samples, n + 1)
      BY <1>10, <2>3 DEF GraspEnds
    <3>3. \A h \in 1..(n + 1) : GraspEnds(samples, h) => n + 1 <= h
      <4>1. \A h \in 1..n : ~GraspEnds(samples, h)
        BY <1>8
      <4>2. n + 1 <= n + 1
        OBVIOUS
      <4> QED BY <1>7, <4>1, <4>2
    <3>4. FoundFirst(samples, n + 1, new)
      BY <2>2, <3>1, <3>2, <3>3 DEF FoundFirst
    <3>5. new = [start |-> new.start, at |-> new.at]
      BY <1>10, <2>3
    <3> QED BY <3>4, <3>5 DEF RunTells
  <2>4. CASE ~(x.t - start >= GraspContactDuration)
    <3>1. new.at = Never /\ new.start = start
      BY <1>10, <2>4
    <3>2. ~GraspEnds(samples, n + 1)
      <4> SUFFICES ASSUME NEW h \in 1..(n + 1), StableFrom(samples, h, n + 1)
                   PROVE  ~(x.t - samples[h].t >= GraspContactDuration)
        BY DEF GraspEnds
      <4>1. i <= h
        BY <1>10
      <4>2. i \in DOMAIN samples /\ h \in DOMAIN samples
        BY <1>2
      <4>3. i < h => samples[i].t <= samples[h].t
        BY <4>2 DEF InOrder
      <4>4. samples[i].t <= samples[h].t
        <5>1. samples[i].t \in Nat
          BY <1>4
        <5>2. i \in Nat /\ h \in Nat
          OBVIOUS
        <5> QED BY <4>1, <4>3, <5>1, <5>2
      <4>5. samples[h].t \in Nat
        BY <1>4
      <4> QED BY <1>5, <1>10, <2>1, <2>4, <4>4, <4>5 DEF GraspContactDuration
    <3>3. \A j \in 1..(n + 1) : ~GraspEnds(samples, j)
      BY <1>7, <1>8, <3>2
    <3>4. new = [start |-> new.start, at |-> new.at]
      BY <1>10, <2>4
    <3>5. StillLooking(samples, n + 1, new)
      BY <1>10, <3>1, <3>3 DEF StillLooking
    <3> QED BY <3>4, <3>5 DEF RunTells
  <2> QED BY <2>3, <2>4
<1>11. CASE IsStableGraspSample(x) /\ old.start = Never
  <2>1. ASSUME NEW i \in 1..n, StableFrom(samples, i, n)
        PROVE  FALSE
    <3>1. PICK h \in 1..n : old.start = samples[h].t \/ ~StableFrom(samples, i, n)
      BY <2>1 DEF StillLooking
    <3>2. samples[h].t \in Nat
      BY <1>4, <1>6
    <3> QED BY <1>11, <2>1, <3>1, <3>2 DEF Never
  <2>2. n + 1 \in 1..(n + 1)
    OBVIOUS
  <2>3. StableFrom(samples, n + 1, n + 1)
    <3>1. \A k \in (n + 1)..(n + 1) : k = n + 1
      OBVIOUS
    <3> QED BY <1>11, <3>1 DEF StableFrom
  <2>4. \A h \in 1..(n + 1) : StableFrom(samples, h, n + 1) => n + 1 <= h
    <3>1. \A h \in 1..n : ~StableFrom(samples, h, n + 1)
      BY <2>1, StableOneMore
    <3>2. n + 1 <= n + 1
      OBVIOUS
    <3> QED BY <1>7, <3>1, <3>2
  <2>5. new = [start |-> x.t,
               at    |-> IF x.t - x.t >= GraspContactDuration THEN x.t ELSE Never]
    BY <1>8, <1>11 DEF GraspStep
  <2> HIDE DEF x
  <2>6. x = samples[n + 1]
    BY DEF x
  <2> QED BY <1>10, <1>11, <2>2, <2>3, <2>4, <2>5, <2>6
<1>12. CASE IsStableGraspSample(x) /\ old.start # Never
  <2>1. PICK i \in 1..n : /\ old.start = samples[i].t /\ StableFrom(samples, i, n)
                          /\ \A h \in 1..n : StableFrom(samples, h, n) => i <= h
    BY <1>12 DEF StillLooking
  <2>2. i \in 1..(n + 1)
    BY <1>6
  <2>3. StableFrom(samples, i, n + 1)
    BY <1>12, <2>1, StableOneMore
  <2>4. \A h \in 1..(n + 1) : StableFrom(samples, h, n + 1) => i <= h
    <3>1. \A h \in 1..n : StableFrom(samples, h, n + 1) => i <= h
      BY <2>1, StableOneMore
    <3>2. i <= n + 1
      OBVIOUS
    <3> QED BY <1>7, <3>1, <3>2
  <2>5. new = [start |-> old.start,
               at    |-> IF x.t - old.start >= GraspContactDuration THEN x.t ELSE Never]
    BY <1>8, <1>12 DEF GraspStep
  <2> HIDE DEF x
  <2> QED BY <1>10, <1>12, <2>1, <2>2, <2>3, <2>4, <2>5
<1> QED BY <1>9, <1>11, <1>12

LEMMA RunAlwaysTells ==
  ASSUME NEW samples \in Seq(Samples), InOrder(samples), NEW run, run = GraspRun(samples)
  PROVE  RunTells(samples, Len(samples), run[Len(samples)])
<1> DEFINE n == Len(samples)
           T == {k \in 0..n : RunTells(samples, k, run[k])}
<1>1. n \in Nat
  OBVIOUS
<1>2. run[0] = NoRun /\ \A k \in 1..n : run[k] = GraspStep(run[k - 1], samples[k])
  BY GraspRunSteps
<1>3. 0 \in T
  <2>1. NoRun.at = Never /\ NoRun.start = Never
        /\ NoRun = [start |-> NoRun.start, at |-> NoRun.at]
    BY DEF NoRun
  <2>2. StillLooking(samples, 0, NoRun)
    BY <2>1 DEF StillLooking
  <2>3. RunTells(samples, 0, NoRun)
    BY <2>1, <2>2 DEF RunTells
  <2> QED BY <1>1, <1>2, <2>3
<1>4. ASSUME NEW k \in 0..(n - 1), k \in T
      PROVE  k + 1 \in T
  <2>1. k \in Nat /\ k + 1 \in 1..n /\ k + 1 \in 0..n /\ (k + 1) - 1 = k
    BY <1>1
  <2>2. run[k + 1] = GraspStep(run[k], samples[k + 1])
    BY <1>2, <2>1
  <2>3. RunTells(samples, k, run[k])
    BY <1>4
  <2> DEFINE old == run[k]
             new == run[k + 1]
  <2>4. new = GraspStep(old, samples[k + 1]) /\ RunTells(samples, k, old)
    BY <2>2, <2>3
  <2>5. k + 1 \in 1..Len(samples)
    BY <2>1
  <2> HIDE DEF old, new
  <2>6. CASE StillLooking(samples, k, old)
    <3>1. RunTells(samples, k + 1, new)
      BY <2>1, <2>4, <2>5, <2>6, LooksOn
    <3> QED BY <2>1, <3>1 DEF new
  <2>7. CASE FoundFirst(samples, k, old)
    <3>1. PICK j \in 1..k : /\ old.at = samples[j].t /\ GraspEnds(samples, j)
                            /\ \A h \in 1..k : GraspEnds(samples, h) => j <= h
      BY <2>7 DEF FoundFirst
    <3>2. samples[j].t \in Nat
      <4>1. j \in DOMAIN samples
        BY <1>1, <2>1
      <4>2. samples[j] \in Samples
        BY <4>1
      <4> QED BY <4>2 DEF Samples
    <3>3. old.at # Never
      BY <3>1, <3>2 DEF Never
    <3>4. new = old
      BY <2>4, <3>3 DEF GraspStep
    <3>5. j \in 1..(k + 1) /\ \A h \in 1..(k + 1) : GraspEnds(samples, h) => j <= h
      <4>1. \A h \in 1..(k + 1) : h \in 1..k \/ h = k + 1
        BY <2>1
      <4>2. j <= k + 1 /\ j \in 1..(k + 1)
        BY <2>1
      <4> QED BY <3>1, <4>1, <4>2
    <3>6. FoundFirst(samples, k + 1, new)
      BY <3>1, <3>4, <3>5 DEF FoundFirst
    <3>7. RunTells(samples, k + 1, new)
      BY <2>4, <3>4, <3>6 DEF RunTells
    <3> QED BY <2>1, <3>7 DEF new
  <2> QED BY <2>4, <2>6, <2>7 DEF RunTells
<1> HIDE DEF T
<1>5. \A k \in 0..n : k \in T
  BY <1>1, <1>3, <1>4, Reaches
<1>6. n \in T
  BY <1>1, <1>5
<1> QED BY <1>6 DEF T

\* A sample is stable exactly when its points hold the object: the names and links that
\* the contacts are given lose nothing (contacts.py normalize_raw_contact, outcomes.py
\* is_gripper_object_contact).
LEMMA HeldIsStable ==
  ASSUME NEW s \in Samples, s.grip = Grip(SampleContacts(s.points))
  PROVE  Held(s) <=> IsStableGraspSample(s)
<1> DEFINE Firm(p) == /\ IsGripperObjectContact(NormalizedContact(p))
                      /\ p.force >= GraspForce
           Holds(p) == /\ Between(p, RobotBody, ObjectName) /\ p.force >= GraspForce
                       /\ \E side \in {p.a, p.b} :
                            /\ BodyNames[side[1]] = RobotBody /\ side[2] > 0
                            /\ RobotLinks[side[2]] \in GraspLinks
<1>1. s.points \subseteq Points
  BY DEF Samples
<1>2. \A p : NormalizedContact(p).force = p.force
  BY DEF NormalizedContact
<1>3. s.grip = "firm" <=> \E p \in s.points : Firm(p)
  <2> DEFINE events == SampleContacts(s.points)
             gripping == {event \in events : IsGripperObjectContact(event)}
  <2>1. s.grip = IF gripping = {} THEN "none"
                 ELSE IF \E event \in gripping : event.force >= GraspForce
                      THEN "firm" ELSE "contact"
    BY DEF Grip
  <2>2. s.grip = "firm" <=> \E event \in gripping : event.force >= GraspForce
    <3> HIDE DEF gripping
    <3> QED BY <2>1
  <2>3. s.grip = "firm" <=>
          \E event \in events : IsGripperObjectContact(event) /\ event.force >= GraspForce
    BY <2>2
  <2> QED BY <1>2, <2>3 DEF SampleContacts
<1>4. ASSUME NEW p \in Points
      PROVE  Firm(p) <=> Holds(p)
  <2> DEFINE x == BodyNames[p.a[1]]
             y == BodyNames[p.b[1]]
             u == LinkName(p.a[1], p.a[2])
             v == LinkName(p.b[1], p.b[2])
  <2>1. p.a \in Sides /\ p.b \in Sides
    BY DEF Points
  <2>2. /\ p.a[2] \in {-1} \cup DOMAIN RobotLinks
        /\ p.b[2] \in {-1} \cup DOMAIN RobotLinks
    BY <2>1 DEF Sides
  <2>3. DOMAIN RobotLinks \subseteq Nat \ {0}
    BY LinksAssumption
  <2>4. /\ p.a[2] = -1 \/ p.a[2] \in Nat \ {0}
        /\ p.b[2] = -1 \/ p.b[2] \in Nat \ {0}
    BY <2>2, <2>3
  <2>5. BaseLink \notin GraspLinks
    BY DEF BaseLink, GraspLinks
  <2>6. x = RobotBody => (u \in GraspLinks <=> p.a[2] > 0 /\ RobotLinks[p.a[2]] \in GraspLinks)
    BY <2>4, <2>5 DEF LinkName
  <2>7. y = RobotBody => (v \in GraspLinks <=> p.b[2] > 0 /\ RobotLinks[p.b[2]] \in GraspLinks)
    BY <2>4, <2>5 DEF LinkName
  <2>8. IsGripperObjectContact(NormalizedContact(p)) <=>
          \/ x = ObjectName /\ y = RobotBody /\ v \in GraspLinks
          \/ y = ObjectName /\ x = RobotBody /\ u \in GraspLinks
    BY DEF IsGripperObjectContact, NormalizedContact
  <2>9. Between(p, RobotBody, ObjectName) <=> {x, y} = {RobotBody, ObjectName}
    BY DEF Between
  <2>10. (\E side \in {p.a, p.b} : /\ BodyNames[side[1]] = RobotBody /\ side[2] > 0
                                   /\ RobotLinks[side[2]] \in GraspLinks)
           <=> \/ x = RobotBody /\ p.a[2] > 0 /\ RobotLinks[p.a[2]] \in GraspLinks
               \/ y = RobotBody /\ p.b[2] > 0 /\ RobotLinks[p.b[2]] \in GraspLinks
    OBVIOUS
  <2> HIDE DEF x, y, u, v
  <2>11. (x = RobotBody \/ y = RobotBody) =>
           ({x, y} = {RobotBody, ObjectName} <=> \/ x = RobotBody /\ y = ObjectName
                                                 \/ y = RobotBody /\ x = ObjectName)
    OBVIOUS
  <2>12. (\/ x = ObjectName /\ y = RobotBody /\ v \in GraspLinks
          \/ y = ObjectName /\ x = RobotBody /\ u \in GraspLinks)
           <=> /\ {x, y} = {RobotBody, ObjectName}
               /\ \/ x = RobotBody /\ p.a[2] > 0 /\ RobotLinks[p.a[2]] \in GraspLinks
                  \/ y = RobotBody /\ p.b[2] > 0 /\ RobotLinks[p.b[2]] \in GraspLinks
    BY <2>6, <2>7, <2>11
  <2> QED BY <2>8, <2>9, <2>10, <2>12
<1>5. Held(s) <=> s.high /\ \E p \in s.points : Holds(p)
  BY DEF Held
<1>6. (\E p \in s.points : Holds(p)) <=> \E p \in s.points : Firm(p)
  <2> HIDE DEF Holds, Firm
  <2> QED BY <1>1, <1>4
<1> HIDE DEF Holds, Firm
<1> QED BY <1>3, <1>5, <1>6 DEF IsStableGraspSample

LEMMA EndsAreHeld ==
  ASSUME WorldTyped, NEW j \in DOMAIN world.samples
  PROVE  GraspEnds(world.samples, j) <=>
           \E i \in 1..j : /\ Span(i, j) >= GraspContactDuration
                           /\ Throughout(i, j, Held)
<1>1. /\ world.samples \in Seq(Samples)
      /\ \A k \in DOMAIN world.samples :
           world.samples[k].grip = Grip(SampleContacts(world.samples[k].points))
  BY DEF WorldTyped
<1>2. \A k \in DOMAIN world.samples : world.samples[k] \in Samples
  BY <1>1
<1>3. \A k \in DOMAIN world.samples :
        Held(world.samples[k]) <=> IsStableGraspSample(world.samples[k])
  BY <1>1, <1>2, HeldIsStable
<1>4. \A i \in 1..j : \A k \in i..j : k \in DOMAIN world.samples
  <2>1. DOMAIN world.samples = 1..Len(world.samples) /\ Len(world.samples) \in Nat
    BY <1>1
  <2> QED BY <2>1
<1>5. \A i \in 1..j : StableFrom(world.samples, i, j) <=> Throughout(i, j, Held)
  BY <1>3, <1>4 DEF StableFrom, Throughout
<1> QED BY <1>5 DEF GraspEnds, Span

LEMMA VerifiedIsHeld ==
  ASSUME WorldTyped
  PROVE  GraspMeansHeld
<1> DEFINE samples == world.samples
           run == GraspRun(samples)
           last == run[Len(samples)]
           Ends == {j \in DOMAIN samples : \E i \in 1..j :
                      Span(i, j) >= GraspContactDuration /\ Throughout(i, j, Held)}
           at == FirstVerifiedGraspTime(samples)
<1>1. samples \in Seq(Samples) /\ InOrder(samples)
  BY DEF WorldTyped
<1>2. at = last.at
  BY DEF FirstVerifiedGraspTime
<1>3. RunTells(samples, Len(samples), last)
  <2> HIDE DEF samples
  <2> QED BY <1>1, RunAlwaysTells
<1>4. DOMAIN samples = 1..Len(samples) /\ \A k \in DOMAIN samples : samples[k] \in Samples
  BY <1>1
<1>5. Ends = {j \in DOMAIN samples : GraspEnds(samples, j)}
  BY EndsAreHeld
<1>6. GraspMeansHeld <=> IF Ends = {} THEN at = Never
                         ELSE \E j \in Ends : at = samples[j].t /\ \A k \in Ends : j <= k
  BY DEF GraspMeansHeld
<1> HIDE DEF samples, last, run, Ends, at
<1>7. CASE StillLooking(samples, Len(samples), last)
  <2>1. Ends = {}
    BY <1>4, <1>5, <1>7 DEF StillLooking
  <2>2. at = Never
    BY <1>2, <1>7 DEF StillLooking
  <2> QED BY <1>6, <2>1, <2>2
<1>8. CASE FoundFirst(samples, Len(samples), last)
  <2>1. PICK j \in 1..Len(samples) :
               /\ last.at = samples[j].t /\ GraspEnds(samples, j)
               /\ \A h \in 1..Len(samples) : GraspEnds(samples, h) => j <= h
    BY <1>8 DEF FoundFirst
  <2>2. j \in Ends /\ \A k \in Ends : j <= k
    BY <1>4, <1>5, <2>1
  <2> QED BY <1>2, <1>6, <2>1, <2>2
<1> QED BY <1>3, <1>7, <1>8 DEF RunTells

\* The grasp is verified at the first sample that ends 0.05 s of samples in which the
\* object was firmly held and high, and at no other, however many samples there are and
\* whatever interrupts them (outcomes.py _first_verified_grasp_time).
THEOREM GraspsAreHeld == Spec => []GraspMeansHeld
<1>1. MonitorInv => GraspMeansHeld
  BY VerifiedIsHeld DEF MonitorInv
<1> QED BY <1>1, MonitorInvariant, PTL

-----------------------------------------------------------------------------
(* Settlement.                                                             *)

LEMMA OnePlace ==
  ASSUME NEW S, IsFiniteSet(S), NEW x \in S
  PROVE  Cardinality(S) = 1 <=> \A y \in S : y = x
<1>1. Cardinality(S) = 1 <=> \E y : S = {y}
  BY FS_Singleton
<1>2. (\E y : S = {y}) <=> \A y \in S : y = x
  <2>1. (\A y \in S : y = x) => S = {x}
    OBVIOUS
  <2> QED BY <2>1
<1> QED BY <1>1, <1>2

LEMMA SettledIsExact ==
  ASSUME WorldTyped
  PROVE  SettledExactly
<1> SUFFICES ASSUME world.samples # <<>> PROVE SettledExactly
  BY DEF SettledExactly
<1> DEFINE s == world.samples
           n == Len(s)
           Window == {i \in 1..n : Span(i, n) <= SettleWindow}
           m == Min(Window)
           places == {s[i].place : i \in Window}
           bin == SettledBin(s)
<1>1. s \in Seq(Samples) /\ InOrder(s) /\ s # <<>>
  BY DEF WorldTyped
<1>2. n \in Nat /\ n \in 1..n /\ DOMAIN s = 1..n
  BY <1>1
<1>3. \A i \in 1..n : s[i] \in Samples
  BY <1>1, <1>2
<1>4. \A i \in 1..n : s[i].t \in Nat /\ s[i].place \in Places /\ s[i].still \in BOOLEAN
  BY <1>3 DEF Samples
<1>5. \A i \in 1..n : Span(i, n) = s[n].t - s[i].t
  BY DEF Span
<1>6. Window = SettleSamples(s)
  <2>1. Last(s) = s[n]
    BY DEF Last
  <2> QED BY <1>2, <1>5, <2>1 DEF SettleSamples
<1>7. n \in Window
  BY <1>2, <1>4, <1>5 DEF SettleWindow
<1>8. \A i \in Window : i \in 1..n /\ i \in Nat /\ i <= n
  BY <1>2
<1>9. \A i \in Window : Span(i, n) <= SettleWindow
  OBVIOUS
<1>10. \A i \in 1..n : Span(i, n) <= SettleWindow => i \in Window
  OBVIOUS
<1>11. IsFiniteSet(Places)
  <2>1. IsFiniteSet({"target"})
    BY FS_Singleton
  <2>2. IsFiniteSet({"target"} \cup {"other"})
    BY <2>1, FS_AddElement
  <2>3. IsFiniteSet(({"target"} \cup {"other"}) \cup {"outside"})
    BY <2>2, FS_AddElement
  <2>4. Places = ({"target"} \cup {"other"}) \cup {"outside"}
    BY DEF Places
  <2> QED BY <2>3, <2>4
<1>12. IsFiniteSet(places)
  <2>1. places \subseteq Places
    BY <1>4
  <2> HIDE DEF places
  <2> QED BY <1>11, <2>1, FS_Subset
<1>13. SettledExactly <=>
         (bin # "unsettled" <=>
            /\ \E i \in Window : Span(i, n) = SettleWindow
            /\ \A i \in Window : s[i].still /\ s[i].place = s[n].place)
  BY <1>1 DEF SettledExactly
<1>14. bin = IF /\ s[Max(Window)].t - s[m].t >= SettleWindow
                /\ \A i \in Window : s[i].still
                /\ Cardinality(places) = 1
             THEN s[m].place ELSE "unsettled"
  BY <1>6 DEF SettledBin
<1> HIDE DEF s, n, Window, m, places, bin
<1>15. m \in Window /\ \A i \in Window : m =< i
  <2>1. Window \in SUBSET Nat /\ Window # {}
    BY <1>7, <1>8
  <2> QED BY <2>1, MinOfNaturals DEF m
<1>16. Max(Window) = n
  <2>1. Window \in SUBSET (0..n) /\ Window # {}
    BY <1>2, <1>7, <1>8
  <2>2. Max(Window) \in Window /\ \A k \in Window : Max(Window) >= k
    BY <1>2, <2>1, MaxUpTo
  <2>3. Max(Window) >= n /\ Max(Window) <= n /\ Max(Window) \in Nat
    BY <1>7, <1>8, <2>2
  <2> QED BY <1>2, <2>3
<1>17. s[Max(Window)].t - s[m].t >= SettleWindow <=>
         \E i \in Window : Span(i, n) = SettleWindow
  <2>1. Span(m, n) = s[n].t - s[m].t /\ s[n].t \in Nat /\ s[m].t \in Nat
    BY <1>2, <1>4, <1>5, <1>8, <1>15
  <2>2. Span(m, n) <= SettleWindow
    BY <1>9, <1>15
  <2>3. ASSUME NEW i \in Window, Span(i, n) = SettleWindow
        PROVE  Span(m, n) >= SettleWindow
    <3>1. m <= i /\ m \in DOMAIN s /\ i \in DOMAIN s /\ m \in Nat /\ i \in Nat
      BY <1>2, <1>8, <1>15
    <3>2. s[i].t \in Nat /\ Span(i, n) = s[n].t - s[i].t
      BY <1>4, <1>5, <1>8
    <3>3. s[m].t <= s[i].t
      BY <1>1, <2>1, <3>1, <3>2 DEF InOrder
    <3> QED BY <2>1, <2>3, <3>2, <3>3
  <2>4. Span(m, n) >= SettleWindow => Span(m, n) = SettleWindow
    BY <2>1, <2>2 DEF SettleWindow
  <2> QED BY <1>15, <1>16, <2>1, <2>3, <2>4
<1>18. Cardinality(places) = 1 <=> \A i \in Window : s[i].place = s[n].place
  <2>1. s[n].place \in places
    BY <1>7 DEF places
  <2>2. Cardinality(places) = 1 <=> \A y \in places : y = s[n].place
    BY <1>12, <2>1, OnePlace
  <2> QED BY <2>2 DEF places
<1>19. s[m].place # "unsettled"
  BY <1>4, <1>8, <1>15 DEF Places
<1> QED BY <1>13, <1>14, <1>17, <1>18, <1>19

\* What is called settled was at rest in one place at every sample of the last 0.10 s,
\* and was sampled exactly 0.10 s before the last one: samples that are closer, or none
\* at that time, do not count (outcomes.py _placement_settlement).
THEOREM SettlementsAreExact == Spec => []SettledExactly
<1>1. MonitorInv => SettledExactly
  BY SettledIsExact DEF MonitorInv
<1> QED BY <1>1, MonitorInvariant, PTL

-----------------------------------------------------------------------------
(* Success: the way of an attempt to its end, and the last two samples.    *)

Placing == {"verify_place", "retract"}

EarlyUpTo(samples, n) == \A i \in 1..n : samples[i].in \notin Placing

\* Before RETRACT: the placed object was verified with the gripper open, or the policy
\* aborted at RELEASE, at once after TRANSFER.
BeforeRetract(samples, n) ==
  /\ n >= 1 /\ EarlyUpTo(samples, n - 1)
  /\ \/ samples[n].in = "verify_place" /\ ~samples[n].shut /\ ~world.closed
     \/ /\ n >= 2 /\ samples[n].in = "release" /\ samples[n].t = world.clock
        /\ samples[n - 1].in = "transfer"

AfterRetract(samples, n) ==
  /\ n >= 2 /\ EarlyUpTo(samples, n - 2) /\ samples[n].in = "retract"
  /\ \/ samples[n - 1].in = "verify_place" /\ ~samples[n - 1].shut /\ ~samples[n].shut
     \/ /\ n >= 3 /\ samples[n - 1].in = "release" /\ samples[n - 1].t = samples[n].t
        /\ samples[n - 2].in = "transfer"

Released == "pre_release_rgb" \in world.written

LogEvents == [type : {"state_start", "state_end", "state_failure"}, in : States, at : Nat]

WayInv ==
  /\ world.log \in Seq(LogEvents)
  /\ \A i \in DOMAIN world.samples :
       world.samples[i].in = "transfer" => world.samples[i].place # "target"
  /\ world.state \notin {"retract", "terminal"} => EarlyUpTo(world.samples, Len(world.samples))
  /\ Released => world.state \in {"release", "verify_place", "retract", "terminal"}
  /\ world.state = "release" => /\ Len(world.samples) >= 1
                                /\ world.samples[Len(world.samples)].in = "transfer"
  /\ world.state = "verify_place" => ~world.closed
  /\ world.state = "retract" /\ Released => BeforeRetract(world.samples, Len(world.samples))
  /\ world.state = "terminal" /\ Released => AfterRetract(world.samples, Len(world.samples))
  /\ \/ world.state \in {"verify_grasp", "lift", "transfer", "release", "verify_place"}
     \/ Released
     => GripperClosedFromEvents(world.log)

LEMMA ReleaseOpens ==
  ASSUME NEW config, config.settles \in Nat \ {0}, NEW c
  PROVE  ReleaseCommands(config) # <<>> /\ ~ShutBy(c, ReleaseCommands(config))
<1> DEFINE S == {Do("open"), Do("settle")}
           commands == ReleaseCommands(config)
           gripping == {i \in DOMAIN commands : commands[i].do \in {"open", "close"}}
<1>1. commands \in Seq(S) /\ \E i \in DOMAIN commands : commands[i] = Do("open")
  <2>1. CASE config.settles = 1
    <3>1. commands = <<Do("open")>>
      BY <2>1 DEF ReleaseCommands
    <3> HIDE DEF commands
    <3>2. 1 \in DOMAIN commands /\ commands[1] = Do("open")
      BY <3>1
    <3>3. Do("open") \in S
      OBVIOUS
    <3> HIDE DEF S
    <3> QED BY <3>1, <3>2, <3>3
  <2>2. CASE config.settles # 1
    <3> DEFINE a == <<Do("settle"), Do("open")>>
               b == [i \in 1..(config.settles - 1) |-> Do("settle")]
    <3>1. commands = a \o b
      BY <2>2 DEF ReleaseCommands
    <3>2. Do("open") \in S /\ Do("settle") \in S
      OBVIOUS
    <3> HIDE DEF S
    <3>3. a \in Seq(S) /\ Len(a) = 2 /\ a[2] = Do("open")
      BY <3>2
    <3>4. b \in Seq(S)
      BY <3>2
    <3> HIDE DEF commands, a, b
    <3>5. commands \in Seq(S)
      BY <3>1, <3>3, <3>4
    <3>6. Len(b) \in Nat /\ a \in Seq(S) /\ Len(a) = 2
      BY <3>3, <3>4
    <3>7. Len(a \o b) = 2 + Len(b) /\ (a \o b)[2] = a[2]
      <4>1. Len(a \o b) = Len(a) + Len(b)
        BY <3>4, <3>6, ConcatProperties
      <4>2. 2 \in 1..(Len(a) + Len(b)) /\ 2 <= Len(a)
        BY <3>6
      <4>3. (a \o b)[2] = a[2]
        BY <3>4, <3>6, <4>2, ConcatProperties
      <4> QED BY <3>6, <4>1, <4>3
    <3>8. commands[2] = Do("open") /\ Len(commands) = 2 + Len(b)
      BY <3>1, <3>3, <3>7
    <3>9. 2 \in DOMAIN commands
      BY <3>5, <3>6, <3>8
    <3> QED BY <3>5, <3>8, <3>9
  <2> QED BY <2>1, <2>2
<1>2. \A s \in S : s.do # "close"
  BY DEF Do
<1>3. Do("open").do = "open"
  BY DEF Do
<1>4. ShutBy(c, commands) = IF gripping = {} THEN c ELSE commands[Max(gripping)].do = "close"
  BY DEF ShutBy
<1> HIDE DEF S, commands
<1>5. Len(commands) \in Nat /\ DOMAIN commands = 1..Len(commands)
  BY <1>1
<1>6. gripping \in SUBSET (0..Len(commands)) /\ gripping # {}
  BY <1>1, <1>3, <1>5
<1>7. gripping \subseteq DOMAIN commands
  OBVIOUS
<1> HIDE DEF gripping
<1>8. Max(gripping) \in DOMAIN commands
  BY <1>5, <1>6, <1>7, MaxUpTo
<1>9. commands[Max(gripping)] \in S
  BY <1>1, <1>8
<1>10. commands # <<>>
  BY <1>1
<1> QED BY <1>2, <1>4, <1>6, <1>9, <1>10 DEF commands

LEMMA SettlingKeepsGripper ==
  ASSUME NEW config, NEW object, NEW c
  PROVE  ShutBy(c, Commands(config, "verify_place", object)) = c
<1> DEFINE commands == Commands(config, "verify_place", object)
<1>1. commands = <<Do("settle")>>
  BY DEF Commands
<1> HIDE DEF commands
<1>2. DOMAIN commands = {1} /\ commands[1].do = "settle"
  BY <1>1 DEF Do
<1>3. {i \in DOMAIN commands : commands[i].do \in {"open", "close"}} = {}
  BY <1>2
<1> QED BY <1>3 DEF ShutBy, commands

LEMMA FrameBeforeRelease ==
  ASSUME NEW source, NEW target
  PROVE  "pre_release_rgb" \in P(policy)!Milestones(source, target)
           <=> source = "transfer" /\ target = "release"
BY DEF P!Milestones, P!MilestoneKinds

LEMMA LogGrows ==
  ASSUME NEW log \in Seq(LogEvents), NEW source \in States, NEW plan, plan.next \in States,
         plan.abort \in BOOLEAN, NEW at \in Nat,
         NEW new, new = Transition(log, source, plan, at)
  PROVE  /\ new \in Seq(LogEvents)
         /\ GripperClosedFromEvents(log) => GripperClosedFromEvents(new)
         /\ source = "grasp" /\ ~plan.abort => GripperClosedFromEvents(new)
<1> DEFINE e == Event(IF plan.abort THEN "state_failure" ELSE "state_end", source, at)
           f == Event("state_start", plan.next, at)
<1>1. new = log \o <<e, f>>
  BY DEF Transition
<1>2. e \in LogEvents /\ f \in LogEvents
  BY DEF Event, LogEvents
<1>3. source = "grasp" /\ ~plan.abort => e.type = "state_end" /\ e.in = "grasp"
  BY DEF Event
<1> HIDE DEF e, f
<1>4. /\ new \in Seq(LogEvents) /\ Len(log) \in Nat
      /\ DOMAIN log = 1..Len(log) /\ DOMAIN new = 1..(Len(log) + 2)
      /\ \A i \in 1..Len(log) : new[i] = log[i]
      /\ new[Len(log) + 1] = e
  BY <1>1, <1>2
<1>5. ToSet(log) \subseteq ToSet(new)
  <2>1. \A i \in DOMAIN log : i \in DOMAIN new /\ new[i] = log[i]
    BY <1>4
  <2> QED BY <2>1 DEF ToSet
<1>6. e \in ToSet(new)
  <2>1. Len(log) + 1 \in DOMAIN new
    BY <1>4
  <2> QED BY <1>4, <2>1 DEF ToSet
<1> QED BY <1>3, <1>4, <1>5, <1>6 DEF GripperClosedFromEvents

LEMMA EarlyOneMore ==
  ASSUME NEW s \in Seq(Samples), NEW x \in Samples, NEW r, r = Append(s, x),
         NEW n \in Nat, n <= Len(s), EarlyUpTo(s, n)
  PROVE  /\ EarlyUpTo(r, n)
         /\ n = Len(s) /\ x.in \notin Placing => EarlyUpTo(r, n + 1)
<1>1. /\ Len(s) \in Nat /\ \A i \in 1..Len(s) : r[i] = s[i]
      /\ r[Len(s) + 1] = x
  BY Grows
<1>2. \A i \in 1..n : i \in 1..Len(s)
  BY <1>1
<1>3. EarlyUpTo(r, n)
  BY <1>1, <1>2 DEF EarlyUpTo
<1>4. \A i \in 1..(n + 1) : i \in 1..n \/ i = n + 1
  OBVIOUS
<1> QED BY <1>1, <1>3, <1>4 DEF EarlyUpTo

WayBegun == WorldTyped /\ WayInv

\* Every conjunct of the way in turn: the states are left in one order only, and RELEASE
\* and VERIFY_PLACE not without the gripper's opening.
LEMMA WayKept ==
  ASSUME WayBegun, Execute
  PROVE  WayInv'
<1>1. WorldTyped /\ WorldTyped' /\ WayInv
  BY WorldTypedKept DEF WayBegun
<1>2. PICK see, reach, detected, plan, took, shut :
        /\ Moves(see, reach, detected, plan, took, shut)
        /\ SampleOf(world, see) \in Samples
        /\ took \in Nat
  BY <1>1, SampleTaken
<1> DEFINE s == world.samples
           x == SampleOf(world, see)
           r == world'.samples
           n == Len(s)
           state == world.state
           next == world'.state
<1>3. s \in Seq(Samples) /\ x \in Samples /\ r = Append(s, x)
  BY <1>1, <1>2 DEF WorldTyped, Moves
<1>4. x.in = state /\ x.shut = world.closed /\ x.t = world.clock /\ x.place = see.place
  BY DEF SampleOf
<1>5. state \in States \ {"terminal"} /\ next \in States /\ scene \in Scenes
  BY <1>1 DEF WorldTyped, Execute
<1>6. /\ plan.abort \in BOOLEAN
      /\ plan.abort => state # "retract" /\ next = IF state = "reset" THEN "terminal" ELSE "retract"
      /\ ~plan.abort => <<state, next>> \in Onward
  <2> DEFINE obs == Observation(Noticed(world, see, detected, reach))
  <2>1. obs.state = state
    <3>1. Noticed(world, see, detected, reach).state = state
      BY <1>1, NoticedFields DEF WorldTyped
    <3> QED BY <3>1 DEF Observation
  <2>2. plan = P(policy)!Plan(obs) /\ next = plan.next
    BY <1>2 DEF Moves
  <2> HIDE DEF obs, state, next
  <2>3. obs.state \in States \ {"terminal"}
    BY <1>5, <2>1
  <2>4. /\ plan.abort \in BOOLEAN
        /\ plan.abort => /\ obs.state # "retract"
                         /\ plan.next = IF obs.state = "reset" THEN "terminal" ELSE "retract"
        /\ ~plan.abort => <<obs.state, plan.next>> \in Onward
    BY <2>2, <2>3, PlanGoes
  <2> QED BY <2>1, <2>2, <2>4
<1>7. next = plan.next
  BY <1>2 DEF Moves
<1>8. Released' <=> Released \/ (state = "transfer" /\ next = "release")
  <2>1. world'.written = world.written \cup P(policy)!Milestones(state, next)
    BY <1>2 DEF Moves
  <2>2. "pre_release_rgb" \in P(policy)!Milestones(state, next)
          <=> state = "transfer" /\ next = "release"
    BY FrameBeforeRelease
  <2> QED BY <2>1, <2>2 DEF Released
<1>9. world'.clock = world.clock + took /\ world.clock \in Nat
  BY <1>1, <1>2 DEF Moves, WorldTyped
<1>10. Todo(see, plan) = <<>> => took = 0 /\ world'.closed = world.closed
  BY <1>2 DEF Moves
<1>11. Todo(see, plan) # <<>> => world'.closed = ShutBy(world.closed, Todo(see, plan))
  BY <1>2 DEF Moves
<1>12. Todo(see, plan) =
         IF plan.abort THEN <<>> ELSE Commands(Configs[policy], state, Planned(see))
  BY DEF Todo
<1>13. /\ r \in Seq(Samples) /\ n \in Nat /\ Len(r) = n + 1
       /\ DOMAIN s = 1..n /\ DOMAIN r = 1..(n + 1)
       /\ \A i \in 1..n : r[i] = s[i]
       /\ r[n + 1] = x
  <2> HIDE DEF s, x, r
  <2> QED BY <1>3, Grows DEF n
<1>14. \A k \in Nat : k <= n /\ EarlyUpTo(s, k) =>
         /\ EarlyUpTo(r, k)
         /\ k = n /\ x.in \notin Placing => EarlyUpTo(r, k + 1)
  <2> HIDE DEF s, x, r
  <2> QED BY <1>3, EarlyOneMore DEF n
<1> HIDE DEF s, x, r, n, state, next
<1>15. /\ state \notin {"retract", "terminal"} => EarlyUpTo(s, n)
       /\ Released => state \in {"release", "verify_place", "retract", "terminal"}
       /\ state = "release" => n >= 1 /\ s[n].in = "transfer"
       /\ state = "verify_place" => ~world.closed
       /\ state = "retract" /\ Released => BeforeRetract(s, n)
  BY <1>1 DEF WayInv, s, n, state
<1>16. world'.log \in Seq(LogEvents)
       /\ (\/ next \in {"verify_grasp", "lift", "transfer", "release", "verify_place"}
           \/ Released'
           => GripperClosedFromEvents(world'.log))
  <2>1. world'.log = Transition(world.log, state, plan, world.clock + took)
    BY <1>2 DEF Moves, state
  <2>2. world.log \in Seq(LogEvents)
    BY <1>1 DEF WayInv
  <2>3. \/ state \in {"verify_grasp", "lift", "transfer", "release", "verify_place"}
        \/ Released
        => GripperClosedFromEvents(world.log)
    BY <1>1 DEF WayInv, state
  <2> DEFINE at == world.clock + took
             log == world.log
             new == world'.log
  <2>4. at \in Nat /\ plan.next \in States /\ plan.abort \in BOOLEAN /\ state \in States
    BY <1>2, <1>5, <1>6, <1>7, <1>9
  <2>5. log \in Seq(LogEvents) /\ new = Transition(log, state, plan, at)
    BY <2>1, <2>2
  <2> HIDE DEF at, log, new
  <2>6. /\ new \in Seq(LogEvents)
        /\ GripperClosedFromEvents(log) => GripperClosedFromEvents(new)
        /\ state = "grasp" /\ ~plan.abort => GripperClosedFromEvents(new)
    BY <2>4, <2>5, LogGrows
  <2>7. /\ world'.log \in Seq(LogEvents)
        /\ GripperClosedFromEvents(world.log) => GripperClosedFromEvents(world'.log)
        /\ state = "grasp" /\ ~plan.abort => GripperClosedFromEvents(world'.log)
    BY <2>6 DEF log, new
  <2>8. next \in {"verify_grasp", "lift", "transfer", "release", "verify_place"} =>
          \/ state \in {"verify_grasp", "lift", "transfer", "release", "verify_place"}
          \/ state = "grasp" /\ ~plan.abort
    BY <1>6 DEF Onward
  <2> QED BY <1>8, <2>3, <2>7, <2>8
<1>17. \A i \in DOMAIN r : r[i].in = "transfer" => r[i].place # "target"
  <2>1. x.in = "transfer" => x.place # "target"
    <3>1. see \in Sights(scene, state)
      BY <1>2 DEF Moves, state
    <3> QED BY <1>4, <1>5, <3>1, PickupAssumption
  <2>2. \A i \in 1..n : s[i].in = "transfer" => s[i].place # "target"
    BY <1>1, <1>13 DEF WayInv, s
  <2>3. \A i \in 1..(n + 1) : i \in 1..n \/ i = n + 1
    BY <1>13
  <2> QED BY <1>13, <2>1, <2>2, <2>3
<1>18. next \notin {"retract", "terminal"} => EarlyUpTo(r, Len(r))
  <2> SUFFICES ASSUME next \notin {"retract", "terminal"} PROVE EarlyUpTo(r, Len(r))
    OBVIOUS
  <2>1. state \notin {"verify_place", "retract", "terminal"}
    BY <1>5, <1>6 DEF Onward
  <2>2. EarlyUpTo(s, n) /\ x.in \notin Placing
    BY <1>4, <1>15, <2>1 DEF Placing
  <2>3. n <= n
    BY <1>13
  <2> QED BY <1>13, <1>14, <2>2, <2>3
<1>19. Released' => next \in {"release", "verify_place", "retract", "terminal"}
  BY <1>5, <1>6, <1>8, <1>15 DEF Onward
<1>20. next = "release" => Len(r) >= 1 /\ r[Len(r)].in = "transfer"
  <2> SUFFICES ASSUME next = "release" PROVE Len(r) >= 1 /\ r[Len(r)].in = "transfer"
    OBVIOUS
  <2>1. state = "transfer"
    BY <1>6 DEF Onward
  <2>2. Len(r) >= 1
    BY <1>13
  <2> QED BY <1>4, <1>13, <2>1, <2>2
<1>21. next = "verify_place" => ~world'.closed
  <2> SUFFICES ASSUME next = "verify_place" PROVE ~world'.closed
    OBVIOUS
  <2>1. state = "release" /\ ~plan.abort
    BY <1>6 DEF Onward
  <2>2. Commands(Configs[policy], "release", Planned(see)) = ReleaseCommands(Configs[policy])
    BY DEF Commands
  <2>3. policy \in Policies
    BY <1>1 DEF WorldTyped
  <2>4. Configs[policy].settles \in Nat \ {0}
    BY <2>3, ConfigsAssumption DEF ConfigIsValid
  <2> DEFINE config == Configs[policy]
             c == world.closed
  <2>5. ReleaseCommands(config) # <<>> /\ ~ShutBy(c, ReleaseCommands(config))
    <3>1. config.settles \in Nat \ {0}
      BY <2>4
    <3> HIDE DEF config, c
    <3> QED BY <3>1, ReleaseOpens
  <2>6. Todo(see, plan) = ReleaseCommands(config)
    BY <1>12, <2>1, <2>2
  <2>7. world'.closed = ShutBy(c, Todo(see, plan))
    BY <1>11, <2>5, <2>6
  <2> HIDE DEF config, c
  <2> QED BY <2>5, <2>6, <2>7
<1>22. next = "retract" /\ Released' =>
         /\ Len(r) >= 1 /\ EarlyUpTo(r, Len(r) - 1)
         /\ \/ r[Len(r)].in = "verify_place" /\ ~r[Len(r)].shut /\ ~world'.closed
            \/ /\ Len(r) >= 2 /\ r[Len(r)].in = "release" /\ r[Len(r)].t = world'.clock
               /\ r[Len(r) - 1].in = "transfer"
  <2> SUFFICES ASSUME next = "retract", Released'
               PROVE  /\ EarlyUpTo(r, n)
                      /\ \/ x.in = "verify_place" /\ ~x.shut /\ ~world'.closed
                         \/ /\ n >= 1 /\ x.in = "release" /\ x.t = world'.clock
                            /\ r[n].in = "transfer"
    <3>1. Len(r) - 1 = n /\ Len(r) >= 1 /\ r[Len(r)] = x /\ (n >= 1 => Len(r) >= 2)
      BY <1>13
    <3> QED BY <3>1
  <2>1. Released /\ state \in {"release", "verify_place"}
    BY <1>5, <1>6, <1>8, <1>15 DEF Onward
  <2>2. EarlyUpTo(s, n)
    BY <1>15, <2>1
  <2>3. EarlyUpTo(r, n)
    <3>1. n <= n
      BY <1>13
    <3> QED BY <1>13, <1>14, <2>2, <3>1
  <2>4. CASE state = "release"
    <3>1. plan.abort
      BY <1>6, <2>4 DEF Onward
    <3>2. took = 0
      BY <1>10, <1>12, <3>1
    <3>3. x.t = world'.clock
      BY <1>4, <1>9, <3>2
    <3>4. n >= 1 /\ s[n].in = "transfer"
      BY <1>15, <2>4
    <3>5. r[n] = s[n]
      BY <1>13, <3>4
    <3> QED BY <1>4, <2>3, <2>4, <3>3, <3>4, <3>5
  <2>5. CASE state = "verify_place"
    <3>1. ~world.closed /\ ~x.shut
      BY <1>4, <1>15, <2>5
    <3> DEFINE config == Configs[policy]
               object == Planned(see)
               c == world.closed
    <3>2. ShutBy(c, Commands(config, "verify_place", object)) = c
      <4> HIDE DEF config, object, c
      <4> QED BY SettlingKeepsGripper
    <3>3. world'.closed = world.closed
      <4>1. CASE Todo(see, plan) = <<>>
        BY <1>10, <4>1
      <4>2. CASE Todo(see, plan) # <<>>
        <5>1. Todo(see, plan) = Commands(config, "verify_place", object)
          BY <1>12, <2>5, <4>2
        <5>2. world'.closed = ShutBy(c, Todo(see, plan))
          BY <1>11, <4>2
        <5> HIDE DEF config, object
        <5> QED BY <3>2, <5>1, <5>2
      <4> QED BY <4>1, <4>2
    <3> QED BY <1>4, <2>3, <2>5, <3>1, <3>3
  <2> QED BY <2>1, <2>4, <2>5
<1>23. next = "terminal" /\ Released' => AfterRetract(r, Len(r))
  <2> SUFFICES ASSUME next = "terminal", Released' PROVE AfterRetract(r, Len(r))
    OBVIOUS
  <2>1. Released /\ state = "retract"
    BY <1>5, <1>6, <1>8, <1>15 DEF Onward
  <2>2. BeforeRetract(s, n)
    BY <1>15, <2>1
  <2>3. n >= 1 /\ EarlyUpTo(s, n - 1) /\ n - 1 \in Nat /\ n - 1 <= n
    BY <1>13, <2>2 DEF BeforeRetract
  <2>4. EarlyUpTo(r, n - 1)
    BY <1>14, <2>3
  <2>5. Len(r) = n + 1 /\ Len(r) - 1 = n /\ Len(r) - 2 = n - 1 /\ Len(r) >= 2
    BY <1>13, <2>3
  <2>6. r[Len(r)] = x /\ r[n] = s[n]
    BY <1>13, <2>3, <2>5
  <2>7. CASE s[n].in = "verify_place" /\ ~s[n].shut /\ ~world.closed
    BY <1>4, <2>1, <2>4, <2>5, <2>6, <2>7 DEF AfterRetract
  <2>8. CASE /\ n >= 2 /\ s[n].in = "release" /\ s[n].t = world.clock
             /\ s[n - 1].in = "transfer"
    <3>1. n - 1 \in 1..n /\ Len(r) >= 3
      BY <1>13, <2>5, <2>8
    <3>2. r[n - 1] = s[n - 1]
      BY <1>13, <3>1
    <3> QED BY <1>4, <2>1, <2>4, <2>5, <2>6, <2>8, <3>1, <3>2 DEF AfterRetract
  <2> QED BY <2>2, <2>7, <2>8 DEF BeforeRetract
<1> QED BY <1>16, <1>17, <1>18, <1>19, <1>20, <1>21, <1>22, <1>23
        DEF WayInv, BeforeRetract, r, next

LEMMA WayBegins ==
  ASSUME Init
  PROVE  WayBegun
<1>1. world = NewWorld
  BY DEF Init
<1>2. /\ world.state = "reset" /\ world.samples = <<>> /\ world.log = NewLog
      /\ world.written = {}
  BY <1>1, NewWorldFields
<1>3. Len(world.samples) = 0 /\ DOMAIN world.samples = {}
  BY <1>2
<1>4. world.log \in Seq(LogEvents)
  <2>1. Event("state_start", "reset", 0) \in LogEvents
    BY StatesAre DEF Event, LogEvents
  <2> DEFINE e == Event("state_start", "reset", 0)
  <2>2. NewLog = <<e>>
    BY DEF NewLog
  <2> HIDE DEF e
  <2> QED BY <1>2, <2>1, <2>2 DEF e
<1>5. EarlyUpTo(world.samples, Len(world.samples))
  BY <1>3 DEF EarlyUpTo
<1>6. ~Released
  BY <1>2 DEF Released
<1>7. WayInv
  BY <1>2, <1>3, <1>4, <1>5, <1>6 DEF WayInv
<1> QED BY <1>7, WorldTypedBegins DEF WayBegun

LEMMA FinalizeKeepsWay ==
  ASSUME WayBegun, Finalize
  PROVE  WayBegun'
<1>1. /\ Shaped(world')
      /\ world'.samples = world.samples
      /\ world'.collided = world.collided /\ world'.state = world.state
      /\ world'.clock = world.clock /\ world'.closed = world.closed
      /\ world'.log = world.log /\ world'.written = world.written
  BY FinalizeFields DEF WayBegun, WorldTyped
<1>2. scene' = scene /\ policy' = policy
  BY DEF Finalize
<1>3. WorldTyped'
  BY <1>1, <1>2 DEF WayBegun, WorldTyped
<1>4. Released' <=> Released
  BY <1>1 DEF Released
<1>5. BeforeRetract(world.samples, Len(world.samples))'
        <=> BeforeRetract(world.samples, Len(world.samples))
  BY <1>1 DEF BeforeRetract
<1>6. WayInv'
  BY <1>1, <1>4, <1>5 DEF WayBegun, WayInv
<1> QED BY <1>3, <1>6 DEF WayBegun

\* What follows of a settlement: the whole window lies in the bin that it names.
LEMMA SettledIn ==
  ASSUME WorldTyped, NEW s, s = world.samples, s # <<>>, NEW bin, bin = SettledBin(s),
         bin # "unsettled"
  PROVE  /\ \E i \in 1..Len(s) : s[Len(s)].t - s[i].t = SettleWindow
         /\ \A i \in 1..Len(s) :
              s[Len(s)].t - s[i].t <= SettleWindow => s[i].still /\ s[i].place = bin
<1> DEFINE n == Len(s)
           Window == {i \in 1..n : Span(i, n) <= SettleWindow}
           m == Min(SettleSamples(s))
<1>1. s \in Seq(Samples) /\ n \in Nat /\ n \in 1..n /\ DOMAIN s = 1..n
  BY DEF WorldTyped
<1>2. \A i \in 1..n : Span(i, n) = s[n].t - s[i].t
  BY DEF Span
<1>3. /\ \E i \in Window : Span(i, n) = SettleWindow
      /\ \A i \in Window : s[i].still /\ s[i].place = s[n].place
  BY SettledIsExact DEF SettledExactly
<1>4. Window = SettleSamples(s)
  <2>1. Last(s) = s[n]
    BY DEF Last
  <2> QED BY <1>1, <1>2, <2>1 DEF SettleSamples
<1>5. bin = s[m].place
  BY DEF SettledBin
<1>6. m \in Window
  <2>1. Window \in SUBSET Nat /\ Window # {}
    BY <1>1, <1>3
  <2> HIDE DEF Window
  <2> QED BY <1>4, <2>1, MinOfNaturals
<1>7. bin = s[n].place
  BY <1>3, <1>5, <1>6
<1>8. \A i \in 1..n : s[n].t - s[i].t <= SettleWindow => i \in Window
  BY <1>2
<1>9. \E i \in 1..n : s[n].t - s[i].t = SettleWindow
  BY <1>2, <1>3
<1> HIDE DEF Window, m
<1> QED BY <1>3, <1>7, <1>8, <1>9

LEMMA PrecedenceOf ==
  /\ DOMAIN OutcomePrecedence = 1..6
  /\ OutcomePrecedence[1] = "system_error" /\ OutcomePrecedence[2] = "collision"
  /\ OutcomePrecedence[3] = "missed_grasp" /\ OutcomePrecedence[4] = "dropped_object"
  /\ OutcomePrecedence[5] = "wrong_bin" /\ OutcomePrecedence[6] = "success"
BY DEF OutcomePrecedence

\* Success has the last place: with any other finding there is none.
LEMMA SuccessIsLast ==
  ASSUME NEW found, SelectTaskOutcome(found) = "success"
  PROVE  /\ "success" \in found /\ "collision" \notin found /\ "missed_grasp" \notin found
         /\ "wrong_bin" \notin found
<1> DEFINE hits == {i \in 1..6 : OutcomePrecedence[i] \in found}
<1>1. SelectTaskOutcome(found) =
        IF hits = {} THEN "system_error" ELSE OutcomePrecedence[Min(hits)]
  BY PrecedenceOf DEF SelectTaskOutcome
<1>2. \A i \in 1..6 : i \in hits <=> OutcomePrecedence[i] \in found
  OBVIOUS
<1>3. hits \in SUBSET Nat /\ hits \subseteq 1..6
  OBVIOUS
<1> HIDE DEF hits
<1>4. hits # {} /\ OutcomePrecedence[Min(hits)] = "success"
  BY <1>1
<1>5. Min(hits) \in hits /\ \A k \in hits : Min(hits) =< k
  BY <1>3, <1>4, MinOfNaturals
<1>6. Min(hits) \in 1..6
  BY <1>3, <1>5
<1>7. \A i \in 1..6 : OutcomePrecedence[i] = "success" => i = 6
  <2>1. \A i \in 1..6 : i = 1 \/ i = 2 \/ i = 3 \/ i = 4 \/ i = 5 \/ i = 6
    OBVIOUS
  <2> QED BY <2>1, PrecedenceOf
<1>8. Min(hits) = 6
  BY <1>4, <1>6, <1>7
<1>9. 6 \in hits /\ \A k \in 1..6 : k \in hits => 6 <= k
  BY <1>5, <1>8
<1>10. 2 \notin hits /\ 3 \notin hits /\ 5 \notin hits
  BY <1>9
<1>11. 2 \in 1..6 /\ 3 \in 1..6 /\ 5 \in 1..6 /\ 6 \in 1..6
  OBVIOUS
<1> QED BY <1>2, <1>9, <1>10, <1>11, PrecedenceOf

LEMMA SuccessMeans ==
  ASSUME NEW samples, NEW events, NEW collided, NEW closed, NEW released,
         ClassifyOutcome(samples, events, collided, closed, released).outcome = "success",
         GripperClosedFromEvents(events)
  PROVE  ~collided /\ GraspVerified(samples) /\ SettledBin(samples) = "target"
<1> DEFINE bin   == SettledBin(samples)
           gone  == released \/ ReleasedFromEvents(events)
           shut  == closed \/ GripperClosedFromEvents(events)
           found == {o \in {"collision"}      : collided} \cup
                    {o \in {"missed_grasp"}   : shut /\ ~GraspVerified(samples)} \cup
                    {o \in {"dropped_object"} : GraspLostOutsideTarget(samples, gone)} \cup
                    {o \in {"wrong_bin"}      : bin \notin {"unsettled", "target"}} \cup
                    {o \in {"success"}        : bin = "target"}
<1>1. ClassifyOutcome(samples, events, collided, closed, released).outcome
        = SelectTaskOutcome(found)
  BY DEF ClassifyOutcome, Classification
<1>2. shut
  OBVIOUS
<1>3. collided => "collision" \in found
  OBVIOUS
<1>4. ~GraspVerified(samples) => "missed_grasp" \in found
  BY <1>2
<1>5. "success" \in found => bin = "target"
  OBVIOUS
<1> HIDE DEF found
<1>6. "success" \in found /\ "collision" \notin found /\ "missed_grasp" \notin found
  BY <1>1, SuccessIsLast
<1> QED BY <1>3, <1>4, <1>5, <1>6

LEMMA JudgedASuccess ==
  ASSUME WayBegun, world.state = "terminal", Judgement(world).outcome = "success"
  PROVE  /\ ~world.collided
         /\ \E i, j \in DOMAIN world.samples :
              /\ i < j /\ Span(i, j) >= GraspContactDuration
              /\ Throughout(i, j, Held)
         /\ \A s \in ToSet(world.samples) :
              s.in \in {"verify_place", "retract"} => s.still /\ s.place = "target" /\ ~s.shut
<1>1. WorldTyped /\ WayInv
  BY DEF WayBegun
<1> DEFINE s == world.samples
           n == Len(s)
<1>2. /\ world.written = P(policy)!MilestoneKinds
      /\ Judgement(world) = ClassifyOutcome(s, world.log, world.collided, world.closed,
                                            world.released)
  BY DEF Judgement, Failed, Classification
<1>3. Released
  BY <1>2 DEF Released, P!MilestoneKinds
<1>4. GripperClosedFromEvents(world.log) /\ AfterRetract(s, n)
  BY <1>1, <1>3 DEF WayInv
<1>5. ~world.collided /\ GraspVerified(s) /\ SettledBin(s) = "target"
  <2> DEFINE log == world.log
             collided == world.collided
             closed == world.closed
             released == world.released
  <2>1. ClassifyOutcome(s, log, collided, closed, released).outcome = "success"
    BY <1>2
  <2>2. GripperClosedFromEvents(log)
    BY <1>4
  <2> HIDE DEF s, log, collided, closed, released
  <2>3. ~collided /\ GraspVerified(s) /\ SettledBin(s) = "target"
    BY <2>1, <2>2, SuccessMeans
  <2> QED BY <2>3 DEF collided
<1>6. s \in Seq(Samples) /\ InOrder(s)
  BY <1>1 DEF WorldTyped
<1>7. n \in Nat /\ DOMAIN s = 1..n
  BY <1>6
<1>8. \A i \in 1..n : s[i] \in Samples
  BY <1>6
<1>9. \A i \in 1..n : s[i].t \in Nat
  BY <1>8 DEF Samples
<1>10. n >= 2 /\ s # <<>>
  BY <1>4, <1>7 DEF AfterRetract
<1>11. /\ \E i \in 1..n : s[n].t - s[i].t = SettleWindow
       /\ \A i \in 1..n : s[n].t - s[i].t <= SettleWindow => s[i].still /\ s[i].place = "target"
  <2>1. "target" # "unsettled"
    OBVIOUS
  <2> QED BY <1>1, <1>5, <1>10, <2>1, SettledIn
<1>12. \E i, j \in DOMAIN s :
         /\ i < j /\ Span(i, j) >= GraspContactDuration
         /\ Throughout(i, j, Held)
  <2> DEFINE Ends == {j \in DOMAIN s : \E i \in 1..j :
                        Span(i, j) >= GraspContactDuration /\ Throughout(i, j, Held)}
             at == FirstVerifiedGraspTime(s)
  <2>1. at # Never
    BY <1>5 DEF GraspVerified
  <2>2. Ends = {} => at = Never
    BY <1>1, VerifiedIsHeld DEF GraspMeansHeld
  <2>3. PICK j \in DOMAIN s : \E i \in 1..j :
               Span(i, j) >= GraspContactDuration /\ Throughout(i, j, Held)
    BY <2>1, <2>2
  <2>4. PICK i \in 1..j : Span(i, j) >= GraspContactDuration /\ Throughout(i, j, Held)
    BY <2>3
  <2>5. j \in 1..n /\ i \in 1..n /\ i <= j
    BY <1>7
  <2>6. i # j
    <3>1. Span(j, j) = s[j].t - s[j].t /\ s[j].t \in Nat
      BY <1>9, <2>5 DEF Span
    <3>2. Span(j, j) = 0
      BY <3>1
    <3> QED BY <2>4, <3>2 DEF GraspContactDuration
  <2>7. i < j
    BY <2>5, <2>6
  <2> QED BY <1>7, <2>4, <2>5, <2>7
<1>13. PICK early \in 1..n : s[n].t - s[early].t = SettleWindow
  BY <1>11
<1>14. \A k \in 1..n : early <= k => s[n].t - s[k].t <= SettleWindow
  <2> SUFFICES ASSUME NEW k \in 1..n, early <= k PROVE s[n].t - s[k].t <= SettleWindow
    OBVIOUS
  <2>1. s[early].t \in Nat /\ s[k].t \in Nat /\ s[n].t \in Nat
    BY <1>7, <1>9, <1>10
  <2>2. early < k => s[early].t <= s[k].t
    BY <1>6, <1>7 DEF InOrder
  <2>3. s[early].t <= s[k].t
    BY <1>7, <2>1, <2>2
  <2> QED BY <1>13, <2>1, <2>3 DEF SettleWindow
<1>15. early # n
  <2>1. n \in 1..n
    BY <1>7, <1>10
  <2>2. s[n].t \in Nat
    BY <1>9, <2>1
  <2> QED BY <1>13, <2>2 DEF SettleWindow
<1>16. ~(/\ n >= 3 /\ s[n - 1].in = "release" /\ s[n - 1].t = s[n].t
         /\ s[n - 2].in = "transfer")
  <2> SUFFICES ASSUME n >= 3, s[n - 1].t = s[n].t, s[n - 2].in = "transfer"
               PROVE  FALSE
    OBVIOUS
  <2>1. n - 1 \in 1..n /\ n - 2 \in 1..n /\ n \in 1..n
    BY <1>7
  <2>2. early # n - 1
    <3>1. s[n].t \in Nat
      BY <1>9, <2>1
    <3> QED BY <1>13, <3>1 DEF SettleWindow
  <2>3. early <= n - 2
    BY <1>7, <1>15, <2>2
  <2>4. s[n - 2].place = "target"
    BY <1>11, <1>14, <2>1, <2>3
  <2> QED BY <1>1, <1>7, <2>1, <2>4 DEF WayInv
<1>17. /\ EarlyUpTo(s, n - 2) /\ ~s[n - 1].shut /\ ~s[n].shut
  BY <1>4, <1>16 DEF AfterRetract
<1>18. n - 1 \in 1..n /\ n \in 1..n /\ early <= n - 1 /\ early <= n
  BY <1>7, <1>10, <1>15
<1>19. \A k \in 1..n : early <= k => s[k].still /\ s[k].place = "target"
  BY <1>11, <1>14
<1>20. /\ s[n - 1].still /\ s[n - 1].place = "target"
       /\ s[n].still /\ s[n].place = "target"
  BY <1>18, <1>19
<1>21. \A x \in ToSet(s) :
         x.in \in {"verify_place", "retract"} => x.still /\ x.place = "target" /\ ~x.shut
  <2> SUFFICES ASSUME NEW k \in 1..n, s[k].in \in Placing
               PROVE  s[k].still /\ s[k].place = "target" /\ ~s[k].shut
    BY <1>7 DEF ToSet, Placing
  <2>1. k \notin 1..(n - 2)
    BY <1>17 DEF EarlyUpTo
  <2>2. k = n - 1 \/ k = n
    BY <1>7, <1>10, <2>1
  <2> QED BY <1>17, <1>20, <2>2
<1> HIDE DEF s, n
<1>22. \A x \in ToSet(world.samples) :
         x.in \in {"verify_place", "retract"} => x.still /\ x.place = "target" /\ ~x.shut
  BY <1>21 DEF s
<1>23. \E i, j \in DOMAIN world.samples :
         /\ i < j /\ Span(i, j) >= GraspContactDuration
         /\ Throughout(i, j, Held)
  BY <1>12 DEF s
<1> QED BY <1>5, <1>22, <1>23

\* The states of an attempt are left in one order only: the frame before the release is
\* taken on the way from TRANSFER to RELEASE, after which the gripper is opened before
\* the placed object is verified and the arm retracts, unless the policy aborted at
\* RELEASE without an update in between (state_machine.py, base.py, recorder).
THEOREM WayInvariant == Spec => []WayBegun
<1>1. Init => WayBegun
  BY WayBegins
<1>2. WayBegun /\ [Next]_vars => WayBegun'
  <2> SUFFICES ASSUME WayBegun, [Next]_vars PROVE WayBegun'
    OBVIOUS
  <2>1. CASE Execute
    <3>1. WorldTyped'
      BY <2>1, WorldTypedKept DEF WayBegun
    <3>2. WayInv'
      BY <2>1, WayKept
    <3> QED BY <3>1, <3>2 DEF WayBegun
  <2>2. CASE Finalize
    BY <2>2, FinalizeKeepsWay
  <2>3. CASE UNCHANGED vars
    BY <2>3 DEF WayBegun, WorldTyped, WayInv, BeforeRetract, Released, vars
  <2> QED BY <2>1, <2>2, <2>3 DEF Next
<1> QED BY <1>1, <1>2, PTL DEF Spec

\* What SuccessEarned asks of the samples of a successful world.
LEMMA EarnedBySamples ==
  ASSUME world'.samples = world.samples, world'.collided = world.collided,
         /\ ~world.collided
         /\ \E i, j \in DOMAIN world.samples :
              /\ i < j /\ Span(i, j) >= GraspContactDuration
              /\ Throughout(i, j, Held)
         /\ \A s \in ToSet(world.samples) :
              s.in \in {"verify_place", "retract"} => s.still /\ s.place = "target" /\ ~s.shut
  PROVE  SuccessEarned'
<1>1. PICK i, j \in DOMAIN world.samples :
        /\ i < j /\ Span(i, j) >= GraspContactDuration
        /\ Throughout(i, j, Held)
  OBVIOUS
<1>2. Span(i, j)' = Span(i, j)
  BY DEF Span
<1>3. Throughout(i, j, Held)'
  BY <1>1 DEF Throughout, Held, Between
<1>4. \E a, b \in DOMAIN world'.samples :
        /\ a < b /\ Span(a, b)' >= GraspContactDuration
        /\ Throughout(a, b, Held)'
  BY <1>1, <1>2, <1>3
<1> QED BY <1>4 DEF SuccessEarned

\* A success was earned: nothing was pressed for longer than 0.05 s, the object was held
\* firm and high for 0.05 s, and it lay still in the target bin both after the release
\* and, with the gripper open, before the arm retracted, whatever the physics did
\* (outcomes.py classify_outcome, trial_execution.py finalize).
THEOREM SuccessesAreEarned == Spec => []SuccessEarned
<1> DEFINE Earned == WayBegun /\ SuccessEarned
<1>1. Init => Earned
  <2> SUFFICES ASSUME Init PROVE Earned
    OBVIOUS
  <2>1. world.status = "running"
    BY NewWorldFields DEF Init
  <2> QED BY <2>1, WayBegins DEF SuccessEarned
<1>2. Earned /\ WayBegun' /\ [Next]_vars => Earned'
  <2> SUFFICES ASSUME Earned, WayBegun', [Next]_vars PROVE SuccessEarned'
    OBVIOUS
  <2>1. CASE Execute
    <3>1. PICK see, reach, detected, plan, took, shut :
            Moves(see, reach, detected, plan, took, shut)
      BY <2>1, SampleTaken DEF WayBegun
    <3>2. world.status = "running"
      BY <2>1 DEF Execute, Running
    <3>3. world'.status \in {"failed", "running"}
      BY <3>1, <3>2 DEF Moves
    <3> QED BY <3>3 DEF SuccessEarned
  <2>2. CASE Finalize
    <3>1. /\ world'.status = Judgement(world).outcome
          /\ world'.samples = world.samples /\ world'.collided = world.collided
      BY <2>2, FinalizeFields DEF WayBegun, WorldTyped
    <3>2. CASE Judgement(world).outcome = "success"
      <4>1. world.state = "terminal"
        BY <2>2 DEF Finalize
      <4> QED BY <3>1, <3>2, <4>1, JudgedASuccess, EarnedBySamples
    <3>3. CASE Judgement(world).outcome # "success"
      BY <3>1, <3>3 DEF SuccessEarned
    <3> QED BY <3>2, <3>3
  <2>3. CASE UNCHANGED vars
    <3>1. world' = world
      BY <2>3 DEF vars
    <3>2. CASE world.status = "success"
      BY <3>1, <3>2, EarnedBySamples DEF SuccessEarned
    <3>3. CASE world.status # "success"
      BY <3>1, <3>3 DEF SuccessEarned
    <3> QED BY <3>2, <3>3
  <2> QED BY <2>1, <2>2, <2>3 DEF Next
<1>3. Earned => SuccessEarned
  OBVIOUS
<1> HIDE DEF Earned
<1> QED BY <1>1, <1>2, <1>3, WayInvariant, PTL DEF Spec

=============================================================================
