----------------------------- MODULE TrialWorld -----------------------------
(***************************************************************************)
(* One attempt in memory: _PhysicsTrialWorld (trial_execution.py), which   *)
(* drives a policy (policies/) through the controller's states, samples    *)
(* the physics once in each, and has the samples judged at the end         *)
(* (Outcomes).  TrialExecution abstracts this to flags and adds what       *)
(* surrounds it: files, rows, faults, stops.                               *)
(*                                                                         *)
(* Physics is an input: what an observation finds is any of Sights(scene,  *)
(* state), the commands of a state end as any of Takes(scene, state), and  *)
(* the inverse kinematics misses any of Misses(scene, waypoints).          *)
(***************************************************************************)
EXTENDS Outcomes, PolicyCommands

CONSTANTS Policies,            \* the implementations under trial
          Configs,             \* the configuration of each
          Scenes,              \* what the physics may do, by name
          Sights(_, _),        \* a set of [points, high, place, still, position]
          Takes(_, _),         \* a set of <<control updates, status of the last command>>
          Misses(_, _)         \* a set of sets of waypoints

ASSUME ConfigsAssumption == \A p \in Policies : ConfigIsValid(p, Configs[p])

P(implementation) == INSTANCE Controller WITH Implementation <- implementation

\* The same for every policy.
States == P("fixed")!ControllerStates

\* What an observation and the commands of a state may be.
Seen == [points : SUBSET Points, high : BOOLEAN, place : Places, still : BOOLEAN,
         position : Positions]

ASSUME PhysicsAssumption ==
  \A s \in Scenes, state \in States :
    Sights(s, state) \subseteq Seen /\ Takes(s, state) \subseteq Nat \X STRING

\* An object is picked up clear of the bins (Generator), and TRANSFER is observed
\* before its first move, so that the object is not over the target bin yet.
ASSUME PickupAssumption ==
  \A s \in Scenes : \A see \in Sights(s, "transfer") : see.place # "target"

VARIABLES scene, policy, world

vars == <<scene, policy, world>>

-----------------------------------------------------------------------------

(* TrialEventLog and ControllerStateMachine (control/state_machine.py).    *)

Event(type, in, at) == [type |-> type, in |-> in, at |-> at]

NewLog == <<Event("state_start", "reset", 0)>>

\* transition: the end of the state, or its failure, and the start of the next one.
Transition(log, source, plan, at) ==
  log \o <<Event(IF plan.abort THEN "state_failure" ELSE "state_end", source, at),
           Event("state_start", plan.next, at)>>

-----------------------------------------------------------------------------

\* The assessment of reachability before there is one: nothing out of reach.
NotAssessed == <<>>

\* "sent" is kept for the properties: the waypoints that were commanded so far.
NewWorld ==
  [state |-> "reset", status |-> "running", code |-> "none", clock |-> 0, samples |-> <<>>,
   trackers |-> NoTrackers, collided |-> FALSE, verified |-> FALSE,
   reach |-> NotAssessed, sent |-> {}, closed |-> FALSE, released |-> FALSE,
   log |-> NewLog, written |-> {}, last |-> "none", regrasps |-> 0]

Init ==
  /\ scene \in Scenes
  /\ policy \in Policies
  /\ world = NewWorld

\* Updates since the last observation.
Elapsed(w) == IF w.samples = <<>> THEN 0 ELSE w.clock - Last(w.samples).t

\* _observe.  A sample also keeps, for the properties, the controller's state, the
\* points, and whether the last gripper command was a close.
Observed(w, see, detected) ==
  LET events == SampleContacts(see.points)
  IN  [w EXCEPT !.trackers = Tracked(@, PressedPairs(events), Elapsed(w)),
                !.collided = @ \/ detected,
                !.verified = @ \/ Grip(events) # "none",
                !.samples = Append(@, [t |-> w.clock, in |-> w.state, shut |-> w.closed,
                                       points |-> see.points, grip |-> Grip(events),
                                       high |-> see.high, place |-> see.place,
                                       still |-> see.still])]

Observation(w) ==
  [state |-> w.state, collision |-> w.collided, last |-> w.last, verified |-> w.verified,
   regrasps |-> w.regrasps, reachable |-> RequiredReachable(w.reach)]

\* Where the policy plans the object to be when it has seen it.
Planned(see) == PlannedObjectPosition(policy, see.position)

\* In the state plan the waypoints are assessed, for where the object is then; in the
\* others what was found there is observed again.
Assessments(w, see) ==
  LET waypoints == Assessed(Configs[policy], Planned(see))
  IN  IF w.state = "plan"
      THEN {[x \in waypoints |-> x \notin missed] : missed \in Misses(scene, waypoints)}
      ELSE {w.reach}

-----------------------------------------------------------------------------
(* The commands of a state take effect.                                    *)

\* The fewest updates of a primitive: only a move can be rejected before its first
\* update, and a hold of 0.40 s makes at least 24.
Least(primitive) ==
  CASE primitive \in {"open", "close", "settle"} -> 1
    [] primitive = "hold"                        -> 24
    [] OTHER                                     -> 0

\* <<updates, last status>>.  The last status is that of the last command, and a
\* state of one move that took no update was rejected.
Results(commands) ==
  {r \in Takes(scene, world.state) :
     /\ r[1] >= FoldLeft(LAMBDA sum, c : sum + Least(c.do), 0, commands)
     /\ r[2] \in {"done", "ik_rejected"}
     /\ r[2] = "ik_rejected" => Last(commands).do \in {"move", "retract"}
     /\ r[1] = 0 => r[2] = "ik_rejected"}

\* Whether the last gripper command is a close.
ShutBy(shut, commands) ==
  LET gripping == {i \in DOMAIN commands : commands[i].do \in {"open", "close"}}
  IN  IF gripping = {} THEN shut ELSE commands[Max(gripping)].do = "close"

Executed(w, commands, result) ==
  [w EXCEPT !.closed = ShutBy(@, commands),
            !.released = @ \/ Do("open") \in ToSet(commands),
            !.sent = @ \cup Targets(commands),
            !.last = result[2],
            !.clock = @ + result[1]]

\* The machine moves and the recorder takes its frames; a frame taken twice is
\* a ValueError, which ends the attempt.
Crossed(w, plan) ==
  LET frames == P(policy)!Milestones(w.state, plan.next)
  IN  [w EXCEPT !.state = plan.next,
                !.log = Transition(@, w.state, plan, w.clock),
                !.regrasps = IF plan.regrasp THEN @ + 1 ELSE @,
                !.written = @ \cup frames,
                !.status = IF frames \cap w.written # {} THEN "failed" ELSE @]

Running == world.status = "running"

\* execute_current_state
Execute ==
  /\ Running /\ world.state # "terminal"
  /\ \E see \in Sights(scene, world.state) :
       \E reach \in Assessments(world, see),
          detected \in Detections(Tracked(world.trackers,
                                          PressedPairs(SampleContacts(see.points)),
                                          Elapsed(world))) :
         LET w    == [Observed(world, see, detected) EXCEPT !.reach = reach]
             plan == P(policy)!Plan(Observation(w))
             todo == IF plan.abort THEN <<>>
                     ELSE Commands(Configs[policy], w.state, Planned(see))
         IN  \/ todo = <<>> /\ world' = Crossed(w, plan)
             \/ /\ todo # <<>>
                /\ \E result \in Results(todo) :
                     world' = Crossed(Executed(w, todo, result), plan)
  /\ UNCHANGED <<scene, policy>>

Failed == Classification("failed", "none")

\* recorder.finalize wants every frame; then classify_outcome.
Judgement(w) ==
  IF w.written # P(policy)!MilestoneKinds THEN Failed
  ELSE ClassifyOutcome(w.samples, w.log, w.collided, w.closed, w.released)

Finalize ==
  /\ Running /\ world.state = "terminal"
  /\ world' = [world EXCEPT !.status = Judgement(world).outcome, !.code = Judgement(world).code]
  /\ UNCHANGED <<scene, policy>>

Next == Execute \/ Finalize

Spec == Init /\ [][Next]_vars

-----------------------------------------------------------------------------
(* Properties.                                                             *)

Judged == world.status \notin {"running", "failed"}

SampleType(s) ==
  /\ s.t \in Nat /\ s.in \in States /\ s.shut \in BOOLEAN
  /\ s.grip \in Grips /\ s.grip = Grip(SampleContacts(s.points))
  /\ s.high \in BOOLEAN /\ s.place \in Places /\ s.still \in BOOLEAN

\* The world keeps what _PhysicsTrialWorld keeps; its samples and its trackers are in
\* the order of time, which outcomes.py and contacts.py insist on.
TypeOK ==
  /\ world.state \in States
  /\ world.status \in {"running", "failed"} \cup ToSet(OutcomePrecedence)
  /\ world.code \in {"none", "evaluation_unavailable"}
  /\ world.written \subseteq P(policy)!MilestoneKinds
  /\ \A s \in ToSet(world.samples) : SampleType(s) /\ s.t <= world.clock
  /\ \A i, j \in DOMAIN world.samples : i < j => world.samples[i].t <= world.samples[j].t
  /\ \A p \in DOMAIN world.trackers : world.trackers[p] \in 0..world.clock

\* Something held at every sample from the i-th to the j-th.
Throughout(i, j, Holds(_)) == \A k \in i..j : Holds(world.samples[k])

Span(i, j) == world.samples[j].t - world.samples[i].t

Between(p, x, y) == {BodyNames[p.a[1]], BodyNames[p.b[1]]} = {x, y}

\* The object is high, and a finger or a tip presses it.
Held(s) ==
  /\ s.high
  /\ \E p \in s.points :
       /\ Between(p, RobotBody, ObjectName) /\ p.force >= GraspForce
       /\ \E side \in {p.a, p.b} :
            BodyNames[side[1]] = RobotBody /\ side[2] > 0 /\ RobotLinks[side[2]] \in GraspLinks

\* The collision monitor reports a collision exactly when one and the same body was
\* pressed at every sample over 0.05 s, be it in other states of the controller, and
\* touches of several bodies, or with a gap, never add up (contacts.py observe).
CollisionMeansSustained ==
  LET Presses(s, body) == \E p \in s.points : Between(p, RobotBody, body) /\ p.force >= 5
      Pressed(updates) ==
        \E i, j \in DOMAIN world.samples, body \in ProhibitedBodies :
          /\ i <= j /\ Span(i, j) >= updates
          /\ Throughout(i, j, LAMBDA s : Presses(s, body))
  IN  /\ world.collided => Pressed(CollisionDuration)
      /\ Pressed(CollisionDuration + 1) => world.collided

\* The grasp is verified at the first sample that ends 0.05 s of samples in which
\* the object was firmly held and high, and at no other (_first_verified_grasp_time).
GraspMeansHeld ==
  LET Ends == {j \in DOMAIN world.samples : \E i \in 1..j :
                 Span(i, j) >= GraspContactDuration
                   /\ Throughout(i, j, Held)}
      at == FirstVerifiedGraspTime(world.samples)
  IN  IF Ends = {} THEN at = Never
      ELSE \E j \in Ends : at = world.samples[j].t /\ \A k \in Ends : j <= k

\* What is called settled was at rest, in one place, at every sample of the last
\* 0.10 s, and was sampled exactly 0.10 s before the last sample: one that is older
\* does not show that the object rested through the window (_placement_settlement).
SettledExactly ==
  world.samples # <<>> =>
    LET n      == Len(world.samples)
        Window == {i \in 1..n : Span(i, n) <= SettleWindow}
        bin    == SettledBin(world.samples)
    IN  bin # "unsettled" <=>
          /\ \E i \in Window : Span(i, n) = SettleWindow
          /\ \A i \in Window : /\ world.samples[i].still
                               /\ world.samples[i].place = world.samples[n].place

\* A success was earned: nothing was pressed for longer than 0.05 s, the object was
\* held firm and high for 0.05 s, and it lay still in the target bin both after the
\* release and, with the gripper open, before the arm retracted (outcomes.py).
SuccessEarned ==
  world.status = "success" =>
    /\ ~world.collided
    /\ \E i, j \in DOMAIN world.samples :
         /\ i < j /\ Span(i, j) >= GraspContactDuration
         /\ Throughout(i, j, Held)
    /\ \A s \in ToSet(world.samples) :
         s.in \in {"verify_place", "retract"} => s.still /\ s.place = "target" /\ ~s.shut

\* Where PLAN has looked: at a pose of the pickup, or at the place in the bin, computed
\* from the position that the waypoint is computed from.
LookedFrom(x) ==
  \E a \in DOMAIN world.reach : a.over = x.over /\ a.position = x.position

\* Of the waypoints of the pickup and of the place in the bin, which the policies and the
\* executor compute apart (base.py _approach_commands and its like, trial_execution.py
\* _assess_reachability): the fixed policy is sent to none that PLAN has not assessed.
\* Nor is a policy that follows the object, be it after a re-grasp, as long as the object
\* is where PLAN saw it, and the collision-aware one is sent only to those in reach. Of
\* an object that has moved nothing is assessed again, and so nothing is said.
PickupAssessed ==
  \A x \in world.sent :
    /\ x.over = "object" \/ x.height = "place"
    /\ policy = "fixed" \/ LookedFrom(x)
    => /\ x \in DOMAIN world.reach
       /\ policy = "collision_aware" => world.reach[x]

\* A grasp that was verified and lost outside the target bin, with the gripper still
\* commanded shut, makes the trial a dropped_object, unless it collided.
DropsReported ==
  LET Lost(i, j) ==
        /\ i < j
        /\ FirstVerifiedGraspTime(world.samples) = world.samples[i].t
        /\ world.samples[j].shut /\ ~Held(world.samples[j])
        /\ world.samples[j].place # "target"
  IN  Judged /\ ~world.collided /\ (\E i, j \in DOMAIN world.samples : Lost(i, j))
        => world.status = "dropped_object"
=============================================================================
