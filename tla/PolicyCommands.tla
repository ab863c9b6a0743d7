--------------------------- MODULE PolicyCommands ---------------------------
(***************************************************************************)
(* What a policy commands in each state (policies/base.py), and the        *)
(* waypoints that the executor has assessed beforehand (trial_execution.py *)
(* _assess_reachability).  The two build their poses apart.  No state.     *)
(*                                                                         *)
(* A pose is computed from a position [xy, z] of the object and from       *)
(* offsets that the configuration fixes.  A waypoint says which pose it is *)
(* (over what, at which height, the how manieth of its kind) and what      *)
(* position it was computed from: moved with the object, it is another.    *)
(* A configuration [approach, transfer, settles] counts the staged poses   *)
(* above the object, the ones on the way to the bin, and the settlings.    *)
(***************************************************************************)
EXTENDS Integers, Sequences, FiniteSets

Positions == [xy : STRING, z : STRING]

Position(xy, z) == [xy |-> xy, z |-> z]

\* planned_object_position: the fixed policy plans with the scenario's position and a
\* height of its own, the others with the position that they observe.
PlannedObjectPosition(p, observed) ==
  IF p = "fixed" THEN Position("initial", "nominal") ELSE observed

\* planned_place_position: at the bin, at the height of the object as it is now.
PlannedPlacePosition(object) == [object EXCEPT !.xy = "bin"]

At(over, height, n, position) ==
  [over |-> over, height |-> height, n |-> n, position |-> position]

Nowhere == At("nowhere", "none", 0, Position("none", "none"))

Move(waypoint) == [do |-> "move", to |-> waypoint]

Do(primitive) == [do |-> primitive, to |-> Nowhere]

\* PolicyConfig and the three _validate_config.
ConfigIsValid(p, config) ==
  /\ config.approach \in Nat /\ config.transfer \in Nat /\ config.settles \in Nat \ {0}
  /\ IF p = "collision_aware"
     THEN config.approach >= 1 /\ config.transfer >= 1 /\ config.settles >= 2
     ELSE config.approach = 0 /\ config.transfer = 0

-----------------------------------------------------------------------------

\* From the highest staged pose down.
ApproachCommands(config, object) ==
  <<Do("open")>>
    \o [i \in 1..config.approach |->
          Move(At("object", "staged", config.approach + 1 - i, object))]
    \o <<Move(At("object", "approach", 0, object))>>

GraspCommands(object) == <<Move(At("object", "grasp", 0, object)), Do("close"), Do("hold")>>

TransferCommands(config, object) ==
  LET place == PlannedPlacePosition(object)
  IN  [i \in 1..config.transfer |-> Move(At("between", "via", i, object))]
        \o <<Move(At("bin", "lift", 0, place)), Move(At("bin", "place", 0, place))>>

ReleaseCommands(config) ==
  IF config.settles = 1 THEN <<Do("open")>>
  ELSE <<Do("settle"), Do("open")>> \o [i \in 1..(config.settles - 1) |-> Do("settle")]

RetractPose(object) == At("bin", "lift", 0, PlannedPlacePosition(object))

\* The dispatch of plan, when it does not abort, for an object that is planned to be there.
Commands(config, state, object) ==
  CASE state = "approach"     -> ApproachCommands(config, object)
    [] state = "grasp"        -> GraspCommands(object)
    [] state = "lift"         -> <<Move(At("object", "lift", 0, object))>>
    [] state = "transfer"     -> TransferCommands(config, object)
    [] state = "release"      -> ReleaseCommands(config)
    [] state = "verify_place" -> <<Do("settle")>>
    [] state = "retract"      -> <<[do |-> "retract", to |-> RetractPose(object)]>>
    [] OTHER                  -> <<>>

Targets(commands) == {c.to : c \in {commands[i] : i \in DOMAIN commands}} \ {Nowhere}

-----------------------------------------------------------------------------

\* Mutant of Assessed: the staged poses are counted from 1 to below their number.
AssessedBelow(config, object) ==
  {At("object", height, 0, object) : height \in {"approach", "grasp", "lift"}}
    \cup {At("bin", "place", 0, PlannedPlacePosition(object))}
    \cup {At("object", "staged", n, object) : n \in 1..(config.approach - 1)}

\* The waypoints that _assess_reachability solves the inverse kinematics for: those
\* of the pickup, and the place in the bin.
Assessed(config, object) ==
  {At("object", height, 0, object) : height \in {"approach", "grasp", "lift"}}
    \cup {At("bin", "place", 0, PlannedPlacePosition(object))}
    \cup {At("object", "staged", n, object) : n \in 1..config.approach}

\* required_reachable, of an assessment: whether each assessed waypoint is in reach.
RequiredReachable(reach) == \A waypoint \in DOMAIN reach : reach[waypoint]
=============================================================================
