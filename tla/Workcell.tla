------------------------------ MODULE Workcell ------------------------------
(***************************************************************************)
(* The simulated workcell: what is behind a PhysicsClient                  *)
(* (physics/client.py), the scene that WorkcellScene loads into it         *)
(* (physics/scene.py), the robot's joints (physics/robot.py) and the       *)
(* MotionController that commands them (control/actions.py).  Operators on *)
(* two records, no state of its own:                                       *)
(*                                                                         *)
(*   cell  [on, steps, bodies, names, motors]: connected; control updates  *)
(*         since the last reset; the bodies in the engine, where the n-th  *)
(*         has id n; WorkcellScene's map from names to ids; and the        *)
(*         position that each joint's motor is commanded to.               *)
(*   ctl   [opening, arm]: what the controller remembers: how far open the *)
(*         gripper is, and the position of each of the arm's joints.       *)
(*                                                                         *)
(* A robot is a sequence of joints [link, fixed, limited].  Angles, forces *)
(* and the solver are left out: a joint's position is <<what, joint>>, its *)
(* share of a target pose, or of "rest", "open", "closed", "zero", "yaw".  *)
(***************************************************************************)
EXTENDS Integers, Sequences, FiniteSets, SequencesExt

CONSTANTS ArmLinks,         \* links of the arm
          WristLink          \* its last one

FingerLinks == {"left_finger", "right_finger"}
TipLinks == {"left_finger_tip", "right_finger_tip"}
RotateLink == "base_link"

RobotBody == "kuka_iiwa"
SceneBodyNames ==
  <<"plane", "table", RobotBody, "pickup_region",
    "bin_red", "bin_green", "bin_blue", "bin_yellow">>

Empty == [x \in {} |-> 0]

Movable(robot) == {j \in DOMAIN robot : ~robot[j].fixed}

\* Joints sorted by their index: the i-th is the one with i of them up to it.
InOrder(joints) ==
  [i \in 1..Cardinality(joints) |->
     CHOOSE j \in joints : Cardinality({k \in joints : k <= j}) = i]

IndexIn(joints, j) == CHOOSE i \in DOMAIN joints : joints[i] = j

-----------------------------------------------------------------------------
(* PhysicsClient                                                           *)

Disconnected == [on |-> FALSE, steps |-> 0, bodies |-> <<>>, names |-> Empty, motors |-> Empty]

Connected == [Disconnected EXCEPT !.on = TRUE]

\* step_simulation, four steps of the engine
Stepped(cell) == [cell EXCEPT !.steps = @ + 1]

Commanded(cell, positions) ==
  [cell EXCEPT !.motors = [j \in DOMAIN @ \cup DOMAIN positions |->
                             IF j \in DOMAIN positions THEN positions[j] ELSE @[j]]]

\* create_dynamic_box or create_dynamic_cylinder
Spawned(cell, name) == [cell EXCEPT !.bodies = Append(@, name)]

\* What a spawning that raises can leave: nothing, or a body without its friction.
HalfSpawned(cell, name) == {cell, Spawned(cell, name)}

-----------------------------------------------------------------------------
(* WorkcellScene.reset: forget the names, empty the engine, load and       *)
(* register the bodies in order, find the joints that are not fixed and    *)
(* put them at rest.                                                       *)

\* Mutant of Loaded: the names and the engine's bodies of the last time stay.
LoadedOnTop(cell, n, m) ==
  LET bodies == cell.bodies \o SubSeq(SceneBodyNames, 1, n)
  IN  [cell EXCEPT !.steps = 0,
                   !.bodies = bodies,
                   !.names = [name \in ToSet(SubSeq(SceneBodyNames, 1, m)) |->
                                CHOOSE id \in DOMAIN bodies : bodies[id] = name],
                   !.motors = Empty]

\* The names of the first m bodies, at their ids.
Registered(m) ==
  [name \in ToSet(SubSeq(SceneBodyNames, 1, m)) |->
     CHOOSE id \in 1..m : SceneBodyNames[id] = name]

\* n bodies are loaded and m of them registered.
Loaded(cell, n, m) ==
  [cell EXCEPT !.steps = 0,
               !.bodies = SubSeq(SceneBodyNames, 1, n),
               !.names = Registered(m),
               !.motors = Empty]

\* Where a SimulationError can leave the reset: at loading a body, at what follows
\* its registration, or without a joint to control.
Torn(cell) ==
  UNION {{Loaded(cell, n, m) : m \in {n - 1, n} \cap Nat} : n \in 0..Len(SceneBodyNames)}

Whole(cell) == Loaded(cell, Len(SceneBodyNames), Len(SceneBodyNames))

AtRest(robot) == [j \in Movable(robot) |-> <<"rest", j>>]

Reset(cell, robot) == Commanded(Whole(cell), AtRest(robot))

-----------------------------------------------------------------------------
(* discover_and_validate_robot_layout                                      *)

JointsOf(robot, links) == {j \in DOMAIN robot : robot[j].link \in links}

KnownLinks(robot) == ArmLinks \cup FingerLinks \cup TipLinks \cup {RotateLink}

ValidLayout(robot) ==
  /\ \A i, j \in DOMAIN robot : robot[i].link = robot[j].link => i = j
  /\ \A link \in ArmLinks \cup FingerLinks \cup TipLinks :
       \E j \in DOMAIN robot : robot[j].link = link /\ ~robot[j].fixed /\ robot[j].limited
  /\ \A j \in Movable(robot) : robot[j].link \in KnownLinks(robot)

ArmJoints(robot) == JointsOf(robot, ArmLinks)

\* The rotating joint is the gripper's if there is one and it is not fixed.
GripperJoints(robot) ==
  JointsOf(robot, FingerLinks \cup TipLinks)
    \cup (JointsOf(robot, {RotateLink}) \cap Movable(robot))

-----------------------------------------------------------------------------
(* solve_inverse_kinematics                                                *)

\* RobotLayout.controlled_joints, by index
ControlledJoints(robot) == InOrder(ArmJoints(robot) \cup GripperJoints(robot))

\* What the engine answers: a position for every joint that can move, by index.
Solution(robot, pose) ==
  LET joints == InOrder(Movable(robot))
  IN  [i \in DOMAIN joints |-> <<pose, joints[i]>>]

\* An answer of another length is taken to be one for all joints.
SolutionForSpecs(raw, specs) ==
  IF Len(raw) = Len(specs) THEN raw ELSE [i \in DOMAIN specs |-> raw[specs[i]]]

\* A joint without limits stays at rest.
Saturated(robot, positions, specs) ==
  [i \in DOMAIN specs |-> IF robot[specs[i]].limited THEN positions[i] ELSE <<"rest", specs[i]>>]

\* Mutant of ArmTargets: the arm's joints are counted by themselves.
ArmTargetsApart(robot, pose) ==
  LET arm == InOrder(ArmJoints(robot))
      solution == Solution(robot, pose)
  IN  [j \in ArmJoints(robot) |->
         IF robot[j].link = WristLink THEN <<"yaw", j>> ELSE solution[IndexIn(arm, j)]]

\* The arm's part of the solution, but for the wrist, which apply_wrist_yaw turns.
ArmTargets(robot, pose) ==
  LET specs == ControlledJoints(robot)
      solution == Saturated(robot, SolutionForSpecs(Solution(robot, pose), specs), specs)
  IN  [j \in ArmJoints(robot) |->
         IF robot[j].link = WristLink THEN <<"yaw", j>> ELSE solution[IndexIn(specs, j)]]

-----------------------------------------------------------------------------
(* MotionController: an update commands the arm and the gripper to what is *)
(* remembered, then the physics advances.                                  *)

MotionPrimitives == {"move_end_effector", "open", "close", "hold", "retract", "settle"}
Tracking == {"move_end_effector", "retract"}

\* MotionController.__init__
NewController(robot) ==
  [opening |-> "closed", arm |-> [j \in ArmJoints(robot) |-> <<"rest", j>>]]

\* command_gripper: the fingers open, tips and rotation stay at 0.
GripperTargets(robot, opening) ==
  [j \in GripperJoints(robot) |->
     IF robot[j].link \in FingerLinks THEN <<opening, j>> ELSE <<"zero", j>>]

Remembered(ctl, command, robot) ==
  CASE command.primitive \in Tracking -> [ctl EXCEPT !.arm = ArmTargets(robot, command.pose)]
    [] command.primitive = "open"     -> [ctl EXCEPT !.opening = "open"]
    [] command.primitive = "close"    -> [ctl EXCEPT !.opening = "closed"]
    [] OTHER                          -> ctl

Driven(cell, ctl, robot) ==
  Stepped(Commanded(Commanded(cell, ctl.arm), GripperTargets(robot, ctl.opening)))
=============================================================================
