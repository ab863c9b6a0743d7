----------------------------- MODULE PickPlace ------------------------------
(***************************************************************************)
(* The motion reliability gate (control/reliability.py): the same pick and *)
(* place of a centred cube (control/pick_place.py), trial after trial on   *)
(* one connection and one scene, whatever the trial before left there; at  *)
(* the end the rate of cubes placed is compared with a threshold.          *)
(*                                                                         *)
(* One step is one update of a motion command's loop (control/actions.py): *)
(* the arm may reach its target at any update, or never, the inverse       *)
(* kinematics may reject it at any update, and any call may raise.         *)
(***************************************************************************)
EXTENDS Workcell

CONSTANTS Robots,            \* robots that the asset may hold
          Timeout,           \* updates, for each primitive
          TrialCount,        \* of the gate
          RateMin            \* <<n, d>>: the threshold n / d

ASSUME GateAssumption ==
  /\ TrialCount \in Nat \ {0}
  /\ Timeout \in [MotionPrimitives -> Nat \ {0}]

\* A robot's joints, as JointRecord describes them; the gripper's links are not the arm's.
ASSUME RobotsAssumption ==
  /\ \A r \in Robots : r \in Seq([link : STRING, fixed : BOOLEAN, limited : BOOLEAN])
  /\ ArmLinks \cap (FingerLinks \cup TipLinks \cup {RotateLink}) = {}

VARIABLES cell, ctl,         \* see Workcell
          robot,             \* the one that the asset holds
          at,                \* where the gate is
          trials,            \* begun
          successes,
          pos, updates,      \* the command of the trial, and its updates
          done               \* positions of the commands of this trial that succeeded

vars == <<cell, ctl, robot, at, trials, successes, pos, updates, done>>

To(primitive, pose) == [primitive |-> primitive, pose |-> pose]

\* The commands of run_centered_cube_pick_place.
Commands ==
  <<To("settle", "none"), To("open", "none"),
    To("move_end_effector", "above_pick"), To("move_end_effector", "pick"),
    To("close", "none"), To("hold", "none"),
    To("move_end_effector", "lifted"), To("move_end_effector", "above_place"),
    To("move_end_effector", "place"), To("open", "none"),
    To("retract", "lifted_place"), To("settle", "none")>>

Init ==
  /\ cell = Disconnected
  /\ robot \in Robots
  /\ ctl = NewController(robot)
  /\ at = "start"
  /\ trials = 0 /\ successes = 0 /\ pos = 1 /\ updates = 0 /\ done = {}

-----------------------------------------------------------------------------

\* PhysicsClient.__enter__ is connect.  When the asset root is not found the engine
\* is connected already, and nobody disconnects it.
Connect ==
  /\ at = "start"
  /\ \/ cell' = Connected /\ at' = "ready"
     \/ cell' \in {Disconnected, Connected} /\ at' = "refused"
  /\ UNCHANGED <<ctl, robot, trials, successes, pos, updates, done>>

\* The end of a trial, with its SimulationError or its result.
Over == at' = "ready" /\ pos' = 1 /\ updates' = 0 /\ done' = {}

MoreTrials == at = "ready" /\ trials < TrialCount

\* The scene cannot be reset, the layout is refused, or the cube cannot be made.
NoPick ==
  /\ MoreTrials
  /\ trials' = trials + 1
  /\ cell' \in Torn(cell) \cup HalfSpawned(Reset(cell, robot), "cube")
  /\ Over
  /\ UNCHANGED <<ctl, robot, successes>>

Pick ==
  /\ MoreTrials /\ ValidLayout(robot)
  /\ trials' = trials + 1
  /\ cell' = Spawned(Reset(cell, robot), "cube")
  /\ ctl' = NewController(robot)
  /\ at' = "moving"
  /\ UNCHANGED <<robot, successes, pos, updates, done>>

-----------------------------------------------------------------------------
(* The control loop of a command.                                          *)

Command == Commands[pos]

\* "time - start < timeout" after n updates: at equality the floats decide.
LoopTests(n, limit) == {n < limit, n <= limit}

MustSucceed == {"move_end_effector", "retract", "open"}

\* Mutant of Stops: time-outs are let pass.
StopsOnRejection(status) == status = "ik_rejected"

\* A rejected target ends the trial, and so does a time-out but of closing and settling.
Stops(status) ==
  \/ status = "ik_rejected"
  \/ status = "timeout" /\ Command.primitive \in MustSucceed

\* The command ends; with the last one the cube is where it should be, or not.
Ends(status) ==
  IF Stops(status) THEN Over /\ UNCHANGED successes
  ELSE IF pos = Len(Commands)
    THEN /\ Over
         /\ successes' \in {successes, successes + 1}
    ELSE /\ pos' = pos + 1 /\ updates' = 0
         /\ done' = IF status = "succeeded" THEN done \cup {pos} ELSE done
         /\ UNCHANGED <<at, successes>>

\* The loop ends without another update: holding always succeeds.
TimeUp ==
  /\ at = "moving"
  /\ FALSE \in LoopTests(updates, Timeout[Command.primitive])
  /\ Ends(IF Command.primitive = "hold" THEN "succeeded" ELSE "timeout")
  /\ UNCHANGED <<cell, ctl, robot, trials>>

Looping == at = "moving" /\ TRUE \in LoopTests(updates, Timeout[Command.primitive])

Reject ==
  /\ Looping /\ Command.primitive \in Tracking
  /\ Ends("ik_rejected")
  /\ UNCHANGED <<cell, ctl, robot, trials>>

\* An update, after which the target is reached, or the hold is over, or not.
Update ==
  /\ Looping
  /\ ctl' = Remembered(ctl, Command, robot)
  /\ cell' = Driven(cell, ctl', robot)
  /\ \/ /\ Command.primitive = "hold" =>
             FALSE \in LoopTests(updates + 1, Timeout[Command.primitive])
        /\ Ends("succeeded")
     \/ /\ updates' = updates + 1
        /\ UNCHANGED <<at, successes, pos, done>>
  /\ UNCHANGED <<robot, trials>>

\* A SimulationError in a command: the gate goes on to the next trial.
Raise ==
  /\ at = "moving"
  /\ Over
  /\ UNCHANGED <<cell, ctl, robot, trials, successes>>

-----------------------------------------------------------------------------

\* The context manager disconnects, at the end and when another exception than a
\* SimulationError passes through.
Report ==
  /\ at = "ready" /\ trials = TrialCount
  /\ cell' = Disconnected
  /\ at' = IF successes * RateMin[2] >= RateMin[1] * TrialCount THEN "passed" ELSE "not_passed"
  /\ UNCHANGED <<ctl, robot, trials, successes, pos, updates, done>>

Die ==
  /\ at \in {"ready", "moving"}
  /\ cell' = Disconnected
  /\ at' = "died"
  /\ UNCHANGED <<ctl, robot, trials, successes, pos, updates, done>>

Next ==
  Connect \/ NoPick \/ Pick \/ TimeUp \/ Reject \/ Update \/ Raise \/ Report \/ Die

Spec == Init /\ [][Next]_vars

-----------------------------------------------------------------------------
(* Properties.                                                             *)

Finished == {"refused", "passed", "not_passed", "died"}

\* Types: the gate, the cell and the controller hold what the code keeps
\* (reliability.py, client.py, scene.py, actions.py), and no command outlasts its
\* time-out by more than the one update that rounding allows.
TypeOK ==
  /\ robot \in Robots
  /\ at \in {"start", "ready", "moving"} \cup Finished
  /\ trials \in 0..TrialCount /\ successes \in 0..trials
  /\ pos \in 1..Len(Commands) /\ done \subseteq 1..Len(Commands)
  /\ updates \in 0..(Timeout[Command.primitive] + 1)
  /\ DOMAIN cell.motors \subseteq Movable(robot)
  /\ ctl.opening \in {"open", "closed"}

\* A trial moves in a cell as new: its eight bodies and one cube, each name at the id
\* of its own body, whatever an earlier trial that broke off had left behind in the
\* engine or in the scene's map (scene.py reset).
FreshCell ==
  at = "moving" =>
    /\ cell.bodies = Append(SceneBodyNames, "cube")
    /\ DOMAIN cell.names = ToSet(SceneBodyNames)
    /\ \A name \in DOMAIN cell.names : cell.bodies[cell.names[name]] = name

\* The arm's joints when it goes to a pose: each at its own share, the wrist turned.
ArmAt(pose) ==
  [j \in ArmJoints(robot) |->
     IF robot[j].link = WristLink /\ pose # "rest" THEN <<"yaw", j>> ELSE <<pose, j>>]

Poses == {Commands[p].pose : p \in DOMAIN Commands} \cup {"rest"}

\* Whenever the physics advances, every joint that can move is driven to one target of
\* the arm, its own share of that solution, and to what the gripper was last told: no
\* command leaves a joint to an earlier target or to the share of another, whatever the
\* order of the robot's joints (actions.py, robot.py solve_inverse_kinematics).
AllJointsHeld ==
  [][cell'.steps > cell.steps =>
       \E pose \in Poses : \A j \in Movable(robot) :
         cell'.motors[j] = (CASE robot[j].link \in ArmLinks    -> ArmAt(pose)[j]
                              [] robot[j].link \in FingerLinks -> <<ctl'.opening, j>>
                              [] OTHER                         -> <<"zero", j>>)]_vars

\* A cube counts only if every move, both openings and the hold of that trial have
\* succeeded: a trial that broke off never counts (pick_place.py, reliability.py).
CountedInFull ==
  [][successes' # successes =>
       /\ successes' = successes + 1 /\ trials' = trials
       /\ {p \in 1..Len(Commands) :
             Commands[p].primitive \in MustSucceed \cup {"hold"}} \subseteq done]_vars

=============================================================================
