-------------------------- MODULE PickPlaceProofs ---------------------------
(***************************************************************************)
(* Proofs about PickPlace for every robot, time-out and number of trials:  *)
(* the joints' order, the commanded targets and the scene after a reset as *)
(* lemmas on the operators of Workcell, then what the gate keeps.          *)
(***************************************************************************)
EXTENDS PickPlace, FiniteSetTheorems, SequenceTheorems, TLAPS

-----------------------------------------------------------------------------
(* The joints in order.                                                    *)

\* The joints up to one of them: fewer than those up to a higher one.
LEMMA RanksIncrease ==
  ASSUME NEW J, IsFiniteSet(J), J \subseteq Nat, NEW j \in J, NEW k \in J, j < k
  PROVE  Cardinality({i \in J : i <= j}) < Cardinality({i \in J : i <= k})
<1> DEFINE Low  == {i \in J : i <= j}
           High == {i \in J : i <= k}
<1>1. Low \in SUBSET High /\ k \in High /\ k \notin Low /\ High \in SUBSET J
  <2>1. j \in Nat /\ k \in Nat
    OBVIOUS
  <2>2. \A i \in J : i <= j => i <= k
    BY <2>1
  <2>3. k <= k /\ ~(k <= j)
    BY <2>1
  <2>4. QED
    BY <2>2, <2>3
<1>2. IsFiniteSet(High)
  BY <1>1, FS_Subset
<1>3. IsFiniteSet(Low) /\ Cardinality(Low) <= Cardinality(High)
      /\ (Cardinality(High) = Cardinality(Low) => High = Low)
  BY <1>1, <1>2, FS_Subset
<1>4. Cardinality(Low) \in Nat /\ Cardinality(High) \in Nat
  BY <1>2, <1>3, FS_CardinalityType
<1>5. Low # High
  BY <1>1
<1> HIDE DEF Low, High
<1>6. Cardinality(Low) < Cardinality(High)
  BY <1>3, <1>4, <1>5
<1>7. QED
  BY <1>6 DEF Low, High

\* InOrder is a sequence that has every one of the joints.
LEMMA InOrderHasAll ==
  ASSUME NEW J, IsFiniteSet(J), J \subseteq Nat
  PROVE  /\ Cardinality(J) \in Nat
         /\ DOMAIN InOrder(J) = 1..Cardinality(J)
         /\ \A j \in J : \E i \in DOMAIN InOrder(J) : InOrder(J)[i] = j
<1>1. Cardinality(J) \in Nat
  BY FS_CardinalityType
<1>2. DOMAIN InOrder(J) = 1..Cardinality(J)
  BY DEF InOrder
<1>3. ASSUME NEW j \in J
      PROVE  \E i \in DOMAIN InOrder(J) : InOrder(J)[i] = j
  <2> DEFINE Rank(k) == Cardinality({i \in J : i <= k})
  <2>1. {i \in J : i <= j} \in SUBSET J /\ j \in {i \in J : i <= j}
    OBVIOUS
  <2>2. /\ IsFiniteSet({i \in J : i <= j})
        /\ Cardinality({i \in J : i <= j}) <= Cardinality(J)
    BY <2>1, FS_Subset
  <2>3. Cardinality({i \in J : i <= j}) \in Nat
    BY <2>2, FS_CardinalityType
  <2>4. Cardinality({i \in J : i <= j}) # 0
    BY <2>1, <2>2, FS_EmptySet
  <2>5. Rank(j) \in 1..Cardinality(J)
    BY <1>1, <2>2, <2>3, <2>4
  <2>6. ASSUME NEW k \in J, Rank(k) = Rank(j)
        PROVE  k = j
    <3>1. Rank(j) \in Nat /\ Rank(k) \in Nat
      BY <2>3, <2>6
    <3>2. CASE k < j
      <4>1. Rank(k) < Rank(j)
        BY <3>2, RanksIncrease
      <4>2. QED
        BY <4>1, <3>1, <2>6
    <3>3. CASE j < k
      <4>1. Rank(j) < Rank(k)
        BY <3>3, RanksIncrease
      <4>2. QED
        BY <4>1, <3>1, <2>6
    <3>4. QED
      BY <3>2, <3>3
  <2>7. InOrder(J)[Rank(j)] = CHOOSE k \in J : Rank(k) = Rank(j)
    BY <2>5 DEF InOrder
  <2> HIDE DEF Rank
  <2>8. InOrder(J)[Rank(j)] = j
    BY <2>6, <2>7
  <2>9. QED
    BY <1>2, <2>5, <2>8
<1>4. QED
  BY <1>1, <1>2, <1>3

\* A joint's place in the order is a place where it is.
LEMMA FoundInOrder ==
  ASSUME NEW J, IsFiniteSet(J), J \subseteq Nat, NEW j \in J
  PROVE  /\ IndexIn(InOrder(J), j) \in DOMAIN InOrder(J)
         /\ InOrder(J)[IndexIn(InOrder(J), j)] = j
BY InOrderHasAll DEF IndexIn

-----------------------------------------------------------------------------
(* The joints that a valid layout has.                                     *)

Joints == [link : STRING, fixed : BOOLEAN, limited : BOOLEAN]

\* The joints of a robot are numbered.
LEMMA RobotJoints ==
  ASSUME NEW r \in Robots
  PROVE  /\ DOMAIN r \subseteq Nat /\ IsFiniteSet(DOMAIN r)
         /\ \A j \in DOMAIN r : r[j] \in Joints
<1>1. r \in Seq(Joints)
  BY RobotsAssumption DEF Joints
<1>2. Len(r) \in Nat /\ DOMAIN r = 1..Len(r) /\ r \in [1..Len(r) -> Joints]
  BY <1>1, LenProperties
<1>3. IsFiniteSet(1..Len(r))
  BY <1>2, FS_Interval
<1>4. QED
  BY <1>2, <1>3

\* Every joint of a known link but the rotating one moves within limits.
LEMMA KnownJointsMove ==
  ASSUME NEW r \in Robots, ValidLayout(r)
  PROVE  \A j \in JointsOf(r, ArmLinks \cup FingerLinks \cup TipLinks) :
           ~r[j].fixed /\ r[j].limited
BY DEF ValidLayout, JointsOf

\* The joints that move are the arm's and the gripper's, whatever the asset's order.
LEMMA AllControlled ==
  ASSUME NEW r \in Robots, ValidLayout(r)
  PROVE  ArmJoints(r) \cup GripperJoints(r) = Movable(r)
<1>1. ArmJoints(r) \cup GripperJoints(r) \subseteq Movable(r)
  BY KnownJointsMove DEF ArmJoints, GripperJoints, JointsOf, Movable
<1>2. Movable(r) \subseteq ArmJoints(r) \cup GripperJoints(r)
  BY DEF ValidLayout, KnownLinks, ArmJoints, GripperJoints, JointsOf, Movable
<1>3. QED
  BY <1>1, <1>2

LEMMA MovableJoints ==
  ASSUME NEW r \in Robots
  PROVE  Movable(r) \subseteq Nat /\ IsFiniteSet(Movable(r))
<1>1. Movable(r) \in SUBSET DOMAIN r
  BY DEF Movable
<1>2. QED
  BY <1>1, RobotJoints, FS_Subset

\* The inverse kinematics' answer is dealt to the joints that it is for
\* (robot.py _solution_for_specs, saturate_ik_solution, apply_wrist_yaw).
LEMMA TargetsDealt ==
  ASSUME NEW r \in Robots, ValidLayout(r), NEW pose
  PROVE  ArmTargets(r, pose) =
           [j \in ArmJoints(r) |->
              IF r[j].link = WristLink THEN <<"yaw", j>> ELSE <<pose, j>>]
<1> DEFINE specs == InOrder(Movable(r))
           raw   == [i \in DOMAIN specs |-> <<pose, specs[i]>>]
<1>1. ControlledJoints(r) = specs
  BY AllControlled DEF ControlledJoints
<1>2. Solution(r, pose) = raw
  BY DEF Solution
<1>3. DOMAIN specs = 1..Cardinality(Movable(r)) /\ Cardinality(Movable(r)) \in Nat
  BY MovableJoints, InOrderHasAll
<1>4. Len(raw) = Len(specs)
  BY <1>3 DEF InOrder
<1>5. SolutionForSpecs(raw, specs) = raw
  BY <1>4 DEF SolutionForSpecs
<1>6. ASSUME NEW j \in ArmJoints(r)
      PROVE  Saturated(r, raw, specs)[IndexIn(specs, j)] = <<pose, j>>
  <2>1. j \in Movable(r) /\ r[j].limited
    BY <1>6, KnownJointsMove DEF ArmJoints, JointsOf, Movable
  <2>2. IndexIn(specs, j) \in DOMAIN specs /\ specs[IndexIn(specs, j)] = j
    BY <2>1, MovableJoints, FoundInOrder
  <2> HIDE DEF specs
  <2>3. QED
    BY <2>1, <2>2 DEF Saturated
<1>7. ArmTargets(r, pose) =
        [j \in ArmJoints(r) |->
           IF r[j].link = WristLink THEN <<"yaw", j>>
           ELSE Saturated(r, raw, specs)[IndexIn(specs, j)]]
  BY <1>1, <1>2, <1>5 DEF ArmTargets
<1> HIDE DEF specs, raw
<1>8. QED
  BY <1>6, <1>7

-----------------------------------------------------------------------------
(* The cell.                                                               *)

IsCell(c) ==
  /\ c = [on |-> c.on, steps |-> c.steps, bodies |-> c.bodies,
          names |-> c.names, motors |-> c.motors]
  /\ c.steps \in Nat

LEMMA EmptyCells ==
  /\ IsCell(Disconnected) /\ IsCell(Connected)
  /\ DOMAIN Disconnected.motors = {} /\ DOMAIN Connected.motors = {}
  /\ Disconnected.steps = 0 /\ Connected.steps = 0
<1>1. /\ IsCell(Disconnected)
      /\ DOMAIN Disconnected.motors = {} /\ Disconnected.steps = 0
  BY DEF Disconnected, Empty, IsCell
<1> HIDE DEF Disconnected
<1>2. ASSUME NEW c, IsCell(c), NEW x
      PROVE  LET on == [c EXCEPT !.on = x]
             IN  IsCell(on) /\ on.motors = c.motors /\ on.steps = c.steps
  BY <1>2 DEF IsCell
<1>3. PICK x : x = TRUE
  OBVIOUS
<1>4. Connected = [Disconnected EXCEPT !.on = x]
  BY <1>3 DEF Connected
<1>5. QED
  BY <1>1, <1>2, <1>4

LEMMA SpawnedCell ==
  ASSUME NEW c, IsCell(c), NEW name
  PROVE  /\ IsCell(Spawned(c, name))
         /\ Spawned(c, name).steps = c.steps /\ Spawned(c, name).motors = c.motors
         /\ Spawned(c, name).names = c.names
         /\ Spawned(c, name).bodies = Append(c.bodies, name)
BY DEF IsCell, Spawned

LEMMA CommandedCell ==
  ASSUME NEW c, IsCell(c), NEW positions
  PROVE  /\ IsCell(Commanded(c, positions))
         /\ Commanded(c, positions).steps = c.steps
         /\ Commanded(c, positions).names = c.names
         /\ Commanded(c, positions).bodies = c.bodies
BY DEF IsCell, Commanded

LEMMA CommandedMotors ==
  ASSUME NEW c, IsCell(c), NEW positions
  PROVE  LET motors == Commanded(c, positions).motors IN
         /\ DOMAIN motors = DOMAIN c.motors \cup DOMAIN positions
         /\ \A j \in DOMAIN positions : motors[j] = positions[j]
         /\ \A j \in DOMAIN c.motors \ DOMAIN positions : motors[j] = c.motors[j]
<1>1. Commanded(c, positions).motors =
        [j \in DOMAIN c.motors \cup DOMAIN positions |->
           IF j \in DOMAIN positions THEN positions[j] ELSE c.motors[j]]
  BY DEF IsCell, Commanded
<1>2. QED
  BY <1>1

LEMMA SteppedCell ==
  ASSUME NEW c, IsCell(c)
  PROVE  /\ IsCell(Stepped(c))
         /\ Stepped(c).names = c.names /\ Stepped(c).bodies = c.bodies
         /\ Stepped(c).motors = c.motors
BY DEF IsCell, Stepped

LEMMA LoadedCell ==
  ASSUME NEW c, IsCell(c), NEW n, NEW m
  PROVE  /\ IsCell(Loaded(c, n, m))
         /\ Loaded(c, n, m).steps = 0
         /\ Loaded(c, n, m).bodies = SubSeq(SceneBodyNames, 1, n)
         /\ Loaded(c, n, m).names = Registered(m)
         /\ DOMAIN Loaded(c, n, m).motors = {}
<1> DEFINE bodies == SubSeq(SceneBodyNames, 1, n)
           names  == Registered(m)
           c1 == [c EXCEPT !.steps = 0]
           c2 == [c1 EXCEPT !.bodies = bodies]
           c3 == [c2 EXCEPT !.names = names]
           c4 == [c3 EXCEPT !.motors = Empty]
<1>1. Loaded(c, n, m) = [c EXCEPT !.steps = 0, !.bodies = bodies, !.names = names,
                                  !.motors = Empty]
  BY DEF Loaded
<1>2. DOMAIN Empty = {}
  BY DEF Empty
<1> HIDE DEF bodies, names
<1>3. Loaded(c, n, m) = c4
  BY <1>1 DEF IsCell
<1>4. IsCell(c1) /\ c1.steps = 0
  BY DEF IsCell
<1> HIDE DEF c1
<1>5. IsCell(c2) /\ c2.steps = 0 /\ c2.bodies = bodies
  BY <1>4 DEF IsCell
<1> HIDE DEF c2
<1>6. IsCell(c3) /\ c3.steps = 0 /\ c3.bodies = bodies /\ c3.names = names
  BY <1>5 DEF IsCell
<1> HIDE DEF c3
<1>7. /\ IsCell(c4) /\ c4.steps = 0 /\ c4.bodies = bodies /\ c4.names = names
      /\ c4.motors = Empty
  BY <1>6 DEF IsCell
<1> HIDE DEF c4
<1>8. QED
  BY <1>2, <1>3, <1>7 DEF bodies, names

\* A reset that breaks off commands no joint.
LEMMA TornCell ==
  ASSUME NEW c, IsCell(c), NEW t \in Torn(c)
  PROVE  IsCell(t) /\ t.steps = 0 /\ DOMAIN t.motors = {}
<1>1. \E n, m : t = Loaded(c, n, m)
  BY DEF Torn
<1>2. ASSUME NEW n, NEW m, t = Loaded(c, n, m)
      PROVE  IsCell(t) /\ t.steps = 0 /\ DOMAIN t.motors = {}
  <2>1. IsCell(Loaded(c, n, m))
    BY LoadedCell
  <2>2. Loaded(c, n, m).steps = 0
    BY LoadedCell
  <2>3. DOMAIN Loaded(c, n, m).motors = {}
    BY LoadedCell
  <2>4. QED
    BY <1>2, <2>1, <2>2, <2>3
<1>3. QED
  BY <1>1, <1>2

LEMMA SceneSequence ==
  /\ SceneBodyNames \in Seq({"plane", "table", "kuka_iiwa", "pickup_region",
                             "bin_red", "bin_green", "bin_blue", "bin_yellow"})
  /\ Len(SceneBodyNames) = 8
  /\ SubSeq(SceneBodyNames, 1, 8) = SceneBodyNames
<1>1. SceneBodyNames \in Seq({"plane", "table", "kuka_iiwa", "pickup_region",
                               "bin_red", "bin_green", "bin_blue", "bin_yellow"})
      /\ Len(SceneBodyNames) = 8
  BY DEF SceneBodyNames, RobotBody
<1> HIDE DEF SceneBodyNames
<1>2. QED
  BY <1>1, SubSeqFull

LEMMA AppendedScene ==
  \A id \in 1..8 : Append(SceneBodyNames, "cube")[id] = SceneBodyNames[id]
<1>1. ASSUME NEW S, NEW s \in Seq(S), NEW e \in S, NEW i \in 1..Len(s)
      PROVE  Append(s, e)[i] = s[i]
  BY <1>1, AppendProperties
<1> DEFINE names == {"plane", "table", "kuka_iiwa", "pickup_region",
                     "bin_red", "bin_green", "bin_blue", "bin_yellow", "cube"}
<1>2. SceneBodyNames \in Seq(names) /\ "cube" \in names
  BY SceneSequence, SeqMonotonic
<1> HIDE DEF names
<1>3. ASSUME NEW id \in 1..8
      PROVE  Append(SceneBodyNames, "cube")[id] = SceneBodyNames[id]
  <2>1. id \in 1..Len(SceneBodyNames)
    BY SceneSequence
  <2>2. QED
    BY <1>1, <1>2, <2>1, Zenon
<1>4. QED
  BY <1>3

\* A scene that is reset has its eight bodies, each name at the id of its body, and the
\* joints that move at rest, whatever was there (scene.py _load_workcell).
LEMMA ResetCell ==
  ASSUME NEW c, IsCell(c), NEW r \in Robots
  PROVE  LET new == Reset(c, r) IN
         /\ IsCell(new) /\ new.steps = 0
         /\ new.bodies = SceneBodyNames
         /\ DOMAIN new.names = ToSet(SceneBodyNames)
         /\ \A name \in DOMAIN new.names :
              /\ new.names[name] \in 1..8
              /\ SceneBodyNames[new.names[name]] = name
         /\ DOMAIN new.motors = Movable(r)
<1>1. Whole(c) = Loaded(c, 8, 8)
  BY SceneSequence DEF Whole
<1>2. /\ IsCell(Whole(c)) /\ Whole(c).steps = 0 /\ Whole(c).bodies = SceneBodyNames
      /\ DOMAIN Whole(c).motors = {}
      /\ Whole(c).names = [name \in ToSet(SceneBodyNames) |->
                             CHOOSE id \in 1..8 : SceneBodyNames[id] = name]
  <2>1. /\ IsCell(Loaded(c, 8, 8)) /\ Loaded(c, 8, 8).steps = 0
        /\ DOMAIN Loaded(c, 8, 8).motors = {}
        /\ Loaded(c, 8, 8).bodies = SubSeq(SceneBodyNames, 1, 8)
        /\ Loaded(c, 8, 8).names = Registered(8)
    BY LoadedCell
  <2>2. QED
    BY <1>1, <2>1, SceneSequence DEF Registered
<1>3. ASSUME NEW name \in ToSet(SceneBodyNames)
      PROVE  \E id \in 1..8 : SceneBodyNames[id] = name
  BY SceneSequence, LenProperties DEF ToSet
<1>4. DOMAIN AtRest(r) = Movable(r)
  BY DEF AtRest
<1>5. \A name \in ToSet(SceneBodyNames) :
        /\ Whole(c).names[name] \in 1..8
        /\ SceneBodyNames[Whole(c).names[name]] = name
  BY <1>2, <1>3
<1>6. /\ IsCell(Reset(c, r)) /\ Reset(c, r).steps = Whole(c).steps
      /\ Reset(c, r).names = Whole(c).names /\ Reset(c, r).bodies = Whole(c).bodies
  BY <1>2, CommandedCell DEF Reset
<1>7. DOMAIN Whole(c).names = ToSet(SceneBodyNames)
  BY <1>2
<1>8. DOMAIN Reset(c, r).motors = Movable(r)
  <2>1. DOMAIN Reset(c, r).motors = DOMAIN Whole(c).motors \cup DOMAIN AtRest(r)
    BY <1>2, CommandedMotors DEF Reset
  <2>2. QED
    BY <1>2, <1>4, <2>1
<1>9. QED
  BY <1>2, <1>5, <1>6, <1>7, <1>8

-----------------------------------------------------------------------------
(* Driving the joints.                                                     *)

\* An update drives every joint that moves: the arm's to what the controller has for
\* it, the fingers to their opening, and the others to zero (actions.py, robot.py).
LEMMA DrivenCell ==
  ASSUME NEW r \in Robots, ValidLayout(r), NEW c, IsCell(c),
         NEW k, DOMAIN k.arm = ArmJoints(r)
  PROVE  /\ IsCell(Driven(c, k, r))
         /\ Driven(c, k, r).names = c.names /\ Driven(c, k, r).bodies = c.bodies
         /\ DOMAIN Driven(c, k, r).motors = DOMAIN c.motors \cup Movable(r)
         /\ \A j \in ArmJoints(r) : Driven(c, k, r).motors[j] = k.arm[j]
         /\ \A j \in GripperJoints(r) :
              Driven(c, k, r).motors[j] = GripperTargets(r, k.opening)[j]
<1> DEFINE c1 == Commanded(c, k.arm)
           c2 == Commanded(c1, GripperTargets(r, k.opening))
<1>1. IsCell(c1) /\ c1.names = c.names /\ c1.bodies = c.bodies
  BY CommandedCell
<1>2. /\ DOMAIN c1.motors = DOMAIN c.motors \cup ArmJoints(r)
      /\ \A j \in ArmJoints(r) : c1.motors[j] = k.arm[j]
  BY CommandedMotors
<1> HIDE DEF c1
<1>3. IsCell(c2) /\ c2.names = c.names /\ c2.bodies = c.bodies
  BY <1>1, CommandedCell
<1>4. DOMAIN GripperTargets(r, k.opening) = GripperJoints(r)
  BY DEF GripperTargets
<1>5. /\ DOMAIN c2.motors = DOMAIN c1.motors \cup GripperJoints(r)
      /\ \A j \in GripperJoints(r) : c2.motors[j] = GripperTargets(r, k.opening)[j]
      /\ \A j \in DOMAIN c1.motors \ GripperJoints(r) : c2.motors[j] = c1.motors[j]
  <2>1. DOMAIN c2.motors = DOMAIN c1.motors \cup GripperJoints(r)
    BY <1>1, <1>4, CommandedMotors
  <2>2. \A j \in GripperJoints(r) : c2.motors[j] = GripperTargets(r, k.opening)[j]
    BY <1>1, <1>4, CommandedMotors
  <2>3. \A j \in DOMAIN c1.motors \ GripperJoints(r) : c2.motors[j] = c1.motors[j]
    BY <1>1, <1>4, CommandedMotors
  <2>4. QED
    BY <2>1, <2>2, <2>3
<1> HIDE DEF c2
<1>6. ArmJoints(r) \cap GripperJoints(r) = {}
  BY RobotsAssumption DEF ArmJoints, GripperJoints, JointsOf
<1>7. /\ IsCell(Stepped(c2)) /\ Stepped(c2).motors = c2.motors
      /\ Stepped(c2).names = c2.names /\ Stepped(c2).bodies = c2.bodies
  BY <1>3, SteppedCell
<1>8. Driven(c, k, r) = Stepped(c2)
  BY DEF Driven, c2, c1
<1>9. DOMAIN Stepped(c2).motors = DOMAIN c.motors \cup Movable(r)
  BY <1>2, <1>5, <1>7, AllControlled
<1>10. \A j \in ArmJoints(r) : Stepped(c2).motors[j] = k.arm[j]
  BY <1>2, <1>5, <1>6, <1>7
<1>11. QED
  BY <1>1, <1>3, <1>5, <1>7, <1>8, <1>9, <1>10

-----------------------------------------------------------------------------
(* What the gate keeps.                                                    *)

\* What is true of a trial that moves: its layout is valid, the arm was told one pose,
\* it is not counted yet, and the commands behind it succeeded where they must.
Moving ==
  at = "moving" =>
    /\ ValidLayout(robot)
    /\ \E pose \in Poses : ctl.arm = ArmAt(pose)
    /\ successes < trials
    /\ \A p \in 1..(pos - 1) :
         Commands[p].primitive \in MustSucceed \cup {"hold"} => p \in done

Records ==
  /\ IsCell(cell)
  /\ ctl = [opening |-> ctl.opening, arm |-> ctl.arm]

\* Between trials the next one is to begin with its first command.
Waiting == at \in {"start", "ready"} => pos = 1

GateInv == TypeOK /\ Records /\ Moving /\ Waiting /\ FreshCell

\* The commands: what each asks for is known, and the last one need not succeed.
LEMMA CommandsKnown ==
  /\ Len(Commands) = 12
  /\ DOMAIN Commands = 1..12
  /\ \A p \in 1..12 : /\ Commands[p].primitive \in MotionPrimitives
                      /\ Commands[p].pose \in Poses
                      /\ Commands[p].pose # "rest"
  /\ Commands[12].primitive = "settle"
<1>1. /\ Len(Commands) = 12
      /\ DOMAIN Commands = 1..12
      /\ Commands[12].primitive = "settle"
  BY DEF Commands, To
<1>2. ASSUME NEW p \in 1..12
      PROVE  /\ Commands[p].primitive \in MotionPrimitives
             /\ Commands[p].pose # "rest"
  <2>1. \/ p = 1 \/ p = 2 \/ p = 3 \/ p = 4 \/ p = 5 \/ p = 6
        \/ p = 7 \/ p = 8 \/ p = 9 \/ p = 10 \/ p = 11 \/ p = 12
    OBVIOUS
  <2>2. QED
    BY <2>1 DEF Commands, To, MotionPrimitives
<1>3. \A p \in 1..12 : Commands[p].pose \in Poses
  BY <1>1 DEF Poses
<1>4. QED
  BY <1>1, <1>2, <1>3

\* What TypeOK says, with the number of commands.
LEMMA Typed ==
  TypeOK <=>
    /\ robot \in Robots
    /\ at \in {"start", "ready", "moving"} \cup Finished
    /\ trials \in 0..TrialCount /\ successes \in 0..trials
    /\ pos \in 1..12 /\ done \subseteq 1..12
    /\ updates \in 0..(Timeout[Commands[pos].primitive] + 1)
    /\ DOMAIN cell.motors \subseteq Movable(robot)
    /\ ctl.opening \in {"open", "closed"}
BY CommandsKnown DEF TypeOK, Command

\* Every command has its time-out.
LEMMA TimeoutKnown ==
  ASSUME NEW p \in 1..12
  PROVE  Timeout[Commands[p].primitive] \in Nat \ {0}
BY CommandsKnown, GateAssumption

LEMMA ZeroUpdates ==
  ASSUME NEW p \in 1..12
  PROVE  0 \in 0..(Timeout[Commands[p].primitive] + 1)
BY TimeoutKnown

LEMMA InitKeeps == ASSUME Init PROVE GateInv
<1>1. robot \in Robots /\ at = "start" /\ trials = 0 /\ successes = 0 /\ pos = 1
      /\ updates = 0 /\ done = {} /\ cell = Disconnected /\ ctl = NewController(robot)
  BY DEF Init
<1>2. ctl = [opening |-> "closed", arm |-> [j \in ArmJoints(robot) |-> <<"rest", j>>]]
  BY <1>1 DEF NewController
<1>3. TypeOK
  <2>1. updates \in 0..(Timeout[Commands[pos].primitive] + 1)
    BY <1>1, ZeroUpdates
  <2>2. TrialCount \in Nat
    BY GateAssumption
  <2>3. DOMAIN cell.motors \subseteq Movable(robot)
    BY <1>1, EmptyCells
  <2>4. QED
    BY <1>1, <1>2, <2>1, <2>2, <2>3, Typed
<1>4. Records
  BY <1>1, <1>2, EmptyCells DEF Records
<1>5. QED
  BY <1>1, <1>3, <1>4 DEF GateInv, Moving, Waiting, FreshCell

\* The end of a command: it may end the trial, and the next command follows only on a
\* success, unless the command is one that may time out (pick_place.py lines 187-207).
LEMMA EndKept ==
  ASSUME GateInv, at = "moving", NEW status, Ends(status),
         status = "timeout" => Command.primitive # "hold",
         status \in {"succeeded", "timeout", "ik_rejected"}
  PROVE  /\ at' \in {"moving", "ready"}
         /\ successes' \in 0..trials
         /\ pos' \in 1..12 /\ done' \subseteq 1..12 /\ updates' = 0
         /\ at' = "ready" => pos' = 1
         /\ at' = "moving" =>
              /\ successes' = successes
              /\ \A p \in 1..(pos' - 1) :
                   Commands[p].primitive \in MustSucceed \cup {"hold"} => p \in done'
<1>1. /\ pos \in 1..12 /\ done \subseteq 1..12 /\ trials \in Nat /\ successes \in Nat
      /\ successes < trials
      /\ \A p \in 1..(pos - 1) :
           Commands[p].primitive \in MustSucceed \cup {"hold"} => p \in done
  BY Typed, GateAssumption DEF GateInv, Moving
<1>2. Over => at' = "ready" /\ pos' = 1 /\ updates' = 0 /\ done' = {}
  BY DEF Over
<1>3. CASE Stops(status)
  <2>1. Over /\ successes' = successes
    BY <1>3 DEF Ends
  <2>2. QED
    BY <1>1, <1>2, <2>1
<1>4. CASE ~Stops(status) /\ pos = 12
  <2>1. Over /\ successes' \in {successes, successes + 1}
    BY <1>4, CommandsKnown DEF Ends
  <2>2. QED
    BY <1>1, <1>2, <2>1
<1>5. CASE ~Stops(status) /\ pos # 12
  <2>1. /\ pos' = pos + 1 /\ updates' = 0 /\ at' = at /\ successes' = successes
        /\ done' = IF status = "succeeded" THEN done \cup {pos} ELSE done
    BY <1>5, CommandsKnown DEF Ends
  <2>2. Command.primitive \in MustSucceed \cup {"hold"} => status = "succeeded"
    BY <1>5 DEF Stops
  <2>3. ASSUME NEW p \in 1..(pos' - 1), Commands[p].primitive \in MustSucceed \cup {"hold"}
        PROVE  p \in done'
    <3>1. p = pos \/ p \in 1..(pos - 1)
      BY <1>1, <2>1
    <3>2. CASE p = pos
      BY <2>1, <2>2, <2>3, <3>2 DEF Command
    <3>3. CASE p \in 1..(pos - 1)
      BY <1>1, <2>1, <2>3, <3>3
    <3>4. QED
      BY <3>1, <3>2, <3>3
  <2>4. pos' \in 1..12 /\ done' \subseteq 1..12
    BY <1>1, <1>5, <2>1
  <2>5. QED
    BY <1>1, <2>1, <2>3, <2>4
<1>6. QED
  BY <1>3, <1>4, <1>5

\* A cube is counted at the end of the last command only (pick_place.py lines 208-216).
LEMMA EndCounts ==
  ASSUME GateInv, at = "moving", NEW status, Ends(status), successes' # successes
  PROVE  /\ successes' = successes + 1
         /\ {p \in 1..Len(Commands) :
               Commands[p].primitive \in MustSucceed \cup {"hold"}} \subseteq done
<1>1. pos = 12 /\ successes' \in {successes, successes + 1}
  BY CommandsKnown DEF Ends
<1>2. \A p \in 1..11 : Commands[p].primitive \in MustSucceed \cup {"hold"} => p \in done
  BY <1>1 DEF GateInv, Moving
<1>3. \A p \in 1..12 : p = 12 \/ p \in 1..11
  OBVIOUS
<1>4. Commands[12].primitive \notin MustSucceed \cup {"hold"}
  BY CommandsKnown DEF MustSucceed
<1>5. QED
  BY <1>1, <1>2, <1>3, <1>4, CommandsKnown

\* A step that ends a command, and leaves the cell and the controller, keeps the invariant.
LEMMA EndingKeeps ==
  ASSUME GateInv, at = "moving", NEW status, Ends(status),
         status = "timeout" => Command.primitive # "hold",
         status \in {"succeeded", "timeout", "ik_rejected"},
         trials' = trials, robot' = robot,
         DOMAIN cell'.motors \subseteq Movable(robot), ctl'.opening \in {"open", "closed"},
         Records', \E pose \in Poses : ctl'.arm = ArmAt(pose),
         cell'.bodies = cell.bodies, cell'.names = cell.names
  PROVE  GateInv'
<1>1. /\ at' \in {"moving", "ready"}
      /\ successes' \in 0..trials
      /\ pos' \in 1..12 /\ done' \subseteq 1..12 /\ updates' = 0
      /\ at' = "ready" => pos' = 1
      /\ at' = "moving" =>
           /\ successes' = successes
           /\ \A p \in 1..(pos' - 1) :
                Commands[p].primitive \in MustSucceed \cup {"hold"} => p \in done'
  BY EndKept
<1>2. robot \in Robots /\ trials \in 0..TrialCount
  BY Typed DEF GateInv
<1>3. TypeOK'
  <2>1. updates' \in 0..(Timeout[Commands[pos'].primitive] + 1)
    BY <1>1, ZeroUpdates
  <2>2. DOMAIN cell'.motors \subseteq Movable(robot')
    OBVIOUS
  <2>3. at' \in {"start", "ready", "moving"} \cup Finished
    BY <1>1
  <2>4. QED
    BY <1>1, <1>2, <2>1, <2>2, <2>3, CommandsKnown DEF TypeOK, Command
<1>4. Moving'
  <2>1. SUFFICES ASSUME at' = "moving" PROVE Moving'
    BY DEF Moving
  <2>2. ValidLayout(robot') /\ successes' < trials'
    BY <1>1, <2>1 DEF GateInv, Moving
  <2>3. \E pose \in Poses : ctl'.arm = ArmAt(pose)'
    BY DEF ArmAt
  <2>4. QED
    BY <1>1, <2>1, <2>2, <2>3 DEF Moving
<1>5. FreshCell'
  BY DEF GateInv, FreshCell
<1>6. QED
  BY <1>1, <1>3, <1>4, <1>5 DEF GateInv, Waiting

\* A step that begins no trial and leaves none moving keeps the invariant.
LEMMA RestingKeeps ==
  ASSUME GateInv, at' \in {"ready"} \cup Finished, robot' = robot, ctl' = ctl,
         trials' \in 0..TrialCount, successes' \in 0..trials',
         pos' \in 1..12, done' \subseteq 1..12, at' = "ready" => pos' = 1,
         updates' \in 0..(Timeout[Commands[pos'].primitive] + 1),
         IsCell(cell'), DOMAIN cell'.motors \subseteq Movable(robot)
  PROVE  GateInv'
<1>1. /\ robot \in Robots /\ ctl.opening \in {"open", "closed"}
      /\ ctl = [opening |-> ctl.opening, arm |-> ctl.arm]
  BY Typed DEF GateInv, Records
<1>2. at' # "moving"
  BY DEF Finished
<1>3. TypeOK'
  <2>1. at' \in {"start", "ready", "moving"} \cup Finished
    OBVIOUS
  <2>2. DOMAIN cell'.motors \subseteq Movable(robot') /\ ctl'.opening \in {"open", "closed"}
    BY <1>1
  <2>3. pos' \in 1..Len(Commands) /\ done' \subseteq 1..Len(Commands)
    BY CommandsKnown
  <2>4. QED
    BY <1>1, <2>1, <2>2, <2>3 DEF TypeOK, Command
<1>4. Records'
  BY <1>1 DEF Records
<1>5. QED
  BY <1>2, <1>3, <1>4 DEF GateInv, Moving, Waiting, Finished, FreshCell

\* What the controller remembers when the command is under way: the arm at the command's
\* pose or where it was, and the gripper as told.
LEMMA RememberedKept ==
  ASSUME GateInv, at = "moving", ctl' = Remembered(ctl, Command, robot)
  PROVE  /\ ctl' = [opening |-> ctl'.opening, arm |-> ctl'.arm]
         /\ ctl'.opening \in {"open", "closed"}
         /\ \E pose \in Poses : ctl'.arm = ArmAt(pose)
<1>1. /\ robot \in Robots /\ ValidLayout(robot) /\ pos \in 1..12
      /\ ctl = [opening |-> ctl.opening, arm |-> ctl.arm]
      /\ ctl.opening \in {"open", "closed"}
      /\ \E pose \in Poses : ctl.arm = ArmAt(pose)
  BY Typed DEF GateInv, Records, Moving
<1>2. Command.pose \in Poses /\ Command.pose # "rest"
  BY <1>1, CommandsKnown DEF Command
<1>3. CASE Command.primitive \in Tracking
  <2>1. ctl' = [ctl EXCEPT !.arm = ArmTargets(robot, Command.pose)]
    BY <1>3 DEF Remembered, Tracking
  <2>2. ArmTargets(robot, Command.pose) = ArmAt(Command.pose)
    BY <1>1, <1>2, TargetsDealt DEF ArmAt
  <2>3. /\ ctl'.arm = ArmTargets(robot, Command.pose) /\ ctl'.opening = ctl.opening
        /\ ctl' = [opening |-> ctl'.opening, arm |-> ctl'.arm]
    BY <1>1, <2>1
  <2>4. QED
    BY <1>1, <1>2, <2>2, <2>3
<1>4. CASE Command.primitive = "open"
  <2>1. ctl' = [ctl EXCEPT !.opening = "open"]
    BY <1>4 DEF Remembered, Tracking
  <2>2. QED
    BY <1>1, <2>1
<1>5. CASE Command.primitive = "close"
  <2>1. ctl' = [ctl EXCEPT !.opening = "closed"]
    BY <1>5 DEF Remembered, Tracking
  <2>2. QED
    BY <1>1, <2>1
<1>6. CASE Command.primitive \notin Tracking \cup {"open", "close"}
  <2>1. ctl' = ctl
    BY <1>6 DEF Remembered
  <2>2. QED
    BY <1>1, <2>1
<1>7. QED
  BY <1>3, <1>4, <1>5, <1>6

-----------------------------------------------------------------------------
(* The actions.                                                            *)

LEMMA ConnectKeeps == ASSUME GateInv, Connect PROVE GateInv'
<1>1. /\ robot' = robot /\ ctl' = ctl /\ trials' = trials /\ successes' = successes
      /\ pos' = pos /\ updates' = updates /\ done' = done
      /\ at' \in {"ready", "refused"} /\ cell' \in {Connected, Disconnected}
  BY DEF Connect
<1>2. IsCell(cell') /\ DOMAIN cell'.motors \subseteq Movable(robot)
  BY <1>1, EmptyCells
<1>3. /\ trials' \in 0..TrialCount /\ successes' \in 0..trials'
      /\ pos' \in 1..12 /\ done' \subseteq 1..12
      /\ updates' \in 0..(Timeout[Commands[pos'].primitive] + 1)
  BY <1>1, Typed DEF GateInv
<1>4. at' \in {"ready"} \cup Finished
  BY <1>1 DEF Finished
<1>5. at' = "ready" => pos' = 1
  BY <1>1 DEF Connect, GateInv, Waiting
<1>6. QED
  BY <1>1, <1>2, <1>3, <1>4, <1>5, RestingKeeps

\* A connection that is closed, with the gate's report or with an exception.
LEMMA ClosingKeeps ==
  ASSUME GateInv, cell' = Disconnected, at' \in Finished,
         UNCHANGED <<ctl, robot, trials, successes, pos, updates, done>>
  PROVE  GateInv'
<1>1. IsCell(cell') /\ DOMAIN cell'.motors \subseteq Movable(robot)
  BY EmptyCells
<1>2. /\ trials' \in 0..TrialCount /\ successes' \in 0..trials'
      /\ pos' \in 1..12 /\ done' \subseteq 1..12
      /\ updates' \in 0..(Timeout[Commands[pos'].primitive] + 1)
  BY Typed DEF GateInv
<1>3. at' # "ready"
  BY DEF Finished
<1>4. QED
  BY <1>1, <1>2, <1>3, RestingKeeps

\* A trial that cannot begin leaves a cell without targets of another robot.
LEMMA NoPickKeeps == ASSUME GateInv, NoPick PROVE GateInv'
<1>1. /\ robot' = robot /\ ctl' = ctl /\ trials' = trials + 1 /\ successes' = successes
      /\ pos' = 1 /\ updates' = 0 /\ done' = {} /\ at' = "ready" /\ trials < TrialCount
      /\ cell' \in Torn(cell) \cup HalfSpawned(Reset(cell, robot), "cube")
  BY DEF NoPick, MoreTrials, Over
<1>2. IsCell(cell) /\ robot \in Robots
  BY Typed DEF GateInv, Records
<1>3. IsCell(Reset(cell, robot)) /\ DOMAIN Reset(cell, robot).motors = Movable(robot)
  BY <1>2, ResetCell
<1>4. IsCell(cell') /\ DOMAIN cell'.motors \subseteq Movable(robot)
  <2>1. CASE cell' \in Torn(cell)
    BY <1>2, <2>1, TornCell
  <2>2. CASE cell' \in HalfSpawned(Reset(cell, robot), "cube")
    BY <1>3, <2>2, SpawnedCell DEF HalfSpawned
  <2>3. QED
    BY <1>1, <2>1, <2>2
<1>5. trials' \in 0..TrialCount /\ successes' \in 0..trials'
  <2>1. /\ TrialCount \in Nat /\ trials \in 0..TrialCount /\ successes \in 0..trials
    BY Typed, GateAssumption DEF GateInv
  <2>2. QED
    BY <1>1, <2>1
<1>6. updates' \in 0..(Timeout[Commands[pos'].primitive] + 1)
  BY <1>1, ZeroUpdates
<1>7. QED
  BY <1>1, <1>4, <1>5, <1>6, RestingKeeps

\* A trial begins in a cell as new, with its arm at rest.
LEMMA PickKeeps == ASSUME GateInv, Pick PROVE GateInv'
<1>1. /\ robot' = robot /\ ctl' = NewController(robot) /\ trials' = trials + 1
      /\ successes' = successes /\ pos' = pos /\ updates' = updates /\ done' = done
      /\ at' = "moving" /\ at = "ready" /\ trials < TrialCount
      /\ cell' = Spawned(Reset(cell, robot), "cube") /\ ValidLayout(robot)
  BY DEF Pick, MoreTrials
<1>2. IsCell(cell) /\ robot \in Robots
  BY Typed DEF GateInv, Records
<1>3. /\ IsCell(Reset(cell, robot)) /\ Reset(cell, robot).bodies = SceneBodyNames
      /\ DOMAIN Reset(cell, robot).names = ToSet(SceneBodyNames)
      /\ \A name \in DOMAIN Reset(cell, robot).names :
           /\ Reset(cell, robot).names[name] \in 1..8
           /\ SceneBodyNames[Reset(cell, robot).names[name]] = name
      /\ DOMAIN Reset(cell, robot).motors = Movable(robot)
  BY <1>2, ResetCell
<1>4. /\ IsCell(cell') /\ cell'.motors = Reset(cell, robot).motors
      /\ cell'.names = Reset(cell, robot).names
      /\ cell'.bodies = Append(SceneBodyNames, "cube")
  BY <1>1, <1>3, SpawnedCell
<1>5. ctl' = [opening |-> "closed", arm |-> [j \in ArmJoints(robot) |-> <<"rest", j>>]]
  BY <1>1 DEF NewController
<1>6. /\ TrialCount \in Nat /\ trials \in 0..TrialCount /\ successes \in 0..trials
      /\ pos \in 1..12 /\ done \subseteq 1..12
      /\ updates \in 0..(Timeout[Commands[pos].primitive] + 1)
  BY Typed, GateAssumption DEF GateInv
<1>7. trials' \in 0..TrialCount /\ successes' \in 0..trials' /\ successes' < trials'
  BY <1>1, <1>6
<1>8. TypeOK'
  <2>1. DOMAIN cell'.motors \subseteq Movable(robot') /\ ctl'.opening \in {"open", "closed"}
    BY <1>1, <1>3, <1>4, <1>5
  <2>2. pos' \in 1..Len(Commands) /\ done' \subseteq 1..Len(Commands)
    BY <1>1, <1>6, CommandsKnown
  <2>3. updates' \in 0..(Timeout[Commands[pos'].primitive] + 1)
    BY <1>1, <1>6
  <2>4. QED
    BY <1>1, <1>2, <1>7, <2>1, <2>2, <2>3 DEF TypeOK, Command
<1>9. FreshCell'
  <2>1. \A id \in 1..8 : Append(SceneBodyNames, "cube")[id] = SceneBodyNames[id]
    BY SceneSequence, AppendedScene
  <2>2. \A name \in DOMAIN cell'.names : cell'.bodies[cell'.names[name]] = name
    <3>1. cell'.names = Reset(cell, robot).names
          /\ cell'.bodies = Append(SceneBodyNames, "cube")
      BY <1>4
    <3>2. ASSUME NEW name \in DOMAIN cell'.names
          PROVE  Append(SceneBodyNames, "cube")[cell'.names[name]] = name
      BY <1>3, <2>1, <3>1, <3>2
    <3>3. QED
      BY <3>1, <3>2
  <2>3. DOMAIN cell'.names = ToSet(SceneBodyNames)
    BY <1>3, <1>4
  <2>4. QED
    BY <1>4, <2>2, <2>3 DEF FreshCell
<1>10. Moving'
  <2>1. pos' = 1 /\ successes' < trials' /\ ValidLayout(robot')
    BY <1>1, <1>7 DEF GateInv, Waiting
  <2>2. "rest" \in Poses /\ ctl'.arm = ArmAt("rest")'
    BY <1>1, <1>5 DEF Poses, ArmAt
  <2>3. QED
    BY <2>1, <2>2 DEF Moving
<1>11. Records'
  BY <1>4, <1>5 DEF Records
<1>12. QED
  BY <1>1, <1>8, <1>9, <1>10, <1>11 DEF GateInv, Waiting

\* A step of the loop that ends the command without another update.
LEMMA EndedKeeps ==
  ASSUME GateInv, at = "moving", NEW status, Ends(status),
         status = "timeout" => Command.primitive # "hold",
         status \in {"succeeded", "timeout", "ik_rejected"},
         UNCHANGED <<cell, ctl, robot, trials>>
  PROVE  GateInv'
<1>1. /\ DOMAIN cell'.motors \subseteq Movable(robot) /\ ctl'.opening \in {"open", "closed"}
      /\ cell'.bodies = cell.bodies /\ cell'.names = cell.names
  BY Typed DEF GateInv
<1>2. Records'
  BY DEF GateInv, Records
<1>3. \E pose \in Poses : ctl'.arm = ArmAt(pose)
  BY DEF GateInv, Moving
<1>4. QED
  BY <1>1, <1>2, <1>3, EndingKeeps

LEMMA TimeUpKeeps == ASSUME GateInv, TimeUp PROVE GateInv'
<1> DEFINE status == IF Command.primitive = "hold" THEN "succeeded" ELSE "timeout"
<1>1. at = "moving" /\ Ends(status) /\ UNCHANGED <<cell, ctl, robot, trials>>
  BY DEF TimeUp
<1>2. /\ status = "timeout" => Command.primitive # "hold"
      /\ status \in {"succeeded", "timeout", "ik_rejected"}
  OBVIOUS
<1> HIDE DEF status
<1>3. QED
  BY <1>1, <1>2, EndedKeeps

LEMMA RejectKeeps == ASSUME GateInv, Reject PROVE GateInv'
<1>1. at = "moving" /\ Ends("ik_rejected") /\ UNCHANGED <<cell, ctl, robot, trials>>
  BY DEF Reject, Looping
<1>2. QED
  BY <1>1, EndedKeeps

\* What every update does to the cell and the controller.
LEMMA UpdateDrives ==
  ASSUME GateInv, Update
  PROVE  /\ at = "moving" /\ robot \in Robots /\ ValidLayout(robot)
         /\ Records' /\ ctl'.opening \in {"open", "closed"}
         /\ \E pose \in Poses : ctl'.arm = ArmAt(pose)
         /\ DOMAIN cell'.motors \subseteq Movable(robot)
         /\ cell'.bodies = cell.bodies /\ cell'.names = cell.names
         /\ \A j \in ArmJoints(robot) : cell'.motors[j] = ctl'.arm[j]
         /\ \A j \in GripperJoints(robot) :
              cell'.motors[j] = GripperTargets(robot, ctl'.opening)[j]
<1>1. /\ at = "moving" /\ ctl' = Remembered(ctl, Command, robot)
      /\ cell' = Driven(cell, ctl', robot)
  BY DEF Update, Looping
<1>2. /\ robot \in Robots /\ ValidLayout(robot) /\ IsCell(cell)
      /\ DOMAIN cell.motors \subseteq Movable(robot)
  BY <1>1, Typed DEF GateInv, Records, Moving
<1>3. /\ ctl' = [opening |-> ctl'.opening, arm |-> ctl'.arm]
      /\ ctl'.opening \in {"open", "closed"}
      /\ \E pose \in Poses : ctl'.arm = ArmAt(pose)
  BY <1>1, RememberedKept
<1>4. DOMAIN ctl'.arm = ArmJoints(robot)
  BY <1>3 DEF ArmAt
<1>5. /\ IsCell(cell')
      /\ cell'.names = cell.names /\ cell'.bodies = cell.bodies
      /\ DOMAIN cell'.motors = DOMAIN cell.motors \cup Movable(robot)
      /\ \A j \in ArmJoints(robot) : cell'.motors[j] = ctl'.arm[j]
      /\ \A j \in GripperJoints(robot) :
           cell'.motors[j] = GripperTargets(robot, ctl'.opening)[j]
  BY <1>1, <1>2, <1>4, DrivenCell
<1>6. Records'
  BY <1>3, <1>5 DEF Records
<1>7. QED
  BY <1>1, <1>2, <1>3, <1>5, <1>6

LEMMA UpdateKeeps == ASSUME GateInv, Update PROVE GateInv'
<1>1. /\ at = "moving" /\ robot' = robot /\ trials' = trials
      /\ TRUE \in LoopTests(updates, Timeout[Command.primitive])
      /\ \/ Ends("succeeded")
         \/ /\ updates' = updates + 1
            /\ at' = at /\ successes' = successes /\ pos' = pos /\ done' = done
  BY DEF Update, Looping
<1>2. /\ robot \in Robots /\ Records' /\ ctl'.opening \in {"open", "closed"}
      /\ \E pose \in Poses : ctl'.arm = ArmAt(pose)
      /\ DOMAIN cell'.motors \subseteq Movable(robot)
      /\ cell'.bodies = cell.bodies /\ cell'.names = cell.names
  BY UpdateDrives
<1>3. CASE Ends("succeeded")
  BY <1>1, <1>2, <1>3, EndingKeeps
<1>4. CASE updates' = updates + 1 /\ UNCHANGED <<at, successes, pos, done>>
  <2>1. /\ pos \in 1..12 /\ done \subseteq 1..12 /\ updates \in Nat
        /\ trials \in 0..TrialCount /\ successes \in 0..trials
    <3>1. /\ pos \in 1..12 /\ done \subseteq 1..12
          /\ trials \in 0..TrialCount /\ successes \in 0..trials
          /\ updates \in 0..(Timeout[Commands[pos].primitive] + 1)
      BY Typed DEF GateInv
    <3>2. QED
      BY <3>1, TimeoutKnown
  <2>2. updates' \in 0..(Timeout[Commands[pos'].primitive] + 1)
    <3>1. Timeout[Commands[pos].primitive] \in Nat
      BY <2>1, TimeoutKnown
    <3>2. updates <= Timeout[Commands[pos].primitive]
      <4>1. \/ updates < Timeout[Commands[pos].primitive]
            \/ updates <= Timeout[Commands[pos].primitive]
        BY <1>1, Zenon DEF LoopTests, Command
      <4>2. QED
        BY <2>1, <3>1, <4>1
    <3>3. QED
      BY <1>4, <2>1, <3>1, <3>2
  <2>3. TypeOK'
    <3>1. DOMAIN cell'.motors \subseteq Movable(robot')
      BY <1>1, <1>2
    <3>2. pos' \in 1..Len(Commands) /\ done' \subseteq 1..Len(Commands)
      BY <1>4, <2>1, CommandsKnown
    <3>3. at' \in {"start", "ready", "moving"} \cup Finished
      BY <1>1, <1>4
    <3>4. QED
      BY <1>1, <1>2, <1>4, <2>1, <2>2, <3>1, <3>2, <3>3 DEF TypeOK, Command
  <2>4. Moving'
    <3>1. \E pose \in Poses : ctl'.arm = ArmAt(pose)'
      BY <1>1, <1>2 DEF ArmAt
    <3>2. QED
      BY <1>1, <1>4, <3>1 DEF GateInv, Moving
  <2>5. FreshCell'
    BY <1>1, <1>2, <1>4 DEF GateInv, FreshCell
  <2>6. Waiting'
    BY <1>1, <1>4 DEF Waiting
  <2>7. QED
    BY <1>2, <2>3, <2>4, <2>5, <2>6 DEF GateInv
<1>5. QED
  BY <1>1, <1>3, <1>4

LEMMA RaiseKeeps == ASSUME GateInv, Raise PROVE GateInv'
<1>1. /\ at' = "ready" /\ pos' = 1 /\ updates' = 0 /\ done' = {}
      /\ UNCHANGED <<cell, ctl, robot, trials, successes>>
  BY DEF Raise, Over
<1>2. /\ trials' \in 0..TrialCount /\ successes' \in 0..trials'
      /\ IsCell(cell') /\ DOMAIN cell'.motors \subseteq Movable(robot)
  BY <1>1, Typed DEF GateInv, Records
<1>3. updates' \in 0..(Timeout[Commands[pos'].primitive] + 1)
  BY <1>1, ZeroUpdates
<1>4. QED
  BY <1>1, <1>2, <1>3, RestingKeeps

LEMMA ReportKeeps == ASSUME GateInv, Report PROVE GateInv'
<1>1. at' \in Finished
  BY DEF Report, Finished
<1>2. QED
  BY <1>1, ClosingKeeps DEF Report

LEMMA DieKeeps == ASSUME GateInv, Die PROVE GateInv'
<1>1. at' \in Finished
  BY DEF Die, Finished
<1>2. QED
  BY <1>1, ClosingKeeps DEF Die

LEMMA StutterKeeps == ASSUME GateInv, UNCHANGED vars PROVE GateInv'
<1>1. TypeOK'
  BY DEF GateInv, TypeOK, Command, vars
<1>2. Moving'
  BY DEF GateInv, Moving, ArmAt, vars
<1>3. Records' /\ Waiting' /\ FreshCell'
  BY DEF GateInv, Records, Waiting, FreshCell, vars
<1>4. QED
  BY <1>1, <1>2, <1>3 DEF GateInv

LEMMA NextKeeps == ASSUME GateInv, [Next]_vars PROVE GateInv'
BY ConnectKeeps, NoPickKeeps, PickKeeps, TimeUpKeeps, RejectKeeps, UpdateKeeps,
   RaiseKeeps, ReportKeeps, DieKeeps, StutterKeeps DEF Next

-----------------------------------------------------------------------------
(* The theorems.                                                           *)

\* The invariant of the gate, for every robot, time-out and number of trials
\* (reliability.py, pick_place.py, actions.py, scene.py).
THEOREM GateInvariant == Spec => []GateInv
<1>1. Init => GateInv
  BY InitKeeps
<1>2. GateInv /\ [Next]_vars => GateInv'
  BY NextKeeps
<1>3. QED
  BY <1>1, <1>2, PTL DEF Spec

\* The gate, the cell and the controller always hold what the code keeps there, and a
\* command's updates stay within its time-out and the one that rounding allows (client.py
\* motors, actions.py _track_pose and _hold).
THEOREM GateTypeCorrect == Spec => []TypeOK
<1>1. GateInv => TypeOK
  BY DEF GateInv
<1>2. QED
  BY <1>1, GateInvariant, PTL

\* Whatever an earlier trial left, a trial moves in a scene as new, where each name is at
\* the id of its own body (scene.py reset and _load_workcell).
THEOREM ScenesAreFresh == Spec => []FreshCell
<1>1. GateInv => FreshCell
  BY DEF GateInv
<1>2. QED
  BY <1>1, GateInvariant, PTL

\* In whatever order a robot's asset lists its joints, each is driven to its own share of
\* one target whenever the physics advances (robot.py solve_inverse_kinematics and
\* _solution_for_specs, actions.py).
THEOREM JointsAreHeld == Spec => AllJointsHeld
<1> DEFINE Held ==
      cell'.steps > cell.steps =>
        \E pose \in Poses : \A j \in Movable(robot) :
          cell'.motors[j] = (CASE robot[j].link \in ArmLinks    -> ArmAt(pose)[j]
                               [] robot[j].link \in FingerLinks -> <<ctl'.opening, j>>
                               [] OTHER                         -> <<"zero", j>>)
<1>1. ASSUME GateInv, [Next]_vars PROVE Held
  <2>1. IsCell(cell) /\ cell.steps \in Nat /\ robot \in Robots
    BY <1>1, Typed DEF GateInv, Records, IsCell
  <2>2. CASE Update
    <3>1. /\ ValidLayout(robot)
          /\ \E pose \in Poses : ctl'.arm = ArmAt(pose)
          /\ \A j \in ArmJoints(robot) : cell'.motors[j] = ctl'.arm[j]
          /\ \A j \in GripperJoints(robot) :
               cell'.motors[j] = GripperTargets(robot, ctl'.opening)[j]
      BY <1>1, <2>2, UpdateDrives
    <3>2. PICK pose \in Poses : ctl'.arm = ArmAt(pose)
      BY <3>1
    <3>3. ASSUME NEW j \in Movable(robot)
          PROVE  cell'.motors[j] = (CASE robot[j].link \in ArmLinks    -> ArmAt(pose)[j]
                                      [] robot[j].link \in FingerLinks -> <<ctl'.opening, j>>
                                      [] OTHER                         -> <<"zero", j>>)
      <4>1. j \in ArmJoints(robot) \/ j \in GripperJoints(robot)
        BY <2>1, <3>1, <3>3, AllControlled
      <4>2. CASE j \in ArmJoints(robot)
        <5>1. robot[j].link \in ArmLinks /\ robot[j].link \notin FingerLinks
          BY <4>2, RobotsAssumption DEF ArmJoints, JointsOf
        <5>2. cell'.motors[j] = ArmAt(pose)[j]
          BY <3>1, <3>2, <4>2
        <5>3. QED
          BY <5>1, <5>2
      <4>3. CASE j \in GripperJoints(robot)
        <5>1. robot[j].link \notin ArmLinks
          BY <4>3, RobotsAssumption DEF GripperJoints, JointsOf
        <5>2. cell'.motors[j] =
                IF robot[j].link \in FingerLinks THEN <<ctl'.opening, j>> ELSE <<"zero", j>>
          BY <3>1, <4>3 DEF GripperTargets
        <5>3. QED
          BY <5>1, <5>2
      <4>4. QED
        BY <4>1, <4>2, <4>3
    <3>4. QED
      BY <3>3
  <2>3. CASE Connect \/ Report \/ Die
    <3>1. cell' \in {Connected, Disconnected}
      BY <2>3 DEF Connect, Report, Die
    <3>2. cell'.steps = 0
      BY <3>1, EmptyCells
    <3>3. QED
      BY <2>1, <3>2
  <2>4. CASE NoPick
    <3>1. cell' \in Torn(cell) \cup HalfSpawned(Reset(cell, robot), "cube")
      BY <2>4 DEF NoPick
    <3>2. IsCell(Reset(cell, robot)) /\ Reset(cell, robot).steps = 0
      BY <2>1, ResetCell
    <3>3. cell'.steps = 0
      BY <2>1, <3>1, <3>2, TornCell, SpawnedCell DEF HalfSpawned
    <3>4. QED
      BY <2>1, <3>3
  <2>5. CASE Pick
    <3>1. cell' = Spawned(Reset(cell, robot), "cube")
      BY <2>5 DEF Pick
    <3>2. IsCell(Reset(cell, robot)) /\ Reset(cell, robot).steps = 0
      BY <2>1, ResetCell
    <3>3. cell'.steps = 0
      BY <3>1, <3>2, SpawnedCell
    <3>4. QED
      BY <2>1, <3>3
  <2>6. CASE TimeUp \/ Reject \/ Raise \/ UNCHANGED vars
    <3>1. cell' = cell
      BY <2>6 DEF TimeUp, Reject, Raise, vars
    <3>2. QED
      BY <2>1, <3>1
  <2>7. QED
    BY <1>1, <2>2, <2>3, <2>4, <2>5, <2>6 DEF Next
<1>2. [][Held]_vars <=> AllJointsHeld
  BY DEF AllJointsHeld
<1>3. GateInv /\ [Next]_vars => [Held]_vars
  BY <1>1
<1> HIDE DEF Held
<1>4. QED
  BY <1>2, <1>3, GateInvariant, PTL DEF Spec

\* A cube counts only at the end of a trial in which every move, both openings and the
\* hold succeeded (pick_place.py lines 184-216, reliability.py lines 72-79).
THEOREM CountsAreEarned == Spec => CountedInFull
<1> DEFINE Earned ==
      successes' # successes =>
        /\ successes' = successes + 1 /\ trials' = trials
        /\ {p \in 1..Len(Commands) :
              Commands[p].primitive \in MustSucceed \cup {"hold"}} \subseteq done
<1>1. ASSUME GateInv, [Next]_vars PROVE Earned
  <2>1. SUFFICES ASSUME successes' # successes PROVE Earned
    OBVIOUS
  <2>2. TimeUp \/ Reject \/ Update
    BY <1>1, <2>1 DEF Next, Connect, NoPick, Pick, Raise, Report, Die, vars
  <2>3. /\ at = "moving" /\ trials' = trials
        /\ \E status \in {"succeeded", "timeout", "ik_rejected"} : Ends(status)
    BY <2>1, <2>2 DEF TimeUp, Reject, Update, Looping
  <2>4. QED
    BY <1>1, <2>1, <2>3, EndCounts
<1>2. [][Earned]_vars <=> CountedInFull
  BY DEF CountedInFull
<1>3. GateInv /\ [Next]_vars => [Earned]_vars
  BY <1>1
<1> HIDE DEF Earned
<1>4. QED
  BY <1>2, <1>3, GateInvariant, PTL DEF Spec

=============================================================================
