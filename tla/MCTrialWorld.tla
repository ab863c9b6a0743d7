---------------------------- MODULE MCTrialWorld ----------------------------
(* Instances of TrialWorld for TLC: the physics that is of interest, scene *)
(* by scene, and the ordinary course of a trial elsewhere.                 *)
EXTENDS TrialWorld

MCBodyNames == <<"table", "kuka_iiwa", "bin_red", "parcel">>
MCRobotLinks == <<"lbr_iiwa_link_7", "left_finger_tip">>

MCConfigs ==
  [p \in Policies |-> IF p = "collision_aware"
                      THEN [approach |-> 2, transfer |-> 1, settles |-> 2]
                      ELSE [approach |-> 0, transfer |-> 0, settles |-> 1]]

Point(a, b, force) == [a |-> a, b |-> b, force |-> force]

\* The points of a grip.  Without one, the arm itself leans on the object.
Gripping(grip) ==
  CASE grip = "none"    -> {Point(<<2, 1>>, <<4, -1>>, 9)}
    [] grip = "contact" -> {Point(<<4, -1>>, <<2, 2>>, 0)}
    [] grip = "firm"    -> {Point(<<2, 2>>, <<4, -1>>, 1), Point(<<1, -1>>, <<4, -1>>, 9)}

\* The points of pressing bodies, the robot on either side.  The table is at least
\* touched.
Pressing(bodies) ==
  {Point(<<2, 2>>, <<1, -1>>, IF "table" \in bodies THEN 5 ELSE 4)}
    \cup {p \in {Point(<<3, -1>>, <<2, 1>>, 5)} : "bin_red" \in bodies}

See(points, highs, places, stills, positions) ==
  [points : points, high : highs, place : places, still : stills, position : positions]

OnTable == Position("initial", "table")
Bumped == Position("aside", "table")
Lifted == Position("initial", "lifted")
InBin == Position("bin", "table")

Touching == {"approach", "grasp", "lift", "transfer"}

\* The ordinary course: the object is touched in grasp, held from verify_grasp on,
\* carried high, and rests in the target bin after the release.
Ordinary(state) ==
  CASE state \in {"reset", "observe", "plan", "approach", "grasp"} ->
         See({{}}, {FALSE}, {"outside"}, {TRUE}, {OnTable})
    [] state \in {"verify_grasp", "lift"} ->
         See({Gripping("firm")}, {FALSE}, {"outside"}, {TRUE}, {OnTable})
    [] state \in {"transfer", "release"} ->
         See({Gripping("firm")}, {TRUE}, {"outside"}, {FALSE}, {Lifted})
    [] OTHER -> See({{}}, {FALSE}, {"target"}, {TRUE}, {InBin})

\* Something may bump the object, and the first grasp may miss it, in "rejecting".
MCSights(s, state) ==
  CASE s = "grasping" /\ state \in {"verify_grasp", "lift", "transfer", "release"} ->
         See({Gripping(grip) : grip \in Grips}, BOOLEAN, {"outside"}, {TRUE}, {Lifted})
    [] s = "placing" /\ state = "release" ->
         See({Gripping("firm")}, {TRUE}, {"target", "other"}, BOOLEAN, {Lifted})
    [] s = "placing" /\ state \in {"verify_place", "retract"} ->
         See({{}, Pressing({"bin_red"})}, {FALSE}, {"target", "other"}, BOOLEAN, {InBin})
    [] s = "touching" /\ state \in Touching ->
         {[see EXCEPT !.points = @ \cup Pressing(bodies)] :
            see \in Ordinary(state), bodies \in SUBSET {"table", "bin_red"}}
    [] s = "rejecting" /\ state \in {"approach", "grasp", "lift"} ->
         {[see EXCEPT !.position = p] : see \in Ordinary(state), p \in {OnTable, Bumped}}
    [] s = "rejecting" /\ state = "verify_grasp" ->
         {[see EXCEPT !.points = p] : see \in Ordinary(state), p \in {{}, Gripping("firm")}}
    [] s = "rejecting" /\ state = "transfer" ->
         {[see EXCEPT !.position = p] : see \in Ordinary(state), p \in {OnTable, Lifted}}
    [] OTHER -> Ordinary(state)

MCMisses(s, waypoints) ==
  {{}} \cup IF s = "rejecting" THEN {{waypoint} : waypoint \in waypoints} ELSE {}

\* 7 and 25 are longer than every threshold; the thresholds are 3 and 6.
Updates(s, state) ==
  CASE state = "grasp" -> {25}
    [] s = "placing" /\ state \in {"release", "verify_place"} -> 1..7
    [] s = "grasping" /\ state \in {"lift", "transfer"} -> 1..3
    [] s = "touching" /\ state \in {"approach", "lift"} -> 1..4
    [] s # "placing" /\ state = "verify_place" -> {6}
    [] OTHER -> {7}

MCTakes(s, state) ==
  (Updates(s, state) \X {"done"})
    \cup IF s = "rejecting" THEN {0, 7} \X {"ik_rejected"} ELSE {}
=============================================================================
