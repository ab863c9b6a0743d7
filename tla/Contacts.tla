------------------------------ MODULE Contacts ------------------------------
(***************************************************************************)
(* The contacts of one observation (physics/contacts.py): the engine's     *)
(* points are given the names of bodies and links, compared with the       *)
(* prohibited pairs, and timed.  No state: TrialWorld samples and asks.    *)
(*                                                                         *)
(* A point has two sides, in either order, and a normal force in newtons:  *)
(* [a, b |-> <<body id, link index>>, force].  An event has names instead  *)
(* of numbers.  Where it is and how it points is left out.                 *)
(***************************************************************************)
EXTENDS Integers, Sequences, FiniteSets, SequencesExt

CONSTANTS BodyNames,           \* by body id; the object is the last
          RobotLinks           \* by link index

RobotBody == "kuka_iiwa"
ObjectName == Last(BodyNames)
BaseLink == "base"

\* Assumption of the models, which require_name does not check: the object has a name
\* of its own.
ASSUME NamesAssumption == IsInjective(BodyNames)

ASSUME LinksAssumption == RobotLinks \in Seq(STRING)

\* A base is side -1 of its body.
Sides == (DOMAIN BodyNames) \X ({-1} \cup DOMAIN RobotLinks)

Points == [a : Sides, b : Sides, force : Nat]

-----------------------------------------------------------------------------
(* sample_contacts                                                         *)

\* The other bodies have a base only.
LinkName(id, index) ==
  IF index < 0 \/ BodyNames[id] # RobotBody THEN BaseLink ELSE RobotLinks[index]

NormalizedContact(point) ==
  [a |-> <<BodyNames[point.a[1]], LinkName(point.a[1], point.a[2])>>,
   b |-> <<BodyNames[point.b[1]], LinkName(point.b[1], point.b[2])>>,
   force |-> point.force]

SampleContacts(points) == {NormalizedContact(point) : point \in points}

-----------------------------------------------------------------------------
(* ProhibitedPair: the robot, at any link, and a body of the workcell.     *)

CollisionForce == 5

ProhibitedBodies == {"plane", "table", "bin_red", "bin_green", "bin_blue", "bin_yellow"}

ProhibitedPairs == {<<<<RobotBody, "*">>, <<body, "*">>>> : body \in ProhibitedBodies}

SideMatches(configured, side) ==
  configured[1] = side[1] /\ configured[2] \in {"*", side[2]}

DirectedMatch(pair, x, y) == SideMatches(pair[1], x) /\ SideMatches(pair[2], y)

\* Mutant of Matches: the order of the sides is taken for given.
MatchesOneWay(pair, event) == DirectedMatch(pair, event.a, event.b)

Matches(pair, event) ==
  DirectedMatch(pair, event.a, event.b) \/ DirectedMatch(pair, event.b, event.a)

\* The pairs that are in contact with at least the force of the threshold.
PressedPairs(events) ==
  {pair \in ProhibitedPairs :
     \E event \in events : Matches(pair, event) /\ event.force >= CollisionForce}

-----------------------------------------------------------------------------
(* CollisionMonitor.observe: for each pressed pair since when it is, as    *)
(* the time accumulated; a pair that is let go is forgotten.               *)

CollisionDuration == 3         \* 0.05 s

NoTrackers == [p \in {} |-> 0]

Tracked(trackers, pressed, elapsed) ==
  [p \in pressed |-> IF p \in DOMAIN trackers THEN trackers[p] + elapsed ELSE 0]

\* The sum of float differences is compared with 0.05 without a tolerance: at
\* exactly three updates it can fall on either side.
Detections(trackers) ==
  {\E p \in DOMAIN trackers : trackers[p] >= CollisionDuration,
   \E p \in DOMAIN trackers : trackers[p] > CollisionDuration}

-----------------------------------------------------------------------------
(* The object in the gripper (control/outcomes.py).                        *)

GraspForce == 1

GraspLinks == {"left_finger", "right_finger", "left_finger_tip", "right_finger_tip"}

IsGripperObjectContact(event) ==
  \/ event.a[1] = ObjectName /\ event.b[1] = RobotBody /\ event.b[2] \in GraspLinks
  \/ event.b[1] = ObjectName /\ event.a[1] = RobotBody /\ event.a[2] \in GraspLinks

Grips == {"none", "contact", "firm"}

\* gripper_object_contact, and contact_force_newtons as the classifier compares it.
Grip(events) ==
  LET gripping == {event \in events : IsGripperObjectContact(event)}
  IN  IF gripping = {} THEN "none"
      ELSE IF \E event \in gripping : event.force >= GraspForce THEN "firm" ELSE "contact"
=============================================================================
