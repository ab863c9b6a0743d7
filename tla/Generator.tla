----------------------------- MODULE Generator ------------------------------
(***************************************************************************)
(* The geometry of scenarios/generator.py: where a drawn object may stand. *)
(* A box is axis-aligned, a record [x1, x2, y1, y2].  An object is a       *)
(* record [shape, hx, hy], and its yaw <<c, s, d>> with cosine c/d and     *)
(* sine s/d.  Lengths are integers, in a unit small enough for the corners *)
(* of the turned objects to be integers too.                               *)
(***************************************************************************)
EXTENDS Integers, FiniteSetsExt

CONSTANTS Pickup,              \* the box of the pickup region
          Bins,                \* the outer boxes of the bins
          Objects, Positions, Yaws    \* what can be drawn

ASSUME GeometryAssumption ==
  /\ \A box \in Bins \cup {Pickup} : {box.x1, box.x2, box.y1, box.y2} \subseteq Int
  /\ \A obj \in Objects : obj.hx \in Nat /\ obj.hy \in Nat
  /\ Positions \subseteq Int \X Int
  /\ \A yaw \in Yaws :
       /\ yaw[1] \in Int /\ yaw[2] \in Int /\ yaw[3] \in Nat \ {0}
       /\ yaw[1] * yaw[1] + yaw[2] * yaw[2] = yaw[3] * yaw[3]
  /\ \A obj \in {o \in Objects : o.shape # "cylinder"}, yaw \in Yaws, i, j \in {-1, 1} :
       /\ (i * obj.hx * yaw[1] - j * obj.hy * yaw[2]) % yaw[3] = 0
       /\ (i * obj.hx * yaw[2] + j * obj.hy * yaw[1]) % yaw[3] = 0

PointInBox(p, box) == p[1] \in box.x1..box.x2 /\ p[2] \in box.y1..box.y2

\* The corner at (ox, oy) before the turn, in the world.
Turned(at, ox, oy, yaw) ==
  <<at[1] + (ox * yaw[1] - oy * yaw[2]) \div yaw[3],
    at[2] + (ox * yaw[2] + oy * yaw[1]) \div yaw[3]>>

\* Mutant of Corners: the object is not turned.
CornersUnturned(obj, at, yaw) ==
  {<<at[1] + i * obj.hx, at[2] + j * obj.hy>> : i, j \in {-1, 1}}

Corners(obj, at, yaw) == {Turned(at, i * obj.hx, j * obj.hy, yaw) : i, j \in {-1, 1}}

BoxOf(points) ==
  [x1 |-> Min({p[1] : p \in points}), x2 |-> Max({p[1] : p \in points}),
   y1 |-> Min({p[2] : p \in points}), y2 |-> Max({p[2] : p \in points})]

BoxesMeet(a, b) ==
  ~(a.x2 < b.x1 \/ a.x1 > b.x2 \/ a.y2 < b.y1 \/ a.y1 > b.y2)

CircleInBox(at, r, box) ==
  /\ at[1] - r >= box.x1 /\ at[1] + r <= box.x2
  /\ at[2] - r >= box.y1 /\ at[2] + r <= box.y2

CircleMeetsBox(at, r, box) ==
  LET Nearest(v, low, high) == IF v < low THEN low ELSE IF v > high THEN high ELSE v
      dx == at[1] - Nearest(at[1], box.x1, box.x2)
      dy == at[2] - Nearest(at[2], box.y1, box.y2)
  IN  dx * dx + dy * dy <= r * r

ObjectInPickup(obj, at, yaw) ==
  IF obj.shape = "cylinder" THEN CircleInBox(at, obj.hx, Pickup)
  ELSE \A p \in Corners(obj, at, yaw) : PointInBox(p, Pickup)

ObjectMeetsBins(obj, at, yaw) ==
  \E bin \in Bins :
    IF obj.shape = "cylinder" THEN CircleMeetsBox(at, obj.hx, bin)
    ELSE BoxesMeet(BoxOf(Corners(obj, at, yaw)), bin)

PlacementIsValid(obj, at, yaw) ==
  ObjectInPickup(obj, at, yaw) /\ ~ObjectMeetsBins(obj, at, yaw)

-----------------------------------------------------------------------------
(* The reference: the points that the object covers.                       *)

Covers(obj, at, yaw, p) ==
  LET dx == p[1] - at[1]
      dy == p[2] - at[2]
      Within(v, h) == v <= h * yaw[3] /\ -v <= h * yaw[3]
  IN  IF obj.shape = "cylinder" THEN dx * dx + dy * dy <= obj.hx * obj.hx
      ELSE /\ Within(dx * yaw[1] + dy * yaw[2], obj.hx)
           /\ Within(dy * yaw[1] - dx * yaw[2], obj.hy)

\* The points about an object that covers no farther than its sides together.
Around(obj, at) ==
  LET reach == obj.hx + obj.hy
  IN  ((at[1] - reach)..(at[1] + reach)) \X ((at[2] - reach)..(at[2] + reach))

\* The object stands in the pickup region and on no bin.
StandsClear(obj, at, yaw) ==
  \A p \in Around(obj, at) :
    Covers(obj, at, yaw, p) => PointInBox(p, Pickup) /\ \A bin \in Bins : ~PointInBox(p, bin)
=============================================================================
