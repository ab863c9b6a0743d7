---------------------------- MODULE MCPickPlace -----------------------------
(* Instances of PickPlace for TLC: an arm of two links, and robots that    *)
(* the layout must accept or refuse.                                       *)
EXTENDS PickPlace

Joint(link) == [link |-> link, fixed |-> FALSE, limited |-> TRUE]
Fixed(link) == [link |-> link, fixed |-> TRUE, limited |-> FALSE]

Kuka ==
  <<Joint("lbr_iiwa_link_6"), Joint("lbr_iiwa_link_7"), Joint("base_link"),
    Joint("left_finger"), Joint("left_finger_tip"),
    Joint("right_finger"), Joint("right_finger_tip")>>

MCRobots ==
  {Kuka,
   <<Kuka[4], Joint("base_link"), Fixed("camera")>>              \* another order
     \o <<Kuka[2], Kuka[1], Kuka[5], Kuka[6], Kuka[7]>>,
   [Kuka EXCEPT ![3] = Fixed("base_link")],                     \* does not rotate
   [Kuka EXCEPT ![3].limited = FALSE],                          \* rotates freely
   [Kuka EXCEPT ![3] = Fixed("camera")],                        \* has no such link
   [Kuka EXCEPT ![2].limited = FALSE],                          \* an arm without limits
   [Kuka EXCEPT ![5] = Fixed("left_finger_tip")],
   [Kuka EXCEPT ![1].link = "lbr_iiwa_link_7"],                 \* one link twice
   Append(Kuka, Joint("extra"))}                                \* an unknown joint

MCTimeout ==
  [p \in MotionPrimitives |-> IF p \in {"move_end_effector", "retract"} THEN 2 ELSE 1]

HalfPlaced == <<1, 2>>
=============================================================================
