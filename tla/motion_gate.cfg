\* Two picks on one connection, by each of nine robots.
SPECIFICATION Spec
CONSTANTS
  ArmLinks = {"lbr_iiwa_link_6", "lbr_iiwa_link_7"}
  WristLink = "lbr_iiwa_link_7"
  Robots <- MCRobots
  Timeout <- MCTimeout
  TrialCount = 2
  RateMin <- HalfPlaced
CHECK_DEADLOCK FALSE
INVARIANTS FreshCell
PROPERTIES AllJointsHeld CountedInFull
