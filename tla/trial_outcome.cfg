\* Four kinds of physics under the three policies.
SPECIFICATION Spec
CONSTANTS
  Policies = {"fixed", "pose_aware", "collision_aware"}
  Scenes = {"grasping", "placing", "touching", "rejecting"}
  Sights <- MCSights
  Takes <- MCTakes
  Misses <- MCMisses
  Configs <- MCConfigs
  BodyNames <- MCBodyNames
  RobotLinks <- MCRobotLinks
CHECK_DEADLOCK FALSE
INVARIANTS CollisionMeansSustained GraspMeansHeld SettledExactly SuccessEarned PickupAssessed
