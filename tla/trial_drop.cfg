\* A grasp that may be lost at any time, under the policy that sees the object.
SPECIFICATION Spec
CONSTANTS
  Policies = {"pose_aware"}
  Scenes = {"grasping"}
  Sights <- MCSights
  Takes <- MCTakes
  Misses <- MCMisses
  Configs <- MCConfigs
  BodyNames <- MCBodyNames
  RobotLinks <- MCRobotLinks
CHECK_DEADLOCK FALSE
INVARIANT DropsReported
