\* One stop, so two attempts, under the policy that may approach twice.
SPECIFICATION FairSpec
CONSTANTS
  Implementation = "collision_aware"
  MaxFaults = 0
  MaxStops = 1
  MayCancel = FALSE
PROPERTIES TrialEnds
CHECK_DEADLOCK FALSE
