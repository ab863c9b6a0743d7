\* A fault, a stop and a cancellation, under the policy with most paths.
SPECIFICATION Spec
CONSTANTS
  Implementation = "collision_aware"
  MaxFaults = 1
  MaxStops = 1
  MayCancel = TRUE
INVARIANTS ManifestLast RowsBacked CompletedEvidence FailureExplained
CHECK_DEADLOCK FALSE
