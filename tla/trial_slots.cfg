\* Two runs of an experiment with two trials, and one mishap.
SPECIFICATION Spec
CONSTANTS
  Runs = {r1, r2}
  NumSlots = 2
  ErrorBudget = 2
  MaxAttempts = 2
  NumEvents = 2
  MaxFaults = 1
SYMMETRY Interchangeable
CHECK_DEADLOCK FALSE
INVARIANTS OneAttemptsEvidence
PROPERTIES RecordedNeverReopens EndsTruthfully StrandedOnlyUnworked
