\* Liveness through two crashes and a stop, with nobody cancelling.
SPECIFICATION NoCancelSpec
CONSTANTS
  Workers = {w1, w2}
  Exps = {e1}
  Keys = {k1}
  Fingerprints = {f1}
  None = None
  MaxAttempts = 2
  Requests = {q1}
  NumRuns = 1
  MaxCrashes = 2
  MaxStops = 1
  HasErrorBudget = FALSE
  Timely = TRUE
INVARIANTS StaleOnlyExhausted
PROPERTIES EveryRunEnds LimitPassedByRelease
