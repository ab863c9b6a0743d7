\* A run that is being cancelled when its worker dies.
SPECIFICATION FairSpec
CONSTANTS
  Workers = {w1}
  Exps = {e1}
  Keys = {k1}
  Fingerprints = {f1}
  None = None
  MaxAttempts = 1
  Requests = {q1, q2}
  NumRuns = 1
  MaxCrashes = 1
  MaxStops = 0
  HasErrorBudget = FALSE
  Timely = TRUE
PROPERTIES ExpiredLeasesEnd
