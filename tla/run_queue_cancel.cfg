\* One start and two cancel requests with a stop, no crash, and an error budget.
SPECIFICATION OneStartSpec
CONSTANTS
  Workers = {w1, w2}
  Exps = {e1}
  Keys = {k1}
  Fingerprints = {f1}
  None = None
  MaxAttempts = 2
  Requests = {q1, q2, q3}
  NumRuns = 1
  MaxCrashes = 0
  MaxStops = 1
  HasErrorBudget = TRUE
  Timely = TRUE
INVARIANTS SettledExperiment
PROPERTIES EveryRunEnds RevivedUnseen
