\* Two workers, two runs of one experiment, a crash and a stop.
SPECIFICATION Spec
CONSTANTS
  Workers = {w1, w2}
  Exps = {e1}
  Keys = {k1, k2}
  Fingerprints = {f1, f2}
  None = None
  MaxAttempts = 2
  Requests = {q1, q2}
  NumRuns = 2
  MaxCrashes = 1
  MaxStops = 1
  HasErrorBudget = FALSE
  Timely = TRUE
SYMMETRY Interchangeable
INVARIANTS TypeOK Exclusive HolderOwns IdempotentStart
PROPERTIES TerminalStable ImplementsLease
