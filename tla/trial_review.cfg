\* Two workers create up to four trials; one client lists them, two reviewers annotate one.
SPECIFICATION Spec
CONSTANTS
  Pickup <- MCPickup
  Bins <- MCBins
  Objects <- MCObjects
  Positions <- MCPositions
  Yaws <- MCYaws
  Heights = {5}
  Masses = {40, 100}
  DefaultHalf <- MCDefaultHalf
  DefaultMass = 100
  Grain = 3
  Configs <- MCConfigs
  DefaultConfig <- MCDefaultConfig
  Workers = {w1, w2}
  Experiments = {e1, e2}
  Policies = {p1}
  Seeds = {1, 2}
  RetryLimit = 2
  MaxScenarios = 2
  Clocks = {0, 1}
  MaxTime = 1
  MaxCounter = 1
  MaxRandom = 0
  Reviewers = {a, b}
  MaxRevision = 3
  MaxAnnotated = 1
  MaxPage = 2
SYMMETRY Permuted
CHECK_DEADLOCK FALSE
INVARIANTS PlacedClear AllOrNoTrials CreatedInOrder NothingMissed RunsAsPosted ConfigAsStored
PROPERTY SeenBeforeOverwritten
