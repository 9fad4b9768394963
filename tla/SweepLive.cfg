CONSTANTS
  Workers = {w1, w2}
  N = 2
  Ada = {0, 1}
  Ceiling = 2
  Jobs0 = 1
  Cap0 <- Uncapped
  Seed = 0
  Outcomes = {"fuzzed", "other", "err"}
  Keys = {"q", "p", "+", "-"}
  MaxKeys = 3
  HasDeadline = TRUE
  HasBudget = FALSE
  DiskFaults = FALSE
  NoWorker = NoWorker
SPECIFICATION FairSpec
PROPERTIES SweepReturns PauseLetsTargetsFinish
