CONSTANTS
  Workers = {w1, w2}
  N = 3
  Ada = {0, 2}
  Ceiling = 2
  Jobs0 = 1
  Cap0 = 2
  Seed = 1
  Outcomes = {"fuzzed", "other", "err"}
  Keys = {"q", "p", "+", "["}
  MaxKeys = 2
  HasDeadline = TRUE
  HasBudget = TRUE
  DiskFaults = TRUE
  NoWorker = NoWorker
SYMMETRY WorkerSymmetry
SPECIFICATION Spec
INVARIANTS TypeOK EveryClaimAccounted AdaSerial PermitsMatch WithinJobs HandedBackIsDurable StopIsJustified
  OvershootWithinPool PoolSelectsSerialSet
PROPERTY PoolIsSweep
