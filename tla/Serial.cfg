CONSTANTS
  N = 3
  Cap0 = 3
  MaxSeed = 3
  Outcomes = {"fuzzed", "other", "err"}
  Keys = {"q", "p", "[", "]"}
  MaxKeys = 3
  HasBudget = TRUE
  DiskFaults = TRUE
SPECIFICATION FairSpec
INVARIANTS FuzzesSelection OneLateCandidate
PROPERTIES SerialIsSweep SerialReturns
