CONSTANTS
  Inputs = {blank, i1, i2}
  Blank = blank
  i1 = i1
  i2 = i2
  Clusters = {"c1", "c2"}
  Sigs = {"s1", "s2"}
  Intended = {"s2"}
  RuleOf <- MCRuleOf
  Targets <- MCTargets
  SeedSets <- MCSeedSets
  Lanes = {"driver", "event"}
  MaxPasses = 2
  MaxIters = 2
  MaxNovel = 1
  DedupLimit = 2
  PoolLimit = 3
  QueueLimit = 1
  StopAfter = 2
  Faults = {"abort", "spawn", "io"}
SPECIFICATION Spec
INVARIANTS ArtefactsNotReported OneFindingPerRootCause RevealedIsReported KeptMutantsAreClean
CHECK_DEADLOCK FALSE
