CONSTANTS
  Inputs = {blank, i1, i2}
  Blank = blank
  i1 = i1
  i2 = i2
  Clusters = {"c1", "c2"}
  Sigs = {"s1", "s2"}
  Intended = {"s2"}
  RuleOf <- MCRuleOf
  Targets <- MCTwins
  SeedSets <- MCBoth
  Lanes = {"driver"}
  MaxPasses = 2
  MaxIters = 2
  MaxNovel = 0
  DedupLimit = 2
  PoolLimit = 3
  QueueLimit = 2
  StopAfter = 2
  Faults = {}
SPECIFICATION Spec
PROPERTY SeenCrasherStaysOut
CHECK_DEADLOCK FALSE
