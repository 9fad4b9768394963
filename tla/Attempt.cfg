CONSTANTS
  t1 = t1
  t2 = t2
  t3 = t3
  s1 = s1
  s2 = s2
  Workers = {w1, w2}
  Targets = {t1, t2, t3}
  Sources = {s1, s2}
  SourceOf <- OneAndTwo
  Worlds <- Pairs
  Drivers <- SomeWrong
  MaxRounds = 2
  MaxRuns = 2
  Faults = {"kill", "deadline", "edit", "io"}
SYMMETRY Symmetry
SPECIFICATION Spec
CHECK_DEADLOCK FALSE
INVARIANTS GivesUpHonestly MemoIsTrue FragmentKept
