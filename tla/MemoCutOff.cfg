CONSTANTS
  t1 = t1
  t2 = t2
  t3 = t3
  s1 = s1
  s2 = s2
  Workers = {w1}
  Targets = {t1, t2, t3}
  Sources = {s1, s2}
  SourceOf <- OneAndTwo
  Worlds <- Plain
  Drivers <- NoneWrong
  MaxRounds = 2
  MaxRuns = 2
  Faults = {"deadline"}
SPECIFICATION Spec
CHECK_DEADLOCK FALSE
INVARIANT InheritsSameVerdict
