CONSTANTS
  Targets = {t1, t2}
  MaxEdits = 1
  Faults = {"stop"}
SPECIFICATION Spec
PROPERTY ReusedIsFresh
