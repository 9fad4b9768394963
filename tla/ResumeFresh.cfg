CONSTANTS
  Targets = {t1, t2}
  MaxEdits = 2
  Faults = {"edit_running", "write_error"}
SYMMETRY TargetSymmetry
SPECIFICATION Spec
INVARIANT UnforcedReportsUnforced
PROPERTIES ReusedIsFresh OldFailuresReattempted
