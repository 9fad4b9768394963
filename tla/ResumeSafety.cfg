CONSTANTS
  Targets = {t1, t2}
  MaxEdits = 1
  Faults = {"stop", "kill", "toggle", "nocache"}
SPECIFICATION FairSpec
INVARIANT ReportMatchesRecords
PROPERTIES ResumeRepeatsNothing ForceCannotCostReach ResumeConverges
