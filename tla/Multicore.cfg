CONSTANTS
  MaxWorkers = 2
  Contents = {a, b}
  Sigs = {s}
  Clusters = {f}
  MaxCampaigns = 2
  Timed = TRUE
  MaxKept = 1
  Faults = {"spawn", "io", "die"}
SPECIFICATION FairSpec
INVARIANTS SummaryIsTrue EverythingImported
PROPERTIES NothingLost CampaignReturns
CHECK_DEADLOCK FALSE
