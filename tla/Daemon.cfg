CONSTANTS
  Workers = {w1, w2}
  Clients = {c1, c2}
  MaxSubmits = 2
  MaxRestarts = 2
SPECIFICATION FairSpec
INVARIANTS OnePlace ListIsCurrent AckedIsKnown FinishedStaysFinished
PROPERTIES AckedFinishes DropReturns
