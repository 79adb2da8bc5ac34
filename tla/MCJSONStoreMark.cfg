SPECIFICATION Spec
CONSTANTS
  Trades = {t1, t2}
  Workers = {w1}
  inv = inv
  price = price
  DocOrder <- MCDocOrder
  Genesis = Genesis
  Absent = Absent
  Isolated = TRUE
  FaultPoints = {"mark"}
  MaxFaults = 1
  MaxCrashes = 0
PROPERTIES
  FailureLeavesNoEvidence
