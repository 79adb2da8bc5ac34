SPECIFICATION Spec
CONSTANTS
  Trades = {t1, t2}
  Workers = {w1}
  inv = inv
  price = price
  DocOrder <- MCDocOrder
  Genesis = Genesis
  Absent = Absent
  Isolated = TRUE
  FaultPoints = {"record"}
  MaxFaults = 1
  MaxCrashes = 1
PROPERTIES
  MarkerMeansInstalled
