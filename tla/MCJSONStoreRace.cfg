SPECIFICATION Spec
CONSTANTS
  Trades = {t1, t2}
  Workers = {w1, w2}
  inv = inv
  price = price
  DocOrder <- MCDocOrder
  Genesis = Genesis
  Absent = Absent
  Isolated = FALSE
  FaultPoints <- ReportedFaults
  MaxFaults = 1
  MaxCrashes = 1
INVARIANTS
  AcceptedIsReplayEvident
  AcceptedAtMostOnce
PROPERTIES
  ImplementsLedger
