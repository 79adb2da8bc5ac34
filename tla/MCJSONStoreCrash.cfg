SPECIFICATION Spec
CONSTANTS
  Trades = {t1, t2}
  Workers = {w1}
  inv = inv
  price = price
  DocOrder <- MCDocOrder
  Genesis = Genesis
  Absent = Absent
  Isolated = TRUE
  FaultPoints <- RecoverableFaults
  MaxFaults = 2
  MaxCrashes = 2
INVARIANTS
  TypeOK
  DocumentsAgree
  VisibleIsReplayEvident
  CommittedRollsForward
PROPERTIES
  MarkerMeansInstalled
  NeverReinstalled
