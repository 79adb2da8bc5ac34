SPECIFICATION Spec
CONSTANTS
  n1 = n1
  n2 = n2
  n3 = n3
  e1 = e1
  e2 = e2
  gold = gold
  silver = silver
  a1 = a1
  a2 = a2
  a3 = a3
  p1 = p1
  None = None
  Nodes = {n1, n2, n3}
  Rank <- StoredRank
  Stored = {n1, n2, n3}
  Ephemeral = {}
  Units = {gold, silver}
  Auths = {a1, a2}
  Plain = {}
  Terms <- StoredTerms
  Callers = {c1, c2}
  PersistFaults = {"failed"}
  MaxAmount = 2
  MaxSignedIntentAge = 1
  Issues = {1}
  MaxMint = 3
  MaxTime = 1
INVARIANTS
  TypeOK
  NothingFromNothing
  MemoryCoversDisk
  FlowCountsLedger
