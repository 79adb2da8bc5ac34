SPECIFICATION FairSpec
CONSTANTS
  n1 = n1
  n2 = n2
  n3 = n3
  e1 = e1
  e2 = e2
  gold = gold
  silver = silver
  a1 = a1
  a2 = a2
  a3 = a3
  p1 = p1
  None = None
  Nodes = {n1, n2, e1, e2}
  Rank <- MixedRank
  Stored = {n1, n2}
  Ephemeral = {e1, e2}
  Units = {gold, silver}
  Auths = {a1, a2, a3}
  Plain = {p1}
  Terms <- MixedTerms
  Callers = {c1, c2}
  PersistFaults = {"unmarked"}
  MaxAmount = 2
  MaxSignedIntentAge = 0
  Issues = {2}
  MaxMint = 2
  MaxTime = 2
INVARIANTS
  AppliedAtMostOnce
PROPERTIES
  TradesConserve
  CallsReturn
