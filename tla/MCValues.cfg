SPECIFICATION InventorySpec
CONSTANTS
  a = a  b = b  none = none  ua = ua  ub = ub
  Nodes = {a, b}
  NoNode = none
  Units = {ua, ub}
  IssuerOf <- TwoIssuers
  Expiries = {0, 1, 2}
  Never = 0
  MaxAmount = 2
  MaxUint32 = 2
  Drafts <- SomeDrafts
  Issuances <- SomeIssuances
  Presented <- SomePresented
  MaxInputs = 2
  MaxOutputs = 2
  MaxIssues = 2
  MaxTransactions = 3
  MaxApplied = 3
  Policies <- SomePolicies
  Times = {1}
INVARIANTS InventoryTypeOK InventoryIsMinted TypeOK FreshValuesAreIssued ExpiryLineage TransfersConserve AcceptedStandsOnTrust AcceptedCanMoveOn
PROPERTY MadeTransfersAreValid
CHECK_DEADLOCK FALSE
