\* Two connections of the peer negotiate the same terms.
SPECIFICATION Spec
CONSTANTS
  Slots = {s1, s2}
  MaxMessages = 3
  Requests = {r1}
  Deals = {d1}
  Prices = {1}
  NoRequest = NoRequest
  Nothing = Nothing
  MaxSignedIntentAge = 1
  MaxTime = 2
  Expiries = {0, 1}
SYMMETRY Interchangeable
INVARIANTS
  TypeOK
  ExecutedOnce
  ExecutesOwnNegotiation
