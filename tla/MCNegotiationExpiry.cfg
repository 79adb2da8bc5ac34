\* One connection.
SPECIFICATION FairSpec
CONSTANTS
  Slots = {s1}
  MaxMessages = 4
  Requests = {r1}
  Deals = {d1}
  Prices = {1}
  NoRequest = NoRequest
  Nothing = Nothing
  MaxSignedIntentAge = 1
  MaxTime = 2
  Expiries = {0, 1}
PROPERTIES
  NeverAfterExpiry
