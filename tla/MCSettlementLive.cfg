\* One purchase, two workers; crashes, lost answers and a bundle that expires.
SPECIFICATION FairSpec
CONSTANTS
  Purchases = {p1}
  Requests = {r1}
  Payments = {a1}
  Workers = {w1, w2}
  None = None
  LeaseTime = 1
  RetryDelay = 1
  QuoteLife = 2
  ValidBefore = 2
  TrustUntil = 2
  MaxTime = 3
PROPERTIES
  ChargedIsServed
