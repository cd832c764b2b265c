\* Two submissions, two purchases and one payment offered for both.
SPECIFICATION Spec
CONSTANTS
  Purchases = {p1, p2}
  Requests = {r1, r2}
  Payments = {a1}
  Workers = {w1, w2}
  None = None
  LeaseTime = 1
  RetryDelay = 1
  QuoteLife = 2
  ValidBefore = 2
  TrustUntil = 2
  MaxTime = 2
SYMMETRY Symmetric
INVARIANTS
  ChargedOnce
PROPERTIES
  LedgerSpec
