\* Two requests for one purchase with two payments; leases that expire.
SPECIFICATION Spec
CONSTANTS
  Purchases = {p1}
  Requests = {r1}
  Payments = {a1, a2}
  Workers = {w1, w2}
  None = None
  LeaseTime = 2
  RetryDelay = 1
  QuoteLife = 3
  ValidBefore = 3
  TrustUntil = 4
  MaxTime = 4
SYMMETRY Symmetric
INVARIANTS
  TypeOK
  ChargeIsJournaled
  SettledOnlyWhenFinal
  LocalRowIsDurable
  ResultMatchesRow
PROPERTIES
  RowsOnlyAdvance
