\* Two processes share a journal and an allowance that covers one of two
\* purchases at the high price or both at the low one; the service answers with
\* old, new and diverging status snapshots.
SPECIFICATION Spec
CONSTANTS
  Workers = {w1, w2}
  Purchases = {p1, p2}
  Prices = {1, 2, 3}
  MaxPerPurchase = 2
  MaxTotal = 3
  Bundles <- ForkedBundles
  MaxSigned = 2
SYMMETRY Alike
INVARIANTS
  TypeOK
  SpendingWithinAllowance
  SentIsJournaled
  AcceptedUnderKnownTrust
  AcceptedOnOneHistory
