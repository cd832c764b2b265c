\* One purchase by two processes with a journal that are interrupted and started
\* again; or one by a client without a library, run again and again.
SPECIFICATION ClientSpec
CONSTANTS
  References = {r1, r2}
  Workers = {w1, w2}
  Purchases = {p1}
  Prices = {1}
  MaxPerPurchase = 1
  MaxTotal = 1
  MaxSigned = 2
INVARIANTS PaysOnce
PROPERTIES BoundIsDelivered SignsAdmitted PaidIsAcquired
