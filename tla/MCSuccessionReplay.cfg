\* Two transitions at a time, two payments and two nonces: control passes twice.
SPECIFICATION Spec
CONSTANTS
  Workers = {w1, w2}
  Controllers = {c1, c2}
  Founder = c1
  Nonces = {n1, n2}
  Payments = {t1, t2}
  Confirmations = 1
  MaxHeight = 1
  MaxVersion = 2
INVARIANTS
  NothingReplayed
  ControlPassesInLine
