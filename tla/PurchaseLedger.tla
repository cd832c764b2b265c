---------------------------- MODULE PurchaseLedger ----------------------------
(***************************************************************************)
(* What the service promises a buyer, with no worker, lease, clock or      *)
(* facilitator in sight: a purchase is bound to one payment that no other  *)
(* purchase has, that payment is transferred once, and only then is the    *)
(* purchase served, once and for all.  Settlement implements it.           *)
(***************************************************************************)
CONSTANTS Purchases, Payments, None

VARIABLES
  bound,    \* the payment each purchase is bound to
  paid,     \* payments whose transfer is final
  served    \* the payment each served result was issued for

ledger == <<bound, paid, served>>

LedgerInit ==
  /\ bound = [p \in Purchases |-> None]
  /\ paid = {}
  /\ served = [p \in Purchases |-> None]

Bind(p, a) ==
  /\ bound[p] = None
  /\ \A q \in Purchases : bound[q] # a
  /\ bound' = [bound EXCEPT ![p] = a]
  /\ UNCHANGED <<paid, served>>

Charge(a) ==
  /\ a \notin paid
  /\ \E p \in Purchases : bound[p] = a
  /\ paid' = paid \cup {a}
  /\ UNCHANGED <<bound, served>>

Serve(p) ==
  /\ bound[p] \in paid
  /\ served[p] = None
  /\ served' = [served EXCEPT ![p] = bound[p]]
  /\ UNCHANGED <<bound, paid>>

LedgerNext ==
  \/ \E p \in Purchases, a \in Payments : Bind(p, a)
  \/ \E a \in Payments : Charge(a)
  \/ \E p \in Purchases : Serve(p)

LedgerSpec == LedgerInit /\ [][LedgerNext]_ledger
=============================================================================
