----------------------------- MODULE SettlementInv -----------------------------
(***************************************************************************)
(* The inductive invariant behind the safety properties of Settlement.     *)
(* None of those is inductive by itself: a worker whose lease ran out long *)
(* ago may still call settle(), so why the call is harmless depends on     *)
(* what its outdated local row has in common with the durable one.         *)
(***************************************************************************)
EXTENDS Settlement

Bound   == {"PREPARED", "SETTLING", "SETTLED", "ISSUED"}
Charged == {"SETTLING", "SETTLED", "ISSUED"}
Proved  == {"SETTLED", "ISSUED"}

(* What each state of a row says about its other fields and the result. *)
RowShape(p) ==
  LET row == rows[p] IN
  /\ row.state = "ABSENT" => row.request = None
  /\ row.state # "ABSENT" => row.request \in Requests
  /\ row.state \in Bound => row.payment \in Payments
  /\ row.state \notin Bound => row.payment = None
  /\ row.state \in Proved => /\ row.settlement = row.payment
                             /\ chain[row.payment] = "final"
  /\ row.state \notin Proved => row.settlement = None
  /\ row.state = "ISSUED" => resultBytes[p] = ResultOf(row)
  /\ row.state # "ISSUED" => resultBytes[p] = None

PaymentsUnique ==
  \A p, q \in Purchases :
    p # q /\ rows[p].payment # None => rows[q].payment # rows[p].payment

(* The places of progress() between a read of the row and the release, by  *)
(* the state the local row has there.                                      *)
SettlingPlaces == {"search", "cursor", "attempt", "call", "wait", "discovery",
                   "hint", "confirm", "lastCursor", "settled"}

LocalState(w) ==
  /\ pc[w] \in {"get", "quote", "verify", "reserve"} =>
       job[w].request \in Requests
  /\ pc[w] \in {"verify", "reserve"} => job[w].tender \in Payments
  /\ pc[w] = "mark" => job[w].row.state = "PREPARED"
  /\ pc[w] \in SettlingPlaces => job[w].row.state = "SETTLING"
  /\ pc[w] = "settled" => chain[job[w].row.payment] = "final"

(* An outdated local row is an earlier version of the durable one. *)
Earlier(old, new) ==
  /\ old.payment = new.payment
  /\ new.state \in Bound
  /\ old.state \in Charged => new.state \in Charged
  /\ old.state \in Proved => new.state \in Proved

LocalRow(w) ==
  /\ pc[w] \in {"lease"} \cup Leased => rows[Mine(w)].state \in Bound
  /\ pc[w] \in Leased \ {"load", "release"} =>
       Earlier(job[w].row, rows[Mine(w)])
  /\ pc[w] \in Leased \ {"load", "release"} /\ owner[Mine(w)] = w =>
       job[w].row = rows[Mine(w)]

(* No transfer without a settle() call. *)
TransferWasAsked ==
  \A a \in Payments : chain[a] # "none" => submitted[a] # {}

(* The inductive invariant. *)
IInv ==
  /\ TypeOK
  /\ \A p \in Purchases : RowShape(p)
  /\ PaymentsUnique
  /\ ChargeIsJournaled
  /\ TransferWasAsked
  /\ \A w \in Workers : LocalState(w) /\ LocalRow(w)
=============================================================================
