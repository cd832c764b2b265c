---------------------------- MODULE PurchaseStore ----------------------------
(***************************************************************************)
(* The durable purchases table (src/src/store.mjs).  A row keeps its JSON   *)
(* `record' (here rows[p]), and three columns of its own: lease_owner,      *)
(* lease_until and result_bytes.  Every method of the Store class is one    *)
(* database transaction, so every operator below is one atomic step; the    *)
(* conditions a method `demand's are separate predicates, because a caller  *)
(* whose demand fails gets a Fault and goes on to its error path.           *)
(***************************************************************************)
EXTENDS Naturals

CONSTANTS
  Purchases,   \* purchase identities: one per client reference
  Requests,    \* canonical submissions, told apart by request_hash
  Payments,    \* EIP-3009 payment identities: (authorizer, nonce) pairs
  Workers,     \* tokens a progress() call draws for its lease
  None,        \* SQL NULL
  LeaseTime    \* 90 seconds in the code

ASSUME StoreAssumption ==
  /\ LeaseTime \in Nat \ {0}
  /\ None \notin Purchases \cup Requests \cup Payments \cup Workers

VARIABLES
  rows,         \* the record column
  owner,        \* the lease_owner column
  leaseUntil,   \* the lease_until column
  resultBytes   \* the result_bytes column

storeVars == <<rows, owner, leaseUntil, resultBytes>>

States == {"ABSENT", "QUOTED", "PREPARED", "SETTLING", "SETTLED", "ISSUED"}

(* What a settle() answer told the service about a transaction: nothing; the *)
(* one that carries the transfer; one announced as a success but replaced or *)
(* dropped before it was mined; or one that a failure answer names because   *)
(* it reverted. Neither of the last two ever carries the transfer.           *)
Hints == {"none", "transfer", "replaced", "reverted"}

(* The part of a purchase record the protocol reads back. `settlement' is the *)
(* payment the finalized evidence is about; `issuedAt' means nothing without  *)
(* it.                                                                        *)
Row == [state: States, request: Requests \cup {None}, expires: Nat,
        payment: Payments \cup {None}, nextAttempt: Nat, hint: Hints,
        settlement: Payments \cup {None}, issuedAt: Nat]

AbsentRow ==
  [state |-> "ABSENT", request |-> None, expires |-> 0, payment |-> None,
   nextAttempt |-> 0, hint |-> "none", settlement |-> None, issuedAt |-> 0]

(* The canonical result: everything assembleResult reads out of the row. *)
Result == [request: Requests \cup {None}, payment: Payments \cup {None},
           settlement: Payments \cup {None}, issuedAt: Nat]

ResultOf(row) ==
  [request |-> row.request, payment |-> row.payment,
   settlement |-> row.settlement, issuedAt |-> row.issuedAt]

ASSUME ResultAssumption == None \notin Result   \* SQL NULL is no result

StoreTypeOK ==
  /\ rows \in [Purchases -> Row]
  /\ owner \in [Purchases -> Workers \cup {None}]
  /\ leaseUntil \in [Purchases -> Nat]
  /\ resultBytes \in [Purchases -> Result \cup {None}]

StoreInit ==
  /\ rows = [p \in Purchases |-> AbsentRow]
  /\ owner = [p \in Purchases |-> None]
  /\ leaseUntil = [p \in Purchases |-> 0]
  /\ resultBytes = [p \in Purchases |-> None]

-----------------------------------------------------------------------------
(* quote(): insert when absent; whoever comes later finds the first row. *)
QuotedRow(r, until) ==
  [AbsentRow EXCEPT !.state = "QUOTED", !.request = r, !.expires = until]

Quote(p, r, until) ==
  /\ rows' = IF rows[p].state = "ABSENT"
               THEN [rows EXCEPT ![p] = QuotedRow(r, until)]
               ELSE rows
  /\ UNCHANGED <<owner, leaseUntil, resultBytes>>

(* reserve(): the UNIQUE payment_key column refuses a payment that any other *)
(* purchase already holds.                                                   *)
PaymentUnchecked(p, a) == TRUE   \* faulty: no UNIQUE constraint

PaymentIsFree(p, a) == \A q \in Purchases \ {p} : rows[q].payment # a

MayReserve(p, r, a) ==
  /\ rows[p].state # "ABSENT"
  /\ rows[p].request = r
  /\ IF rows[p].state = "QUOTED"
       THEN PaymentIsFree(p, a)
       ELSE rows[p].payment = a

ReservedRow(p, a, now) ==
  IF rows[p].state = "QUOTED"
    THEN [rows[p] EXCEPT !.state = "PREPARED", !.payment = a,
                         !.nextAttempt = now]
    ELSE rows[p]

Reserve(p, a, now) ==
  /\ rows' = [rows EXCEPT ![p] = ReservedRow(p, a, now)]
  /\ UNCHANGED <<owner, leaseUntil, resultBytes>>

(* lease(): one UPDATE whose WHERE clause is the whole condition. *)
MayLeaseReleased(p, now) ==      \* faulty: an abandoned lease never ends
  leaseUntil[p] = 0 /\ rows[p].state # "ISSUED"

MayLease(p, now) == leaseUntil[p] <= now /\ rows[p].state # "ISSUED"

Lease(p, w, now) ==
  /\ owner' = [owner EXCEPT ![p] = w]
  /\ leaseUntil' = [leaseUntil EXCEPT ![p] = now + LeaseTime]
  /\ UNCHANGED <<rows, resultBytes>>

(* The fence in front of every write of a worker: LEASE_LOST unless w still *)
(* owns the row.                                                            *)
OwnsAnyway(p, w) == TRUE         \* faulty: no fence

Owns(p, w) == owner[p] = w

Update(p, row) ==
  /\ rows' = [rows EXCEPT ![p] = row]
  /\ UNCHANGED <<owner, leaseUntil, resultBytes>>

(* finish(): result, ISSUED state and the end of the lease in one commit. *)
MayFinish(p, w) == Owns(p, w) /\ rows[p].state = "SETTLED"

FinishBytesOnly(p, bytes) ==     \* faulty: the state is left behind
  /\ resultBytes' = [resultBytes EXCEPT ![p] = bytes]
  /\ owner' = [owner EXCEPT ![p] = None]
  /\ leaseUntil' = [leaseUntil EXCEPT ![p] = 0]
  /\ UNCHANGED rows

Finish(p, bytes) ==
  /\ rows' = [rows EXCEPT ![p].state = "ISSUED"]
  /\ resultBytes' = [resultBytes EXCEPT ![p] = bytes]
  /\ owner' = [owner EXCEPT ![p] = None]
  /\ leaseUntil' = [leaseUntil EXCEPT ![p] = 0]

(* release(): only the owner's own lease, silently nothing otherwise. *)
UnleaseToNull(p, w) ==           \* faulty: lease_until cleared to NULL
  /\ owner' = IF Owns(p, w) THEN [owner EXCEPT ![p] = None] ELSE owner
  /\ leaseUntil' = IF Owns(p, w) THEN [leaseUntil EXCEPT ![p] = None]
                                 ELSE leaseUntil
  /\ UNCHANGED <<rows, resultBytes>>

Unlease(p, w) ==
  /\ owner' = IF Owns(p, w) THEN [owner EXCEPT ![p] = None] ELSE owner
  /\ leaseUntil' = IF Owns(p, w) THEN [leaseUntil EXCEPT ![p] = 0]
                                 ELSE leaseUntil
  /\ UNCHANGED <<rows, resultBytes>>
=============================================================================
