------------------------------ MODULE Settlement ------------------------------
(***************************************************************************)
(* The paid purchase, from POST /v1/evaluations to the issued result:      *)
(* evaluateRoute and purchaseRoute (src/src/public-machine.mjs),           *)
(* StandingService.progress (src/src/service.mjs), the store and the world *)
(* around them: the facilitator, the token contract, the clock, crashes.   *)
(*                                                                         *)
(* Every await of the code that reaches the database or the payment rail   *)
(* ends a step, so any number of requests interleave at those points.  A   *)
(* worker is one HTTP request being served: pc says which await it is at,  *)
(* job holds its local variables (the `now' it captured, the `row' it last *)
(* saw).  A crash forgets both and leaves the store as it is.              *)
(***************************************************************************)
EXTENDS PurchaseStore

CONSTANTS
  RetryDelay,   \* seconds before settle() may be called again: 30
  QuoteLife,    \* seconds a quote is open: 300
  ValidBefore,  \* validBefore of the EIP-3009 authorizations
  TrustUntil,   \* valid_until of the trust bundle frozen into every row
  MaxTime       \* bound: the clock stops here

ASSUME TimeAssumption ==
  {RetryDelay, QuoteLife, ValidBefore, TrustUntil, MaxTime} \subseteq Nat

VARIABLES
  clock,       \* the service's clock, in seconds
  chain,       \* the transfer of each payment: none, mined or final
  submitted,   \* for each payment, the purchases settle() was called for
  pc,          \* where each worker is
  job          \* the local variables of each worker

worldVars == <<clock, chain, submitted>>
workerVars == <<pc, job>>
vars == <<storeVars, worldVars, workerVars>>

(* The awaits of evaluateRoute, then those of progress(). *)
Places == {"idle", "get", "quote", "verify", "reserve",
           "lease", "load", "mark", "search", "cursor", "attempt", "call",
           "wait", "discovery", "hint", "confirm", "lastCursor", "settled",
           "finish", "release"}

(* The awaits a worker reaches only after its lease was granted. *)
Leased == {"load", "mark", "search", "cursor", "attempt", "call", "wait",
           "discovery", "hint", "confirm", "lastCursor", "settled", "finish",
           "release"}

Job == [purchase: Purchases \cup {None}, request: Requests \cup {None},
        tender: Payments \cup {None}, now: Nat, row: Row, hash: Hints]

NoJob == [purchase |-> None, request |-> None, tender |-> None, now |-> 0,
          row |-> AbsentRow, hash |-> "none"]

ChainStates == {"none", "mined", "final"}

WorldTypeOK ==
  /\ clock \in Nat
  /\ chain \in [Payments -> ChainStates]
  /\ submitted \in [Payments -> SUBSET Purchases]

WorkerTypeOK ==
  /\ pc \in [Workers -> Places]
  /\ job \in [Workers -> Job]
  /\ \A w \in Workers : pc[w] # "idle" => job[w].purchase \in Purchases

TypeOK == StoreTypeOK /\ WorldTypeOK /\ WorkerTypeOK

Init ==
  /\ StoreInit
  /\ clock = 0
  /\ chain = [a \in Payments |-> "none"]
  /\ submitted = [a \in Payments |-> {}]
  /\ pc = [w \in Workers |-> "idle"]
  /\ job = [w \in Workers |-> NoJob]

Mine(w) == job[w].purchase

(* The answer goes out and the request's local variables are gone. *)
Answer(w) ==
  /\ pc' = [pc EXCEPT ![w] = "idle"]
  /\ job' = [job EXCEPT ![w] = NoJob]

Goto(w, place) ==
  /\ pc' = [pc EXCEPT ![w] = place]
  /\ UNCHANGED job

GotoWith(w, place, row) ==
  /\ pc' = [pc EXCEPT ![w] = place]
  /\ job' = [job EXCEPT ![w].row = row]

-----------------------------------------------------------------------------
(* Entering progress(initial): an ISSUED row is answered at once, any other *)
(* starts by reading the clock, once for the whole call.                    *)
StartProgress(w, p, row) ==
  IF row.state = "ISSUED"
    THEN Answer(w)
    ELSE /\ pc' = [pc EXCEPT ![w] = "lease"]
         /\ job' = [job EXCEPT ![w] = [NoJob EXCEPT !.purchase = p,
                                                   !.now = clock]]

(* A purchase already bound goes on only with its own payment, or none. *)
Continue(w, row) ==
  \/ job[w].tender \in {None, row.payment} /\ StartProgress(w, Mine(w), row)
  \/ job[w].tender \notin {None, row.payment} /\ Answer(w)

Conflicts(w, row) == row.state # "ABSENT" /\ row.request # job[w].request

(* POST /v1/evaluations with a submission and perhaps a signed payment. *)
Arrive(w) ==
  /\ pc[w] = "idle"
  /\ \E p \in Purchases, r \in Requests, a \in Payments \cup {None} :
       job' = [job EXCEPT ![w] = [NoJob EXCEPT !.purchase = p, !.request = r,
                                               !.tender = a]]
  /\ pc' = [pc EXCEPT ![w] = "get"]
  /\ UNCHANGED <<storeVars, worldVars>>

EvaluateGet(w) ==
  LET row == rows[Mine(w)] IN
  /\ pc[w] = "get"
  /\ \/ Conflicts(w, row) /\ Answer(w)
     \/ row.state = "ABSENT" /\ Goto(w, "quote")
     \/ row.state = "QUOTED" /\ ~Conflicts(w, row) /\ Goto(w, "quote")
     \/ /\ row.state \notin {"ABSENT", "QUOTED"}
        /\ ~Conflicts(w, row)
        /\ Continue(w, row)
  /\ UNCHANGED <<storeVars, worldVars>>

(* Trust is validated, a quote is drawn up and stored unless one is there.  *)
(* Whatever row the store hands back decides what happens next; without a   *)
(* payment, or when it comes too late, the answer is a 402 or a Fault.      *)
QuoteUntil == IF clock + QuoteLife < TrustUntil THEN clock + QuoteLife
                                                ELSE TrustUntil

Payable(w, row) == job[w].tender # None /\ clock < row.expires
                                        /\ clock < ValidBefore

EvaluateQuote(w) ==
  LET p   == Mine(w)
      row == IF rows[p].state = "ABSENT"
               THEN QuotedRow(job[w].request, QuoteUntil) ELSE rows[p]
  IN
  /\ pc[w] = "quote"
  /\ \/ /\ clock < TrustUntil
        /\ Quote(p, job[w].request, QuoteUntil)
        /\ \/ Conflicts(w, row) /\ Answer(w)
           \/ /\ ~Conflicts(w, row)
              /\ row.state # "QUOTED"
              /\ Continue(w, row)
           \/ /\ ~Conflicts(w, row)
              /\ row.state = "QUOTED"
              /\ IF Payable(w, row) THEN GotoWith(w, "verify", row)
                                    ELSE Answer(w)
     \/ clock >= TrustUntil /\ Answer(w) /\ UNCHANGED storeVars
  /\ UNCHANGED worldVars

(* startBlock() and the facilitator's verify(); then the clock is read again *)
(* and the payment validated once more against the quote.                    *)
EvaluateVerify(w) ==
  /\ pc[w] = "verify"
  /\ \/ /\ Payable(w, job[w].row)
        /\ pc' = [pc EXCEPT ![w] = "reserve"]
        /\ job' = [job EXCEPT ![w].now = clock]
     \/ Answer(w)                        \* refused, unreachable or too late
  /\ UNCHANGED <<storeVars, worldVars>>

EvaluateReserve(w) ==
  LET p == Mine(w)  a == job[w].tender IN
  /\ pc[w] = "reserve"
  /\ \/ /\ MayReserve(p, job[w].request, a)
        /\ Reserve(p, a, job[w].now)
        /\ StartProgress(w, p, ReservedRow(p, a, job[w].now))
     \/ ~MayReserve(p, job[w].request, a) /\ Answer(w) /\ UNCHANGED storeVars
  /\ UNCHANGED worldVars

(* POST /v1/purchases/{id}/recover: no payment, only a row already bound.    *)
(* (For an ISSUED row it answers with the stored bytes and changes nothing.) *)
Recover(w, p) ==
  /\ pc[w] = "idle"
  /\ rows[p].state \notin {"ABSENT", "QUOTED", "ISSUED"}
  /\ StartProgress(w, p, rows[p])
  /\ UNCHANGED <<storeVars, worldVars>>

-----------------------------------------------------------------------------
(* progress(): everything after the lease is inside try ... finally, so an   *)
(* error anywhere goes to "release".                                         *)
TakeLease(w) ==
  LET p == Mine(w) IN
  /\ pc[w] = "lease"
  /\ \/ /\ MayLease(p, job[w].now)
        /\ Lease(p, w, job[w].now)
        /\ Goto(w, "load")
     \/ ~MayLease(p, job[w].now) /\ Answer(w) /\ UNCHANGED storeVars
  /\ UNCHANGED worldVars

(* Where progress() goes on with the row it has just read under its lease. An *)
(* ISSUED row, finished by a worker that took over, cannot be assembled.      *)
ResumeUnmarked(row) ==      \* faulty: SETTLING is not committed first
  CASE row.state \in {"PREPARED", "SETTLING"} -> "search"
    [] row.state = "SETTLED" -> "finish"
    [] OTHER                 -> "release"

ResumeRestamping(row) ==    \* faulty: recovery proves a SETTLED row again
  CASE row.state = "PREPARED" -> "mark"
    [] row.state \in {"SETTLING", "SETTLED"} -> "search"
    [] OTHER                  -> "release"

Resume(row) ==
  CASE row.state = "PREPARED" -> "mark"
    [] row.state = "SETTLING" -> "search"
    [] row.state = "SETTLED"  -> "finish"
    [] OTHER                  -> "release"

Load(w) ==
  /\ pc[w] = "load"
  /\ GotoWith(w, Resume(rows[Mine(w)]), rows[Mine(w)])
  /\ UNCHANGED <<storeVars, worldVars>>

(* A fenced store.update(): the row is rewritten and becomes the local one, *)
(* or the lease is lost and nothing is written.                             *)
FencedUpdate(w, from, row, place) ==
  /\ pc[w] = from
  /\ \/ /\ Owns(Mine(w), w)
        /\ Update(Mine(w), row)
        /\ GotoWith(w, place, row)
     \/ ~Owns(Mine(w), w) /\ Goto(w, "release") /\ UNCHANGED storeVars
  /\ UNCHANGED worldVars

MarkSettling(w) ==
  FencedUpdate(w, "mark", [rows[Mine(w)] EXCEPT !.state = "SETTLING"], "search")

(* rail.reconcile(): evidence only for a finalized transfer of the payment in *)
(* the row; otherwise nothing, or a scan that must be continued from a cursor *)
(* (ChainScan has the detail), or an RPC error.                               *)
ProvenWhenMined(a) == chain[a] # "none"   \* faulty: finality not awaited

Proven(a) == chain[a] = "final"

Reconcile(w, from, scanned, nothing) ==
  /\ pc[w] = from
  /\ \/ Proven(job[w].row.payment) /\ Goto(w, "settled")
     \/ Goto(w, scanned)
     \/ Goto(w, nothing)
     \/ Goto(w, "release")
  /\ UNCHANGED <<storeVars, worldVars>>

Search(w)  == Reconcile(w, "search", "cursor", "attempt")
Confirm(w) == Reconcile(w, "confirm", "lastCursor", "release")

SaveCursor(w)     == FencedUpdate(w, "cursor", rows[Mine(w)], "attempt")
SaveLastCursor(w) == FencedUpdate(w, "lastCursor", rows[Mine(w)], "release")

(* The conditions under which settle() is called; the attempt is recorded *)
(* before the call.                                                       *)
MayAttempt(w) ==
  /\ job[w].row.hint = "none"
  /\ job[w].now >= job[w].row.nextAttempt
  /\ job[w].now < ValidBefore

Attempt(w) ==
  \/ /\ MayAttempt(w)
     /\ FencedUpdate(w, "attempt",
          [rows[Mine(w)] EXCEPT !.nextAttempt = job[w].now + RetryDelay],
          "call")
  \/ /\ pc[w] = "attempt"
     /\ ~MayAttempt(w)
     /\ Goto(w, "release")                  \* 202 RECONCILING
     /\ UNCHANGED <<storeVars, worldVars>>

(* rail.settle(): the request reaches the facilitator ... *)
CallSettle(w) ==
  /\ pc[w] = "call"
  /\ submitted' = [submitted EXCEPT ![job[w].row.payment] = @ \cup {Mine(w)}]
  /\ Goto(w, "wait")
  /\ UNCHANGED <<storeVars, clock, chain>>

(* ... and its answer, if one comes back, may name a transaction: the one     *)
(* that carries the transfer, or one that reverted or is dropped. Whether the *)
(* answer says success is not looked at.                                      *)
SettleAnswer(w) ==
  /\ pc[w] = "wait"
  /\ \/ Goto(w, "confirm")
     \/ \E hash \in Hints :
          /\ pc' = [pc EXCEPT ![w] = "discovery"]
          /\ job' = [job EXCEPT ![w].hash = hash]
  /\ UNCHANGED <<storeVars, worldVars>>

RecordDiscovery(w) ==
  FencedUpdate(w, "discovery", rows[Mine(w)],
               IF job[w].hash = "none" THEN "confirm" ELSE "hint")

RecordHint(w) ==
  FencedUpdate(w, "hint", [rows[Mine(w)] EXCEPT !.hint = job[w].hash],
               "confirm")

RecordSettled(w) ==
  FencedUpdate(w, "settled",
    [rows[Mine(w)] EXCEPT !.state = "SETTLED",
                          !.settlement = job[w].row.payment,
                          !.issuedAt = job[w].now],
    "finish")

(* assembleResult() from the local row, then store.finish(). The trust bundle *)
(* frozen into the row must have been valid at issued_at.                     *)
Assembles(row) == row.state = "SETTLED" /\ row.issuedAt < TrustUntil

FinishResult(w) ==
  LET p == Mine(w) IN
  /\ pc[w] = "finish"
  /\ \/ /\ Assembles(job[w].row)
        /\ resultBytes[p] = None
        /\ MayFinish(p, w)
        /\ Finish(p, ResultOf(job[w].row))
     \/ /\ \/ ~Assembles(job[w].row)
           \/ resultBytes[p] # None
           \/ ~MayFinish(p, w)
        /\ UNCHANGED storeVars
  /\ Goto(w, "release")
  /\ UNCHANGED worldVars

Release(w) ==
  /\ pc[w] = "release"
  /\ Unlease(Mine(w), w)
  /\ Answer(w)
  /\ UNCHANGED worldVars

-----------------------------------------------------------------------------
(* The process dies at any await; nothing is released. The bound on the clock *)
(* leaves time for the abandoned lease to run out.                            *)
Crash(w) ==
  /\ pc[w] # "idle"
  /\ clock + LeaseTime <= MaxTime
  /\ Answer(w)
  /\ UNCHANGED <<storeVars, worldVars>>

Tick ==
  /\ clock < MaxTime
  /\ clock' = clock + 1
  /\ UNCHANGED <<storeVars, chain, submitted, workerVars>>

(* The facilitator broadcasts an authorization it was given, perhaps long     *)
(* after the HTTP call gave up; the token takes each nonce once and only      *)
(* before validBefore. A block may be reorganized away until it is final.     *)
Transfer(a) ==
  /\ submitted[a] # {}
  /\ chain[a] = "none"
  /\ clock < ValidBefore
  /\ chain' = [chain EXCEPT ![a] = "mined"]
  /\ UNCHANGED <<storeVars, clock, submitted, workerVars>>

Reorganize(a) ==
  /\ chain[a] = "mined"
  /\ chain' = [chain EXCEPT ![a] = "none"]
  /\ UNCHANGED <<storeVars, clock, submitted, workerVars>>

Finalize(a) ==
  /\ chain[a] = "mined"
  /\ chain' = [chain EXCEPT ![a] = "final"]
  /\ UNCHANGED <<storeVars, clock, submitted, workerVars>>

Evaluation(w) ==
  \/ Arrive(w) \/ EvaluateGet(w) \/ EvaluateQuote(w) \/ EvaluateVerify(w)
  \/ EvaluateReserve(w)

Progress(w) ==
  \/ TakeLease(w) \/ Load(w) \/ MarkSettling(w)
  \/ Search(w) \/ SaveCursor(w) \/ Attempt(w) \/ CallSettle(w)
  \/ SettleAnswer(w) \/ RecordDiscovery(w) \/ RecordHint(w)
  \/ Confirm(w) \/ SaveLastCursor(w) \/ RecordSettled(w)
  \/ FinishResult(w) \/ Release(w)

World(a) == Transfer(a) \/ Reorganize(a) \/ Finalize(a)

Next ==
  \/ \E w \in Workers : Evaluation(w) \/ Progress(w) \/ Crash(w)
  \/ \E w \in Workers, p \in Purchases : Recover(w, p)
  \/ \E a \in Payments : World(a)
  \/ Tick

Spec == Init /\ [][Next]_vars

-----------------------------------------------------------------------------
(* settle() is only ever called for the one payment a purchase is bound to,  *)
(* and no payment is spent for two purchases, however many requests with     *)
(* different payments race for reserve() (store.mjs, PURCHASE_ALREADY_BOUND  *)
(* and PAYMENT_REPLAY): a purchase is charged at most once.                  *)
ChargedOnce ==
  \A p, q \in Purchases, a, b \in Payments :
    p \in submitted[a] /\ q \in submitted[b] => (p = q <=> a = b)

(* Before an authorization leaves for the facilitator, the row that can find *)
(* the charge again is durable: it names the payment and is past PREPARED    *)
(* (service.mjs: SETTLING is committed before rail.settle).                  *)
ChargeIsJournaled ==
  \A p \in Purchases, a \in Payments :
    p \in submitted[a] =>
      /\ rows[p].payment = a
      /\ rows[p].state \in {"SETTLING", "SETTLED", "ISSUED"}

(* A purchase is SETTLED or ISSUED only for a finalized transfer of its own  *)
(* payment, whatever the facilitator said and whatever the chain undid.      *)
SettledOnlyWhenFinal ==
  \A p \in Purchases :
    rows[p].state \in {"SETTLED", "ISSUED"} =>
      /\ rows[p].settlement = rows[p].payment
      /\ \E a \in Payments : rows[p].payment = a /\ chain[a] = "final"

(* The fence works: while a worker owns the lease, the local copy of the row *)
(* it decides from is the durable row, although workers whose lease ran out  *)
(* are still running and about to write.                                     *)
LocalRowIsDurable ==
  \A w \in Workers :
    pc[w] \in Leased \ {"load", "release"} /\ owner[Mine(w)] = w =>
      job[w].row = rows[Mine(w)]

(* The bytes a buyer is given and the row they came from never part: a late  *)
(* worker changes neither (store.finish, store.update).                      *)
ResultMatchesRow ==
  \A p \in Purchases :
    /\ rows[p].state = "ISSUED" <=> resultBytes[p] # None
    /\ resultBytes[p] # None => resultBytes[p] = ResultOf(rows[p])

(* QUOTED, PREPARED, SETTLING, SETTLED, ISSUED. *)
Successor == [ABSENT |-> "QUOTED", QUOTED |-> "PREPARED",
              PREPARED |-> "SETTLING", SETTLING |-> "SETTLED",
              SETTLED |-> "ISSUED"]

(* What a purchase commits to: the submission once quoted, the payment once   *)
(* bound, the evidence and issued_at once settled.                           *)
Committed(old, new) ==
  /\ old.request # None => new.request = old.request
  /\ old.payment # None => new.payment = old.payment
  /\ old.settlement # None => /\ new.settlement = old.settlement
                              /\ new.issuedAt = old.issuedAt

(* A row only advances, whoever writes it: no step takes it back or past a   *)
(* state, and what it committed to and the result it was given stay. A crash *)
(* between SETTLED and ISSUED therefore yields the same result when it is    *)
(* recovered (store.update, store.finish, progress).                         *)
RowsOnlyAdvance ==
  [][\A p \in Purchases :
       /\ rows[p].state # rows'[p].state =>
            /\ rows[p].state # "ISSUED"
            /\ rows'[p].state = Successor[rows[p].state]
       /\ Committed(rows[p], rows'[p])
       /\ resultBytes[p] # None => resultBytes'[p] = resultBytes[p]]_storeVars

-----------------------------------------------------------------------------
(* Seen from outside, all of this is PurchaseLedger: one payment per         *)
(* purchase, one transfer per payment, one result, in that order.            *)
Ledger == INSTANCE PurchaseLedger WITH
  bound  <- [p \in Purchases |-> rows[p].payment],
  paid   <- {a \in Payments : chain[a] = "final"},
  served <- [p \in Purchases |->
               IF resultBytes[p] = None THEN None ELSE resultBytes[p].payment]

LedgerSpec == Ledger!LedgerSpec

-----------------------------------------------------------------------------
(* Fairness. The server goes on serving a request it has not dropped; a      *)
(* buyer keeps asking for recovery; time passes; a mined block is sooner or  *)
(* later final or gone. Nobody promises that a payment is ever transferred.  *)
(* A reconciliation may fail any number of times, but not forever although   *)
(* the transfer is final (ChainScan says when the rail lives up to that).    *)
FindsProof(w) ==
  \/ Search(w) /\ pc'[w] = "settled"
  \/ Confirm(w) /\ pc'[w] = "settled"

Fairness ==
  /\ WF_vars(Tick)
  /\ \A a \in Payments : WF_vars(Finalize(a) \/ Reorganize(a))
  /\ \A w \in Workers :
       /\ WF_vars(Progress(w))
       /\ WF_vars(Evaluation(w) /\ pc[w] # "idle")
       /\ SF_vars(FindsProof(w))
       /\ \A p \in Purchases : SF_vars(Recover(w, p))

FairSpec == Spec /\ Fairness

(* A buyer whose money has finally moved gets the result, through any number *)
(* of crashes, lost leases and lost answers, as long as the settlement is    *)
(* noticed while the trust bundle frozen into the row is valid. Otherwise    *)
(* the row stays SETTLED for good: nothing else can keep a result back.      *)
ChargedIsServed ==
  \A p \in Purchases, a \in Payments :
    p \in submitted[a] /\ chain[a] = "final" ~>
      \/ rows[p].state = "ISSUED"
      \/ rows[p].state = "SETTLED" /\ rows[p].issuedAt >= TrustUntil
=============================================================================
