--------------------------- MODULE SettlementProofs ---------------------------
(***************************************************************************)
(* Proofs about Settlement, for any number of workers, purchases, requests *)
(* and payments and for all values of the time constants.                  *)
(***************************************************************************)
EXTENDS SettlementInv, TLAPS

(* Rows are records; these two facts save every leaf from unfolding Row. *)
LEMMA AbsentRowType == AbsentRow \in Row
  BY DEF AbsentRow, Row, States, Hints

LEMMA NoJobType == NoJob \in Job
  BY AbsentRowType DEF NoJob, Job, Hints

-----------------------------------------------------------------------------
(* Type correctness. *)

LEMMA AnswerType ==
  ASSUME WorkerTypeOK, NEW w \in Workers, Answer(w)
  PROVE  WorkerTypeOK'
  BY NoJobType DEF WorkerTypeOK, Answer, Places

LEMMA GotoType ==
  ASSUME WorkerTypeOK, NEW w \in Workers, pc[w] # "idle",
         NEW place \in Places, Goto(w, place)
  PROVE  WorkerTypeOK'
  BY DEF WorkerTypeOK, Goto

LEMMA GotoWithType ==
  ASSUME WorkerTypeOK, NEW w \in Workers, pc[w] # "idle",
         NEW place \in Places, NEW row \in Row, GotoWith(w, place, row)
  PROVE  WorkerTypeOK'
  BY DEF WorkerTypeOK, GotoWith, Job

LEMMA StartProgressType ==
  ASSUME WorldTypeOK, WorkerTypeOK, NEW w \in Workers, NEW p \in Purchases,
         NEW row \in Row, StartProgress(w, p, row)
  PROVE  WorkerTypeOK'
  <1>1. CASE row.state = "ISSUED"
    BY <1>1, AnswerType DEF StartProgress
  <1>2. CASE row.state # "ISSUED"
    <2> DEFINE started == [NoJob EXCEPT !.purchase = p, !.now = clock]
    <2>1. started \in Job /\ started.purchase = p
      BY NoJobType DEF Job, NoJob, WorldTypeOK
    <2>2. /\ pc' = [pc EXCEPT ![w] = "lease"]
          /\ job' = [job EXCEPT ![w] = started]
      BY <1>2 DEF StartProgress
    <2> HIDE DEF started
    <2> QED BY <2>1, <2>2 DEF WorkerTypeOK, Places
  <1> QED BY <1>1, <1>2

LEMMA ContinueType ==
  ASSUME WorldTypeOK, WorkerTypeOK, NEW w \in Workers, pc[w] # "idle",
         NEW row \in Row, Continue(w, row)
  PROVE  WorkerTypeOK'
  BY StartProgressType, AnswerType DEF Continue, Mine, WorkerTypeOK

LEMMA FencedUpdateType ==
  ASSUME TypeOK, NEW w \in Workers, NEW from \in Places \ {"idle"},
         NEW row \in Row, NEW place \in Places,
         FencedUpdate(w, from, row, place)
  PROVE  TypeOK'
  <1>1. pc[w] # "idle" /\ Mine(w) \in Purchases
    BY DEF FencedUpdate, TypeOK, WorkerTypeOK, Mine
  <1>2. WorldTypeOK'
    BY DEF FencedUpdate, worldVars, TypeOK, WorldTypeOK
  <1>3. CASE Update(Mine(w), row) /\ GotoWith(w, place, row)
    <2>1. StoreTypeOK'
      BY <1>1, <1>3 DEF Update, TypeOK, StoreTypeOK
    <2>2. WorkerTypeOK'
      BY <1>1, <1>3, GotoWithType DEF TypeOK
    <2> QED BY <1>2, <2>1, <2>2 DEF TypeOK
  <1>4. CASE Goto(w, "release") /\ UNCHANGED storeVars
    <2>1. StoreTypeOK'
      BY <1>4 DEF storeVars, TypeOK, StoreTypeOK
    <2>2. WorkerTypeOK'
      BY <1>1, <1>4, GotoType DEF TypeOK, Places
    <2> QED BY <1>2, <2>1, <2>2 DEF TypeOK
  <1> QED BY <1>3, <1>4 DEF FencedUpdate

LEMMA StoreUnchangedType ==
  ASSUME TypeOK, UNCHANGED storeVars, UNCHANGED worldVars, WorkerTypeOK'
  PROVE  TypeOK'
  BY DEF TypeOK, StoreTypeOK, WorldTypeOK, storeVars, worldVars

LEMMA QuotedRowType ==
  ASSUME NEW r \in Requests \cup {None}, NEW until \in Nat
  PROVE  QuotedRow(r, until) \in Row
  BY AbsentRowType DEF QuotedRow, Row, States

LEMMA QuoteType ==
  ASSUME StoreTypeOK, NEW p \in Purchases, NEW r \in Requests \cup {None},
         NEW until \in Nat, Quote(p, r, until)
  PROVE  StoreTypeOK'
  BY QuotedRowType DEF StoreTypeOK, Quote

LEMMA ReservedRowType ==
  ASSUME StoreTypeOK, NEW p \in Purchases, NEW a \in Payments \cup {None},
         NEW now \in Nat
  PROVE  ReservedRow(p, a, now) \in Row
  <1>1. rows[p] \in Row
    BY DEF StoreTypeOK
  <1> QED BY <1>1 DEF ReservedRow, Row, States

LEMMA ResultOfType ==
  ASSUME NEW row \in Row PROVE ResultOf(row) \in Result
  BY DEF ResultOf, Result, Row

LEMMA EvaluationType ==
  ASSUME TypeOK, NEW w \in Workers, Evaluation(w)
  PROVE  TypeOK'
  <1> USE DEF TypeOK
  <1>m. pc[w] # "idle" => /\ Mine(w) \in Purchases
                          /\ rows[Mine(w)] \in Row
    BY DEF WorkerTypeOK, StoreTypeOK, Mine
  <1>1. CASE Arrive(w)
    <2>1. PICK p \in Purchases, r \in Requests, a \in Payments \cup {None} :
            job' = [job EXCEPT ![w] = [NoJob EXCEPT !.purchase = p,
                                         !.request = r, !.tender = a]]
      BY <1>1 DEF Arrive
    <2> DEFINE arrived == [NoJob EXCEPT !.purchase = p, !.request = r,
                                        !.tender = a]
    <2>2. arrived \in Job /\ arrived.purchase = p
      BY NoJobType DEF Job, NoJob
    <2>3. /\ pc' = [pc EXCEPT ![w] = "get"]
          /\ job' = [job EXCEPT ![w] = arrived]
      BY <1>1, <2>1 DEF Arrive
    <2> HIDE DEF arrived
    <2>4. WorkerTypeOK'
      BY <2>2, <2>3 DEF WorkerTypeOK, Places
    <2> QED BY <2>4, <1>1, StoreUnchangedType DEF Arrive
  <1>2. CASE EvaluateGet(w)
    <2>1. \/ Answer(w)
          \/ Goto(w, "quote")
          \/ Continue(w, rows[Mine(w)])
      BY <1>2 DEF EvaluateGet
    <2>2. pc[w] # "idle"
      BY <1>2 DEF EvaluateGet
    <2>3. WorkerTypeOK'
      BY <2>1, <2>2, <1>m, AnswerType, GotoType, ContinueType DEF Places
    <2> QED BY <2>3, <1>2, StoreUnchangedType DEF EvaluateGet
  <1>3. CASE EvaluateQuote(w)
    <2> DEFINE p   == Mine(w)
               row == IF rows[p].state = "ABSENT"
                        THEN QuotedRow(job[w].request, QuoteUntil)
                        ELSE rows[p]
    <2>1. pc[w] # "idle" /\ UNCHANGED worldVars
      BY <1>3 DEF EvaluateQuote
    <2>2. QuoteUntil \in Nat /\ job[w].request \in Requests \cup {None}
      BY TimeAssumption DEF QuoteUntil, WorldTypeOK, WorkerTypeOK, Job
    <2>3. row \in Row
      BY <2>1, <2>2, <1>m, QuotedRowType
    <2>4. /\ Quote(p, job[w].request, QuoteUntil) \/ UNCHANGED storeVars
          /\ \/ Answer(w)
             \/ Continue(w, row)
             \/ GotoWith(w, "verify", row)
      BY <1>3 DEF EvaluateQuote
    <2>5. StoreTypeOK'
      BY <2>1, <2>2, <2>4, <1>m, QuoteType DEF StoreTypeOK, storeVars
    <2>6. WorkerTypeOK'
      <3> HIDE DEF row
      <3> QED BY <2>1, <2>3, <2>4, AnswerType, ContinueType, GotoWithType
              DEF Places
    <2> QED BY <2>1, <2>5, <2>6 DEF worldVars, WorldTypeOK
  <1>4. CASE EvaluateVerify(w)
    <2>1. CASE /\ pc' = [pc EXCEPT ![w] = "reserve"]
               /\ job' = [job EXCEPT ![w].now = clock]
      BY <1>4, <2>1, StoreUnchangedType
      DEF EvaluateVerify, WorkerTypeOK, Places, Job, WorldTypeOK
    <2>2. CASE Answer(w)
      BY <1>4, <2>2, AnswerType, StoreUnchangedType DEF EvaluateVerify
    <2> QED BY <1>4, <2>1, <2>2 DEF EvaluateVerify
  <1>5. CASE EvaluateReserve(w)
    <2> DEFINE p   == Mine(w)
               row == ReservedRow(p, job[w].tender, job[w].now)
    <2>1. pc[w] # "idle" /\ UNCHANGED worldVars
      BY <1>5 DEF EvaluateReserve
    <2>2. row \in Row
      BY <2>1, <1>m, ReservedRowType DEF WorkerTypeOK, Job
    <2>3. CASE Reserve(p, job[w].tender, job[w].now) /\ StartProgress(w, p, row)
      <3>1. StoreTypeOK'
        <4>1. rows' = [rows EXCEPT ![p] = row]
          BY <2>3 DEF Reserve
        <4> HIDE DEF row
        <4> QED BY <4>1, <2>2, <2>3 DEF Reserve, StoreTypeOK
      <3>2. WorkerTypeOK'
        <4> HIDE DEF row
        <4> QED BY <2>1, <2>2, <2>3, <1>m, StartProgressType
      <3> QED BY <2>1, <3>1, <3>2 DEF worldVars, WorldTypeOK
    <2>4. CASE Answer(w) /\ UNCHANGED storeVars
      BY <2>1, <2>4, AnswerType, StoreUnchangedType
    <2> QED BY <1>5, <2>3, <2>4 DEF EvaluateReserve
  <1> QED BY <1>1, <1>2, <1>3, <1>4, <1>5 DEF Evaluation

LEMMA ProgressType ==
  ASSUME TypeOK, NEW w \in Workers, Progress(w)
  PROVE  TypeOK'
  <1> USE DEF TypeOK
  <1>m. pc[w] # "idle" => /\ Mine(w) \in Purchases
                          /\ rows[Mine(w)] \in Row
                          /\ job[w] \in Job
    BY DEF WorkerTypeOK, StoreTypeOK, Mine
  <1>1. CASE TakeLease(w)
    <2>1. WorkerTypeOK'
      BY <1>1, AnswerType, GotoType DEF TakeLease, Places
    <2>2. StoreTypeOK'
      BY <1>1, <1>m, StoreAssumption
      DEF TakeLease, Lease, StoreTypeOK, storeVars, Job
    <2> QED BY <1>1, <2>1, <2>2 DEF TakeLease, worldVars, WorldTypeOK
  <1>2. CASE Load(w)
    <2>1. Resume(rows[Mine(w)]) \in Places
      BY DEF Resume, Places
    <2>2. WorkerTypeOK'
      BY <1>2, <1>m, <2>1, GotoWithType DEF Load
    <2> QED BY <1>2, <2>2, StoreUnchangedType DEF Load
  <1>3. CASE MarkSettling(w)
    BY <1>3, <1>m, FencedUpdateType
    DEF MarkSettling, FencedUpdate, Places, Row, States
  <1>4. CASE Search(w) \/ Confirm(w)
    <2>1. WorkerTypeOK' /\ UNCHANGED <<storeVars, worldVars>>
      BY <1>4, GotoType DEF Search, Confirm, Reconcile, Places
    <2> QED BY <2>1, StoreUnchangedType
  <1>5. CASE SaveCursor(w) \/ SaveLastCursor(w)
    BY <1>5, <1>m, FencedUpdateType
    DEF SaveCursor, SaveLastCursor, FencedUpdate, Places
  <1>6. CASE Attempt(w)
    <2>1. CASE /\ pc[w] = "attempt"
               /\ Goto(w, "release")
               /\ UNCHANGED <<storeVars, worldVars>>
      BY <2>1, GotoType, StoreUnchangedType DEF Places
    <2> DEFINE tried == [rows[Mine(w)] EXCEPT
                           !.nextAttempt = job[w].now + RetryDelay]
    <2>2. CASE FencedUpdate(w, "attempt", tried, "call")
      <3>1. tried \in Row
        BY <2>2, <1>m, TimeAssumption DEF FencedUpdate, Row, Job
      <3> HIDE DEF tried
      <3> QED BY <2>2, <3>1, FencedUpdateType DEF Places
    <2> QED BY <1>6, <2>1, <2>2 DEF Attempt
  <1>7. CASE CallSettle(w)
    <2>1. WorkerTypeOK'
      BY <1>7, GotoType DEF CallSettle, Places
    <2>2. WorldTypeOK'
      BY <1>7, <1>m DEF CallSettle, WorldTypeOK
    <2>3. StoreTypeOK'
      BY <1>7 DEF CallSettle, StoreTypeOK, storeVars
    <2> QED BY <2>1, <2>2, <2>3
  <1>8. CASE SettleAnswer(w)
    <2>1. CASE Goto(w, "confirm")
      BY <1>8, <2>1, GotoType, StoreUnchangedType DEF SettleAnswer, Places
    <2>2. CASE \E hash \in Hints :
                 /\ pc' = [pc EXCEPT ![w] = "discovery"]
                 /\ job' = [job EXCEPT ![w].hash = hash]
      <3>1. WorkerTypeOK'
        BY <1>8, <2>2 DEF SettleAnswer, WorkerTypeOK, Places, Job
      <3> QED BY <3>1, <1>8, StoreUnchangedType DEF SettleAnswer
    <2> QED BY <1>8, <2>1, <2>2 DEF SettleAnswer
  <1>9. CASE RecordDiscovery(w)
    BY <1>9, <1>m, FencedUpdateType DEF RecordDiscovery, FencedUpdate, Places
  <1>10. CASE RecordHint(w)
    BY <1>10, <1>m, FencedUpdateType
    DEF RecordHint, FencedUpdate, Places, Row, Job
  <1>11. CASE RecordSettled(w)
    <2> DEFINE settled == [rows[Mine(w)] EXCEPT
                             !.state = "SETTLED",
                             !.settlement = job[w].row.payment,
                             !.issuedAt = job[w].now]
    <2>1. settled \in Row
      BY <1>11, <1>m DEF RecordSettled, FencedUpdate, Row, Job, States
    <2>2. FencedUpdate(w, "settled", settled, "finish")
      BY <1>11 DEF RecordSettled
    <2> HIDE DEF settled
    <2> QED BY <2>1, <2>2, FencedUpdateType DEF Places
  <1>12. CASE FinishResult(w)
    <2>1. WorkerTypeOK'
      BY <1>12, GotoType DEF FinishResult, Places
    <2>2. ResultOf(job[w].row) \in Result
      BY <1>12, <1>m, ResultOfType DEF FinishResult, Job
    <2> DEFINE p == Mine(w)
    <2>3. ASSUME Finish(p, ResultOf(job[w].row)), pc[w] = "finish"
          PROVE  StoreTypeOK'
      <3>1. [rows[p] EXCEPT !.state = "ISSUED"] \in Row
        BY <1>m, <2>3 DEF Row, States
      <3>2. rows' = [rows EXCEPT ![p] = [rows[p] EXCEPT !.state = "ISSUED"]]
        BY <2>3 DEF Finish
      <3>3. rows' \in [Purchases -> Row]
        BY <3>1, <3>2 DEF StoreTypeOK
      <3> QED BY <1>m, <2>2, <2>3, <3>3 DEF Finish, StoreTypeOK
    <2>4. UNCHANGED storeVars => StoreTypeOK'
      BY DEF StoreTypeOK, storeVars
    <2>5. StoreTypeOK'
      BY <1>12, <2>3, <2>4 DEF FinishResult
    <2> QED BY <1>12, <2>1, <2>5 DEF FinishResult, worldVars, WorldTypeOK
  <1>13. CASE Release(w)
    <2>1. WorkerTypeOK'
      BY <1>13, AnswerType DEF Release
    <2>2. StoreTypeOK'
      BY <1>13, <1>m DEF Release, Unlease, StoreTypeOK
    <2> QED BY <1>13, <2>1, <2>2 DEF Release, worldVars, WorldTypeOK
  <1> QED BY <1>1, <1>2, <1>3, <1>4, <1>5, <1>6, <1>7, <1>8, <1>9, <1>10,
             <1>11, <1>12, <1>13 DEF Progress

LEMMA InitType == Init => TypeOK
  BY AbsentRowType, NoJobType
  DEF Init, StoreInit, TypeOK, StoreTypeOK, WorldTypeOK, WorkerTypeOK,
      ChainStates, Places

LEMMA TypeStep == TypeOK /\ [Next]_vars => TypeOK'
  <1> SUFFICES ASSUME TypeOK, [Next]_vars PROVE TypeOK'
    OBVIOUS
  <1>1. ASSUME NEW w \in Workers, Evaluation(w) \/ Progress(w)
        PROVE  TypeOK'
    BY <1>1, EvaluationType, ProgressType
  <1>2. ASSUME NEW w \in Workers, Crash(w)
        PROVE  TypeOK'
    BY <1>2, AnswerType, StoreUnchangedType DEF Crash, TypeOK
  <1>3. ASSUME NEW w \in Workers, NEW p \in Purchases, Recover(w, p)
        PROVE  TypeOK'
    <2>1. WorkerTypeOK'
      BY <1>3, StartProgressType DEF Recover, TypeOK, StoreTypeOK
    <2> QED BY <1>3, <2>1, StoreUnchangedType DEF Recover
  <1>4. ASSUME NEW a \in Payments, World(a)
        PROVE  TypeOK'
    BY <1>4 DEF World, Transfer, Reorganize, Finalize, TypeOK, StoreTypeOK,
      WorldTypeOK, WorkerTypeOK, storeVars, workerVars, ChainStates
  <1>5. CASE Tick
    BY <1>5 DEF Tick, TypeOK, StoreTypeOK, WorldTypeOK, WorkerTypeOK,
      storeVars, workerVars
  <1>6. CASE UNCHANGED vars
    BY <1>6 DEF vars, storeVars, worldVars, workerVars, TypeOK, StoreTypeOK,
      WorldTypeOK, WorkerTypeOK
  <1> QED BY <1>1, <1>2, <1>3, <1>4, <1>5, <1>6 DEF Next

(* Every variable keeps its type: in particular a worker that is serving a *)
(* request always knows its purchase, and every row stays a record of the  *)
(* shape the handlers read (service.mjs, store.mjs).                       *)
THEOREM TypeCorrect == Spec => []TypeOK
  BY InitType, TypeStep, PTL DEF Spec

-----------------------------------------------------------------------------
(* The inductive invariant, by what a step changes. *)

Untouched(w) == \A v \in Workers \ {w} : pc'[v] = pc[v] /\ job'[v] = job[v]

(* A worker moves, and may take or give up a lease; the rows stay. *)
LEMMA LocalStep ==
  ASSUME IInv, TypeOK', NEW w \in Workers, Untouched(w),
         UNCHANGED <<rows, resultBytes>>, UNCHANGED worldVars,
         \A p \in Purchases : owner'[p] \in {owner[p], w, None},
         LocalState(w)', LocalRow(w)'
  PROVE  IInv'
  <1>1. \A p \in Purchases : RowShape(p)'
    BY DEF IInv, RowShape, worldVars
  <1>2. PaymentsUnique' /\ ChargeIsJournaled' /\ TransferWasAsked'
    BY DEF IInv, PaymentsUnique, ChargeIsJournaled, TransferWasAsked, worldVars
  <1>3. ASSUME NEW v \in Workers \ {w}
        PROVE  LocalState(v)' /\ LocalRow(v)'
    <2>1. LocalState(v)'
      BY DEF IInv, Untouched, LocalState, worldVars
    <2>2. pc[v] \in {"lease"} \cup Leased => Mine(v) \in Purchases
      BY DEF IInv, TypeOK, WorkerTypeOK, Mine, Leased
    <2>3. v # None
      BY StoreAssumption
    <2>4. LocalRow(v)'
      BY <2>2, <2>3 DEF IInv, Untouched, LocalRow, Mine
    <2> QED BY <2>1, <2>4
  <1> QED BY <1>1, <1>2, <1>3 DEF IInv

LEMMA EarlierTransitive ==
  ASSUME NEW r1, NEW r2, NEW r3, Earlier(r1, r2), Earlier(r2, r3)
  PROVE  Earlier(r1, r3)
  BY DEF Earlier, Charged, Proved

(* The owner of the lease rewrites a bound row, and may end its lease. *)
LEMMA OwnerStep ==
  ASSUME IInv, TypeOK', NEW w \in Workers, Untouched(w),
         UNCHANGED worldVars, NEW p \in Purchases, owner[p] = w,
         NEW row, rows' = [rows EXCEPT ![p] = row], Earlier(rows[p], row),
         RowShape(p)',
         \A q \in Purchases \ {p} : /\ resultBytes'[q] = resultBytes[q]
                                    /\ owner'[q] = owner[q],
         owner'[p] \in {w, None},
         LocalState(w)', LocalRow(w)'
  PROVE  IInv'
  <1>1. rows'[p] = row /\ \A q \in Purchases \ {p} : rows'[q] = rows[q]
    BY DEF IInv, TypeOK, StoreTypeOK
  <1>2. \A q \in Purchases : RowShape(q)'
    BY <1>1 DEF IInv, RowShape, worldVars
  <1>3. PaymentsUnique'
    BY <1>1 DEF IInv, PaymentsUnique, Earlier
  <1>4. ChargeIsJournaled' /\ TransferWasAsked'
    BY <1>1 DEF IInv, ChargeIsJournaled, Earlier, Charged, worldVars,
                TransferWasAsked
  <1>5. ASSUME NEW v \in Workers \ {w}
        PROVE  LocalState(v)' /\ LocalRow(v)'
    <2>1. LocalState(v)'
      BY DEF IInv, Untouched, LocalState, worldVars
    <2>2. pc[v] \in {"lease"} \cup Leased => Mine(v) \in Purchases
      BY DEF IInv, TypeOK, WorkerTypeOK, Mine, Leased
    <2>3. v # None /\ pc'[v] = pc[v] /\ job'[v] = job[v]
      BY StoreAssumption DEF Untouched
    <2>4. LocalRow(v)
      BY DEF IInv
    <2>5. CASE Mine(v) = p
      <3>1. owner'[Mine(v)] # v
        BY <2>3, <2>5
      <3>2. row.state \in Bound
        BY DEF Earlier
      <3> QED BY <1>1, <2>1, <2>3, <2>4, <2>5, <3>1, <3>2, EarlierTransitive
          DEF LocalRow, Mine
    <2>6. CASE Mine(v) # p
      BY <1>1, <2>1, <2>2, <2>3, <2>4, <2>6 DEF LocalRow, Mine
    <2> QED BY <2>5, <2>6
  <1> QED BY <1>2, <1>3, <1>4, <1>5 DEF IInv

(* A row nobody is bound to yet is quoted or reserved: no worker can be *)
(* inside progress() for it, and nothing was submitted for it.          *)
LEMMA OpenStep ==
  ASSUME IInv, TypeOK', NEW w \in Workers, Untouched(w),
         UNCHANGED worldVars, UNCHANGED <<owner, resultBytes>>,
         NEW p \in Purchases, rows[p].state \notin Bound,
         NEW row, rows' = [rows EXCEPT ![p] = row], RowShape(p)',
         row.payment # None => PaymentIsFree(p, row.payment),
         LocalState(w)', LocalRow(w)'
  PROVE  IInv'
  <1>1. rows'[p] = row /\ \A q \in Purchases \ {p} : rows'[q] = rows[q]
    BY DEF IInv, TypeOK, StoreTypeOK
  <1>2. \A q \in Purchases : RowShape(q)'
    BY <1>1 DEF IInv, RowShape, worldVars
  <1>3. PaymentsUnique'
    BY <1>1 DEF IInv, PaymentsUnique, PaymentIsFree
  <1>4. ChargeIsJournaled' /\ TransferWasAsked'
    BY <1>1 DEF IInv, ChargeIsJournaled, Bound, worldVars, TransferWasAsked
  <1>5. ASSUME NEW v \in Workers \ {w}
        PROVE  LocalState(v)' /\ LocalRow(v)'
    <2>1. LocalState(v)'
      BY DEF IInv, Untouched, LocalState, worldVars
    <2>2. pc[v] \in {"lease"} \cup Leased => Mine(v) \in Purchases
      BY DEF IInv, TypeOK, WorkerTypeOK, Mine, Leased
    <2>3. pc'[v] = pc[v] /\ job'[v] = job[v] /\ LocalRow(v)
      BY DEF IInv, Untouched
    <2>4. pc[v] \in {"lease"} \cup Leased => Mine(v) # p
      BY <2>3 DEF LocalRow
    <2>5. LocalRow(v)'
      BY <1>1, <2>2, <2>3, <2>4 DEF LocalRow, Mine
    <2> QED BY <2>1, <2>5
  <1> QED BY <1>2, <1>3, <1>4, <1>5 DEF IInv

(* What a worker knows when it goes somewhere without touching the store. *)
LEMMA AnswerLocal ==
  ASSUME TypeOK, NEW w \in Workers, Answer(w)
  PROVE  Untouched(w) /\ LocalState(w)' /\ LocalRow(w)'
  <1>1. pc'[w] = "idle" /\ Untouched(w)
    BY DEF Answer, Untouched, TypeOK, WorkerTypeOK
  <1> QED BY <1>1 DEF LocalState, LocalRow, Leased, SettlingPlaces

LEMMA StartLocal ==
  ASSUME TypeOK, NEW w \in Workers, NEW p \in Purchases, NEW row,
         StartProgress(w, p, row), rows'[p].state \in Bound
  PROVE  Untouched(w) /\ LocalState(w)' /\ LocalRow(w)'
  <1>1. CASE Answer(w)
    BY <1>1, AnswerLocal
  <1> DEFINE started == [NoJob EXCEPT !.purchase = p, !.now = clock]
  <1>2. CASE /\ pc' = [pc EXCEPT ![w] = "lease"]
             /\ job' = [job EXCEPT ![w] = started]
    <2>1. started.purchase = p
      BY DEF NoJob
    <2> HIDE DEF started
    <2>2. pc'[w] = "lease" /\ job'[w] = started /\ Untouched(w)
      BY <1>2 DEF TypeOK, WorkerTypeOK, Untouched
    <2> QED BY <2>1, <2>2
        DEF LocalState, LocalRow, Leased, SettlingPlaces, Mine
  <1> QED BY <1>1, <1>2 DEF StartProgress

LEMMA ContinueLocal ==
  ASSUME TypeOK, NEW w \in Workers, NEW row, Continue(w, row),
         Mine(w) \in Purchases, rows'[Mine(w)].state \in Bound
  PROVE  Untouched(w) /\ LocalState(w)' /\ LocalRow(w)'
  <1> DEFINE p == Mine(w)
  <1>1. StartProgress(w, p, row) \/ Answer(w)
    BY DEF Continue
  <1>2. CASE Answer(w)
    BY <1>2, AnswerLocal
  <1>3. CASE StartProgress(w, p, row)
    <2> HIDE DEF p
    <2>1. p \in Purchases /\ rows'[p].state \in Bound
      BY DEF p
    <2> QED BY <1>3, <2>1, StartLocal
  <1> QED BY <1>1, <1>2, <1>3

LEMMA MoveLocal ==
  ASSUME TypeOK, NEW w \in Workers, NEW place,
         NEW row,
         (Goto(w, place) /\ row = job[w].row) \/ GotoWith(w, place, row)
  PROVE  /\ Untouched(w)
         /\ pc'[w] = place
         /\ job'[w].row = row
         /\ Mine(w)' = Mine(w)
         /\ job'[w].request = job[w].request
         /\ job'[w].tender = job[w].tender
         /\ job'[w].now = job[w].now
  <1>1. CASE Goto(w, place) /\ row = job[w].row
    BY <1>1 DEF TypeOK, WorkerTypeOK, Goto, Untouched, Mine
  <1>2. CASE GotoWith(w, place, row)
    BY <1>2 DEF TypeOK, WorkerTypeOK, GotoWith, Untouched, Mine, Job
  <1> QED BY <1>1, <1>2

LEMMA EvaluationStep ==
  ASSUME IInv, TypeOK', NEW w \in Workers, Evaluation(w)
  PROVE  IInv'
  <1>t. TypeOK
    BY DEF IInv
  <1>m. pc[w] # "idle" => /\ Mine(w) \in Purchases
                          /\ rows[Mine(w)] \in Row
                          /\ RowShape(Mine(w))
    BY DEF IInv, TypeOK, WorkerTypeOK, StoreTypeOK, Mine
  <1>l. LocalState(w)
    BY DEF IInv
  <1>b. rows[Mine(w)] \in Row
          /\ rows[Mine(w)].state \notin {"ABSENT", "QUOTED"} =>
            rows[Mine(w)].state \in Bound
    BY DEF Row, States, Bound
  <1>1. CASE Arrive(w)
    <2>1. PICK p \in Purchases, r \in Requests, a \in Payments \cup {None} :
            job' = [job EXCEPT ![w] = [NoJob EXCEPT !.purchase = p,
                                         !.request = r, !.tender = a]]
      BY <1>1 DEF Arrive
    <2> DEFINE arrived == [NoJob EXCEPT !.purchase = p, !.request = r,
                                        !.tender = a]
    <2>2. arrived.request = r
      BY DEF NoJob
    <2>3. /\ pc' = [pc EXCEPT ![w] = "get"]
          /\ job' = [job EXCEPT ![w] = arrived]
      BY <1>1, <2>1 DEF Arrive
    <2> HIDE DEF arrived
    <2>4. Untouched(w) /\ pc'[w] = "get" /\ job'[w].request \in Requests
      BY <1>t, <2>2, <2>3 DEF Untouched, TypeOK, WorkerTypeOK
    <2>5. LocalState(w)' /\ LocalRow(w)'
      BY <2>4 DEF LocalState, LocalRow, Leased, SettlingPlaces
    <2> QED BY <1>1, <2>4, <2>5, LocalStep DEF Arrive, storeVars
  <1>2. CASE EvaluateGet(w)
    <2> DEFINE p == Mine(w)
    <2>1. pc[w] = "get" /\ UNCHANGED <<storeVars, worldVars>>
      BY <1>2 DEF EvaluateGet
    <2>2. \/ Answer(w)
          \/ Goto(w, "quote")
          \/ Continue(w, rows[p]) /\ rows[p].state \notin {"ABSENT", "QUOTED"}
      BY <1>2 DEF EvaluateGet
    <2>3. Untouched(w) /\ LocalState(w)' /\ LocalRow(w)'
      <3>1. CASE Answer(w)
        BY <1>t, <3>1, AnswerLocal
      <3>2. CASE Goto(w, "quote")
        <4>1. /\ Untouched(w)
              /\ pc'[w] = "quote"
              /\ job'[w] = job[w]
          BY <1>t, <3>2 DEF Untouched, Goto, TypeOK, WorkerTypeOK
        <4>2. job'[w].request \in Requests
          BY <1>l, <2>1, <4>1 DEF LocalState
        <4> QED BY <4>1, <4>2 DEF LocalState, LocalRow, Leased, SettlingPlaces
      <3>3. CASE /\ Continue(w, rows[p])
                 /\ rows[p].state \notin {"ABSENT", "QUOTED"}
        <4>1. rows'[p].state \in Bound /\ p \in Purchases
          BY <1>m, <1>b, <2>1, <3>3 DEF storeVars
        <4> QED BY <1>t, <3>3, <4>1, ContinueLocal
      <3> QED BY <2>2, <3>1, <3>2, <3>3
    <2> QED BY <2>1, <2>3, LocalStep DEF storeVars
  <1>3. CASE EvaluateQuote(w)
    <2>p. PICK p \in Purchases : p = Mine(w)
      BY <1>3, <1>m DEF EvaluateQuote
    <2> DEFINE new == QuotedRow(job[w].request, QuoteUntil)
               row == IF rows[p].state = "ABSENT" THEN new ELSE rows[p]
    <2>1. /\ pc[w] = "quote" /\ UNCHANGED worldVars
          /\ rows[p] \in Row /\ RowShape(p)
      BY <1>3, <1>m, <2>p DEF EvaluateQuote
    <2>2. /\ job[w].request \in Requests
          /\ new.state = "QUOTED" /\ new.request = job[w].request
          /\ new.payment = None /\ new.settlement = None
      BY <1>l, <2>1 DEF LocalState, QuotedRow, AbsentRow
    <2>3. CASE clock >= TrustUntil /\ Answer(w) /\ UNCHANGED storeVars
      BY <1>t, <2>1, <2>3, AnswerLocal, LocalStep DEF storeVars
    <2>4. CASE Quote(p, job[w].request, QuoteUntil)
      <3>1. \/ Answer(w)
            \/ Continue(w, row) /\ row.state # "QUOTED"
            \/ GotoWith(w, "verify", row) /\ job[w].tender # None
        BY <1>3, <2>4, <2>p, <1>t
        DEF EvaluateQuote, Payable, TypeOK, WorldTypeOK
      <3>2. row.state # "QUOTED" => /\ rows[p].state \in Bound
                                    /\ rows' = rows
        BY <1>b, <2>p, <2>1, <2>2, <2>4 DEF Quote
      <3>3. Untouched(w) /\ LocalState(w)' /\ LocalRow(w)'
        <4> HIDE DEF row
        <4>1. CASE Answer(w)
          BY <1>t, <4>1, AnswerLocal
        <4>2. CASE Continue(w, row) /\ row.state # "QUOTED"
          BY <1>t, <2>p, <3>2, <4>2, ContinueLocal
        <4>3. CASE GotoWith(w, "verify", row) /\ job[w].tender # None
          <5>1. job[w].tender \in Payments
            BY <1>t, <4>3 DEF TypeOK, WorkerTypeOK, Job
          <5> QED BY <1>t, <2>2, <4>3, <5>1, MoveLocal
              DEF LocalState, LocalRow, Leased, SettlingPlaces
        <4> QED BY <3>1, <4>1, <4>2, <4>3
      <3>4. CASE rows[p].state = "ABSENT"
        <4> HIDE DEF new
        <4>1. rows' = [rows EXCEPT ![p] = new]
          BY <2>4, <3>4 DEF Quote, new
        <4>2. rows'[p] = new /\ UNCHANGED <<owner, resultBytes>>
          BY <1>t, <2>1, <2>4, <4>1 DEF Quote, TypeOK, StoreTypeOK
        <4>3. RowShape(p)'
          BY <2>1, <2>2, <3>4, <4>2
          DEF RowShape, Bound, Proved
        <4>4. rows[p].state \notin Bound
          BY <3>4 DEF Bound
        <4> QED BY <2>1, <2>2, <3>3, <4>1, <4>2, <4>3, <4>4, OpenStep
      <3>5. CASE rows[p].state # "ABSENT"
        BY <2>1, <2>4, <3>3, <3>5, LocalStep DEF Quote
      <3> QED BY <3>4, <3>5
    <2> QED BY <1>3, <2>p, <2>3, <2>4 DEF EvaluateQuote
  <1>4. CASE EvaluateVerify(w)
    <2>1. pc[w] = "verify" /\ UNCHANGED <<storeVars, worldVars>>
      BY <1>4 DEF EvaluateVerify
    <2>2. Untouched(w) /\ LocalState(w)' /\ LocalRow(w)'
      <3>1. CASE Answer(w)
        BY <1>t, <3>1, AnswerLocal
      <3>2. CASE /\ pc' = [pc EXCEPT ![w] = "reserve"]
                 /\ job' = [job EXCEPT ![w].now = clock]
        BY <1>t, <1>l, <2>1, <3>2
        DEF Untouched, TypeOK, WorkerTypeOK, Job, LocalState, LocalRow,
            Leased, SettlingPlaces
      <3> QED BY <1>4, <3>1, <3>2 DEF EvaluateVerify
    <2> QED BY <2>1, <2>2, LocalStep DEF storeVars
  <1>5. CASE EvaluateReserve(w)
    <2>p. PICK p \in Purchases, a \in Payments, row \in Row :
            /\ p = Mine(w)
            /\ a = job[w].tender
            /\ row = ReservedRow(p, a, job[w].now)
      BY <1>5, <1>m, <1>l, <1>t, ReservedRowType
      DEF EvaluateReserve, LocalState, TypeOK, WorkerTypeOK, Job
    <2>1. /\ pc[w] = "reserve" /\ UNCHANGED worldVars
          /\ rows[p] \in Row /\ RowShape(p)
      BY <1>5, <1>m, <2>p DEF EvaluateReserve
    <2>2. CASE Answer(w) /\ UNCHANGED storeVars
      BY <1>t, <2>1, <2>2, AnswerLocal, LocalStep DEF storeVars
    <2>3. CASE /\ MayReserve(p, job[w].request, a)
               /\ Reserve(p, a, job[w].now)
               /\ StartProgress(w, p, row)
      <3>1. rows'[p] = row /\ rows' = [rows EXCEPT ![p] = row]
        BY <1>t, <2>p, <2>3 DEF Reserve, TypeOK, StoreTypeOK
      <3>2. row.state \in Bound
        BY <1>b, <2>p, <2>1, <2>3 DEF ReservedRow, MayReserve, Bound, Row
      <3>3. Untouched(w) /\ LocalState(w)' /\ LocalRow(w)'
        BY <1>t, <2>3, <3>1, <3>2, StartLocal
      <3>4. CASE rows[p].state = "QUOTED"
        <4>1. /\ row.state = "PREPARED" /\ row.payment = a
              /\ row.settlement = rows[p].settlement
              /\ row.request = rows[p].request
          BY <2>p, <2>1, <3>4 DEF ReservedRow, Row
        <4>2. rows[p].state \notin Bound /\ PaymentIsFree(p, row.payment)
          BY <2>3, <3>4, <4>1 DEF MayReserve, Bound
        <4>3. RowShape(p)'
          BY <2>1, <2>3, <3>1, <3>4, <4>1
          DEF Reserve, RowShape, Bound, Proved
        <4> QED BY <2>1, <2>3, <3>1, <3>3, <4>2, <4>3, OpenStep
            DEF Reserve
      <3>5. CASE rows[p].state # "QUOTED"
        <4>1. rows' = rows
          BY <1>t, <2>p, <3>1, <3>5 DEF ReservedRow, TypeOK, StoreTypeOK
        <4> QED BY <2>1, <2>3, <3>3, <4>1, LocalStep DEF Reserve
      <3> QED BY <3>4, <3>5
    <2> QED BY <1>5, <2>p, <2>2, <2>3 DEF EvaluateReserve
  <1> QED BY <1>1, <1>2, <1>3, <1>4, <1>5 DEF Evaluation

(* What every worker knows between its lease and its release. *)
LEMMA HoldsPurchase ==
  ASSUME IInv, NEW w \in Workers, pc[w] \in {"lease"} \cup Leased
  PROVE  /\ Mine(w) \in Purchases
         /\ rows[Mine(w)] \in Row
         /\ rows[Mine(w)].state \in Bound
         /\ RowShape(Mine(w))
         /\ LocalState(w)
         /\ pc[w] \in Leased \ {"load", "release"} =>
              /\ Earlier(job[w].row, rows[Mine(w)])
              /\ Owns(Mine(w), w) => job[w].row = rows[Mine(w)]
  <1>1. Mine(w) \in Purchases
    BY DEF IInv, TypeOK, WorkerTypeOK, Mine, Leased
  <1>2. LocalRow(w) /\ LocalState(w)
    BY DEF IInv
  <1> QED BY <1>1, <1>2 DEF IInv, TypeOK, StoreTypeOK, LocalRow, Owns

(* A worker that only changes its place keeps what it knows of its row. *)
LEMMA GotoStep ==
  ASSUME IInv, TypeOK', NEW w \in Workers, NEW place,
         pc[w] \in {"lease"} \cup Leased, Goto(w, place),
         UNCHANGED <<rows, resultBytes>>, UNCHANGED worldVars,
         \A p \in Purchases : owner'[p] \in {owner[p], w, None},
         \/ place \in {"load", "release"}
         \/ /\ pc[w] \in SettlingPlaces
            /\ place \in SettlingPlaces
            /\ UNCHANGED owner
            /\ place = "settled" => Proven(job[w].row.payment)
  PROVE  IInv'
  <1>1. /\ Untouched(w) /\ pc'[w] = place /\ job'[w] = job[w]
    BY DEF IInv, TypeOK, WorkerTypeOK, Goto, Untouched
  <1>2. LocalState(w) /\ LocalRow(w)
    BY DEF IInv
  <1>3. LocalState(w)'
    BY <1>1, <1>2 DEF LocalState, SettlingPlaces, Proven, worldVars
  <1>4. LocalRow(w)'
    BY <1>1, <1>2 DEF LocalRow, Mine, SettlingPlaces, Leased
  <1> QED BY <1>1, <1>3, <1>4, LocalStep

(* What a fenced write may do to the row it was given. *)
Rewrites(old, new) ==
  /\ Earlier(old, new)
  /\ new.request = old.request
  /\ old.state # "ISSUED" /\ new.state # "ISSUED"
  /\ new.state \in Proved => /\ new.settlement = new.payment
                             /\ chain[new.payment] = "final"
  /\ new.state \notin Proved => new.settlement = None

LEMMA FencedStep ==
  ASSUME IInv, TypeOK', NEW w \in Workers, NEW from, NEW row, NEW place,
         FencedUpdate(w, from, row, place),
         from \in SettlingPlaces \cup {"mark"},
         \/ place \in SettlingPlaces \ {"settled"}
         \/ place \in {"finish", "release"},
         Owns(Mine(w), w) => /\ Rewrites(rows[Mine(w)], row)
                             /\ place \in SettlingPlaces =>
                                  row.state = "SETTLING"
  PROVE  IInv'
  <1>1. pc[w] = from /\ from \in Leased /\ UNCHANGED worldVars
    BY DEF FencedUpdate, SettlingPlaces, Leased
  <1>2. CASE Goto(w, "release") /\ UNCHANGED storeVars
    BY <1>1, <1>2, GotoStep DEF storeVars
  <1>3. CASE /\ Owns(Mine(w), w)
             /\ Update(Mine(w), row)
             /\ GotoWith(w, place, row)
    <2>1. PICK p \in Purchases : /\ p = Mine(w) /\ RowShape(p)
                                /\ rows[p].state \in Bound
      BY <1>1, HoldsPurchase
    <2>2. /\ Untouched(w) /\ pc'[w] = place /\ job'[w].row = row
          /\ Mine(w)' = p
      BY <1>3, <2>1, MoveLocal DEF IInv
    <2>3. /\ rows' = [rows EXCEPT ![p] = row] /\ rows'[p] = row
          /\ UNCHANGED <<owner, resultBytes>>
      BY <1>3, <2>1 DEF Update, IInv, TypeOK, StoreTypeOK
    <2>4. Rewrites(rows[p], row) /\ row.state \in Bound /\ owner[p] = w
      BY <1>3, <2>1 DEF Rewrites, Earlier, Owns
    <2>5. RowShape(p)'
      BY <1>1, <2>1, <2>3, <2>4
      DEF RowShape, Rewrites, Earlier, Bound, Proved, worldVars
    <2>6. LocalState(w)'
      BY <1>3, <2>1, <2>2 DEF LocalState, SettlingPlaces
    <2>7. LocalRow(w)'
      BY <2>2, <2>3, <2>4 DEF LocalRow, Earlier
    <2>8. owner'[p] \in {w, None}
      BY <2>3, <2>4
    <2> QED BY <1>1, <2>2, <2>3, <2>4, <2>5, <2>6, <2>7, <2>8, OwnerStep
        DEF Rewrites
  <1> QED BY <1>2, <1>3 DEF FencedUpdate

LEMMA ProgressStep ==
  ASSUME IInv, TypeOK', NEW w \in Workers, Progress(w)
  PROVE  IInv'
  <1>t. TypeOK
    BY DEF IInv
  <1> DEFINE row == rows[Mine(w)]
             Knows == /\ Mine(w) \in Purchases
                      /\ row \in Row
                      /\ RowShape(Mine(w))
                      /\ LocalState(w)
                      /\ Owns(Mine(w), w) => job[w].row = row
  <1>k. pc[w] \in Leased \ {"load", "release"} => Knows
    BY HoldsPurchase
  <1>s. \A p \in Purchases : owner[p] \in {owner[p], w, None}
    OBVIOUS
  <1>1. CASE TakeLease(w)
    <2>1. pc[w] = "lease" /\ UNCHANGED worldVars /\ Mine(w) \in Purchases
      BY <1>1, HoldsPurchase DEF TakeLease
    <2>2. CASE Lease(Mine(w), w, job[w].now) /\ Goto(w, "load")
      <3>1. \A p \in Purchases : owner'[p] \in {owner[p], w, None}
        BY <1>t, <2>1, <2>2 DEF Lease, TypeOK, StoreTypeOK
      <3> QED BY <2>1, <2>2, <3>1, GotoStep DEF Lease
    <2>3. CASE Answer(w) /\ UNCHANGED storeVars
      BY <1>t, <1>s, <2>1, <2>3, AnswerLocal, LocalStep DEF storeVars
    <2> QED BY <1>1, <2>2, <2>3 DEF TakeLease
  <1>2. CASE Load(w)
    <2>1. /\ pc[w] = "load" /\ UNCHANGED <<storeVars, worldVars>>
          /\ GotoWith(w, Resume(row), row)
      BY <1>2 DEF Load
    <2>2. PICK p \in Purchases : p = Mine(w) /\ rows[p].state \in Bound
      BY <2>1, HoldsPurchase DEF Leased
    <2>3. /\ Untouched(w) /\ pc'[w] = Resume(row) /\ job'[w].row = row
          /\ Mine(w)' = p
      BY <1>t, <2>1, <2>2, MoveLocal
    <2>4. /\ Resume(row) \in {"mark", "search", "finish", "release"}
          /\ Resume(row) = "mark" => row.state = "PREPARED"
          /\ Resume(row) = "search" => row.state = "SETTLING"
      BY DEF Resume
    <2>5. LocalState(w)'
      BY <2>3, <2>4 DEF LocalState, SettlingPlaces
    <2>6. LocalRow(w)'
      <3>1. rows'[p] = row /\ rows' = rows
        BY <2>1, <2>2 DEF storeVars
      <3>2. Earlier(row, row)
        BY <2>2 DEF Earlier
      <3> HIDE DEF row
      <3> QED BY <2>2, <2>3, <3>1, <3>2 DEF LocalRow
    <2> QED BY <1>s, <2>1, <2>3, <2>5, <2>6, LocalStep DEF storeVars
  <1>3. CASE MarkSettling(w)
    <2>1. pc[w] = "mark" /\ Knows
      BY <1>3, <1>k DEF MarkSettling, FencedUpdate, Leased
    <2> DEFINE new == [row EXCEPT !.state = "SETTLING"]
    <2>2. Owns(Mine(w), w) => Rewrites(row, new)
      BY <2>1 DEF LocalState, RowShape, Rewrites, Earlier, Row, Bound,
                  Charged, Proved
    <2>3. new.state = "SETTLING"
      BY <2>1 DEF Row
    <2>4. FencedUpdate(w, "mark", new, "search")
      BY <1>3 DEF MarkSettling
    <2> HIDE DEF new
    <2> QED BY <2>2, <2>3, <2>4, FencedStep DEF SettlingPlaces
  <1>rw. ASSUME Knows, row.state = "SETTLING" PROVE Rewrites(row, row)
    BY <1>rw DEF RowShape, Rewrites, Earlier, Bound, Charged, Proved
  <1>4. CASE Search(w) \/ Confirm(w)
    <2>1. /\ pc[w] \in {"search", "confirm"}
          /\ UNCHANGED <<storeVars, worldVars>>
      BY <1>4 DEF Search, Confirm, Reconcile
    <2>2. \/ Proven(job[w].row.payment) /\ Goto(w, "settled")
          \/ \E place \in {"cursor", "attempt", "lastCursor", "release"} :
               Goto(w, place)
      BY <1>4 DEF Search, Confirm, Reconcile
    <2>3. pc[w] \in Leased /\ pc[w] \in SettlingPlaces
      BY <2>1 DEF Leased, SettlingPlaces
    <2>4. CASE Proven(job[w].row.payment) /\ Goto(w, "settled")
      BY <1>s, <2>1, <2>3, <2>4, GotoStep DEF storeVars, SettlingPlaces
    <2>5. ASSUME NEW place \in {"cursor", "attempt", "lastCursor", "release"},
                 Goto(w, place)
          PROVE  IInv'
      BY <1>s, <2>1, <2>3, <2>5, GotoStep DEF storeVars, SettlingPlaces
    <2> QED BY <2>2, <2>4, <2>5
  <1>5. CASE SaveCursor(w)
    <2>1. pc[w] = "cursor" /\ Knows
      BY <1>5, <1>k DEF SaveCursor, FencedUpdate, Leased
    <2>2. Owns(Mine(w), w) => Rewrites(row, row) /\ row.state = "SETTLING"
      BY <2>1, <1>rw DEF LocalState, SettlingPlaces
    <2>3. FencedUpdate(w, "cursor", row, "attempt")
      BY <1>5 DEF SaveCursor
    <2> HIDE DEF row
    <2> QED BY <2>2, <2>3, FencedStep DEF SettlingPlaces, row
  <1>6. CASE SaveLastCursor(w)
    <2>1. pc[w] = "lastCursor" /\ Knows
      BY <1>6, <1>k DEF SaveLastCursor, FencedUpdate, Leased
    <2>2. Owns(Mine(w), w) => Rewrites(row, row) /\ row.state = "SETTLING"
      BY <2>1, <1>rw DEF LocalState, SettlingPlaces
    <2>3. FencedUpdate(w, "lastCursor", row, "release")
      BY <1>6 DEF SaveLastCursor
    <2> HIDE DEF row
    <2> QED BY <2>2, <2>3, FencedStep DEF SettlingPlaces, row
  <1>7. CASE Attempt(w)
    <2>1. pc[w] = "attempt" /\ Knows
      BY <1>7, <1>k DEF Attempt, FencedUpdate, Leased
    <2> DEFINE new == [row EXCEPT !.nextAttempt = job[w].now + RetryDelay]
    <2>2. CASE FencedUpdate(w, "attempt", new, "call")
      <3>1. Owns(Mine(w), w) => Rewrites(row, new) /\ new.state = "SETTLING"
        BY <2>1 DEF LocalState, SettlingPlaces, RowShape, Rewrites, Earlier,
                    Row, Bound, Charged, Proved
      <3> HIDE DEF new
      <3> QED BY <2>2, <3>1, FencedStep DEF SettlingPlaces
    <2>3. CASE Goto(w, "release") /\ UNCHANGED <<storeVars, worldVars>>
      BY <1>s, <2>1, <2>3, GotoStep DEF storeVars, SettlingPlaces, Leased
    <2> QED BY <1>7, <2>2, <2>3 DEF Attempt
  <1>8. CASE CallSettle(w)
    <2>1. /\ pc[w] = "call" /\ Knows /\ Goto(w, "wait")
          /\ UNCHANGED <<storeVars, clock, chain>>
      BY <1>8, <1>k DEF CallSettle, Leased
    <2>2. PICK p \in Purchases, a \in Payments :
            /\ p = Mine(w) /\ a = job[w].row.payment
            /\ rows[p].payment = a /\ rows[p].state \in Charged
      BY <2>1, HoldsPurchase
      DEF Leased, LocalState, SettlingPlaces, Earlier, RowShape, Bound, Charged
    <2>3. submitted' = [submitted EXCEPT ![a] = @ \cup {p}]
      BY <1>8, <2>2 DEF CallSettle
    <2>4. \A q \in Purchases, b \in Payments :
            q \in submitted'[b] => q \in submitted[b] \/ (q = p /\ b = a)
      BY <1>t, <2>2, <2>3 DEF TypeOK, WorldTypeOK
    <2>5. ChargeIsJournaled'
      BY <2>1, <2>2, <2>4 DEF IInv, ChargeIsJournaled, Charged, storeVars
    <2>9. TransferWasAsked'
      BY <1>t, <2>1, <2>2, <2>3
      DEF IInv, TransferWasAsked, TypeOK, WorldTypeOK
    <2>6. /\ \A q \in Purchases : RowShape(q)'
          /\ PaymentsUnique'
      BY <2>1 DEF IInv, RowShape, PaymentsUnique, storeVars
    <2>7. /\ pc'[w] = "wait" /\ job' = job
          /\ \A v \in Workers \ {w} : pc'[v] = pc[v]
      BY <1>t, <2>1 DEF Goto, TypeOK, WorkerTypeOK
    <2>8. ASSUME NEW v \in Workers PROVE LocalState(v)' /\ LocalRow(v)'
      <3>1. LocalState(v) /\ LocalRow(v)
        BY DEF IInv
      <3>2. CASE v = w
        BY <2>1, <2>7, <3>1, <3>2
        DEF LocalState, LocalRow, Mine, SettlingPlaces, Leased, storeVars
      <3>3. CASE v # w
        BY <2>1, <2>7, <3>1, <3>3 DEF LocalState, LocalRow, Mine, storeVars
      <3> QED BY <3>2, <3>3
    <2> QED BY <2>5, <2>6, <2>8, <2>9 DEF IInv
  <1>9. CASE SettleAnswer(w)
    <2>1. pc[w] = "wait" /\ UNCHANGED <<storeVars, worldVars>> /\ Knows
      BY <1>9, <1>k DEF SettleAnswer, Leased
    <2>2. CASE Goto(w, "confirm")
      BY <1>s, <2>1, <2>2, GotoStep DEF storeVars, SettlingPlaces, Leased
    <2>3. CASE \E hash \in Hints : /\ pc' = [pc EXCEPT ![w] = "discovery"]
                                   /\ job' = [job EXCEPT ![w].hash = hash]
      <3>1. /\ Untouched(w) /\ pc'[w] = "discovery"
            /\ job'[w].row = job[w].row /\ Mine(w)' = Mine(w)
        BY <1>t, <2>3 DEF Untouched, Mine, TypeOK, WorkerTypeOK, Job
      <3>2. LocalState(w)' /\ LocalRow(w)'
        <4>1. LocalState(w) /\ LocalRow(w)
          BY DEF IInv
        <4> QED BY <2>1, <3>1, <4>1
            DEF LocalState, LocalRow, SettlingPlaces, Leased, storeVars, Mine
      <3> QED BY <1>s, <2>1, <3>1, <3>2, LocalStep DEF storeVars
    <2> QED BY <1>9, <2>2, <2>3 DEF SettleAnswer
  <1>10. CASE RecordDiscovery(w)
    <2>1. pc[w] = "discovery" /\ Knows
      BY <1>10, <1>k DEF RecordDiscovery, FencedUpdate, Leased
    <2>2. Owns(Mine(w), w) => Rewrites(row, row) /\ row.state = "SETTLING"
      BY <2>1, <1>rw DEF LocalState, SettlingPlaces
    <2>3. PICK place \in {"confirm", "hint"} :
            FencedUpdate(w, "discovery", row, place)
      BY <1>10 DEF RecordDiscovery
    <2> HIDE DEF row
    <2> QED BY <2>2, <2>3, FencedStep DEF SettlingPlaces, row
  <1>11. CASE RecordHint(w)
    <2>1. pc[w] = "hint" /\ Knows
      BY <1>11, <1>k DEF RecordHint, FencedUpdate, Leased
    <2> DEFINE new == [row EXCEPT !.hint = job[w].hash]
    <2>2. Owns(Mine(w), w) => Rewrites(row, new) /\ new.state = "SETTLING"
      BY <2>1 DEF LocalState, SettlingPlaces, RowShape, Rewrites, Earlier,
                  Row, Bound, Charged, Proved
    <2>3. FencedUpdate(w, "hint", new, "confirm")
      BY <1>11 DEF RecordHint
    <2> HIDE DEF new
    <2> QED BY <2>2, <2>3, FencedStep DEF SettlingPlaces
  <1>12. CASE RecordSettled(w)
    <2>1. pc[w] = "settled" /\ Knows
      BY <1>12, <1>k DEF RecordSettled, FencedUpdate, Leased
    <2> DEFINE new == [row EXCEPT !.state = "SETTLED",
                                  !.settlement = job[w].row.payment,
                                  !.issuedAt = job[w].now]
    <2>2. Owns(Mine(w), w) => Rewrites(row, new)
      BY <2>1 DEF LocalState, SettlingPlaces, RowShape, Rewrites, Earlier,
                  Row, Bound, Charged, Proved
    <2>3. FencedUpdate(w, "settled", new, "finish")
      BY <1>12 DEF RecordSettled
    <2> HIDE DEF new
    <2> QED BY <2>2, <2>3, FencedStep DEF SettlingPlaces
  <1>13. CASE FinishResult(w)
    <2>1. /\ pc[w] = "finish" /\ Knows /\ UNCHANGED worldVars
          /\ Goto(w, "release")
      BY <1>13, <1>k DEF FinishResult, Leased
    <2>2. CASE UNCHANGED storeVars
      BY <1>s, <2>1, <2>2, GotoStep DEF storeVars, Leased
    <2>3. CASE /\ MayFinish(Mine(w), w)
               /\ Finish(Mine(w), ResultOf(job[w].row))
      <3>1. PICK p \in Purchases : p = Mine(w) /\ rows[p].state \in Bound
        BY <2>1, HoldsPurchase DEF Leased
      <3> DEFINE new == [rows[p] EXCEPT !.state = "ISSUED"]
      <3>2. /\ rows[p].state = "SETTLED" /\ owner[p] = w
            /\ job[w].row = rows[p] /\ rows[p] \in Row /\ RowShape(p)
        BY <2>1, <2>3, <3>1 DEF MayFinish, Owns
      <3>3. /\ new.state = "ISSUED" /\ new.payment = rows[p].payment
            /\ new.request = rows[p].request
            /\ new.settlement = rows[p].settlement
            /\ ResultOf(new) = ResultOf(rows[p])
        BY <3>2 DEF Row, ResultOf
      <3>4. /\ rows' = [rows EXCEPT ![p] = new] /\ rows'[p] = new
            /\ resultBytes'[p] = ResultOf(rows[p]) /\ owner'[p] = None
            /\ \A q \in Purchases \ {p} : /\ resultBytes'[q] = resultBytes[q]
                                          /\ owner'[q] = owner[q]
        BY <1>t, <2>3, <3>1, <3>2 DEF Finish, TypeOK, StoreTypeOK
      <3> HIDE DEF new
      <3>5. Earlier(rows[p], new) /\ new.state \in Bound
        BY <3>2, <3>3 DEF Earlier, Bound, Charged, Proved
      <3>6. RowShape(p)'
        BY <2>1, <3>2, <3>3, <3>4 DEF RowShape, Bound, Proved, worldVars
      <3>7. Untouched(w) /\ pc'[w] = "release" /\ Mine(w)' = p
        BY <1>t, <2>1, <3>1 DEF Untouched, Goto, Mine, TypeOK, WorkerTypeOK
      <3>8. LocalState(w)' /\ LocalRow(w)'
        BY <3>4, <3>5, <3>7 DEF LocalState, LocalRow, SettlingPlaces
      <3> QED BY <2>1, <3>2, <3>4, <3>5, <3>6, <3>7, <3>8, OwnerStep
    <2> QED BY <1>13, <2>2, <2>3 DEF FinishResult
  <1>14. CASE Release(w)
    <2>1. /\ pc[w] = "release" /\ UNCHANGED worldVars /\ Answer(w)
          /\ Unlease(Mine(w), w) /\ Mine(w) \in Purchases
      BY <1>14, HoldsPurchase DEF Release, Leased
    <2>2. /\ UNCHANGED <<rows, resultBytes>>
          /\ \A p \in Purchases : owner'[p] \in {owner[p], w, None}
      BY <1>t, <2>1 DEF Unlease, TypeOK, StoreTypeOK
    <2> QED BY <1>t, <2>1, <2>2, AnswerLocal, LocalStep
  <1> HIDE DEF row, Knows
  <1> QED BY <1>1, <1>2, <1>3, <1>4, <1>5, <1>6, <1>7, <1>8, <1>9, <1>10,
             <1>11, <1>12, <1>13, <1>14 DEF Progress

LEMMA ArrivalStep ==
  ASSUME IInv, TypeOK', NEW w \in Workers, NEW p \in Purchases,
         Crash(w) \/ Recover(w, p)
  PROVE  IInv'
  <1>t. TypeOK /\ \A q \in Purchases : owner[q] \in {owner[q], w, None}
    BY DEF IInv
  <1>1. CASE Crash(w)
    BY <1>t, <1>1, AnswerLocal, LocalStep DEF Crash, storeVars
  <1>2. CASE Recover(w, p)
    <2>1. /\ StartProgress(w, p, rows[p])
          /\ rows[p].state \notin {"ABSENT", "QUOTED"}
          /\ UNCHANGED <<storeVars, worldVars>>
      BY <1>2 DEF Recover
    <2>2. rows'[p].state \in Bound
      BY <1>t, <2>1
      DEF TypeOK, StoreTypeOK, Row, States, Bound, storeVars
    <2> QED BY <1>t, <2>1, <2>2, StartLocal, LocalStep DEF storeVars
  <1> QED BY <1>1, <1>2

(* What is final stays final, whatever the facilitator and the chain do. *)
LEMMA WorldStep ==
  ASSUME IInv, TypeOK', UNCHANGED storeVars, UNCHANGED workerVars,
         UNCHANGED submitted,
         \A a \in Payments : /\ chain[a] = "final" => chain'[a] = "final"
                             /\ chain'[a] # "none" => submitted[a] # {}
  PROVE  IInv'
  <1>1. ASSUME NEW p \in Purchases PROVE RowShape(p)'
    <2>1. RowShape(p) /\ rows'[p] = rows[p] /\ resultBytes'[p] = resultBytes[p]
      BY DEF IInv, storeVars
    <2>2. rows[p].state \in Proved => chain'[rows[p].payment] = "final"
      BY <2>1 DEF RowShape, Bound, Proved
    <2> QED BY <2>1, <2>2 DEF RowShape
  <1>2. PaymentsUnique' /\ ChargeIsJournaled' /\ TransferWasAsked'
    BY DEF IInv, PaymentsUnique, ChargeIsJournaled, TransferWasAsked, storeVars
  <1>3. ASSUME NEW w \in Workers PROVE LocalState(w)' /\ LocalRow(w)'
    <2>1. /\ LocalState(w) /\ LocalRow(w)
          /\ pc'[w] = pc[w] /\ job'[w] = job[w]
      BY DEF IInv, workerVars
    <2>2. pc[w] = "settled" => chain'[job[w].row.payment] = "final"
      <3> SUFFICES ASSUME pc[w] = "settled"
                   PROVE  chain'[job[w].row.payment] = "final"
        OBVIOUS
      <3>1. pc[w] \in Leased \ {"load", "release"}
        BY DEF Leased
      <3>2. job[w].row.payment \in Payments
        BY <3>1, HoldsPurchase DEF Earlier, RowShape
      <3> QED BY <2>1, <3>2 DEF LocalState
    <2> QED BY <2>1, <2>2 DEF LocalState, LocalRow, Mine, storeVars
  <1> QED BY <1>1, <1>2, <1>3 DEF IInv

LEMMA InvInit == Init => IInv
  <1> SUFFICES ASSUME Init PROVE IInv
    OBVIOUS
  <1>1. TypeOK
    BY InitType
  <1>2. \A p \in Purchases : RowShape(p)
    BY DEF Init, StoreInit, AbsentRow, RowShape, Bound, Proved
  <1>3. PaymentsUnique /\ ChargeIsJournaled /\ TransferWasAsked
    BY DEF Init, StoreInit, AbsentRow, PaymentsUnique, ChargeIsJournaled,
           TransferWasAsked
  <1>4. \A w \in Workers : LocalState(w) /\ LocalRow(w)
    BY DEF Init, LocalState, LocalRow, Leased, SettlingPlaces
  <1> QED BY <1>1, <1>2, <1>3, <1>4 DEF IInv

LEMMA InvStep == IInv /\ [Next]_vars => IInv'
  <1> SUFFICES ASSUME IInv, [Next]_vars PROVE IInv'
    OBVIOUS
  <1>t. TypeOK /\ TypeOK'
    BY TypeStep DEF IInv
  <1>1. ASSUME NEW w \in Workers, Evaluation(w)
        PROVE  IInv'
    BY <1>t, <1>1, EvaluationStep
  <1>2. ASSUME NEW w \in Workers, Progress(w)
        PROVE  IInv'
    BY <1>t, <1>2, ProgressStep
  <1>3. ASSUME NEW w \in Workers, Crash(w)
        PROVE  IInv'
    BY <1>t, <1>3, AnswerLocal, LocalStep DEF Crash, storeVars
  <1>4. ASSUME NEW w \in Workers, NEW p \in Purchases, Recover(w, p)
        PROVE  IInv'
    BY <1>t, <1>4, ArrivalStep
  <1>5. ASSUME NEW a \in Payments, World(a)
        PROVE  IInv'
    <2>1. /\ UNCHANGED storeVars /\ UNCHANGED workerVars
          /\ UNCHANGED submitted
      BY <1>5 DEF World, Transfer, Reorganize, Finalize
    <2>2. \A b \in Payments : /\ chain[b] = "final" => chain'[b] = "final"
                              /\ chain'[b] # "none" => submitted[b] # {}
      BY <1>t, <1>5
      DEF World, Transfer, Reorganize, Finalize, TypeOK, WorldTypeOK, IInv,
          TransferWasAsked
    <2> QED BY <1>t, <2>1, <2>2, WorldStep
  <1>6. CASE Tick
    BY <1>t, <1>6, WorldStep DEF Tick, IInv, TransferWasAsked
  <1>7. CASE UNCHANGED vars
    BY <1>t, <1>7, WorldStep DEF vars, worldVars, IInv, TransferWasAsked
  <1> QED BY <1>1, <1>2, <1>3, <1>4, <1>5, <1>6, <1>7 DEF Next

(* The inductive invariant holds in every state of every instance: the row *)
(* a worker remembers is an earlier version of the durable one, and is the *)
(* durable one as long as the worker owns the lease (store.mjs, service.mjs).*)
THEOREM Invariant == Spec => []IInv
  BY InvInit, InvStep, PTL DEF Spec

-----------------------------------------------------------------------------
LEMMA InvSafe ==
  IInv => /\ ChargedOnce /\ ChargeIsJournaled /\ SettledOnlyWhenFinal
          /\ LocalRowIsDurable /\ ResultMatchesRow
  <1> SUFFICES ASSUME IInv
               PROVE  /\ ChargedOnce /\ ChargeIsJournaled
                      /\ SettledOnlyWhenFinal
                      /\ LocalRowIsDurable /\ ResultMatchesRow
    OBVIOUS
  <1>1. ChargeIsJournaled
    BY DEF IInv
  <1>2. ChargedOnce
    <2> SUFFICES ASSUME NEW p \in Purchases, NEW q \in Purchases,
                        NEW a \in Payments, NEW b \in Payments,
                        p \in submitted[a], q \in submitted[b]
                 PROVE  p = q <=> a = b
      BY DEF ChargedOnce
    <2>1. rows[p].payment = a /\ rows[p].state \in Bound
      BY <1>1 DEF ChargeIsJournaled, Bound
    <2>2. rows[q].payment = b /\ rows[q].state \in Bound
      BY <1>1 DEF ChargeIsJournaled, Bound
    <2>3. a # None
      BY StoreAssumption
    <2> QED BY <2>1, <2>2, <2>3 DEF IInv, PaymentsUnique
  <1>3. SettledOnlyWhenFinal
    BY DEF IInv, RowShape, SettledOnlyWhenFinal, Bound, Proved
  <1>4. LocalRowIsDurable
    BY DEF IInv, LocalRow, LocalRowIsDurable
  <1>5. ResultMatchesRow
    <2>1. ASSUME NEW p \in Purchases
          PROVE  ResultOf(rows[p]) # None
      BY ResultAssumption, ResultOfType DEF IInv, TypeOK, StoreTypeOK
    <2> QED BY <2>1 DEF IInv, RowShape, ResultMatchesRow
  <1> QED BY <1>1, <1>2, <1>3, <1>4, <1>5

(* A purchase is charged at most once, and only for the payment its durable *)
(* row names: however requests with different payments race, leases run out *)
(* and workers crash around rail.settle (service.mjs progress).             *)
THEOREM NoDoubleCharge == Spec => []ChargedOnce
  BY Invariant, InvSafe, PTL

(* A charge can always be found again: the row is past PREPARED, in the    *)
(* store, before the facilitator is asked (service.mjs progress).          *)
THEOREM ChargeJournaled == Spec => []ChargeIsJournaled
  BY Invariant, InvSafe, PTL

(* Nothing is settled or issued without a finalized transfer of the       *)
(* purchase's own payment (service.mjs progress, payment.mjs evidence).   *)
THEOREM NoUnpaidResult == Spec => []SettledOnlyWhenFinal
  BY Invariant, InvSafe, PTL

(* The lease fence of store.update and store.finish does what it is for:  *)
(* its owner decides from the durable row.                                *)
THEOREM FenceIsSound == Spec => []LocalRowIsDurable
  BY Invariant, InvSafe, PTL

(* The bytes handed out are those of the row, whoever finishes first      *)
(* (store.finish).                                                        *)
THEOREM ResultIsOfItsRow == Spec => []ResultMatchesRow
  BY Invariant, InvSafe, PTL

-----------------------------------------------------------------------------
(* The action properties, by what a step may do to the store. *)

Follows(old, new) ==
  /\ old.state # new.state => /\ old.state # "ISSUED"
                              /\ new.state = Successor[old.state]
  /\ Committed(old, new)

(* What a step does to the rows and the results it leaves or changes. *)
Grows ==
  \A p \in Purchases :
    /\ Follows(rows[p], rows'[p])
    /\ resultBytes[p] # None => resultBytes'[p] = resultBytes[p]

LEMMA GrowsUnchanged ==
  ASSUME UNCHANGED <<rows, resultBytes>> PROVE Grows
  BY DEF Grows, Follows, Committed

LEMMA GrowsOne ==
  ASSUME TypeOK, NEW p \in Purchases, NEW row,
         rows' = [rows EXCEPT ![p] = row],
         Follows(rows[p], row),
         \A q \in Purchases :
           resultBytes[q] # None => resultBytes'[q] = resultBytes[q]
  PROVE  Grows
  BY DEF Grows, Follows, Committed, TypeOK, StoreTypeOK

LEMMA EvaluationGrows ==
  ASSUME IInv, NEW w \in Workers, Evaluation(w)
  PROVE  Grows
  <1>t. TypeOK
    BY DEF IInv
  <1>1. CASE UNCHANGED storeVars
    BY <1>1, GrowsUnchanged DEF storeVars
  <1>2. CASE EvaluateQuote(w) /\ ~UNCHANGED storeVars
    <2>1. PICK p \in Purchases :
            /\ Quote(p, job[w].request, QuoteUntil)
            /\ rows[p] \in Row /\ RowShape(p)
      BY <1>2 DEF EvaluateQuote, Mine, IInv, TypeOK, WorkerTypeOK, StoreTypeOK
    <2>2. CASE rows[p].state = "ABSENT"
      <3> DEFINE row == QuotedRow(job[w].request, QuoteUntil)
      <3>1. rows' = [rows EXCEPT ![p] = row] /\ UNCHANGED resultBytes
        BY <2>1, <2>2 DEF Quote
      <3>2. row.state = "QUOTED"
        BY DEF QuotedRow, AbsentRow
      <3>3. /\ rows[p].request = None /\ rows[p].payment = None
            /\ rows[p].settlement = None
        BY <2>1, <2>2 DEF RowShape, Bound, Proved
      <3> HIDE DEF row
      <3>4. Follows(rows[p], row)
        BY <2>2, <3>2, <3>3 DEF Follows, Committed, Successor
      <3> QED BY <1>t, <3>1, <3>4, GrowsOne
    <2>3. CASE rows[p].state # "ABSENT"
      BY <2>1, <2>3, GrowsUnchanged DEF Quote
    <2> QED BY <2>2, <2>3
  <1>3. CASE EvaluateReserve(w) /\ ~UNCHANGED storeVars
    <2>1. PICK p \in Purchases : /\ Reserve(p, job[w].tender, job[w].now)
                                 /\ rows[p] \in Row /\ RowShape(p)
      BY <1>3
      DEF EvaluateReserve, Mine, IInv, TypeOK, WorkerTypeOK, StoreTypeOK
    <2> DEFINE row == ReservedRow(p, job[w].tender, job[w].now)
    <2>2. rows' = [rows EXCEPT ![p] = row] /\ UNCHANGED resultBytes
      BY <2>1 DEF Reserve
    <2>3. Follows(rows[p], row)
      BY <2>1 DEF ReservedRow, Follows, Committed, Successor, Row, RowShape,
                  Bound, Proved
    <2> HIDE DEF row
    <2> QED BY <1>t, <2>2, <2>3, GrowsOne
  <1> QED BY <1>1, <1>2, <1>3
      DEF Evaluation, Arrive, EvaluateGet, EvaluateVerify

LEMMA FencedGrows ==
  ASSUME IInv, NEW w \in Workers, NEW from, NEW row, NEW place,
         FencedUpdate(w, from, row, place), from \in Leased,
         Owns(Mine(w), w) => Follows(rows[Mine(w)], row)
  PROVE  Grows
  <1>1. CASE UNCHANGED storeVars
    BY <1>1, GrowsUnchanged DEF storeVars
  <1>2. CASE Owns(Mine(w), w) /\ Update(Mine(w), row)
    <2>1. PICK p \in Purchases : p = Mine(w)
      BY HoldsPurchase DEF FencedUpdate
    <2>2. rows' = [rows EXCEPT ![p] = row] /\ UNCHANGED resultBytes
      BY <1>2, <2>1 DEF Update
    <2> QED BY <1>2, <2>1, <2>2, GrowsOne DEF IInv
  <1> QED BY <1>1, <1>2 DEF FencedUpdate

LEMMA ProgressGrows ==
  ASSUME IInv, NEW w \in Workers, Progress(w)
  PROVE  Grows
  <1>t. TypeOK
    BY DEF IInv
  <1> DEFINE row == rows[Mine(w)]
             Knows == /\ Mine(w) \in Purchases
                      /\ row \in Row
                      /\ RowShape(Mine(w))
                      /\ LocalState(w)
                      /\ Owns(Mine(w), w) => job[w].row = row
  <1>k. pc[w] \in Leased \ {"load", "release"} => Knows
    BY HoldsPurchase
  <1>1. CASE UNCHANGED <<rows, resultBytes>>
    BY <1>1, GrowsUnchanged
  <1>2. CASE MarkSettling(w)
    <2> DEFINE new == [row EXCEPT !.state = "SETTLING"]
    <2>1. /\ FencedUpdate(w, "mark", new, "search")
          /\ pc[w] = "mark" /\ Knows
      BY <1>2, <1>k DEF MarkSettling, FencedUpdate, Leased
    <2>2. Owns(Mine(w), w) => Follows(row, new)
      BY <2>1 DEF LocalState, Row, Follows, Committed, Successor
    <2> HIDE DEF new
    <2> QED BY <2>1, <2>2, FencedGrows DEF Leased
  <1>3. ASSUME NEW from \in {"cursor", "lastCursor", "discovery"}, NEW place,
               FencedUpdate(w, from, row, place)
        PROVE  Grows
    <2>1. Follows(row, row) /\ from \in Leased
      BY DEF Follows, Committed, Leased
    <2> QED BY <1>3, <2>1, FencedGrows
  <1>4. CASE Attempt(w)
    <2> DEFINE new == [row EXCEPT !.nextAttempt = job[w].now + RetryDelay]
    <2>1. CASE FencedUpdate(w, "attempt", new, "call")
      <3>1. Knows
        BY <2>1, <1>k DEF FencedUpdate, Leased
      <3>2. Follows(row, new)
        BY <3>1 DEF Row, Follows, Committed
      <3> HIDE DEF new
      <3> QED BY <2>1, <3>2, FencedGrows DEF Leased
    <2> QED BY <1>4, <2>1, GrowsUnchanged DEF Attempt, storeVars
  <1>5. CASE RecordHint(w)
    <2> DEFINE new == [row EXCEPT !.hint = job[w].hash]
    <2>1. FencedUpdate(w, "hint", new, "confirm") /\ Knows
      BY <1>5, <1>k DEF RecordHint, FencedUpdate, Leased
    <2>2. Follows(row, new)
      BY <2>1 DEF Row, Follows, Committed
    <2> HIDE DEF new
    <2> QED BY <2>1, <2>2, FencedGrows DEF Leased
  <1>6. CASE RecordSettled(w)
    <2> DEFINE new == [row EXCEPT !.state = "SETTLED",
                                  !.settlement = job[w].row.payment,
                                  !.issuedAt = job[w].now]
    <2>1. /\ FencedUpdate(w, "settled", new, "finish")
          /\ pc[w] = "settled" /\ Knows
      BY <1>6, <1>k DEF RecordSettled, FencedUpdate, Leased
    <2>2. Owns(Mine(w), w) => Follows(row, new)
      BY <2>1 DEF LocalState, SettlingPlaces, RowShape, Proved, Row, Follows,
                  Committed, Successor
    <2> HIDE DEF new
    <2> QED BY <2>1, <2>2, FencedGrows DEF Leased
  <1>7. CASE FinishResult(w) /\ ~UNCHANGED storeVars
    <2>1. PICK p \in Purchases : /\ p = Mine(w)
                                 /\ rows[p] \in Row
                                 /\ rows[p].state = "SETTLED"
                                 /\ resultBytes[p] = None
                                 /\ Finish(p, ResultOf(job[w].row))
      BY <1>7, <1>k DEF FinishResult, MayFinish, Leased
    <2> DEFINE new == [rows[p] EXCEPT !.state = "ISSUED"]
    <2>2. /\ rows' = [rows EXCEPT ![p] = new]
          /\ \A q \in Purchases :
               resultBytes[q] # None => resultBytes'[q] = resultBytes[q]
      BY <1>t, <2>1 DEF Finish, TypeOK, StoreTypeOK
    <2>3. Follows(rows[p], new)
      BY <2>1 DEF Row, Follows, Committed, Successor
    <2> HIDE DEF new
    <2> QED BY <1>t, <2>2, <2>3, GrowsOne
  <1>8. CASE SaveCursor(w) \/ SaveLastCursor(w) \/ RecordDiscovery(w)
    BY <1>3, <1>8 DEF SaveCursor, SaveLastCursor, RecordDiscovery
  <1>9. CASE \/ TakeLease(w) \/ Load(w) \/ Search(w) \/ Confirm(w)
             \/ CallSettle(w) \/ SettleAnswer(w) \/ Release(w)
    BY <1>1, <1>9
    DEF TakeLease, Lease, Load, Search, Confirm, Reconcile, CallSettle,
        SettleAnswer, Release, Unlease, storeVars
  <1>10. CASE FinishResult(w) /\ UNCHANGED storeVars
    BY <1>1, <1>10 DEF storeVars
  <1> HIDE DEF row, Knows
  <1> QED BY <1>2, <1>4, <1>5, <1>6, <1>7, <1>8, <1>9, <1>10 DEF Progress

LEMMA StepGrows == IInv /\ [Next]_vars => Grows
  <1> SUFFICES ASSUME IInv, [Next]_vars PROVE Grows
    OBVIOUS
  <1>1. ASSUME NEW w \in Workers, Evaluation(w) \/ Progress(w)
        PROVE  Grows
    BY <1>1, EvaluationGrows, ProgressGrows
  <1>2. ASSUME UNCHANGED storeVars PROVE Grows
    BY <1>2, GrowsUnchanged DEF storeVars
  <1> QED BY <1>1, <1>2
      DEF Next, Crash, Recover, World, Transfer, Reorganize, Finalize, Tick,
          vars

(* No step takes a purchase back or past a state, and what was quoted, bound, *)
(* settled or issued is never rewritten, so a crash between SETTLED and ISSUED *)
(* cannot change the result (store.mjs, service.mjs).                         *)
THEOREM RowsAdvance == Spec => RowsOnlyAdvance
  <1>1. IInv /\ [Next]_vars =>
          [\A p \in Purchases :
             /\ rows[p].state # rows'[p].state =>
                  /\ rows[p].state # "ISSUED"
                  /\ rows'[p].state = Successor[rows[p].state]
             /\ Committed(rows[p], rows'[p])
             /\ resultBytes[p] # None =>
                  resultBytes'[p] = resultBytes[p]]_storeVars
    BY StepGrows DEF Grows, Follows
  <1> QED BY <1>1, Invariant, PTL DEF Spec, RowsOnlyAdvance

-----------------------------------------------------------------------------
(* The refinement. *)

LedgerBound  == [p \in Purchases |-> rows[p].payment]
LedgerPaid   == {a \in Payments : chain[a] = "final"}
LedgerServed == [p \in Purchases |->
                  IF resultBytes[p] = None THEN None ELSE resultBytes[p].payment]

(* Every step is a step of PurchaseLedger or leaves its variables alone. *)
LedgerStep == [Ledger!LedgerNext]_(Ledger!ledger)

LEMMA LedgerStutter ==
  ASSUME UNCHANGED <<LedgerBound, LedgerPaid, LedgerServed>>
  PROVE  LedgerStep
  BY DEF LedgerStep, LedgerBound, LedgerPaid, LedgerServed, Ledger!ledger

LEMMA LedgerInitial == Init => Ledger!LedgerInit
  BY DEF Init, StoreInit, AbsentRow, Ledger!LedgerInit

(* A row is rewritten without another payment: nothing to see outside. *)
LEMMA SilentStep ==
  ASSUME TypeOK, UNCHANGED chain, UNCHANGED resultBytes,
         \A p \in Purchases : rows'[p].payment = rows[p].payment
  PROVE  LedgerStep
  BY LedgerStutter DEF LedgerBound, LedgerPaid, LedgerServed

LEMMA BindStep ==
  ASSUME TypeOK, UNCHANGED chain, UNCHANGED resultBytes,
         NEW p \in Purchases, NEW a \in Payments, NEW row,
         rows' = [rows EXCEPT ![p] = row], row.payment = a,
         rows[p].payment = None, PaymentIsFree(p, a)
  PROVE  LedgerStep
  <1>1. /\ LedgerBound[p] = None
        /\ \A q \in Purchases : LedgerBound[q] # a
    BY StoreAssumption DEF LedgerBound, PaymentIsFree
  <1>2. LedgerBound' = [LedgerBound EXCEPT ![p] = a]
    BY DEF LedgerBound, TypeOK, StoreTypeOK
  <1>3. UNCHANGED <<LedgerPaid, LedgerServed>>
    BY DEF LedgerPaid, LedgerServed
  <1>4. Ledger!Bind(p, a)
    BY <1>1, <1>2, <1>3
    DEF Ledger!Bind, LedgerBound, LedgerPaid, LedgerServed
  <1> QED BY <1>4 DEF LedgerStep, Ledger!LedgerNext

LEMMA ServeStep ==
  ASSUME TypeOK, UNCHANGED chain, NEW p \in Purchases, NEW bytes \in Result,
         \A q \in Purchases : rows'[q].payment = rows[q].payment,
         resultBytes[p] = None,
         resultBytes' = [resultBytes EXCEPT ![p] = bytes],
         bytes.payment = rows[p].payment, rows[p].payment \in Payments,
         chain[rows[p].payment] = "final"
  PROVE  LedgerStep
  <1>1. LedgerBound[p] \in LedgerPaid /\ LedgerServed[p] = None
    BY DEF LedgerBound, LedgerPaid, LedgerServed
  <1>2. UNCHANGED <<LedgerBound, LedgerPaid>>
    BY DEF LedgerBound, LedgerPaid
  <1>3. bytes # None
    BY ResultAssumption
  <1>4. LedgerServed' = [LedgerServed EXCEPT ![p] = LedgerBound[p]]
    BY <1>3 DEF LedgerServed, LedgerBound, TypeOK, StoreTypeOK
  <1>5. Ledger!Serve(p)
    BY <1>1, <1>2, <1>4 DEF Ledger!Serve, LedgerBound, LedgerPaid, LedgerServed
  <1> QED BY <1>5 DEF LedgerStep, Ledger!LedgerNext

LEMMA ChargeStep ==
  ASSUME IInv, NEW a \in Payments, Finalize(a)
  PROVE  LedgerStep
  <1>1. /\ chain[a] = "mined" /\ chain' = [chain EXCEPT ![a] = "final"]
        /\ UNCHANGED <<LedgerBound, LedgerServed>>
    BY DEF Finalize, storeVars, LedgerBound, LedgerServed
  <1>2. a \notin LedgerPaid /\ LedgerPaid' = LedgerPaid \cup {a}
    BY <1>1 DEF LedgerPaid, IInv, TypeOK, WorldTypeOK
  <1>3. \E p \in Purchases : LedgerBound[p] = a
    BY <1>1 DEF IInv, TypeOK, WorldTypeOK, TransferWasAsked,
                ChargeIsJournaled, LedgerBound
  <1>4. Ledger!Charge(a)
    BY <1>1, <1>2, <1>3
    DEF Ledger!Charge, LedgerBound, LedgerPaid, LedgerServed
  <1> QED BY <1>4 DEF LedgerStep, Ledger!LedgerNext

LEMMA EvaluationLedger ==
  ASSUME IInv, NEW w \in Workers, Evaluation(w)
  PROVE  LedgerStep
  <1>t. TypeOK /\ UNCHANGED chain
    BY DEF IInv, Evaluation, Arrive, EvaluateGet, EvaluateQuote,
           EvaluateVerify, EvaluateReserve, worldVars
  <1>1. CASE UNCHANGED storeVars
    BY <1>t, <1>1, SilentStep DEF storeVars
  <1>2. CASE EvaluateQuote(w) /\ ~UNCHANGED storeVars
    <2>1. PICK p \in Purchases :
            /\ Quote(p, job[w].request, QuoteUntil)
            /\ RowShape(p)
      BY <1>2 DEF EvaluateQuote, Mine, IInv, TypeOK, WorkerTypeOK
    <2>2. UNCHANGED resultBytes
      BY <2>1 DEF Quote
    <2>3. \A q \in Purchases : rows'[q].payment = rows[q].payment
      BY <1>t, <2>1 DEF Quote, QuotedRow, AbsentRow, RowShape, Bound, TypeOK,
                        StoreTypeOK
    <2> QED BY <1>t, <2>2, <2>3, SilentStep
  <1>3. CASE EvaluateReserve(w) /\ ~UNCHANGED storeVars
    <2>1. PICK p \in Purchases, a \in Payments :
            /\ MayReserve(p, job[w].request, a)
            /\ Reserve(p, a, job[w].now)
            /\ rows[p] \in Row /\ RowShape(p)
      BY <1>3
      DEF EvaluateReserve, Mine, IInv, TypeOK, WorkerTypeOK, StoreTypeOK,
          LocalState
    <2> DEFINE row == ReservedRow(p, a, job[w].now)
    <2>2. rows' = [rows EXCEPT ![p] = row] /\ UNCHANGED resultBytes
      BY <2>1 DEF Reserve
    <2>3. CASE rows[p].state = "QUOTED"
      <3>1. row.payment = a
        BY <2>1, <2>3 DEF ReservedRow, Row
      <3>2. rows[p].payment = None /\ PaymentIsFree(p, a)
        BY <2>1, <2>3 DEF RowShape, Bound, MayReserve
      <3> HIDE DEF row
      <3> QED BY <1>t, <2>2, <3>1, <3>2, BindStep
    <2>4. CASE rows[p].state # "QUOTED"
      <3>1. \A q \in Purchases : rows'[q].payment = rows[q].payment
        BY <1>t, <2>2, <2>4 DEF ReservedRow, TypeOK, StoreTypeOK
      <3> QED BY <1>t, <2>2, <3>1, SilentStep
    <2> QED BY <2>3, <2>4
  <1> QED BY <1>1, <1>2, <1>3
      DEF Evaluation, Arrive, EvaluateGet, EvaluateVerify

LEMMA FencedLedger ==
  ASSUME IInv, NEW w \in Workers, NEW from, NEW row, NEW place,
         FencedUpdate(w, from, row, place),
         from \in Leased,
         row.payment = rows[Mine(w)].payment
  PROVE  LedgerStep
  <1>1. UNCHANGED chain /\ TypeOK
    BY DEF FencedUpdate, worldVars, IInv
  <1>2. CASE UNCHANGED storeVars
    BY <1>1, <1>2, SilentStep DEF storeVars
  <1>3. CASE Update(Mine(w), row)
    <2>1. PICK p \in Purchases : p = Mine(w)
      BY HoldsPurchase DEF FencedUpdate
    <2>2. /\ UNCHANGED resultBytes
          /\ \A q \in Purchases : rows'[q].payment = rows[q].payment
      BY <1>1, <1>3, <2>1 DEF Update, TypeOK, StoreTypeOK
    <2> QED BY <1>1, <2>2, SilentStep
  <1> QED BY <1>2, <1>3 DEF FencedUpdate

LEMMA ProgressLedger ==
  ASSUME IInv, NEW w \in Workers, Progress(w)
  PROVE  LedgerStep
  <1>t. TypeOK
    BY DEF IInv
  <1> DEFINE row == rows[Mine(w)]
  <1>k. pc[w] \in Leased => Mine(w) \in Purchases /\ row \in Row
    BY HoldsPurchase
  <1>1. CASE UNCHANGED <<rows, resultBytes, chain>>
    BY <1>t, <1>1, SilentStep
  <1>2. ASSUME NEW from \in Leased, NEW place, NEW new,
               FencedUpdate(w, from, new, place),
               \/ new = row
               \/ new = [row EXCEPT !.state = "SETTLING"]
               \/ new = [row EXCEPT !.nextAttempt = job[w].now + RetryDelay]
               \/ new = [row EXCEPT !.hint = job[w].hash]
               \/ new = [row EXCEPT !.state = "SETTLED",
                                    !.settlement = job[w].row.payment,
                                    !.issuedAt = job[w].now]
        PROVE  LedgerStep
    <2>1. row \in Row
      BY <1>2, <1>k DEF FencedUpdate
    <2>2. new.payment = row.payment
      BY <1>2, <2>1 DEF Row
    <2> QED BY <1>2, <2>2, FencedLedger
  <1>3. CASE \/ MarkSettling(w) \/ SaveCursor(w) \/ SaveLastCursor(w)
             \/ RecordDiscovery(w) \/ RecordHint(w) \/ RecordSettled(w)
    BY <1>2, <1>3
    DEF MarkSettling, SaveCursor, SaveLastCursor, RecordDiscovery, RecordHint,
        RecordSettled, Leased
  <1>4. CASE Attempt(w)
    BY <1>1, <1>2, <1>4 DEF Attempt, Leased, storeVars, worldVars
  <1>5. CASE FinishResult(w)
    <2>1. UNCHANGED chain /\ pc[w] = "finish"
      BY <1>5 DEF FinishResult, worldVars
    <2>2. CASE UNCHANGED storeVars
      BY <1>1, <2>1, <2>2 DEF storeVars
    <2>3. CASE ~UNCHANGED storeVars
      <3>1. PICK p \in Purchases :
              /\ p = Mine(w) /\ rows[p] \in Row /\ RowShape(p)
              /\ rows[p].state = "SETTLED"
              /\ resultBytes[p] = None
              /\ job[w].row = rows[p]
              /\ Finish(p, ResultOf(rows[p]))
        BY <1>5, <2>1, <2>3, HoldsPurchase
        DEF FinishResult, MayFinish, Leased
      <3>2. /\ ResultOf(rows[p]) \in Result
            /\ ResultOf(rows[p]).payment = rows[p].payment
        BY <3>1, ResultOfType DEF ResultOf
      <3>3. /\ rows[p].payment \in Payments
            /\ chain[rows[p].payment] = "final"
        BY <3>1 DEF RowShape, Bound, Proved
      <3>4. /\ \A q \in Purchases : rows'[q].payment = rows[q].payment
            /\ resultBytes' = [resultBytes EXCEPT ![p] = ResultOf(rows[p])]
        BY <1>t, <3>1 DEF Finish, TypeOK, StoreTypeOK, Row
      <3> QED BY <1>t, <2>1, <3>1, <3>2, <3>3, <3>4, ServeStep
    <2> QED BY <2>2, <2>3
  <1>6. CASE \/ TakeLease(w) \/ Load(w) \/ Search(w) \/ Confirm(w)
             \/ CallSettle(w) \/ SettleAnswer(w) \/ Release(w)
    BY <1>1, <1>6
    DEF TakeLease, Lease, Load, Search, Confirm, Reconcile, CallSettle,
        SettleAnswer, Release, Unlease, storeVars, worldVars
  <1> HIDE DEF row
  <1> QED BY <1>3, <1>4, <1>5, <1>6 DEF Progress

LEMMA StepLedger == IInv /\ [Next]_vars => LedgerStep
  <1> SUFFICES ASSUME IInv, [Next]_vars PROVE LedgerStep
    OBVIOUS
  <1>t. TypeOK
    BY DEF IInv
  <1>1. ASSUME NEW w \in Workers, Evaluation(w) \/ Progress(w)
        PROVE  LedgerStep
    BY <1>1, EvaluationLedger, ProgressLedger
  <1>2. CASE UNCHANGED <<storeVars, chain>>
    BY <1>t, <1>2, SilentStep DEF storeVars
  <1>3. ASSUME NEW a \in Payments, Transfer(a) \/ Reorganize(a)
        PROVE  LedgerStep
    <2>1. UNCHANGED <<LedgerBound, LedgerServed>>
      BY <1>3 DEF Transfer, Reorganize, storeVars, LedgerBound, LedgerServed
    <2>2. UNCHANGED LedgerPaid
      BY <1>t, <1>3
      DEF Transfer, Reorganize, LedgerPaid, TypeOK, WorldTypeOK
    <2> QED BY <2>1, <2>2, LedgerStutter
  <1>4. ASSUME NEW a \in Payments, Finalize(a)
        PROVE  LedgerStep
    BY <1>4, ChargeStep
  <1> QED BY <1>1, <1>2, <1>3, <1>4
      DEF Next, Crash, Recover, World, Tick, vars, worldVars

(* Seen from outside, the service is PurchaseLedger: with any number of     *)
(* requests, crashes and lost answers a purchase has one payment, that      *)
(* payment moves once, and one result follows it (service.mjs, store.mjs).  *)
THEOREM ImplementsLedger == Spec => LedgerSpec
  <1>1. Init => Ledger!LedgerInit
    BY LedgerInitial
  <1>2. IInv /\ [Next]_vars => [Ledger!LedgerNext]_(Ledger!ledger)
    BY StepLedger DEF LedgerStep
  <1> QED BY <1>1, <1>2, Invariant, PTL DEF Spec, LedgerSpec, Ledger!LedgerSpec
=============================================================================
