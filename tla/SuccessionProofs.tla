--------------------------- MODULE SuccessionProofs ---------------------------
(***************************************************************************)
(* Proofs about Succession, for any number of transitions, controllers,    *)
(* payments and nonces. The checks of transition() are out of date when    *)
(* the compare-and-set runs; what is kept of them is that they still hold  *)
(* as long as the state they were made about is the current one.           *)
(***************************************************************************)
EXTENDS Succession, TLAPS

NonceChecked == {"receipt", "head", "replay", "signature", "commit"}

PaymentChecked == {"signature", "commit"}

ChecksHold(w) ==
  /\ pc[w] \in NonceChecked /\ Wanted(w).version = Current => ~HasNonce(Wanted(w).nonce)
  /\ pc[w] \in PaymentChecked /\ Wanted(w).version = Current =>
       ~HasPayment(Wanted(w).payment)
  /\ pc[w] = "commit" => Authorized(Wanted(w))

IInv ==
  /\ TypeOK
  /\ NothingReplayed
  /\ ControlPassesInLine
  /\ \A w \in Workers : ChecksHold(w)

-----------------------------------------------------------------------------
LEMMA NoJobType == NoJob \in Job /\ NoJob.intent.version = 0
  <1>1. /\ (CHOOSE p \in Payments : TRUE) \in Payments
        /\ (CHOOSE n \in Nonces : TRUE) \in Nonces
    BY SuccessionAssumption
  <1> QED BY <1>1, SuccessionAssumption DEF NoJob, Job, Intent

LEMMA InitEstablishes == Init => IInv
  <1> SUFFICES ASSUME Init PROVE IInv
    OBVIOUS
  <1>1. TypeOK
    BY NoJobType DEF Init, TypeOK, Places, Intent
  <1>2. NothingReplayed /\ ControlPassesInLine
    BY DEF Init, NothingReplayed, ControlPassesInLine
  <1>3. \A w \in Workers : ChecksHold(w)
    BY DEF Init, ChecksHold, NonceChecked, PaymentChecked
  <1> QED BY <1>1, <1>2, <1>3 DEF IInv

(* As long as the registry does not change, only the worker that moves has   *)
(* something to show.                                                        *)
LEMMA SameRegistry ==
  ASSUME IInv, UNCHANGED admitted, NEW w \in Workers,
         \A u \in Workers \ {w} : pc'[u] = pc[u] /\ job'[u] = job[u],
         TypeOK', ChecksHold(w)'
  PROVE  IInv'
  <1>1. NothingReplayed' /\ ControlPassesInLine'
    BY DEF IInv, NothingReplayed, ControlPassesInLine, Controller
  <1>2. ASSUME NEW u \in Workers PROVE ChecksHold(u)'
    <2>1. CASE u = w
      BY <2>1
    <2>2. CASE u # w
      BY <2>2 DEF IInv, ChecksHold, Wanted, Current, HasNonce, HasPayment,
                  Authorized, Controller
    <2> QED BY <2>1, <2>2
  <1> QED BY <1>1, <1>2 DEF IInv

LEMMA ChainSteps ==
  ASSUME IInv, Mine \/ Finalize \/ Reorganize
  PROVE  IInv'
  <1>1. UNCHANGED <<admitted, pc, job>>
    BY DEF Mine, Finalize, Reorganize
  <1>2. /\ height' \in Nat /\ final' \in 0..height'
        /\ mined' \in [Payments -> 0..height']
    <2>1. CASE Mine
      BY <2>1 DEF Mine, IInv, TypeOK
    <2>2. CASE Finalize
      BY <2>2 DEF Finalize, IInv, TypeOK
    <2>3. CASE Reorganize
      BY <2>3 DEF Reorganize, IInv, TypeOK
    <2> QED BY <2>1, <2>2, <2>3
  <1>3. TypeOK'
    BY <1>1, <1>2 DEF IInv, TypeOK
  <1> QED BY <1>1, <1>3 DEF IInv, NothingReplayed, ControlPassesInLine, Controller,
        ChecksHold, Wanted, Current, HasNonce, HasPayment, Authorized

LEMMA StartStep ==
  ASSUME IInv, NEW w \in Workers, Start(w)
  PROVE  IInv'
  <1>1. PICK i \in Intent :
          /\ i.version <= Len(admitted)
          /\ job' = [job EXCEPT ![w] = [intent |-> i, block |-> 0]]
    <2>1. PICK version \in KnownStates, signer \in Controllers,
               successor \in Controllers, payment \in Payments, nonce \in Nonces :
            job' = [job EXCEPT ![w] =
                 [intent |-> [version |-> version, signer |-> signer,
                              successor |-> successor, payment |-> payment,
                              nonce |-> nonce],
                  block  |-> 0]]
      BY DEF Start
    <2>2. version \in Nat /\ version <= Len(admitted)
      BY DEF KnownStates, Current, IInv, TypeOK
    <2> QED BY <2>1, <2>2 DEF Intent
  <1>2. UNCHANGED <<admitted, chain>> /\ pc' = [pc EXCEPT ![w] = "successor"]
    BY DEF Start
  <1>3. [intent |-> i, block |-> 0] \in Job
    BY DEF Job
  <1>4. TypeOK'
    BY <1>1, <1>2, <1>3 DEF IInv, TypeOK, chain, Places
  <1>5. ChecksHold(w)'
    BY <1>2 DEF ChecksHold, NonceChecked, PaymentChecked, IInv, TypeOK
  <1> QED BY <1>1, <1>2, <1>4, <1>5, SameRegistry DEF IInv, TypeOK

LEMMA CheckSteps ==
  ASSUME IInv, NEW w \in Workers,
         \/ CheckSuccessor(w) \/ CheckNonce(w) \/ CheckConfirmations(w)
         \/ CheckReplay(w) \/ CheckSignature(w)
  PROVE  IInv'
  <1>1. /\ UNCHANGED <<admitted, chain, job>>
        /\ \E next \in Places : pc' = [pc EXCEPT ![w] = next]
    BY DEF CheckSuccessor, CheckNonce, CheckConfirmations, CheckReplay,
           CheckSignature, Check, Places
  <1>2. TypeOK'
    BY <1>1 DEF IInv, TypeOK, chain
  <1>3. Wanted(w)' = Wanted(w) /\ Current' = Current
    BY <1>1 DEF Wanted, Current
  <1>4. ChecksHold(w)'
    <2> USE DEF NonceChecked, PaymentChecked
    <2>1. CASE CheckSuccessor(w)
      BY <2>1 DEF CheckSuccessor, Check, ChecksHold, IInv, TypeOK
    <2>2. CASE CheckNonce(w)
      BY <2>2, <1>1, <1>3 DEF CheckNonce, Check, ChecksHold, HasNonce, IInv, TypeOK
    <2>3. CASE CheckConfirmations(w)
      BY <2>3, <1>1, <1>3 DEF CheckConfirmations, Check, ChecksHold, HasNonce,
                              IInv, TypeOK
    <2>4. CASE CheckReplay(w)
      BY <2>4, <1>1, <1>3 DEF CheckReplay, Check, ChecksHold, HasNonce, HasPayment,
                              IInv, TypeOK
    <2>5. CASE CheckSignature(w)
      BY <2>5, <1>1, <1>3 DEF CheckSignature, Check, ChecksHold, HasNonce,
            HasPayment, Authorized, Controller, IInv, TypeOK
    <2> QED BY <2>1, <2>2, <2>3, <2>4, <2>5
  <1> QED BY <1>1, <1>2, <1>4, SameRegistry DEF IInv, TypeOK

LEMMA ReceiptStep ==
  ASSUME IInv, NEW w \in Workers, GetReceipt(w)
  PROVE  IInv'
  <1>1. /\ UNCHANGED <<admitted, chain>>
        /\ pc[w] = "receipt" /\ pc' = [pc EXCEPT ![w] = "head"]
        /\ job' = [job EXCEPT ![w].block = mined[Wanted(w).payment]]
    BY DEF GetReceipt
  <1>2. mined[Wanted(w).payment] \in Nat
    BY DEF Wanted, IInv, TypeOK, Job, Intent
  <1>3. job' \in [Workers -> Job] /\ Wanted(w)' = Wanted(w)
    BY <1>1, <1>2 DEF IInv, TypeOK, Job, Wanted
  <1>4. \A u \in Workers : job'[u].intent = job[u].intent
    BY <1>1 DEF IInv, TypeOK, Job
  <1>5. TypeOK'
    BY <1>1, <1>3, <1>4 DEF IInv, TypeOK, chain, Places
  <1>6. ChecksHold(w)'
    BY <1>1, <1>3 DEF ChecksHold, NonceChecked, PaymentChecked, HasNonce, Current,
                      IInv, TypeOK
  <1> QED BY <1>1, <1>5, <1>6, SameRegistry DEF IInv, TypeOK

LEMMA StopStep ==
  ASSUME IInv, NEW w \in Workers, Stop(w)
  PROVE  IInv'
  <1>1. /\ UNCHANGED <<admitted, chain>> /\ pc' = [pc EXCEPT ![w] = "idle"]
        /\ job' = [job EXCEPT ![w] = NoJob]
    BY DEF Stop
  <1>2. TypeOK'
    BY <1>1, NoJobType DEF IInv, TypeOK, chain, Places
  <1>3. ChecksHold(w)'
    BY <1>1 DEF ChecksHold, NonceChecked, PaymentChecked, IInv, TypeOK
  <1> QED BY <1>1, <1>2, <1>3, SameRegistry DEF IInv, TypeOK

(* The new state's nonce and payment are new because the checks were made    *)
(* about the state that is still current; every other check in progress is   *)
(* about a state that no longer is.                                          *)
LEMMA CommitStep ==
  ASSUME IInv, NEW w \in Workers, CompareAndSet(w)
  PROVE  IInv'
  <1> DEFINE i == Wanted(w)
             k == Len(admitted)
  <1>1. /\ pc[w] = "commit" /\ i.version = k
        /\ admitted' = Append(admitted, i)
        /\ pc' = [pc EXCEPT ![w] = "idle"]
        /\ job' = [job EXCEPT ![w] = NoJob]
        /\ UNCHANGED chain
    BY DEF CompareAndSet, IsCurrent, Current
  <1>2. i \in Intent /\ admitted \in Seq(Intent) /\ k \in Nat
    BY DEF IInv, TypeOK, Job, Wanted
  <1>3. /\ admitted' \in Seq(Intent) /\ Len(admitted') = k + 1
        /\ \A v \in 1..k : admitted'[v] = admitted[v]
        /\ admitted'[k + 1] = i
    BY <1>1, <1>2
  <1>4. /\ ~HasNonce(i.nonce) /\ ~HasPayment(i.payment) /\ Authorized(i)
    BY <1>1 DEF IInv, ChecksHold, NonceChecked, PaymentChecked, Current
  <1>5. TypeOK'
    <2>1. \A u \in Workers : job'[u].intent.version <= k + 1
      BY <1>1, <1>2, NoJobType DEF IInv, TypeOK, Job, Intent
    <2> QED BY <1>1, <1>3, <2>1, NoJobType DEF IInv, TypeOK, chain, Places
  <1>6. NothingReplayed'
    <2> SUFFICES ASSUME NEW u \in 1..(k + 1), NEW v \in 1..(k + 1), u # v
                 PROVE  /\ admitted'[u].payment # admitted'[v].payment
                        /\ admitted'[u].nonce # admitted'[v].nonce
      BY <1>3 DEF NothingReplayed
    <2>1. CASE u \in 1..k /\ v \in 1..k
      BY <2>1, <1>2, <1>3 DEF IInv, NothingReplayed
    <2>2. CASE u = k + 1
      BY <2>2, <1>2, <1>3, <1>4 DEF HasNonce, HasPayment
    <2>3. CASE v = k + 1
      BY <2>3, <1>2, <1>3, <1>4 DEF HasNonce, HasPayment
    <2> QED BY <1>2, <2>1, <2>2, <2>3
  <1>7. \A v \in 0..k : Controller(v)' = Controller(v)
    BY <1>2, <1>3 DEF Controller
  <1>8. ControlPassesInLine'
    <2> SUFFICES ASSUME NEW v \in 1..(k + 1)
                 PROVE  /\ admitted'[v].version = v - 1
                        /\ admitted'[v].signer = Controller(v - 1)'
      BY <1>3 DEF ControlPassesInLine
    <2>1. CASE v \in 1..k
      BY <2>1, <1>2, <1>3, <1>7 DEF IInv, ControlPassesInLine
    <2>2. CASE v = k + 1
      BY <2>2, <1>1, <1>2, <1>3, <1>4, <1>7 DEF Authorized
    <2> QED BY <1>2, <2>1, <2>2
  <1>9. ASSUME NEW u \in Workers PROVE ChecksHold(u)'
    <2>1. CASE u = w
      BY <2>1, <1>1 DEF ChecksHold, NonceChecked, PaymentChecked, IInv, TypeOK
    <2>2. CASE u # w
      <3>1. pc'[u] = pc[u] /\ Wanted(u)' = Wanted(u)
        BY <2>2, <1>1 DEF IInv, TypeOK, Wanted
      <3>2. Wanted(u).version \in 0..k
        BY <1>2 DEF IInv, TypeOK, Job, Intent, Wanted
      <3>3. Wanted(u)'.version # Current'
        BY <1>2, <1>3, <3>1, <3>2 DEF Current
      <3>4. pc'[u] = "commit" => Authorized(Wanted(u))'
        BY <3>1, <3>2, <1>7 DEF IInv, ChecksHold, Authorized
      <3> QED BY <3>3, <3>4 DEF ChecksHold
    <2> QED BY <2>1, <2>2
  <1> QED BY <1>5, <1>6, <1>8, <1>9 DEF IInv

LEMMA StutterStep == ASSUME IInv, UNCHANGED vars PROVE IInv'
  BY DEF vars, chain, IInv, TypeOK, NothingReplayed, ControlPassesInLine, Controller,
         ChecksHold, Wanted, Current, HasNonce, HasPayment, Authorized

-----------------------------------------------------------------------------
(* The inductive invariant of concurrent transitions (state-transition.mjs,  *)
(* transition()).                                                            *)
THEOREM SuccessionInvariant == Spec => []IInv
  <1>1. IInv /\ [Next]_vars => IInv'
    <2> SUFFICES ASSUME IInv, [Next]_vars PROVE IInv'
      OBVIOUS
    <2>1. ASSUME NEW w \in Workers, Transition(w) PROVE IInv'
      BY <2>1, StartStep, CheckSteps, ReceiptStep, CommitStep, StopStep
         DEF Transition
    <2>2. CASE Mine \/ Finalize \/ Reorganize
      BY <2>2, ChainSteps
    <2>3. CASE UNCHANGED vars
      BY <2>3, StutterStep
    <2> QED BY <2>1, <2>2, <2>3 DEF Next
  <1> QED BY <1>1, InitEstablishes, PTL DEF Spec

(* The registry, the chain and every transition keep their types.            *)
THEOREM SuccessionTypeCorrect == Spec => []TypeOK
  BY SuccessionInvariant, PTL DEF IInv

(* No payment and no nonce is used for two successions, whatever the checks  *)
(* saw before the compare-and-set (state-transition.mjs:40-65).              *)
THEOREM EachPaidOnce == Spec => []NothingReplayed
  BY SuccessionInvariant, PTL DEF IInv

(* Each state is handed on by its own controller, in one line.               *)
THEOREM OneLineOfControl == Spec => []ControlPassesInLine
  BY SuccessionInvariant, PTL DEF IInv
=============================================================================
