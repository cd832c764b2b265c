------------------------------ MODULE Succession ------------------------------
(***************************************************************************)
(* How control of the record WHP-REC-001-CPI passes on: transition()       *)
(* (src/cpi/state-transition.mjs) with the settlement verifier that comes  *)
(* with it (src/cpi/base-settlement-verifier.mjs), against the registry it *)
(* is given.                                                               *)
(*                                                                         *)
(* Every check of transition() is an await of its own, before the one      *)
(* compare-and-set; several transitions run at once and no check is        *)
(* repeated. A state of the record holds the hash of the one before it, so *)
(* its version stands for its hash. The caller's `current' is a copy of    *)
(* any state there ever was: copies stay ACTIVE.                           *)
(***************************************************************************)
EXTENDS Integers, Sequences

CONSTANTS
  Workers, Controllers, Nonces,
  Founder,        \* the controller of the genesis state
  Payments,       \* transfers of the right amount to the right recipient
  Confirmations,  \* minConfirmations: 12
  MaxHeight,      \* bound: blocks of the chain
  MaxVersion      \* bound: states of the record

ASSUME SuccessionAssumption ==
  /\ Founder \in Controllers
  /\ Payments # {} /\ Nonces # {}
  /\ {Confirmations, MaxHeight, MaxVersion} \subseteq Nat

VARIABLES
  admitted,  \* the registry: the intents that led from state to state
  height,    \* latest block
  final,     \* latest block that is final
  mined,     \* the block of each payment, 0 when there is none
  pc,        \* the await each transition is at
  job        \* what it was called with and what it has been told

chain == <<height, final, mined>>
vars == <<admitted, chain, pc, job>>

(* The transfer of control from state `version', as `signer' signed it:     *)
(* anyone may sign anything.                                                *)
Intent == [version: Nat, signer: Controllers, successor: Controllers,
           payment: Payments, nonce: Nonces]

Places == {"idle", "successor", "nonce", "receipt", "head", "replay",
           "signature", "commit"}

(* `block' is the block of the receipt. *)
Job == [intent: Intent, block: Nat]

NoJob == [intent |-> [version |-> 0, signer |-> Founder, successor |-> Founder,
                      payment |-> CHOOSE p \in Payments : TRUE,
                      nonce |-> CHOOSE n \in Nonces : TRUE],
          block |-> 0]

TypeOK ==
  /\ admitted \in Seq(Intent)
  /\ height \in Nat /\ final \in 0..height
  /\ mined \in [Payments -> 0..height]
  /\ pc \in [Workers -> Places]
  /\ job \in [Workers -> Job]
  /\ \A w \in Workers : job[w].intent.version <= Len(admitted)

Init ==
  /\ admitted = <<>>
  /\ height = 0 /\ final = 0
  /\ mined = [p \in Payments |-> 0]
  /\ pc = [w \in Workers |-> "idle"]
  /\ job = [w \in Workers |-> NoJob]

Current == Len(admitted)

Controller(version) ==
  IF version = 0 THEN Founder ELSE admitted[version].successor

Wanted(w) == job[w].intent

-----------------------------------------------------------------------------
(* transition() is called with some state and an intent about that state. The *)
(* registry is not asked whether it knows the state; the caller read it there.*)
KnownStates == 0..Current

Start(w) ==
  /\ pc[w] = "idle"
  /\ \E version \in KnownStates, signer, successor \in Controllers,
        payment \in Payments, nonce \in Nonces :
       job' = [job EXCEPT ![w] =
                 [intent |-> [version |-> version, signer |-> signer,
                              successor |-> successor, payment |-> payment,
                              nonce |-> nonce],
                  block  |-> 0]]
  /\ pc' = [pc EXCEPT ![w] = "successor"]
  /\ UNCHANGED <<admitted, chain>>

(* One check: it passes, or transition() throws. *)
Check(w, place, passes, next) ==
  /\ pc[w] = place
  /\ passes
  /\ pc' = [pc EXCEPT ![w] = next]
  /\ UNCHANGED <<admitted, chain, job>>

(* registry.hasSuccessor, hasNonce, hasSettlementTx *)
HasSuccessor(version) == version < Current

HasNonce(nonce) == \E v \in DOMAIN admitted : admitted[v].nonce = nonce

HasNoPayment(payment) == FALSE                     \* faulty: replay unchecked

HasPayment(payment) == \E v \in DOMAIN admitted : admitted[v].payment = payment

CheckSuccessor(w) ==
  Check(w, "successor", ~HasSuccessor(Wanted(w).version), "nonce")

CheckNonce(w) == Check(w, "nonce", ~HasNonce(Wanted(w).nonce), "receipt")

(* verifySettlement: eth_getTransactionReceipt, then eth_blockNumber; the   *)
(* receipt is not read again.                                               *)
GetReceipt(w) ==
  /\ pc[w] = "receipt"
  /\ mined[Wanted(w).payment] # 0
  /\ job' = [job EXCEPT ![w].block = mined[Wanted(w).payment]]
  /\ pc' = [pc EXCEPT ![w] = "head"]
  /\ UNCHANGED <<admitted, chain>>

Confirmed(block) == height - block + 1 >= Confirmations

CheckConfirmations(w) == Check(w, "head", Confirmed(job[w].block), "replay")

CheckReplay(w) == Check(w, "replay", ~HasPayment(Wanted(w).payment), "signature")

(* verifySignature, for the controller named in the caller's `current'. *)
AuthorizedBySomebody(intent) == TRUE               \* faulty: any signature will do

Authorized(intent) == intent.signer = Controller(intent.version)

CheckSignature(w) == Check(w, "signature", Authorized(Wanted(w)), "commit")

(* registry.compareAndSet: rejects a predecessor that is not current. *)
StillSomePredecessor(intent) == intent.version <= Current  \* faulty: no comparison

IsCurrent(intent) == intent.version = Current

CompareAndSet(w) ==
  /\ pc[w] = "commit"
  /\ Current < MaxVersion
  /\ IsCurrent(Wanted(w))
  /\ admitted' = Append(admitted, Wanted(w))
  /\ pc' = [pc EXCEPT ![w] = "idle"]
  /\ job' = [job EXCEPT ![w] = NoJob]
  /\ UNCHANGED chain

(* A check fails, an answer does not come, the process dies. *)
Stop(w) ==
  /\ pc[w] # "idle"
  /\ pc' = [pc EXCEPT ![w] = "idle"]
  /\ job' = [job EXCEPT ![w] = NoJob]
  /\ UNCHANGED <<admitted, chain>>

-----------------------------------------------------------------------------
(* The chain: blocks that are not final may be replaced, with what they held. *)
Mine ==
  /\ height < MaxHeight
  /\ height' = height + 1
  /\ \E included \in SUBSET {p \in Payments : mined[p] = 0} :
       mined' = [p \in Payments |-> IF p \in included THEN height + 1 ELSE mined[p]]
  /\ UNCHANGED <<admitted, final, pc, job>>

Finalize ==
  /\ final < height
  /\ final' = final + 1
  /\ UNCHANGED <<admitted, height, mined, pc, job>>

Reorganize ==
  /\ final < height
  /\ mined' = [p \in Payments |-> IF mined[p] > final THEN 0 ELSE mined[p]]
  /\ UNCHANGED <<admitted, height, final, pc, job>>

Transition(w) ==
  \/ Start(w) \/ CheckSuccessor(w) \/ CheckNonce(w) \/ GetReceipt(w)
  \/ CheckConfirmations(w) \/ CheckReplay(w) \/ CheckSignature(w)
  \/ CompareAndSet(w) \/ Stop(w)

Next ==
  \/ \E w \in Workers : Transition(w)
  \/ Mine \/ Finalize \/ Reorganize

Spec == Init /\ [][Next]_vars

-----------------------------------------------------------------------------
(* One payment buys one succession and one nonce serves once, although both  *)
(* are looked up awaits before the compare-and-set, which compares only the  *)
(* predecessor (state-transition.mjs:41,50,64).                              *)
NothingReplayed ==
  \A u, v \in DOMAIN admitted :
    u # v => /\ admitted[u].payment # admitted[v].payment
             /\ admitted[u].nonce # admitted[v].nonce

(* Every state was handed on by the controller of the state before it, for   *)
(* that state: a signature given in an earlier turn of control, and          *)
(* transitions checked against a state that has been succeeded since, pass   *)
(* nothing on (cpi/control-proof-agreement.md, "duplicate fork").            *)
ControlPassesInLine ==
  \A v \in DOMAIN admitted :
    /\ admitted[v].version = v - 1
    /\ admitted[v].signer = Controller(v - 1)
=============================================================================
