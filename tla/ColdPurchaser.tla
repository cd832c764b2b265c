---------------------------- MODULE ColdPurchaser ----------------------------
(***************************************************************************)
(* The purchaser without a client library (src/scripts/cold-purchaser.mjs): *)
(* it finds the service through a Mark it was handed or a catalog, pays    *)
(* with a standard x402 client and its owner's wallet, and keeps what it   *)
(* must not lose in files of its working directory.                        *)
(*                                                                         *)
(* One process runs the command at a time. It may die at any await, and    *)
(* then only the files are left; a checkpoint replaces its file at once.   *)
(* The Mark that was handed over may lose its standing at any time.        *)
(***************************************************************************)
EXTENDS Integers, PurchaserFiles

CONSTANTS
  References,  \* client references it may draw; each is a submission
  MaxSigned    \* bound: signatures of the wallet

VARIABLES
  standing,    \* whether the registry calls the Mark ACTIVE
  acquired,    \* mark.json was written
  rows,        \* the service's row of each submission
  lapsed,      \* submissions whose quote has expired
  place        \* the await the process is at

files == <<task, saved, acquired>>
outside == <<interaction, standing, signatures, requests, rows, lapsed>>
vars == <<files, outside, place, local>>

NoReference == "none"

ASSUME ColdAssumption ==
  References # {} /\ NoReference \notin References /\ MaxSigned \in Nat

NoPayment == [reference |-> NoReference, nonce |-> 0]

Payment == [reference: References, nonce: 1..MaxSigned]

Task == [submission: References \cup {NoReference}, calls: Nat, admitted: BOOLEAN]

ServerRow == [state: {"ABSENT", "QUOTED", "BOUND", "ISSUED"}, nonce: 0..MaxSigned]

Places == {"idle", "resolve", "encounter", "prepare", "quote", "wallet", "sign",
           "save", "pay", "result", "recover", "verify"}

(* `checked' and `eligible': this process saw the Mark ACTIVE, and was told   *)
(* that its object can be marked; no code reads them.                         *)
Local == [checked: BOOLEAN, eligible: BOOLEAN, nonce: 0..MaxSigned]

TypeOK ==
  /\ interaction \in BOOLEAN /\ standing \in BOOLEAN /\ acquired \in BOOLEAN
  /\ task \in Task
  /\ saved \in Payment \cup {NoPayment}
  /\ signatures \subseteq Payment /\ requests \subseteq Payment
  /\ rows \in [References -> ServerRow]
  /\ lapsed \subseteq References
  /\ place \in Places
  /\ local \in Local

Nothing == [checked |-> FALSE, eligible |-> FALSE, nonce |-> 0]

Init ==
  /\ interaction \in BOOLEAN
  /\ standing = TRUE
  /\ task = [submission |-> NoReference, calls |-> 0, admitted |-> FALSE]
  /\ saved = NoPayment
  /\ acquired = FALSE
  /\ signatures = {} /\ requests = {}
  /\ rows = [r \in References |-> [state |-> "ABSENT", nonce |-> 0]]
  /\ lapsed = {}
  /\ place = "idle"
  /\ local = Nothing

Goto(p) == place' = p /\ UNCHANGED local

(* run() returns or throws. *)
Leave == place' = "idle" /\ local' = Nothing

-----------------------------------------------------------------------------
(* The files are read; a saved payment must be for the submission of the job. *)
Start ==
  /\ place = "idle"
  /\ saved = NoPayment \/ saved.reference = task.submission
  /\ Goto("resolve")
  /\ UNCHANGED <<files, outside>>

(* An authorized purchase resumes the admission made before payment. *)
ResumesAlways == task.admitted                    \* faulty: an older run's will do

ResumesNever == FALSE                             \* faulty: admitted once more

Resumes == saved # NoPayment /\ task.admitted

(* resolveCapability(), from the Mark or from the catalog. *)
Resolve ==
  /\ place = "resolve"
  /\ Goto(IF interaction /\ ~Resumes THEN "encounter" ELSE "prepare")
  /\ UNCHANGED <<files, outside>>

(* verifyArtifact() of the encountered Mark: only an ACTIVE one admits. *)
Active == standing

Encounter ==
  /\ place = "encounter"
  /\ IF Active
       THEN /\ task' = [task EXCEPT !.admitted = TRUE]
            /\ local' = [local EXCEPT !.checked = TRUE]
            /\ place' = "prepare"
       ELSE Leave /\ UNCHANGED task
  /\ UNCHANGED <<saved, acquired, outside>>

(* signTypedData() counts its calls in job.json before it asks the wallet. *)
NothingSaved == saved = NoPayment                 \* faulty: counts saved payments

WalletUnasked == task.calls = 0

(* The submission is drawn once. Without a saved payment a wallet that was    *)
(* asked is not asked again, and the purchase is left to its owner.           *)
Prepare ==
  /\ place = "prepare"
  /\ IF task.submission = NoReference
       THEN \E r \in References : task' = [task EXCEPT !.submission = r]
       ELSE UNCHANGED task
  /\ \/ saved # NoPayment /\ Goto("result")
     \/ saved = NoPayment /\ WalletUnasked /\ Goto("quote")
     \/ saved = NoPayment /\ ~WalletUnasked /\ Leave
  /\ UNCHANGED <<saved, acquired, outside>>

(* The unpaid request: 402 with the terms, or an error. *)
Quote ==
  LET r == task.submission IN
  /\ place = "quote"
  /\ rows' = IF rows[r].state = "ABSENT" THEN [rows EXCEPT ![r].state = "QUOTED"]
                                         ELSE rows
  /\ \/ /\ rows[r].state \in {"ABSENT", "QUOTED"} /\ r \notin lapsed
        /\ place' = "wallet"
        /\ local' = [local EXCEPT !.eligible = TRUE]
     \/ Leave                                     \* ELIGIBILITY_NOT_ESTABLISHED
  /\ UNCHANGED <<files, interaction, standing, signatures, requests, lapsed>>

(* signTypedData(): the call is counted, within the owner's policy, ... *)
AskWallet ==
  /\ place = "wallet"
  /\ \/ /\ WalletUnasked
        /\ task' = [task EXCEPT !.calls = @ + 1]
        /\ Goto("sign")
     \/ UNCHANGED task /\ Leave
  /\ UNCHANGED <<saved, acquired, outside>>

(* ... the wallet signs with a nonce that the x402 client drew, ... *)
Sign ==
  /\ place = "sign"
  /\ \E nonce \in 1..MaxSigned :
       /\ \A payment \in signatures : payment.nonce # nonce
       /\ signatures' = signatures \cup {[reference |-> task.submission, nonce |-> nonce]}
       /\ local' = [local EXCEPT !.nonce = nonce]
  /\ place' = "save"
  /\ UNCHANGED <<files, interaction, standing, requests, rows, lapsed>>

(* ... and onAfterPaymentCreation() saves the payment before it is sent. *)
Save ==
  /\ place = "save"
  /\ saved' = [reference |-> task.submission, nonce |-> local.nonce]
  /\ Goto("pay")
  /\ UNCHANGED <<task, acquired, outside>>

(* What the service makes of a payment: it binds one before the quote expires. *)
Served(r, nonce) ==
  LET row == rows[r] IN
  {row} \cup
  {[state |-> s, nonce |-> nonce] :
     s \in IF row.state = "QUOTED" /\ r \notin lapsed THEN {"BOUND", "ISSUED"}
                                                      ELSE {}} \cup
  {[row EXCEPT !.state = "ISSUED"] :
     s \in IF row.state = "BOUND" /\ row.nonce = nonce THEN {1} ELSE {}}

(* The paid request, by the x402 client or after a restart. *)
Pay ==
  LET r == task.submission IN
  /\ place = "pay"
  /\ requests' = requests \cup {[reference |-> r, nonce |-> local.nonce]}
  /\ \E row \in Served(r, local.nonce) :
       /\ rows' = [rows EXCEPT ![r] = row]
       /\ \/ row.state = "ISSUED" /\ Goto("verify")
          \/ Leave                                \* 202, an error, or no answer
  /\ UNCHANGED <<files, interaction, standing, signatures, lapsed>>

(* A saved payment: the result is asked for, and the state says what to do. *)
GetResult ==
  LET state == rows[task.submission].state IN
  /\ place = "result"
  /\ \/ state = "ISSUED" /\ Goto("verify")
     \/ state = "BOUND" /\ Goto("recover")
     \/ /\ state = "QUOTED"
        /\ local' = [local EXCEPT !.nonce = saved.nonce]
        /\ place' = "pay"
  /\ UNCHANGED <<files, outside>>

Recover ==
  /\ place = "recover"
  /\ \/ rows' = [rows EXCEPT ![task.submission].state = "ISSUED"] /\ Goto("verify")
     \/ UNCHANGED rows /\ Leave
  /\ UNCHANGED <<files, interaction, standing, signatures, requests, lapsed>>

(* Its own Mark is verified, retrieved once more and written to mark.json. *)
Verify ==
  /\ place = "verify"
  /\ acquired' = TRUE
  /\ Leave
  /\ UNCHANGED <<task, saved, outside>>

-----------------------------------------------------------------------------
(* A request, a document or a verification fails or times out, the wallet     *)
(* refuses, the process dies: at any await.                                   *)
Fail ==
  /\ place # "idle"
  /\ Leave
  /\ UNCHANGED <<files, outside>>

Withdraw ==
  /\ interaction /\ standing
  /\ standing' = FALSE
  /\ UNCHANGED <<files, interaction, signatures, requests, rows, lapsed, place, local>>

Lapse(r) ==
  /\ rows[r].state # "ABSENT" /\ r \notin lapsed
  /\ lapsed' = lapsed \cup {r}
  /\ UNCHANGED <<files, interaction, standing, signatures, requests, rows, place, local>>

Step ==
  \/ Resolve \/ Encounter \/ Prepare \/ Quote \/ AskWallet \/ Sign \/ Save
  \/ Pay \/ GetResult \/ Recover \/ Verify

Next == Start \/ Step \/ Fail \/ Withdraw \/ \E r \in References : Lapse(r)

Spec == Init /\ [][Next]_vars

-----------------------------------------------------------------------------
(* Fairness. Once a payment is saved the owner runs the command again until   *)
(* it has the Mark, and no request and no verification fails every process.   *)
Fairness ==
  /\ SF_vars(Start /\ saved # NoPayment /\ ~acquired)
  /\ WF_vars(Step \/ Fail)
  /\ SF_vars(Resolve)
  /\ SF_vars(Prepare)
  /\ SF_vars(GetResult)
  /\ SF_vars(Recover /\ place' = "verify")
  /\ SF_vars(Verify)

FairSpec == Spec /\ Fairness

(* A payment that the service bound brings its Mark in the end, also when the *)
(* encountered Mark has lost its standing since: "an already authorized       *)
(* purchase resumes the exact admission made before payment".                 *)
PaidIsAcquired ==
  (\E r \in References : rows[r].state \in {"BOUND", "ISSUED"}) ~> acquired
=============================================================================
