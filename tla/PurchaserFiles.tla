---------------------------- MODULE PurchaserFiles ----------------------------
(***************************************************************************)
(* What the purchaser without a client library (src/scripts/               *)
(* cold-purchaser.mjs) keeps and what leaves it, and what it promises       *)
(* about them. ColdPurchaser is how it goes about it.                      *)
(***************************************************************************)
VARIABLES
  interaction, \* whether the input is a Mark that was handed over
  task,        \* job.json
  saved,       \* saved-payment.json
  signatures,  \* what the wallet signed
  requests,    \* payments that left this purchaser: they can be settled
  local        \* the local variables of the process

(* SECOND_PAYMENT_FORBIDDEN (cold-purchaser.mjs:114): however often the       *)
(* command dies and is run again, the wallet signs once, and what is sent is  *)
(* that signature, durable before it left, for the submission of the job.     *)
PaysOnce ==
  /\ \A payment, other \in signatures : payment = other
  /\ requests \subseteq signatures \cap {saved}
  /\ requests # {} => saved.reference = task.submission

(* "Initial admission still requires an independently verified ACTIVE         *)
(* encountered Mark" (cold-purchaser.mjs:89): the wallet signs only for a     *)
(* process that verified it itself, and that was told its object is eligible. *)
SignsAdmitted ==
  [][signatures' # signatures =>
       (interaction => local.checked) /\ local.eligible]_signatures
=============================================================================
