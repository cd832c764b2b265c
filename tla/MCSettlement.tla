----------------------------- MODULE MCSettlement -----------------------------
(* Instances of Settlement for TLC. *)
EXTENDS SettlementInv, TLC

(* Workers, payments, purchases and requests are only compared. *)
Symmetric == Permutations(Workers) \cup Permutations(Payments)
               \cup Permutations(Purchases) \cup Permutations(Requests)
=============================================================================
