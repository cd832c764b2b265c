------------------------------ MODULE MCChainScan ------------------------------
(* Instances of ChainScan for TLC. *)
EXTENDS ChainScan

Steady == [lagging |-> FALSE, reorgs |-> 1]
Behind == [lagging |-> TRUE, reorgs |-> 0]

SteadyOrBehind == {Steady, Behind}
OnlyBehind == {Behind}
=============================================================================
