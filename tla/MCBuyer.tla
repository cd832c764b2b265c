-------------------------------- MODULE MCBuyer --------------------------------
(* Instances of Buyer for TLC. *)
EXTENDS Buyer, TLC

(* The processes are alike. *)
Alike == Permutations(Workers)

(* Two snapshots share a sequence: the root signed both. *)
ForkedBundles == {[sequence |-> 1, digest |-> "a"], [sequence |-> 2, digest |-> "a"],
                  [sequence |-> 2, digest |-> "b"]}

OneBundle == {[sequence |-> 1, digest |-> "a"]}

TwoBundles == {[sequence |-> 1, digest |-> "a"], [sequence |-> 2, digest |-> "a"]}
=============================================================================
