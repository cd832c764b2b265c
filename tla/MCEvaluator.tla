------------------------------ MODULE MCEvaluator ------------------------------
(* Instances of Evaluator for TLC. *)
EXTENDS Evaluator

Doubt == [id |-> "u", blocks |-> {"EXECUTE"}]

(* A source may allow less than all operations and say more than nothing. *)
FourSources ==
  [operations: {Operations, {"INFORM"}}, qualifiers: {{}}, unknowns: {{}},
   sound: {TRUE}]
    \cup
  [operations: {Operations, {"INFORM"}}, qualifiers: {Qualifiers},
   unknowns: {{Doubt}}, sound: {TRUE}]

OneGrant == {[operations |-> Operations, sound |-> TRUE]}
=============================================================================
