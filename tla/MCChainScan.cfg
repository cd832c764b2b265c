\* One node and a reorganization, or several nodes and none; two windows,
\* hints that lead nowhere, calls that fail.
SPECIFICATION FairSpec
CONSTANTS
  Window = 2
  MaxBlock = 4
  Endpoints <- SteadyOrBehind
INVARIANTS TypeOK EvidenceIsFinal NothingSkipped
PROPERTIES FinalIsProved
\* The row is settled and the chain has reached its bound: nothing is left.
CHECK_DEADLOCK FALSE
