\* An endpoint of several nodes, one of which may be behind; no reorganization.
SPECIFICATION Spec
CONSTANTS
  Window = 2
  MaxBlock = 4
  Endpoints <- OnlyBehind
INVARIANTS
  StillFindable
CHECK_DEADLOCK FALSE
