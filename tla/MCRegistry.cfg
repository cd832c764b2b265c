\* Two namespaces, an old and a new deployment with a rotated key, two commands.
SPECIFICATION Spec
CONSTANTS
  Namespaces = 2
  Window = 2
  Skew = 1
  ExpiresAt = 4
  Keys = {"old", "new"}
  Bundles <- Rotation
  MaxTime = 4
  CommandTimes = {0, 3}
  MaxEvents = 3
  MaxDeployments = 2
INVARIANTS
  TypeOK
  LogVerifies
  ActiveIsRecent
  RefusalsExplained
