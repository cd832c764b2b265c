\* The clock reaches the end of the authority; one directory of the schedule
\* and one of the administrator.
SPECIFICATION FairSpec
CONSTANTS
  workspace = workspace
  kept = kept
  Directories = {workspace, kept}
  Workspace = workspace
  Life = 2
  RenewBelow = 2
  Margin = 1
  FirstUntil = 2
  AuthorityUntil = 4
  MaxTime = 3
  MaxInterrupted = 2
  MaxCommands = 2
INVARIANTS TypeOK PublishedIsBehind HistoryGapless
PROPERTIES InstalledInOrder RenewedAndPublished
\* A system with nothing due, after its last tick, stops.
CHECK_DEADLOCK FALSE
