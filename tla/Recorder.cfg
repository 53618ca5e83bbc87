SPECIFICATION FairSpec
CONSTANTS
  None = None
  Keys = {k1, k2}
  Clients = {c1, c2}
  OnMiss = TRUE
  MaxRequests = 3
  MaxRestarts = 1
  MaxReloads = 1
CHECK_DEADLOCK FALSE
INVARIANTS
  NoDuplicateEntries
  ReplayedIsDurable
PROPERTIES
  AppendsKept
  RecordingEnds
