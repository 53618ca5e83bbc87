SPECIFICATION Spec
CONSTANTS
  None = None
  Keys = {k1, k2}
  Clients = {c1, c2}
  OnMiss = TRUE
  MaxRequests = 3
  MaxRestarts = 0
  MaxReloads = 0
SYMMETRY Symmetry
CHECK_DEADLOCK FALSE
INVARIANTS
  ClaimIsRecorded
