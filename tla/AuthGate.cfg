SPECIFICATION GateSpec
CONSTANTS
  Tokens = {t1, t2}
  Unlimited = Unlimited
  Absent = Absent
  Uses <- MCUses
  Clients = {c1, c2, c3}
  NoToken = NoToken
  OAuth = TRUE
  UiRequireAuth = TRUE
  MaxRequests = 4
SYMMETRY Symmetry
CHECK_DEADLOCK FALSE
INVARIANTS
  ExactlyTheLimit
  DeniedNeverIntrospected
  NoEarlyRejection
