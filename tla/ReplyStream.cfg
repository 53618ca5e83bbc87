CONSTANTS
  None = None
  ChannelSize = 2
  Fixtures <- MCFixtures
SPECIFICATION FairSpec
INVARIANTS
  StatusAsCaptured
  EndsAsPlanned
  LateStreamsCut
PROPERTIES
  StreamEnds
\* A request comes to its end.
CHECK_DEADLOCK FALSE
