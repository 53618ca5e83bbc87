CONSTANTS
  None = None
  EmptyObject = EmptyObject
  Obj1 = Obj1
  Json <- MCJson
  Sources <- MCSources
  ChannelSize = 1
  CaptureCap = 20
  MaxChunk = 2
SPECIFICATION FairSpec
INVARIANTS
  RecordedIsWhole
  SalvageCompletes
  ClientSeesTruth
  ReplaysTheSame
PROPERTIES
  TeeEnds
\* The stream comes to its end.
CHECK_DEADLOCK FALSE
