SPECIFICATION Spec
CONSTANTS
  None = None
  Writers = {w1, w2}
  Capacity = 2
  ChannelSize = 2
  WireSize = 1
  DefaultRows = 3
  MaxCaptures = 4
  MaxDrops = 1
INVARIANTS
  GapsAreAnnounced
  RowsAreOnce
PROPERTY
  FeedCatchesUp
CHECK_DEADLOCK FALSE
