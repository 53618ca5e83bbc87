SPECIFICATION MCFairSpec
CONSTANTS
  f1 = f1
  f2 = f2
  Sources <- MCSources
  Versions = {v1, v2}
  Broken = Broken
  Watcher = Watcher
  Sighup = Sighup
  MaxEdits = 3
  MaxSignals = 1
  MaxConnections = 1
INVARIANTS
  QuietMeansFresh
PROPERTIES
  SwapsWhatItRead
  WorkersEnd
CHECK_DEADLOCK FALSE
