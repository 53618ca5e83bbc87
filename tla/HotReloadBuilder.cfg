SPECIFICATION Spec
CONSTANTS
  f1 = f1
  f2 = f2
  Sources <- MCSources
  Versions = {v1, v2}
  Broken = Broken
  Watcher = Watcher
  Sighup = Sighup
  MaxEdits = 1
  MaxSignals = 1
  MaxConnections = 0
INVARIANTS
  BuilderFixturesStay
CHECK_DEADLOCK FALSE
