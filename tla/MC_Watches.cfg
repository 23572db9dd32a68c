SPECIFICATION WatchesSpec
CONSTANTS
  MaxOps = 3
  MaxHandlers = 2
  MaxFailures = 2
  Cancels = {c1}
  Spaces = {dflt, other}
  DefaultSpace = dflt
  Watchers = {w1, w2}
  maxOps = 2
  MaxSeq = 5
  MaxSeeds = 2
  MaxSizes = 3
  MaxKeys = 2
INVARIANTS WatchesTypeOK NoPanic NoLostUpdate
INVARIANTS NewestSizeWins RunningStaysVisible WatcherSees
PROPERTIES Contract ViewAdvances WatchEnds EveryChangeShown
PROPERTIES LeaversFreed FakeContract
CHECK_DEADLOCK FALSE
