SPECIFICATION Spec
CONSTANTS
  Scopes = {dflt, other}
  Names = {n1}
  DefaultScope = dflt
  Viewers = {v1, v2}
  Limit = 2
  MinGap = 1
  MaxAge = 3
  SweepEvery = 2
  MaxDelay = 2
  MaxClock = 8
SYMMETRY Symmetry
INVARIANTS TypeOK WindowNotHalved NoStaleKey ReplyIsFresh
CHECK_DEADLOCK FALSE
