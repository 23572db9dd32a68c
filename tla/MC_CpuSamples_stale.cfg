\* TTL = MaxClock: no tombstone ages out within the run.
SPECIFICATION Spec
CONSTANTS
  Keys = {k1}
  Readers = {r1, r2}
  Floor = 2
  TTL = 10
  MaxLockWait = 2
  MaxClock = 10
  MaxInc = 2
INVARIANT NoStaleBaseline
CHECK_DEADLOCK FALSE
