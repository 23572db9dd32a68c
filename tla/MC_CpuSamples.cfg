SPECIFICATION Spec
CONSTANTS
  Keys = {k1}
  Readers = {r1, r2}
  Floor = 2
  TTL = 3
  MaxLockWait = 2
  MaxClock = 10
  MaxInc = 2
SYMMETRY Symmetry
INVARIANTS TypeOK AnswersAreMeasured
PROPERTIES TombstoneGuards
CHECK_DEADLOCK FALSE
