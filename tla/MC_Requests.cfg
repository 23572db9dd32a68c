SPECIFICATION RequestSpec
CONSTANTS
  Names = {a, b}
  Selections <- Lists
  Offered = {"start", "stop", "restart", "snapshot", "delete"}
  MaxConcurrent = 2
  MaxElsewhere = 1
  MaxOutside = 2
INVARIANTS RequestsTypeOK DaemonNotFlooded AnswerIsTrue LeftoversKnown
INVARIANTS AnswerWasTrue AnswerTellsDone HalfDoneIsUndone
PROPERTIES NoOverwrite BulkEnds DisconnectEnds
CHECK_DEADLOCK FALSE
