SPECIFICATION FairSpec
CONSTANTS
  kInitRetryDelayMs = 500
  kMaxRetryDelayMs = 3000
  Retry = TRUE
  CallFrom = {"thread", "functor"}
  MaxConnects = 1
  MaxStops = 3
  None = None
INVARIANTS
  NoAssertFails
  AttemptsAccounted
PROPERTY StopQuiesces
CHECK_DEADLOCK FALSE
