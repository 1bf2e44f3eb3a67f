SPECIFICATION FairSpec
CONSTANTS
  Ptr = {p1, p2}
  Thread = {t1}
  MaxCreated = 2
  MaxTime = 2
  MaxPending = 2
  MaxAdjust = 1
  Delays <- PastDelays
  Intervals = {0, 1}
  MinDelay = 1
  None = None
INVARIANTS
  SetsAgree
  CancelIsFinal
  ArmedInTime
PROPERTIES
  OnlyNamedTimersDie
  QueuedCancelEffective
  TimersExpire
CHECK_DEADLOCK FALSE
