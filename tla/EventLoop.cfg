SPECIFICATION ThreadFairSpec
CONSTANTS
  UserChannel = {c1, c2}
  Thread = {t1}
  MaxFunctors = 3
  NoChannel = NoChannel
INVARIANTS
  NoLostWakeup
  NoStaleDispatch
PROPERTIES
  FunctorsInOrder
  FunctorsRun
  JoinReturns
CHECK_DEADLOCK FALSE
