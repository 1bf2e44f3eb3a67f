SPECIFICATION Spec
CONSTANTS
  Thread = {t1, t2}
  MaxMessages = 1
  MsgLen = 2
  ShutdownFrom = {"thread"}
  MayDestroy = FALSE
  None = None
INVARIANT RemovesDisabledChannel
CHECK_DEADLOCK FALSE
