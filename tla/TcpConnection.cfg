SPECIFICATION FairSpec
CONSTANTS
  Thread = {t1, t2}
  MaxMessages = 1
  MsgLen = 2
  ShutdownFrom = {"loop", "thread"}
  MayDestroy = TRUE
  None = None
INVARIANTS
  OutputInOrder
  FinAfterOutput
PROPERTIES
  ShutdownCompletes
  ClosedIsRemoved
CHECK_DEADLOCK FALSE
