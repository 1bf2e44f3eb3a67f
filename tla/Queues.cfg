SPECIFICATION QueuesFairSpec
CONSTANTS
  Worker = {w1, w2}
  Caller = {c1, c2, c3}
  MaxQueueSize = 2
  MaxTasks = 5
  NoTask = NoTask
INVARIANTS
  NoneLeftSleeping
  TasksBeginInTurn
PROPERTIES
  CallersReturn
  StopReturns
CHECK_DEADLOCK FALSE
