SPECIFICATION FileSpec
CONSTANTS
  MaxLines = 6
  BufferLines = 2
  DropAbove = 2
  NoLine = NoLine
  MaxTime = 3
  RollSize = 3
  CheckTimeRoll = 1
  RollPerTime = 2
  FlushInterval = 0
  MaxClockChanges = 2
INVARIANTS
  NoAssertFails
  FilesInOrder
PROPERTY LinesOnDisk
CHECK_DEADLOCK FALSE
