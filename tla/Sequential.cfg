SPECIFICATION PartsSpec
CONSTANTS
  None = None
  kCheapPrepend = 2
  kInitialSize = 2
  Byte = {Zero, EOL, a}
  Zero = Zero
  EOL = EOL
  MaxLen = 2
  MaxSize = 8
  Starts = {0}
  Id = {7}
  Raw = {0, 255, 256, 1000, 1001, 65535}
  Time <- MCTime
  Name = {"MMXN3", "ZSAR1"}
  Precision = {10, 100}
  Window = 16
  HurtTime <- MCHurtTime
  LengthByte = {0, 1, 2, 5, 6, 7, 8, 13, 14, 19, 21, 128, 129, 255}
  Stack <- MCStack
  UtcOffset = 28800
  Year <- MCYear
  Second = {0, 1, 86399}
  SIZE = 72
  kMaxNumericSize = 32
  Integer <- MCInteger
  Pointer = {0, 2147483647}
  TextLen = {1, 2, 31}
  DoubleLen = {19}
  MaxItems = 3
  MaxSecond = 2
INVARIANTS
  CodecsExact
  CalendarExact
  LinesExact
PROPERTY IsByteQueue
CHECK_DEADLOCK FALSE
