SPECIFICATION FairSpec
CONSTANTS
  Port = {"A", "B"}
  Unit <- MCUnit
  Protocol = {"MMXN", "HDSF6"}
  PortOf <- MCPortOf
  ProtocolOf <- MCProtocolOf
  IntervalOf <- MCIntervalOf
  Timed <- MCUnit
  Measured = {"m1", "m2"}
  Addressed <- MCUnit
  Libraries = {"MMXN"}
  FrameLen <- MCFrameLen
  BufSize = 2
  Noisy = {"A"}
  LineCap = 2
  Garbage <- MCGarbage
  Precise = {"m1"}
  Overlong = {"m2"}
  Torn = Torn
  Unfilled = Unfilled
  None = None
INVARIANTS
  Attribution
PROPERTIES
  ReadsFit
  Resync
  PolledForever
CHECK_DEADLOCK FALSE
