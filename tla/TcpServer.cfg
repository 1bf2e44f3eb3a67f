SPECIFICATION FairSpec
CONSTANTS
  ThreadNums = {0, 2}
  MaxPeers = 3
  NumFds = 3
  Radix = 2
  NameDigits = 2
  None = None
INVARIANTS
  DescriptorsOwned
  NoAssertFails
PROPERTY BacklogServed
CHECK_DEADLOCK FALSE
