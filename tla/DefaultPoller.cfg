SPECIFICATION PollerSpec
CONSTANTS
  Channel = {"c1", "c2", "c3"}
  FdOf <- MCFdOf
  MaxEvents = 2
  None = None
  Fd = {0, 1, 2}
  Uses = {}
INVARIANTS
  PollersAgree
