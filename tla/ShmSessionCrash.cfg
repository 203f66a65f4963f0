CONSTANTS
  Server = {s1}
  Client = {c1}
  Orders = 2
  RingCap = 1
  Crashes = TRUE
  None = None
SPECIFICATION Spec
INVARIANT
  CrashLeavesNoSegment
CHECK_DEADLOCK FALSE
