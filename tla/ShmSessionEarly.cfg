CONSTANTS
  Server = {s1}
  Client = {c1}
  Orders = 2
  RingCap = 1
  Crashes = FALSE
  None = None
SPECIFICATION Spec
INVARIANT
  EarlyClientWaits
CHECK_DEADLOCK FALSE
