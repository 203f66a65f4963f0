CONSTANTS
  NumShards = 2
  InCap = 2
  OutCap = 2
  Batch = 2
  MaxEvents = 1
  MaxCmds = 1
  MaxStarts = 1
  MergeBatch = 1
  ThreadFailures = TRUE
  MaxMergerStarts = 0
SPECIFICATION Spec
INVARIANT
  NoThreadLeaked
CHECK_DEADLOCK FALSE
