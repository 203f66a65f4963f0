CONSTANTS
  NumShards = 2
  InCap = 2
  OutCap = 1
  Batch = 2
  MaxEvents = 1
  MaxCmds = 2
  MaxStarts = 2
  MergeBatch = 1
  ThreadFailures = TRUE
  MaxMergerStarts = 2
SPECIFICATION Spec
PROPERTIES
  CallsReturn
  EventuallyForwarded
CHECK_DEADLOCK FALSE
