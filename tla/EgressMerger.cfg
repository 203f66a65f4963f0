CONSTANTS
  NumShards = 2
  InCap = 2
  OutCap = 2
  Batch = 2
  MaxEvents = 1
  MaxCmds = 3
  MaxStarts = 2
  MergeBatch = 2
  ThreadFailures = FALSE
  MaxMergerStarts = 1
SPECIFICATION Spec
INVARIANTS
  AppliedInOrder
  DrainSound
  StopSound
  ForwardedOnce
  NothingLeftBehind
CHECK_DEADLOCK FALSE
