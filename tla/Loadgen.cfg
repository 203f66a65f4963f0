CONSTANTS
  NumShards = 2
  InCap = 1
  OutCap = 5
  Batch = 1
  MaxEvents = 3
  MaxCmds = 99
  MaxStarts = 1
  MergeBatch = 1
  ThreadFailures = FALSE
  MaxMergerStarts = 1
  Symbols = 2
  PairsChoices = {0, 1}
  LatPairs = 2
  PollBatch = 2
  PollInterval = 2
SPECIFICATION LSpec
INVARIANT ReportWhole
PROPERTY LoadgenReports
CHECK_DEADLOCK FALSE
