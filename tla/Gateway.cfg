SPECIFICATION GSpec
CONSTANTS
  Server = {s1, s2}
  Client = {c1, c2}
  Orders = 2
  RingCap = 2
  Crashes = TRUE
  None = None
  Peer = {c1, c2}
  Modes = {"closed", "pipelined"}
  Pairs = 3
  Asked = 3
  MaxWindow = 1
  IoBatch = 2
  OrderBytes = 2
  AckBytes = 2
  OutRoom = 3
  BackRoom = 4
  LinkFailures = TRUE
  Nobody = Nobody
INVARIANTS
  AttachSound
  AcksInOrder
  RecordsIntact
  ReportsExact
PROPERTIES
  SessionEnds
  ClientsEnd
CHECK_DEADLOCK FALSE
