SPECIFICATION WSpec
CONSTANTS
  Ticks = 2
  Slot = {o1, o2, o3}
  Id = {a, b, c, d}
  NoId = NoId
  None = None
  Account = {0, 1}
  MaxQty = 2
  SeqWrap = 1
  GenWrap = 1
  Policies = {"cancel_newest", "cancel_oldest", "decrement_trade"}
  Throttles = {TRUE}
  ByHandle = FALSE
  UniqueIds = TRUE
  Fronts = {"direct", "gateway"}
  EmptyId = EmptyId
SYMMETRY Symmetry
INVARIANTS
  AggregateExact
  FokAllOrNothing
  RejectMeansUntouched
  AckTruthful
PROPERTIES
  PriorityKept
  MatchProgress
