SPECIFICATION Spec
CONSTANTS
  Ticks = 3
  Slot = {o1, o2}
  Id = {a, b, c}
  NoId = NoId
  None = None
  Account = {0, 1}
  MaxQty = 2
  SeqWrap = 2
  GenWrap = 1
  Policies = {"cancel_newest", "cancel_oldest", "decrement_trade"}
  Throttles = {TRUE, FALSE}
  ByHandle = FALSE
  UniqueIds = TRUE
SYMMETRY Symmetry
INVARIANTS
  BestIsCurrent
  Uncrossed
  SlotsAccounted
  TopIsCurrent
