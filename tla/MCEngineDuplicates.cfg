SPECIFICATION Spec
CONSTANTS
  Ticks = 2
  Slot = {o1, o2}
  Id = {a, b}
  NoId = NoId
  None = None
  Account = {0}
  MaxQty = 1
  SeqWrap = 1
  GenWrap = 1
  Policies = {"cancel_newest"}
  Throttles = {TRUE}
  ByHandle = FALSE
  UniqueIds = FALSE
SYMMETRY Symmetry
PROPERTIES
  NoDuplicateInsert
