SPECIFICATION Spec
CONSTANTS
  Ticks = 2
  Slot = {o1, o2}
  Id = {a, b}
  NoId = NoId
  None = None
  Account = {0}
  MaxQty = 2
  SeqWrap = 2
  Generations = 4
  Policies = {"cancel_newest"}
  Throttles = {TRUE, FALSE}
  MaxAge = 1
  Damages = {"id", "px", "s", "t", "zero", "over"}
SYMMETRY Symmetry
INVARIANTS
  RestoredConsistent
  HandlesExact
PROPERTY
  RestoreExact
