\* The ring: two slots and six pushes, three full laps, batches longer than the
\* ring, and pushes that find it full.
\* The bitmap: all four tiers and a ragged last word.
\* The index: eight slots, four ids hashed in every way around the wrap.
\* FIX: two messages cut everywhere, one of them wrong in each way there is.
SPECIFICATION MCSpec
CONSTANTS
  Capacity = 2
  T = {a, b}
  NoValue = NoValue
  MaxBatch = 3
  MaxPush = 6
  NumShards = 2
  SeqRange = 3
  Symbol = {x, y, z}
  Ticks = 11
  W = 2
  None = None
  Id = {k1, k2, k3, k4}
  Val = {v1, v2}
  Cap = 8
  Homes = {6, 7, 0, 1}
  Nil = Nil
  ArenaCapacity = 4
  GenWrap = 4
  Null = Null
  Object = Object
  MaxBody = 30
  MaxChunk = 20
  Defects = {"begin", "huge", "short", "long", "checksum", "type", "missing", "value", "reserved"}
INVARIANTS
  NoSlotRace
  StampsUnique
  QueriesExact
  LookupExact
  GenerationTellsHeld
  StreamExact
  WaitsOnlyForMore
PROPERTIES
  RefusedOnlyWhenFull
  ImplementsFifo
  EventuallyConsumed
  ImplementsMap
  ImplementsFreeStack
CHECK_DEADLOCK FALSE
