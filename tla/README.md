# A verification of the limit order book

TLA+ specifications of the C++20 order book in `src/`, checked by TLC on small
instances, with the properties of the lock-free ring, of the matching engine
and of the shards' sequence stamps proved by TLAPS for every size.
`PROJECT.json` lists components, runs, definitions with the source lines they
model, hazards, findings and theorems.

## 1. The system

A client's order reaches one of several single-symbol matching engines, and the
events the engine publishes reach one sink:

    controlling thread (an application, the load generator)
        | try_submit, try_cancel, try_modify      (symbol hashed to a shard)
        v
    ingress spsc_ring --> worker thread --> engine --> ring_publisher
                                                          |
                          sink <-- merger thread <-- egress spsc_ring

A remote or local client reaches an engine through the gateway, which takes
fixed-size wire records from a TCP socket or from a shared-memory segment that
holds two more of the same rings, and answers each with one acknowledgement.

| part | state | operations | what is hard |
|---|---|---|---|
| SPSC ring (`spsc_ring.hpp`) | two cursors, a cached cursor, slots with sequence numbers | `try_push`, `try_pop`, `consume_claim` | unlocked accesses of two threads to the same slots; a cursor cached on purpose |
| book side, level (`book.hpp`, `level.hpp`) | a FIFO and a cached quantity per price, the populated set, the cached best | `add`, `remove`, `notify_level_emptied` | three caches of one ladder, updated on different paths |
| engine (`engine.hpp`) | the book, slots, the id index, `hot_state` | `on_submit`, `on_cancel`, `on_modify` | self-cross policies, fill-or-kill, renames, crossing modifies under suppressed tops, a full arena |
| snapshot and restore (`engine.hpp`, `snapshot.hpp`) | a buffer of records | `snapshot`, `restore` | a sink that throws, a restore that fails part of the way, handles from before it |
| id index (`id_index.hpp`) | an open-addressed table | `insert`, `lookup`, `take`, `erase`, `clear` | backward-shift deletion around the wrap |
| arena (`arena.hpp`) | links in free storage, generations | `allocate`, `deallocate` | a list built on first use over memory that holds anything; slots reused under old handles |
| bitmap (`bitmap.hpp`) | four tiers of words | `set`, `clear`, `clear_all`, four queries | summary tiers, word boundaries, a ragged last word |
| router, stamps (`shard_router.hpp`, `hash.hpp`) | a sequence base per shard | dispatch | ranges that must not overlap for any shard count |
| worker and runtimes (`shard_worker.hpp`, `shard_runtime.hpp`, `shard_egress_runtime.hpp`, `ring_publisher.hpp`) | rings, pushed and processed counts, stop flag, threads | `start`, `try_*`, `drain`, `stop`, destruction | a stop request racing the last push, counts polled while workers run, restarts, a thread that cannot be created |
| merger (`egress_merger.hpp`) | thread, stop flag, tally | `start`, `stop`, rounds | a stop between an empty round and the check |
| load generator (`apps/loadgen`) | phases, counters, samples | saturate, drain, measure | waiting for a fill that a full ring dropped |
| FIX parser (`fix_parser.hpp`) | none; the caller's buffer | `parse` | messages cut anywhere, "incomplete" against "wrong" |
| wire protocol (`apps/gateway/wire.hpp`) | none; the engine's | `validate_order`, `apply_order` | one status for everything a command did |
| TCP gateway (`apps/gateway/main.cpp`) | sockets, carried bytes, windows | read, apply, acknowledge | records split across reads; both ends writing; reset links |
| shared-memory channel and gateway (`shm_channel.hpp`, `apps/gateway/main.cpp`) | a name, a segment, two rings | `create`, `attach`, `init`, `wait`, serve, send | every system call is a step of another process; crashes |
| recorder, histogram, host support, replay, profiler, benchmarks | see section 7 | | conversion and measurement |

The interactions that matter: the engine trusts the book's caches (a match
looks only at `best()`), the index (a cancel looks nowhere else), the arena's
generations (a stale handle must not resolve) and the caller's unique ids; the
worker trusts the ring's single consumer; `drain` and `stop` trust counts the
workers publish; the merger trusts that the runtime is quiescent when it is told
to stop; a gateway client trusts the status of an acknowledgement and the count
of records in front of it.

## 2. Modules

| module | models | role |
|---|---|---|
| `BoundedFifo` | what a bounded queue promises | abstract specification of the ring |
| `SpscRing` | `spsc_ring.hpp`, one step per access of a shared word | implements `BoundedFifo` |
| `Book` | `book_side` and `level` as operators on a record | used by `Engine` |
| `Engine` | `engine.hpp`, with slots and index | one step per command or per turn of the match loop |
| `EngineSnapshot` | `snapshot`, `restore`, the buffer | extends `Engine` |
| `GatewayWire` | `wire.hpp` | extends `Engine` by wire records and acks |
| `IdMap`, `IdIndex` | `id_index.hpp` | a map, and the table that implements it |
| `FreeStack`, `SlabArena` | `arena.hpp` | a stack of free slots, and the linked storage that implements it |
| `HierBitmap` | `bitmap.hpp` | tiers against the set of bits |
| `ShardStamps` | `shard_router.hpp`, `hash.hpp` | stamps of several engines |
| `FixStream` | `fix_parser.hpp` and a draining caller | streams against the commands sent |
| `ShardRuntime` | worker, both runtimes, publisher | actions of workers and controlling thread |
| `EgressMerger` | `egress_merger.hpp` | composes the merger with `ShardRuntime` |
| `Loadgen` | `apps/loadgen/main.cpp` | composes its main thread with `EgressMerger` |
| `ShmSession` | `shm_channel.hpp` and its gateway half | server runs and clients on one name |
| `TcpSession` | the socket half of `apps/gateway/main.cpp` | a server and clients of both kinds |
| `Gateway` | `run()` of the gateway | one of the two transports |
| `SpscRingProofs`, `BookProofs`, `EngineProofs`, `ShardStampsProofs` | | theorems and lemmas |
| `MCEngine`, `MCGatewayWire`, `MCEngineSnapshot`, `MCComponents` | | instances for TLC |

Layers are used through what they are shown to be. `ShardRuntime` and
`ShmSession` represent a ring by the sequence of its elements, which is
`BoundedFifo`, which `SpscRing` is proved to implement. `Engine` uses a
function for the id index, which is `IdMap`, which `IdIndex` is checked to
implement; a stack of free slots with generations, which is `FreeStack`, which
`SlabArena` is checked to implement; and a set of prices for the bitmap, against
which `HierBitmap` is checked. `ShardRuntime` numbers commands and lets the
engine publish any number of events up to a bound, and `TcpSession` keeps of
the engine only the number of resting asks: what the engine computes is the
subject of `Engine` and `GatewayWire`.

Parts that share no state are checked in one run whose behaviours choose one of
them at the start (`part` in `MCComponents`, `transport` in `Gateway`, `lookup`
in `MCEngineSnapshot`, `front` in `GatewayWire`), so that their state spaces add
instead of multiplying.

### How state and actions correspond to the code

*SpscRing.* `head`, `tail_cache`, `tail`, `buf` are the members; `ppc` and `cpc`
say which access of `try_push` and `consume_claim` comes next. `try_pop` is a
claim of one. `sent` and `got` are histories. Each word has one writer and is
stored with release and loaded with acquire, which is why interleaving program
order is enough. A push takes effect at the store of the slot's sequence, a
claim at the store of `tail_`.

*Engine.* `book` holds both sides, the order record of every slot, the free
list, the slot generations and the index; `hs` is `hot_state`, with
`suppress_top_depth` as `suppress`; `cfg` the policy and the throttle. A call
starts at `pc = "idle"`, passes through `"match"` if it is a submit or the
resubmit leg of a crossing modify, and ends at `"done"`, where its events
(`out`) and result are visible until `Return`. Every early return of the source
is a branch here; the trailing `publish_top_if_changed_` is inside `Complete`.
The sequence counter and the generations wrap at `SeqWrap` and `GenWrap`. A
freed slot's record is blanked; the code leaves the bytes, which nothing reads
before the next allocation because `resolve_` looks at the generation first.

*EngineSnapshot.* `buf` is the owner's buffer, a header and whole records;
what a half-written record leaves is a missing record. `Snapshot` may stop at
any write, since a sink may throw. `Damage` puts one checked field of a record
out of range or makes the header foreign. `RestoreRefused` and `RestoreReplays`
are the two ways `restore` goes, the replay record by record inside the latter
and the second clearing with it. `taken` remembers what the buffer should
restore to: `Image`, an engine without the names of its slots.

*GatewayWire.* `wo` is the record in hand. A record that fails
`validate_order` is answered at once; any other becomes the engine's call, and
the acknowledgement is computed from the events of that call as the gateway's
accumulating publisher does.

*IdIndex, SlabArena.* The hash is an arbitrary function chosen in `Init`.
Probing is the first slot that answers; `shift_back_from_` is one step per
iteration. The arena starts over memory that holds anything, and the link of a
slot is lost while a caller has it.

*FixStream.* A tag, a value and a separator are one symbol each, and lengths,
positions and cuts count symbols. `parse` is an operator with the parser's early
returns in their order; the actions are a read of a chunk and one call of
`parse`. Digits, widths and overflow of numbers are left out.

*ShardStamps.* One action: a command reaches the engine its symbol hashes to,
which publishes under its next number: a fill and its trade together, or one
self-trade, reject or top. The counter wraps as 64 bits do.

*ShardRuntime, EgressMerger.* A worker's `pc` follows `drive_shard`: claim,
apply (one command, then its events one by one), release, publish the count,
check the flag; `fin` marks the drain after a stop request. `ctl` is the
controlling thread; while it blocks in `drain` or `stop` it does nothing else.
A refused push changes no state and is not a step.

*Loadgen.* `main.pc` is where the main thread is: it starts the runtime (and
the merger, unless it polls itself), fires the pairs of the first phase, drains,
waits until no event is left in a ring, stamps, sends the pairs of the second
phase, drains again, takes what is left and stops. Its exceptions unwind through
the destructors. An ask gives one event and a bid three.

*ShmSession.* A server run creates at most one segment, named after the run;
`name` says which one the name is linked to. A message is a pair of client and
number, 0 for the disconnect. Nothing in `attach` keeps a client off a segment
that another client has used, and a segment outlives the session until its name
is unlinked, so a client may follow one that died or has just disconnected. What
the model does assume is that clients of one segment run one after the other: two
at once would be two producers of one ring, outside the contract of `spsc_ring`,
and what the code does then is undefined.

*TcpSession.* A byte of an order says which byte of which order it is, so a
record put together from the wrong bytes is seen. Every read and write moves any
part of what is there or fits. `link` is a connection as both ends see it. A
client goes round by round: one order, or a window of pairs; a closed-loop
client ignores what `send_order` returns, as the code does, and the write after
the one that met a reset ends it, as `SIGPIPE` does.

## 3. Runs

Deadlock is checked in the engine runs. In the others a run really ends (the
caller may stop calling; threads and processes finish; a bound on pushes is
reached).

| run | instance | properties |
|---|---|---|
| `components` | ring: 2 slots, 6 pushes, claims up to 3. Stamps: 2 shards with ranges of 3, 3 symbols, four kinds of publication. Bitmap: 11 ticks, 2-bit words. Index: 8 slots, 4 ids, every hash into buckets 6, 7, 0, 1. Arena: 4 slots, generations modulo 4. FIX: two messages, nine defects, chunks up to 20 symbols | `NoSlotRace`, `RefusedOnlyWhenFull`, `ImplementsFifo`, `EventuallyConsumed`; `StampsUnique`; `QueriesExact`; `LookupExact`, `ImplementsMap`; `GenerationTellsHeld`, `ImplementsFreeStack`; `StreamExact`, `WaitsOnlyForMore` |
| `engine_ladder` | 3 prices, 2 slots, 3 ids, 2 accounts, quantity up to 2, all policies, throttle on and off | `BestIsCurrent`, `Uncrossed`, `SlotsAccounted`, `TopIsCurrent` |
| `engine_and_wire` | 2 prices, 3 slots, 4 ids, 2 accounts, quantity up to 2, driven directly under all policies or by wire records in and out of range | `AggregateExact`, `FokAllOrNothing`, `RejectMeansUntouched`, `AckTruthful`, `PriorityKept`, `MatchProgress` |
| `engine_snapshot` | 2 prices, 2 slots, 2 ids, one account and policy, both throttles; by id with six kinds of damage, and by handle with generations modulo 4; one command between a snapshot and its restore, any number otherwise | `RestoreExact`, `RestoredConsistent`, `HandlesExact` |
| `engine_duplicate_ids` | ids not kept unique | `NoDuplicateInsert` fails (section 6) |
| `shard_pipeline` | 2 shards, rings, batches and merge batch of 2, 3 commands, 2 starts | `AppliedInOrder`, `DrainSound`, `StopSound`, `ForwardedOnce`, `NothingLeftBehind` |
| `shard_pipeline_live` | 2 shards, egress rings of 1, 2 commands, 2 starts of each, thread creation may fail | `CallsReturn`, `EventuallyForwarded` |
| `runtime_thread_failure` | thread creation may fail | `NoThreadLeaked` fails (section 6) |
| `loadgen` | 2 shards, 2 symbols with any routing, ingress rings of 1, egress rings of 5, no or one pair and then two; merged or direct, open or closed loop | `LoadgenReports`, `ReportWhole` |
| `gateway` | shared memory: 2 server runs, 2 clients, 2 orders, rings of 2, crashes. TCP: one closed-loop and one pipelined client, 3 pairs, window asked 3 and clamped to 1, 2 bytes per record and ack, small sockets, resets | `AttachSound`, `AcksInOrder`, `SessionEnds`; `RecordsIntact`, `ReportsExact`, `ClientsEnd` |
| `shm_crash_leaves_segment` | 1 server run, 1 client, crashes | `CrashLeavesNoSegment` fails (section 6) |
| `shm_client_first` | 1 server run, 1 client | `EarlyClientWaits` fails (section 6) |

The passing runs have between some 50 thousand and 640 thousand distinct states
and take up to two or three minutes each.

Each property of a passing run has a mutant: an operator marked "Faulty" beside
the definition it replaces, the kind of slip that code invites. With the mutant
in place TLC finds the property violated.

### What some of the results rest on

- *Acknowledgements* (`AckTruthful`). An order that is rejected for want of a
  slot never had fills: a fill that empties its maker frees a slot, and one that
  does not leaves nothing to rest. So one status per record loses nothing.
- *Restore* (`RestoreExact`). A restore that fails at the header keeps the old
  policy, one that fails at a record is left with the snapshot's; both are
  empty. The records are checked one by one: restore looks neither for two
  records with one id nor for crossed prices, and damage is modelled in the
  fields that are checked, so nothing is said of a buffer altered otherwise.
- *TCP reports* (`ReportsExact`). `run_client` ignores the result of
  `send_order` and adds up the acknowledgement it still has. No wrong success is
  reported because the next write to a reset connection raises `SIGPIPE`, which
  the program leaves at its default; the mutant shows what an ignored `SIGPIPE`
  would do. Only resets are modelled: a close of the peer (`read` returning 0)
  cannot reach a client while server and clients are threads of one process, as
  the server closes a connection only after its client has.
- *Shared-memory sessions* (`AttachSound`, `AcksInOrder`, `SessionEnds`). A client
  takes whatever ack comes next for its own and does not look at the id. If no
  client of the segment died, that is the answer to its order. Each one that
  died may leave one ack unread, and the next client is behind by as many for the
  whole of its session. A client that attaches after a disconnect was sent and
  before the name is unlinked meets a server that is leaving; it then spins on its
  first ack for ever, which is the exception `SessionEnds` makes besides a crash
  of the server.
- *Windows* (`ClientsEnd`). Client and server both write before they read. They
  do not block each other for good because the window is clamped to what the
  sockets hold.
- *Measured fills* (`LoadgenReports`). The closed loop waits for a fill without
  a timeout. It does not wait for one that a full ring dropped because the
  backlog of the first phase is taken first and a pair's events fit in a ring.
- *Stamps* (`StampsUnique`). A stamp tells events of one kind apart, over all
  shards; a fill and its trade share one by design. No shard uses up its range;
  the code has no check for it, and 2^(64 - log2(shards)) events are out of reach.

### Why the bounds are enough to be interesting

- *Ring.* Six pushes go round two slots three times, so sequences of earlier
  laps are met; a claim limit above the capacity lets a scan come round to
  where it began. `MaxPush` stands for fewer than 2^64 pushes.
- *Engine.* Two orders and three prices give a best level and a deeper one on
  one side, or both sides with a gap; three orders at two prices give a queue
  in which own and foreign makers alternate, and a fill-or-kill walk over two
  levels. Two or three slots are soon full, so rejection happens in every
  shape. Quantity 2 gives partial fills. `SeqWrap` and `GenWrap` are as small
  as the properties allow; the handle engine uses 4 so that generations wrap and
  still have a parity.
- *Snapshots.* Two orders make a level with a queue or two levels; one command
  is enough to make the engine differ from its snapshot, and a replaced engine
  differs in everything but the bound.
- *Index.* At most half of the slots are used, four here, so a chain is at most
  four long; turning the table moves any chain to the window around the wrap.
- *Arena.* Four slots are taken and returned in every order, and generations
  wrap after two uses of a slot.
- *Bitmap.* Eleven ticks of two-bit words need six, three, two and one words:
  all four tiers, with a ragged last word.
- *FIX.* Two messages are the least at which the rest of one read is the start
  of the next message; a chunk may be one symbol or the whole of a message.
- *Runtime.* Three commands fill a batch and begin another; a ring of 1 or 2
  overflows; a second start exercises the resumed count.
- *Load generator.* An egress ring of 5 holds the four events of a pair but not
  those of two, so a backlog not taken would drop a fill.
- *Gateway.* Two server runs overlap or follow each other, one perhaps crashed;
  two clients meet the same name at different times, or one segment in turn. A
  record of two bytes is
  cut in the middle; sockets hold one record and a half, or two acks.

Symmetry (slots, ids) is used in the engine runs only, where no liveness is
checked.

### Fairness

Weak fairness, and only of what a running thread or process does by itself:
the ring's consumer, which polls in a loop, and a producer that is inside
`try_push`; each shard worker; the merger; a call that is blocked in `drain` or
`stop`; the load generator's main thread; a gateway server or client that has
begun and has not died. The operating system's scheduler provides this. In
`Loadgen` the open loop polls until a pair is due, and the clock reaches that
time whatever the polls do; that is strong fairness of the next pair. No
fairness is assumed of a caller of the library: nobody is obliged to push, to
start or to stop. A lost link or a crash may happen and need not.

Two liveness statements are weaker than one might wish because the code is.
The merger's `stop()` returns only once the workers have stopped publishing,
since `run_` looks at its flag after an empty round only; the model's bound on
commands provides that. A shared-memory client whose server dies waits for its
acknowledgement without bound, so `SessionEnds` excepts that case, and that of a
server an earlier client has already sent away.

## 4. What is proved

All proofs are checked by TLAPS to the last leaf and hold for every value of
the constants under the named assumptions, which TLC evaluates in the runs of the
same modules.

**The ring** (`SpscRingProofs`; `CapacityAssumption`: at least one slot;
`NoValueAssumption`; `BoundAssumption`). The inductive invariant `IInv` joins
three views.
`ProducerInv`: the cursor trails the history by at most the element being
published, the cached tail is an old value of the real one, and past the room
check there is room. `ConsumerInv`: only published positions are claimed, and
exactly those before `tail + i` have been read. `RingInv`: every unreleased
position sits in its slot under its own sequence, and no slot carries a
sequence from the future. None is inductive alone: the producer's slot is free
because the consumer is not behind the cached tail, and the consumer's scan is
right because the producer overwrites no unreleased slot. The one arithmetical
fact is that two positions less than `Capacity` apart have different slots
(`SlotsDistinct`). From `IInv` follow `TypeCorrect`, `FifoCorrect`, `RaceFree`,
`OverrunFree`, `RefusalSound` and the refinement `RingIsFifo`.

**The engine** (`EngineProofs`, on the lemmas of `BookProofs`;
`TicksAssumption`, `NoneAssumption`, `EngineAssumption`). `TypeCorrect`,
`BestCorrect` and `NeverCrossed`, for every ladder, slot set, policy set, both
throttle settings and both ways of lookup, and without assuming unique ids. The
inductive invariant is the conjunction of the three. An order rests where it
does not cross the *cached* best of the other side; that keeps the book
uncrossed only if the cache is current, and the match loop finds a maker at the
cached best only if that level is populated. `BookProofs` shows that `add`,
`remove`, a drained level and a changed quantity each keep a side consistent;
`EngineProofs` has one lemma per helper and one step per action.

The aggregates are only shown to be integers there; that they equal the sum of
their orders (`AggregateExact`) is model-checked.

**The stamps** (`ShardStampsProofs`; `StampAssumption`: at least one shard and
one number per range). `StampsCorrect`: for every number of shards, range,
symbol set and hash, of two published events with one stamp the first is a fill
and the other its trade, and the stamps of a shard never go back. The inductive
invariant `StampInv` places the counter of a shard between its base and the end of
its range and every stamp below the counter of the shard that made it. `RangeFits` shows that a base does not wrap, and
`RangesApart` that two ranges do not meet, which is where the arithmetic is.

## 5. What is only model-checked

- Liveness: `EventuallyConsumed`, `CallsReturn`, `EventuallyForwarded`,
  `LoadgenReports`, `SessionEnds`, `ClientsEnd`. The prover has no fairness.
- Statements about sums and walks over queues or streams (`AggregateExact`,
  `FokAllOrNothing`, `PriorityKept`, `RestoreExact`, `StreamExact`,
  `RecordsIntact`), which need induction over data.
- The remaining engine and wire properties, the runtime and merger, the id
  index, the arena, the bitmap and the shared-memory session: not proved.

The other way round, the ring's `FifoOrder` and both type invariants are proved
and are not repeated in a run.

## 6. Where the code and its comments disagree

- `runtime_thread_failure`: `start()` sets `running_` after the last thread is
  created. If a later one cannot be created, destruction skips the joins, and a
  joinable `std::thread` is destroyed; the header says that "destruction never
  leaks a thread".
- `shm_crash_leaves_segment`: the destructor unlinks the name, and a killed
  process runs no destructor; the header says that "a crashed server leaves no
  segment behind". `create()` unlinks first, so the *next run* is not harmed
  (`AttachSound`), but a client in between attaches to a dead server.
- `shm_client_first`: `apps/gateway/main.cpp` calls its attach spin generous
  "because it covers a client started before the server", but the client
  attaches once, before it spins, and a name that does not exist yet ends it.
- `engine_duplicate_ids`: the index comment says that the engine "never inserts
  duplicates"; the engine inserts what it is given, and it is the caller who
  must keep ids unique (`messages.hpp`, ADR-0037). All other engine runs assume
  the caller does.

Three remarks of the sources are off without a run of their own:

- `shm_channel.hpp:54-55` and ADR-0048 say that each client gets its own pair of
  rings. A server run has one pair, and every client that attaches to it gets that
  one (section 3, shared-memory sessions).
- `hash.hpp:49` calls the stamps of a merged stream globally unique. They are
  unique per kind, as `test_egress_merger.cpp:178` says.
- `messages.hpp:101-102` tells of a reject for the resubmit leg of a crossing
  modify, and `wire.hpp:172-173` of fills that landed before a residual was
  refused. `RejectMeansUntouched` shows that neither happens: a modify frees the
  slot it needs, and a submit that has filled anything finds a slot or has
  nothing left to rest.

## 7. What is not modelled, and why

- JSON recorder, latency histogram: formatting and an external library; no
  state that a property is about.
- Host support (pinning, huge pages, pauses, timestamps, prefetching): no effect
  on the state of the program.
- Replay and profiler applications, benchmarks, fuzz drivers and the Python
  tooling: sequential drivers that feed or measure the parts above.
- `size()`, `empty()`, `full()` of the ring: observers the header calls best
  effort.
- Argument parsing and printed figures of the applications; the digits of FIX
  numbers; the mixing of the hash, which is an arbitrary function here.
- Moving an arena and the memory behind it.
- Weak memory beyond the argument of section 2.
- The 64-bit wrap of order quantities and of ring cursors: the gateway caps
  quantities, and 2^64 pushes are out of reach.

## 8. What could come next

Prove `SlotsAccounted` and the generations part of `HandlesExact` (one invariant
on slots, levels and index), then `TopIsCurrent`; the refinement of the arena;
the index, from the invariant that no empty slot lies between an entry and its
home; `AppliedInOrder`, `DrainSound` and `StopSound` of the runtime.
