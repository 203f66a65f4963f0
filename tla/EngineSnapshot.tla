---------------------------- MODULE EngineSnapshot ----------------------------
(***************************************************************************)
(* engine::snapshot and engine::restore (engine.hpp) over the buffer of    *)
(* snapshot.hpp.                                                           *)
(*                                                                         *)
(* The owner of an engine may write a snapshot into a buffer, which stops  *)
(* short when the sink throws, go on using the engine, replace it by a new *)
(* one, and restore.  Bytes are abstracted to whole headers and records:   *)
(* what a short read or a half-written record leaves is a missing record.  *)
(* A buffer may also have been damaged outside the program, in a field     *)
(* that restore checks.  A restore reads the buffer to where it stops, and *)
(* the owner then resets it.                                               *)
(***************************************************************************)
EXTENDS Engine

CONSTANTS Damages,  \* record fields that may be out of range: id, px, s, t, zero, over
          MaxAge    \* commands run between a snapshot and its restore

VARIABLES
  buf,      \* vector_snapshot_buffer: a header and the records behind it
  taken,    \* the engine as the intact snapshot in buf shows it, or None
  age,      \* commands run since buf was written
  outcome   \* what the last step, if it was a restore, returned

svars == <<book, hs, cfg, pc, call, out, buf, taken, age, outcome>>

FreshHot == [seq |-> 0, last |-> TopOf([s \in Side |-> EmptySide]), have_top |-> FALSE,
             top_dirty |-> FALSE, have_side |-> [s \in Side |-> FALSE], suppress |-> 0]

EmptyBuffer == [hdr |-> None, recs |-> << >>]

SInit == Init /\ buf = EmptyBuffer /\ taken = None /\ age = 0 /\ outcome = "none"

\* What of an engine its clients can tell apart: the orders of each level, the
\* hot state and the configuration, but not which slots the orders are in.
Image ==
  [level |-> [s \in Side |-> [p \in Tick |->
                [k \in 1..Len(book.side[s].fifo[p]) |-> book.ord[book.side[s].fifo[p][k]]]]],
   hs |-> hs, cfg |-> cfg]

(***************************************************************************)
(* snapshot                                                                *)
(***************************************************************************)
\* Faulty: the levels of either side from its best price outwards, each from
\* its back.
emit_side_backwards(b, s) ==
  FoldLeft(LAMBDA f, p : f \o [k \in 1..Len(b.side[s].fifo[p]) |->
                                 b.ord[b.side[s].fifo[p][Len(b.side[s].fifo[p]) + 1 - k]]],
           << >>, SetToSortSeq(b.side[s].bm, LAMBDA p, q : p > q))

\* emit_side_ through for_each_level: prices ascending, each FIFO front first.
emit_side(b, s) ==
  FoldLeft(LAMBDA f, p : f \o [k \in 1..Len(b.side[s].fifo[p]) |-> b.ord[b.side[s].fifo[p][k]]],
           << >>, SetToSortSeq(b.side[s].bm, LAMBDA p, q : p < q))

count_resting(b) ==
  MapThenSumSet(LAMBDA p : Len(b.side["bid"].fifo[p]), b.side["bid"].bm)
    + MapThenSumSet(LAMBDA p : Len(b.side["ask"].fifo[p]), b.side["ask"].bm)

header(b, h, c) ==
  [shape |-> "same", self_cross |-> c.self_cross, top_throttle |-> c.top_throttle,
   seq |-> h.seq, last |-> h.last, have_top |-> h.have_top, num_orders |-> count_resting(b)]

\* The owner clears the buffer and takes a snapshot.  The sink accepts the
\* header and every record, or throws at one of the writes, after which the
\* buffer keeps what was written before.  The engine is only read.
Snapshot ==
  LET recs == emit_side(book, "bid") \o emit_side(book, "ask")
  IN  /\ pc = "idle"
      /\ \/ buf' = [hdr |-> header(book, hs, cfg), recs |-> recs] /\ taken' = Image
         \/ buf' = EmptyBuffer /\ taken' = None
         \/ \E n \in 0 .. Len(recs) - 1 :
              /\ buf' = [hdr |-> header(book, hs, cfg), recs |-> SubSeq(recs, 1, n)]
              /\ taken' = None
      /\ age' = 0 /\ outcome' = "none"
      /\ UNCHANGED vars

\* A record with one field out of its range.
damaged(r, f) ==
  CASE f = "id"   -> [r EXCEPT !.id = NoId]
    [] f = "px"   -> [r EXCEPT !.px = Ticks]
    [] f = "s"    -> [r EXCEPT !.s = "neither"]
    [] f = "t"    -> [r EXCEPT !.t = "none"]
    [] f = "zero" -> [r EXCEPT !.remaining = 0]
    [] f = "over" -> [r EXCEPT !.remaining = MaxQty + 1]

\* The header is from another program, version or engine shape.
ForeignHeader == buf.hdr # None /\ buf' = [buf EXCEPT !.hdr.shape = "other"]

DamagedRecord ==
  \E k \in 1..Len(buf.recs), f \in Damages : buf' = [buf EXCEPT !.recs[k] = damaged(@, f)]

Damage ==
  /\ pc = "idle" /\ taken # None
  /\ ForeignHeader \/ DamagedRecord
  /\ taken' = None /\ age' = MaxAge /\ outcome' = "none"
  /\ UNCHANGED vars

(***************************************************************************)
(* restore                                                                 *)
(***************************************************************************)
\* clear_state_ drains one side from its best level down, front first.
drain(b, s) ==
  FoldLeft(LAMBDA c, o : withdraw(c, o), b,
           FoldLeft(LAMBDA f, p : f \o b.side[s].fifo[p], << >>,
                    SetToSortSeq(b.side[s].bm, LAMBDA p, q : Better(s, p, q))))

clear_state(b) == drain(drain(b, "bid"), "ask")

\* The checks of replay_record_.
acceptable(r) ==
  /\ r.id # NoId /\ r.px \in Tick /\ r.s \in Side /\ r.t \in Tif
  /\ r.remaining # 0 /\ r.remaining <= MaxQty

\* The rest of replay_record_: the record goes to the back of its level.
replay(b, r) ==
  LET o == Head(b.free)
  IN  reindex([b EXCEPT !.free = Tail(@), !.gen[o] = (@ + 1) % GenWrap, !.ord[o] = r,
                        !.side[r.s] = add(r.s, @, o, r.px, r.remaining)], r.id, o)

\* One turn of restore's loop: a is the book so far and whether it goes on.
replay_record(a, r) ==
  IF ~a.ok \/ ~acceptable(r) \/ a.b.free = << >> THEN [a EXCEPT !.ok = FALSE]
  ELSE [a EXCEPT !.b = replay(@, r)]

replayed(h) ==
  FoldLeft(replay_record, [b |-> clear_state(book), ok |-> TRUE],
           SubSeq(buf.recs, 1, IF h.num_orders < Len(buf.recs) THEN h.num_orders
                                                               ELSE Len(buf.recs)))

Reset == buf' = EmptyBuffer /\ taken' = None /\ age' = 0

HeaderOk == buf.hdr # None /\ buf.hdr.shape = "same"

\* A missing or foreign header: the engine is cleared and keeps its policy.
RestoreRefused ==
  /\ pc = "idle"
  /\ ~HeaderOk
  /\ book' = clear_state(book) /\ hs' = FreshHot /\ outcome' = "failed"
  /\ Reset
  /\ UNCHANGED <<cfg, pc, call, out>>

\* Faulty: the presence flags of the sides stay as a cleared engine has them.
Adopted_unseeded(b, h) ==
  hs' = [FreshHot EXCEPT !.seq = h.seq, !.last = h.last, !.have_top = h.have_top]

\* The hot state of the header, the presence flags seeded from the book.
Adopted(b, h) ==
  hs' = [FreshHot EXCEPT !.seq = h.seq, !.last = h.last, !.have_top = h.have_top,
                         !.have_side = [s \in Side |-> b.side[s].best # None]]

\* A good header: its policy, throttle, sequence and top are taken over, and
\* the records replayed.  A missing or bad record clears the engine again,
\* which by then runs under the policy of the snapshot.
RestoreReplays ==
  /\ pc = "idle"
  /\ HeaderOk
  /\ cfg' = [self_cross |-> buf.hdr.self_cross, top_throttle |-> buf.hdr.top_throttle]
  /\ LET a == replayed(buf.hdr)
     IN  IF a.ok /\ Len(buf.recs) >= buf.hdr.num_orders
           THEN book' = a.b /\ Adopted(a.b, buf.hdr) /\ outcome' = "ok"
           ELSE book' = clear_state(a.b) /\ hs' = FreshHot /\ outcome' = "failed"
  /\ Reset
  /\ UNCHANGED <<pc, call, out>>

\* The owner drops the engine and constructs another, of any policy.
Reconstruct ==
  /\ pc = "idle"
  /\ \E f \in {f \in [1..Cardinality(Slot) -> Slot] : IsInjective(f)} :
       book' = [side |-> [s \in Side |-> EmptySide], ord |-> [o \in Slot |-> Blank],
                free |-> f, gen |-> [o \in Slot |-> 0], index |-> [id \in Id |-> None]]
  /\ hs' = FreshHot /\ outcome' = "none"
  /\ cfg' \in [self_cross : Policies, top_throttle : Throttles]
  /\ UNCHANGED <<pc, call, out, buf, taken, age>>

\* The engine is used; with a snapshot at hand for MaxAge commands at most.
Command ==
  /\ Next
  /\ pc = "idle" /\ buf # EmptyBuffer => age < MaxAge
  /\ age' = IF pc = "idle" /\ buf # EmptyBuffer THEN age + 1 ELSE age
  /\ outcome' = "none"
  /\ UNCHANGED <<buf, taken>>

SNext ==
  \/ Command \/ Snapshot \/ Damage \/ RestoreRefused \/ RestoreReplays \/ Reconstruct

SSpec == SInit /\ [][SNext]_svars

(***************************************************************************)
(* Properties                                                              *)
(***************************************************************************)
\* As empty as a new engine: no order, no index entry, every slot free, nothing
\* published.
Cleared ==
  /\ Linked = {} /\ Range(book.free) = Slot /\ IsInjective(book.free)
  /\ \A s \in Side : book.side[s] = EmptySide
  /\ \A id \in Id : book.index[id] = None
  /\ \A o \in Slot : book.gen[o] % 2 = 0 \/ GenWrap = 1
  /\ hs = FreshHot

\* A warm start: restore succeeds exactly on a buffer that holds a whole and
\* undamaged snapshot, into an engine in any state and of any policy, and then
\* every level, in time priority, the sequence counter, the last top with its
\* flags and the policies are those of the engine the snapshot was taken of.
\* A restore that fails, however far it came, leaves an empty engine.
RestoreStep ==
  /\ outcome' = "ok" => taken # None /\ Image' = taken
  /\ outcome' = "failed" => taken = None /\ Cleared'

\* Caches, slots, index and last top stay exact in an engine that was restored
\* and then used: the commands that follow rely on flags and sums which restore
\* rebuilt rather than read.
RestoredConsistent ==
  /\ BestIsCurrent /\ AggregateExact /\ SlotsAccounted /\ TopIsCurrent
===============================================================================
