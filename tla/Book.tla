--------------------------------- MODULE Book ---------------------------------
(***************************************************************************)
(* include/lob/book.hpp and level.hpp: one side of the price ladder.       *)
(*                                                                         *)
(* A side is a record of                                                   *)
(*   fifo  the orders resting at each price, front first (their slots);    *)
(*   agg   the cached quantity of each level;                              *)
(*   bm    the populated prices, which hier_bitmap answers queries about;  *)
(*   best  the cached best price, None when the side is empty.             *)
(* Orders live in arena slots; the operators take the slot, the price and  *)
(* the quantity they use of an order.                                      *)
(***************************************************************************)
EXTENDS Integers, Sequences, SequencesExt

CONSTANTS Ticks,  \* prices are 0 .. Ticks - 1
          Slot,   \* arena slots
          None    \* the empty optional

ASSUME TicksAssumption == Ticks \in Nat \ {0}
ASSUME NoneAssumption == None \notin Nat /\ None \notin Slot

Tick == 0 .. Ticks - 1
Side == {"bid", "ask"}
Opp(s) == IF s = "bid" THEN "ask" ELSE "bid"

\* p is strictly closer to the top of side s than q.
Better(s, p, q) == IF s = "bid" THEN p > q ELSE p < q

EmptySide == [fifo |-> [p \in Tick |-> << >>], agg |-> [p \in Tick |-> 0],
              bm |-> {}, best |-> None]

\* recompute_best_: highest_set for bids, lowest_set for asks.
recompute_best(s, bm) ==
  IF bm = {} THEN None ELSE CHOOSE p \in bm : \A q \in bm : ~Better(s, q, p)

\* Faulty: a new order jumps the queue.
add_front(s, bs, o, px, qty) ==
  [fifo |-> [bs.fifo EXCEPT ![px] = <<o>> \o @],
   agg  |-> [bs.agg EXCEPT ![px] = @ + qty],
   bm   |-> IF bs.fifo[px] = << >> THEN bs.bm \cup {px} ELSE bs.bm,
   best |-> IF bs.best = None \/ Better(s, px, bs.best) THEN px ELSE bs.best]

add(s, bs, o, px, qty) ==
  [fifo |-> [bs.fifo EXCEPT ![px] = Append(@, o)],
   agg  |-> [bs.agg EXCEPT ![px] = @ + qty],
   bm   |-> IF bs.fifo[px] = << >> THEN bs.bm \cup {px} ELSE bs.bm,
   best |-> IF bs.best = None \/ Better(s, px, bs.best) THEN px ELSE bs.best]

\* Faulty: the cached best is left naming the drained level.
notify_keeps_best(s, bs, px) == [bs EXCEPT !.bm = @ \ {px}]

\* The bitmap bit goes, and the cached best only when it named this level.
notify_level_emptied(s, bs, px) ==
  [bs EXCEPT !.bm = @ \ {px},
             !.best = IF @ = px THEN recompute_best(s, bs.bm \ {px}) ELSE @]

\* level::unlink takes the order out of the middle of the list.
unlink(f, o) ==
  IF \E k \in 1..Len(f) : f[k] = o
    THEN RemoveAt(f, CHOOSE k \in 1..Len(f) : f[k] = o) ELSE f

\* The level at px with FIFO f and aggregate a.
with_level(bs, px, f, a) == [bs EXCEPT !.fifo[px] = f, !.agg[px] = a]

remove(s, bs, o, px, qty) ==
  LET b == with_level(bs, px, unlink(bs.fifo[px], o), bs.agg[px] - qty)
  IN  IF b.fifo[px] = << >> THEN notify_level_emptied(s, b, px) ELSE b

\* One maker at the front of a level gives up qty: the match loop and the
\* self-cross policies take it off the aggregate, and pop the maker when it is
\* spent (gone), telling the side once the level has drained.
consume_front(s, bs, px, qty, gone) ==
  LET f == bs.fifo[px]
      b == with_level(bs, px, IF gone THEN Tail(f) ELSE f, bs.agg[px] - qty)
  IN  IF b.fifo[px] = << >> THEN notify_level_emptied(s, b, px) ELSE b

\* Faulty: the old quantity is not taken off first.
requantify_adds(bs, px, old, new) == [bs EXCEPT !.agg[px] = @ + new]

\* The qty-only modify changes a level's aggregate and nothing else.
requantify(bs, px, old, new) == [bs EXCEPT !.agg[px] = (@ - old) + new]

\* The prices the FOK walk visits: from the cached best, then from one
\* populated level to the next, up to the aggressor's limit.
walked(s, bs, limit) ==
  {p \in bs.bm : bs.best # None /\ ~Better(s, p, bs.best) /\ ~Better(s, limit, p)}

BookSide == [fifo : [Tick -> Seq(Slot)], agg : [Tick -> Int],
             bm : SUBSET Tick, best : Tick \cup {None}]

\* What add, remove and notify_level_emptied maintain: the bitmap marks exactly
\* the levels that hold an order, and the cached best is the bitmap's.
SideConsistent(s, bs) ==
  /\ bs.bm = {p \in Tick : bs.fifo[p] # << >>}
  /\ bs.best = recompute_best(s, bs.bm)
===============================================================================
