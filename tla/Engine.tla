-------------------------------- MODULE Engine --------------------------------
(***************************************************************************)
(* include/lob/engine.hpp: the single-symbol matching engine over its book *)
(* (book.hpp), arena (arena.hpp) and id index (id_index.hpp).              *)
(*                                                                         *)
(* A command is one call of on_submit, on_cancel or on_modify.  The match  *)
(* loop takes one step per maker it meets; everything else a call does,    *)
(* the trailing publish_top_if_changed_ included, is one step.  Between    *)
(* calls pc is "idle"; a finished call shows its events and its result at  *)
(* "done" until Return forgets them.                                       *)
(*                                                                         *)
(* SeqWrap and GenWrap are the moduli of the 64-bit sequence counter and   *)
(* the 32-bit slot generations.  MaxQty is the cap the gateway validates.  *)
(***************************************************************************)
EXTENDS Book, FiniteSets

CONSTANTS Id,          \* order ids a caller may use
          NoId,        \* 0: modify's keep-the-id, and the id of a blank slot
          Account,     \* account ids, 0 meaning none
          MaxQty,      \* engine_config::max_order_qty
          SeqWrap, GenWrap,
          Policies,    \* self-cross policies to explore
          Throttles,   \* settings of top_throttle to explore
          ByHandle,    \* order_lookup: TRUE for by_handle
          UniqueIds    \* the caller keeps resting ids unique, as messages.hpp asks

ASSUME EngineAssumption ==
  /\ IsFiniteSet(Slot)
  /\ MaxQty \in Nat \ {0} /\ SeqWrap \in Nat \ {0} /\ GenWrap \in Nat \ {0}
  /\ 0 \in Account /\ NoId \notin Id /\ None \notin Id
  /\ Policies \subseteq {"cancel_newest", "cancel_oldest", "decrement_trade"}
  /\ Throttles \subseteq BOOLEAN
  /\ ByHandle \in BOOLEAN /\ UniqueIds \in BOOLEAN

VARIABLES
  book,   \* both sides, order records, free list, generations, id index
  hs,     \* hot_state
  cfg,    \* engine_config
  pc,     \* "idle", "match" or "done"
  call,   \* the command being run
  out     \* events it has published

vars == <<book, hs, cfg, pc, call, out>>

Qty == 1 .. MaxQty
Tif == {"gtc", "ioc", "fok"}
Gen == 0 .. GenWrap - 1
Handle == [slot : Slot \cup {None}, generation : Gen]
NoHandle == [slot |-> None, generation |-> 0]

Order == [id : Id \cup {NoId}, remaining : Nat, px : Tick, s : Side, t : Tif,
          account : Account]
Blank == [id |-> NoId, remaining |-> 0, px |-> 0, s |-> "bid", t |-> "gtc",
          account |-> 0]

SubmitMsg == [id : Id, px : Tick, qty : Qty, s : Side, t : Tif, account : Account]
NoMsg == [id |-> NoId, px |-> 0, qty |-> 0, s |-> "bid", t |-> "gtc", account |-> 0]

Msg == [id : Id \cup {NoId}, px : Tick, qty : Nat, s : Side, t : Tif, account : Account]

\* The call being run: kind, the submit it matches (a modify's resubmit leg
\* too), the quantity left to match, and the handle it returns.
NoCall == [kind |-> "none", m |-> NoMsg, remaining |-> 0, ret |-> NoHandle]

(***************************************************************************)
(* Arena, index and lookup                                                 *)
(***************************************************************************)
\* deallocate: the slot goes to the head of the free list.
deallocate(b, o) ==
  [b EXCEPT !.free = <<o>> \o @, !.ord[o] = Blank, !.gen[o] = (@ + 1) % GenWrap]

unindex(b, id) == IF ByHandle THEN b ELSE [b EXCEPT !.index[id] = None]
reindex(b, id, o) == IF ByHandle THEN b ELSE [b EXCEPT !.index[id] = o]

\* Faulty: the generation the slot had before it was allocated.
handle_before(b, o) == [slot |-> o, generation |-> (b.gen[o] + GenWrap - 1) % GenWrap]

handle_of(b, o) == [slot |-> o, generation |-> b.gen[o]]

\* resolve_: the slot of a live handle whose order has this id.
resolve(b, h, id) ==
  IF /\ h.slot \in Slot
     /\ h.generation % 2 = 1
     /\ b.gen[h.slot] = h.generation
     /\ b.ord[h.slot].id = id
    THEN h.slot ELSE None

find(b, id, h) == IF ByHandle THEN resolve(b, h, id) ELSE b.index[id]

(***************************************************************************)
(* Top of book                                                             *)
(***************************************************************************)
TopOf(sides) ==
  [px  |-> [s \in Side |-> IF sides[s].best = None THEN 0 ELSE sides[s].best],
   qty |-> [s \in Side |-> IF sides[s].best = None THEN 0
                           ELSE sides[s].agg[sides[s].best]]]

\* Faulty: compares with the last price of a side that was empty.
affects_top_by_price(h, s, px) == ~h.have_top \/ ~Better(s, h.last.px[s], px)

affects_top(h, s, px) ==
  ~h.have_top \/ ~h.have_side[s] \/ ~Better(s, h.last.px[s], px)

mark_top(h, s, px) ==
  IF ~cfg.top_throttle \/ affects_top(h, s, px)
    THEN [h EXCEPT !.top_dirty = TRUE] ELSE h

bump(h) == [h EXCEPT !.seq = (@ + 1) % SeqWrap]

\* publish_top_if_changed_ on hot state h, with ev published so far.
publish_top(sides, h, ev) ==
  IF ~h.top_dirty \/ h.suppress # 0 THEN [h |-> h, ev |-> ev]
  ELSE LET top == TopOf(sides)
           h1  == [h EXCEPT !.top_dirty = FALSE,
                            !.have_side = [s \in Side |-> sides[s].best # None]]
           h2  == [bump(h1) EXCEPT !.last = top, !.have_top = TRUE]
       IN  IF cfg.top_throttle /\ h.have_top /\ top = h.last
             THEN [h |-> h1, ev |-> ev]
             ELSE [h |-> h2, ev |-> Append(ev, [k |-> "top", top |-> top, seq |-> h2.seq])]

(***************************************************************************)
(* Init                                                                    *)
(***************************************************************************)
\* The free list starts with every slot, in address order: some order of the
\* slots, which are interchangeable names.
Init ==
  /\ book \in [side  : {[s \in Side |-> EmptySide]},
               ord   : {[o \in Slot |-> Blank]},
               free  : {f \in [1..Cardinality(Slot) -> Slot] : IsInjective(f)},
               gen   : {[o \in Slot |-> 0]},
               index : {[id \in Id |-> None]}]
  /\ hs = [seq |-> 0, last |-> TopOf([s \in Side |-> EmptySide]),
           have_top |-> FALSE, top_dirty |-> FALSE,
           have_side |-> [s \in Side |-> FALSE], suppress |-> 0]
  /\ cfg \in [self_cross : Policies, top_throttle : Throttles]
  /\ pc = "idle" /\ call = NoCall /\ out = << >>

(***************************************************************************)
(* on_submit                                                               *)
(***************************************************************************)
\* can_fully_fill_ over one order of the walk: a is what was summed so far.
consume_order(a, r, m) ==
  IF a.stop THEN a
  ELSE IF r.account = m.account
         THEN IF cfg.self_cross = "cancel_newest"
                THEN [a EXCEPT !.stop = TRUE, !.aborted = TRUE] ELSE a
         ELSE [a EXCEPT !.total = @ + r.remaining,
                        !.stop = a.total + r.remaining >= m.qty]

\* Faulty: counts the aggressor's own resting orders as liquidity.
can_fully_fill_by_aggregate(b, m) ==
  LET bs == b.side[Opp(m.s)]
  IN  MapThenSumSet(LAMBDA p : bs.agg[p], walked(Opp(m.s), bs, m.px)) >= m.qty

can_fully_fill(b, m) ==
  LET o  == Opp(m.s)
      bs == b.side[o]
      px == SetToSortSeq(walked(o, bs, m.px), LAMBDA p, q : Better(o, p, q))
      sum_level(total, p) == total + bs.agg[p]
      queue == FoldLeft(LAMBDA f, p : f \o bs.fifo[p], << >>, px)
      walk(a, x) == consume_order(a, b.ord[x], m)
      end == FoldLeft(walk, [total |-> 0, stop |-> FALSE, aborted |-> FALSE], queue)
  IN  IF m.account = 0 \/ cfg.self_cross = "decrement_trade"
        THEN FoldLeft(sum_level, 0, px) >= m.qty
        ELSE ~end.aborted /\ end.total >= m.qty

\* Faulty: an equal price does not cross.
crosses_strictly(b, m) ==
  LET best == b.side[Opp(m.s)].best IN best # None /\ Better(m.s, m.px, best)

\* The best price still open to the aggressor, if it crosses.
crosses(b, m) ==
  LET best == b.side[Opp(m.s)].best IN best # None /\ ~Better(m.s, best, m.px)

\* Call c is over: publish_top_if_changed_, and for the resubmit leg of a
\* modify again after --suppress_top_depth.
Complete(c, b, h, ev) ==
  LET inner == publish_top(b.side, h, ev)
      outer == IF h.suppress = 0 THEN inner
               ELSE publish_top(b.side, [inner.h EXCEPT !.suppress = @ - 1], inner.ev)
  IN  /\ book' = b
      /\ hs' = outer.h
      /\ out' = outer.ev
      /\ call' = c
      /\ pc' = "done"
      /\ UNCHANGED cfg

\* handle_submit_ begins: an unfillable fok order ends here, with no event.
BeginSubmit(kind, m, b, h, ev) ==
  LET c == [kind |-> kind, m |-> m, remaining |-> m.qty, ret |-> NoHandle]
  IN  IF m.t = "fok" /\ ~can_fully_fill(b, m)
        THEN Complete(c, b, h, ev)
        ELSE /\ book' = b /\ hs' = h /\ out' = ev /\ call' = c /\ pc' = "match"
             /\ UNCHANGED cfg

RestingIds(b) == {b.ord[o].id : o \in Slot} \ {NoId}

Submit(m) ==
  /\ pc = "idle"
  /\ UniqueIds => m.id \notin RestingIds(book)
  /\ BeginSubmit("submit", m, book, hs, out)

\* The maker at the front of the best opposite level.
BestPx == book.side[Opp(call.m.s)].best
Maker == Head(book.side[Opp(call.m.s)].fifo[BestPx])

\* Faulty: a spent maker takes a slot from the free list and returns none.
consume_leaks(b, qty) ==
  LET r == b.ord[Maker]
      gone == r.remaining = qty
      b1 == [b EXCEPT !.side[Opp(call.m.s)] = consume_front(Opp(call.m.s), @, BestPx, qty, gone)]
  IN  IF gone THEN [unindex(b1, r.id) EXCEPT !.free = SubSeq(@, 2, Len(@))]
              ELSE [b1 EXCEPT !.ord[Maker].remaining = @ - qty]

\* The maker gives up qty and, once it has none left, leaves the level, the
\* index and the arena.
consume(b, qty) ==
  LET r == b.ord[Maker]
      gone == r.remaining = qty
      b1 == [b EXCEPT !.side[Opp(call.m.s)] = consume_front(Opp(call.m.s), @, BestPx, qty, gone)]
  IN  IF gone THEN deallocate(unindex(b1, r.id), Maker)
              ELSE [b1 EXCEPT !.ord[Maker].remaining = @ - qty]

Matching ==
  /\ pc = "match"
  /\ call.remaining > 0
  /\ crosses(book, call.m)

OwnMaker == call.m.account # 0 /\ book.ord[Maker].account = call.m.account

\* Both orders give up qty under one new sequence number.
Execute(qty, ev) ==
  /\ book' = consume(book, qty)
  /\ hs' = [bump(hs) EXCEPT !.top_dirty = TRUE]
  /\ out' = out \o ev
  /\ call' = [call EXCEPT !.remaining = @ - qty]
  /\ UNCHANGED <<cfg, pc>>

TradeQty == IF call.remaining < book.ord[Maker].remaining
              THEN call.remaining ELSE book.ord[Maker].remaining

Trade ==
  /\ Matching
  /\ ~OwnMaker
  /\ Execute(TradeQty,
       << [k |-> "fill", maker |-> book.ord[Maker].id, taker |-> call.m.id,
           px |-> BestPx, qty |-> TradeQty, seq |-> bump(hs).seq],
          [k |-> "trade", px |-> BestPx, qty |-> TradeQty, seq |-> bump(hs).seq] >>)

\* handle_self_cross_, one action per policy.
SelfDecrement ==
  /\ Matching
  /\ OwnMaker
  /\ cfg.self_cross = "decrement_trade"
  /\ Execute(TradeQty,
       << [k |-> "self_trade", aggressor |-> call.m.id,
           resting |-> book.ord[Maker].id, px |-> BestPx, qty |-> TradeQty, seq |-> bump(hs).seq] >>)

\* Faulty: the loop goes round again without removing the maker.
SelfCancelOldest_skips ==
  /\ Matching
  /\ OwnMaker
  /\ cfg.self_cross = "cancel_oldest"
  /\ hs' = [hs EXCEPT !.top_dirty = TRUE]
  /\ UNCHANGED <<book, cfg, pc, call, out>>

SelfCancelOldest ==
  /\ Matching
  /\ OwnMaker
  /\ cfg.self_cross = "cancel_oldest"
  /\ book' = consume(book, book.ord[Maker].remaining)
  /\ hs' = [hs EXCEPT !.top_dirty = TRUE]
  /\ UNCHANGED <<cfg, pc, call, out>>

SelfCancelNewest ==
  /\ Matching
  /\ OwnMaker
  /\ cfg.self_cross = "cancel_newest"
  /\ call' = [call EXCEPT !.remaining = 0]
  /\ UNCHANGED <<book, hs, cfg, pc, out>>

\* rest_: the residual goes to the back of its level, or is rejected when the
\* arena has no slot.
rest(m, remaining) ==
  IF book.free = << >>
    THEN LET h == bump(hs)
         IN  Complete(call, book, h,
                      Append(out, [k |-> "reject", id |-> m.id, qty |-> remaining, seq |-> h.seq]))
    ELSE LET o  == Head(book.free)
             b1 == [book EXCEPT
                      !.free = Tail(@), !.gen[o] = (@ + 1) % GenWrap,
                      !.ord[o] = [id |-> m.id, remaining |-> remaining, px |-> m.px,
                                  s |-> m.s, t |-> m.t, account |-> m.account],
                      !.side[m.s] = add(m.s, @, o, m.px, remaining)]
             b2 == reindex(b1, m.id, o)
         IN  Complete([call EXCEPT !.ret = IF ByHandle THEN handle_of(b2, o) ELSE NoHandle],
                      b2, mark_top(hs, m.s, m.px), out)

\* The match loop has ended: ioc and fok drop the residual, gtc rests it.
FinishSubmit ==
  /\ pc = "match"
  /\ call.remaining = 0 \/ ~crosses(book, call.m)
  /\ IF call.remaining > 0 /\ call.m.t = "gtc"
       THEN rest(call.m, call.remaining)
       ELSE Complete(call, book, hs, out)

(***************************************************************************)
(* on_cancel                                                               *)
(***************************************************************************)
\* The order leaves its level, the index and the arena.
withdraw(b, o) ==
  LET r == b.ord[o]
  IN  deallocate([unindex(b, r.id) EXCEPT
                    !.side[r.s] = remove(r.s, @, o, r.px, r.remaining)], o)

Named(kind, id) ==
  [kind |-> kind, m |-> [NoMsg EXCEPT !.id = id], remaining |-> 0, ret |-> NoHandle]

Cancel(id, h) ==
  /\ pc = "idle"
  /\ LET o == find(book, id, h)
     IN  IF o = None
           THEN /\ call' = Named("missing", id) /\ pc' = "done"
                /\ UNCHANGED <<book, hs, cfg, out>>
           ELSE Complete(Named("cancel", id), withdraw(book, o),
                         mark_top(hs, book.ord[o].s, book.ord[o].px), out)

(***************************************************************************)
(* on_modify                                                               *)
(***************************************************************************)
ModifyMsg == [id : Id, new_px : Tick, new_qty : Qty, new_id : Id \cup {NoId},
              handle : IF ByHandle THEN Handle ELSE {NoHandle}]

\* Faulty: the old id keeps its entry.
rename_keeps_old(b, mm, o) ==
  IF mm.new_id = NoId \/ mm.new_id = mm.id THEN b
  ELSE reindex([b EXCEPT !.ord[o].id = mm.new_id], mm.new_id, o)

\* The rename comes first: the index entry moves to the new id.
rename(b, mm, o) ==
  IF mm.new_id = NoId \/ mm.new_id = mm.id THEN b
  ELSE reindex([unindex(b, mm.id) EXCEPT !.ord[o].id = mm.new_id], mm.new_id, o)

ModifyFinds(mm, o) ==
  /\ pc = "idle"
  /\ UniqueIds => mm.new_id = mm.id \/ mm.new_id \notin RestingIds(book)
  /\ o = find(book, mm.id, mm.handle)

Modified(mm, b, o) == [Named("modify", b.ord[o].id) EXCEPT !.ret = mm.handle]

ModifyMissing(mm) ==
  /\ ModifyFinds(mm, None)
  /\ call' = Named("missing", mm.id) /\ pc' = "done"
  /\ UNCHANGED <<book, hs, cfg, out>>

\* Same price: a quantity change is made in place and keeps its priority.
ModifyInPlace(mm, o) ==
  /\ ModifyFinds(mm, o)
  /\ mm.new_px = book.ord[o].px
  /\ LET b == rename(book, mm, o)
         r == b.ord[o]
     IN  IF mm.new_qty = r.remaining
           THEN /\ book' = b /\ call' = Modified(mm, b, o) /\ pc' = "done"
                /\ UNCHANGED <<hs, cfg, out>>
           ELSE Complete(Modified(mm, b, o),
                  [b EXCEPT !.side[r.s] = requantify(@, r.px, r.remaining, mm.new_qty),
                            !.ord[o].remaining = mm.new_qty],
                  mark_top(hs, r.s, r.px), out)

\* The new price would trade with the other side.
ModifyCrosses(mm, o) ==
  crosses(book, [s |-> book.ord[o].s, px |-> mm.new_px])

\* A price change that still rests moves the record to the back of its level.
ModifyRelinks(mm, o) ==
  /\ ModifyFinds(mm, o)
  /\ mm.new_px # book.ord[o].px
  /\ ~ModifyCrosses(mm, o)
  /\ LET b == rename(book, mm, o)
         r == b.ord[o]
         taken == remove(r.s, b.side[r.s], o, r.px, r.remaining)
     IN  Complete(Modified(mm, b, o),
           [b EXCEPT !.side[r.s] = add(r.s, taken, o, mm.new_px, mm.new_qty),
                     !.ord[o].px = mm.new_px, !.ord[o].remaining = mm.new_qty],
           mark_top(mark_top(hs, r.s, r.px), r.s, mm.new_px), out)

\* A crossing price change is a cancel and a submit under suppressed tops.
ModifyResubmits(mm, o) ==
  /\ ModifyFinds(mm, o)
  /\ mm.new_px # book.ord[o].px
  /\ ModifyCrosses(mm, o)
  /\ LET b == rename(book, mm, o)
         r == b.ord[o]
         w == withdraw(b, o)
         p == publish_top(w.side, mark_top([hs EXCEPT !.suppress = @ + 1], r.s, r.px), out)
     IN  BeginSubmit("modify",
           [id |-> r.id, px |-> mm.new_px, qty |-> mm.new_qty, s |-> r.s, t |-> r.t,
            account |-> r.account],
           w, p.h, p.ev)

Modify(mm) ==
  \/ ModifyMissing(mm)
  \/ \E o \in Slot : ModifyInPlace(mm, o) \/ ModifyRelinks(mm, o) \/ ModifyResubmits(mm, o)

\* The caller takes the result; the next command may come.
Return ==
  /\ pc = "done"
  /\ pc' = "idle" /\ call' = NoCall /\ out' = << >>
  /\ UNCHANGED <<book, hs, cfg>>

MatchStep == Trade \/ SelfDecrement \/ SelfCancelOldest \/ SelfCancelNewest

Next ==
  \/ \E m \in SubmitMsg : Submit(m)
  \/ MatchStep
  \/ FinishSubmit
  \/ \E id \in Id, h \in (IF ByHandle THEN Handle ELSE {NoHandle}) : Cancel(id, h)
  \/ \E mm \in ModifyMsg : Modify(mm)
  \/ Return

Spec == Init /\ [][Next]_vars

(***************************************************************************)
(* Properties                                                              *)
(***************************************************************************)
BookType == [side : [Side -> BookSide], ord : [Slot -> Order], free : Seq(Slot),
             gen : [Slot -> Gen], index : [Id -> Slot \cup {None}]]
Top == [px : [Side -> Tick], qty : [Side -> Int]]
HotState == [seq : 0 .. SeqWrap - 1, last : Top, have_top : BOOLEAN,
             top_dirty : BOOLEAN, have_side : [Side -> BOOLEAN], suppress : {0, 1}]
Call == [kind : {"none", "submit", "cancel", "modify", "missing"}, m : Msg,
         remaining : Nat, ret : Handle]

\* Every field of the book, the hot state and the running call stays in its
\* domain; suppress_top_depth is never nested and is down between calls.
TypeOK ==
  /\ book \in BookType
  /\ hs \in HotState
  /\ cfg \in [self_cross : Policies, top_throttle : Throttles]
  /\ pc \in {"idle", "match", "done"}
  /\ call \in Call
  /\ pc # "match" => hs.suppress = 0

\* book.hpp: the bitmap is the source of truth and best() its cache, which add,
\* remove, the in-place modifies and a level drained by the match loop all keep.
BestIsCurrent == \A s \in Side : SideConsistent(s, book.side[s])

\* The two sides never cross or lock, at rest or between two steps of a match:
\* whatever rests, relinks or resubmits does so only where it cannot trade.
Uncrossed ==
  \A p \in book.side["bid"].bm, q \in book.side["ask"].bm : p < q

Orders(s, p) == book.side[s].fifo[p]
Linked == {o \in Slot : \E s \in Side, p \in Tick : \E k \in 1..Len(Orders(s, p)) :
                           Orders(s, p)[k] = o}

\* The cached aggregate of a level is the sum of what its orders still hold,
\* through fills, self-cross cancels, nettings and quantity changes; the FOK
\* precheck and the published quantities rest on it.
AggregateExact ==
  \A s \in Side, p \in Tick :
    book.side[s].agg[p] =
      FoldLeft(LAMBDA sum, o : sum + book.ord[o].remaining, 0, Orders(s, p))

\* Every slot is either free, once, or linked, once, at the price and side its
\* record names with quantity left; and with ids the caller keeps unique the
\* index names exactly the linked orders.  So no order is leaked, linked twice,
\* reachable after its slot was freed, or stranded where no cancel reaches it.
SlotsAccounted ==
  /\ IsInjective(book.free)
  /\ Range(book.free) = Slot \ Linked
  /\ \A o \in Linked :
       LET r == book.ord[o]
       IN  /\ r.remaining > 0 /\ r.id \in Id
           /\ \A s \in Side, p \in Tick : \A k \in 1..Len(Orders(s, p)) :
                Orders(s, p)[k] = o => /\ s = r.s /\ p = r.px
                                       /\ \A j \in 1..Len(Orders(s, p)) :
                                            Orders(s, p)[j] = o => j = k
  /\ ~ByHandle => \A id \in Id, o \in Slot :
       (book.index[id] = o) <=> (o \in Linked /\ book.ord[o].id = id)

\* The top a consumer last saw is the book's top whenever no call is running,
\* although affects_top_ skips the recompute for mutations it judges too deep
\* and decides that from flags of the last publish.  A call, the two legs of a
\* crossing modify included, publishes at most one top, after its other events.
TopIsCurrent ==
  /\ \A k \in 1..Len(out) : out[k].k = "top" => k = Len(out)
  /\ pc # "match" =>
       /\ ~hs.top_dirty /\ hs.suppress = 0
       /\ hs.have_top => /\ hs.last = TopOf(book.side)
                         /\ \A s \in Side : hs.have_side[s] = (book.side[s].best # None)
       /\ ~hs.have_top => \A s \in Side : book.side[s].best = None

Executed == FoldLeft(LAMBDA sum, e : IF e.k \in {"fill", "self_trade"} THEN sum + e.qty ELSE sum,
                     0, out)
Kinds == {out[k].k : k \in 1..Len(out)}

\* What the match loop could take for m from the book as it stands: every
\* crossing order, but not its own ones under the cancelling policies, and
\* under cancel_newest nothing behind the first of them.
Reachable(m) ==
  {o \in Linked : book.ord[o].s = Opp(m.s) /\ ~Better(Opp(m.s), m.px, book.ord[o].px)}
Own(m, o) == m.account # 0 /\ book.ord[o].account = m.account
Ahead(x, o) ==
  LET r == book.ord[x]  q == book.ord[o]
      pos(y) == CHOOSE k \in 1..Len(Orders(r.s, r.px)) : Orders(r.s, r.px)[k] = y
  IN  Better(r.s, r.px, q.px) \/ (r.px = q.px /\ pos(x) < pos(o))
Takeable(m) ==
  CASE cfg.self_cross = "decrement_trade" -> Reachable(m)
    [] cfg.self_cross = "cancel_oldest"   -> {o \in Reachable(m) : ~Own(m, o)}
    [] cfg.self_cross = "cancel_newest"   ->
         {o \in Reachable(m) : ~Own(m, o) /\ \A x \in Reachable(m) : Own(m, x) => Ahead(o, x)}

\* A fill-or-kill order trades its whole quantity, or it is killed untouched
\* and then the book really could not have filled it, under every self-cross
\* policy: the precheck counts exactly what the match loop would take.
FokAllOrNothing ==
  pc = "done" /\ call.m.t = "fok" =>
    IF call.remaining = call.m.qty
      THEN /\ Executed = 0
           /\ MapThenSumSet(LAMBDA o : book.ord[o].remaining, Takeable(call.m)) < call.m.qty
      ELSE Executed = call.m.qty

\* A rejected residual has traded nothing and moved no top: any maker it had
\* consumed would have left it a slot.  And the resubmit leg of a modify is
\* never rejected, since its own slot was just freed.
RejectMeansUntouched ==
  "reject" \in Kinds => Len(out) = 1 /\ call.kind = "submit" /\ out[1].qty = call.m.qty

\* The handle a submit or modify returns names the order it left resting.
HandleNamesOrder ==
  pc = "done" /\ ByHandle /\ call.kind \in {"submit", "modify"} =>
    \A o \in Linked : book.ord[o].id = call.m.id =>
      resolve(book, call.ret, call.m.id) = o

\* A slot's generation is odd exactly while an order rests in it, so a handle
\* to a slot that was freed, whichever path freed it, resolves to nothing.
LiveGenerations ==
  ByHandle => \A o \in Slot : (book.gen[o] % 2 = 1) <=> (o \in Linked)

\* Time priority: whatever a step does to a level, the orders that stay keep
\* their order and everything that arrives is behind them.
PriorityKept ==
  [][\A s \in Side, p \in Tick :
       LET old == Orders(s, p)
           new == Orders(s, p)'
       IN  \A k \in 1..Len(old), kk \in 1..Len(new) : new[kk] = old[k] =>
             \A jj \in 1..kk - 1 : \E j \in 1..k - 1 : new[jj] = old[j]]_vars

\* Only an id the index does not hold is inserted (id_index.hpp: "The engine
\* never inserts duplicates").
NoDuplicateInsert ==
  [][\A id \in Id : book.index[id] # None => book'.index[id] \in {None, book.index[id]}]_vars

\* The match loop terminates and conserves quantity: each turn takes quantity
\* from the aggressor or an order from the book and never adds either, and what
\* it takes from the aggressor it reports as executed, unless cancel_newest
\* drops the rest.
MatchProgress ==
  [][pc = "match" /\ pc' = "match" =>
       /\ Linked' \subseteq Linked
       /\ <<call'.remaining, Linked'>> # <<call.remaining, Linked>>
       /\ \/ call'.remaining = call.remaining - (Executed' - Executed)
          \/ /\ cfg.self_cross = "cancel_newest" /\ OwnMaker
             /\ call'.remaining = 0 /\ Executed' = Executed]_vars
===============================================================================
