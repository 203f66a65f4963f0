----------------------------- MODULE EngineProofs -----------------------------
(***************************************************************************)
(* The engine keeps its types, its cached bests and an uncrossed book, for *)
(* every number of ticks, slots, ids, accounts and quantities, every       *)
(* policy, and both ways of looking orders up.                             *)
(*                                                                         *)
(* The inductive invariant IInv is the conjunction of the three.  Neither  *)
(* BestIsCurrent nor Uncrossed is inductive alone: an order rests where it *)
(* does not cross the cached best, which says nothing of the populated     *)
(* levels unless the cache is current.                                     *)
(***************************************************************************)
EXTENDS Engine, BookProofs, FiniteSetTheorems

\* The book's share of IInv.
Good(b) ==
  /\ b \in BookType
  /\ \A s \in Side : SideConsistent(s, b.side[s])
  /\ \A p \in b.side["bid"].bm, q \in b.side["ask"].bm : p < q

IInv ==
  /\ Good(book)
  /\ hs \in HotState
  /\ cfg \in [self_cross : Policies, top_throttle : Throttles]
  /\ pc \in {"idle", "match", "done"}
  /\ call \in Call
  /\ pc # "match" => hs.suppress = 0

(***************************************************************************)
(* Hot state                                                               *)
(***************************************************************************)
\* TopOf describes any two well-typed sides.
LEMMA TopType ==
  ASSUME NEW sides \in [Side -> BookSide]
  PROVE  TopOf(sides) \in Top
<1>1. 0 \in Tick
  BY TicksAssumption DEF Tick
<1>2. \A s \in Side : sides[s].best \in Tick \cup {None} /\ sides[s].agg \in [Tick -> Int]
  BY DEF BookSide
<1> QED BY <1>1, <1>2 DEF TopOf, Top

\* mark_top_ only ever raises a flag.
LEMMA MarkTop ==
  ASSUME NEW h \in HotState, NEW s, NEW px
  PROVE  mark_top(h, s, px) \in HotState /\ mark_top(h, s, px).suppress = h.suppress
BY ZenonT(30) DEF mark_top, HotState

\* A new sequence number stays in the counter's width.
LEMMA BumpType ==
  ASSUME NEW h \in HotState
  PROVE  bump(h) \in HotState /\ bump(h).suppress = h.suppress
<1>1. (h.seq + 1) % SeqWrap \in 0 .. SeqWrap - 1
  BY EngineAssumption DEF HotState
<1> QED BY <1>1 DEF bump, HotState

\* publish_top_if_changed_ leaves suppress_top_depth alone.
LEMMA PublishTop ==
  ASSUME NEW sides \in [Side -> BookSide], NEW h \in HotState, NEW ev
  PROVE  /\ publish_top(sides, h, ev).h \in HotState
         /\ publish_top(sides, h, ev).h.suppress = h.suppress
<1> DEFINE hb == [s \in Side |-> sides[s].best # None]
           h1 == [h EXCEPT !.top_dirty = FALSE, !.have_side = hb]
           top == TopOf(sides)
           h2 == [bump(h1) EXCEPT !.last = top, !.have_top = TRUE]
<1>1. hb \in [Side -> BOOLEAN] /\ top \in Top
  BY TopType
<1> HIDE DEF hb, top
<1>2. h1 \in HotState /\ h1.suppress = h.suppress
  BY <1>1, ZenonT(30) DEF HotState
<1> HIDE DEF h1
<1>3. bump(h1) \in HotState /\ bump(h1).suppress = h.suppress
  BY <1>2, BumpType
<1>4. h2 \in HotState /\ h2.suppress = h.suppress
  BY <1>1, <1>3, ZenonT(30) DEF HotState
<1> HIDE DEF h2
<1>5. publish_top(sides, h, ev).h \in {h, h1, h2}
  BY DEF publish_top, h1, h2, hb, top
<1> QED BY <1>2, <1>4, <1>5

(***************************************************************************)
(* The book record                                                         *)
(***************************************************************************)
\* A good book taken apart ...
LEMMA GoodFields ==
  ASSUME NEW b, Good(b)
  PROVE  /\ b = [side |-> b.side, ord |-> b.ord, free |-> b.free, gen |-> b.gen,
                 index |-> b.index]
         /\ b.side \in [Side -> BookSide] /\ b.ord \in [Slot -> Order]
         /\ b.free \in Seq(Slot) /\ b.gen \in [Slot -> Gen]
         /\ b.index \in [Id -> Slot \cup {None}]
         /\ \A s \in Side : b.side[s] \in BookSide /\ SideConsistent(s, b.side[s])
         /\ \A p \in b.side["bid"].bm, q \in b.side["ask"].bm : p < q
<1>1. b \in BookType /\ \A s \in Side : SideConsistent(s, b.side[s])
  BY DEF Good
<1>2. \A p \in b.side["bid"].bm, q \in b.side["ask"].bm : p < q
  BY DEF Good
<1>3. /\ b = [side |-> b.side, ord |-> b.ord, free |-> b.free, gen |-> b.gen,
              index |-> b.index]
      /\ b.side \in [Side -> BookSide] /\ b.ord \in [Slot -> Order]
      /\ b.free \in Seq(Slot) /\ b.gen \in [Slot -> Gen]
      /\ b.index \in [Id -> Slot \cup {None}]
  BY <1>1 DEF BookType
<1> QED BY <1>1, <1>2, <1>3

\* ... and put together.
LEMMA FieldsGood ==
  ASSUME NEW S \in [Side -> BookSide], NEW O \in [Slot -> Order], NEW F \in Seq(Slot),
         NEW G \in [Slot -> Gen], NEW I \in [Id -> Slot \cup {None}],
         \A s \in Side : SideConsistent(s, S[s]),
         \A p \in S["bid"].bm, q \in S["ask"].bm : p < q
  PROVE  Good([side |-> S, ord |-> O, free |-> F, gen |-> G, index |-> I])
<1> DEFINE b == [side |-> S, ord |-> O, free |-> F, gen |-> G, index |-> I]
<1>1. b \in BookType
  BY DEF BookType
<1>2. b.side = S
  OBVIOUS
<1> HIDE DEF b
<1>3. Good(b)
  BY <1>1, <1>2 DEF Good
<1> QED BY <1>3 DEF b

\* The index and the arena say nothing about prices.
LEMMA UnindexGood ==
  ASSUME NEW b, Good(b), NEW id
  PROVE  /\ Good(unindex(b, id)) /\ unindex(b, id).side = b.side
         /\ unindex(b, id).ord = b.ord
<1>1. PICK S, O, F, G, I : b = [side |-> S, ord |-> O, free |-> F, gen |-> G, index |-> I]
  BY GoodFields
<1>2. /\ S \in [Side -> BookSide] /\ O \in [Slot -> Order] /\ F \in Seq(Slot)
      /\ G \in [Slot -> Gen] /\ I \in [Id -> Slot \cup {None}]
      /\ \A s \in Side : SideConsistent(s, S[s])
      /\ \A p \in S["bid"].bm, q \in S["ask"].bm : p < q
  BY <1>1, GoodFields
<1>3. CASE ByHandle
  BY <1>3 DEF unindex
<1>4. CASE ~ByHandle
  <2>1. [I EXCEPT ![id] = None] \in [Id -> Slot \cup {None}]
    BY <1>2, ZenonT(30)
  <2>2. unindex(b, id) = [side |-> S, ord |-> O, free |-> F, gen |-> G,
                          index |-> [I EXCEPT ![id] = None]]
    BY <1>1, <1>4 DEF unindex
  <2>3. Good(unindex(b, id))
    BY <1>2, <2>1, <2>2, FieldsGood
  <2> QED BY <1>1, <2>2, <2>3
<1> QED BY <1>3, <1>4

\* A new index leaves a good book good.
LEMMA ReindexGood ==
  ASSUME NEW b, Good(b), NEW id, NEW o \in Slot
  PROVE  /\ Good(reindex(b, id, o)) /\ reindex(b, id, o).side = b.side
         /\ reindex(b, id, o).ord = b.ord /\ reindex(b, id, o).gen = b.gen
<1>1. PICK S, O, F, G, I : b = [side |-> S, ord |-> O, free |-> F, gen |-> G, index |-> I]
  BY GoodFields
<1>2. /\ S \in [Side -> BookSide] /\ O \in [Slot -> Order] /\ F \in Seq(Slot)
      /\ G \in [Slot -> Gen] /\ I \in [Id -> Slot \cup {None}]
      /\ \A s \in Side : SideConsistent(s, S[s])
      /\ \A p \in S["bid"].bm, q \in S["ask"].bm : p < q
  BY <1>1, GoodFields
<1>3. CASE ByHandle
  BY <1>3 DEF reindex
<1>4. CASE ~ByHandle
  <2>1. [I EXCEPT ![id] = o] \in [Id -> Slot \cup {None}]
    BY <1>2, ZenonT(30)
  <2>2. reindex(b, id, o) = [side |-> S, ord |-> O, free |-> F, gen |-> G,
                             index |-> [I EXCEPT ![id] = o]]
    BY <1>1, <1>4 DEF reindex
  <2>3. Good(reindex(b, id, o))
    BY <1>2, <2>1, <2>2, FieldsGood
  <2> QED BY <1>1, <2>2, <2>3
<1> QED BY <1>3, <1>4

\* A blank record and the next generation are well typed.
LEMMA BlankType == Blank \in Order
BY EngineAssumption, TicksAssumption DEF Blank, Order, Tick, Side, Tif

\* Generations wrap within their width.
LEMMA NextGen ==
  ASSUME NEW g \in Gen
  PROVE  (g + 1) % GenWrap \in Gen
BY EngineAssumption DEF Gen

\* deallocate frees a slot that no price depends on.
LEMMA DeallocateGood ==
  ASSUME NEW b, Good(b), NEW o \in Slot
  PROVE  Good(deallocate(b, o)) /\ deallocate(b, o).side = b.side
<1>1. PICK S, O, F, G, I : b = [side |-> S, ord |-> O, free |-> F, gen |-> G, index |-> I]
  BY GoodFields
<1>2. /\ S \in [Side -> BookSide] /\ O \in [Slot -> Order] /\ F \in Seq(Slot)
      /\ G \in [Slot -> Gen] /\ I \in [Id -> Slot \cup {None}]
      /\ \A s \in Side : SideConsistent(s, S[s])
      /\ \A p \in S["bid"].bm, q \in S["ask"].bm : p < q
  BY <1>1, GoodFields
<1> DEFINE ng == (b.gen[o] + 1) % GenWrap
           fr == <<o>> \o b.free
           O1 == [O EXCEPT ![o] = Blank]
           G1 == [G EXCEPT ![o] = ng]
<1>3. ng \in Gen /\ fr \in Seq(Slot)
  BY <1>1, <1>2, NextGen
<1>4. deallocate(b, o) = [b EXCEPT !.free = fr, !.ord[o] = Blank, !.gen[o] = ng]
  BY DEF deallocate
<1> HIDE DEF ng, fr
<1>5. deallocate(b, o) = [side |-> S, ord |-> O1, free |-> fr, gen |-> G1, index |-> I]
  BY <1>1, <1>2, <1>3, <1>4, BlankType, ZenonT(30)
<1>6. O1 \in [Slot -> Order] /\ G1 \in [Slot -> Gen]
  BY <1>2, <1>3, BlankType
<1> HIDE DEF O1, G1
<1>7. Good(deallocate(b, o))
  BY <1>2, <1>3, <1>5, <1>6, FieldsGood, ZenonT(30)
<1> QED BY <1>1, <1>5, <1>7

(***************************************************************************)
(* Sides and crossing                                                      *)
(***************************************************************************)
\* One side may be replaced by a consistent one that does not cross the other.
LEMMA SidesReplaced ==
  ASSUME NEW S \in [Side -> BookSide], \A t \in Side : SideConsistent(t, S[t]),
         NEW s \in Side, NEW bs \in BookSide, SideConsistent(s, bs),
         \A p \in bs.bm, q \in S[Opp(s)].bm : Better(s, q, p)
  PROVE  /\ [S EXCEPT ![s] = bs] \in [Side -> BookSide]
         /\ \A t \in Side : SideConsistent(t, [S EXCEPT ![s] = bs][t])
         /\ \A p \in [S EXCEPT ![s] = bs]["bid"].bm, q \in [S EXCEPT ![s] = bs]["ask"].bm : p < q
<1> DEFINE T == [S EXCEPT ![s] = bs]
<1>1. T \in [Side -> BookSide] /\ T[s] = bs /\ \A t \in Side : t # s => T[t] = S[t]
  OBVIOUS
<1> HIDE DEF T
<1>2. \A t \in Side : SideConsistent(t, T[t])
  <2> TAKE t \in Side
  <2>1. CASE t = s
    BY <1>1, <2>1, Zenon
  <2>2. CASE t # s
    BY <1>1, <2>2, Zenon
  <2> QED BY <2>1, <2>2
<1>3. \A t \in Side : T[t].bm \in SUBSET Int
  BY <1>1 DEF BookSide, Tick
<1>4. \A p \in T["bid"].bm, q \in T["ask"].bm : p < q
  <2>1. CASE s = "bid"
    BY <1>1, <1>3, <2>1 DEF Better, Opp, Side
  <2>2. CASE s = "ask"
    BY <1>1, <1>3, <2>2 DEF Better, Opp, Side
  <2> QED BY <2>1, <2>2 DEF Side
<1> QED BY <1>1, <1>2, <1>4 DEF T

\* In an uncrossed book, the levels of a side are clear of the other side.
LEMMA SidesApart ==
  ASSUME NEW S \in [Side -> BookSide], NEW s \in Side,
         \A p \in S["bid"].bm, q \in S["ask"].bm : p < q
  PROVE  \A p \in S[s].bm, q \in S[Opp(s)].bm : Better(s, q, p)
<1>1. \A t \in Side : S[t].bm \in SUBSET Int
  BY DEF BookSide, Tick
<1>2. CASE s = "bid"
  BY <1>1, <1>2 DEF Better, Opp, Side
<1>3. CASE s = "ask"
  BY <1>1, <1>3 DEF Better, Opp, Side
<1> QED BY <1>2, <1>3 DEF Side

\* An order the match loop leaves, or a modify relinks, is clear of every
\* level of the other side: the loop looks only at the cached best, which is
\* why the cache must be current.
LEMMA NotCrossing ==
  ASSUME NEW b, Good(b), NEW m, m.s \in Side, m.px \in Tick, ~crosses(b, m)
  PROVE  \A q \in b.side[Opp(m.s)].bm : Better(m.s, q, m.px)
<1> DEFINE o == Opp(m.s)
           bs == b.side[o]
<1>1. o \in Side
  BY DEF Opp, Side
<1>2. bs \in BookSide /\ SideConsistent(o, bs)
  BY <1>1, GoodFields
<1>3. bs.best = None \/ Better(m.s, bs.best, m.px)
  BY DEF crosses
<1> HIDE DEF bs
<1>4. bs.bm \in SUBSET Tick /\ bs.best = recompute_best(o, bs.bm)
  BY <1>2 DEF BookSide, SideConsistent
<1>5. SUFFICES ASSUME NEW q \in bs.bm PROVE Better(m.s, q, m.px)
  BY DEF bs
<1>6. bs.best \in bs.bm /\ ~Better(o, q, bs.best)
  BY <1>1, <1>4, <1>5, RecomputeBest, Zenon
<1>7. Better(m.s, bs.best, m.px)
  BY <1>3, <1>4, <1>6, NoneNotTick
<1>8. q \in Int /\ bs.best \in Int /\ m.px \in Int
  BY <1>4, <1>5, <1>6 DEF Tick
<1> QED BY <1>6, <1>7, <1>8 DEF Better, Opp, Side

\* A populated best level has a front order, in a slot.
LEMMA FrontOrder ==
  ASSUME NEW s \in Side, NEW bs \in BookSide, SideConsistent(s, bs), bs.best # None
  PROVE  /\ bs.best \in Tick /\ bs.fifo[bs.best] # << >>
         /\ Head(bs.fifo[bs.best]) \in Slot
<1>1. /\ bs.fifo \in [Tick -> Seq(Slot)] /\ bs.best \in Tick \cup {None}
      /\ bs.bm \in SUBSET Tick /\ bs.bm = {p \in Tick : bs.fifo[p] # << >>}
      /\ bs.best = recompute_best(s, bs.bm)
  BY DEF BookSide, SideConsistent
<1>2. bs.bm # {}
  BY <1>1 DEF recompute_best
<1>3. bs.best \in bs.bm
  BY <1>1, <1>2, RecomputeBest, ZenonT(30)
<1>4. bs.best \in Tick /\ bs.fifo[bs.best] # << >> /\ bs.fifo[bs.best] \in Seq(Slot)
  BY <1>1, <1>3, ZenonT(30)
<1> QED BY <1>4, HeadTailProperties

(***************************************************************************)
(* The operations on the book                                              *)
(***************************************************************************)
PutSide(b, s, bs) == [b EXCEPT !.side[s] = bs]
PutOrd(b, o, r) == [b EXCEPT !.ord[o] = r]

\* A book with one side replaced is good if the new side is and stays clear.
LEMMA PutSideGood ==
  ASSUME NEW b, Good(b), NEW s \in Side, NEW bs \in BookSide, SideConsistent(s, bs),
         \A p \in bs.bm, q \in b.side[Opp(s)].bm : Better(s, q, p)
  PROVE  Good(PutSide(b, s, bs)) /\ PutSide(b, s, bs).ord = b.ord
<1>1. PICK S, O, F, G, I : b = [side |-> S, ord |-> O, free |-> F, gen |-> G, index |-> I]
  BY GoodFields
<1>2. /\ S \in [Side -> BookSide] /\ O \in [Slot -> Order] /\ F \in Seq(Slot)
      /\ G \in [Slot -> Gen] /\ I \in [Id -> Slot \cup {None}]
      /\ \A t \in Side : SideConsistent(t, S[t])
  BY <1>1, GoodFields
<1> DEFINE T == [S EXCEPT ![s] = bs]
<1>3. \A p \in bs.bm, q \in S[Opp(s)].bm : Better(s, q, p)
  <2>1. b.side = S
    BY <1>1
  <2> QED BY <2>1, Zenon
<1>4. /\ T \in [Side -> BookSide]
      /\ \A t \in Side : SideConsistent(t, T[t])
      /\ \A p \in T["bid"].bm, q \in T["ask"].bm : p < q
  BY <1>2, <1>3, SidesReplaced, Zenon
<1>5. PutSide(b, s, bs) = [side |-> T, ord |-> O, free |-> F, gen |-> G, index |-> I]
  BY <1>1, <1>2 DEF PutSide
<1> HIDE DEF T
<1>6. Good(PutSide(b, s, bs))
  BY <1>2, <1>4, <1>5, FieldsGood
<1> QED BY <1>1, <1>5, <1>6

\* A well-typed record may replace an order's.
LEMMA PutOrdGood ==
  ASSUME NEW b, Good(b), NEW o \in Slot, NEW r \in Order
  PROVE  Good(PutOrd(b, o, r)) /\ PutOrd(b, o, r).side = b.side /\ PutOrd(b, o, r).ord[o] = r
<1>1. PICK S, O, F, G, I : b = [side |-> S, ord |-> O, free |-> F, gen |-> G, index |-> I]
  BY GoodFields
<1>2. /\ S \in [Side -> BookSide] /\ O \in [Slot -> Order] /\ F \in Seq(Slot)
      /\ G \in [Slot -> Gen] /\ I \in [Id -> Slot \cup {None}]
      /\ \A s \in Side : SideConsistent(s, S[s])
      /\ \A p \in S["bid"].bm, q \in S["ask"].bm : p < q
  BY <1>1, GoodFields
<1> DEFINE O1 == [O EXCEPT ![o] = r]
<1>3. PutOrd(b, o, r) = [side |-> S, ord |-> O1, free |-> F, gen |-> G, index |-> I]
  <2>1. PICK x : x = PutOrd(b, o, r)
    OBVIOUS
  <2>2. x = [side |-> S, ord |-> O1, free |-> F, gen |-> G, index |-> I]
    BY <1>1, <2>1 DEF PutOrd
  <2> QED BY <2>1, <2>2
<1>4. O1 \in [Slot -> Order] /\ O1[o] = r
  BY <1>2
<1> HIDE DEF O1
<1>5. Good(PutOrd(b, o, r))
  BY <1>2, <1>3, <1>4, FieldsGood
<1> QED BY <1>1, <1>3, <1>4, <1>5

\* A side whose levels only go away keeps clear of the other.
LEMMA ShrunkSideGood ==
  ASSUME NEW b, Good(b), NEW s \in Side, NEW bs \in BookSide, SideConsistent(s, bs),
         bs.bm \subseteq b.side[s].bm
  PROVE  Good(PutSide(b, s, bs)) /\ PutSide(b, s, bs).ord = b.ord
<1>1. b.side \in [Side -> BookSide] /\ \A p \in b.side["bid"].bm, q \in b.side["ask"].bm : p < q
  BY GoodFields
<1>2. \A p \in b.side[s].bm, q \in b.side[Opp(s)].bm : Better(s, q, p)
  BY <1>1, SidesApart, Zenon
<1>3. \A p \in bs.bm, q \in b.side[Opp(s)].bm : Better(s, q, p)
  BY <1>2, Zenon
<1> QED BY <1>3, PutSideGood, Zenon

\* The matching step's maker.
LEMMA MakerType ==
  ASSUME Good(book), call \in Call, crosses(book, call.m)
  PROVE  /\ Opp(call.m.s) \in Side /\ BestPx \in Tick /\ Maker \in Slot
         /\ book.side[Opp(call.m.s)].fifo[BestPx] # << >>
         /\ book.ord[Maker] \in Order
<1>1. Opp(call.m.s) \in Side
  BY DEF Opp, Side
<1>2. book.side[Opp(call.m.s)].best # None
  BY DEF crosses
<1>3. /\ book.side[Opp(call.m.s)] \in BookSide
      /\ SideConsistent(Opp(call.m.s), book.side[Opp(call.m.s)])
      /\ book.ord \in [Slot -> Order]
  BY <1>1, GoodFields
<1> QED BY <1>1, <1>2, <1>3, FrontOrder, ZenonT(30) DEF BestPx, Maker

\* consume: the maker gives up no more than it has.
LEMMA ConsumeGood ==
  ASSUME Good(book), call \in Call, crosses(book, call.m),
         NEW qty \in Nat, qty <= book.ord[Maker].remaining
  PROVE  Good(consume(book, qty))
<1> DEFINE o == Opp(call.m.s)
           r == book.ord[Maker]
           gone == r.remaining = qty
           bs == consume_front(o, book.side[o], BestPx, qty, gone)
           b1 == PutSide(book, o, bs)
           r1 == [r EXCEPT !.remaining = r.remaining - qty]
<1>1. /\ o \in Side /\ BestPx \in Tick /\ Maker \in Slot /\ r \in Order
      /\ book.side[o].fifo[BestPx] # << >>
  BY MakerType
<1>2. book.side[o] \in BookSide /\ SideConsistent(o, book.side[o])
  BY <1>1, GoodFields
<1>3. bs \in BookSide /\ SideConsistent(o, bs) /\ bs.bm \subseteq book.side[o].bm
  <2>1. gone \in BOOLEAN /\ qty \in Int
    OBVIOUS
  <2> HIDE DEF o, gone
  <2> QED BY <1>1, <1>2, <2>1, ConsumeFrontConsistent
<1>4. consume(book, qty) = IF gone THEN deallocate(unindex(b1, r.id), Maker)
                           ELSE [b1 EXCEPT !.ord[Maker].remaining = b1.ord[Maker].remaining - qty]
  BY DEF consume, PutSide
<1> HIDE DEF bs, o
<1>5. Good(b1) /\ b1.ord = book.ord
  BY <1>1, <1>3, ShrunkSideGood
<1> HIDE DEF b1
<1>6. r1 \in Order
  BY <1>1 DEF Order
<1>7. CASE gone
  <2>1. Good(unindex(b1, r.id))
    BY <1>5, UnindexGood
  <2>2. Good(deallocate(unindex(b1, r.id), Maker))
    BY <1>1, <2>1, DeallocateGood
  <2> QED BY <1>4, <1>7, <2>2
<1>8. CASE ~gone
  <2>1. consume(book, qty) = [b1 EXCEPT !.ord[Maker].remaining = b1.ord[Maker].remaining - qty]
    BY <1>4, <1>8
  <2>2. consume(book, qty) = PutOrd(b1, Maker, r1)
    BY <1>5, <2>1 DEF PutOrd
  <2> HIDE DEF r1
  <2> QED BY <1>1, <1>5, <1>6, <2>2, PutOrdGood
<1> QED BY <1>7, <1>8

\* withdraw: the order leaves its level, the index and the arena.
LEMMA WithdrawGood ==
  ASSUME NEW b, Good(b), NEW o \in Slot
  PROVE  Good(withdraw(b, o))
<1> DEFINE r == b.ord[o]
           b1 == unindex(b, r.id)
           bs == remove(r.s, b1.side[r.s], o, r.px, r.remaining)
           b2 == PutSide(b1, r.s, bs)
<1>1. r \in Order
  BY GoodFields
<1>2. r.s \in Side /\ r.px \in Tick /\ r.remaining \in Int
  BY <1>1 DEF Order
<1>3. Good(b1)
  BY UnindexGood
<1>4. withdraw(b, o) = deallocate(b2, o)
  BY DEF withdraw, PutSide
<1> HIDE DEF r, b1
<1>5. b1.side[r.s] \in BookSide /\ SideConsistent(r.s, b1.side[r.s])
  BY <1>2, <1>3, GoodFields
<1>6. bs \in BookSide /\ SideConsistent(r.s, bs) /\ bs.bm \subseteq b1.side[r.s].bm
  BY <1>2, <1>5, RemoveConsistent
<1> HIDE DEF bs
<1>7. Good(b2)
  BY <1>2, <1>3, <1>6, ShrunkSideGood
<1> HIDE DEF b2
<1> QED BY <1>4, <1>7, DeallocateGood

\* rename changes an order's id and nothing else about it.
LEMMA RenameGood ==
  ASSUME NEW b, Good(b), NEW mm \in ModifyMsg, NEW o \in Slot
  PROVE  LET b1 == rename(b, mm, o)
         IN  /\ Good(b1) /\ b1.side = b.side /\ b1.ord[o] \in Order
             /\ b1.ord[o].s = b.ord[o].s /\ b1.ord[o].px = b.ord[o].px
<1>0. b.ord[o] \in Order
  BY GoodFields
<1>1. CASE mm.new_id = NoId \/ mm.new_id = mm.id
  BY <1>0, <1>1 DEF rename
<1>2. CASE ~(mm.new_id = NoId \/ mm.new_id = mm.id)
  <2> DEFINE u == unindex(b, mm.id)
             r == [b.ord[o] EXCEPT !.id = mm.new_id]
             b2 == PutOrd(u, o, r)
  <2>1. Good(u) /\ u.side = b.side /\ u.ord = b.ord
    BY UnindexGood
  <2>2. rename(b, mm, o) = reindex([u EXCEPT !.ord[o].id = mm.new_id], mm.new_id, o)
    BY <1>2 DEF rename
  <2> HIDE DEF u
  <2>3. [u EXCEPT !.ord[o].id = mm.new_id] = b2
    BY <2>1 DEF PutOrd
  <2>4. r \in Order /\ r.s = b.ord[o].s /\ r.px = b.ord[o].px
    BY <1>0 DEF ModifyMsg, Order
  <2> HIDE DEF r
  <2>5. Good(b2) /\ b2.side = u.side /\ b2.ord[o] = r
    BY <2>1, <2>4, PutOrdGood
  <2> HIDE DEF b2
  <2> DEFINE b3 == reindex(b2, mm.new_id, o)
  <2>6. Good(b3) /\ b3.side = b2.side /\ b3.ord = b2.ord
    BY <2>5, ReindexGood
  <2>7. rename(b, mm, o) = b3
    BY <2>2, <2>3
  <2> HIDE DEF b3
  <2> QED BY <2>1, <2>4, <2>5, <2>6, <2>7
<1> QED BY <1>1, <1>2

(***************************************************************************)
(* The ends of a call                                                      *)
(***************************************************************************)
CfgType == cfg \in [self_cross : Policies, top_throttle : Throttles]

\* A completed call: the trailing publish, and with it the end of suppression.
LEMMA CompleteInv ==
  ASSUME NEW c \in Call, NEW b, Good(b), NEW h \in HotState, NEW ev, CfgType,
         Complete(c, b, h, ev)
  PROVE  IInv'
<1> DEFINE inner == publish_top(b.side, h, ev)
           dec == [inner.h EXCEPT !.suppress = inner.h.suppress - 1]
           outer == IF h.suppress = 0 THEN inner ELSE publish_top(b.side, dec, inner.ev)
<1>1. b.side \in [Side -> BookSide]
  BY GoodFields
<1>2. inner.h \in HotState /\ inner.h.suppress = h.suppress
  BY <1>1, PublishTop
<1>3. book' = b /\ hs' = outer.h /\ call' = c /\ pc' = "done" /\ cfg' = cfg
  BY DEF Complete
<1> HIDE DEF inner
<1>4. hs' \in HotState /\ hs'.suppress = 0
  <2>1. CASE h.suppress = 0
    BY <1>2, <1>3, <2>1
  <2>2. CASE h.suppress # 0
    <3>1. dec \in HotState /\ dec.suppress = 0
      BY <1>2, <2>2 DEF HotState
    <3> HIDE DEF dec
    <3>2. publish_top(b.side, dec, inner.ev).h \in HotState
          /\ publish_top(b.side, dec, inner.ev).h.suppress = 0
      BY <1>1, <3>1, PublishTop
    <3> QED BY <1>3, <2>2, <3>2
  <2> QED BY <2>1, <2>2
<1>5. Good(book')
  BY <1>3
<1>6. Good(book)'
  BY <1>5 DEF Good, BookType
<1> QED BY <1>3, <1>4, <1>6 DEF IInv, CfgType

\* handle_submit_ begins, or ends at once for an unfillable fok order.
LEMMA BeginInv ==
  ASSUME NEW kind \in {"submit", "modify"}, NEW m \in Msg, NEW b, Good(b),
         NEW h \in HotState, NEW ev, CfgType, BeginSubmit(kind, m, b, h, ev)
  PROVE  IInv'
<1> DEFINE c == [kind |-> kind, m |-> m, remaining |-> m.qty, ret |-> NoHandle]
<1>1. c \in Call
  <2>1. NoHandle \in Handle
    BY EngineAssumption DEF NoHandle, Handle, Gen
  <2> QED BY <2>1 DEF Call, Msg
<1>2. CASE Complete(c, b, h, ev)
  <2> HIDE DEF c
  <2> QED BY <1>1, <1>2, CompleteInv
<1>3. CASE /\ book' = b /\ hs' = h /\ call' = c /\ pc' = "match" /\ cfg' = cfg
  <2> HIDE DEF c
  <2>1. Good(book')
    BY <1>3
  <2>2. Good(book)'
    BY <2>1 DEF Good, BookType
  <2> QED BY <1>1, <1>3, <2>2 DEF IInv, CfgType
<1> QED BY <1>2, <1>3 DEF BeginSubmit

(***************************************************************************)
(* Init and the actions                                                    *)
(***************************************************************************)
\* The engine's idle call record is well typed.
LEMMA NoCallType == NoHandle \in Handle /\ NoMsg \in Msg /\ NoCall \in Call
<1>1. NoHandle \in Handle
  BY EngineAssumption DEF NoHandle, Handle, Gen
<1>2. NoMsg \in Msg
  BY EngineAssumption, TicksAssumption DEF NoMsg, Msg, Tick, Side, Tif
<1> QED BY <1>1, <1>2 DEF NoCall, Call

\* A command that names an order is well typed.
LEMMA NamedType ==
  ASSUME NEW kind \in {"cancel", "modify", "missing"}, NEW id \in Id \cup {NoId}
  PROVE  Named(kind, id) \in Call
<1>1. NoHandle \in Handle /\ NoMsg \in Msg
  BY NoCallType
<1>2. [NoMsg EXCEPT !.id = id] \in Msg
  BY <1>1 DEF Msg
<1> QED BY <1>1, <1>2 DEF Named, Call

\* An empty side is consistent.
LEMMA EmptySideConsistent ==
  EmptySide \in BookSide /\ \A s \in Side : SideConsistent(s, EmptySide)
<1>1. EmptySide \in BookSide
  BY DEF EmptySide, BookSide
<1>2. {p \in Tick : EmptySide.fifo[p] # << >>} = {}
  BY DEF EmptySide
<1>3. \A s \in Side : recompute_best(s, {}) = None
  BY DEF recompute_best
<1> QED BY <1>1, <1>2, <1>3 DEF SideConsistent, EmptySide

\* The freshly constructed engine satisfies the invariant.
LEMMA InitInv == Init => IInv
<1> SUFFICES ASSUME Init PROVE IInv
  OBVIOUS
<1> DEFINE S == [s \in Side |-> EmptySide]
           O == [o \in Slot |-> Blank]
           G == [o \in Slot |-> 0]
           I == [id \in Id |-> None]
<1>1. PICK F \in [1..Cardinality(Slot) -> Slot] :
        book = [side |-> S, ord |-> O, free |-> F, gen |-> G, index |-> I]
  BY DEF Init
<1>2. F \in Seq(Slot)
  <2>1. Cardinality(Slot) \in Nat
    BY EngineAssumption, FS_CardinalityType
  <2> QED BY <2>1
<1>3. /\ S \in [Side -> BookSide] /\ O \in [Slot -> Order] /\ G \in [Slot -> Gen]
      /\ I \in [Id -> Slot \cup {None}]
  <2>1. 0 \in Gen
    BY EngineAssumption DEF Gen
  <2> QED BY <2>1, EmptySideConsistent, BlankType
<1>4. \A s \in Side : SideConsistent(s, S[s])
  BY EmptySideConsistent
<1>5. \A p \in S["bid"].bm, q \in S["ask"].bm : p < q
  BY DEF EmptySide, Side
<1>6. TopOf(S) \in Top
  BY <1>3, TopType
<1>7. hs \in HotState /\ hs.suppress = 0
  BY <1>6, EngineAssumption DEF Init, HotState
<1> HIDE DEF S, O, G, I
<1>8. Good(book)
  BY <1>1, <1>2, <1>3, <1>4, <1>5, FieldsGood
<1> QED BY <1>7, <1>8, NoCallType DEF Init, IInv

\* on_submit begins.
LEMMA SubmitInv == ASSUME IInv, NEW m \in SubmitMsg, Submit(m) PROVE IInv'
<1>1. m \in Msg
  BY EngineAssumption DEF SubmitMsg, Msg, Qty
<1> QED BY <1>1, BeginInv DEF Submit, IInv, CfgType

\* What a turn of the match loop may assume.
LEMMA TurnFacts ==
  ASSUME IInv, Matching
  PROVE  /\ Good(book) /\ call \in Call /\ crosses(book, call.m) /\ hs \in HotState
         /\ book.ord[Maker].remaining \in Nat /\ call.remaining \in Nat
         /\ TradeQty \in Nat /\ TradeQty <= book.ord[Maker].remaining
         /\ TradeQty <= call.remaining /\ pc = "match"
<1>1. Good(book) /\ call \in Call /\ crosses(book, call.m) /\ hs \in HotState /\ pc = "match"
  BY DEF IInv, Matching
<1>2. book.ord[Maker].remaining \in Nat /\ call.remaining \in Nat
  BY <1>1, MakerType DEF Order, Call
<1> QED BY <1>1, <1>2 DEF TradeQty

\* A turn that executes quantity.
LEMMA ExecuteInv ==
  ASSUME IInv, Matching, NEW ev, Execute(TradeQty, ev)
  PROVE  IInv'
<1>1. Good(consume(book, TradeQty))
  BY TurnFacts, ConsumeGood
<1>2. Good(book)'
  <2>1. Good(book')
    BY <1>1 DEF Execute
  <2> QED BY <2>1 DEF Good, BookType
<1>3. bump(hs) \in HotState
  BY TurnFacts, BumpType
<1>4. hs' \in HotState
  BY <1>3, ZenonT(30) DEF Execute, HotState
<1>5. call' \in Call
  <2>1. call.remaining - TradeQty \in Nat
    BY TurnFacts
  <2> QED BY <2>1, TurnFacts, ZenonT(30) DEF Execute, Call
<1> QED BY <1>2, <1>4, <1>5, TurnFacts DEF IInv, Execute

\* A turn of the match loop, by trade or by any self-cross policy.
LEMMA MatchStepInv == ASSUME IInv, MatchStep PROVE IInv'
<1>1. CASE Trade
  BY <1>1, ExecuteInv DEF Trade
<1>2. CASE SelfDecrement
  BY <1>2, ExecuteInv DEF SelfDecrement
<1>3. CASE SelfCancelOldest
  <2>1. Matching
    BY <1>3 DEF SelfCancelOldest
  <2>2. Good(consume(book, book.ord[Maker].remaining))
    BY <2>1, TurnFacts, ConsumeGood
  <2>3. Good(book)'
    <3>1. Good(book')
      BY <1>3, <2>2 DEF SelfCancelOldest
    <3> QED BY <3>1 DEF Good, BookType
  <2>4. hs' \in HotState
    BY <1>3, <2>1, TurnFacts, ZenonT(30) DEF SelfCancelOldest, HotState
  <2> QED BY <1>3, <2>1, <2>3, <2>4, TurnFacts DEF SelfCancelOldest, IInv
<1>4. CASE SelfCancelNewest
  <2>1. Matching
    BY <1>4 DEF SelfCancelNewest
  <2>2. call' \in Call
    BY <1>4, <2>1, TurnFacts DEF SelfCancelNewest, Call
  <2>3. Good(book)'
    <3>1. Good(book')
      BY <1>4, <2>1, TurnFacts DEF SelfCancelNewest
    <3> QED BY <3>1 DEF Good, BookType
  <2> QED BY <1>4, <2>1, <2>2, <2>3, TurnFacts DEF SelfCancelNewest, IInv
<1> QED BY <1>1, <1>2, <1>3, <1>4 DEF MatchStep

\* The book with an order newly resting in slot o.
LEMMA RestGood ==
  ASSUME Good(book), NEW m \in Msg, NEW remaining \in Nat, ~crosses(book, m),
         book.free # << >>,
         NEW o, o = Head(book.free),
         NEW g, g = (book.gen[o] + 1) % GenWrap,
         NEW r, r = [id |-> m.id, remaining |-> remaining, px |-> m.px, s |-> m.s,
                     t |-> m.t, account |-> m.account],
         NEW bs, bs = add(m.s, book.side[m.s], o, m.px, remaining)
  PROVE  /\ o \in Slot
         /\ Good([book EXCEPT !.free = Tail(book.free), !.gen[o] = g, !.ord[o] = r,
                              !.side[m.s] = bs])
<1>1. PICK S, O, F, G, I : book = [side |-> S, ord |-> O, free |-> F, gen |-> G, index |-> I]
  BY GoodFields
<1>2. /\ S \in [Side -> BookSide] /\ O \in [Slot -> Order] /\ F \in Seq(Slot)
      /\ G \in [Slot -> Gen] /\ I \in [Id -> Slot \cup {None}]
      /\ \A s \in Side : SideConsistent(s, S[s])
      /\ \A p \in S["bid"].bm, q \in S["ask"].bm : p < q
      /\ book.side = S /\ book.free = F /\ book.gen = G
  BY <1>1, GoodFields
<1>3. o \in Slot /\ Tail(F) \in Seq(Slot)
  BY <1>2, HeadTailProperties
<1>4. g \in Gen
  BY <1>2, <1>3, NextGen
<1>5. m.s \in Side /\ m.px \in Tick /\ remaining \in Int /\ r \in Order
  BY DEF Msg, Order
<1>6. S[m.s] \in BookSide /\ SideConsistent(m.s, S[m.s])
  BY <1>2, <1>5
<1>7. bs \in BookSide /\ SideConsistent(m.s, bs) /\ bs.bm = S[m.s].bm \cup {m.px}
  <2>1. bs = add(m.s, S[m.s], o, m.px, remaining)
    BY <1>2, ZenonT(30)
  <2> QED BY <1>3, <1>5, <1>6, <2>1, AddConsistent, SMTT(30)
<1>8. \A p \in bs.bm, q \in S[Opp(m.s)].bm : Better(m.s, q, p)
  <2>1. \A p \in S[m.s].bm, q \in S[Opp(m.s)].bm : Better(m.s, q, p)
    BY <1>2, <1>5, SidesApart, Zenon
  <2>2. \A q \in S[Opp(m.s)].bm : Better(m.s, q, m.px)
    BY <1>2, <1>5, NotCrossing, ZenonT(30)
  <2> QED BY <1>7, <2>1, <2>2, Zenon
<1> DEFINE T == [S EXCEPT ![m.s] = bs]
           O1 == [O EXCEPT ![o] = r]
           G1 == [G EXCEPT ![o] = g]
<1>9. /\ T \in [Side -> BookSide]
      /\ \A t \in Side : SideConsistent(t, T[t])
      /\ \A p \in T["bid"].bm, q \in T["ask"].bm : p < q
  BY <1>2, <1>5, <1>7, <1>8, SidesReplaced, Zenon
<1>10. O1 \in [Slot -> Order] /\ G1 \in [Slot -> Gen]
  BY <1>2, <1>4, <1>5
<1>11. PICK x : x = [book EXCEPT !.free = Tail(book.free), !.gen[o] = g, !.ord[o] = r,
                                 !.side[m.s] = bs]
  OBVIOUS
<1>12. x = [side |-> T, ord |-> O1, free |-> Tail(F), gen |-> G1, index |-> I]
  BY <1>1, <1>11, ZenonT(30)
<1> HIDE DEF T, O1, G1
<1>13. Good(x)
  BY <1>2, <1>3, <1>9, <1>10, <1>12, FieldsGood, ZenonT(30)
<1> QED BY <1>3, <1>11, <1>13

\* The end of the match loop: the residual rests, is rejected or is dropped.
LEMMA FinishSubmitInv == ASSUME IInv, FinishSubmit PROVE IInv'
<1>1. Good(book) /\ call \in Call /\ call.m \in Msg /\ call.remaining \in Nat
      /\ hs \in HotState /\ CfgType
  BY DEF IInv, Call, CfgType
<1>2. CASE Complete(call, book, hs, out)
  BY <1>1, <1>2, CompleteInv
<1>3. CASE call.remaining > 0 /\ rest(call.m, call.remaining)
  <2>1. ~crosses(book, call.m)
    BY <1>1, <1>3 DEF FinishSubmit
  <2>2. CASE book.free = << >>
    <3>1. bump(hs) \in HotState
      BY <1>1, BumpType
    <3>2. Complete(call, book, bump(hs),
             Append(out, [k |-> "reject", id |-> call.m.id, qty |-> call.remaining,
                          seq |-> bump(hs).seq]))
      BY <1>3, <2>2 DEF rest
    <3> QED BY <1>1, <3>1, <3>2, CompleteInv
  <2>3. CASE book.free # << >>
    <3> DEFINE m == call.m
               o == Head(book.free)
               g == (book.gen[o] + 1) % GenWrap
               r == [id |-> m.id, remaining |-> call.remaining, px |-> m.px,
                     s |-> m.s, t |-> m.t, account |-> m.account]
               bs == add(m.s, book.side[m.s], o, m.px, call.remaining)
               b1 == [book EXCEPT !.free = Tail(book.free), !.gen[o] = g, !.ord[o] = r,
                                  !.side[m.s] = bs]
               b2 == reindex(b1, m.id, o)
               c == [call EXCEPT !.ret = IF ByHandle THEN handle_of(b2, o) ELSE NoHandle]
    <3>1. Complete(c, b2, mark_top(hs, m.s, m.px), out)
      BY <1>3, <2>3 DEF rest
    <3>2. o \in Slot /\ Good(b1)
      <4>1. o = Head(book.free) /\ g = (book.gen[o] + 1) % GenWrap
            /\ r = [id |-> m.id, remaining |-> call.remaining, px |-> m.px,
                    s |-> m.s, t |-> m.t, account |-> m.account]
            /\ bs = add(m.s, book.side[m.s], o, m.px, call.remaining)
        OBVIOUS
      <4> HIDE DEF o, g, r, bs
      <4> QED BY <1>1, <2>1, <2>3, <4>1, RestGood, ZenonT(30)
    <3> HIDE DEF b1
    <3>3. Good(b2)
      BY <3>2, ReindexGood
    <3> HIDE DEF b2
    <3>4. c \in Call
      <4>1. handle_of(b2, o) \in Handle
        BY <3>2, <3>3, GoodFields DEF handle_of, Handle
      <4> QED BY <1>1, <4>1, NoCallType DEF Call
    <3> HIDE DEF c
    <3>5. mark_top(hs, m.s, m.px) \in HotState
      BY <1>1, MarkTop
    <3> QED BY <1>1, <3>1, <3>3, <3>4, <3>5, CompleteInv
  <2> QED BY <2>2, <2>3
<1> QED BY <1>2, <1>3 DEF FinishSubmit

\* A step that touches neither the book nor the hot state.
LEMMA QuietInv ==
  ASSUME IInv, pc # "match", NEW b, Good(b), NEW c \in Call, NEW p \in {"idle", "done"},
         book' = b, hs' = hs, cfg' = cfg, call' = c, pc' = p
  PROVE  IInv'
<1>1. Good(book)'
  <2>1. Good(book')
    OBVIOUS
  <2> QED BY <2>1 DEF Good, BookType
<1> QED BY <1>1 DEF IInv

\* What a lookup returns.
LEMMA FindType ==
  ASSUME Good(book), NEW id \in Id, NEW h
  PROVE  find(book, id, h) \in Slot \cup {None}
BY GoodFields DEF find, resolve

\* on_cancel, found or not.
LEMMA CancelInv ==
  ASSUME IInv, NEW id \in Id, NEW h, Cancel(id, h)
  PROVE  IInv'
<1> DEFINE o == find(book, id, h)
<1>1. Good(book) /\ hs \in HotState /\ CfgType /\ pc # "match"
  BY DEF IInv, CfgType, Cancel
<1>2. o \in Slot \cup {None}
  BY <1>1, FindType
<1>3. CASE o = None
  <2>1. Named("missing", id) \in Call
    BY NamedType
  <2> QED BY <1>1, <1>3, <2>1, QuietInv DEF Cancel
<1>4. CASE o # None
  <2>1. Complete(Named("cancel", id), withdraw(book, o),
                 mark_top(hs, book.ord[o].s, book.ord[o].px), out)
    BY <1>4 DEF Cancel
  <2> HIDE DEF o
  <2>2. Named("cancel", id) \in Call
    BY NamedType
  <2>3. Good(withdraw(book, o))
    BY <1>1, <1>2, <1>4, WithdrawGood
  <2>4. mark_top(hs, book.ord[o].s, book.ord[o].px) \in HotState
    BY <1>1, MarkTop
  <2> QED BY <1>1, <2>1, <2>2, <2>3, <2>4, CompleteInv
<1> QED BY <1>3, <1>4

\* A modify's result.
LEMMA ModifiedType ==
  ASSUME NEW mm \in ModifyMsg, NEW b, NEW o, b.ord[o] \in Order
  PROVE  Modified(mm, b, o) \in Call
<1>1. Named("modify", b.ord[o].id) \in Call
  BY NamedType DEF Order
<1>2. mm.handle \in Handle
  BY NoCallType DEF ModifyMsg
<1> QED BY <1>1, <1>2 DEF Modified, Call

\* on_modify of an unknown order.
LEMMA ModifyMissingInv ==
  ASSUME IInv, NEW mm \in ModifyMsg, ModifyMissing(mm)
  PROVE  IInv'
<1>1. Named("missing", mm.id) \in Call
  BY NamedType DEF ModifyMsg
<1>2. pc # "match" /\ Good(book)
  BY DEF ModifyMissing, ModifyFinds, IInv
<1> QED BY <1>1, <1>2, QuietInv DEF ModifyMissing

\* on_modify that keeps the price.
LEMMA ModifyInPlaceInv ==
  ASSUME IInv, NEW mm \in ModifyMsg, NEW o \in Slot, ModifyInPlace(mm, o)
  PROVE  IInv'
<1> DEFINE b == rename(book, mm, o)
           r == b.ord[o]
           bs == requantify(b.side[r.s], r.px, r.remaining, mm.new_qty)
           b1 == PutSide(b, r.s, bs)
           r1 == [r EXCEPT !.remaining = mm.new_qty]
           b2 == [b EXCEPT !.side[r.s] = bs, !.ord[o].remaining = mm.new_qty]
<1>1. Good(book) /\ hs \in HotState /\ CfgType /\ pc # "match"
  BY DEF IInv, CfgType, ModifyInPlace, ModifyFinds
<1>2. Good(b) /\ r \in Order
  BY <1>1, RenameGood
<1>3. \/ /\ book' = b /\ call' = Modified(mm, b, o) /\ pc' = "done"
         /\ hs' = hs /\ cfg' = cfg
      \/ Complete(Modified(mm, b, o), b2, mark_top(hs, r.s, r.px), out)
  BY DEF ModifyInPlace
<1> HIDE DEF b
<1>4. Modified(mm, b, o) \in Call
  BY <1>2, ModifiedType
<1>5. /\ r.s \in Side /\ r.px \in Tick /\ r.remaining \in Int /\ mm.new_qty \in Nat
      /\ r1 \in Order
  BY <1>2, EngineAssumption DEF Order, ModifyMsg, Qty
<1>6. CASE /\ book' = b /\ call' = Modified(mm, b, o) /\ pc' = "done"
           /\ hs' = hs /\ cfg' = cfg
  BY <1>1, <1>2, <1>4, <1>6, QuietInv
<1>7. CASE Complete(Modified(mm, b, o), b2, mark_top(hs, r.s, r.px), out)
  <2>1. b.side[r.s] \in BookSide /\ SideConsistent(r.s, b.side[r.s])
    BY <1>2, <1>5, GoodFields
  <2>2. bs \in BookSide /\ SideConsistent(r.s, bs) /\ bs.bm \subseteq b.side[r.s].bm
    <3> HIDE DEF r
    <3> QED BY <1>5, <2>1, RequantifyConsistent, SMTT(30)
  <2> HIDE DEF bs
  <2>3. Good(b1) /\ b1.ord = b.ord
    BY <1>2, <1>5, <2>2, ShrunkSideGood
  <2>4. b2 = PutOrd(b1, o, r1)
    BY <1>2, GoodFields DEF PutOrd, PutSide
  <2>5. Good(b2)
    <3> HIDE DEF b1, b2, r1
    <3> QED BY <1>5, <2>3, <2>4, PutOrdGood
  <2> HIDE DEF b2
  <2>6. mark_top(hs, r.s, r.px) \in HotState
    BY <1>1, MarkTop
  <2> QED BY <1>1, <1>4, <1>7, <2>5, <2>6, CompleteInv
<1> QED BY <1>3, <1>6, <1>7

\* A relinked order is clear of the other side because ModifyCrosses was false.
LEMMA ModifyRelinksInv ==
  ASSUME IInv, NEW mm \in ModifyMsg, NEW o \in Slot, ModifyRelinks(mm, o)
  PROVE  IInv'
<1> DEFINE b == rename(book, mm, o)
           r == b.ord[o]
           taken == remove(r.s, b.side[r.s], o, r.px, r.remaining)
           bs == add(r.s, taken, o, mm.new_px, mm.new_qty)
           b1 == PutSide(b, r.s, bs)
           r1 == [r EXCEPT !.px = mm.new_px, !.remaining = mm.new_qty]
           b2 == [b EXCEPT !.side[r.s] = bs, !.ord[o].px = mm.new_px,
                           !.ord[o].remaining = mm.new_qty]
           h == mark_top(mark_top(hs, r.s, r.px), r.s, mm.new_px)
<1>1. Good(book) /\ hs \in HotState /\ CfgType
  BY DEF IInv, CfgType
<1>2. Good(b) /\ b.side = book.side /\ r \in Order /\ r.s = book.ord[o].s
  BY <1>1, RenameGood
<1>3. Complete(Modified(mm, b, o), b2, h, out)
  BY DEF ModifyRelinks
<1>4. ~crosses(book, [s |-> book.ord[o].s, px |-> mm.new_px])
  BY DEF ModifyRelinks, ModifyCrosses
<1> HIDE DEF b
<1>5. Modified(mm, b, o) \in Call
  BY <1>2, ModifiedType
<1>6. /\ r.s \in Side /\ r.px \in Tick /\ r.remaining \in Int
      /\ mm.new_px \in Tick /\ mm.new_qty \in Nat /\ r1 \in Order
  <2>1. mm.new_px \in Tick /\ mm.new_qty \in Nat
    BY EngineAssumption DEF ModifyMsg, Qty
  <2>2. r.s \in Side /\ r.px \in Tick /\ r.remaining \in Int
    BY <1>2 DEF Order
  <2> HIDE DEF r
  <2>3. r1 \in Order
    BY <1>2, <2>1, ZenonT(30) DEF Order
  <2> QED BY <2>1, <2>2, <2>3
<1>7. h \in HotState
  BY <1>1, MarkTop
<1> HIDE DEF h, r
<1>8. b.side[r.s] \in BookSide /\ SideConsistent(r.s, b.side[r.s])
  BY <1>2, <1>6, GoodFields
<1>9. taken \in BookSide /\ SideConsistent(r.s, taken) /\ taken.bm \subseteq b.side[r.s].bm
  BY <1>6, <1>8, RemoveConsistent
<1> HIDE DEF taken
<1>10. bs \in BookSide /\ SideConsistent(r.s, bs) /\ bs.bm = taken.bm \cup {mm.new_px}
  BY <1>6, <1>9, AddConsistent
<1> HIDE DEF bs
<1>11. \A p \in bs.bm, q \in b.side[Opp(r.s)].bm : Better(r.s, q, p)
  <2>1. b.side \in [Side -> BookSide] /\ \A p \in b.side["bid"].bm, q \in b.side["ask"].bm : p < q
    BY <1>2, GoodFields
  <2>2. \A p \in b.side[r.s].bm, q \in b.side[Opp(r.s)].bm : Better(r.s, q, p)
    BY <1>6, <2>1, SidesApart, Zenon
  <2> DEFINE m == [s |-> book.ord[o].s, px |-> mm.new_px]
  <2>3. m.s = r.s /\ m.px = mm.new_px
    BY <1>2
  <2>4. ~crosses(book, m)
    BY <1>4
  <2> HIDE DEF m
  <2>5. \A q \in book.side[Opp(m.s)].bm : Better(m.s, q, m.px)
    BY <1>1, <1>6, <2>3, <2>4, NotCrossing
  <2>6. \A q \in b.side[Opp(r.s)].bm : Better(r.s, q, mm.new_px)
    BY <1>2, <2>3, <2>5, Zenon
  <2> QED BY <1>9, <1>10, <2>2, <2>6, Zenon
<1>12. Good(b1) /\ b1.ord = b.ord
  BY <1>2, <1>6, <1>10, <1>11, PutSideGood, ZenonT(30)
<1>13. b2 = PutOrd(b1, o, r1)
  BY <1>2, GoodFields, ZenonT(30) DEF PutOrd, PutSide, r
<1>14. Good(b2)
  <2> HIDE DEF b1, b2, r1
  <2> QED BY <1>6, <1>12, <1>13, PutOrdGood
<1> HIDE DEF b2
<1> QED BY <1>1, <1>3, <1>5, <1>7, <1>14, CompleteInv

\* on_modify that crosses: the order leaves and its resubmission begins.
LEMMA ModifyResubmitsInv ==
  ASSUME IInv, NEW mm \in ModifyMsg, NEW o \in Slot, ModifyResubmits(mm, o)
  PROVE  IInv'
<1> DEFINE b == rename(book, mm, o)
           r == b.ord[o]
           w == withdraw(b, o)
           h1 == [hs EXCEPT !.suppress = hs.suppress + 1]
           h2 == mark_top(h1, r.s, r.px)
           p == publish_top(w.side, h2, out)
           m == [id |-> r.id, px |-> mm.new_px, qty |-> mm.new_qty, s |-> r.s, t |-> r.t,
                 account |-> r.account]
<1>1. Good(book) /\ hs \in HotState /\ CfgType /\ hs.suppress = 0
  BY ZenonT(30) DEF IInv, CfgType, ModifyResubmits, ModifyFinds
<1>2. Good(b) /\ r \in Order
  BY <1>1, RenameGood
<1>3. BeginSubmit("modify", m, w, p.h, p.ev)
  BY DEF ModifyResubmits
<1> HIDE DEF b
<1>4. m \in Msg
  BY <1>2, EngineAssumption DEF Order, Msg, ModifyMsg, Qty
<1>5. Good(w)
  BY <1>2, WithdrawGood
<1>6. h1 \in HotState
  BY <1>1 DEF HotState
<1> HIDE DEF m, w, h1
<1>7. h2 \in HotState
  BY <1>6, MarkTop
<1> HIDE DEF h2
<1>8. p.h \in HotState
  BY <1>5, <1>7, GoodFields, PublishTop
<1> HIDE DEF p
<1> QED BY <1>1, <1>3, <1>4, <1>5, <1>8, BeginInv

\* One step preserves the invariant, whichever command or turn it is.
LEMMA NextInv == IInv /\ [Next]_vars => IInv'
<1> SUFFICES ASSUME IInv, [Next]_vars PROVE IInv'
  OBVIOUS
<1>1. CASE \E m \in SubmitMsg : Submit(m)
  BY <1>1, SubmitInv
<1>2. CASE MatchStep
  BY <1>2, MatchStepInv
<1>3. CASE FinishSubmit
  BY <1>3, FinishSubmitInv
<1>4. CASE \E id \in Id, h \in (IF ByHandle THEN Handle ELSE {NoHandle}) : Cancel(id, h)
  BY <1>4, CancelInv, Zenon
<1>5. CASE \E mm \in ModifyMsg : Modify(mm)
  <2>1. PICK mm \in ModifyMsg : Modify(mm)
    BY <1>5
  <2>2. CASE ModifyMissing(mm)
    BY <2>2, ModifyMissingInv
  <2>3. CASE \E o \in Slot : ModifyInPlace(mm, o)
    BY <2>3, ModifyInPlaceInv
  <2>4. CASE \E o \in Slot : ModifyRelinks(mm, o)
    BY <2>4, ModifyRelinksInv
  <2>5. CASE \E o \in Slot : ModifyResubmits(mm, o)
    BY <2>5, ModifyResubmitsInv
  <2> QED BY <2>1, <2>2, <2>3, <2>4, <2>5 DEF Modify
<1>6. CASE Return
  <2>1. pc # "match" /\ Good(book)
    BY <1>6 DEF Return, IInv
  <2> QED BY <1>6, <2>1, NoCallType, QuietInv DEF Return
<1>7. CASE UNCHANGED vars
  BY <1>7, ZenonT(30) DEF IInv, Good, vars, BookType
<1> QED BY <1>1, <1>2, <1>3, <1>4, <1>5, <1>6, <1>7 DEF Next

\* The inductive invariant holds throughout.
THEOREM Invariant == Spec => []IInv
BY InitInv, NextInv, PTL DEF Spec

\* Every field of the engine stays in its domain, and suppress_top_depth, which
\* a crossing modify raises around its resubmit leg, is back at 0 between calls.
THEOREM TypeCorrect == Spec => []TypeOK
<1>1. IInv => TypeOK
  BY DEF IInv, TypeOK, Good
<1> QED BY <1>1, Invariant, PTL

\* The cached best of each side is the bitmap's, and the bitmap marks exactly
\* the levels that hold an order.
THEOREM BestCorrect == Spec => []BestIsCurrent
<1>1. IInv => BestIsCurrent
  BY DEF IInv, BestIsCurrent, Good
<1> QED BY <1>1, Invariant, PTL

\* The book is never crossed or locked, in the middle of a match included.
THEOREM NeverCrossed == Spec => []Uncrossed
<1>1. IInv => Uncrossed
  BY DEF IInv, Uncrossed, Good
<1> QED BY <1>1, Invariant, PTL
===============================================================================
