------------------------------ MODULE BookProofs ------------------------------
(***************************************************************************)
(* Lemmas about one side of the book: add, remove and a drained level keep *)
(* the bitmap equal to the populated levels and the cached best equal to   *)
(* the best populated price.                                               *)
(***************************************************************************)
EXTENDS Book, SequenceTheorems, WellFoundedInduction, TLAPS

\* A nonempty set of naturals has a least element.
LEMMA LeastNatural ==
  ASSUME NEW S \in SUBSET Nat, S # {}
  PROVE  \E p \in S : \A q \in S : p <= q
<1> DEFINE R == {ss \in Nat \X Nat : ss[1] < ss[2]}
<1>1. OpToRel(<, Nat) = R
  BY Zenon DEF OpToRel
<1>2. IsWellFoundedOn(R, Nat)
  BY <1>1, NatLessThanWellFounded, Zenon
<1>3. PICK p \in S : \A q \in S : ~(<<q, p>> \in R)
  BY <1>2, WFMin, ZenonT(30)
<1>4. ASSUME NEW q \in S PROVE p <= q
  <2>1. <<q, p>> \notin R /\ q \in Nat /\ p \in Nat
    BY <1>3
  <2> QED BY <2>1
<1> QED BY <1>4

\* A nonempty set of prices has a best one on either side.
LEMMA BestExists ==
  ASSUME NEW s \in Side, NEW bm \in SUBSET Tick, bm # {}
  PROVE  \E p \in bm : \A q \in bm : ~Better(s, q, p)
<1>1. CASE s = "ask"
  <2>1. bm \in SUBSET Nat
    BY DEF Tick
  <2>2. PICK p \in bm : \A q \in bm : p <= q
    BY <2>1, LeastNatural
  <2> QED BY <1>1, <2>1, <2>2 DEF Better
<1>2. CASE s = "bid"
  <2> DEFINE M == {(Ticks - 1) - q : q \in bm}
  <2>1. \A q \in bm : q \in Nat /\ q <= Ticks - 1 /\ (Ticks - 1) - q \in Nat
    BY TicksAssumption DEF Tick
  <2>2. M \in SUBSET Nat /\ M # {}
    BY <2>1
  <2>3. PICK d \in M : \A e \in M : d <= e
    BY <2>2, LeastNatural, ZenonT(30)
  <2>4. PICK p \in bm : d = (Ticks - 1) - p
    BY <2>3
  <2>5. \A q \in bm : (Ticks - 1) - p <= (Ticks - 1) - q
    BY <2>3, <2>4
  <2>6. \A q \in bm : ~(q > p)
    BY <2>1, <2>4, <2>5, TicksAssumption
  <2> QED BY <1>2, <2>6 DEF Better
<1> QED BY <1>1, <1>2 DEF Side

\* recompute_best_ finds it.
LEMMA RecomputeBest ==
  ASSUME NEW s \in Side, NEW bm \in SUBSET Tick, bm # {}
  PROVE  /\ recompute_best(s, bm) \in bm
         /\ \A q \in bm : ~Better(s, q, recompute_best(s, bm))
BY BestExists DEF recompute_best

\* There is only one best price.
LEMMA BestUnique ==
  ASSUME NEW s \in Side, NEW bm \in SUBSET Tick, NEW p \in bm,
         \A q \in bm : ~Better(s, q, p)
  PROVE  recompute_best(s, bm) = p
<1>1. /\ recompute_best(s, bm) \in bm
      /\ \A q \in bm : ~Better(s, q, recompute_best(s, bm))
  BY RecomputeBest
<1> DEFINE r == recompute_best(s, bm)
<1> HIDE DEF r
<1>2. r \in bm /\ ~Better(s, r, p) /\ ~Better(s, p, r)
  BY <1>1, Zenon DEF r
<1>3. p \in Int /\ r \in Int
  BY <1>2 DEF Tick
<1>4. p = r
  BY <1>2, <1>3 DEF Better
<1> QED BY <1>4 DEF r

\* The empty optional is no price.
LEMMA NoneNotTick == None \notin Tick
BY NoneAssumption DEF Tick

(***************************************************************************)
(* The operations.                                                         *)
(***************************************************************************)
\* What is left of a FIFO is a FIFO.
LEMMA UnlinkType ==
  ASSUME NEW f \in Seq(Slot), NEW o
  PROVE  unlink(f, o) \in Seq(Slot)
<1>1. CASE \E k \in 1..Len(f) : f[k] = o
  <2> DEFINE k == CHOOSE k \in 1..Len(f) : f[k] = o
  <2>1. k \in 1..Len(f)
    BY <1>1
  <2> HIDE DEF k
  <2>2. SubSeq(f, 1, k - 1) \in Seq(Slot)
    <3>1. \A j \in 1..k - 1 : f[j] \in Slot
      BY <2>1
    <3> QED BY <2>1, <3>1, SubSeqProperties
  <2>3. SubSeq(f, k + 1, Len(f)) \in Seq(Slot)
    <3>1. \A j \in k + 1..Len(f) : f[j] \in Slot
      BY <2>1
    <3> QED BY <2>1, <3>1, SubSeqProperties
  <2>4. SubSeq(f, 1, k - 1) \o SubSeq(f, k + 1, Len(f)) \in Seq(Slot)
    BY <2>2, <2>3
  <2> QED BY <1>1, <2>4 DEF unlink, RemoveAt, k
<1>2. CASE ~\E k \in 1..Len(f) : f[k] = o
  BY <1>2 DEF unlink
<1> QED BY <1>1, <1>2

\* add: the level is populated and the cache takes the better of two prices.
LEMMA AddConsistent ==
  ASSUME NEW s \in Side, NEW bs \in BookSide, SideConsistent(s, bs),
         NEW o \in Slot, NEW px \in Tick, NEW qty \in Int
  PROVE  /\ add(s, bs, o, px, qty) \in BookSide
         /\ SideConsistent(s, add(s, bs, o, px, qty))
         /\ add(s, bs, o, px, qty).bm = bs.bm \cup {px}
<1> DEFINE r == add(s, bs, o, px, qty)
<1>0. /\ bs.fifo \in [Tick -> Seq(Slot)] /\ bs.agg \in [Tick -> Int]
      /\ bs.bm \in SUBSET Tick /\ bs.best \in Tick \cup {None}
      /\ bs.bm = {p \in Tick : bs.fifo[p] # << >>}
      /\ bs.best = recompute_best(s, bs.bm)
  BY DEF BookSide, SideConsistent
<1>1. /\ r.fifo = [bs.fifo EXCEPT ![px] = Append(@, o)]
      /\ r.agg = [bs.agg EXCEPT ![px] = @ + qty]
      /\ r.best = IF bs.best = None \/ Better(s, px, bs.best) THEN px ELSE bs.best
      /\ r.bm = IF bs.fifo[px] = << >> THEN bs.bm \cup {px} ELSE bs.bm
      /\ r = [fifo |-> r.fifo, agg |-> r.agg, bm |-> r.bm, best |-> r.best]
  BY DEF add
<1> HIDE DEF r
<1>2. r.bm = bs.bm \cup {px}
  BY <1>0, <1>1
<1>3. r.fifo \in [Tick -> Seq(Slot)] /\ r.agg \in [Tick -> Int]
  BY <1>0, <1>1
<1>4. r \in BookSide
  BY <1>0, <1>1, <1>2, <1>3, ZenonT(60) DEF BookSide
<1>5. r.bm = {p \in Tick : r.fifo[p] # << >>}
  <2>1. r.fifo[px] # << >>
    <3>1. r.fifo[px] = Append(bs.fifo[px], o) /\ bs.fifo[px] \in Seq(Slot)
      BY <1>0, <1>1
    <3> QED BY <3>1, AppendProperties
  <2>2. \A p \in Tick : p # px => r.fifo[p] = bs.fifo[p]
    BY <1>0, <1>1
  <2> QED BY <1>0, <1>2, <2>1, <2>2
<1>6. r.best = recompute_best(s, r.bm)
  <2>1. CASE bs.bm = {}
    <3>1. bs.best = None /\ r.bm = {px} /\ r.best = px
      BY <2>1, <1>0, <1>1, <1>2 DEF recompute_best
    <3>2. ~Better(s, px, px)
      BY DEF Better, Tick
    <3> QED BY <3>1, <3>2, BestUnique
  <2>2. CASE bs.bm # {}
    <3>1. bs.best \in bs.bm /\ \A q \in bs.bm : ~Better(s, q, bs.best)
      BY <2>2, <1>0, RecomputeBest, ZenonT(30)
    <3>2. bs.best # None /\ r.best \in r.bm
      BY <3>1, <1>0, <1>1, <1>2, NoneNotTick, ZenonT(60)
    <3>3. \A q \in bs.bm \cup {px} : q \in Int
      BY <1>0 DEF Tick
    <3>4. \A q \in r.bm : ~Better(s, q, r.best)
      BY <3>1, <3>2, <3>3, <1>1, <1>2 DEF Better
    <3>5. r.bm \in SUBSET Tick
      BY <1>0, <1>2
    <3> QED BY <3>2, <3>4, <3>5, BestUnique
  <2> QED BY <2>1, <2>2
<1> QED BY <1>2, <1>4, <1>5, <1>6, ZenonT(30) DEF SideConsistent, r

\* notify_level_emptied: with the level's FIFO already empty and everything
\* else consistent, the side is consistent again.
LEMMA NotifyConsistent ==
  ASSUME NEW s \in Side, NEW bs \in BookSide, NEW px \in Tick,
         bs.bm \ {px} = {p \in Tick : bs.fifo[p] # << >>},
         bs.best = recompute_best(s, bs.bm)
  PROVE  /\ notify_level_emptied(s, bs, px) \in BookSide
         /\ SideConsistent(s, notify_level_emptied(s, bs, px))
         /\ notify_level_emptied(s, bs, px).bm = bs.bm \ {px}
<1> DEFINE r == notify_level_emptied(s, bs, px)
<1>0. /\ bs.fifo \in [Tick -> Seq(Slot)] /\ bs.agg \in [Tick -> Int]
      /\ bs.bm \in SUBSET Tick /\ bs.best \in Tick \cup {None}
  BY DEF BookSide
<1>1. /\ r.fifo = bs.fifo /\ r.agg = bs.agg /\ r.bm = bs.bm \ {px}
      /\ r.best = IF bs.best = px THEN recompute_best(s, bs.bm \ {px}) ELSE bs.best
      /\ r = [fifo |-> r.fifo, agg |-> r.agg, bm |-> r.bm, best |-> r.best]
  <2>1. bs = [fifo |-> bs.fifo, agg |-> bs.agg, bm |-> bs.bm, best |-> bs.best]
    BY DEF BookSide
  <2> DEFINE b == IF bs.best = px THEN recompute_best(s, bs.bm \ {px}) ELSE bs.best
  <2>2. r = [bs EXCEPT !.bm = bs.bm \ {px}, !.best = b]
    BY DEF notify_level_emptied
  <2>3. b = IF bs.best = px THEN recompute_best(s, bs.bm \ {px}) ELSE bs.best
    OBVIOUS
  <2> HIDE DEF b, r
  <2>4. r = [fifo |-> bs.fifo, agg |-> bs.agg, bm |-> bs.bm \ {px}, best |-> b]
    BY <2>1, <2>2, ZenonT(30)
  <2> QED BY <2>3, <2>4
<1> HIDE DEF r
<1>2. r.best = recompute_best(s, r.bm)
  <2>1. CASE bs.best = px
    BY <2>1, <1>1
  <2>2. CASE bs.best # px
    <3>0. CASE bs.bm = {}
      BY <3>0, <2>2, <1>1
    <3> SUFFICES ASSUME bs.bm # {} PROVE r.best = recompute_best(s, r.bm)
      BY <3>0
    <3>1. bs.best \in bs.bm /\ \A q \in bs.bm : ~Better(s, q, bs.best)
      BY <1>0, RecomputeBest
    <3>2. r.best = bs.best /\ r.best \in r.bm /\ r.bm \in SUBSET Tick
      BY <2>2, <3>1, <1>0, <1>1
    <3>3. \A q \in r.bm : ~Better(s, q, r.best)
      BY <3>1, <3>2, <1>1, Zenon
    <3> QED BY <3>2, <3>3, BestUnique
  <2> QED BY <2>1, <2>2
<1>3. r.best \in Tick \cup {None}
  <2>1. CASE r.bm = {}
    BY <1>2, <2>1 DEF recompute_best
  <2>2. CASE r.bm # {}
    BY <1>0, <1>1, <1>2, <2>2, RecomputeBest, ZenonT(30)
  <2> QED BY <2>1, <2>2
<1>4. r \in BookSide
  BY <1>0, <1>1, <1>3 DEF BookSide
<1> QED BY <1>1, <1>2, <1>4 DEF SideConsistent, r

\* Rewriting one level leaves the other levels, the bitmap and the best alone.
LEMMA WithLevel ==
  ASSUME NEW bs \in BookSide, NEW px \in Tick, NEW f \in Seq(Slot), NEW a \in Int
  PROVE  LET b == with_level(bs, px, f, a)
         IN  /\ b \in BookSide /\ b.bm = bs.bm /\ b.best = bs.best /\ b.fifo[px] = f
             /\ \A p \in Tick : p # px => b.fifo[p] = bs.fifo[p]
<1>1. PICK F \in [Tick -> Seq(Slot)], A \in [Tick -> Int], M \in SUBSET Tick,
           B \in Tick \cup {None} : bs = [fifo |-> F, agg |-> A, bm |-> M, best |-> B]
  BY DEF BookSide
<1>2. PICK b : b = with_level(bs, px, f, a)
  OBVIOUS
<1>3. b = [fifo |-> [F EXCEPT ![px] = f], agg |-> [A EXCEPT ![px] = a], bm |-> M, best |-> B]
  BY <1>1, <1>2, ZenonT(30) DEF with_level
<1>4. [F EXCEPT ![px] = f] \in [Tick -> Seq(Slot)] /\ [A EXCEPT ![px] = a] \in [Tick -> Int]
  OBVIOUS
<1>5. b \in BookSide
  BY <1>3, <1>4 DEF BookSide
<1>6. /\ b.bm = bs.bm /\ b.best = bs.best /\ b.fifo[px] = f
      /\ \A p \in Tick : p # px => b.fifo[p] = bs.fifo[p]
  BY <1>1, <1>3
<1> QED BY <1>2, <1>5, <1>6

\* A level that shrinks, and is reported when it is empty.
LEMMA ShrinkConsistent ==
  ASSUME NEW s \in Side, NEW bs \in BookSide, SideConsistent(s, bs),
         NEW px \in Tick, NEW b \in BookSide, b.bm = bs.bm, b.best = bs.best,
         bs.fifo[px] = << >> => b.fifo[px] = << >>,
         \A p \in Tick : p # px => b.fifo[p] = bs.fifo[p],
         NEW r, r = IF b.fifo[px] = << >> THEN notify_level_emptied(s, b, px) ELSE b
  PROVE  r \in BookSide /\ SideConsistent(s, r) /\ r.bm \subseteq bs.bm
<1>0. /\ bs.bm = {p \in Tick : bs.fifo[p] # << >>}
      /\ b.best = recompute_best(s, b.bm)
  BY DEF SideConsistent
<1>1. CASE b.fifo[px] = << >>
  <2>1. b.bm \ {px} = {p \in Tick : b.fifo[p] # << >>}
    BY <1>0, <1>1
  <2>2. r = notify_level_emptied(s, b, px)
    BY <1>1
  <2>3. b.best = recompute_best(s, b.bm)
    BY <1>0
  <2> DEFINE n == notify_level_emptied(s, b, px)
  <2>4. n \in BookSide /\ SideConsistent(s, n) /\ n.bm = b.bm \ {px}
    BY <2>1, <2>3, NotifyConsistent, ZenonT(30)
  <2> HIDE DEF n
  <2>5. r = n
    BY <2>2, Zenon DEF n
  <2> QED BY <2>4, <2>5
<1>2. CASE b.fifo[px] # << >>
  <2>1. b.bm = {p \in Tick : b.fifo[p] # << >>}
    BY <1>0, <1>2
  <2> QED BY <1>0, <1>2, <2>1, ZenonT(30) DEF SideConsistent
<1> QED BY <1>1, <1>2

\* remove: any order, wherever it stands in its level.
LEMMA RemoveConsistent ==
  ASSUME NEW s \in Side, NEW bs \in BookSide, SideConsistent(s, bs),
         NEW o \in Slot, NEW px \in Tick, NEW qty \in Int
  PROVE  /\ remove(s, bs, o, px, qty) \in BookSide
         /\ SideConsistent(s, remove(s, bs, o, px, qty))
         /\ remove(s, bs, o, px, qty).bm \subseteq bs.bm
<1> DEFINE f == unlink(bs.fifo[px], o)
           a == bs.agg[px] - qty
           b == with_level(bs, px, f, a)
           r == remove(s, bs, o, px, qty)
<1>1. bs.fifo[px] \in Seq(Slot) /\ bs.agg[px] \in Int
  BY DEF BookSide
<1>2. f \in Seq(Slot) /\ a \in Int
  BY <1>1, UnlinkType
<1>3. bs.fifo[px] = << >> => f = << >>
  BY DEF unlink
<1>4. r = IF b.fifo[px] = << >> THEN notify_level_emptied(s, b, px) ELSE b
  BY DEF remove
<1> HIDE DEF f, a, r
<1>5. /\ b \in BookSide /\ b.bm = bs.bm /\ b.best = bs.best /\ b.fifo[px] = f
      /\ \A p \in Tick : p # px => b.fifo[p] = bs.fifo[p]
  BY <1>2, WithLevel
<1> HIDE DEF b
<1>6. r \in BookSide /\ SideConsistent(s, r) /\ r.bm \subseteq bs.bm
  BY <1>3, <1>4, <1>5, ShrinkConsistent
<1> QED BY <1>6 DEF r

\* consume_front: the front of a populated level gives up quantity.
LEMMA ConsumeFrontConsistent ==
  ASSUME NEW s \in Side, NEW bs \in BookSide, SideConsistent(s, bs),
         NEW px \in Tick, NEW qty \in Int, NEW gone \in BOOLEAN,
         bs.fifo[px] # << >>
  PROVE  /\ consume_front(s, bs, px, qty, gone) \in BookSide
         /\ SideConsistent(s, consume_front(s, bs, px, qty, gone))
         /\ consume_front(s, bs, px, qty, gone).bm \subseteq bs.bm
<1> DEFINE f == IF gone THEN Tail(bs.fifo[px]) ELSE bs.fifo[px]
           a == bs.agg[px] - qty
           b == with_level(bs, px, f, a)
           r == consume_front(s, bs, px, qty, gone)
<1>1. bs.fifo[px] \in Seq(Slot) /\ bs.agg[px] \in Int
  BY DEF BookSide
<1>2. f \in Seq(Slot) /\ a \in Int
  BY <1>1, HeadTailProperties
<1>3. r = IF b.fifo[px] = << >> THEN notify_level_emptied(s, b, px) ELSE b
  BY DEF consume_front
<1> HIDE DEF f, a, r
<1>4. /\ b \in BookSide /\ b.bm = bs.bm /\ b.best = bs.best /\ b.fifo[px] = f
      /\ \A p \in Tick : p # px => b.fifo[p] = bs.fifo[p]
  BY <1>2, WithLevel
<1> HIDE DEF b
<1>5. r \in BookSide /\ SideConsistent(s, r) /\ r.bm \subseteq bs.bm
  BY <1>3, <1>4, ShrinkConsistent
<1> QED BY <1>5 DEF r

\* requantify: only an aggregate moves.
LEMMA RequantifyConsistent ==
  ASSUME NEW s \in Side, NEW bs \in BookSide, SideConsistent(s, bs),
         NEW px \in Tick, NEW old \in Int, NEW new \in Int
  PROVE  /\ requantify(bs, px, old, new) \in BookSide
         /\ SideConsistent(s, requantify(bs, px, old, new))
         /\ requantify(bs, px, old, new).bm = bs.bm
<1> DEFINE a == (bs.agg[px] - old) + new
           r == requantify(bs, px, old, new)
<1>1. /\ bs.agg \in [Tick -> Int] /\ a \in Int
      /\ bs = [fifo |-> bs.fifo, agg |-> bs.agg, bm |-> bs.bm, best |-> bs.best]
  BY DEF BookSide
<1>2. r = [bs EXCEPT !.agg[px] = a]
  BY DEF requantify
<1> HIDE DEF a, r
<1>3. r = [fifo |-> bs.fifo, agg |-> [bs.agg EXCEPT ![px] = a], bm |-> bs.bm,
           best |-> bs.best]
  BY <1>1, <1>2
<1>4. r \in BookSide
  BY <1>1, <1>3 DEF BookSide
<1> QED BY <1>3, <1>4 DEF SideConsistent, r
===============================================================================
