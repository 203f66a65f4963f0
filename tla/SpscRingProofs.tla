---------------------------- MODULE SpscRingProofs ----------------------------
(***************************************************************************)
(* Machine-checked proofs about SpscRing, for every capacity, payload set, *)
(* batch limit and number of pushes.                                       *)
(***************************************************************************)
EXTENDS SpscRing, SequenceTheorems, TLAPS

(***************************************************************************)
(* Two positions less than one lap apart never share a slot.               *)
(***************************************************************************)
\* A product with a positive factor is no smaller than the other factor; the
\* solver needs it spelled out because it is not linear.
LEMMA LapLength ==
  ASSUME NEW c \in Nat \ {0}, NEW d \in Int, d > 0
  PROVE  c * d >= c
BY SMT

\* The division facts that make % the position's residue.
LEMMA Residue ==
  ASSUME NEW c \in Nat \ {0}, NEW a \in Nat
  PROVE  /\ a % c \in 0 .. c - 1
         /\ a \div c \in Int
         /\ a = c * (a \div c) + (a % c)
BY SMT

\* `buf_[pos & mask]`: positions a < b with b - a < Capacity use two slots.
LEMMA SlotsDistinct ==
  ASSUME NEW a \in Nat, NEW b \in Nat, a < b, b < a + Capacity
  PROVE  Slot(a) # Slot(b)
<1> DEFINE qa == a \div Capacity
           qb == b \div Capacity
<1>0. Capacity \in Nat \ {0}
  BY CapacityAssumption
<1>1. SUFFICES ASSUME a % Capacity = b % Capacity
               PROVE  FALSE
  BY DEF Slot
<1>2. /\ qa \in Int /\ qb \in Int
      /\ a % Capacity \in Int
      /\ a = Capacity * qa + (a % Capacity)
      /\ b = Capacity * qb + (b % Capacity)
  BY <1>0, Residue
<1> HIDE DEF qa, qb
<1>3. b - a = Capacity * qb - Capacity * qa
  BY <1>0, <1>1, <1>2
<1>4. Capacity * qb - Capacity * qa = Capacity * (qb - qa)
  BY <1>0, <1>2
<1>5. CASE qb - qa > 0
  <2>1. Capacity * (qb - qa) >= Capacity
    BY <1>0, <1>2, <1>5, LapLength
  <2> QED BY <1>0, <1>2, <1>3, <1>4, <2>1
<1>6. CASE qb - qa <= 0
  <2>1. Capacity * (qb - qa) <= 0
    BY <1>0, <1>2, <1>6
  <2> QED BY <1>0, <1>2, <1>3, <1>4, <2>1
<1> QED BY <1>2, <1>5, <1>6

\* Every position has a slot.
LEMMA SlotInRange ==
  ASSUME NEW a \in Nat
  PROVE  Slot(a) \in Slots
BY CapacityAssumption, Residue DEF Slot, Slots

(***************************************************************************)
(* The inductive invariant.                                                *)
(***************************************************************************)
\* The empty ring satisfies the invariant.
LEMMA InitIInv == Init => IInv
<1> SUFFICES ASSUME Init PROVE IInv
  OBVIOUS
<1>1. TypeOK
  BY DEF Init, TypeOK, SlotType
<1>2. ProducerInv /\ ConsumerInv
  BY CapacityAssumption DEF Init, ProducerInv, ConsumerInv
<1>3. RingInv
  BY CapacityAssumption DEF Init, RingInv
<1> QED BY <1>1, <1>2, <1>3 DEF IInv

\* Every step of either side keeps the invariant.
LEMMA NextIInv == IInv /\ [Next]_vars => IInv'
<1> SUFFICES ASSUME IInv, [Next]_vars
             PROVE  IInv'
  OBVIOUS
<1> USE CapacityAssumption, BoundAssumption DEF IInv
<1>0. Slot(head) \in Slots /\ Slot(tail + n) \in Slots /\ Slot(tail + i) \in Slots
  BY SlotInRange DEF TypeOK
<1>1. ASSUME NEW v \in T, PushBegin(v)
      PROVE  IInv'
  <2>1. TypeOK'
    BY <1>1 DEF PushBegin, TypeOK, cvars
  <2>2. ProducerInv' /\ ConsumerInv' /\ RingInv'
    BY <1>1 DEF PushBegin, TypeOK, ProducerInv, ConsumerInv, RingInv, cvars
  <2> QED BY <2>1, <2>2
<1>2. CASE PushReload
  <2>1. TypeOK'
    BY <1>2 DEF PushReload, TypeOK, cvars
  <2>2. ProducerInv' /\ ConsumerInv' /\ RingInv'
    BY <1>2 DEF PushReload, TypeOK, ProducerInv, ConsumerInv, RingInv, cvars
  <2> QED BY <2>1, <2>2
<1>3. CASE PushWrite
  <2>0. buf' = [buf EXCEPT ![Slot(head)].value = pval] /\ pval \in T
    BY <1>3 DEF PushWrite, TypeOK
  <2>1. TypeOK'
    BY <1>0, <1>3, <2>0, ZenonT(60) DEF PushWrite, TypeOK, SlotType, cvars
  <2>2. ProducerInv' /\ ConsumerInv'
    BY <1>0, <1>3, <2>0
    DEF PushWrite, TypeOK, SlotType, ProducerInv, ConsumerInv, cvars
  <2>3. \A s \in Slots : s # Slot(head) => buf'[s] = buf[s]
    BY <1>0, <2>0 DEF TypeOK, SlotType
  <2>4. \A s \in Slots : buf'[s].seq = buf[s].seq
    BY <1>0, <2>0 DEF TypeOK, SlotType
  <2>5. ASSUME NEW k \in 0..Len(sent) - 1, tail <= k
        PROVE  buf'[Slot(k)] = buf[Slot(k)]
    <3>1. k \in Nat /\ k < head /\ head < k + Capacity
      BY <1>3, <2>5, SMTT(30) DEF PushWrite, TypeOK, ProducerInv
    <3>2. Slot(k) # Slot(head) /\ Slot(k) \in Slots
      BY <3>1, SlotsDistinct, SlotInRange DEF TypeOK
    <3> QED BY <2>3, <3>2
  <2>6. RingInv'
    <3>1. sent' = sent /\ tail' = tail
      BY <1>3 DEF PushWrite, cvars
    <3>2. \A k \in 0..Len(sent) - 1 :
            tail <= k => /\ buf'[Slot(k)].seq = k + 1
                         /\ buf'[Slot(k)].value = sent[k + 1]
      BY <2>5 DEF RingInv
    <3> QED BY <2>4, <3>1, <3>2 DEF RingInv
  <2> QED BY <2>1, <2>2, <2>6
<1>4. CASE PushPublish
  <2>0. /\ buf' = [buf EXCEPT ![Slot(head)].seq = head + 1]
        /\ sent' = Append(sent, pval) /\ pval \in T
        /\ head = Len(sent) /\ Len(sent') = Len(sent) + 1
        /\ tail' = tail /\ n' = n /\ i' = i /\ got' = got /\ head' = head
    BY <1>4 DEF PushPublish, TypeOK, ProducerInv, cvars
  <2>1. TypeOK'
    <3>0. buf[Slot(head)] \in SlotType /\ head + 1 \in Nat
      BY <1>0 DEF TypeOK
    <3>1. [buf[Slot(head)] EXCEPT !.seq = head + 1] \in SlotType
      BY <3>0 DEF SlotType
    <3>2. buf' \in [Slots -> SlotType]
      BY <1>0, <2>0, <3>1 DEF TypeOK
    <3>3. sent' \in Seq(T)
      BY <2>0 DEF TypeOK
    <3> QED BY <1>4, <3>2, <3>3 DEF PushPublish, TypeOK, cvars
  <2>2. ProducerInv'
    BY <1>0, <1>4, <2>0 DEF PushPublish, TypeOK, SlotType, ProducerInv
  <2>3. \A k \in 1..Len(sent) : sent'[k] = sent[k]
    BY <2>0 DEF TypeOK
  <2>4. ConsumerInv'
    BY <1>4, <2>0, <2>3, SMTT(30) DEF PushPublish, TypeOK, ConsumerInv, cvars
  <2>5. \A s \in Slots : s # Slot(head) => buf'[s] = buf[s]
    BY <1>0, <2>0 DEF TypeOK, SlotType
  <2>6. /\ buf'[Slot(head)].seq = head + 1
        /\ buf'[Slot(head)].value = pval
    BY <1>0, <1>4, <2>0 DEF PushPublish, TypeOK, SlotType, ProducerInv
  <2>7. \A s \in Slots : buf'[s].seq <= Len(sent')
    BY <2>0, <2>5, <2>6, SMTT(30) DEF TypeOK, SlotType, RingInv
  <2>8. Len(sent') <= tail' + Capacity
    BY <1>4, <2>0, SMTT(30) DEF PushPublish, TypeOK, ProducerInv
  <2>9. ASSUME NEW k \in 0..Len(sent') - 1, tail' <= k
        PROVE  /\ buf'[Slot(k)].seq = k + 1
               /\ buf'[Slot(k)].value = sent'[k + 1]
    <3>1. CASE k = head
      BY <2>0, <2>6, <3>1, SMTT(30) DEF TypeOK
    <3>2. CASE k < head
      <4>1. k \in 0..Len(sent) - 1 /\ tail <= k /\ k \in Nat /\ head < k + Capacity
        BY <1>4, <2>0, <2>9, <3>2, SMTT(30) DEF PushPublish, TypeOK, ProducerInv
      <4>2. Slot(k) # Slot(head) /\ Slot(k) \in Slots
        BY <3>2, <4>1, SlotsDistinct, SlotInRange DEF TypeOK
      <4> QED BY <2>3, <2>5, <4>1, <4>2 DEF RingInv, TypeOK
    <3> QED BY <2>0, <3>1, <3>2, SMTT(30) DEF TypeOK
  <2>10. RingInv'
    BY <2>7, <2>8, <2>9 DEF RingInv
  <2> QED BY <2>1, <2>2, <2>4, <2>10
<1>5. CASE PushReturn
  <2>1. TypeOK'
    BY <1>5 DEF PushReturn, TypeOK, cvars
  <2>2. ProducerInv' /\ ConsumerInv' /\ RingInv'
    BY <1>5, SMTT(30) DEF PushReturn, TypeOK, ProducerInv, ConsumerInv, RingInv, cvars
  <2> QED BY <2>1, <2>2
<1>6. ASSUME NEW m \in 1..MaxBatch, ClaimBegin(m)
      PROVE  IInv'
  BY <1>6 DEF ClaimBegin, TypeOK, ProducerInv, ConsumerInv, RingInv, pvars
<1>7. CASE ClaimScan
  <2>1. tail + n < Len(sent)
    BY <1>0, <1>7, SMTT(30) DEF ClaimScan, Published, TypeOK, SlotType, ConsumerInv, RingInv
  <2>2. TypeOK'
    BY <1>7 DEF ClaimScan, TypeOK, pvars
  <2>3. ProducerInv' /\ ConsumerInv' /\ RingInv'
    BY <1>7, <2>1 DEF ClaimScan, TypeOK, ProducerInv, ConsumerInv, RingInv, pvars
  <2> QED BY <2>2, <2>3
<1>8. CASE ClaimScanned
  <2>1. TypeOK'
    BY <1>8 DEF ClaimScanned, TypeOK, pvars
  <2>2. ProducerInv' /\ ConsumerInv' /\ RingInv'
    BY <1>8 DEF ClaimScanned, TypeOK, ProducerInv, ConsumerInv, RingInv, pvars
  <2> QED BY <2>1, <2>2
<1>9. CASE ClaimRead
  <2>0. tail + i \in 0..Len(sent) - 1 /\ tail <= tail + i
    BY <1>9 DEF ClaimRead, TypeOK, ConsumerInv
  <2>1. buf[Slot(tail + i)].value = sent[tail + i + 1] /\ sent[tail + i + 1] \in T
    BY <2>0 DEF RingInv, TypeOK
  <2>2. got' = Append(got, sent[tail + i + 1])
    BY <1>9, <2>1 DEF ClaimRead
  <2>3. TypeOK'
    BY <1>9, <2>1, <2>2, SMTT(30) DEF ClaimRead, TypeOK, pvars
  <2>4. ProducerInv' /\ RingInv'
    BY <1>9 DEF ClaimRead, ProducerInv, RingInv, pvars
  <2>5. ConsumerInv'
    <3>1. sent[tail + i + 1] \in T /\ Len(got') = tail + i + 1
      BY <2>0, <2>2 DEF TypeOK, ConsumerInv
    <3>2. \A k \in 1..Len(got') : got'[k] = sent[k]
      BY <2>0, <2>2, <3>1 DEF TypeOK, ConsumerInv
    <3> QED BY <1>9, <2>0, <3>1, <3>2 DEF ClaimRead, TypeOK, ConsumerInv, pvars
  <2> QED BY <2>3, <2>4, <2>5
<1>10. CASE ClaimRelease
  <2>1. TypeOK'
    BY <1>10 DEF ClaimRelease, TypeOK, pvars
  <2>2. ProducerInv' /\ ConsumerInv' /\ RingInv'
    BY <1>10, SMTT(30) DEF ClaimRelease, TypeOK, ProducerInv, ConsumerInv, RingInv, pvars
  <2> QED BY <2>1, <2>2
<1>11. CASE UNCHANGED vars
  BY <1>11, ZenonT(30) DEF vars, pvars, cvars, TypeOK, ProducerInv, ConsumerInv, RingInv
<1> QED
  BY <1>1, <1>2, <1>3, <1>4, <1>5, <1>6, <1>7, <1>8, <1>9, <1>10, <1>11
  DEF Next, Producer, Consumer

\* The invariant holds throughout.
LEMMA Invariance == Spec => []IInv
<1>1. Init => IInv
  BY InitIInv
<1>2. IInv /\ [Next]_vars => IInv'
  BY NextIInv
<1> QED BY <1>1, <1>2, PTL DEF Spec

(***************************************************************************)
(* The theorems.                                                           *)
(***************************************************************************)
\* Type correctness of cursors, slots and histories.
THEOREM TypeCorrect == Spec => []TypeOK
<1>1. IInv => TypeOK
  BY DEF IInv
<1> QED BY <1>1, Invariance, PTL

\* The consumer of try_pop / consume_claim reads exactly the pushed values, in
\* order, whatever the interleaving with try_push.
THEOREM FifoCorrect == Spec => []FifoOrder
<1>1. IInv => FifoOrder
  BY DEF IInv, FifoOrder, ConsumerInv, TypeOK
<1> QED BY <1>1, Invariance, PTL

\* The payload store of try_push never touches a slot the consumer has claimed.
THEOREM RaceFree == Spec => []NoSlotRace
<1>1. IInv => NoSlotRace
  <2> SUFFICES ASSUME IInv, ppc \in {"write", "seq"}, NEW k \in 0..n - 1
               PROVE  Slot(tail + k) # Slot(head)
    BY DEF NoSlotRace
  <2>1. /\ tail + k \in Nat /\ head \in Nat
        /\ tail + k < head /\ head < (tail + k) + Capacity
    BY CapacityAssumption, SMTT(30) DEF IInv, TypeOK, ProducerInv, ConsumerInv
  <2> QED BY <2>1, SlotsDistinct
<1> QED BY <1>1, Invariance, PTL

\* At most Capacity elements are published and unreleased, and a claim stays
\* within them.
THEOREM OverrunFree == Spec => []NeverOverrun
<1>1. IInv => NeverOverrun
  BY CapacityAssumption, SMTT(30) DEF IInv, NeverOverrun, TypeOK, ConsumerInv, RingInv
<1> QED BY <1>1, Invariance, PTL

\* A push that try_push refuses found the ring really full.
THEOREM RefusalSound == Spec => RefusedOnlyWhenFull
<1>1. IInv /\ [Next]_vars
        => [ppc = "reload" /\ ppc' = "idle" => Len(sent) - tail = Capacity]_vars
  <2> SUFFICES ASSUME IInv, Next, ppc = "reload", ppc' = "idle"
               PROVE  Len(sent) - tail = Capacity
    OBVIOUS
  <2>1. PushReload
    BY DEF Next, Producer, Consumer, PushBegin, PushWrite, PushPublish, PushReturn,
           ClaimBegin, ClaimScan, ClaimScanned, ClaimRead, ClaimRelease, pvars
  <2> QED
    BY <2>1, CapacityAssumption
    DEF PushReload, IInv, TypeOK, ProducerInv, ConsumerInv, RingInv
<1> QED BY <1>1, Invariance, PTL DEF Spec, RefusedOnlyWhenFull

(***************************************************************************)
(* The ring implements the bounded queue.                                  *)
(***************************************************************************)
\* Appending to a history appends to its unreleased suffix.
LEMMA SuffixOfAppend ==
  ASSUME NEW S, NEW s \in Seq(S), NEW v \in S, NEW t \in 0..Len(s)
  PROVE  SubSeq(Append(s, v), t + 1, Len(s) + 1)
           = Append(SubSeq(s, t + 1, Len(s)), v)
<1> DEFINE a == SubSeq(Append(s, v), t + 1, Len(s) + 1)
           b == SubSeq(s, t + 1, Len(s))
<1>1. /\ Append(s, v) \in Seq(S) /\ Len(Append(s, v)) = Len(s) + 1
      /\ \A k \in 1..Len(s) : Append(s, v)[k] = s[k]
      /\ Append(s, v)[Len(s) + 1] = v
  OBVIOUS
<1>2. \A k \in t + 1 .. Len(s) + 1 : Append(s, v)[k] \in S
  BY <1>1
<1>3. /\ a \in Seq(S) /\ Len(a) = Len(s) + 1 - t
      /\ \A k \in 1..Len(s) + 1 - t : a[k] = Append(s, v)[t + k]
  BY <1>2, SubSeqProperties
<1>4. /\ b \in Seq(S) /\ Len(b) = Len(s) - t
      /\ \A k \in 1..Len(s) - t : b[k] = s[t + k]
  BY SubSeqProperties
<1> HIDE DEF a, b
<1>5. /\ Append(b, v) \in Seq(S) /\ Len(Append(b, v)) = Len(a)
      /\ \A k \in 1..Len(b) : Append(b, v)[k] = b[k]
      /\ Append(b, v)[Len(b) + 1] = v
  BY <1>3, <1>4
<1>6. ASSUME NEW k \in 1..Len(a) PROVE a[k] = Append(b, v)[k]
  <2>1. k \in 1..Len(s) + 1 - t /\ t + k \in 1..Len(s) + 1
    BY <1>3
  <2>2. a[k] = Append(s, v)[t + k]
    BY <1>3, <2>1, ZenonT(30)
  <2>3. CASE k \in 1..Len(b)
    <3>1. t + k \in 1..Len(s) /\ k \in 1..Len(s) - t
      BY <2>3, <1>4
    <3> QED BY <3>1, <2>2, <2>3, <1>1, <1>4, <1>5
  <2>4. CASE k = Len(b) + 1
    <3>1. t + k = Len(s) + 1
      BY <2>4, <1>4
    <3> QED BY <3>1, <2>2, <2>4, <1>1, <1>5
  <2> QED BY <2>1, <2>3, <2>4, <1>4
<1>7. a = Append(b, v)
  BY <1>3, <1>5, <1>6, SeqEqual, ZenonT(30)
<1> QED BY <1>7, ZenonT(30) DEF a, b

\* Moving the cursor over m elements moves them, in order, from the queue to
\* what was taken.
LEMMA PrefixGrows ==
  ASSUME NEW S, NEW s \in Seq(S), NEW g \in Seq(S), NEW t \in Nat, NEW m \in Nat,
         Len(g) = t + m, Len(g) <= Len(s), \A k \in 1..Len(g) : g[k] = s[k]
  PROVE  /\ SubSeq(g, 1, t + m)
              = SubSeq(g, 1, t) \o SubSeq(SubSeq(s, t + 1, Len(s)), 1, m)
         /\ SubSeq(s, t + m + 1, Len(s))
              = SubSeq(SubSeq(s, t + 1, Len(s)), m + 1, Len(SubSeq(s, t + 1, Len(s))))
<1> DEFINE b == SubSeq(s, t + 1, Len(s))
           h == SubSeq(g, 1, t)
           c == SubSeq(b, 1, m)
           w == SubSeq(g, 1, t + m)
           d == SubSeq(b, m + 1, Len(b))
           e == SubSeq(s, t + m + 1, Len(s))
<1>1. /\ b \in Seq(S) /\ Len(b) = Len(s) - t
      /\ \A k \in 1..Len(s) - t : b[k] = s[t + k]
  BY SubSeqProperties, SMTT(30)
<1>2. h \in Seq(S) /\ Len(h) = t /\ \A k \in 1..t : h[k] = g[k]
  BY SubSeqProperties
<1>3. w \in Seq(S) /\ Len(w) = t + m /\ \A k \in 1..t + m : w[k] = g[k]
  BY SubSeqProperties
<1>4. /\ e \in Seq(S) /\ Len(e) = Len(s) - (t + m)
      /\ \A k \in 1..Len(s) - (t + m) : e[k] = s[t + m + k]
  BY SubSeqProperties
<1> HIDE DEF b, h, w, e
<1>5. c \in Seq(S) /\ Len(c) = m /\ \A k \in 1..m : c[k] = b[k]
  BY <1>1, SubSeqProperties
<1>6. /\ d \in Seq(S) /\ Len(d) = Len(b) - m
      /\ \A k \in 1..Len(b) - m : d[k] = b[m + k]
  BY <1>1, SubSeqProperties
<1> HIDE DEF c, d
<1>7. /\ h \o c \in Seq(S) /\ Len(h \o c) = Len(h) + Len(c)
      /\ \A k \in 1..Len(h) + Len(c) :
           (h \o c)[k] = IF k <= Len(h) THEN h[k] ELSE c[k - Len(h)]
  BY <1>2, <1>5, ConcatProperties, ZenonT(30)
<1>8. ASSUME NEW k \in 1..Len(w) PROVE w[k] = (h \o c)[k]
  <2>1. k \in 1..t + m /\ w[k] = g[k] /\ g[k] = s[k]
    BY <1>3
  <2>2. (h \o c)[k] = IF k <= t THEN h[k] ELSE c[k - t]
    BY <1>2, <1>5, <1>7, <2>1
  <2>3. CASE k <= t
    BY <2>1, <2>2, <2>3, <1>2, SMTT(30)
  <2>4. CASE ~(k <= t)
    <3>1. k - t \in 1..m /\ k - t \in 1..Len(s) - t /\ t + (k - t) = k
      BY <2>1, <2>4
    <3>2. c[k - t] = b[k - t]
      BY <3>1, <1>5
    <3>3. b[k - t] = s[t + (k - t)]
      BY <3>1, <1>1
    <3> QED BY <3>1, <3>2, <3>3, <2>1, <2>2, <2>4
  <2> QED BY <2>3, <2>4, ZenonT(30)
<1>9. w = h \o c
  BY <1>2, <1>3, <1>5, <1>7, <1>8, SeqEqual
<1>10. ASSUME NEW k \in 1..Len(e) PROVE e[k] = d[k]
  <2>1. /\ k \in 1..Len(s) - (t + m) /\ k \in 1..Len(b) - m
        /\ m + k \in 1..Len(s) - t /\ t + (m + k) = t + m + k
    BY <1>1, <1>4
  <2>2. d[k] = b[m + k] /\ b[m + k] = s[t + (m + k)]
    BY <2>1, <1>1, <1>6
  <2> QED BY <2>1, <2>2, <1>4
<1>11. e = d
  <2>1. Len(e) = Len(d)
    BY <1>1, <1>4, <1>6
  <2> QED BY <2>1, <1>4, <1>6, <1>10, SeqEqual, Zenon
<1> QED BY <1>9, <1>11, ZenonT(30) DEF b, h, c, w, d, e

\* The refinement: under the mapping of module SpscRing, every behaviour of
\* the ring is a behaviour of BoundedFifo.
THEOREM RingIsFifo == Spec => ImplementsFifo
<1> DEFINE S == T \cup {NoValue}
           Q == SubSeq(sent, tail + 1, Len(sent))
           G == SubSeq(got, 1, tail)
<1>1. Init => Fifo!Init
  BY SubSeqEmpty DEF Init, Fifo!Init
<1>2. IInv /\ [Next]_vars => [Fifo!Next]_(Fifo!vars)
  <2> SUFFICES ASSUME IInv, [Next]_vars
               PROVE  [Fifo!Next]_(Fifo!vars)
    OBVIOUS
  <2>1. CASE PushPublish
    <3>1. /\ sent \in Seq(T) /\ pval \in T /\ tail \in 0..Len(sent)
          /\ sent' = Append(sent, pval) /\ Len(sent') = Len(sent) + 1
          /\ tail' = tail /\ got' = got
      BY <2>1 DEF PushPublish, IInv, TypeOK, ConsumerInv, cvars
    <3>2. Q' = Append(Q, pval)
      BY <3>1, SuffixOfAppend, ZenonT(30)
    <3>3. Len(Q) < Capacity
      <4>1. Len(Q) = Len(sent) - tail
        BY <3>1, SubSeqProperties
      <4>2. Len(sent) - tail < Capacity
        BY <2>1, CapacityAssumption, SMTT(30) DEF PushPublish, IInv, TypeOK, ProducerInv
      <4> QED BY <4>1, <4>2, ZenonT(30)
    <3>4. Fifo!Push(pval)
      BY <3>1, <3>2, <3>3, ZenonT(30) DEF Fifo!Push
    <3> QED BY <3>1, <3>4 DEF Fifo!Next
  <2>2. CASE ClaimRelease
    <3>1. /\ sent \in Seq(S) /\ got \in Seq(S) /\ tail \in Nat /\ n \in Nat \ {0}
          /\ Len(got) = tail + n /\ Len(got) <= Len(sent)
          /\ \A k \in 1..Len(got) : got[k] = sent[k]
          /\ sent' = sent /\ got' = got /\ tail' = tail + n
      BY <2>2 DEF ClaimRelease, IInv, TypeOK, ConsumerInv, pvars
    <3>2. /\ G' = G \o SubSeq(Q, 1, n)
          /\ Q' = SubSeq(Q, n + 1, Len(Q))
      BY <3>1, PrefixGrows
    <3>3. n \in 1..Len(Q)
      <4>1. Len(Q) = Len(sent) - tail
        BY <3>1, SubSeqProperties
      <4> QED BY <3>1, <4>1
    <3>4. Fifo!Take(n)
      BY <3>2, ZenonT(30) DEF Fifo!Take
    <3> QED BY <3>3, <3>4, ZenonT(30) DEF Fifo!Next
  <2>3. CASE ~PushPublish /\ ~ClaimRelease
    <3>1. sent' = sent /\ tail' = tail
      BY <2>3 DEF vars, pvars, cvars, Next, Producer, Consumer, PushBegin, PushReload,
           PushWrite, PushReturn, ClaimBegin, ClaimScan, ClaimScanned, ClaimRead
    <3>2. got' = got \/ ClaimRead
      BY <2>3 DEF vars, pvars, cvars, Next, Producer, Consumer, PushBegin, PushReload,
           PushWrite, PushReturn, ClaimBegin, ClaimScan, ClaimScanned
    <3>3. G' = G
      <4>1. CASE ClaimRead
        <5>1. PICK x \in S : got' = Append(got, x)
          BY <4>1, SlotInRange, SMTT(30) DEF ClaimRead, IInv, TypeOK, SlotType
        <5>2. got \in Seq(S) /\ tail \in 0..Len(got)
          BY DEF IInv, TypeOK, ConsumerInv
        <5>3. /\ Append(got, x) \in Seq(S)
              /\ \A k \in 1..tail : Append(got, x)[k] = got[k] /\ got[k] \in S
          BY <5>2
        <5>4. /\ G \in Seq(S) /\ Len(G) = tail
              /\ \A k \in 1..tail : G[k] = got[k]
          BY <5>2, SubSeqProperties
        <5>5. /\ G' \in Seq(S) /\ Len(G') = tail
              /\ \A k \in 1..tail : G'[k] = Append(got, x)[k]
          BY <3>1, <5>1, <5>2, <5>3, SubSeqProperties
        <5> HIDE DEF G
        <5> QED BY <5>3, <5>4, <5>5, SeqEqual, ZenonT(30)
      <4> QED BY <3>1, <3>2, <4>1, ZenonT(30)
    <3> QED BY <3>1, <3>3, ZenonT(30) DEF Fifo!vars
  <2> QED BY <2>1, <2>2, <2>3
<1> QED BY <1>1, <1>2, Invariance, PTL DEF Spec, ImplementsFifo, Fifo!Spec
=============================================================================
