--------------------------- MODULE ShardStampsProofs --------------------------
(***************************************************************************)
(* Stamps tell the events of a kind apart over all shards, for every       *)
(* number of shards, width of range, set of symbols and hash.              *)
(***************************************************************************)
EXTENDS ShardStamps, TLAPS

\* The range of a shard ends where the next begins, and lies below the wrap.
LEMMA RangesApart ==
  ASSUME NEW i \in Shard, NEW j \in Shard, i < j
  PROVE  i * SeqRange + SeqRange <= j * SeqRange
<1>1. i + 1 <= j /\ i \in Nat /\ j \in Nat /\ SeqRange \in Nat
  BY StampAssumption DEF Shard
<1>2. (i + 1) * SeqRange <= j * SeqRange
  BY <1>1, SMTT(30)
<1>3. (i + 1) * SeqRange = i * SeqRange + SeqRange
  BY <1>1, SMTT(30)
<1> QED
  BY <1>1, <1>2, <1>3

\* A range is within the counter's width, so shard_seq_base loses no bits.
LEMMA RangeFits ==
  ASSUME NEW i \in Shard
  PROVE  /\ i * SeqRange \in Nat /\ SeqWrap \in Nat
         /\ i * SeqRange + SeqRange <= SeqWrap
         /\ shard_seq_base(i) = i * SeqRange
<1>1. i \in Nat /\ i + 1 <= NumShards /\ SeqRange \in Nat \ {0} /\ NumShards \in Nat \ {0}
  BY StampAssumption DEF Shard
<1>2. i * SeqRange \in Nat /\ SeqWrap \in Nat
  BY <1>1, SMTT(30) DEF SeqWrap
<1>3. (i + 1) * SeqRange <= NumShards * SeqRange
  BY <1>1, SMTT(30)
<1>4. (i + 1) * SeqRange = i * SeqRange + SeqRange
  BY <1>1, SMTT(30)
<1>5. i * SeqRange + SeqRange <= SeqWrap
  BY <1>3, <1>4 DEF SeqWrap
<1>6. 0 <= i * SeqRange /\ i * SeqRange < SeqWrap
  BY <1>1, <1>2, <1>5
<1>7. \A a, w \in Nat : a < w => a % w = a
  BY SMTT(30)
<1>8. (i * SeqRange) % SeqWrap = i * SeqRange
  BY <1>2, <1>6, <1>7
<1>9. NumShards <= 1 => i * SeqRange = 0
  <2> SUFFICES ASSUME NumShards <= 1 PROVE i * SeqRange = 0
    OBVIOUS
  <2>1. i = 0
    BY <1>1
  <2> QED BY <2>1, <1>1, SMTT(30)
<1> QED
  BY <1>2, <1>5, <1>8, <1>9 DEF shard_seq_base

Stamped == [shard : Shard, sym : Symbol,
            kind : {"fill", "trade", "self_trade", "reject", "top"}, seq : Nat]

\* Every engine's counter is inside its own range, and its events bear numbers
\* of that range up to the counter, each number new or a trade's after its fill.
StampInv ==
  /\ hash \in [Symbol -> Shard]
  /\ seq \in [Shard -> Nat]
  /\ \A i \in Shard : i * SeqRange <= seq[i] /\ seq[i] < i * SeqRange + SeqRange
  /\ stamps \in Seq(Stamped)
  /\ \A k \in 1..Len(stamps) : /\ stamps[k].shard * SeqRange < stamps[k].seq
                               /\ stamps[k].seq <= seq[stamps[k].shard]
  /\ \A j, k \in 1..Len(stamps) : j < k /\ stamps[j].shard = stamps[k].shard =>
       \/ stamps[j].seq < stamps[k].seq
       \/ /\ stamps[j].seq = stamps[k].seq /\ stamps[j].sym = stamps[k].sym
          /\ stamps[j].kind = "fill" /\ stamps[k].kind = "trade"

\* Numbers of two shards differ.
LEMMA StampTellsShard ==
  ASSUME StampInv, NEW j \in 1..Len(stamps), NEW k \in 1..Len(stamps),
         stamps[j].seq = stamps[k].seq
  PROVE  stamps[j].shard = stamps[k].shard
<1> DEFINE e == stamps[j]
           f == stamps[k]
<1>1. e \in Stamped /\ f \in Stamped
  BY DEF StampInv
<1>2. e.shard \in Shard /\ f.shard \in Shard /\ e.seq \in Nat /\ f.seq \in Nat /\ e.seq = f.seq
  BY <1>1 DEF Stamped
<1>3. /\ e.shard * SeqRange < e.seq /\ e.seq <= seq[e.shard]
      /\ f.shard * SeqRange < f.seq /\ f.seq <= seq[f.shard]
  BY DEF StampInv
<1>4. /\ seq[e.shard] \in Nat /\ seq[e.shard] < e.shard * SeqRange + SeqRange
      /\ seq[f.shard] \in Nat /\ seq[f.shard] < f.shard * SeqRange + SeqRange
  BY <1>2 DEF StampInv
<1> HIDE DEF e, f
<1>5. e.shard * SeqRange \in Nat /\ f.shard * SeqRange \in Nat
  BY <1>2, RangeFits
<1>6. ~(e.shard < f.shard)
  <2>1. e.shard < f.shard => e.shard * SeqRange + SeqRange <= f.shard * SeqRange
    BY <1>2, RangesApart
  <2> QED BY <2>1, <1>2, <1>3, <1>4, <1>5, StampAssumption
<1>7. ~(f.shard < e.shard)
  <2>1. f.shard < e.shard => f.shard * SeqRange + SeqRange <= e.shard * SeqRange
    BY <1>2, RangesApart
  <2> QED BY <2>1, <1>2, <1>3, <1>4, <1>5, StampAssumption
<1> QED BY <1>2, <1>6, <1>7 DEF Shard, e, f

\* What concatenation keeps and adds.
LEMMA Appended ==
  ASSUME NEW S, NEW s \in Seq(S), NEW u \in Seq(S)
  PROVE  /\ s \o u \in Seq(S) /\ Len(s \o u) = Len(s) + Len(u)
         /\ \A k \in 1..Len(s) : (s \o u)[k] = s[k]
         /\ \A k \in 1..(Len(s) + Len(u)) : k > Len(s) =>
              k - Len(s) \in 1..Len(u) /\ (s \o u)[k] = u[k - Len(s)]
<1>1. Len(s) \in Nat /\ Len(u) \in Nat /\ s \o u \in Seq(S)
  OBVIOUS
<1>2. Len(s \o u) = Len(s) + Len(u)
  OBVIOUS
<1>3. \A k \in 1..Len(s) : (s \o u)[k] = s[k]
  BY <1>1
<1>4. ASSUME NEW k \in 1..(Len(s) + Len(u)), k > Len(s)
      PROVE  k - Len(s) \in 1..Len(u) /\ (s \o u)[k] = u[k - Len(s)]
  BY <1>1, <1>4
<1> QED BY <1>1, <1>2, <1>3, <1>4

\* A publication appends events of one shard under the next number of its range.
LEMMA PublishKeepsInv ==
  ASSUME StampInv, NEW sym \in Symbol, NEW kinds \in Publications, Publish(sym, kinds)
  PROVE  StampInv'
<1> DEFINE i == hash[sym]
           n == seq[i] + 1
           new == [k \in 1..Len(kinds) |->
                     [shard |-> i, sym |-> sym, kind |-> kinds[k], seq |-> n]]
<1>1. i \in Shard /\ seq[i] \in Nat /\ i * SeqRange \in Nat /\ SeqWrap \in Nat
  BY RangeFits DEF StampInv
<1>2. n < i * SeqRange + SeqRange /\ i * SeqRange <= seq[i]
  BY <1>1 DEF StampInv, Publish, shard_index
<1>3. n \in Nat /\ n < SeqWrap /\ i * SeqRange < n
  BY <1>1, <1>2, RangeFits, StampAssumption
<1>4. \A a, w \in Nat : a < w => a % w = a
  BY SMTT(30)
<1>5. n % SeqWrap = n
  BY <1>1, <1>3, <1>4
<1>6. hash' = hash /\ seq' = [seq EXCEPT ![i] = n] /\ stamps' = stamps \o new
  BY <1>5 DEF Publish, shard_index
<1>7. \/ kinds = <<"fill", "trade">> /\ Len(kinds) = 2
      \/ Len(kinds) = 1 /\ kinds[1] \in {"self_trade", "reject", "top"}
  BY DEF Publications
<1>8. \A k \in 1..Len(kinds) : kinds[k] \in {"fill", "trade", "self_trade", "reject", "top"}
  BY <1>7
<1>9. new \in Seq(Stamped) /\ Len(new) = Len(kinds)
  BY <1>1, <1>3, <1>7, <1>8 DEF Stamped
<1>10. \A k \in 1..Len(new) : /\ new[k].shard = i /\ new[k].sym = sym
                              /\ new[k].seq = n /\ new[k].kind = kinds[k]
  BY <1>9
<1>11. /\ stamps' \in Seq(Stamped) /\ Len(stamps') = Len(stamps) + Len(new)
       /\ \A k \in 1..Len(stamps) : stamps'[k] = stamps[k]
       /\ \A k \in 1..Len(stamps') : k > Len(stamps) =>
            k - Len(stamps) \in 1..Len(new) /\ stamps'[k] = new[k - Len(stamps)]
  <2> HIDE DEF new
  <2>1. stamps \in Seq(Stamped)
    BY DEF StampInv
  <2>2. /\ stamps \o new \in Seq(Stamped) /\ Len(stamps \o new) = Len(stamps) + Len(new)
        /\ \A k \in 1..Len(stamps) : (stamps \o new)[k] = stamps[k]
        /\ \A k \in 1..(Len(stamps) + Len(new)) : k > Len(stamps) =>
             k - Len(stamps) \in 1..Len(new) /\ (stamps \o new)[k] = new[k - Len(stamps)]
    BY <2>1, <1>9, Appended
  <2> QED BY <2>2, <1>6, Zenon
<1>12. seq'[i] = n /\ \A j \in Shard : seq'[j] \in Nat /\ seq[j] \in Nat /\ seq[j] <= seq'[j]
  BY <1>1, <1>3, <1>6 DEF StampInv
<1> HIDE DEF new, n
<1>13. \A k \in 1..Len(stamps') :
         \/ k \in 1..Len(stamps) /\ stamps'[k] = stamps[k]
         \/ /\ k > Len(stamps) /\ stamps'[k].shard = i /\ stamps'[k].seq = n
            /\ stamps'[k].sym = sym /\ stamps'[k].kind = kinds[k - Len(stamps)]
  <2> TAKE k \in 1..Len(stamps')
  <2>1. Len(stamps) \in Nat
    BY DEF StampInv
  <2>2. CASE k > Len(stamps)
    BY <2>2, <1>10, <1>11
  <2>3. CASE ~(k > Len(stamps))
    BY <2>1, <2>3, <1>11
  <2> QED BY <2>2, <2>3
<1>14. \A k \in 1..Len(stamps) : stamps[k].shard \in Shard /\ stamps[k].seq \in Nat
  <2>1. \A k \in 1..Len(stamps) : stamps[k] \in Stamped
    BY DEF StampInv
  <2> QED BY <2>1 DEF Stamped
<1>15. \A k \in 1..Len(stamps') : /\ stamps'[k].shard * SeqRange < stamps'[k].seq
                                  /\ stamps'[k].seq <= seq'[stamps'[k].shard]
  <2> TAKE k \in 1..Len(stamps')
  <2>1. CASE k \in 1..Len(stamps) /\ stamps'[k] = stamps[k]
    <3>1. /\ stamps[k].shard * SeqRange < stamps[k].seq
          /\ stamps[k].seq <= seq[stamps[k].shard]
      BY <2>1 DEF StampInv
    <3>2. seq[stamps[k].shard] <= seq'[stamps[k].shard]
      BY <2>1, <1>12, <1>14
    <3>3. seq[stamps[k].shard] \in Nat /\ seq'[stamps[k].shard] \in Nat /\ stamps[k].seq \in Nat
      BY <2>1, <1>12, <1>14
    <3>4. stamps[k].seq <= seq'[stamps[k].shard]
      BY <3>1, <3>2, <3>3
    <3> QED BY <2>1, <3>1, <3>4
  <2>2. CASE stamps'[k].shard = i /\ stamps'[k].seq = n
    BY <2>2, <1>3, <1>12
  <2> QED BY <2>1, <2>2, <1>13
<1>16. ASSUME NEW j \in 1..Len(stamps'), NEW k \in 1..Len(stamps'), j < k,
              stamps'[j].shard = stamps'[k].shard
       PROVE  \/ stamps'[j].seq < stamps'[k].seq
              \/ /\ stamps'[j].seq = stamps'[k].seq /\ stamps'[j].sym = stamps'[k].sym
                 /\ stamps'[j].kind = "fill" /\ stamps'[k].kind = "trade"
  <2>1. CASE k \in 1..Len(stamps)
    <3>1. j \in 1..Len(stamps) /\ stamps'[j] = stamps[j] /\ stamps'[k] = stamps[k]
      BY <2>1, <1>11, <1>16 DEF StampInv
    <3> QED BY <2>1, <3>1, <1>16 DEF StampInv
  <2>2. CASE j \in 1..Len(stamps) /\ k > Len(stamps)
    <3>1. stamps'[j] = stamps[j] /\ stamps[j].shard = i /\ stamps'[k].seq = n
      BY <2>2, <1>11, <1>13, <1>16 DEF StampInv
    <3>2. stamps[j].seq <= seq[i] /\ stamps[j].seq \in Nat
      BY <2>2, <3>1, <1>14 DEF StampInv
    <3>3. stamps[j].seq < n
      BY <3>2, <1>1 DEF n
    <3> QED BY <3>1, <3>3
  <2>3. CASE j > Len(stamps)
    <3>1. Len(stamps) \in Nat /\ k > Len(stamps) /\ Len(kinds) = 2
      BY <2>3, <1>7, <1>9, <1>11, <1>16 DEF StampInv
    <3>2. j - Len(stamps) = 1 /\ k - Len(stamps) = 2
      BY <2>3, <3>1, <1>9, <1>11, <1>16
    <3>3. kinds[1] = "fill" /\ kinds[2] = "trade"
      BY <3>1, <1>7
    <3> QED BY <2>3, <3>1, <3>2, <3>3, <1>13
  <2> QED BY <2>1, <2>2, <2>3 DEF StampInv
<1>17. \A j \in Shard : j * SeqRange <= seq'[j] /\ seq'[j] < j * SeqRange + SeqRange
  BY <1>1, <1>2, <1>3, <1>6 DEF StampInv
<1>18. hash' \in [Symbol -> Shard] /\ seq' \in [Shard -> Nat]
  BY <1>3, <1>6 DEF StampInv
<1> QED
  BY <1>11, <1>15, <1>16, <1>17, <1>18 DEF StampInv

\* hash.hpp, shard_seq_base, and engine.hpp, ++state_.seq: stamps tell the events
\* of a kind apart over all shards, and those of a shard never go back, while no
\* shard has used up its range.
THEOREM StampsCorrect == StSpec => []StampsUnique
<1>1. StInit => StampInv
  <2> SUFFICES ASSUME StInit PROVE StampInv
    OBVIOUS
  <2>1. \A i \in Shard : seq[i] = i * SeqRange /\ i * SeqRange \in Nat
    BY RangeFits DEF StInit
  <2>2. seq \in [Shard -> Nat]
    BY <2>1 DEF StInit
  <2>3. \A i \in Shard : i * SeqRange <= seq[i] /\ seq[i] < i * SeqRange + SeqRange
    BY <2>1, StampAssumption
  <2>4. stamps \in Seq(Stamped) /\ Len(stamps) = 0
    BY DEF StInit
  <2> QED
    BY <2>2, <2>3, <2>4 DEF StInit, StampInv
<1>2. StampInv /\ [StNext]_stvars => StampInv'
  <2>1. CASE UNCHANGED stvars
    BY <2>1 DEF StampInv, stvars
  <2>2. ASSUME StampInv, NEW sym \in Symbol, Dispatch(sym) PROVE StampInv'
    BY <2>2, PublishKeepsInv DEF Dispatch
  <2> QED BY <2>1, <2>2 DEF StNext
<1>3. StampInv => StampsUnique
  <2> SUFFICES ASSUME StampInv, NEW j \in 1..Len(stamps), NEW k \in 1..Len(stamps), j < k
               PROVE  /\ stamps[j].seq = stamps[k].seq =>
                           /\ stamps[j].sym = stamps[k].sym
                           /\ stamps[j].kind = "fill" /\ stamps[k].kind = "trade"
                      /\ stamps[j].shard = stamps[k].shard => stamps[j].seq <= stamps[k].seq
    BY DEF StampsUnique, StampInv
  <2>1. stamps[j].seq \in Nat /\ stamps[k].seq \in Nat
    <3>1. stamps[j] \in Stamped /\ stamps[k] \in Stamped
      BY DEF StampInv
    <3> QED BY <3>1 DEF Stamped
  <2>2. stamps[j].seq = stamps[k].seq => stamps[j].shard = stamps[k].shard
    BY StampTellsShard
  <2> QED BY <2>1, <2>2 DEF StampInv
<1> QED
  BY <1>1, <1>2, <1>3, PTL DEF StSpec
===============================================================================
