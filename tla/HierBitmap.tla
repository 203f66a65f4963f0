------------------------------ MODULE HierBitmap ------------------------------
(***************************************************************************)
(* include/lob/bitmap.hpp: the populated-price bitmap with up to three     *)
(* summary tiers.  A tier is the set of its set bits; word i of a tier is  *)
(* its bits i*W .. i*W + W-1.  Bit b of tier t + 1 stands for word b of    *)
(* tier t.                                                                 *)
(***************************************************************************)
EXTENDS Integers, FiniteSetsExt

CONSTANTS Ticks,
          W,    \* bits per word, 64 in the code
          None  \* std::nullopt

\* What the template asks of its parameters.
BitmapAssumption == Ticks \in Nat \ {0} /\ W \in Nat /\ W >= 2 /\ None \notin Int

ceildiv(a, b) == (a + b - 1) \div b

\* L0_W .. L3_W: words per tier, 0 for a tier the ladder does not need.
L0_W == ceildiv(Ticks, W)
L1_W == IF L0_W > 1 THEN ceildiv(L0_W, W) ELSE 0
L2_W == IF L1_W > 1 THEN ceildiv(L1_W, W) ELSE 0
L3_W == IF L2_W > 1 THEN ceildiv(L2_W, W) ELSE 0
Words(t) == CASE t = 0 -> L0_W [] t = 1 -> L1_W [] t = 2 -> L2_W [] t = 3 -> L3_W
Used == {t \in 0..3 : Words(t) > 0}
Top == Max(Used)

\* The class's static_assert.
FourTiers == L3_W <= 1

VARIABLE tier

\* clear_all, and the value-initialised words.
Init == tier = [t \in 0..3 |-> {}]

Bit == 0 .. Ticks - 1
\* The bit of tier t that covers bit b of tier 0.
up(t, b) == b \div W^t
word(t, i) == {b \in tier[t] : b \div W = i}

set(b) == tier' = [t \in 0..3 |-> IF t \in Used THEN tier[t] \cup {up(t, b)} ELSE tier[t]]

\* A summary bit goes when every word below it has become empty.
clear(b) ==
  LET goes[t \in 0..3] ==
        t = 0 \/ (goes[t - 1] /\ word(t - 1, up(t, b)) \subseteq {up(t - 1, b)})
  IN  tier' = [t \in 0..3 |-> IF t \in Used /\ goes[t] THEN tier[t] \ {up(t, b)} ELSE tier[t]]

clear_all == tier' = [t \in 0..3 |-> {}]

Next == (\E b \in Bit : set(b) \/ clear(b)) \/ clear_all

Spec == Init /\ [][Next]_tier

(***************************************************************************)
(* Queries                                                                 *)
(***************************************************************************)
\* countr_zero and countl_zero name a word's lowest and highest bit; an empty
\* word would give W for both.
lowest(t, i) == IF word(t, i) = {} THEN i * W + W ELSE Min(word(t, i))
highest(t, i) == IF word(t, i) = {} THEN i * W - 1 ELSE Max(word(t, i))

empty == word(Top, 0) = {}

\* From bit i of tier t down to tier 0, at each tier the word's end bit.
down_low(t, i) ==
  LET d[u \in 0..3, n \in Int] == IF u = 0 THEN n ELSE d[u - 1, lowest(u - 1, n)]
  IN  d[t, i]
down_high(t, i) ==
  LET d[u \in 0..3, n \in Int] == IF u = 0 THEN n ELSE d[u - 1, highest(u - 1, n)]
  IN  d[t, i]

lowest_set == IF empty THEN None ELSE down_low(Top, lowest(Top, 0))
highest_set == IF empty THEN None ELSE down_high(Top, highest(Top, 0))

\* Faulty: the search resumes in the word it has already left.
next_set_from_word(start) ==
  LET seek[t \in 0..3, pos \in Int] ==
        LET masked == {b \in word(t, pos \div W) : b >= pos}
        IN  CASE masked # {} -> down_low(t, Min(masked))
              [] masked = {} /\ t + 1 \in Used /\ pos \div W + 1 < Words(t) -> seek[t + 1, pos \div W]
              [] OTHER -> None
  IN  IF start >= Ticks THEN None ELSE seek[0, start]

\* Probe the word from pos on; failing that, the next words through the tier
\* above, as long as there is one.
next_set_at_or_after(start) ==
  LET seek[t \in 0..3, pos \in Int] ==
        LET masked == {b \in word(t, pos \div W) : b >= pos}
        IN  CASE masked # {} -> down_low(t, Min(masked))
              [] masked = {} /\ t + 1 \in Used /\ pos \div W + 1 < Words(t) -> seek[t + 1, pos \div W + 1]
              [] OTHER -> None
  IN  IF start >= Ticks THEN None ELSE seek[0, start]

prev_set_at_or_before(start) ==
  LET seek[t \in 0..3, pos \in Int] ==
        LET masked == {b \in word(t, pos \div W) : b <= pos}
        IN  CASE masked # {} -> down_high(t, Max(masked))
              [] masked = {} /\ t + 1 \in Used /\ pos \div W > 0 -> seek[t + 1, pos \div W - 1]
              [] OTHER -> None
  IN  IF empty THEN None ELSE seek[0, IF start >= Ticks THEN Ticks - 1 ELSE start]

(***************************************************************************)
(* Properties                                                              *)
(***************************************************************************)
MaxOrNone(S) == IF S = {} THEN None ELSE Max(S)
MinOrNone(S) == IF S = {} THEN None ELSE Min(S)

\* What recompute_best_ asks, the ends of the populated set, and what the FOK
\* walk asks, the nearest populated price in either direction from any start,
\* one past the ladder included: the tiered searches answer what the set does.
QueriesExact ==
  /\ lowest_set = MinOrNone(tier[0]) /\ highest_set = MaxOrNone(tier[0])
  /\ \A s \in 0..Ticks :
       /\ next_set_at_or_after(s) = MinOrNone({b \in tier[0] : b >= s})
       /\ prev_set_at_or_before(s) = MaxOrNone({b \in tier[0] : b <= s})
===============================================================================
