------------------------------- MODULE IdIndex --------------------------------
(***************************************************************************)
(* include/lob/id_index.hpp: the open-addressed index from order ids to    *)
(* orders, with linear probing and backward-shift deletion.                *)
(*                                                                         *)
(* splitmix64(id) & mask_ is an arbitrary function from ids to buckets,    *)
(* fixed when the index is built.  A probe is the first slot that answers  *)
(* it; the deletion loop is taken one iteration at a time.                 *)
(***************************************************************************)
EXTENDS Integers, FiniteSets

CONSTANTS Id, Val,
          Cap,    \* slots, mask_ + 1
          Homes,  \* the buckets ids may hash to
          Nil     \* the empty key, and nullptr

\* A power of two, so half of it is exact; keys and values tell a slot apart.
IndexAssumption ==
  /\ Cap \in Nat /\ Cap >= 2 /\ Cap % 2 = 0 /\ Homes \subseteq 0..Cap - 1
  /\ Nil \notin Id /\ Nil \notin Val

VARIABLES
  home,   \* splitmix64(id) & mask_
  ready,  \* storage_initialised_
  slots, size,
  pc,     \* "idle", or "shift" inside shift_back_from_
  hole, j \* its two cursors

vars == <<home, ready, slots, size, pc, hole, j>>

Bucket == 0 .. Cap - 1
wrap(i) == i % Cap
Vacant == [key |-> Nil, val |-> Nil]

Init ==
  /\ home \in [Id -> Homes]
  /\ ready = FALSE /\ slots = [i \in Bucket |-> Vacant] /\ size = 0
  /\ pc = "idle" /\ hole = 0 /\ j = 0

\* Where the probe for k stops: at k, or at the first empty slot.
probe(k) ==
  LET at(d) == wrap(home[k] + d)
      hit(d) == slots[at(d)].key \in {k, Nil}
  IN  at(CHOOSE d \in Bucket : hit(d) /\ \A e \in 0..d - 1 : ~hit(e))

lookup(k) == IF ~ready \/ slots[probe(k)].key = Nil THEN Nil ELSE slots[probe(k)].val

\* insert, whose load-factor assertion the engine's slot count guarantees; a
\* key already present is overwritten.
insert(k, v) ==
  /\ pc = "idle" /\ size < Cap \div 2
  /\ ready' = TRUE
  /\ slots' = [slots EXCEPT ![probe(k)] = [key |-> k, val |-> v]]
  /\ size' = IF slots[probe(k)].key = Nil THEN size + 1 ELSE size
  /\ UNCHANGED <<home, pc, hole, j>>

\* take, and erase: a hit enters shift_back_from_, a miss changes nothing.
take(k) ==
  /\ pc = "idle" /\ ready /\ slots[probe(k)].key = k
  /\ pc' = "shift" /\ hole' = probe(k) /\ j' = wrap(probe(k) + 1)
  /\ size' = size - 1
  /\ UNCHANGED <<home, ready, slots>>

\* Faulty: distances are compared without wrapping.
closer_unwrapped(i, k) == i >= home[k] /\ i < j

\* The hole lies on the probe path of the entry at j.
closer(i, k) == wrap(i - home[k] + Cap) < wrap(j - home[k] + Cap)

\* Faulty: the hole moves on before the entry is copied into it.
shift_swapped ==
  /\ pc = "shift" /\ slots[j].key # Nil
  /\ hole' = IF closer(hole, slots[j].key) THEN j ELSE hole
  /\ j' = wrap(j + 1)
  /\ UNCHANGED <<home, ready, slots, size, pc>>

\* One iteration over an occupied slot.
shift ==
  /\ pc = "shift" /\ slots[j].key # Nil
  /\ IF closer(hole, slots[j].key)
       THEN slots' = [slots EXCEPT ![hole] = slots[j]] /\ hole' = j
       ELSE UNCHANGED <<slots, hole>>
  /\ j' = wrap(j + 1)
  /\ UNCHANGED <<home, ready, size, pc>>

\* An empty slot ends the chain: the hole is emptied.
shift_end ==
  /\ pc = "shift" /\ slots[j].key = Nil
  /\ slots' = [slots EXCEPT ![hole] = Vacant]
  /\ pc' = "idle" /\ hole' = 0 /\ j' = 0
  /\ UNCHANGED <<home, ready, size>>

clear ==
  /\ pc = "idle"
  /\ slots' = [i \in Bucket |-> Vacant] /\ size' = 0
  /\ UNCHANGED <<home, ready, pc, hole, j>>

Next ==
  \/ \E k \in Id : take(k) \/ (\E v \in Val : insert(k, v))
  \/ shift \/ shift_end \/ clear

Spec == Init /\ [][Next]_vars

(***************************************************************************)
(* Properties                                                              *)
(***************************************************************************)
\* The slots that hold an entry: while one is being deleted, the hole's old
\* content is not one.
Entry == {i \in Bucket : slots[i].key # Nil /\ ~(pc = "shift" /\ i = hole)}

\* The map the slots stand for.
contents ==
  [k \in Id |-> IF \E i \in Entry : slots[i].key = k
                  THEN slots[CHOOSE i \in Entry : slots[i].key = k].val ELSE Nil]

\* Between calls, lookup finds every entry and nothing else, wherever earlier
\* deletions have moved the entries.  size_ counts them, and at most half of the
\* table is ever full, so a probe and the deletion loop meet an empty slot.
LookupExact ==
  /\ pc = "idle" => \A k \in Id : lookup(k) = contents[k]
  /\ size = Cardinality(Entry) /\ size <= Cap \div 2

\* The table, its deletions taken iteration by iteration, is a map.
Map == INSTANCE IdMap WITH map <- contents
ImplementsMap == Map!Spec
===============================================================================
