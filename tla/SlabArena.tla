------------------------------ MODULE SlabArena -------------------------------
(***************************************************************************)
(* include/lob/arena.hpp: a slab of slots whose free ones are linked       *)
(* through their own storage.  The list and the generations are built by   *)
(* the first allocate(); until then their memory holds anything.  A caller *)
(* writes an object over the link of a slot it gets, and gives back only   *)
(* slots it has.                                                           *)
(***************************************************************************)
EXTENDS Integers, Sequences, FiniteSets

CONSTANTS Capacity, GenWrap,  \* GenWrap: the modulus of a generation
          Null, Object        \* nullptr, and the bytes of a live object

VARIABLES
  bytes,        \* per slot: what its first word holds
  generations,  \* generations_
  free_head, in_use, freelist_built,
  held          \* history: the slots callers have

avars == <<bytes, generations, free_head, in_use, freelist_built, held>>

Slot == 0 .. Capacity - 1

AInit ==
  /\ bytes \in [Slot -> {Null, Object}]
  /\ generations \in [Slot -> {0, 1}]
  /\ free_head = Null /\ in_use = 0 /\ freelist_built = FALSE
  /\ held = {}

Chained == [i \in Slot |-> IF i + 1 < Capacity THEN i + 1 ELSE Null]

\* Faulty: the generations keep what the memory held.
init_freelist_dirty == [bytes |-> Chained, gens |-> generations, head |-> 0]

\* init_freelist_, as the first allocate finds things.
init_freelist == [bytes |-> Chained, gens |-> [i \in Slot |-> 0], head |-> 0]

\* The list allocate works on.
list == IF freelist_built THEN [bytes |-> bytes, gens |-> generations, head |-> free_head]
        ELSE init_freelist

bump(g) == (g + 1) % GenWrap

\* allocate; the caller then builds its object in the slot.
allocate ==
  LET l == list
      s == l.head
  IN  /\ freelist_built' = TRUE
      /\ IF s = Null
           THEN /\ bytes' = l.bytes /\ generations' = l.gens /\ free_head' = Null
                /\ UNCHANGED <<in_use, held>>
           ELSE /\ free_head' = l.bytes[s]
                /\ bytes' = [l.bytes EXCEPT ![s] = Object]
                /\ generations' = [l.gens EXCEPT ![s] = bump(@)]
                /\ in_use' = in_use + 1
                /\ held' = held \cup {s}

\* Faulty: the head moves without the old head being stored in the slot.
deallocate_unlinked(p) ==
  /\ p \in held
  /\ bytes' = [bytes EXCEPT ![p] = Null]
  /\ generations' = [generations EXCEPT ![p] = bump(@)]
  /\ free_head' = p /\ in_use' = in_use - 1 /\ held' = held \ {p}
  /\ UNCHANGED freelist_built

deallocate(p) ==
  /\ p \in held
  /\ bytes' = [bytes EXCEPT ![p] = free_head]
  /\ generations' = [generations EXCEPT ![p] = bump(@)]
  /\ free_head' = p /\ in_use' = in_use - 1 /\ held' = held \ {p}
  /\ UNCHANGED freelist_built

ANext == allocate \/ \E p \in Slot : deallocate(p)

ASpec == AInit /\ [][ANext]_avars

generation(i) == IF freelist_built THEN generations[i] ELSE 0
full == in_use = Capacity
empty == in_use = 0

(***************************************************************************)
(* Properties                                                              *)
(***************************************************************************)
\* The slots reached from the head, in order; a chain that runs through an
\* object or round a loop is cut after Capacity slots.
FreeChain ==
  LET l == list
      at[n \in 1..Capacity + 1] ==
        IF n = 1 THEN l.head
        ELSE IF at[n - 1] \in Slot THEN l.bytes[at[n - 1]] ELSE Null
      len == Cardinality({n \in 1..Capacity + 1 : \A k \in 1..n : at[k] \in Slot})
  IN  [n \in 1..len |-> at[n]]

\* The links in the storage are a stack of the slots nobody holds.
Stack == INSTANCE FreeStack WITH free <- FreeChain, gen <- [i \in Slot |-> generation(i)]
ImplementsFreeStack == Stack!Spec

\* A generation is odd exactly while the slot is held, from before the first
\* allocation on and round the wrap of the counter; and full() and empty() say
\* what allocate will do and whether every slot is back.
GenerationTellsHeld ==
  /\ \A i \in Slot : (generation(i) % 2 = 1) <=> (i \in held)
  /\ full <=> (FreeChain = << >>)
  /\ empty <=> (held = {})
===============================================================================
