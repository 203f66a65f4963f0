------------------------------ MODULE FreeStack -------------------------------
(***************************************************************************)
(* What arena.hpp promises the engine: a stack of free slots, and for each *)
(* slot a generation that every allocation and deallocation moves on.      *)
(***************************************************************************)
EXTENDS Integers, Sequences

CONSTANTS Capacity, GenWrap

VARIABLES free, gen

Slot == 0 .. Capacity - 1

Init == free = [k \in 1..Capacity |-> k - 1] /\ gen = [i \in Slot |-> 0]

Touch(i) == gen' = [gen EXCEPT ![i] = (@ + 1) % GenWrap]

Allocate == free # << >> /\ free' = Tail(free) /\ Touch(Head(free))

Deallocate(i) ==
  /\ \A k \in 1..Len(free) : free[k] # i
  /\ free' = <<i>> \o free /\ Touch(i)

Next == Allocate \/ \E i \in Slot : Deallocate(i)

Spec == Init /\ [][Next]_<<free, gen>>
===============================================================================
