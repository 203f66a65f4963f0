----------------------------- MODULE BoundedFifo -----------------------------
(***************************************************************************)
(* What a bounded single-producer / single-consumer queue promises: the    *)
(* producer adds one element at the back while there is room, the consumer *)
(* removes a run of elements from the front, and the concatenation of      *)
(* everything removed is what was added, in order.  SpscRing implements    *)
(* it; ShardRuntime uses it in place of the ring.                          *)
(***************************************************************************)
EXTENDS Naturals, Sequences

CONSTANTS Capacity,   \* number of elements the queue can hold
          T           \* the elements

VARIABLES q,          \* what is queued
          taken       \* everything removed so far, oldest first

vars == <<q, taken>>

Init ==
  /\ q = << >>
  /\ taken = << >>

Push(v) ==
  /\ Len(q) < Capacity
  /\ q' = Append(q, v)
  /\ UNCHANGED taken

Take(n) ==
  /\ taken' = taken \o SubSeq(q, 1, n)
  /\ q' = SubSeq(q, n + 1, Len(q))

Next ==
  \/ \E v \in T : Push(v)
  \/ \E n \in 1..Len(q) : Take(n)

Spec == Init /\ [][Next]_vars
=============================================================================
