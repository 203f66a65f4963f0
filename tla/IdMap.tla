-------------------------------- MODULE IdMap ---------------------------------
(***************************************************************************)
(* What id_index.hpp promises the engine: a partial map from order ids to  *)
(* orders, changed in one step by each operation.                          *)
(***************************************************************************)
CONSTANTS Id, Val, Nil

VARIABLE map

Init == map = [k \in Id |-> Nil]

Insert(k, v) == map' = [map EXCEPT ![k] = v]
Erase(k) == map[k] # Nil /\ map' = [map EXCEPT ![k] = Nil]
Clear == map' = [k \in Id |-> Nil]

Next ==
  \/ \E k \in Id : Erase(k) \/ (\E v \in Val : Insert(k, v))
  \/ Clear

Spec == Init /\ [][Next]_map
===============================================================================
