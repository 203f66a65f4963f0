------------------------------- MODULE MCEngine -------------------------------
(***************************************************************************)
(* Instances of Engine for TLC.  Slots are interchangeable, and so are ids.*)
(***************************************************************************)
EXTENDS Engine, TLC

Symmetry == Permutations(Slot) \cup Permutations(Id)
===============================================================================
