----------------------------- MODULE MCGatewayWire ----------------------------
(***************************************************************************)
(* Instances of GatewayWire for TLC.  Slots are interchangeable, and so are*)
(* ids.                                                                    *)
(***************************************************************************)
EXTENDS GatewayWire, TLC

Symmetry == Permutations(Slot) \cup Permutations(Id)
===============================================================================
