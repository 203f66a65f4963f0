--------------------------- MODULE MCEngineSnapshot ---------------------------
(***************************************************************************)
(* EngineSnapshot for TLC, in both forms of the engine: order_lookup by_id *)
(* with its index, and by_handle with slot generations.  A behaviour is    *)
(* one engine's, of one of the two.                                        *)
(***************************************************************************)
EXTENDS Integers, TLC

CONSTANTS Ticks, Slot, None, Id, NoId, Account, MaxQty, SeqWrap, Policies, Throttles,
          Damages, MaxAge,
          Generations   \* modulus of the generations of the by_handle engine

VARIABLES book, hs, cfg, pc, call, out, buf, taken, age, outcome,
          lookup   \* "by_id" or "by_handle"

ById == INSTANCE EngineSnapshot WITH ByHandle <- FALSE, GenWrap <- 1, UniqueIds <- TRUE
Handles == INSTANCE EngineSnapshot WITH ByHandle <- TRUE, GenWrap <- Generations,
             UniqueIds <- TRUE, Throttles <- {TRUE}, SeqWrap <- 1, Damages <- {"px"}

Init ==
  \/ lookup = "by_id" /\ ById!SInit
  \/ lookup = "by_handle" /\ Handles!SInit

Next ==
  /\ UNCHANGED lookup
  /\ \/ lookup = "by_id" /\ ById!SNext
     \/ lookup = "by_handle" /\ Handles!SNext

Spec == Init /\ [][Next]_<<ById!svars, lookup>>

Symmetry == Permutations(Id) \cup Permutations(Slot)

\* A snapshot that is whole and undamaged, and no other, restores, and the
\* restored engine is the one it was taken of; a failed restore leaves an
\* engine as empty as a new one.
RestoreExact ==
  [][IF lookup = "by_id" THEN ById!RestoreStep ELSE Handles!RestoreStep]_<<ById!svars, lookup>>

\* Caches, slots, index and last top stay exact in a restored engine in use.
RestoredConsistent ==
  IF lookup = "by_id" THEN ById!RestoredConsistent ELSE Handles!RestoredConsistent

\* Of all the handles a caller may hold, from before or after a restore, those
\* that resolve are exactly the ones of orders that rest: the handle a submit
\* or a modify returns names its order, and a slot that was freed, by whichever
\* path, has a generation no handle was issued for.
HandlesExact ==
  lookup = "by_handle" => Handles!HandleNamesOrder /\ Handles!LiveGenerations
===============================================================================
