----------------------------- MODULE MCComponents -----------------------------
(***************************************************************************)
(* The containers and leaf algorithms of include/lob, each checked on its  *)
(* own: a behaviour chooses one of them at the start and leaves the others *)
(* in an initial state.                                                    *)
(***************************************************************************)
EXTENDS SpscRing, ShardStamps

CONSTANTS Ticks, W, None,
          Id, Val, Cap, Homes, Nil,
          ArenaCapacity, GenWrap, Null, Object,
          MaxBody, Defects, MaxChunk

VARIABLES
  part,                                                          \* the one chosen
  tier,                                                          \* HierBitmap
  home, ready, slots, size, pc, hole, j,                         \* IdIndex
  bytes, generations, free_head, in_use, freelist_built, held,   \* SlabArena
  msgs, wire, fbuf, cmds, err                                    \* FixStream

Bitmap == INSTANCE HierBitmap
Index == INSTANCE IdIndex
Arena == INSTANCE SlabArena WITH Capacity <- ArenaCapacity
Fix == INSTANCE FixStream WITH sent <- msgs, buf <- fbuf, got <- cmds

ASSUME Bitmap!BitmapAssumption /\ Bitmap!FourTiers
ASSUME Index!IndexAssumption

Parts == {"ring", "stamps", "bitmap", "index", "arena", "fix"}

\* A part that is not chosen keeps one of its initial states.
MCInit ==
  /\ part \in Parts
  /\ Init
  /\ StInit /\ (part # "stamps" => hash = [x \in Symbol |-> 0])
  /\ Bitmap!Init
  /\ Index!Init /\ (part # "index" => home = [k \in Id |-> 0])
  /\ Arena!AInit
  /\ part # "arena" => bytes = [s \in Arena!Slot |-> Null]
                       /\ generations = [s \in Arena!Slot |-> 0]
  /\ IF part = "fix" THEN Fix!FInit
     ELSE msgs = << >> /\ wire = << >> /\ fbuf = << >> /\ cmds = << >> /\ err = "incomplete"

ivars == <<home, ready, slots, size, pc, hole, j>>
avars == <<bytes, generations, free_head, in_use, freelist_built, held>>
fvars == <<msgs, wire, fbuf, cmds, err>>
mcvars == <<vars, stvars, tier, ivars, avars, fvars, part>>

RingStep(A) == part = "ring" /\ A
             /\ UNCHANGED <<stvars, tier, ivars, avars, fvars, part>>

MCNext ==
  \/ RingStep(Next)
  \/ /\ part = "stamps" /\ StNext
     /\ UNCHANGED <<vars, tier, ivars, avars, fvars, part>>
  \/ /\ part = "bitmap" /\ Bitmap!Next
     /\ UNCHANGED <<vars, stvars, ivars, avars, fvars, part>>
  \/ /\ part = "index" /\ Index!Next
     /\ UNCHANGED <<vars, stvars, tier, avars, fvars, part>>
  \/ /\ part = "arena" /\ Arena!ANext
     /\ UNCHANGED <<vars, stvars, tier, ivars, fvars, part>>
  \/ /\ part = "fix" /\ Fix!FNext
     /\ UNCHANGED <<vars, stvars, tier, ivars, avars, part>>

\* SpscRing's fairness; nothing is asked of the other parts.
MCFairness ==
  /\ WF_mcvars(RingStep(Consumer))
  /\ WF_mcvars(RingStep(PushReload \/ PushWrite \/ PushPublish \/ PushReturn))

MCSpec == MCInit /\ [][MCNext]_mcvars /\ MCFairness

(***************************************************************************)
(* The properties of the instances; those of the ring and of the stamps    *)
(* are checked under their own names.  A part that is not chosen maps to   *)
(* the initial state of what it implements.                                *)
(***************************************************************************)
\* bitmap.hpp: the tiered searches answer what the set of populated prices does.
QueriesExact == part = "bitmap" => Bitmap!QueriesExact

\* id_index.hpp: lookup finds every entry and nothing else, whatever was moved.
LookupExact == part = "index" => Index!LookupExact

\* id_index.hpp: the table, its deletions taken iteration by iteration, is a map.
Map == INSTANCE IdMap WITH
         map <- IF part = "index" THEN Index!contents ELSE [k \in Id |-> Nil]
ImplementsMap == Map!Spec

\* arena.hpp: a generation is odd exactly while its slot is held.
GenerationTellsHeld == part = "arena" => Arena!GenerationTellsHeld

\* arena.hpp: the links in the free slots' storage are a stack of them.
Stack == INSTANCE FreeStack WITH
           Capacity <- ArenaCapacity,
           free <- IF part = "arena" THEN Arena!FreeChain ELSE [k \in 1..ArenaCapacity |-> k - 1],
           gen <- [s \in Arena!Slot |-> Arena!generation(s)]
ImplementsFreeStack == Stack!Spec

\* fix_parser.hpp: however the stream is cut, the commands sent come out.
StreamExact == part = "fix" => Fix!StreamExact

\* fix_parser.hpp: incomplete is said only while bytes are still to come.
WaitsOnlyForMore == part = "fix" => Fix!WaitsOnlyForMore
===============================================================================
