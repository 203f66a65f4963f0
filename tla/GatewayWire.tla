------------------------------ MODULE GatewayWire -----------------------------
(***************************************************************************)
(* apps/gateway/wire.hpp: the engine behind the gateway's wire protocol.   *)
(* A wire_order is validated, decoded into a command and run, and the      *)
(* events the command published are summarised in one wire_ack.            *)
(*                                                                         *)
(* front says who drives the engine: an in-process caller, with Engine's   *)
(* own commands, or the gateway.  The clients keep their resting ids       *)
(* unique, as messages.hpp asks; apply_order does not check that.          *)
(***************************************************************************)
EXTENDS Engine

CONSTANTS Fronts,      \* who drives the engine: "direct", "gateway"
          EmptyId      \* 2^64 - 1, the empty-slot sentinel of id_index

VARIABLES front, wo    \* wo: the wire_order being applied

wvars == <<book, hs, cfg, pc, call, out, front, wo>>

NoWire == [op |-> 3, id |-> NoId, px |-> 0, new_px |-> 0, qty |-> 0, side |-> 0, tif |-> 0]

\* What may arrive: the fields an op reads range past their valid values, the
\* others are zero.
Ids == Id \cup {NoId, EmptyId}
WireOrder ==
  [op : {0}, id : Ids, px : 0 .. Ticks, new_px : {0}, qty : 0 .. MaxQty + 1,
   side : {0, 1}, tif : 0 .. 3]
  \cup [op : {1, 3}, id : Ids, px : {0}, new_px : {0}, qty : {0}, side : {0}, tif : {0}]
  \cup [op : {2}, id : Ids, px : {0}, new_px : 0 .. Ticks, qty : 0 .. MaxQty + 1,
        side : {0}, tif : {0}]

valid_order_id(id) == id # NoId /\ id # EmptyId

validate_order(w) ==
  /\ valid_order_id(w.id)
  /\ w.op <= 2
  /\ w.op = 0 => w.px < Ticks /\ w.qty > 0 /\ w.qty <= MaxQty /\ w.tif <= 2
  /\ w.op = 2 => w.new_px < Ticks /\ w.qty > 0 /\ w.qty <= MaxQty

tif_of(w) == CASE w.tif = 0 -> "gtc" [] w.tif = 1 -> "ioc" [] w.tif = 2 -> "fok"

Decoded(w) ==
  \/ w.op = 0 /\ Submit([id |-> w.id, px |-> w.px, qty |-> w.qty,
                         s |-> IF w.side = 0 THEN "bid" ELSE "ask",
                         t |-> tif_of(w), account |-> 0])
  \/ w.op = 1 /\ Cancel(w.id, NoHandle)
  \/ w.op = 2 /\ Modify([id |-> w.id, new_px |-> w.new_px, new_qty |-> w.qty,
                         new_id |-> NoId, handle |-> NoHandle])

Apply(w) ==
  /\ front = "gateway" /\ validate_order(w)
  /\ Decoded(w)
  /\ wo' = w

\* A refused record never reaches the engine.
Refuse(w) ==
  /\ front = "gateway" /\ pc = "idle" /\ ~validate_order(w)
  /\ pc' = "done" /\ call' = Named("refused", w.id)
  /\ UNCHANGED <<book, hs, cfg, out, wo>>

\* accum_pub, from the events of the command.
pub ==
  FoldLeft(LAMBDA p, e : CASE e.k = "fill"   -> [p EXCEPT !.filled = @ + e.qty, !.last_px = e.px]
                           [] e.k = "reject" -> [p EXCEPT !.rejected = TRUE]
                           [] OTHER          -> p,
           [filled |-> 0, last_px |-> 0, rejected |-> FALSE], out)

\* Faulty: every unfilled submit is accepted, whatever its tif.
submit_status_accepts == IF pub.filled > 0 THEN "filled" ELSE "accepted"

submit_status ==
  IF pub.filled > 0 THEN "filled" ELSE IF wo.tif # 0 THEN "killed" ELSE "accepted"

\* The wire_ack apply_order leaves, once the command is done.
ack ==
  IF call.kind = "refused" THEN [filled |-> 0, last_px |-> 0, status |-> "rejected"]
  ELSE [filled  |-> pub.filled,
        last_px |-> pub.last_px,
        status  |-> IF pub.rejected THEN "rejected"
                    ELSE IF wo.op = 0 THEN submit_status ELSE "processed"]

\* The ack goes out and the next record is taken.
Reply == Return /\ wo' = NoWire /\ UNCHANGED front

WInit == Init /\ front \in Fronts /\ wo = NoWire

WNext ==
  \/ front = "direct" /\ Next /\ UNCHANGED <<front, wo>>
  \/ \E w \in WireOrder : (Apply(w) \/ Refuse(w)) /\ UNCHANGED front
  \/ front = "gateway" /\ (MatchStep \/ FinishSubmit) /\ UNCHANGED <<front, wo>>
  \/ front = "gateway" /\ Reply

WSpec == WInit /\ [][WNext]_wvars

\* What rests under the id of the record being applied.
Rests == {o \in Linked : book.ord[o].id = wo.id}
RestsAs(px, qty) ==
  \A o \in Rests : book.ord[o].px = px /\ book.ord[o].remaining = qty

\* wire.hpp on wire_ack: a client may act on the status alone.  "accepted" has
\* the whole order resting at its price, "filled" accounts for every unit as
\* traded, resting or (ioc only) dropped, "killed" and "rejected" executed and
\* rest nothing, a processed cancel leaves nothing, and a processed modify that
\* found its order leaves what it asked for less what traded; last_px is the
\* price of a trade that satisfies the order.
AckTruthful ==
  front = "gateway" /\ pc = "done" /\ call.kind # "refused" =>
    LET want == IF wo.op = 2 THEN wo.new_px ELSE wo.px
        left == wo.qty - ack.filled
    IN  /\ ack.filled > 0 => ~Better(call.m.s, ack.last_px, want)
        /\ ack.status = "accepted" => Rests # {} /\ ack.filled = 0 /\ RestsAs(want, wo.qty)
        /\ ack.status = "filled" =>
             /\ ack.filled > 0 /\ left >= 0 /\ RestsAs(want, left)
             /\ Rests = {} <=> (left = 0 \/ wo.tif # 0)
             /\ wo.tif = 2 => left = 0
        /\ ack.status \in {"killed", "rejected"} => Rests = {} /\ ack.filled = 0
        /\ ack.status = "processed" =>
             IF wo.op = 1 \/ call.kind = "missing" THEN Rests = {} /\ ack.filled = 0
             ELSE RestsAs(want, left) /\ (Rests = {} <=> left = 0)
===============================================================================
