------------------------------- MODULE Loadgen --------------------------------
(***************************************************************************)
(* apps/loadgen/main.cpp: the program that drives the whole pipeline, the  *)
(* runtime's workers and the merger, from its main thread.  It saturates   *)
(* the shards with pairs of an ask and an ioc bid, drains, and then sends  *)
(* pairs one at a time, waiting for each fill to come back (closed loop),  *)
(* or on a schedule (open loop).  With --direct no merger runs and the     *)
(* main thread takes the events itself.                                    *)
(*                                                                         *)
(* On a shard the commands alternate, and so do their events: a top for    *)
(* the ask, then a fill, a trade and a top for the bid.                    *)
(***************************************************************************)
EXTENDS EgressMerger, FiniteSets

CONSTANTS Symbols,       \* num_symbols
          PairsChoices,  \* orders / 2 of the throughput phase
          LatPairs,      \* lat_pairs
          PollBatch, PollInterval

VARIABLES
  main,   \* the main thread: control state and loop counters
  args,   \* the options: direct, load and the pairs to send
  route   \* shard_index_for(sym)

lvars == <<main, args, route>>
allvars == <<vars, lvars>>

\* at is where poll_all returns to, s the shard it visits, n what it has taken;
\* base is what had been pushed to each shard when stamping began.
LInit ==
  /\ Init
  /\ main = [pc |-> "start", i |-> 0, leg |-> "ask", at |-> "none", s |-> 0, n |-> 0,
             prev |-> 0, base |-> [i \in Shard |-> 0]]
  /\ args \in [direct : BOOLEAN, load : {"closed", "open"}, pairs : PairsChoices]
  /\ route \in [0..Symbols - 1 -> Shard]

(***************************************************************************)
(* The sink                                                                *)
(***************************************************************************)
IsFill(e) == e[2] % 4 = 2
Fills == {k \in 1..Len(sink) : IsFill(sink[k])}

\* latency_sink::samples: fills of bids that were stamped.  Two commands of a
\* shard publish four events.
Samples == Cardinality({k \in Fills : sink[k][2] > 2 * main.base[sink[k][1]]})

\* Events the engine publishes for a shard's n-th command.
EventsOf(n) == IF n % 2 = 1 THEN 1 ELSE 3

LWork(i) ==
  /\ Work(i) /\ UNCHANGED <<mvars, lvars>>
  /\ \A k \in Len(applied[i]) + 1..Len(applied'[i]) : worker'[i].left = EventsOf(applied'[i][k])

LMerge == Merge /\ UNCHANGED lvars

(***************************************************************************)
(* The main thread                                                         *)
(***************************************************************************)
go(from, to) == main.pc = from /\ main' = [main EXCEPT !.pc = to] /\ UNCHANGED <<args, route>>
local == UNCHANGED vars

LStart == Start /\ UNCHANGED mvars /\ go("start", IF args.direct THEN "check" ELSE "mstart")
LMStart == MStart /\ go("mstart", "check")

\* An open loop has nothing to scale on when the first phase is empty: the
\* exception unwinds through the destructors of the merger and the runtime.
Check == local /\ go("check", IF args.load = "open" /\ args.pairs = 0 THEN "unwind" ELSE "fire")

\* One try_submit that is not refused, of the ask or the bid of pair i.
PushLeg(after) ==
  /\ Push(route[main.i % Symbols]) /\ UNCHANGED <<mvars, args, route>>
  /\ main' = IF main.leg = "ask" THEN [main EXCEPT !.leg = "bid", !.prev = Samples]
             ELSE [after EXCEPT !.leg = "ask"]

\* Phase 1: every pair at full rate.  The direct client polls as it goes.
Fire ==
  /\ main.pc = "fire" /\ main.i < args.pairs
  /\ PushLeg(IF args.direct /\ main.i % PollInterval = 0
               THEN [main EXCEPT !.i = @ + 1, !.pc = "poll", !.at = "fire"]
               ELSE [main EXCEPT !.i = @ + 1])

\* poll_all: up to PollBatch events of every shard in turn.
PollShard ==
  LET e == egress[main.s]
      k == IF Len(e) < PollBatch THEN Len(e) ELSE PollBatch
      n == main.n + k
      ended == main.s + 1 = NumShards
  IN  /\ main.pc = "poll"
      /\ sink' = sink \o [j \in 1..k |-> <<main.s, e[j]>>]
      /\ egress' = [egress EXCEPT ![main.s] = SubSeq(@, k + 1, Len(@))]
      /\ main' = [main EXCEPT !.s = IF ended THEN 0 ELSE @ + 1, !.n = IF ended THEN 0 ELSE n,
                              !.pc = IF ~ended THEN "poll"
                                     ELSE IF main.at = "last" /\ n = 0 THEN "stop"
                                     ELSE IF main.at = "last" THEN "poll" ELSE main.at]
      /\ UNCHANGED <<ingress, worker, cvars, processed, dropped, applied, published>>
      /\ UNCHANGED <<merger, mstop, joinable, mstarts, merged, quiet, args, route>>

CallPoll(from) ==
  /\ args.direct /\ main.pc = from
  /\ main' = [main EXCEPT !.pc = "poll", !.at = from]
  /\ UNCHANGED <<vars, args, route>>

DrainOnce == main.i = args.pairs /\ Drain /\ UNCHANGED mvars /\ go("fire", "draining")
LDrain == main.pc \in {"draining", "ending"} /\ DrainShard /\ UNCHANGED <<mvars, lvars>>
Drained == ctl = "drained" /\ local /\ go("draining", "backlog")

\* Faulty: the latency phase begins with the rings as they are.
NoBacklog_unread ==
  /\ main.pc = "backlog"
  /\ main' = [main EXCEPT !.pc = "stamp"]
  /\ UNCHANGED <<vars, args, route>>

\* egress_backlog is 0 on every shard.  The workers are idle after the drain,
\* so the shards may be waited for together.
NoBacklog ==
  /\ main.pc = "backlog"
  /\ \A i \in Shard : egress[i] = << >>
  /\ main' = [main EXCEPT !.pc = "stamp"]
  /\ UNCHANGED <<vars, args, route>>

Backlog == (\E i \in Shard : egress[i] # << >>) /\ CallPoll("backlog")

\* Stamping begins.  The open loop needs a delivered fill to size its rate on.
Stamp ==
  /\ main.pc = "stamp"
  /\ main' = [main EXCEPT !.pc = IF args.load = "open" /\ Fills = {} THEN "unwind" ELSE "latency",
                          !.i = 0, !.base = pushed]
  /\ UNCHANGED <<vars, args, route>>

\* Phase 2.  The open loop goes on at once, or polls until the next pair is due.
Latency ==
  /\ main.pc = "latency" /\ main.i < LatPairs
  /\ PushLeg([main EXCEPT !.i = @ + 1, !.pc = IF args.load = "closed" THEN "await" ELSE "latency"])

Wait == args.load = "open" /\ main.i < LatPairs /\ main.leg = "ask" /\ CallPoll("latency")

Unsampled == Samples = main.prev /\ CallPoll("await")
Sampled == main.pc = "await" /\ Samples # main.prev /\ local /\ go("await", "latency")

\* Faulty: the merger is stopped, or the direct client leaves, before the drain.
EndPhases_no_drain ==
  /\ main.i = LatPairs /\ local
  /\ go("latency", IF args.direct THEN "stop" ELSE "mstop")

\* The phases are over: rt.drain() again.
EndPhases == main.i = LatPairs /\ Drain /\ UNCHANGED mvars /\ go("latency", "ending")

\* Then the rest of the events: poll until nothing comes, or the merger's stop().
TakeRest ==
  /\ main.pc = "ending" /\ ctl = "drained"
  /\ main' = IF args.direct THEN [main EXCEPT !.pc = "poll", !.at = "last"]
             ELSE [main EXCEPT !.pc = "mstop"]
  /\ UNCHANGED <<vars, args, route>>

LMStop == \E from \in {"mstop", "unwind"} :
            joinable /\ MStop /\ go(from, IF from = "mstop" THEN "mjoin" ELSE "munwind")
LMJoined == main.pc \in {"mjoin", "munwind"} /\ MStopJoined /\ UNCHANGED lvars
LMReturn == \/ MReturn /\ go("mjoin", "stop")
            \/ MReturn /\ go("munwind", "unwind")

\* rt.stop(), and the report; or the end of the unwinding.
LStop == \/ Stop /\ UNCHANGED mvars /\ go("stop", "join")
         \/ ~joinable /\ Stop /\ UNCHANGED mvars /\ go("unwind", "failing")
LJoined == \/ StopJoined /\ UNCHANGED mvars /\ go("join", "report")
           \/ StopJoined /\ UNCHANGED mvars /\ go("failing", "failed")

MainStep ==
  \/ LStart \/ LMStart \/ Check \/ Fire \/ PollShard \/ DrainOnce \/ LDrain \/ Drained
  \/ NoBacklog \/ Backlog \/ Stamp \/ Latency \/ Sampled \/ Unsampled
  \/ EndPhases \/ TakeRest \/ LMStop \/ LMJoined \/ LMReturn \/ LStop \/ LJoined

LNext == MainStep \/ Wait \/ LMerge \/ \E i \in Shard : LWork(i)

\* Every thread runs.  The open loop's wait for a pair's due time ends.
LFairness ==
  /\ WF_allvars(MainStep) /\ WF_allvars(LMerge) /\ SF_allvars(Latency)
  /\ \A i \in Shard : WF_allvars(LWork(i))

LSpec == LInit /\ [][LNext]_allvars /\ LFairness

(***************************************************************************)
(* Properties                                                              *)
(***************************************************************************)
\* The program comes to its report: the closed loop never waits for a fill
\* that a full egress ring dropped, since the backlog of the saturated phase
\* is taken first and one pair in flight fits in a ring.
LoadgenReports ==
  <>(main.pc \in {"report", "failed"})

\* What it reports is whole: every event published was counted or dropped, and
\* the closed loop has one sample per pair of its phase.
ReportWhole ==
  main.pc = "report" =>
    /\ Len(sink) + Total(dropped) = Total(published)
    /\ args.load = "closed" => Samples = LatPairs
===============================================================================
