----------------------------- MODULE EgressMerger -----------------------------
(***************************************************************************)
(* include/lob/egress_merger.hpp, composed with the runtime whose egress   *)
(* rings it consumes.  One thread goes round the shards, claims up to      *)
(* MergeBatch events of each and forwards them to one sink.  The           *)
(* controlling thread also starts and stops the merger.                    *)
(***************************************************************************)
EXTENDS ShardRuntime

CONSTANTS MergeBatch,       \* merger_config::batch_max, 1 when configured as 0
          MaxMergerStarts   \* bound: calls of the merger's start()

ASSUME MergerAssumption == MergeBatch \in Nat \ {0} /\ MaxMergerStarts \in Nat

VARIABLES
  merger,    \* the merger thread's control state
  mstop,     \* stop_
  joinable,  \* worker_.joinable()
  mstarts,   \* calls of start() so far
  sink,      \* events on_event has received; its seq is the position
  merged,    \* merged_
  quiet      \* history: every command was processed when stop() was called

mvars == <<merger, mstop, joinable, mstarts, sink, merged, quiet>>
vars == <<rvars, mvars>>

\* Shard s is polled next, or n of its events are claimed and k of them
\* forwarded; any says whether this round has forwarded an event, fin whether
\* it is after the stop request.
MOff == [pc |-> "off", s |-> 0, n |-> 0, k |-> 0, any |-> FALSE, fin |-> FALSE]

Init ==
  /\ RInit
  /\ merger = MOff /\ mstop = FALSE /\ joinable = FALSE /\ mstarts = 0
  /\ sink = << >> /\ merged = 0 /\ quiet = FALSE

(***************************************************************************)
(* run_ and drain_round_                                                   *)
(***************************************************************************)
\* Faulty: a round ends before its last shard.
advance_short(m, len) ==
  LET any == m.any \/ m.n > 0
  IN  IF m.s + 2 < NumShards
        THEN merger' = [m EXCEPT !.pc = "poll", !.s = @ + 1, !.n = 0, !.k = 0, !.any = any]
             /\ UNCHANGED merged
        ELSE /\ merger' = [MOff EXCEPT !.fin = m.fin,
                             !.pc = IF any THEN "poll" ELSE IF m.fin THEN "off" ELSE "check"]
             /\ merged' = IF any THEN len ELSE merged

\* On to the next shard.  A round that forwarded something stores the tally and
\* is followed by another; one that did not ends the loop it is in.
advance(m, len) ==
  LET any == m.any \/ m.n > 0
  IN  IF m.s + 1 < NumShards
        THEN merger' = [m EXCEPT !.pc = "poll", !.s = @ + 1, !.n = 0, !.k = 0, !.any = any]
             /\ UNCHANGED merged
        ELSE /\ merger' = [MOff EXCEPT !.fin = m.fin,
                             !.pc = IF any THEN "poll" ELSE IF m.fin THEN "off" ELSE "check"]
             /\ merged' = IF any THEN len ELSE merged

\* poll_batch's claim.
MPoll ==
  /\ merger.pc = "poll"
  /\ LET len == Len(egress[merger.s])
         n == IF len < MergeBatch THEN len ELSE MergeBatch
     IN  \/ /\ n > 0
            /\ merger' = [merger EXCEPT !.pc = "forward", !.n = n]
            /\ UNCHANGED merged
         \/ n = 0 /\ advance(merger, Len(sink))
  /\ UNCHANGED <<rvars, mstop, joinable, mstarts, sink, quiet>>

\* on_event for the next claimed event, in place in the ring.
MForward ==
  LET s == merger.s
  IN  /\ merger.pc = "forward" /\ merger.k < merger.n
      /\ sink' = Append(sink, <<s, egress[s][merger.k + 1]>>)
      /\ merger' = [merger EXCEPT !.k = @ + 1]
      /\ UNCHANGED <<rvars, mstop, joinable, mstarts, merged, quiet>>

\* The claim's slots are released, all at once.
MRelease ==
  /\ merger.pc = "forward" /\ merger.k = merger.n
  /\ egress' = [egress EXCEPT ![merger.s] = SubSeq(@, merger.n + 1, Len(@))]
  /\ advance(merger, Len(sink))
  /\ UNCHANGED <<ingress, worker, processed, dropped, applied, published, cvars>>
  /\ UNCHANGED <<mstop, joinable, mstarts, sink, quiet>>

\* Faulty: a stop request ends the thread without the final rounds.
MCheck_returns ==
  /\ merger.pc = "check"
  /\ merger' = IF mstop THEN MOff ELSE [merger EXCEPT !.pc = "poll"]
  /\ UNCHANGED <<rvars, mstop, joinable, mstarts, sink, merged, quiet>>

MCheck ==
  /\ merger.pc = "check"
  /\ merger' = [merger EXCEPT !.pc = "poll", !.fin = mstop]
  /\ UNCHANGED <<rvars, mstop, joinable, mstarts, sink, merged, quiet>>

Merge == MPoll \/ MForward \/ MRelease \/ MCheck

(***************************************************************************)
(* The controlling thread                                                  *)
(***************************************************************************)
MStart ==
  /\ Free /\ ~joinable /\ mstarts < MaxMergerStarts
  /\ mstop' = FALSE /\ joinable' = TRUE /\ mstarts' = mstarts + 1
  /\ merger' = [MOff EXCEPT !.pc = "poll"]
  /\ ctl' = "idle"
  /\ UNCHANGED <<ingress, worker, pushed, stop, running, next, starts, wvars>>
  /\ UNCHANGED <<sink, merged, quiet>>

MStop ==
  /\ Free /\ joinable
  /\ mstop' = TRUE /\ ctl' = "mjoining"
  /\ quiet' = (processed = pushed)
  /\ UNCHANGED <<ingress, worker, pushed, stop, running, next, starts, wvars>>
  /\ UNCHANGED <<merger, joinable, mstarts, sink, merged>>

MStopJoined ==
  /\ ctl = "mjoining"
  /\ merger.pc = "off"
  /\ joinable' = FALSE /\ ctl' = "merged"
  /\ UNCHANGED <<ingress, worker, pushed, stop, running, next, starts, wvars>>
  /\ UNCHANGED <<merger, mstop, mstarts, sink, merged, quiet>>

\* The caller goes on after the merger's stop().
MReturn ==
  /\ ctl = "merged"
  /\ ctl' = "idle"
  /\ UNCHANGED <<ingress, worker, pushed, stop, running, next, starts, wvars, mvars>>

Next ==
  \/ \E i \in Shard : Work(i) /\ UNCHANGED mvars
  \/ Control /\ UNCHANGED mvars
  \/ ~joinable /\ Destroy /\ UNCHANGED mvars  \* the merger refers to its source
  \/ Merge \/ MStart \/ MStop \/ MStopJoined \/ MReturn

\* A thread that can run keeps running; a blocked call returns once it may.
\* Nothing obliges the caller to make another call.
Fairness ==
  /\ \A i \in Shard : WF_vars(Work(i) /\ UNCHANGED mvars)
  /\ WF_vars(Merge)
  /\ WF_vars((DrainShard \/ StopJoined) /\ UNCHANGED mvars) /\ WF_vars(MStopJoined)

Spec == Init /\ [][Next]_vars /\ Fairness

(***************************************************************************)
(* Properties                                                              *)
(***************************************************************************)
FromShard(i) == SelectSeq(sink, LAMBDA e : e[1] = i)

\* Each shard's events reach the sink at most once and in the order they were
\* published, and every event is delivered, queued or counted as dropped.
ForwardedOnce ==
  \A i \in Shard :
    LET forwarded == IF merger.s = i THEN merger.k ELSE 0
        seen == [k \in 1..Len(FromShard(i)) |-> FromShard(i)[k][2]]
                  \o SubSeq(egress[i], forwarded + 1, Len(egress[i]))
    IN  /\ \A j, k \in 1..Len(seen) : j < k => seen[j] < seen[k]
        /\ Len(seen) + dropped[i] = published[i]

\* egress_merger.hpp: quiesce the runtime, then stop() the merger, and "no
\* already-published event is left behind"; merged() is then the full count.
NothingLeftBehind ==
  ctl = "merged" => /\ quiet => \A i \in Shard : egress[i] = << >>
                    /\ merged = Len(sink)

\* A published event is forwarded, unless the caller stops the merger first.
EventuallyForwarded ==
  \A i \in Shard : (joinable /\ egress[i] # << >>) ~> (egress[i] = << >> \/ ~joinable)

\* Every blocking call returns.  drain(), while the workers run, after a restart
\* too.  The runtime's stop(): each worker sees the request and finishes.  The
\* merger's stop(), once the workers have nothing left to publish (MaxCmds sees
\* to that): run_ looks at the flag only after an empty round.
CallsReturn ==
  /\ ctl = "draining" /\ running ~> ctl = "drained"
  /\ ctl = "joining" ~> ctl = "stopped"
  /\ ctl = "mjoining" ~> ctl = "merged"
===============================================================================
