----------------------------- MODULE ShardRuntime -----------------------------
(***************************************************************************)
(* include/lob/shard_worker.hpp, shard_runtime.hpp and                     *)
(* shard_egress_runtime.hpp: one worker thread per shard drains an ingress *)
(* ring of commands into its engine and publishes events into an egress    *)
(* ring (ring_publisher.hpp).  One controlling thread starts the workers,  *)
(* pushes commands, drains and stops.                                      *)
(*                                                                         *)
(* A ring is the sequence of its unreleased elements, as SpscRing shows it *)
(* to be.  Commands and events of a shard are numbered from 1 in the order *)
(* they are pushed or published.  A command publishes up to MaxEvents      *)
(* events, at the engine's choice.                                         *)
(***************************************************************************)
EXTENDS Integers, Sequences, SequencesExt

CONSTANTS NumShards,
          InCap, OutCap,   \* ring capacities
          Batch,           \* commands per claim, 64 in drive_shard
          MaxEvents,       \* events one command may publish
          MaxCmds, MaxStarts, \* bounds: commands pushed, calls of start()
          ThreadFailures   \* whether creating a thread may fail

ASSUME RuntimeAssumption ==
  /\ NumShards \in Nat \ {0} /\ InCap \in Nat \ {0} /\ OutCap \in Nat \ {0}
  /\ Batch \in Nat \ {0} /\ MaxEvents \in Nat /\ MaxCmds \in Nat /\ MaxStarts \in Nat
  /\ ThreadFailures \in BOOLEAN

VARIABLES
  ingress, egress,   \* per shard, the ring contents
  pushed,            \* the controller's count of accepted commands
  processed,         \* the count each worker has published
  dropped,           \* ring_publisher's loss counter
  worker,            \* per shard, the worker's control state
  stop, running,     \* stop_, running_
  ctl,               \* what the controlling thread is doing, or has just done
  next,              \* the shard drain() is waiting for
  starts,            \* calls of start() so far
  applied,           \* history: commands applied by each engine, in order
  published          \* history: events each engine has published

\* What only the controlling thread writes, and what only the workers write.
cvars == <<pushed, stop, running, ctl, next, starts>>
wvars == <<egress, processed, dropped, applied, published>>
rvars == <<ingress, worker, cvars, wvars>>

Shard == 0 .. NumShards - 1
Total(f) == FoldLeft(LAMBDA sum, i : sum + f[i - 1], 0, [i \in 1..NumShards |-> i])

\* n commands claimed, k of them applied, left events of the last one still to
\* publish; done is the running total, fin the drain after the stop request.
Off == [pc |-> "off", n |-> 0, k |-> 0, left |-> 0, done |-> 0, fin |-> FALSE, m |-> 0]

RInit ==
  /\ ingress = [i \in Shard |-> << >>] /\ egress = [i \in Shard |-> << >>]
  /\ pushed = [i \in Shard |-> 0] /\ processed = [i \in Shard |-> 0]
  /\ dropped = [i \in Shard |-> 0] /\ worker = [i \in Shard |-> Off]
  /\ stop = FALSE /\ running = FALSE /\ ctl = "idle" /\ next = 0 /\ starts = 0
  /\ applied = [i \in Shard |-> << >>] /\ published = [i \in Shard |-> 0]

(***************************************************************************)
(* drive_shard                                                             *)
(***************************************************************************)
claimable(i) == IF Len(ingress[i]) < Batch THEN Len(ingress[i]) ELSE Batch

\* Faulty: the count is published when the batch is claimed.
WClaim_counts(i) ==
  LET w == worker[i]
  IN  /\ w.pc = "claim" /\ claimable(i) > 0
      /\ worker' = [worker EXCEPT ![i] = [w EXCEPT !.pc = "apply", !.n = claimable(i), !.k = 0]]
      /\ processed' = [processed EXCEPT ![i] = w.done + claimable(i)]
      /\ UNCHANGED <<ingress, egress, dropped, applied, published, cvars>>

\* consume_claim: the scan's last look at the ring fixes the batch.
WClaim(i) ==
  LET w == worker[i]
  IN  /\ w.pc = "claim" /\ claimable(i) > 0
      /\ worker' = [worker EXCEPT ![i] = [w EXCEPT !.pc = "apply", !.n = claimable(i), !.k = 0]]
      /\ UNCHANGED <<ingress, cvars, wvars>>

\* An empty claim: look at the stop flag, or, in the final drain, publish what
\* it applied and return.
WEmpty(i) ==
  LET w == worker[i]
  IN  /\ w.pc = "claim" /\ claimable(i) = 0
      /\ worker' = [worker EXCEPT ![i] =
                      CASE ~w.fin -> [w EXCEPT !.pc = "check"]
                        [] w.fin /\ w.m > 0 -> [w EXCEPT !.pc = "publish", !.done = @ + w.m]
                        [] w.fin /\ w.m = 0 -> Off]
      /\ UNCHANGED <<ingress, cvars, wvars>>

\* apply_batch applies the next command of the claim, in place in the ring.
WApply(i) ==
  LET w == worker[i]
  IN  /\ w.pc = "apply" /\ w.left = 0 /\ w.k < w.n
      /\ applied' = [applied EXCEPT ![i] = Append(@, ingress[i][w.k + 1])]
      /\ \E e \in 0..MaxEvents :
           worker' = [worker EXCEPT ![i] = [w EXCEPT !.k = @ + 1, !.left = e]]
      /\ UNCHANGED <<ingress, egress, processed, dropped, published, cvars>>

\* Faulty: a full ring loses the event without counting it.
WEmit_silent(i) ==
  LET w == worker[i]
  IN  /\ w.pc = "apply" /\ w.left > 0
      /\ published' = [published EXCEPT ![i] = @ + 1]
      /\ egress' = IF Len(egress[i]) < OutCap
                     THEN [egress EXCEPT ![i] = Append(@, published[i] + 1)] ELSE egress
      /\ worker' = [worker EXCEPT ![i] = [w EXCEPT !.left = @ - 1]]
      /\ UNCHANGED <<ingress, processed, dropped, applied, cvars>>

\* ring_publisher::push_, from inside the engine: a full ring drops the event.
WEmit(i) ==
  LET w == worker[i]
  IN  /\ w.pc = "apply" /\ w.left > 0
      /\ published' = [published EXCEPT ![i] = @ + 1]
      /\ \/ /\ Len(egress[i]) < OutCap
            /\ egress' = [egress EXCEPT ![i] = Append(@, published[i] + 1)]
            /\ UNCHANGED dropped
         \/ /\ Len(egress[i]) = OutCap
            /\ dropped' = [dropped EXCEPT ![i] = @ + 1]
            /\ UNCHANGED egress
      /\ worker' = [worker EXCEPT ![i] = [w EXCEPT !.left = @ - 1]]
      /\ UNCHANGED <<ingress, processed, applied, cvars>>

\* Faulty: the cursor is one short of the batch.
WRelease_short(i) ==
  LET w == worker[i]
  IN  /\ w.pc = "apply" /\ w.left = 0 /\ w.k = w.n
      /\ ingress' = [ingress EXCEPT ![i] = SubSeq(@, IF w.n > 1 THEN w.n ELSE 2, Len(@))]
      /\ worker' = [worker EXCEPT ![i] =
                      IF w.fin THEN [w EXCEPT !.pc = "claim", !.m = @ + w.n]
                      ELSE [w EXCEPT !.pc = "publish", !.done = @ + w.n]]
      /\ UNCHANGED <<cvars, wvars>>

\* The claim's single release store, after the whole batch.
WRelease(i) ==
  LET w == worker[i]
  IN  /\ w.pc = "apply" /\ w.left = 0 /\ w.k = w.n
      /\ ingress' = [ingress EXCEPT ![i] = SubSeq(@, w.n + 1, Len(@))]
      /\ worker' = [worker EXCEPT ![i] =
                      IF w.fin THEN [w EXCEPT !.pc = "claim", !.m = @ + w.n]
                      ELSE [w EXCEPT !.pc = "publish", !.done = @ + w.n]]
      /\ UNCHANGED <<cvars, wvars>>

\* processed.store, and the end of the thread after the final drain.
WPublish(i) ==
  LET w == worker[i]
  IN  /\ w.pc = "publish"
      /\ processed' = [processed EXCEPT ![i] = w.done]
      /\ worker' = [worker EXCEPT ![i] = IF w.fin THEN Off ELSE [w EXCEPT !.pc = "claim"]]
      /\ UNCHANGED <<ingress, egress, dropped, applied, published, cvars>>

\* Faulty: a stop request ends the worker without the final drain.
WCheck_returns(i) ==
  /\ worker[i].pc = "check"
  /\ worker' = [worker EXCEPT ![i] = IF stop THEN Off ELSE [@ EXCEPT !.pc = "claim"]]
  /\ UNCHANGED <<ingress, cvars, wvars>>

\* Faulty: the stop flag is never looked at.
WCheck_never(i) ==
  /\ worker[i].pc = "check"
  /\ worker' = [worker EXCEPT ![i].pc = "claim"]
  /\ UNCHANGED <<ingress, cvars, wvars>>

\* Drain once more if stop was requested, else idle and retry.
WCheck(i) ==
  /\ worker[i].pc = "check"
  /\ worker' = [worker EXCEPT ![i] = [@ EXCEPT !.pc = "claim", !.fin = stop]]
  /\ UNCHANGED <<ingress, cvars, wvars>>

Work(i) ==
  \/ WClaim(i) \/ WEmpty(i) \/ WApply(i) \/ WEmit(i)
  \/ WRelease(i) \/ WPublish(i) \/ WCheck(i)

(***************************************************************************)
(* The controlling thread                                                  *)
(***************************************************************************)
Free == ctl \in {"idle", "drained", "stopped"}

\* start(), only while stopped: the workers before shard n are spawned.  Its
\* loop assigns over the members of workers_, so none may still be joinable.
Spawn(n) ==
  /\ Free /\ ~running /\ starts < MaxStarts
  /\ \A i \in Shard : worker[i].pc = "off"
  /\ stop' = FALSE /\ ctl' = "idle" /\ starts' = starts + 1
  /\ worker' = [i \in Shard |-> IF i < n THEN [Off EXCEPT !.pc = "claim", !.done = processed[i]]
                                ELSE Off]
  /\ UNCHANGED <<ingress, pushed, next, wvars>>

Start == Spawn(NumShards) /\ running' = TRUE

\* The thread constructor throws part of the way: running_ is not reached.
StartFails == ThreadFailures /\ (\E n \in Shard : Spawn(n)) /\ UNCHANGED running

\* enqueue_ onto a ring with room; a refused push changes nothing.
Push(i) ==
  /\ Free /\ Total(pushed) < MaxCmds
  /\ Len(ingress[i]) < InCap
  /\ ingress' = [ingress EXCEPT ![i] = Append(@, pushed[i] + 1)]
  /\ pushed' = [pushed EXCEPT ![i] = @ + 1]
  /\ ctl' = "idle"
  /\ UNCHANGED <<worker, stop, running, next, starts, wvars>>

\* drain() polls the shards one after the other.
Drain ==
  /\ Free
  /\ ctl' = "draining" /\ next' = 0
  /\ UNCHANGED <<ingress, pushed, worker, stop, running, starts, wvars>>

DrainShard ==
  /\ ctl = "draining"
  /\ processed[next] = pushed[next]
  /\ IF next + 1 < NumShards THEN next' = next + 1 /\ UNCHANGED ctl
                             ELSE next' = 0 /\ ctl' = "drained"
  /\ UNCHANGED <<ingress, pushed, worker, stop, running, starts, wvars>>

\* stop(): the request, then the joins.
Stop ==
  /\ Free /\ running
  /\ stop' = TRUE /\ ctl' = "joining"
  /\ UNCHANGED <<ingress, pushed, worker, running, next, starts, wvars>>

StopJoined ==
  /\ ctl = "joining"
  /\ \A i \in Shard : worker[i].pc = "off"
  /\ running' = FALSE /\ ctl' = "stopped"
  /\ UNCHANGED <<ingress, pushed, worker, stop, next, starts, wvars>>

\* The destructor calls stop(), which returns at once unless running_, and then
\* destroys the std::thread members, fatally for one that was never joined.
Destroy ==
  /\ Free /\ ~running
  /\ ctl' = "destroyed"
  /\ UNCHANGED <<ingress, pushed, worker, stop, running, next, starts, wvars>>

Control ==
  \/ Start \/ StartFails \/ (\E i \in Shard : Push(i)) \/ Drain \/ DrainShard
  \/ Stop \/ StopJoined

(***************************************************************************)
(* Properties                                                              *)
(***************************************************************************)
\* Each engine applies the commands of its shard once each, in the order they
\* were pushed, across batches, the final drain and restarts: a claim is
\* applied in place and released once, by one consumer at a time.
AppliedInOrder ==
  \A i \in Shard : applied[i] = [k \in 1..Len(applied[i]) |-> k]

\* shard_runtime.hpp, drain(): "After this returns the engines are quiescent
\* with respect to the producer": every command pushed has been applied and no
\* worker is inside a batch, although the shards are polled one by one.
DrainSound ==
  ctl = "drained" =>
    \A i \in Shard : /\ Len(applied[i]) = pushed[i]
                     /\ worker[i].pc \in {"off", "claim", "check"}

\* shard_runtime.hpp, stop(): "no submitted command is dropped"; and the counts
\* agree, so a later start() and drain() begin from the truth.
StopSound ==
  ctl = "stopped" /\ starts > 0 =>
    \A i \in Shard : /\ ingress[i] = << >>
                     /\ Len(applied[i]) = pushed[i] /\ processed[i] = pushed[i]

\* shard_runtime.hpp: "destruction never leaks a thread": when the object goes
\* away no worker is still running on it.
NoThreadLeaked ==
  ctl = "destroyed" => \A i \in Shard : worker[i].pc = "off"
===============================================================================
