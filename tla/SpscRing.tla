------------------------------- MODULE SpscRing -------------------------------
(***************************************************************************)
(* include/lob/spsc_ring.hpp: the wait-free ring that carries commands and *)
(* events between threads and, inside a shared-memory segment, requests    *)
(* and replies between processes.  One thread calls try_push, another      *)
(* try_pop or consume_claim; every load and store of a word that both      *)
(* touch is a step of its own, so the two calls interleave in every way.   *)
(*                                                                         *)
(* The cursors are 64-bit in the code and count pushes from zero; MaxPush  *)
(* bounds them here and stands for a run of fewer than 2^64 pushes.  Each  *)
(* shared word has one writer and is stored with release and loaded with   *)
(* acquire, so interleaving the accesses in program order is the order the *)
(* code relies on.                                                         *)
(***************************************************************************)
EXTENDS Integers, Sequences

CONSTANTS Capacity,   \* slots in the ring
          T,          \* payloads
          NoValue,    \* what a slot holds before its first push
          MaxBatch,   \* largest max_n a consumer passes to consume_claim
          MaxPush     \* bound on the number of successful pushes

ASSUME CapacityAssumption == Capacity \in Nat \ {0}
ASSUME BoundAssumption == MaxBatch \in Nat \ {0} /\ MaxPush \in Nat
ASSUME NoValueAssumption == NoValue \notin T

VARIABLES
  head,       \* head_: the producer's cursor
  tail_cache, \* tail_cache_: the producer's copy of tail_
  tail,       \* tail_: the consumer's cursor
  buf,        \* buf_: payload and publishing sequence of every slot
  ppc,        \* where the producer is inside try_push
  pval,       \* the value it is pushing
  cpc,        \* where the consumer is inside try_pop / consume_claim
  max_n,      \* the claim's limit
  n,          \* slots claimed so far
  i,          \* claimed slots already read
  sent,       \* history: values published, in order
  got         \* history: values read by the consumer, in order

pvars == <<head, tail_cache, ppc, pval, sent>>
cvars == <<tail, cpc, max_n, n, i, got>>
vars  == <<pvars, cvars, buf>>

Slots == 0 .. Capacity - 1
Slot(pos) == pos % Capacity

Init ==
  /\ head = 0 /\ tail_cache = 0 /\ tail = 0
  /\ buf = [s \in Slots |-> [value |-> NoValue, seq |-> 0]]
  /\ ppc = "idle" /\ pval = NoValue
  /\ cpc = "idle" /\ max_n = 0 /\ n = 0 /\ i = 0
  /\ sent = << >> /\ got = << >>

(***************************************************************************)
(* try_push                                                                *)
(***************************************************************************)
\* Faulty: lets one element too many in.
PushBegin_past_full(v) ==
  /\ ppc = "idle"
  /\ Len(sent) < MaxPush
  /\ pval' = v
  /\ ppc' = IF head - tail_cache > Capacity THEN "reload" ELSE "write"
  /\ UNCHANGED <<head, tail_cache, sent, cvars, buf>>

\* Call: the cached tail either shows room or sends the producer to reload it.
PushBegin(v) ==
  /\ ppc = "idle"
  /\ Len(sent) < MaxPush
  /\ pval' = v
  /\ ppc' = IF head - tail_cache >= Capacity THEN "reload" ELSE "write"
  /\ UNCHANGED <<head, tail_cache, sent, cvars, buf>>

\* Faulty: refuses on the cached cursor without looking at the real one.
PushReload_cached ==
  /\ ppc = "reload"
  /\ ppc' = "idle" /\ pval' = NoValue
  /\ UNCHANGED <<head, tail_cache, sent, cvars, buf>>

\* The acquire load of tail_; still full means the call returns false.
PushReload ==
  /\ ppc = "reload"
  /\ tail_cache' = tail
  /\ IF head - tail >= Capacity
       THEN ppc' = "idle" /\ pval' = NoValue
       ELSE ppc' = "write" /\ UNCHANGED pval
  /\ UNCHANGED <<head, sent, cvars, buf>>

\* s.value = value, an ordinary store.
PushWrite ==
  /\ ppc = "write"
  /\ buf' = [buf EXCEPT ![Slot(head)].value = pval]
  /\ ppc' = "seq"
  /\ UNCHANGED <<head, tail_cache, pval, sent, cvars>>

\* s.seq.store(head + 1): from here the consumer can take the element.
PushPublish ==
  /\ ppc = "seq"
  /\ buf' = [buf EXCEPT ![Slot(head)].seq = head + 1]
  /\ sent' = Append(sent, pval)
  /\ ppc' = "head"
  /\ UNCHANGED <<head, tail_cache, pval, cvars>>

\* head_.store(head + 1), and the call returns true.
PushReturn ==
  /\ ppc = "head"
  /\ head' = head + 1
  /\ ppc' = "idle"
  /\ pval' = NoValue
  /\ UNCHANGED <<tail_cache, sent, cvars, buf>>

(***************************************************************************)
(* consume_claim(max_n, fn).  try_pop makes the same accesses with max_n   *)
(* equal to one, and consume_batch is consume_claim with an element-wise fn*)
(***************************************************************************)
ClaimBegin(m) ==
  /\ cpc = "idle"
  /\ max_n' = m
  /\ cpc' = "scan"
  /\ UNCHANGED <<tail, n, i, got, pvars, buf>>

Published(pos) == buf[Slot(pos)].seq = pos + 1

\* One turn of the counting loop: the slot is published, claim it.
ClaimScan ==
  /\ cpc = "scan"
  /\ n < max_n /\ Published(tail + n)
  /\ n' = n + 1
  /\ UNCHANGED <<tail, cpc, max_n, i, got, pvars, buf>>

\* Faulty: waits for a whole batch.
ClaimScanned_whole_batch ==
  /\ cpc = "scan"
  /\ ~(n < max_n /\ Published(tail + n))
  /\ cpc' = IF n < max_n THEN "idle" ELSE "read"
  /\ n' = IF n < max_n THEN 0 ELSE n
  /\ max_n' = 0
  /\ UNCHANGED <<tail, i, got, pvars, buf>>

\* The loop ends; an empty claim returns 0, otherwise fn runs.
ClaimScanned ==
  /\ cpc = "scan"
  /\ ~(n < max_n /\ Published(tail + n))
  /\ cpc' = IF n = 0 THEN "idle" ELSE "read"
  /\ max_n' = 0
  /\ UNCHANGED <<tail, n, i, got, pvars, buf>>

\* fn reads the i-th claimed slot in place.
ClaimRead ==
  /\ cpc = "read"
  /\ i < n
  /\ got' = Append(got, buf[Slot(tail + i)].value)
  /\ i' = i + 1
  /\ UNCHANGED <<tail, cpc, max_n, n, pvars, buf>>

\* Faulty: hands back one slot of the claim.
ClaimRelease_one ==
  /\ cpc = "read"
  /\ i = n
  /\ tail' = tail + 1
  /\ n' = 0 /\ i' = 0
  /\ cpc' = "idle"
  /\ UNCHANGED <<max_n, got, pvars, buf>>

\* tail_.store(tail + n) hands every claimed slot back at once.
ClaimRelease ==
  /\ cpc = "read"
  /\ i = n
  /\ tail' = tail + n
  /\ n' = 0 /\ i' = 0
  /\ cpc' = "idle"
  /\ UNCHANGED <<max_n, got, pvars, buf>>

Producer == (\E v \in T : PushBegin(v)) \/ PushReload \/ PushWrite
            \/ PushPublish \/ PushReturn
Consumer == (\E m \in 1..MaxBatch : ClaimBegin(m)) \/ ClaimScan
            \/ ClaimScanned \/ ClaimRead \/ ClaimRelease

Next == Producer \/ Consumer

Spec == Init /\ [][Next]_vars

\* The consumer polls for ever, as drive_shard and the merger do, and a
\* producer inside try_push runs on; nobody is obliged to push.
Fairness == WF_vars(Consumer) /\ WF_vars(PushReload \/ PushWrite \/ PushPublish \/ PushReturn)

FairSpec == Spec /\ Fairness

(***************************************************************************)
(* Properties                                                              *)
(***************************************************************************)
SlotType == [value : T \cup {NoValue}, seq : Nat]

\* Every cursor, slot and program counter stays in its domain.
TypeOK ==
  /\ head \in Nat /\ tail_cache \in Nat /\ tail \in Nat
  /\ buf \in [Slots -> SlotType]
  /\ ppc \in {"idle", "reload", "write", "seq", "head"}
  /\ pval \in T \cup {NoValue}
  /\ (ppc # "idle") => pval \in T
  /\ cpc \in {"idle", "scan", "read"}
  /\ max_n \in Nat /\ n \in Nat /\ i \in Nat
  /\ sent \in Seq(T)
  /\ got \in Seq(T \cup {NoValue})

\* What the consumer reads is what was pushed: nothing lost, repeated,
\* reordered or read before its payload was written (spsc_ring.hpp: "a stale
\* value from an earlier lap never matches").
FifoOrder ==
  /\ Len(got) <= Len(sent)
  /\ \A k \in 1..Len(got) : got[k] = sent[k]

\* While the producer fills a slot, the consumer has not claimed it: the plain
\* store of the payload never races a plain read of it, although the producer
\* decides from a cached copy of the consumer's cursor.
NoSlotRace ==
  ppc \in {"write", "seq"} =>
    \A k \in 0..n - 1 : Slot(tail + k) # Slot(head)

\* No more than Capacity elements are ever published and not yet released, and
\* a claim, whatever limit it was given, never runs past them.
NeverOverrun ==
  /\ Len(sent) - tail <= Capacity
  /\ n <= Len(sent) - tail

\* try_push returns false only at an instant when the ring really holds
\* Capacity unreleased elements: a stale tail_cache_ alone never refuses one.
RefusedOnlyWhenFull ==
  [][ppc = "reload" /\ ppc' = "idle" => Len(sent) - tail = Capacity]_vars

\* Seen from outside, the calls are the atomic operations of a bounded queue:
\* a push takes effect at its sequence store, a claim at its cursor store.
Fifo == INSTANCE BoundedFifo WITH
          q <- SubSeq(sent, tail + 1, Len(sent)),
          taken <- SubSeq(got, 1, tail)
ImplementsFifo == Fifo!Spec

\* Everything published is eventually consumed and its slot handed back.
EventuallyConsumed ==
  \A k \in 1..MaxPush : (Len(sent) >= k) ~> (tail >= k)

(***************************************************************************)
(* The inductive invariant behind the safety properties.                   *)
(***************************************************************************)
\* The producer's view: its cursor trails its history by the one element
\* between the sequence store and the cursor store, its cached tail is an old
\* value of the real one, and past the room check the slot is free.
ProducerInv ==
  /\ head = IF ppc = "head" THEN Len(sent) - 1 ELSE Len(sent)
  /\ ppc = "head" => Len(sent) > 0
  /\ tail_cache <= tail
  /\ ppc \in {"write", "seq"} => head - tail_cache < Capacity
  /\ ppc = "seq" => buf[Slot(head)].value = pval

\* The consumer's view: it has claimed only published positions and read
\* exactly those before tail + i.
ConsumerInv ==
  /\ tail + n <= Len(sent)
  /\ i <= n
  /\ cpc = "idle" => n = 0
  /\ cpc = "read" => n > 0
  /\ cpc # "read" => i = 0
  /\ cpc # "scan" => max_n = 0
  /\ Len(got) = tail + i
  /\ \A k \in 1..Len(got) : got[k] = sent[k]

\* Every unreleased position sits in its slot under its own sequence, and no
\* slot carries a sequence of a position that has not been published.
RingInv ==
  /\ Len(sent) <= tail + Capacity
  /\ \A k \in 0..Len(sent) - 1 :
       tail <= k => /\ buf[Slot(k)].seq = k + 1
                    /\ buf[Slot(k)].value = sent[k + 1]
  /\ \A s \in Slots : buf[s].seq <= Len(sent)

IInv == TypeOK /\ ProducerInv /\ ConsumerInv /\ RingInv
=============================================================================
