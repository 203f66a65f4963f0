----------------------------- MODULE ShardStamps ------------------------------
(***************************************************************************)
(* include/lob/hash.hpp and shard_router.hpp: the router sends each        *)
(* command to the engine its symbol hashes to, and every engine stamps its *)
(* events from a range of the sequence numbers of its own.  Streams of     *)
(* several engines are merged later and told apart by kind and stamp: a    *)
(* fill and its trade share one.                                           *)
(*                                                                         *)
(* splitmix64 is an arbitrary function of the symbol, fixed for the run.   *)
(* SeqRange is 2^(64 - log2(NumShards)), so the sequence counter wraps at  *)
(* NumShards * SeqRange.  The bound on a behaviour is that no shard uses   *)
(* up its range; the code has no check for it.                             *)
(***************************************************************************)
EXTENDS Integers, Sequences

CONSTANTS NumShards, SeqRange, Symbol

ASSUME StampAssumption == NumShards \in Nat \ {0} /\ SeqRange \in Nat \ {0}

VARIABLES
  hash,    \* splitmix64(sym) & (num_shards - 1)
  seq,     \* state_.seq of each engine
  stamps   \* history: the events published, by shard, symbol, kind and stamp

stvars == <<hash, seq, stamps>>

Shard == 0 .. NumShards - 1
SeqWrap == NumShards * SeqRange

\* Faulty: the shift is one short, so ranges overlap.
shard_seq_base_halved(i) == IF NumShards <= 1 THEN 0 ELSE i * (SeqRange \div 2)

\* i << (64 - log2(num_shards)), in 64 bits.
shard_seq_base(i) == IF NumShards <= 1 THEN 0 ELSE (i * SeqRange) % SeqWrap

StInit ==
  /\ hash \in [Symbol -> Shard]
  /\ seq = [i \in Shard |-> shard_seq_base(i)]
  /\ stamps = << >>

shard_index(sym) == hash[sym]

\* What an engine publishes under one ++state_.seq, in order.
Publications == {<<"fill", "trade">>, <<"self_trade">>, <<"reject">>, <<"top">>}

Publish(sym, kinds) ==
  LET i == shard_index(sym)
      n == (seq[i] + 1) % SeqWrap
  IN  /\ seq[i] + 1 < i * SeqRange + SeqRange
      /\ seq' = [seq EXCEPT ![i] = n]
      /\ stamps' = stamps \o [k \in 1..Len(kinds) |->
                                [shard |-> i, sym |-> sym, kind |-> kinds[k], seq |-> n]]
      /\ UNCHANGED hash

\* on_submit, on_cancel or on_modify of the router makes the engine of the
\* symbol publish; a command of several publications is several steps.
Dispatch(sym) == \E kinds \in Publications : Publish(sym, kinds)

StNext == \E sym \in Symbol : Dispatch(sym)

StSpec == StInit /\ [][StNext]_stvars

\* hash.hpp: "a merged stream keeps globally unique, per-shard-monotonic
\* stamps", which engine.hpp makes so per kind: of two events with one stamp the
\* first is a fill and the other its trade, whatever the shards, and the stamps
\* of a shard, hence of a symbol, never go back.
StampsUnique ==
  \A j, k \in DOMAIN stamps : j < k =>
    /\ stamps[j].seq = stamps[k].seq =>
         /\ stamps[j].sym = stamps[k].sym
         /\ stamps[j].kind = "fill" /\ stamps[k].kind = "trade"
    /\ stamps[j].shard = stamps[k].shard => stamps[j].seq <= stamps[k].seq
===============================================================================
