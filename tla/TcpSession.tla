------------------------------ MODULE TcpSession ------------------------------
(***************************************************************************)
(* The socket half of apps/gateway/main.cpp: a server that accepts and     *)
(* serves one connection at a time, and clients that run the same workload *)
(* closed loop (run_client) or in windows (run_pipeline_client).  Every    *)
(* read and write moves some of the bytes that are there or fit.           *)
(*                                                                         *)
(* A byte of an order is <<n, b>>: byte b of a client's n-th order; a byte *)
(* of an ack is <<n, filled, b>>.  Odd orders are asks of one lot that     *)
(* rest, even ones are ioc bids at the same price, so of the engine only   *)
(* the number of resting asks is kept (apply_order itself is GatewayWire). *)
(* A link may be reset: the next call of either end returns an error, and  *)
(* a write after that raises SIGPIPE, which the program does not handle.   *)
(***************************************************************************)
EXTENDS Integers, Sequences, SequencesExt, FiniteSets

CONSTANTS Peer,          \* client programs
          Modes,         \* "closed" and "pipelined"
          Pairs,         \* orders / 2
          Asked,         \* the window a pipelined client is asked for, in pairs
          MaxWindow,     \* max_window
          IoBatch,       \* io_batch
          OrderBytes, AckBytes,
          OutRoom,       \* what the sockets hold of a client's bytes
          BackRoom,      \* and of the server's
          LinkFailures,  \* whether a link may fail
          Nobody

VARIABLES
  link,    \* per client: "none", "up", "down", "shut" by the client; and
           \* once the server has left: "gone" if it broke, else "closed"
  c2s, s2c, \* per client: bytes on the way in each direction
  srv,     \* the server: control state, connection, rbuf, acks to write, resting asks
  cli,     \* per client: control state, bytes to write, bytes read, last ack, counts
  applied  \* history, per client: the records given to apply_order

tvars == <<link, c2s, s2c, srv, cli, applied>>

order(n) == [b \in 1..OrderBytes |-> <<n, b>>]
ack(n, filled) == [b \in 1..AckBytes |-> <<n, filled, b>>]
orders(first, count) == FlattenSeq([k \in 1..count |-> order(first + k - 1)])

Smaller(a, b) == IF a < b THEN a ELSE b

Idle == [pc |-> "accept", at |-> Nobody, rbuf |-> << >>, acks |-> << >>, resting |-> 0]

TInit ==
  /\ link = [c \in Peer |-> "none"]
  /\ c2s = [c \in Peer |-> << >>] /\ s2c = [c \in Peer |-> << >>]
  /\ srv = Idle
  /\ cli \in [Peer -> {[pc |-> "start", mode |-> m, obuf |-> << >>, abuf |-> << >>,
                        ack |-> <<0, 0>>, told |-> FALSE, count |-> 0, next |-> 1, fills |-> 0] : m \in Modes}]
  /\ applied = [c \in Peer |-> << >>]

(***************************************************************************)
(* The server                                                              *)
(***************************************************************************)
\* accept() takes a connection from the backlog; a new engine serves it.
Accept(c) ==
  /\ srv.pc = "accept" /\ link[c] \in {"up", "down", "shut"}
  /\ srv' = [Idle EXCEPT !.pc = "read", !.at = c]
  /\ UNCHANGED <<link, c2s, s2c, cli, applied>>

\* apply_order on one record of the workload: a's ack bytes and resting asks.
\* A record put together from the wrong bytes is not an order of the client.
apply_order(a, rec) ==
  LET n == rec[1][1]
      filled == IF n % 2 = 0 /\ a.resting > 0 THEN 1 ELSE 0
  IN  [acks |-> a.acks \o ack(n, filled),
       resting |-> IF n % 2 = 1 THEN a.resting + 1 ELSE a.resting - filled]

records(avail) ==
  [k \in 1..(Len(avail) \div OrderBytes) |->
     SubSeq(avail, (k - 1) * OrderBytes + 1, k * OrderBytes)]

\* Faulty: the partial record is left where it was and the next read lands on it.
carried_lost(avail) == << >>

\* The trailing bytes of a partial record move to the front of rbuf.
carried(avail) == SubSeq(avail, (Len(avail) \div OrderBytes) * OrderBytes + 1, Len(avail))

\* serve_connection: one read, every whole order of it applied, the acks staged.
ServerRead ==
  LET c == srv.at
  IN  /\ srv.pc = "read" /\ link[c] \in {"up", "shut"}
      /\ \E k \in 1..Smaller(Len(c2s[c]), IoBatch * OrderBytes - Len(srv.rbuf)) :
           LET avail == srv.rbuf \o SubSeq(c2s[c], 1, k)
               recs  == records(avail)
               end   == FoldLeft(apply_order, [acks |-> << >>, resting |-> srv.resting], recs)
           IN  /\ c2s' = [c2s EXCEPT ![c] = SubSeq(@, k + 1, Len(@))]
               /\ srv' = [srv EXCEPT !.pc = IF recs = << >> THEN "read" ELSE "write",
                                     !.rbuf = carried(avail), !.acks = end.acks,
                                     !.resting = end.resting]
               /\ applied' = [applied EXCEPT ![c] = @ \o recs]
      /\ UNCHANGED <<link, s2c, cli>>

\* write_all of the staged acks, spinning while the socket is full.
ServerWrite ==
  LET c == srv.at
  IN  /\ srv.pc = "write" /\ link[c] = "up"
      /\ \E k \in 1..Smaller(Len(srv.acks), BackRoom - Len(s2c[c])) :
           /\ s2c' = [s2c EXCEPT ![c] = @ \o SubSeq(srv.acks, 1, k)]
           /\ srv' = [srv EXCEPT !.acks = SubSeq(@, k + 1, Len(@)),
                                 !.pc = IF k = Len(srv.acks) THEN "read" ELSE "write"]
      /\ UNCHANGED <<link, c2s, cli, applied>>

\* A read of 0, once the peer's bytes are read, or an error ends the connection.
ServerLeave ==
  LET c == srv.at
  IN  /\ \/ srv.pc = "read" /\ link[c] = "shut" /\ c2s[c] = << >>
         \/ srv.pc \in {"read", "write"} /\ link[c] = "down"
      /\ link' = [link EXCEPT ![c] = IF @ = "down" THEN "gone" ELSE "closed"]
      /\ srv' = Idle
      /\ UNCHANGED <<c2s, s2c, cli, applied>>

ServerStep == (\E c \in Peer : Accept(c)) \/ ServerRead \/ ServerWrite \/ ServerLeave

(***************************************************************************)
(* The clients                                                             *)
(***************************************************************************)
goto(c, pc) == cli' = [cli EXCEPT ![c].pc = pc]

\* socket and connect, repeated until the listener takes it.
Connect(c) ==
  /\ cli[c].pc = "start"
  /\ link' = [link EXCEPT ![c] = "up"]
  /\ goto(c, "round")
  /\ UNCHANGED <<c2s, s2c, srv, applied>>

\* Faulty: the window is not clamped.
window_asked == Asked

\* std::clamp(window, 1, max_window).
window == IF Asked < 1 THEN 1 ELSE Smaller(Asked, MaxWindow)

\* Orders of the round that starts: one, or a window of pairs.
RoundSize(c) ==
  IF cli[c].mode = "closed" THEN 1
  ELSE 2 * Smaller(window, Pairs - (cli[c].next - 1) \div 2)

Finished(c) == cli[c].next > 2 * Pairs

BeginRound(c) ==
  /\ cli[c].pc = "round" /\ ~Finished(c)
  /\ cli' = [cli EXCEPT ![c].pc = "write", ![c].count = RoundSize(c), ![c].abuf = << >>,
                        ![c].obuf = orders(cli[c].next, RoundSize(c))]
  /\ UNCHANGED <<link, c2s, s2c, srv, applied>>

ClientWrite(c) ==
  /\ cli[c].pc = "write" /\ link[c] = "up"
  /\ \E k \in 1..Smaller(Len(cli[c].obuf), OutRoom - Len(c2s[c])) :
       /\ c2s' = [c2s EXCEPT ![c] = @ \o SubSeq(cli[c].obuf, 1, k)]
       /\ cli' = [cli EXCEPT ![c].obuf = SubSeq(@, k + 1, Len(@)),
                             ![c].pc = IF k = Len(cli[c].obuf) THEN "read" ELSE "write"]
  /\ UNCHANGED <<link, s2c, srv, applied>>

\* read_all of the round's acks.
ClientRead(c) ==
  /\ cli[c].pc = "read" /\ link[c] = "up"
  /\ \E k \in 1..Smaller(Len(s2c[c]), cli[c].count * AckBytes - Len(cli[c].abuf)) :
       /\ s2c' = [s2c EXCEPT ![c] = SubSeq(@, k + 1, Len(@))]
       /\ cli' = [cli EXCEPT ![c].abuf = @ \o SubSeq(s2c[c], 1, k),
                             ![c].pc = IF k = cli[c].count * AckBytes - Len(cli[c].abuf)
                                         THEN "count" ELSE "read"]
  /\ UNCHANGED <<link, c2s, srv, applied>>

\* The acks of a round, off the bytes read.
acks_of(c) == [k \in 1..cli[c].count |-> cli[c].abuf[(k - 1) * AckBytes + 1]]

\* The round is over: a closed-loop client has one ack, which it adds up after
\* a bid; a pipelined one adds up the window.
CountRound(c) ==
  /\ cli[c].pc = "count"
  /\ LET got == acks_of(c)
         last == got[cli[c].count]
         sum == FoldLeft(LAMBDA a, x : a + x[2], 0, got)
     IN  cli' = [cli EXCEPT ![c].pc = "round", ![c].ack = <<last[1], last[2]>>,
                            ![c].next = @ + cli[c].count,
                            ![c].fills = IF cli[c].mode = "closed" /\ cli[c].next % 2 = 1
                                           THEN @ ELSE @ + sum]
  /\ UNCHANGED <<link, c2s, s2c, srv, applied>>

Broken(c) == link[c] \in {"down", "gone"}

\* send_order on a link that was reset: write_all and read_all both fail, and
\* the client goes on with the ack it has.  A read that failed half-way may
\* have overwritten it.
Unanswered(c) ==
  /\ \E a \in {cli[c].ack} \cup {<<x[1], x[2]>> : x \in Range(cli[c].abuf)} :
       cli' = [cli EXCEPT ![c].pc = "round", ![c].ack = a, ![c].told = TRUE,
                          ![c].next = @ + 1, ![c].obuf = << >>,
                          ![c].fills = IF cli[c].next % 2 = 0 THEN @ + a[2] ELSE @]
  /\ UNCHANGED <<link, c2s, s2c, srv, applied>>

InOrder(c) == cli[c].mode = "closed" /\ cli[c].pc \in {"write", "read"} /\ Broken(c)

OrderFails(c) == InOrder(c) /\ ~cli[c].told /\ Unanswered(c)

\* Faulty: SIGPIPE is ignored, the failure is not looked at all the same.
OrderKilled_survives(c) == InOrder(c) /\ cli[c].told /\ Unanswered(c)

\* The order after that: its write raises SIGPIPE.
OrderKilled(c) ==
  /\ InOrder(c) /\ cli[c].told
  /\ goto(c, "killed")
  /\ UNCHANGED <<link, c2s, s2c, srv, applied>>

\* The pipelined client leaves its loop.
WindowFails(c) ==
  /\ cli[c].mode = "pipelined" /\ cli[c].pc \in {"write", "read"} /\ Broken(c)
  /\ goto(c, "leave")
  /\ UNCHANGED <<link, c2s, s2c, srv, applied>>

\* close(), and the report: the program returns 0 when fills equals pairs.
Leave(c) ==
  /\ cli[c].pc = "leave" \/ (cli[c].pc = "round" /\ Finished(c))
  /\ link' = [link EXCEPT ![c] = IF @ = "up" THEN "shut" ELSE @]
  /\ goto(c, IF cli[c].fills = Pairs THEN "ok" ELSE "mismatch")
  /\ UNCHANGED <<c2s, s2c, srv, applied>>

ClientStep(c) ==
  \/ BeginRound(c) \/ ClientWrite(c) \/ ClientRead(c) \/ CountRound(c)
  \/ OrderFails(c) \/ OrderKilled(c) \/ WindowFails(c) \/ Leave(c)

\* The connection is reset; what was on the way is lost.
LinkFails(c) ==
  /\ LinkFailures /\ link[c] = "up"
  /\ link' = [link EXCEPT ![c] = "down"]
  /\ c2s' = [c2s EXCEPT ![c] = << >>] /\ s2c' = [s2c EXCEPT ![c] = << >>]
  /\ UNCHANGED <<srv, cli, applied>>

TNext == ServerStep \/ \E c \in Peer : Connect(c) \/ ClientStep(c) \/ LinkFails(c)

TFairness == WF_tvars(ServerStep) /\ \A c \in Peer : WF_tvars(ClientStep(c))

TSpec == TInit /\ [][TNext]_tvars /\ TFairness

(***************************************************************************)
(* Properties                                                              *)
(***************************************************************************)
\* However reads and writes cut the streams, the k-th record the engine is
\* given is the client's k-th order, whole, and the k-th ack that comes back
\* answers it: none is lost, doubled, cut or taken for another.
RecordsIntact ==
  \A c \in Peer :
    /\ \A k \in 1..Len(applied[c]) : applied[c][k] = order(k)
    /\ \A k \in 1..Len(s2c[c]) - 1 :
         \/ s2c[c][k + 1][1] = s2c[c][k][1] /\ s2c[c][k + 1][3] = s2c[c][k][3] + 1
         \/ s2c[c][k + 1][1] = s2c[c][k][1] + 1 /\ s2c[c][k + 1][3] = 1
    /\ cli[c].pc = "count" => \A k \in 1..cli[c].count : acks_of(c)[k][1] = cli[c].next + k - 1

\* Bids of a client that a resting ask filled, by the records applied for it.
ReallyFilled(c) == Cardinality({k \in 1..Len(applied[c]) : k % 2 = 0})

\* report_round_trip: "Returns true when every crossing bid filled."  A client
\* that reports success has had every bid filled, although send_order looks at
\* no result and a reset link leaves it with the ack of an earlier order; and
\* only a client whose link broke reports anything else.
ReportsExact ==
  \A c \in Peer : /\ cli[c].pc = "ok" => ReallyFilled(c) = Pairs
                  /\ cli[c].pc \in {"mismatch", "killed"} => Broken(c)

\* The two sides never block writing to each other for good, the windows being
\* clamped to what the socket holds of the acks; each client that has connected
\* comes to its end, after the ones the server was busy with.
ClientsEnd ==
  \A c \in Peer : cli[c].pc # "start" ~> cli[c].pc \in {"ok", "mismatch", "killed"}
===============================================================================
