-------------------------------- MODULE Gateway -------------------------------
(***************************************************************************)
(* apps/gateway/main.cpp: run() parses its arguments and then is a server  *)
(* or a client over one transport, shared memory or TCP.  The two          *)
(* transports share no state, so a behaviour has one of them.              *)
(***************************************************************************)
EXTENDS ShmSession

CONSTANTS Peer, Modes, Pairs, Asked, MaxWindow, IoBatch, OrderBytes, AckBytes,
          OutRoom, BackRoom, LinkFailures, Nobody

VARIABLES transport, link, c2s, s2c, srv, cli, applied

Tcp == INSTANCE TcpSession

tvars == <<link, c2s, s2c, srv, cli, applied>>
gvars == <<vars, tvars, transport>>

\* One client runs closed loop and the others in windows; any may come first.
Closed == CHOOSE c \in Peer : TRUE

GInit ==
  /\ transport \in {"shm", "tcp"}
  /\ Init
  /\ Tcp!TInit
  /\ \A c \in Peer : cli[c].mode = "closed" <=> c = Closed

OverShm(A) == transport = "shm" /\ A /\ UNCHANGED <<tvars, transport>>
OverTcp(A) == transport = "tcp" /\ A /\ UNCHANGED <<vars, transport>>

GNext == OverShm(Next) \/ OverTcp(Tcp!TNext)

GFairness ==
  /\ \A s \in Server : WF_gvars(OverShm(Serve(s)))
  /\ \A c \in Client : WF_gvars(OverShm(Session(c)))
  /\ WF_gvars(OverTcp(Tcp!ServerStep))
  /\ \A c \in Peer : WF_gvars(OverTcp(Tcp!ClientStep(c)))

GSpec == GInit /\ [][GNext]_gvars /\ GFairness

(***************************************************************************)
(* The properties of the TCP instance; those of the shared-memory session  *)
(* are checked under their own names.                                      *)
(***************************************************************************)
\* serve_connection and the clients: however reads and writes cut the streams,
\* records and acks arrive whole, once and in order.
RecordsIntact == transport = "tcp" => Tcp!RecordsIntact

\* report_round_trip: a client that reports success has had every bid filled.
ReportsExact == transport = "tcp" => Tcp!ReportsExact

\* max_window: no two ends block writing to each other for good, and every
\* client that has connected comes to its end.
ClientsEnd == Tcp!ClientsEnd
===============================================================================
