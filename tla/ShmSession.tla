------------------------------ MODULE ShmSession ------------------------------
(***************************************************************************)
(* include/lob/shm_channel.hpp and the shared-memory half of               *)
(* apps/gateway/main.cpp: a server process creates a named segment, builds *)
(* a request and a reply ring in it and serves until a disconnect; a       *)
(* client process attaches, waits for the ready word and sends orders one  *)
(* at a time.  Every system call is a step.                                *)
(*                                                                         *)
(* A run of the server creates at most one segment, named by the run.  A   *)
(* ring is the sequence of its elements, as SpscRing shows it to be; an    *)
(* order and its acknowledgement carry the client and a number, 0 for the  *)
(* disconnect.  The names a call refuses and the sizes it compares are     *)
(* constants of the program.                                               *)
(***************************************************************************)
EXTENDS Integers, Sequences, FiniteSets

CONSTANTS Server, Client,  \* runs of the two programs
          Orders,          \* orders a client sends before it disconnects
          RingCap,         \* shm_ring_capacity
          Crashes,         \* whether a process may die
          None

ASSUME SessionAssumption ==
  /\ Orders \in Nat \ {0} /\ RingCap \in Nat \ {0} /\ Crashes \in BOOLEAN
  /\ None \notin Server

VARIABLES
  name,    \* the segment the name is linked to
  seg,     \* per run: sized by ftruncate, rings built, ready word set; the rings
  server,  \* per run: control state and the request in hand
  client,  \* per run: control state, segment, order in flight
  acks     \* history: the acknowledgements each client has popped

vars == <<name, seg, server, client, acks>>

NoSegment == [sized |-> FALSE, built |-> FALSE, ready |-> FALSE, req |-> << >>, rep |-> << >>]

Init ==
  /\ name = None /\ seg = [s \in Server |-> NoSegment]
  /\ server = [s \in Server |-> [pc |-> "start", wo |-> None]]
  /\ client = [c \in Client |-> [pc |-> "start", seg |-> None, n |-> 1]]
  /\ acks = [c \in Client |-> << >>]

goS(s, from, to) == server[s].pc = from /\ server' = [server EXCEPT ![s].pc = to]
goC(c, from, to) == client[c].pc = from /\ client' = [client EXCEPT ![c].pc = to]

(***************************************************************************)
(* The server                                                              *)
(***************************************************************************)
SUnlink(s) == goS(s, "start", "open") /\ name' = None /\ UNCHANGED <<seg, client, acks>>

\* shm_open, O_CREAT | O_EXCL.
SOpen(s) ==
  /\ \/ name = None /\ goS(s, "open", "truncate") /\ name' = s
     \/ name # None /\ goS(s, "open", "failed") /\ UNCHANGED name
  /\ UNCHANGED <<seg, client, acks>>

\* ftruncate and mmap; a failure unlinks the name.
STruncate(s) ==
  /\ \/ goS(s, "truncate", "map") /\ seg' = [seg EXCEPT ![s].sized = TRUE] /\ UNCHANGED name
     \/ goS(s, "truncate", "failed") /\ name' = None /\ UNCHANGED seg
  /\ UNCHANGED <<client, acks>>

SMap(s) ==
  /\ \/ goS(s, "map", "build") /\ UNCHANGED name
     \/ goS(s, "map", "failed") /\ name' = None
  /\ UNCHANGED <<seg, client, acks>>

\* Faulty: the ready word is stored before the rings are built.
SBuild_late(s) ==
  /\ goS(s, "build", "publish")
  /\ seg' = [seg EXCEPT ![s].ready = TRUE]
  /\ UNCHANGED <<name, client, acks>>

\* shm_channel_init: construct_at, then the release store of the magic.
SBuild(s) ==
  /\ goS(s, "build", "publish")
  /\ seg' = [seg EXCEPT ![s] = [@ EXCEPT !.built = TRUE, !.ready = FALSE, !.req = << >>, !.rep = << >>]]
  /\ UNCHANGED <<name, client, acks>>

SPublish(s) ==
  /\ goS(s, "publish", "serve")
  /\ seg' = [seg EXCEPT ![s].ready = TRUE]
  /\ UNCHANGED <<name, client, acks>>

\* Faulty: the request stays in the ring.
SPop_peek(s) ==
  /\ server[s].pc = "serve" /\ seg[s].req # << >>
  /\ server' = [server EXCEPT ![s] = [pc |-> "reply", wo |-> Head(seg[s].req)]]
  /\ UNCHANGED <<seg, name, client, acks>>

\* serve_shm: pop and apply one order; push its ack, spinning while the reply
\* ring is full; leave after the disconnect.
SPop(s) ==
  /\ server[s].pc = "serve" /\ seg[s].req # << >>
  /\ server' = [server EXCEPT ![s] = [pc |-> "reply", wo |-> Head(seg[s].req)]]
  /\ seg' = [seg EXCEPT ![s].req = Tail(@)]
  /\ UNCHANGED <<name, client, acks>>

\* Faulty: the disconnect is not acknowledged.
SReply_mute(s) ==
  /\ server[s].pc = "reply" /\ Len(seg[s].rep) < RingCap
  /\ seg' = IF server[s].wo[2] = 0 THEN seg ELSE [seg EXCEPT ![s].rep = Append(@, server[s].wo)]
  /\ goS(s, "reply", IF server[s].wo[2] = 0 THEN "close" ELSE "serve")
  /\ UNCHANGED <<name, client, acks>>

SReply(s) ==
  /\ server[s].pc = "reply" /\ Len(seg[s].rep) < RingCap
  /\ seg' = [seg EXCEPT ![s].rep = Append(@, server[s].wo)]
  /\ goS(s, "reply", IF server[s].wo[2] = 0 THEN "close" ELSE "serve")
  /\ UNCHANGED <<name, client, acks>>

\* The region's destructor: the name goes, whatever it is linked to by then.
SClose(s) == goS(s, "close", "done") /\ name' = None /\ UNCHANGED <<seg, client, acks>>

\* The process dies; no destructor runs.
SCrash(s) ==
  /\ Crashes /\ server[s].pc \notin {"start", "done", "failed", "crashed"}
  /\ server' = [server EXCEPT ![s].pc = "crashed"]
  /\ UNCHANGED <<name, seg, client, acks>>

Serve(s) ==
  \/ SOpen(s) \/ STruncate(s) \/ SMap(s) \/ SBuild(s) \/ SPublish(s)
  \/ SPop(s) \/ SReply(s) \/ SClose(s)

(***************************************************************************)
(* The client                                                              *)
(***************************************************************************)
ended == {"done", "failed", "crashed"}

\* attach(): shm_open fails at once when the name is not linked.  Nothing in
\* the code keeps a client off a segment another has used; clients of a segment
\* run one after the other, as the rings' contract of one producer and one
\* consumer process asks of whoever starts them.
COpen(c) ==
  /\ \/ name = None /\ goC(c, "start", "failed")
     \/ /\ name # None /\ client[c].pc = "start"
        /\ \A d \in Client : client[d].seg = name => client[d].pc \in ended
        /\ client' = [client EXCEPT ![c].pc = "stat", ![c].seg = name]
  /\ UNCHANGED <<name, seg, server, acks>>

CStat(c) ==
  /\ client[c].pc = "stat"
  /\ \/ seg[client[c].seg].sized /\ goC(c, "stat", "wait")
     \/ ~seg[client[c].seg].sized /\ goC(c, "stat", "failed")
  /\ UNCHANGED <<name, seg, server, acks>>

\* shm_channel_wait: a bounded spin on the ready word.
CWait(c) ==
  /\ client[c].pc = "wait"
  /\ \/ seg[client[c].seg].ready /\ goC(c, "wait", "send")
     \/ ~seg[client[c].seg].ready /\ goC(c, "wait", "failed")
  /\ UNCHANGED <<name, seg, server, acks>>

\* run_shm_client's send: push the order, then spin for its ack.
CSend(c) ==
  /\ client[c].pc = "send" /\ Len(seg[client[c].seg].req) < RingCap
  /\ seg' = [seg EXCEPT ![client[c].seg].req = Append(@, <<c, client[c].n>>)]
  /\ goC(c, "send", "await")
  /\ UNCHANGED <<name, server, acks>>

CAwait(c) ==
  LET s == client[c].seg
      last == client[c].n = 0
  IN  /\ client[c].pc = "await" /\ seg[s].rep # << >>
      /\ acks' = [acks EXCEPT ![c] = Append(@, Head(seg[s].rep))]
      /\ seg' = [seg EXCEPT ![s].rep = Tail(@)]
      /\ client' = [client EXCEPT ![c].pc = IF last THEN "done" ELSE "send",
                                  ![c].n = IF @ = Orders \/ last THEN 0 ELSE @ + 1]
      /\ UNCHANGED <<name, server>>

CCrash(c) ==
  /\ Crashes /\ client[c].pc \notin {"start", "done", "failed", "crashed"}
  /\ client' = [client EXCEPT ![c].pc = "crashed"]
  /\ UNCHANGED <<name, seg, server, acks>>

Session(c) == CStat(c) \/ CWait(c) \/ CSend(c) \/ CAwait(c)

Next ==
  \/ \E s \in Server : SUnlink(s) \/ Serve(s) \/ SCrash(s)
  \/ \E c \in Client : COpen(c) \/ Session(c) \/ CCrash(c)

\* A process that has begun keeps running while it lives.
Spec ==
  /\ Init /\ [][Next]_vars
  /\ \A s \in Server : WF_vars(Serve(s))
  /\ \A c \in Client : WF_vars(Session(c))

(***************************************************************************)
(* Properties                                                              *)
(***************************************************************************)
InSession(c) == client[c].pc \in {"send", "await"}

\* The other clients that have opened c's segment, and those of them that died.
Others(c) == {d \in Client \ {c} : client[d].seg # None /\ client[d].seg = client[c].seg}

Fallen(c) == {d \in Others(c) : client[d].pc = "crashed"}

\* What attach and the ready word give a client: it maps no more than the owner
\* sized and enters only built rings, although sizing, construction and the
\* ready word are separate steps of another process; and it finds at most one
\* record in them for each earlier client of the segment that died, none when
\* all of them came to their end.
AttachSound ==
  \A c \in Client :
    /\ client[c].pc \in {"wait", "send", "await"} => seg[client[c].seg].sized
    /\ InSession(c) => seg[client[c].seg].built
    /\ (client[c].pc = "send" /\ acks[c] = << >>) =>
         Len(seg[client[c].seg].req) + Len(seg[client[c].seg].rep) <= Cardinality(Fallen(c))

\* A client takes the next ack for the answer to its order, whoever it is for:
\* it first pops what dead clients of the segment left unread, at most one ack
\* for each, and then its own, in the order it sent, the disconnect last.  With
\* none dead, each ack answers the order in flight.
AcksInOrder ==
  \A c \in Client :
    LET stale == {k \in DOMAIN acks[c] : acks[c][k][1] # c}
        lag == Cardinality(stale)
    IN  /\ lag <= Cardinality(Fallen(c))
        /\ \A k \in DOMAIN acks[c] \ stale :
             k > lag /\ acks[c][k][2] = (IF k - lag <= Orders THEN k - lag ELSE 0)

\* An attach ends: the client fails in bounded time or is served to the end,
\* unless its server dies, or has been dismissed: a client before it on the
\* segment has sent the disconnect, and the name was still linked.
Dismissed(c) == \E d \in Others(c) : client[d].n = 0 /\ client[d].pc # "send"

SessionEnds ==
  \A c \in Client :
    client[c].pc # "start" ~>
      \/ client[c].pc \in ended
      \/ Dismissed(c)
      \/ \E s \in Server : client[c].seg = s /\ server[s].pc = "crashed"

\* shm_channel.hpp: "a crashed server leaves no segment behind for the next run
\* to inherit".
CrashLeavesNoSegment ==
  name # None => server[name].pc # "crashed"

\* apps/gateway/main.cpp on shm_attach_spins: the wait "covers a client started
\* before the server": no client gives up before it has waited.
EarlyClientWaits ==
  \A c \in Client : client[c].pc = "failed" => client[c].seg # None
===============================================================================
