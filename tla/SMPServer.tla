----------------------------- MODULE SMPServer -----------------------------
(***************************************************************************)
(* SMPServer and its SMPServerConnections (SMPServer.cpp) under their Node *)
(* binding (napi/JsSMPServerWrap.cpp), which is the application that       *)
(* answers OnNewConn and deletes a closed server.                          *)
(*                                                                         *)
(* Threads: the UDP socket, which hands in packets under the server's      *)
(* lock_; the Runtime, which runs the server's tasks; a worker per         *)
(* connection, which runs its tasks and the QUIC callbacks; and the        *)
(* JavaScript thread, which runs the events exchanged to it in order.      *)
(*                                                                         *)
(* The QUIC library is external: it may make or refuse a connection, it    *)
(* reports the end of one once, and it finds the connection of a client    *)
(* for every packet that comes after it was made.                          *)
(***************************************************************************)
EXTENDS Integers, Sequences, FiniteSets

CONSTANTS
  Clients,      \* connection ids clients chose (scid of their Initial packet)
  Objs,         \* SMPServerConnection objects
  NULL,
  MaxInitials,  \* Initial packets of one client, repetitions included
  MaxSends,     \* SendPacket calls on one connection
  MaxClose      \* Close calls of the application on the server

ASSUME ServerAssumption ==
  /\ NULL \notin Clients \cup Objs
  /\ MaxInitials \in Nat /\ MaxSends \in Nat /\ MaxClose \in Nat

VARIABLES
  conn,   \* the SMPServerConnection objects
  srv,    \* SMPServer: state, conns_map_, socket, engine
  rq,     \* tasks of the server posted to the Runtime
  jsq,    \* events exchanged to the JavaScript thread
  sent    \* Initial packets that arrived from each client

vars == <<conn, srv, rq, jsq, sent>>

FREED == 0
CLOSING_QUIC == 2
HANDSHAKE == 4
CONNECTING == 5
CONNECTED == 6
MAX == 9

(* States of the server. *)
SVR_INIT == 1
SVR_DRAIN == 2
SVR_WORKING == 3

Quics == 1..MaxInitials
Event(t, x) == [t |-> t, x |-> x]

(* An object before CreateConnection; then SMPServerConnection::Create.    *)
(* `initials' counts the Initial packets it took, `stale' records a   *)
(* use of its deleted stream; the code has neither.                        *)
Unborn ==
  [life |-> "none", key |-> NULL, cid |-> NULL, state |-> FREED, new |-> MAX,
   keep |-> FALSE, quic |-> 0, lib |-> [i \in Quics |-> "none"], stream |-> "none",
   q |-> <<>>, detached |-> FALSE, closed |-> "no", sends |-> 0,
   initials |-> 0, reset |-> FALSE, stale |-> FALSE]

Created(k) ==
  [Unborn EXCEPT !.life = "live", !.key = k, !.cid = k, !.state = HANDSHAKE, !.keep = TRUE]

(* SMPServer::Create; a server that cannot be made is never seen. *)
NewServer ==
  [state |-> SVR_WORKING, new |-> MAX, conns |-> [k \in Clients |-> NULL],
   udp |-> "open", lost |-> FALSE, engine |-> TRUE, deleted |-> FALSE, closes |-> 0]

(* After Create and Start. *)
Init ==
  /\ conn = [o \in Objs |-> Unborn]
  /\ srv = NewServer
  /\ rq = <<>> /\ jsq = <<>>
  /\ sent = [k \in Clients |-> 0]

-----------------------------------------------------------------------------
(* SMPServerConnection internals.                                          *)

Live(o) == conn[o].life = "live"

Post(b, t) == IF b.detached THEN b ELSE [b EXCEPT !.q = Append(@, t)]

(* What a public call does: nothing once keep_working_ is off. *)
Call(b, t) == IF b.keep THEN Post(b, t) ELSE b

SetState(b, s) == [b EXCEPT !.new = s]

Closing(b) == b.state > b.new \/ b.state = FREED

(* _CloseCheck: close the QUIC connection, wait for its end, detach. *)
CloseCheck(b) ==
  LET d == IF b.state <= CLOSING_QUIC THEN b
           ELSE [b EXCEPT !.keep = FALSE, !.state = CLOSING_QUIC,
                          !.lib = [i \in Quics |-> IF i = b.quic THEN "closing" ELSE @[i]]]
  IN IF ~Closing(b) THEN b
     ELSE IF d.state = CLOSING_QUIC /\ d.quic = 0
          THEN [d EXCEPT !.detached = TRUE, !.state = FREED]
     ELSE d

(* SMPServerStream::SendPacket, on a stream that may be deleted: what the  *)
(* library cannot take is dropped.                                         *)
StreamSend(b) == [b EXCEPT !.stale = @ \/ b.stream = "freed"]

(* SendPacket_Internal: stream_map_ keeps the entry of a stream that       *)
(* SMPServerStream::OnClose deleted.                                       *)
SendPacketInternal(b) ==
  IF b.stream # "none" /\ b.quic # 0 THEN StreamSend(b) ELSE b

(* Accept and SendPacket, on the worker. *)
AcceptTask(b, ok) ==
  IF Closing(b) THEN CloseCheck(b)
  ELSE IF ok THEN SendPacketInternal(b)
  ELSE CloseCheck(SetState(SendPacketInternal(b), FREED))

CloseTask(b) == CloseCheck(IF Closing(b) THEN b ELSE SetState(b, FREED))

(* ProcessRecvData of an Initial packet: a QUIC connection is made, also   *)
(* when the object has one.                                                *)
InitialTask(b, ok) ==
  LET n == CHOOSE i \in Quics : b.lib[i] = "none"
  IN IF Closing(b) THEN CloseCheck(b)
     ELSE IF ok THEN [b EXCEPT !.quic = n, !.lib[n] = "connecting", !.initials = @ + 1]
     ELSE CloseCheck(SetState([b EXCEPT !.quic = 0, !.initials = @ + 1], FREED))

RunTask(b, t, ok) ==
  LET d == [b EXCEPT !.q = Tail(@)]
  IN CASE t = "initial" -> InitialTask(d, ok)
       [] t = "accept" -> AcceptTask(d, TRUE)
       [] t = "reject" -> AcceptTask(d, FALSE)
       [] t = "send" -> SendPacketInternal(d)
       [] t = "close" -> CloseTask(d)

-----------------------------------------------------------------------------
(* SMPServer internals, under its lock_ except where said otherwise.       *)

SrvClosing(s) == s.state > s.new \/ s.state = FREED

Registered(s) == {s.conns[k] : k \in Clients} \ {NULL}

(* Mutant: the socket is closed without waiting for the connections. *)
DrainedEarly(s) == TRUE

Drained(s) == Registered(s) = {}

(* _CloseCheck on server s: Close every connection, wait until the map is  *)
(* empty, close the socket, wait for its end, destroy the engine and post  *)
(* OnClosed.  `r' are the Runtime's tasks without the one that runs.       *)
SrvCloseCheck(s, r) ==
  LET closeAll == SrvClosing(s) /\ s.state = SVR_WORKING
      d == IF closeAll THEN [s EXCEPT !.state = SVR_DRAIN] ELSE s
      e == IF SrvClosing(s) /\ d.state = SVR_DRAIN /\ Drained(d)
           THEN [d EXCEPT !.state = SVR_INIT, !.udp = IF @ = "open" THEN "closing" ELSE @]
           ELSE d
      f == SrvClosing(s) /\ e.state = SVR_INIT /\ e.udp = "gone"
  IN /\ srv' = IF f THEN [e EXCEPT !.state = FREED, !.engine = FALSE] ELSE e
     /\ rq' = IF f THEN Append(r, Event("told", NULL)) ELSE r
     /\ conn' = [o \in Objs |-> IF closeAll /\ o \in Registered(s)
                                THEN Call(conn[o], "close") ELSE conn[o]]

(* CreateConnection's task for client k. *)
CreateTask(k, r) ==
  \/ /\ SrvClosing(srv)
     /\ SrvCloseCheck(srv, r)
  \/ /\ ~SrvClosing(srv) /\ srv.conns[k] # NULL
     /\ conn' = [conn EXCEPT ![srv.conns[k]] = Call(@, "initial")]
     /\ rq' = r /\ UNCHANGED srv
  \/ /\ ~SrvClosing(srv) /\ srv.conns[k] = NULL
     /\ \E o \in Objs :
          /\ conn[o].life = "none"
          /\ conn' = [conn EXCEPT ![o] = Call(Created(k), "initial")]
          /\ srv' = [srv EXCEPT !.conns[k] = o]
     /\ rq' = r

(* OnUdpClosed's task deletes the socket, without the lock. *)
UdpClosedTask(r) ==
  LET s == [srv EXCEPT !.udp = "gone"]
  IN SrvCloseCheck(IF SrvClosing(s) THEN s ELSE [s EXCEPT !.new = FREED], r)

-----------------------------------------------------------------------------
(* Events for the JavaScript thread, from the server and its connections.  *)
Exchange(t, x) == jsq' = Append(jsq, Event(t, x))
ExchangeConn(t, o) == jsq' = Append(jsq, Event(t, o))

-----------------------------------------------------------------------------
(* The UDP socket.                                                         *)

(* The library knows a client once a QUIC connection was made for it. *)
KnownClient(k) ==
  \E o \in Objs : conn[o].key = k /\ \E i \in Quics : conn[o].lib[i] # "none"

(* OnRecvData with an Initial packet of a client the library does not know *)
(* yet, maybe one that was sent before.                                    *)
OnRecvInitial(k) ==
  /\ srv.udp \in {"open", "closing"} /\ sent[k] < MaxInitials /\ ~KnownClient(k)
  /\ sent' = [sent EXCEPT ![k] = @ + 1]
  /\ IF SrvClosing(srv) THEN SrvCloseCheck(srv, rq) /\ UNCHANGED jsq
     ELSE Exchange("newConn", k) /\ UNCHANGED <<conn, srv, rq>>

(* The socket ended, because it was asked to or on a fatal error. *)
OnUdpClosed ==
  /\ srv.udp \in {"open", "closing"}
  /\ srv' = [srv EXCEPT !.udp = "closed", !.lost = (srv.udp = "open")]
  /\ rq' = Append(rq, Event("udpClosed", NULL))
  /\ UNCHANGED <<conn, jsq, sent>>

-----------------------------------------------------------------------------
(* The Runtime.                                                            *)

RuntimeTask ==
  /\ rq # <<>> /\ ~srv.deleted
  /\ LET t == Head(rq).t
         r == Tail(rq)
     IN \/ t = "create" /\ CreateTask(Head(rq).x, r) /\ UNCHANGED jsq
        \/ /\ t = "close" /\ UNCHANGED jsq
           /\ SrvCloseCheck(IF SrvClosing(srv) THEN srv ELSE [srv EXCEPT !.new = FREED], r)
        \/ t = "check" /\ SrvCloseCheck(srv, r) /\ UNCHANGED jsq
        \/ t = "udpClosed" /\ UdpClosedTask(r) /\ UNCHANGED jsq
        \/ /\ t = "told"
           /\ Exchange("close", NULL)
           /\ rq' = r /\ UNCHANGED <<conn, srv>>
  /\ UNCHANGED sent

-----------------------------------------------------------------------------
(* The worker of a connection.                                             *)

WorkerTask(o) ==
  LET t == Head(conn[o].q) IN
  /\ Live(o) /\ conn[o].q # <<>>
  /\ \E ok \in BOOLEAN :
       LET b == RunTask(conn[o], t, ok) IN
       /\ t # "initial" => ok
       /\ conn' = [conn EXCEPT ![o] = b]
       /\ IF b.quic \notin {0, conn[o].quic} THEN Exchange("accept", o) ELSE UNCHANGED jsq
  /\ UNCHANGED <<srv, rq, sent>>

(* QUIC callbacks while a packet is processed. *)
Working(o) == Live(o) /\ ~Closing(conn[o]) /\ conn[o].quic # 0

OnHandshakeFinished(o) ==
  LET b == conn[o] IN
  /\ Working(o) /\ b.lib[b.quic] = "connecting"
  /\ conn' = [conn EXCEPT ![o].state = CONNECTING, ![o].lib[b.quic] = "open"]
  /\ UNCHANGED <<srv, rq, jsq, sent>>

OnStreamCreate(o) ==
  /\ Working(o) /\ conn[o].lib[conn[o].quic] = "open" /\ conn[o].stream = "none"
  /\ conn' = [conn EXCEPT ![o].stream = "open"]
  /\ UNCHANGED <<srv, rq, jsq, sent>>

(* SMPServerStream::OnRead has data for ProcessPacket. *)
Readable(o) == Working(o) /\ conn[o].stream = "open"

(* ProcessPacket with a connect command; its event, like those of other    *)
(* commands and data, only calls the application.                          *)
OnConnect(o) ==
  /\ Readable(o) /\ conn[o].state = CONNECTING
  /\ conn' = [conn EXCEPT ![o].state = CONNECTED]
  /\ UNCHANGED <<srv, rq, jsq, sent>>

(* The peer ends the stream before the connection. *)
OnStreamClose(o) ==
  /\ Working(o) /\ conn[o].stream = "open"
  /\ conn' = [conn EXCEPT ![o].stream = "freed", ![o].reset = TRUE]
  /\ UNCHANGED <<srv, rq, jsq, sent>>

(* The connection goes on under another id: only cid_ follows. *)
OnUpdataCID(o) ==
  /\ Working(o) /\ conn[o].lib[conn[o].quic] = "open" /\ conn[o].cid # NULL
  /\ conn' = [conn EXCEPT ![o].cid = NULL]
  /\ UNCHANGED <<srv, rq, jsq, sent>>

(* WritePacket cannot send. *)
WriteFails(o) ==
  /\ Working(o)
  /\ conn' = [conn EXCEPT ![o] = CloseCheck(SetState(@, FREED))]
  /\ UNCHANGED <<srv, rq, jsq, sent>>

(* The library reports the end of a connection, after that of its streams. *)
OnClose(o, i) ==
  LET b == conn[o]
      d == [b EXCEPT !.lib[i] = "none", !.quic = 0,
                     !.stream = IF @ = "open" THEN "freed" ELSE @]
  IN /\ Live(o) /\ b.lib[i] # "none" /\ b.state # FREED
     /\ conn' = [conn EXCEPT ![o] =
                   CloseCheck(IF Closing(d) THEN d ELSE SetState(d, FREED))]
     /\ UNCHANGED <<srv, rq, jsq, sent>>

(* OnEventProcShutdown after the last task: leave the map under cid_, then *)
(* tell the handler.                                                       *)
Ended(o) == Live(o) /\ conn[o].detached /\ conn[o].q = <<>>

(* Mutant: the server does not look again. *)
NotifyConnClosedOnly(o) ==
  /\ Ended(o) /\ conn[o].closed = "no"
  /\ srv' = [srv EXCEPT !.conns = [k \in Clients |-> IF k = conn[o].cid THEN NULL ELSE @[k]]]
  /\ conn' = [conn EXCEPT ![o].closed = "notified"]
  /\ UNCHANGED <<rq, jsq, sent>>

NotifyConnClosed(o) ==
  /\ Ended(o) /\ conn[o].closed = "no"
  /\ srv' = [srv EXCEPT !.conns = [k \in Clients |-> IF k = conn[o].cid THEN NULL ELSE @[k]]]
  /\ rq' = Append(rq, Event("check", NULL))
  /\ conn' = [conn EXCEPT ![o].closed = "notified"]
  /\ UNCHANGED <<jsq, sent>>

OnClosed(o) ==
  /\ Ended(o) /\ conn[o].closed = "notified"
  /\ conn' = [conn EXCEPT ![o].closed = "told"]
  /\ ExchangeConn("closed", o)
  /\ UNCHANGED <<srv, rq, sent>>

-----------------------------------------------------------------------------
(* The JavaScript thread.                                                  *)

(* A new connection is passed on to the server; the event of a closed     *)
(* server deletes it; a closed connection is let go.  `accept' calls the   *)
(* application.                                                            *)
OnJsNewConn(k) ==
  /\ rq' = IF srv.deleted THEN rq ELSE Append(rq, Event("create", k))
  /\ UNCHANGED <<conn, srv>>

OnJsClose == srv' = [srv EXCEPT !.deleted = TRUE] /\ UNCHANGED <<conn, rq>>

OnJsClosed(o) == conn' = [conn EXCEPT ![o].life = "gone"] /\ UNCHANGED <<srv, rq>>

OnExchangeEvent ==
  /\ jsq # <<>>
  /\ jsq' = Tail(jsq)
  /\ LET e == Head(jsq) IN
     \/ e.t = "newConn" /\ OnJsNewConn(e.x)
     \/ e.t = "accept" /\ UNCHANGED <<conn, srv, rq>>
     \/ e.t = "close" /\ OnJsClose
     \/ e.t = "closed" /\ OnJsClosed(e.x)
  /\ UNCHANGED sent

CloseServer ==
  /\ ~srv.deleted /\ srv.closes < MaxClose
  /\ srv' = [srv EXCEPT !.closes = @ + 1]
  /\ rq' = Append(rq, Event("close", NULL))
  /\ UNCHANGED <<conn, jsq, sent>>

(* Calls on a connection the application has been given. *)
Accept(o, t) ==
  /\ Live(o) /\ conn[o].state = CONNECTED /\ conn[o].sends < MaxSends
  /\ conn' = [conn EXCEPT ![o] = Call([conn[o] EXCEPT !.sends = @ + 1], t)]
  /\ UNCHANGED <<srv, rq, jsq, sent>>

Close(o) ==
  /\ Live(o) /\ conn[o].initials > 0 /\ conn[o].keep /\ "close" \notin {conn[o].q[j] : j \in DOMAIN conn[o].q}
  /\ conn' = [conn EXCEPT ![o] = Call(@, "close")]
  /\ UNCHANGED <<srv, rq, jsq, sent>>

-----------------------------------------------------------------------------
Next ==
  \/ \E k \in Clients : OnRecvInitial(k)
  \/ OnUdpClosed \/ RuntimeTask \/ OnExchangeEvent \/ CloseServer
  \/ \E o \in Objs :
       \/ WorkerTask(o) \/ OnHandshakeFinished(o) \/ OnStreamCreate(o) \/ OnConnect(o)
       \/ OnStreamClose(o) \/ OnUpdataCID(o) \/ WriteFails(o)
       \/ \E i \in Quics : OnClose(o, i)
       \/ NotifyConnClosed(o) \/ OnClosed(o)
       \/ \E t \in {"accept", "reject", "send"} : Accept(o, t)
       \/ Close(o)

Spec == Init /\ [][Next]_vars

(* Threads with work to do run; the socket closes when asked; the library  *)
(* reports a connection it was told to close when its draining, linger or  *)
(* idle timer fires, which on_timer_set runs on the worker in any state:   *)
(* the tick that jqc_conn_close asks for does nothing, for _CloseCheck of  *)
(* a closing connection cuts on_timer_next_tick off.  Nothing is assumed   *)
(* of the clients or of the application's calls.                           *)
LibraryCloses(o) == \E i \in Quics : conn[o].lib[i] = "closing" /\ OnClose(o, i)

Fairness ==
  /\ WF_vars(RuntimeTask) /\ WF_vars(OnExchangeEvent)
  /\ WF_vars(srv.udp = "closing" /\ OnUdpClosed)
  /\ \A o \in Objs :
       /\ WF_vars(WorkerTask(o)) /\ WF_vars(LibraryCloses(o))
       /\ WF_vars(NotifyConnClosed(o)) /\ WF_vars(OnClosed(o))

FairSpec == Spec /\ Fairness

-----------------------------------------------------------------------------
(* A connection object that detached from its worker, and may be deleted,  *)
(* leaves no QUIC connection that points to it, unless a repeated Initial  *)
(* packet made ProcessRecvData replace the first by a second one.          *)
OrphanQuicOnlyAfterRepeat ==
  \A o \in Objs : conn[o].detached /\ conn[o].initials <= 1 =>
     \A i \in Quics : conn[o].lib[i] = "none"

(* When the server deletes its socket no connection, each of which holds   *)
(* the raw pointer, can still write to it, unless the socket ended by      *)
(* itself.                                                                 *)
SocketOutlivesWriters ==
  srv.udp = "gone" /\ ~srv.lost =>
     \A o \in Objs : Live(o) => conn[o].state = FREED

(* A server that began to close reports OnClosed and is deleted, unless a  *)
(* connection ended under another id than the one it is registered under.  *)
Unregistrable(o) == o \in Registered(srv) /\ conn[o].cid # conn[o].key
ServerCloses == srv.new = FREED ~> (srv.deleted \/ \E o \in Objs : Unregistrable(o))
=============================================================================
