---------------------------- MODULE SMPConnector ----------------------------
(***************************************************************************)
(* SMPConnector and its SMPConnections, raw QUIC transport                 *)
(* (SMPConnector.cpp), with the path monitor that restarts their sockets   *)
(* (LinuxNetlinkMonitor.cpp).                                              *)
(*                                                                         *)
(* Threads: the application, which calls the API; one worker thread per    *)
(* connection, which runs the tasks posted to it, its timers, the QUIC     *)
(* callbacks and those of the UDP sockets; the Runtime thread, which runs  *)
(* the tasks of the connector; and the reader thread of the path monitor.  *)
(*                                                                         *)
(* The UDP socket appears with the queue of its sender: RESTART and        *)
(* STOPWORK are events there, and what comes while a restart drains is     *)
(* dropped (UDPSenderGroup has the detail and several senders).  The QUIC  *)
(* library is external: a connection it closes is reported once, later.    *)
(* MASQUE tunnels, HTTP/3 and streams are not part of this module.         *)
(***************************************************************************)
EXTENDS Integers, Sequences, FiniteSets

CONSTANTS
  Conns,          \* SMPConnections an application may create
  Stubs,          \* the Connect calls it makes on each of them
  Ifaces,         \* signatures (interface and addresses) of a default path
  NULL,
  Outcomes,       \* outcomes of starting a handshake
  Answers,        \* what a server may answer to a connect command
  Monitored,      \* !disableAutoRestart
  MaxClose,       \* Close calls on one connection
  MaxRestart,     \* Restart calls of the application on one connection
  MaxChange       \* changes of the default path

ASSUME ConnectorAssumption ==
  /\ NULL \notin Conns \cup Stubs \cup Ifaces
  /\ IsFiniteSet(Stubs) /\ Ifaces # {}
  /\ Outcomes \subseteq {"ok", "bad", "notimer", "nophys"}
  /\ Answers \subseteq {"_result", "_error"}
  /\ Monitored \in BOOLEAN /\ MaxClose \in Nat /\ MaxChange \in Nat
  /\ MaxRestart \in Nat

VARIABLES
  conn,   \* the SMPConnection objects
  ctor,   \* SMPConnector: its state, conns_map_ and QUIC engine
  rq,     \* the tasks posted to the Runtime
  net,    \* the default path of the system
  mon     \* the path monitor and SMPConnector::OnPathChange

vars == <<conn, ctor, rq, net, mon>>

FREED == 0
CLOSING_SOCK == 1
CLOSING_QUIC == 2
INIT == 3
HANDSHAKE == 4
CONNECTING == 5
CONNECTED == 6
MAX == 9

(* States of the connector. *)
CTOR_INIT == 1
CTOR_WORKING == 2

Quics == 1..Cardinality(Stubs)
Task(t, x) == [t |-> t, x |-> x]

(* An object before Create; then SMPConnection::Create.  Of the sender,    *)
(* `work' is its event queue, `drain' a restart in progress for interface  *)
(* `target', `up' whether it has a socket, bound to `sock'.  `handle' is   *)
(* network_handle_, `local' the address QUIC was told.  Two fields are not *)
(* in the code: `missed', that the last restart asked for was dropped, and *)
(* `late', that a Connect was answered after OnClosed.                     *)
Unborn ==
  [life |-> "none", state |-> INIT, new |-> MAX, status |-> "SUCCESS",
   keep |-> FALSE, quic |-> 0, lib |-> [i \in Quics |-> "none"], rpc |-> NULL,
   timer |-> FALSE, udp |-> "open", handle |-> NULL, sock |-> NULL,
   local |-> NULL, work |-> <<>>, drain |-> FALSE, target |-> NULL, up |-> TRUE,
   missed |-> FALSE, restarts |-> 0, q |-> <<>>, detached |-> FALSE,
   closed |-> "no", ans |-> [s \in Stubs |-> <<>>], posted |-> {}, closes |-> 0,
   late |-> FALSE]

Created(i) ==
  [Unborn EXCEPT !.life = "live", !.keep = TRUE, !.handle = i, !.sock = i,
                 !.local = i]

(* tt_netmon_start reports the path there is; OnPathChange swallows the    *)
(* first report.                                                           *)
Init ==
  /\ conn = [c \in Conns |-> Unborn]
  /\ ctor = [state |-> CTOR_WORKING, new |-> MAX, conns |-> {}, engine |-> TRUE,
             told |-> FALSE, closes |-> 0]
  /\ rq = <<>>
  /\ \E i \in Ifaces \cup {NULL} :
       /\ net = [iface |-> i, changes |-> 0]
       /\ mon = [sig |-> i, first |-> i # NULL, cool |-> FALSE, i |-> NULL, todo |-> {}]

-----------------------------------------------------------------------------
(* SMPConnection internals.                                                *)

(* PostTask: what is posted after Detach never runs. *)
Post(b, t) == IF b.detached THEN b ELSE [b EXCEPT !.q = Append(@, t)]

(* PostEvent of the sender, which takes none once it is detached. *)
PostEvent(b, t) ==
  IF b.udp \in {"open", "stopping"} THEN [b EXCEPT !.work = Append(@, t)] ELSE b

(* Mutant: connect_rpc_ and its timer are kept after the answer. *)
NotifyConnectResultKept(b, s, r) ==
  IF s = NULL THEN b
  ELSE [b EXCEPT !.ans[s] = Append(@, r), !.late = @ \/ b.closed = "told"]

(* _NotifyConnectResult: OnExecDone for stub s, which the connection then  *)
(* forgets, with its timer.                                                *)
NotifyConnectResult(b, s, r) ==
  IF s = NULL THEN b
  ELSE [b EXCEPT !.ans[s] = Append(@, r), !.late = @ \/ b.closed = "told",
                 !.rpc = IF s = @ THEN NULL ELSE @,
                 !.timer = IF s = b.rpc THEN FALSE ELSE @]

SetState(b, s, status) == [b EXCEPT !.new = s, !.status = status]

Closing(b) == b.state > b.new \/ b.state = FREED

(* The three stages of _CloseCheck.  A connection in INIT enters none. *)
CloseQuic(b) ==
  IF b.state <= INIT THEN b
  ELSE [b EXCEPT !.keep = FALSE, !.timer = FALSE, !.state = CLOSING_QUIC,
                 !.lib = [i \in Quics |-> IF i = b.quic THEN "closing" ELSE @[i]]]

CloseSock(b) ==
  IF b.state # CLOSING_QUIC \/ b.quic # 0 THEN b
  ELSE PostEvent([b EXCEPT !.timer = FALSE, !.state = CLOSING_SOCK], Task("stop", NULL))

(* Mutant: the pending Connect is not answered. *)
FreeUnanswered(b) ==
  IF b.state # CLOSING_SOCK \/ b.udp # "gone" THEN b
  ELSE [b EXCEPT !.detached = TRUE, !.state = FREED]

Free(b) ==
  IF b.state # CLOSING_SOCK \/ b.udp # "gone" THEN b
  ELSE [NotifyConnectResult(b, b.rpc, b.status) EXCEPT !.detached = TRUE,
                                                       !.state = FREED]

CloseCheck(b) == IF Closing(b) THEN Free(CloseSock(CloseQuic(b))) ELSE b

(* Connect_Internal up to the connect timer.  "bad": an invalid address or *)
(* no QUIC connection, also one that was created and closed within the     *)
(* call.  "notimer": the timer cannot be scheduled.                        *)
ConnectInternal(b, s, o) ==
  LET n == CHOOSE i \in Quics : b.lib[i] = "none"
      d == [b EXCEPT !.quic = n, !.lib[n] = "connecting"]
      Failed(e) == SetState(NotifyConnectResult(e, s, "FAILURE"), FREED, "FAILURE")
  IN CASE o = "bad" -> Failed(b)
       [] o = "notimer" -> Failed(d)
       [] OTHER -> [d EXCEPT !.timer = TRUE, !.rpc = s]

(* Tasks of the connection, once _CloseCheck has let them through. *)

(* Connect: refused unless the state is INIT. *)
ConnectTask(b, s, o) ==
  IF b.state > INIT THEN NotifyConnectResult(b, s, "ALREADYRUNNING")
  ELSE IF o = "nophys" THEN NotifyConnectResult(b, s, "NO_PHYSICAL_INTERFACE")
  ELSE [ConnectInternal(b, s, o) EXCEPT !.state = HANDSHAKE]

CloseTask(b) == SetState(b, FREED, "SUCCESS")

RestartTask(b, i) == PostEvent([b EXCEPT !.handle = i], Task("restart", i))

(* Mutant: QUIC is not told the address of the new socket. *)
OnRestartTaskSilent(b) == b

(* OnRestart after a success: QUIC is told the address of the socket.  If  *)
(* a later restart has left none, GetSockName leaves it unset.             *)
OnRestartTask(b) ==
  IF b.udp = "gone" THEN b
  ELSE [b EXCEPT !.local = IF b.up THEN b.sock ELSE "unset"]

OnUdpClosedTask(b) == SetState(b, FREED, "NETDOWN")

Run(b, t, o) ==
  CASE t.t = "connect" -> ConnectTask(b, t.x, o)
    [] t.t = "close" -> CloseTask(b)
    [] t.t = "restart" -> RestartTask(b, t.x)
    [] t.t = "restarted" -> OnRestartTask(b)
    [] t.t = "notRestarted" -> b
    [] t.t = "udpClosed" -> OnUdpClosedTask(b)

(* Every task begins and ends with _CloseCheck; OnUdpClosed first deletes  *)
(* the sockets.                                                            *)
RunTask(b, t, o) ==
  LET d == [b EXCEPT !.q = Tail(@), !.udp = IF t.t = "udpClosed" THEN "gone" ELSE @]
  IN CloseCheck(IF Closing(d) THEN d ELSE Run(d, t, o))

-----------------------------------------------------------------------------
(* The application.                                                        *)

Live(c) == conn[c].life = "live"

CtorClosing(k) == k.state > k.new \/ k.state = FREED

CreateConnection(c) ==
  /\ conn[c].life = "none" /\ ~CtorClosing(ctor)
  /\ conn' = [conn EXCEPT ![c] = Created(net.iface)]
  /\ ctor' = [ctor EXCEPT !.conns = @ \cup {c}]
  /\ UNCHANGED <<rq, net, mon>>

Connect(c, s) ==
  /\ Live(c) /\ conn[c].keep /\ s \notin conn[c].posted
  /\ conn' = [conn EXCEPT ![c] = [Post(@, Task("connect", s)) EXCEPT
                                          !.posted = conn[c].posted \cup {s}]]
  /\ UNCHANGED <<ctor, rq, net, mon>>

Close(c) ==
  /\ Live(c) /\ conn[c].keep /\ conn[c].closes < MaxClose
  /\ conn' = [conn EXCEPT ![c] = [Post(@, Task("close", NULL)) EXCEPT
                                          !.closes = conn[c].closes + 1]]
  /\ UNCHANGED <<ctor, rq, net, mon>>

(* Restart, without an interface. *)
Restart(c) ==
  /\ Live(c) /\ conn[c].keep /\ conn[c].restarts < MaxRestart
  /\ conn' = [conn EXCEPT ![c] = [Post(@, Task("restart", NULL)) EXCEPT
                                          !.restarts = conn[c].restarts + 1]]
  /\ UNCHANGED <<ctor, rq, net, mon>>

(* The owner deletes a connection once it has been told of its end. *)
Delete(c) ==
  /\ Live(c) /\ conn[c].closed = "told"
  /\ conn' = [conn EXCEPT ![c].life = "deleted"]
  /\ UNCHANGED <<ctor, rq, net, mon>>

CloseConnector ==
  /\ ctor.closes = 0
  /\ ctor' = [ctor EXCEPT !.closes = 1]
  /\ rq' = Append(rq, "close")
  /\ UNCHANGED <<conn, net, mon>>

-----------------------------------------------------------------------------
(* The worker thread of a connection.                                      *)

WorkerTask(c) ==
  /\ Live(c) /\ conn[c].q # <<>>
  /\ \E o \in Outcomes :
       conn' = [conn EXCEPT ![c] = RunTask(@, Head(conn[c].q), o)]
  /\ UNCHANGED <<ctor, rq, net, mon>>

(* A packet for the connection reaches the QUIC library (OnRecvData), and  *)
(* completes the handshake ...                                             *)
OnHandshakeFinished(c) ==
  LET b == conn[c] IN
  /\ Live(c) /\ ~Closing(b) /\ b.quic # 0 /\ b.lib[b.quic] = "connecting"
  /\ conn' = [conn EXCEPT ![c].state = CONNECTING, ![c].lib[b.quic] = "open"]
  /\ UNCHANGED <<ctor, rq, net, mon>>

(* ... or a certificate that is refused: the library closes the            *)
(* connection, and its notice answers the Connect before the close does.   *)
OnConnClosingNotify(c) ==
  LET b == conn[c] IN
  /\ Live(c) /\ b.quic # 0 /\ b.lib[b.quic] = "connecting" /\ b.rpc # NULL
  /\ conn' = [conn EXCEPT ![c] =
                NotifyConnectResult([b EXCEPT !.lib[b.quic] = "closing"], b.rpc, "FAILURE")]
  /\ UNCHANGED <<ctor, rq, net, mon>>

(* ... or carries the answer to the connect command (ProcessPacket). *)
ProcessError(b) ==
  Post(NotifyConnectResult([b EXCEPT !.state = INIT], b.rpc, "FAILURE"), Task("close", NULL))

ProcessResult(b) ==
  NotifyConnectResult([b EXCEPT !.state = CONNECTED], b.rpc, "SUCCESS")

ProcessPacket(c, a) ==
  LET b == conn[c] IN
  /\ Live(c) /\ ~Closing(b) /\ b.quic # 0 /\ b.lib[b.quic] = "open" /\ b.rpc # NULL
  /\ conn' = [conn EXCEPT ![c] = IF a = "_result" THEN ProcessResult(b) ELSE ProcessError(b)]
  /\ UNCHANGED <<ctor, rq, net, mon>>

(* The library reports that a connection of its own ended: the one we      *)
(* closed, or one the peer or the idle timer ended.  Its timers run only   *)
(* while conn_ is set.                                                     *)
OnClose(c, i) ==
  LET b == conn[c]
      d == [b EXCEPT !.lib[i] = "none", !.timer = FALSE, !.quic = 0]
  IN /\ Live(c) /\ b.quic # 0 /\ b.lib[i] # "none"
     /\ conn' = [conn EXCEPT ![c] =
                   CloseCheck(IF Closing(d) THEN d ELSE SetState(d, FREED, "NETDOWN"))]
     /\ UNCHANGED <<ctor, rq, net, mon>>

OnConnectTimeout(c) ==
  /\ Live(c) /\ conn[c].timer
  /\ conn' = [conn EXCEPT ![c] =
                CloseCheck(SetState(NotifyConnectResult([@ EXCEPT !.timer = FALSE], @.rpc, "TIMEDOUT"),
                                    FREED, "TIMEDOUT"))]
  /\ UNCHANGED <<ctor, rq, net, mon>>

-----------------------------------------------------------------------------
(* The sender of the connection's socket.                                  *)

(* OnEventProcess: dropped while the sender drains, for a restart or its   *)
(* end.                                                                    *)
SenderEvent(c) ==
  LET b == conn[c]
      t == Head(b.work)
      d == [b EXCEPT !.work = Tail(@)]
  IN /\ Live(c) /\ b.udp \in {"open", "stopping"} /\ b.work # <<>>
     /\ conn' = [conn EXCEPT ![c] =
                   IF b.drain \/ b.udp = "stopping"
                   THEN [d EXCEPT !.missed = @ \/ t.t = "restart"]
                   ELSE IF t.t = "stop" THEN [d EXCEPT !.udp = "stopping"]
                   ELSE [d EXCEPT !.drain = TRUE, !.target = t.x, !.missed = FALSE]]
     /\ UNCHANGED <<ctor, rq, net, mon>>

(* _Restart, when everything pending has completed: the new socket may not *)
(* come up, and the old one is gone.                                       *)
UdpRestarted(c, ok) ==
  LET b == conn[c]
      d == [b EXCEPT !.drain = FALSE, !.up = ok, !.sock = IF ok THEN b.target ELSE @]
  IN /\ Live(c) /\ b.udp = "open" /\ b.drain
     /\ conn' = [conn EXCEPT ![c] =
                   Post(d, Task(IF ok THEN "restarted" ELSE "notRestarted", NULL))]
     /\ UNCHANGED <<ctor, rq, net, mon>>

(* The sender is over: it was stopped, or met an error, which counts only  *)
(* while no restart drains.                                                *)
UdpClosed(c) ==
  /\ Live(c)
  /\ conn[c].udp = "stopping" \/ (conn[c].udp = "open" /\ ~conn[c].drain /\ conn[c].up)
  /\ conn' = [conn EXCEPT ![c] = Post([@ EXCEPT !.udp = "closed", !.work = <<>>],
                                      Task("udpClosed", NULL))]
  /\ UNCHANGED <<ctor, rq, net, mon>>

-----------------------------------------------------------------------------
(* OnEventProcShutdown, after the last task: leave the map, then tell the  *)
(* handler.                                                                *)
Drained(c) == Live(c) /\ conn[c].detached /\ conn[c].q = <<>>

(* Mutant: the connector does not look again. *)
NotifyConnClosedOnly(c) ==
  /\ Drained(c) /\ conn[c].closed = "no"
  /\ ctor' = [ctor EXCEPT !.conns = @ \ {c}]
  /\ conn' = [conn EXCEPT ![c].closed = "notified"]
  /\ UNCHANGED <<rq, net, mon>>

NotifyConnClosed(c) ==
  /\ Drained(c) /\ conn[c].closed = "no"
  /\ ctor' = [ctor EXCEPT !.conns = @ \ {c}]
  /\ rq' = Append(rq, "check")
  /\ conn' = [conn EXCEPT ![c].closed = "notified"]
  /\ UNCHANGED <<net, mon>>

(* Mutant: the handler may be told first. *)
OnClosedFirst(c) ==
  /\ Drained(c) /\ conn[c].closed # "told"
  /\ conn' = [conn EXCEPT ![c].closed = "told"]
  /\ UNCHANGED <<ctor, rq, net, mon>>

OnClosed(c) ==
  /\ Drained(c) /\ conn[c].closed = "notified"
  /\ conn' = [conn EXCEPT ![c].closed = "told"]
  /\ UNCHANGED <<ctor, rq, net, mon>>

-----------------------------------------------------------------------------
(* The connector, on the Runtime thread, under lock_.                      *)

(* Mutant: the engine is destroyed without waiting for the connections. *)
DestroyEngineEarly(k) ==
  IF k.state # CTOR_INIT THEN k
  ELSE [k EXCEPT !.engine = FALSE, !.state = FREED]

DestroyEngine(k) ==
  IF k.state # CTOR_INIT \/ k.conns # {} THEN k
  ELSE [k EXCEPT !.engine = FALSE, !.state = FREED]

(* SMPConnector::_CloseCheck on connector k: Close every connection, wait  *)
(* until the map is empty, destroy the engine and post OnClosed.           *)
CtorCloseCheck(k) ==
  LET closeAll == CtorClosing(k) /\ k.state = CTOR_WORKING
      d == IF closeAll THEN [k EXCEPT !.state = CTOR_INIT] ELSE k
      e == IF CtorClosing(k) THEN DestroyEngine(d) ELSE k
  IN /\ conn' = [c \in Conns |->
                   IF closeAll /\ c \in k.conns /\ conn[c].keep
                   THEN Post(conn[c], Task("close", NULL)) ELSE conn[c]]
     /\ ctor' = e
     /\ rq' = IF e.engine = k.engine THEN Tail(rq) ELSE Append(Tail(rq), "told")

RuntimeTask ==
  /\ rq # <<>>
  /\ \/ /\ Head(rq) = "close"
        /\ CtorCloseCheck(IF CtorClosing(ctor) THEN ctor ELSE [ctor EXCEPT !.new = FREED])
     \/ Head(rq) = "check" /\ CtorCloseCheck(ctor)
     \/ /\ Head(rq) = "told"
        /\ ctor' = [ctor EXCEPT !.told = TRUE]
        /\ rq' = Tail(rq) /\ UNCHANGED conn
  /\ UNCHANGED <<net, mon>>

-----------------------------------------------------------------------------
(* The default path and its monitor.                                       *)

PathChanges(i) ==
  /\ Monitored /\ net.changes < MaxChange /\ i # net.iface
  /\ net' = [iface |-> i, changes |-> net.changes + 1]
  /\ UNCHANGED <<conn, ctor, rq, mon>>

(* ReaderLoop reports a path that differs from the last one, and           *)
(* OnPathChange takes its snapshot of conns_map_ unless it is the first    *)
(* report or falls into the cooldown.                                      *)
OnPathChange ==
  LET i == net.iface
      m == [mon EXCEPT !.sig = i, !.first = TRUE]
  IN /\ Monitored /\ i # NULL /\ i # mon.sig /\ mon.todo = {}
     /\ mon' = IF ~mon.first \/ mon.cool THEN m
               ELSE [m EXCEPT !.cool = TRUE, !.i = i, !.todo = ctor.conns]
     /\ UNCHANGED <<conn, ctor, rq, net>>

(* The loop over the snapshot, after the unlock: Restart on raw pointers. *)
RestartConn(c) ==
  /\ c \in mon.todo
  /\ mon' = [mon EXCEPT !.todo = @ \ {c}]
  /\ conn' = IF Live(c) /\ conn[c].keep
             THEN [conn EXCEPT ![c] = Post(@, Task("restart", mon.i))] ELSE conn
  /\ UNCHANGED <<ctor, rq, net>>

CooldownEnds ==
  /\ mon.cool
  /\ mon' = [mon EXCEPT !.cool = FALSE]
  /\ UNCHANGED <<conn, ctor, rq, net>>

-----------------------------------------------------------------------------
Worker(c) ==
  \/ WorkerTask(c)
  \/ OnConnectTimeout(c)
  \/ NotifyConnClosed(c)
  \/ OnClosed(c)

Next ==
  \/ \E c \in Conns :
       \/ CreateConnection(c) \/ Close(c) \/ Restart(c) \/ Delete(c)
       \/ \E s \in Stubs : Connect(c, s)
       \/ Worker(c)
       \/ OnHandshakeFinished(c) \/ OnConnClosingNotify(c)
       \/ \E a \in Answers : ProcessPacket(c, a)
       \/ \E i \in Quics : OnClose(c, i)
       \/ SenderEvent(c) \/ UdpClosed(c)
       \/ \E ok \in BOOLEAN : UdpRestarted(c, ok)
       \/ RestartConn(c)
  \/ CloseConnector \/ RuntimeTask
  \/ \E i \in Ifaces \cup {NULL} : PathChanges(i)
  \/ OnPathChange \/ CooldownEnds

Spec == Init /\ [][Next]_vars

(* Threads with work to do run; a timer that is set fires; the library     *)
(* reports a connection it was told to close; a sender takes its events,   *)
(* and what it cancelled completes, so that a restart or a stop it took    *)
(* comes to its end.  Nothing is assumed of an event it dropped, of peers, *)
(* of the application or of the system's paths.                            *)
LibraryCloses(c) == \E i \in Quics : conn[c].lib[i] = "closing" /\ OnClose(c, i)
SocketsClose(c) == conn[c].udp = "stopping" /\ UdpClosed(c)
SocketsRestart(c) == \E ok \in BOOLEAN : UdpRestarted(c, ok)

Fairness ==
  /\ \A c \in Conns :
       /\ WF_vars(WorkerTask(c)) /\ WF_vars(OnConnectTimeout(c))
       /\ WF_vars(NotifyConnClosed(c)) /\ WF_vars(OnClosed(c))
       /\ WF_vars(LibraryCloses(c)) /\ WF_vars(SocketsClose(c))
       /\ WF_vars(SenderEvent(c)) /\ WF_vars(SocketsRestart(c))
       /\ WF_vars(RestartConn(c))
  /\ WF_vars(RuntimeTask) /\ WF_vars(OnPathChange) /\ WF_vars(CooldownEnds)

FairSpec == Spec /\ Fairness

-----------------------------------------------------------------------------
Statuses == {"SUCCESS", "FAILURE", "NETDOWN", "TIMEDOUT", "ALREADYRUNNING",
             "NO_PHYSICAL_INTERFACE"}
TaskKinds == {"connect", "close", "restart", "restarted", "notRestarted", "udpClosed"}

(* The types of the variables, which the threads below rely on. *)
TypeOK ==
  /\ \A c \in Conns :
       LET b == conn[c] IN
       /\ b.life \in {"none", "live", "deleted"} /\ b.keep \in BOOLEAN
       /\ b.state \in FREED..CONNECTED /\ b.new \in {FREED, MAX}
       /\ b.status \in Statuses
       /\ b.quic \in {0} \cup Quics
       /\ b.lib \in [Quics -> {"none", "connecting", "open", "closing"}]
       /\ b.rpc \in Stubs \cup {NULL} /\ b.timer \in BOOLEAN
       /\ b.udp \in {"open", "stopping", "closed", "gone"}
       /\ {b.handle, b.sock, b.target} \subseteq Ifaces \cup {NULL}
       /\ b.local \in Ifaces \cup {NULL, "unset"}
       /\ b.work \in Seq([t : {"restart", "stop"}, x : Ifaces \cup {NULL}])
       /\ {b.drain, b.up, b.missed} \subseteq BOOLEAN
       /\ b.restarts \in 0..MaxRestart /\ b.closes \in 0..MaxClose
       /\ b.q \in Seq([t : TaskKinds, x : Stubs \cup Ifaces \cup {NULL}])
       /\ b.detached \in BOOLEAN /\ b.closed \in {"no", "notified", "told"}
       /\ b.ans \in [Stubs -> Seq(Statuses)] /\ b.posted \subseteq Stubs
       /\ b.late \in BOOLEAN
  /\ ctor.state \in {FREED, CTOR_INIT, CTOR_WORKING} /\ ctor.new \in {FREED, MAX}
  /\ ctor.conns \subseteq Conns /\ {ctor.engine, ctor.told} \subseteq BOOLEAN
  /\ rq \in Seq({"close", "check", "told"})
  /\ net.iface \in Ifaces \cup {NULL} /\ net.changes \in 0..MaxChange
  /\ {mon.sig, mon.i} \subseteq Ifaces \cup {NULL} /\ mon.todo \subseteq Conns
  /\ {mon.first, mon.cool} \subseteq BOOLEAN

(* A QUIC connection beside the one conn_ names: after the server answered *)
(* _error the state is back in INIT, and a Connect queued before the Close *)
(* that _error posts starts another one (README, Observations).            *)
StartedAgain(c) == /\ \E s \in Stubs : conn[c].ans[s] = <<"FAILURE">>
                   /\ Cardinality(conn[c].posted) > 1

(* SMPConnector::_CloseCheck destroys the QUIC engine only when no QUIC    *)
(* connection of any SMPConnection is left in it and none can be started,  *)
(* except one that was started beside another.                             *)
EngineOutlivesConnections ==
  ~ctor.engine => \A c \in Conns : conn[c].life # "none" =>
     /\ conn[c].state = FREED
     /\ StartedAgain(c) \/ \A i \in Quics : conn[c].lib[i] = "none"

(* conns_map_ holds no connection its owner may already have deleted: the  *)
(* connector can Close what it finds there.                                *)
RegisteredAreLive == \A c \in ctor.conns : Live(c)

(* OnExecDone is called at most once for a Connect, and never after        *)
(* OnClosed: the owner frees the stub and the connection.                  *)
AnsweredOnce ==
  \A c \in Conns : ~conn[c].late /\ \A s \in Stubs : Len(conn[c].ans[s]) <= 1

(* Whenever no restart is on the way, a working connection that has a      *)
(* socket has told QUIC that socket's address, and unless the sender       *)
(* dropped the last restart because another one drained, that socket is on *)
(* the interface the connection was last restarted for.  Restart, the      *)
(* sender and OnRestart hand it over in four steps on two threads, and     *)
(* further path changes, calls of Restart and failures may come between.   *)
RestartPending(b) ==
  b.drain \/ b.work # <<>>
  \/ \E j \in DOMAIN b.q : b.q[j].t \in {"restart", "restarted"}

AddressSettles ==
  \A c \in Conns :
    Live(c) /\ ~Closing(conn[c]) /\ conn[c].udp = "open" /\ ~RestartPending(conn[c])
      => /\ conn[c].up => conn[c].local = conn[c].sock
         /\ conn[c].up /\ ~conn[c].missed => conn[c].sock = conn[c].handle

(* The connection waits for the end of a socket whose STOPWORK was dropped *)
(* while a restart drained (README, Observations).                         *)
StopLost(c) == /\ conn[c].state = CLOSING_SOCK /\ conn[c].udp = "open"
               /\ \A j \in DOMAIN conn[c].work : conn[c].work[j].t # "stop"

(* A Connect that a connection took is answered, though QUIC's close and   *)
(* _CloseCheck cancel its timer, unless the socket it waits for then lost  *)
(* its STOPWORK behind a restart.                                          *)
TakenIsAnswered ==
  \A c \in Conns, s \in Stubs :
    conn[c].rpc = s ~> (conn[c].ans[s] # <<>> \/ StopLost(c))

(* Closing the connector ends with OnClosed, unless a connection was told  *)
(* to close while it was in INIT and stays there, or lost its STOPWORK.    *)
Stranded(c) == conn[c].state = INIT /\ conn[c].new = FREED
ConnectorCloses ==
  ctor.new = FREED ~> (ctor.told \/ \E c \in ctor.conns : Stranded(c) \/ StopLost(c))
=============================================================================
