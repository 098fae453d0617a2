---------------------------- MODULE MasqueTunnel ----------------------------
(***************************************************************************)
(* An SMPConnection behind a MASQUE proxy (SMPConnector.cpp): the inner    *)
(* connection, which an application sees, brings up a second one, the      *)
(* tunnel, an HTTP/3 connection to the proxy with one CONNECT-UDP request; *)
(* then it runs its own QUIC connection in HTTP datagrams of the tunnel.   *)
(*                                                                         *)
(* Both run their tasks on one worker thread, from two queues.  They hold  *)
(* raw pointers to each other: the inner connection deletes the tunnel,    *)
(* and its own end waits for the tunnel's.  Datagrams may be lost and      *)
(* repeated.  The QUIC library, the sockets and the proxy are external.    *)
(* HTTP/3 sets h3_conn_ and leaves conn_ NULL: the library's timers do     *)
(* nothing for a tunnel, and _CloseCheck does not close its connection.    *)
(*                                                                         *)
(* An application calls Connect once here: repeated calls are the subject  *)
(* of SMPConnector.                                                        *)
(***************************************************************************)
EXTENDS MasqueFraming

CONSTANTS
  Outcomes,     \* outcomes of starting a connection: "ok", "bad", "notimer"
  Grants,       \* stream ids of the CONNECT-UDP request, datagram sizes of the library
  Foreign,      \* datagrams a proxy may send that are not for the inner connection
  SizeMod,      \* size_t wraps here: 2^64
  MaxDatagrams  \* packets sent, and packets received, by the inner connection

ASSUME TunnelAssumption ==
  /\ Outcomes \subseteq {"ok", "bad", "notimer"}
  /\ \A g \in Grants : g.id \in Nat /\ g.mss \in Nat
  /\ \A g \in Grants : Shifts(g.id)[8] < 64   \* a QUIC stream id has 62 bits
  /\ SizeMod \in Nat /\ MaxDatagrams \in Nat

VARIABLES
  inner,   \* the inner SMPConnection
  tun,     \* the tunnel SMPConnection
  dgrams   \* datagrams between the tunnel and the proxy

tunnelVars == <<inner, tun, dgrams>>

FREED == 0
CLOSING_SOCK == 1
CLOSING_QUIC == 2
INIT == 3
HANDSHAKE == 4
CONNECTING == 5
CONNECTED == 6
MAX == 9

kMasqueMssSafetyMargin == 64
Task(t, x) == [t |-> t, x |-> x]

(* The inner connection after Create ... *)
TunnelInit ==
  /\ inner = [life |-> "live", state |-> INIT, new |-> MAX, keep |-> TRUE, udp |-> "open",
              q |-> <<>>, detached |-> FALSE,
              status |-> "SUCCESS", quic |-> "none", tunnel |-> FALSE,
              tunnelClosing |-> FALSE, rpc |-> FALSE, timer |-> FALSE, mss |-> 0,
              called |-> FALSE, closes |-> FALSE, closed |-> FALSE, ans |-> <<>>]
  /\ tun = [life |-> "none", state |-> INIT, new |-> MAX, keep |-> TRUE, udp |-> "open",
            q |-> <<>>, detached |-> FALSE,
            h3 |-> "none", ready |-> FALSE, inner |-> FALSE, qsid |-> 0, mss |-> 0]
  /\ dgrams = [out |-> {}, sent |-> 0, recv |-> 0]

(* ... and the tunnel after CreateMasqueTunnel and MasqueConnectToProxy. *)
CreateMasqueTunnel ==
  [tun EXCEPT !.life = "live", !.inner = TRUE, !.q = <<Task("toProxy", 0)>>]

-----------------------------------------------------------------------------
(* Tasks and _CloseCheck.  p.i and p.t are the two connections.            *)

Post(b, t) == IF b.detached THEN b ELSE [b EXCEPT !.q = Append(@, t)]

SetState(b, status) == [b EXCEPT !.new = FREED, !.status = status]

Closing(b) == b.state > b.new \/ b.state = FREED

NotifyConnectResult(b, r) ==
  IF ~b.rpc THEN b ELSE [b EXCEPT !.ans = Append(@, r), !.rpc = FALSE, !.timer = FALSE]

(* Close, also of the tunnel by the inner connection. *)
PostClose(b) == IF b.keep THEN Post(b, Task("close", 0)) ELSE b

(* The first two stages, for a connection whose conn_ is set or not. *)
CloseQuic(b, conn) ==
  LET d == IF b.state > INIT THEN [b EXCEPT !.keep = FALSE, !.state = CLOSING_QUIC] ELSE b
  IN IF d.state # CLOSING_QUIC \/ conn THEN d
     ELSE [d EXCEPT !.state = CLOSING_SOCK, !.udp = IF @ = "open" THEN "closing" ELSE @]

(* Mutant: the end of the tunnel is not awaited. *)
InnerFreeAtOnce(p) ==
  IF p.i.state # CLOSING_SOCK \/ p.i.udp # "gone" THEN p
  ELSE [i |-> [NotifyConnectResult(p.i, p.i.status) EXCEPT !.detached = TRUE, !.state = FREED],
        t |-> IF p.i.tunnel /\ ~p.i.tunnelClosing THEN PostClose(p.t) ELSE p.t]

(* The last stage of the inner connection: its sockets are gone; it closes *)
(* the tunnel once, and waits for it.                                      *)
InnerFree(p) ==
  IF p.i.state # CLOSING_SOCK \/ p.i.udp # "gone" THEN p
  ELSE IF p.i.tunnel
  THEN [i |-> [p.i EXCEPT !.tunnelClosing = TRUE],
        t |-> IF p.i.tunnelClosing THEN p.t ELSE PostClose(p.t)]
  ELSE [i |-> [NotifyConnectResult(p.i, p.i.status) EXCEPT !.detached = TRUE, !.state = FREED],
        t |-> p.t]

CloseCheck(p) ==
  IF ~Closing(p.i) THEN p
  ELSE LET d == [p.i EXCEPT !.timer = @ /\ p.i.state <= INIT,
                            !.quic = IF @ # "none" /\ p.i.state > INIT THEN "closing" ELSE @]
       IN InnerFree([i |-> CloseQuic(d, d.quic # "none"), t |-> p.t])

TunnelCloseCheck(t) ==
  IF ~Closing(t) THEN t
  ELSE LET d == CloseQuic(t, FALSE) IN
       IF d.state = CLOSING_SOCK /\ d.udp = "gone"
       THEN [d EXCEPT !.detached = TRUE, !.state = FREED] ELSE d

-----------------------------------------------------------------------------
(* Tasks of the inner connection.                                          *)

(* The difference of two numbers of type size_t. *)
Minus(a, b) == IF a < b THEN a - b + SizeMod ELSE a - b

(* Mutant: datagrams too small for the overhead are not refused. *)
MasqueDatagramMssUnguarded(t) ==
  IF t.h3 = "none" THEN 0
  ELSE Minus(t.mss, DatagramOverhead(t.qsid) + kMasqueMssSafetyMargin)

(* What is left of a datagram for a packet of the inner connection; 0 if   *)
(* nothing is.                                                             *)
MasqueDatagramMss(t) ==
  LET reserved == DatagramOverhead(t.qsid) + kMasqueMssSafetyMargin IN
  IF t.h3 = "none" \/ t.mss <= reserved THEN 0 ELSE Minus(t.mss, reserved)

MasqueStartTunnel(p, o) ==
  IF o = "bad" THEN p ELSE [i |-> [p.i EXCEPT !.tunnel = TRUE], t |-> CreateMasqueTunnel]

(* Connect_Internal, the first time: start the tunnel.  "notimer": the     *)
(* connect timer cannot be scheduled.                                      *)
ConnectTask(p, o) ==
  LET started == MasqueStartTunnel(p, o)
      i == [started.i EXCEPT !.state = HANDSHAKE, !.rpc = TRUE, !.timer = o = "ok"]
  IN IF p.i.state > INIT THEN [p EXCEPT !.i.ans = Append(@, "ALREADYRUNNING")]
     ELSE [i |-> IF o = "ok" THEN i ELSE SetState(NotifyConnectResult(i, "FAILURE"), "FAILURE"),
           t |-> started.t]

(* Connect_Internal over the tunnel that is up. *)
MasqueOnTunnelReady(p, ok, o) ==
  LET mss == MasqueDatagramMss(p.t) IN
  IF ok /\ o = "ok" /\ p.i.tunnel /\ mss # 0
  THEN [p EXCEPT !.i.quic = "connecting", !.i.mss = mss]
  ELSE [p EXCEPT !.i = SetState(NotifyConnectResult(@, "FAILURE"), "FAILURE")]

(* A packet that came through the tunnel, and what QUIC makes of it. *)
QuicClosed(b) ==
  LET d == [b EXCEPT !.quic = "none", !.timer = FALSE]
  IN IF Closing(d) THEN d ELSE SetState(d, "NETDOWN")

MasqueOnTunneledPacket(p, e) ==
  LET b == p.i IN
  [p EXCEPT !.i =
     CASE e = "finished" /\ b.quic = "connecting" -> [b EXCEPT !.quic = "open", !.state = CONNECTING]
       [] e = "_result" /\ b.quic = "open" /\ b.rpc ->
            NotifyConnectResult([b EXCEPT !.state = CONNECTED], "SUCCESS")
       [] e = "_error" /\ b.quic = "open" /\ b.rpc ->
            PostClose(NotifyConnectResult([b EXCEPT !.state = INIT], "FAILURE"))
       [] e = "closed" /\ b.quic # "none" -> QuicClosed(b)
       [] OTHER -> b]

(* The tunnel is over: delete it, and end with it. *)
MasqueOnTunnelClosed(p) ==
  [i |-> LET d == [p.i EXCEPT !.tunnel = FALSE, !.tunnelClosing = FALSE] IN
         IF d.state = INIT THEN SetState(NotifyConnectResult(d, "NETDOWN"), "NETDOWN")
         ELSE IF d.state > INIT THEN SetState(d, "NETDOWN") ELSE d,
   t |-> [p.t EXCEPT !.life = "deleted"]]

(* Tasks begin and end with _CloseCheck, MasqueOnTunnelClosed only ends    *)
(* with it; OnUdpClosed first deletes the sockets.                         *)
RunInner(p, t, e) ==
  LET d == CloseCheck([p EXCEPT !.i.q = Tail(@),
                                !.i.udp = IF t.t = "udpClosed" THEN "gone" ELSE @]) IN
  IF t.t = "tunnelClosed" THEN CloseCheck(MasqueOnTunnelClosed([p EXCEPT !.i.q = Tail(@)]))
  ELSE IF Closing(p.i) THEN d
  ELSE CASE t.t = "connect" -> CloseCheck(ConnectTask(d, e))
         [] t.t = "tunnelReady" -> CloseCheck(MasqueOnTunnelReady(d, t.x, e))
         [] t.t = "packet" -> CloseCheck(MasqueOnTunneledPacket(d, e))
         [] t.t = "close" -> CloseCheck([d EXCEPT !.i = SetState(@, "SUCCESS")])
         [] t.t = "udpClosed" -> CloseCheck([d EXCEPT !.i = SetState(@, "NETDOWN")])

-----------------------------------------------------------------------------
(* Tasks and callbacks of the tunnel.                                      *)

(* The answer to CONNECT-UDP, or that there will be none, is passed on;    *)
(* a second success is not.                                                *)
MasqueOnConnectUdpResponse(p, ok) ==
  IF p.t.ready /\ ok THEN p
  ELSE [i |-> IF p.t.inner THEN Post(p.i, Task("tunnelReady", ok)) ELSE p.i,
        t |-> [p.t EXCEPT !.ready = @ \/ ok]]

(* Called back from within jqc_connect. *)
OnH3ConnCreate(t) == [t EXCEPT !.h3 = "connecting"]

MasqueConnectToProxy(p, o) ==
  LET d == [p EXCEPT !.t.state = HANDSHAKE] IN
  IF p.t.state > INIT THEN p
  ELSE IF o = "ok" THEN [d EXCEPT !.t = OnH3ConnCreate(@)]
  ELSE MasqueOnConnectUdpResponse(d, FALSE)

RunTunnel(p, t, o) ==
  LET d == [p EXCEPT !.t.q = Tail(@), !.t.udp = IF t.t = "udpClosed" THEN "gone" ELSE @]
      e == IF Closing(d.t) \/ t.t = "dgram" THEN d
           ELSE IF t.t = "toProxy" THEN MasqueConnectToProxy(d, o)
           ELSE [d EXCEPT !.t.new = FREED]
  IN [e EXCEPT !.t = TunnelCloseCheck(@)]

Pair == [i |-> inner, t |-> tun]
Put(p) == inner' = p.i /\ tun' = p.t

-----------------------------------------------------------------------------
(* The application.                                                        *)

Live == inner.life = "live"

ConnectOnce ==
  /\ Live /\ inner.keep /\ ~inner.called
  /\ inner' = [Post(inner, Task("connect", 0)) EXCEPT !.called = TRUE]
  /\ UNCHANGED <<tun, dgrams>>

CloseOnce ==
  /\ Live /\ inner.keep /\ inner.called /\ ~inner.closes
  /\ inner' = [PostClose(inner) EXCEPT !.closes = TRUE]
  /\ UNCHANGED <<tun, dgrams>>

(* Its owner deletes the connection once it was told of its end. *)
Delete ==
  /\ Live /\ inner.closed
  /\ inner' = [inner EXCEPT !.life = "deleted"]
  /\ UNCHANGED <<tun, dgrams>>

-----------------------------------------------------------------------------
(* The worker thread: tasks, timers, sockets and the QUIC library.         *)

(* What the library may do in a task. *)
EventsOf(t) == CASE t = "packet" -> {"none", "finished", "_result", "_error", "closed"}
                 [] t \in {"connect", "tunnelReady", "toProxy"} -> Outcomes
                 [] OTHER -> {"none"}

InnerTask ==
  /\ Live /\ inner.q # <<>>
  /\ \E e \in EventsOf(Head(inner.q).t) : Put(RunInner(Pair, Head(inner.q), e))
  /\ UNCHANGED dgrams

OnConnectTimeout ==
  /\ Live /\ inner.timer
  /\ Put(CloseCheck([Pair EXCEPT !.i = SetState(NotifyConnectResult(@, "TIMEDOUT"), "TIMEDOUT")]))
  /\ UNCHANGED dgrams

(* The library's timers run while conn_ is set; one of them ends the inner *)
(* connection's QUIC, as it was told or because the peer is silent.        *)
TimersRun == inner.quic # "none"

OnConnClose ==
  /\ Live /\ TimersRun
  /\ Put(CloseCheck([Pair EXCEPT !.i = QuicClosed(@)]))
  /\ UNCHANGED dgrams

MasqueSendDatagram(t, size) == Post(t, Task("dgram", EncodeDatagram(t.qsid, size)))

(* WritePacket: QUIC sends a packet of at most max_pkt_out_size bytes.     *)
WritePacket(size) ==
  /\ Live /\ inner.quic # "none" /\ inner.state > CLOSING_SOCK
  /\ inner.tunnel /\ tun.keep /\ dgrams.sent < MaxDatagrams
  /\ tun' = MasqueSendDatagram(tun, size)
  /\ dgrams' = [dgrams EXCEPT !.sent = @ + 1]
  /\ UNCHANGED inner

UdpClosed ==
  /\ Live /\ inner.udp \in {"open", "closing"}
  /\ inner' = Post([inner EXCEPT !.udp = "closed"], Task("udpClosed", 0))
  /\ UNCHANGED <<tun, dgrams>>

(* OnEventProcShutdown of the inner connection. *)
OnClosed ==
  /\ Live /\ inner.detached /\ inner.q = <<>> /\ ~inner.closed
  /\ inner' = [inner EXCEPT !.closed = TRUE]
  /\ UNCHANGED <<tun, dgrams>>

TunnelLive == tun.life = "live"

TunnelTask ==
  LET t == Head(tun.q) IN
  /\ TunnelLive /\ tun.q # <<>>
  /\ \E o \in EventsOf(t.t) : Put(RunTunnel(Pair, t, o))
  /\ dgrams' = IF t.t = "dgram" /\ ~Closing(tun) /\ tun.h3 # "none"
            THEN [dgrams EXCEPT !.out = @ \cup {t.x}] ELSE dgrams

(* A packet from the proxy: the handshake is done, and CONNECT-UDP is      *)
(* sent, or cannot be; it is answered; the proxy closes; a datagram comes. *)
FromProxy == TunnelLive /\ ~Closing(tun) /\ tun.udp = "open" /\ tun.h3 # "none"

MasqueSendConnectUdp(t, g) == [t EXCEPT !.mss = g.mss, !.qsid = QuarterStreamId(g.id)]

(* What SendConnectUdpRequest may return. *)
HeadersSent == BOOLEAN

OnH3HandshakeFinished ==
  /\ FromProxy /\ tun.h3 = "connecting"
  /\ \E g \in Grants, sent \in HeadersSent :
       LET d == [tun EXCEPT !.h3 = "open", !.state = CONNECTING]
           p == [i |-> inner, t |-> MasqueSendConnectUdp(d, g)]
       IN Put(IF sent THEN p ELSE MasqueOnConnectUdpResponse(p, FALSE))
  /\ UNCHANGED dgrams

(* Bound: a further answer comes only when the last one has been read. *)
AnswerPending == \E k \in DOMAIN inner.q : inner.q[k].t = "tunnelReady"

(* The answer is good when its status begins with 2; there may be none. *)
OnH3RequestRecvHeaders(p, h) == MasqueOnConnectUdpResponse(p, h = "2xx")

OnRead(h) ==
  /\ FromProxy /\ tun.h3 = "open" /\ ~AnswerPending
  /\ Put(OnH3RequestRecvHeaders(Pair, h))
  /\ UNCHANGED dgrams

OnH3Close ==
  /\ FromProxy
  /\ tun' = TunnelCloseCheck([tun EXCEPT !.h3 = "none", !.new = FREED])
  /\ UNCHANGED <<inner, dgrams>>

MasqueOnDatagram(p, d) ==
  LET m == DecodeDatagram(d) IN
  IF ~m.ok \/ m.qsid # p.t.qsid \/ m.ctx # kUdpContextId \/ m.size = 0 \/ ~p.t.inner THEN p
  ELSE [p EXCEPT !.i = Post(@, Task("packet", d))]

(* The proxy answers a datagram: the target's packet comes back in one     *)
(* like it.  The answer may be one of several, or never come.              *)
Answered(d) ==
  /\ FromProxy /\ tun.h3 = "open" /\ d \in dgrams.out /\ dgrams.recv < MaxDatagrams
  /\ Put(MasqueOnDatagram(Pair, d))
  /\ \E out \in {dgrams.out, dgrams.out \ {d}} :
       dgrams' = [dgrams EXCEPT !.out = out, !.recv = @ + 1]

ForeignDatagram(d) ==
  /\ FromProxy /\ tun.h3 = "open"
  /\ Put(MasqueOnDatagram(Pair, d))
  /\ UNCHANGED dgrams

TunnelUdpClosed ==
  /\ TunnelLive /\ (tun.udp = "closing" \/ (tun.udp = "open" /\ tun.state > INIT))
  /\ tun' = Post([tun EXCEPT !.udp = "closed"], Task("udpClosed", 0))
  /\ UNCHANGED <<inner, dgrams>>

(* Mutant: the inner connection is not told. *)
TunnelShutdownSilent ==
  /\ TunnelLive /\ tun.detached /\ tun.q = <<>> /\ tun.inner
  /\ tun' = [tun EXCEPT !.inner = FALSE]
  /\ UNCHANGED <<inner, dgrams>>

(* OnEventProcShutdown of the tunnel. *)
TunnelShutdown ==
  /\ TunnelLive /\ tun.detached /\ tun.q = <<>> /\ tun.inner
  /\ tun' = [tun EXCEPT !.inner = FALSE]
  /\ inner' = Post(inner, Task("tunnelClosed", 0))
  /\ UNCHANGED dgrams

-----------------------------------------------------------------------------
TunnelNext ==
  \/ ConnectOnce \/ CloseOnce \/ Delete
  \/ InnerTask \/ OnConnectTimeout \/ OnConnClose \/ UdpClosed \/ OnClosed
  \/ WritePacket(inner.mss)
  \/ TunnelTask \/ OnH3HandshakeFinished \/ OnH3Close \/ TunnelUdpClosed \/ TunnelShutdown
  \/ \E h \in {"2xx", "other"} : OnRead(h)
  \/ \E d \in dgrams.out : Answered(d)
  \/ \E d \in Foreign : ForeignDatagram(d)

(* The worker runs what is queued; a timer that is set fires; sockets told *)
(* to close do, and the library reports a connection it was told to close. *)
(* Nothing is assumed of the proxy, the server or the application.         *)
TunnelFairness ==
  /\ WF_tunnelVars(InnerTask) /\ WF_tunnelVars(TunnelTask)
  /\ WF_tunnelVars(OnConnectTimeout) /\ WF_tunnelVars(OnClosed) /\ WF_tunnelVars(TunnelShutdown)
  /\ WF_tunnelVars(inner.quic = "closing" /\ OnConnClose)
  /\ WF_tunnelVars(inner.udp = "closing" /\ UdpClosed)
  /\ WF_tunnelVars(tun.udp = "closing" /\ TunnelUdpClosed)

TunnelSpec == TunnelInit /\ [][TunnelNext]_tunnelVars /\ TunnelFairness

-----------------------------------------------------------------------------
(* The raw pointers masque_tunnel_ and masque_inner_ never outlive what    *)
(* they point to, whichever of the two connections ends first.             *)
NoDanglingPeer ==
  /\ inner.tunnel => TunnelLive
  /\ TunnelLive /\ tun.inner => Live

(* A packet of the size the inner connection may send, with its header,    *)
(* fits in the datagrams of the tunnel it was measured for; and what is    *)
(* encoded for the proxy decodes to the same stream, context and payload.  *)
DatagramsFit ==
  \A d \in dgrams.out :
    /\ Len(d.head) + d.size <= tun.mss
    /\ DecodeDatagram(d) = [ok |-> TRUE, qsid |-> tun.qsid, ctx |-> 0, size |-> d.size]

(* An inner connection that began to close ends, though it waits for the   *)
(* tunnel to end first and the tunnel for nothing.                         *)
ClosingEnds == inner.state \in {CLOSING_QUIC, CLOSING_SOCK} ~> inner.closed
=============================================================================
