-------------------------- MODULE SMPServerProofs --------------------------
(***************************************************************************)
(* Proofs about SMPServer, for any clients, connection objects and bounds: *)
(* the socket outlives everybody who writes to it, and a connection object *)
(* that ends leaves no QUIC connection behind unless a repeated Initial    *)
(* packet replaced the first one.                                          *)
(***************************************************************************)
EXTENDS SMPServer, TLAPS

LibStates == {"none", "connecting", "open", "closing"}

(* 0, or what the library may name its next connection.                    *)
QuicIds == {0} \cup Quics \cup {(CHOOSE i \in Quics : f[i] = "none") : f \in [Quics -> LibStates]}

TaskNames == {"initial", "accept", "reject", "send", "close"}

ConnType ==
  [life : {"none", "live", "gone"}, key : Clients \cup {NULL}, cid : Clients \cup {NULL},
   state : {FREED, CLOSING_QUIC, HANDSHAKE, CONNECTING, CONNECTED}, new : {FREED, MAX},
   keep : BOOLEAN, quic : QuicIds, lib : [Quics -> LibStates], stream : {"none", "open", "freed"},
   q : Seq(TaskNames), detached : BOOLEAN, closed : {"no", "notified", "told"}, sends : Nat,
   initials : Nat, reset : BOOLEAN, stale : BOOLEAN]

SrvType ==
  [state : {FREED, SVR_INIT, SVR_DRAIN, SVR_WORKING}, new : {FREED, MAX},
   conns : [Clients -> Objs \cup {NULL}], udp : {"open", "closing", "closed", "gone"},
   lost : BOOLEAN, engine : BOOLEAN, deleted : BOOLEAN, closes : Nat]

RqType == [t : {"create"}, x : Clients] \cup [t : {"close", "check", "udpClosed", "told"}, x : {NULL}]
JsType ==
  [t : {"newConn"}, x : Clients] \cup [t : {"accept", "closed"}, x : Objs] \cup [t : {"close"}, x : {NULL}]

TypeInv ==
  /\ conn \in [Objs -> ConnType] /\ srv \in SrvType /\ rq \in Seq(RqType) /\ jsq \in Seq(JsType)
  /\ sent \in [Clients -> Nat]

(* A connection object: until a second Initial packet comes, the library   *)
(* has at most the QUIC connection the object knows of; the object         *)
(* detaches without one, before it leaves the map.                         *)
Good(b) ==
  /\ b.initials = 0 => b.quic = 0
  /\ b.initials <= 1 => \A i \in Quics : b.lib[i] # "none" => b.quic = i
  /\ b.detached => b.state = FREED /\ b.quic = 0
  /\ b.closed # "no" => b.detached
  /\ b.cid \in {b.key, NULL}

(* Live objects are in the map until they leave it themselves.             *)
Mapped(b, o, s) == b.life = "live" /\ b.closed = "no" => b.key \in Clients /\ s.conns[b.key] = o

(* The stages of the server's end.                                         *)
SrvGood(s) ==
  /\ s.state # SVR_WORKING => s.new = FREED
  /\ s.state \in {FREED, SVR_INIT} => \A k \in Clients : s.conns[k] = NULL
  /\ s.udp = "closing" \/ (s.udp \in {"closed", "gone"} /\ ~s.lost) => s.state \in {FREED, SVR_INIT}

UdpTold(r, s) == \A i \in DOMAIN r : r[i].t = "udpClosed" => s.udp \in {"closed", "gone"}

IInv ==
  /\ TypeInv /\ SrvGood(srv) /\ UdpTold(rq, srv)
  /\ \A o \in Objs : Good(conn[o]) /\ Mapped(conn[o], o, srv)
-----------------------------------------------------------------------------
(* What the tasks and callbacks of a connection do to its object.          *)

Sound(b) == b \in ConnType /\ Good(b)

Keeps(b, d) == d.life = b.life /\ d.key = b.key /\ d.cid = b.cid /\ d.closed = b.closed

LEMMA Fields ==
  ASSUME NEW b \in ConnType
  PROVE  /\ b.life \in {"none", "live", "gone"} /\ b.key \in Clients \cup {NULL}
         /\ b.cid \in Clients \cup {NULL}
         /\ b.state \in {FREED, CLOSING_QUIC, HANDSHAKE, CONNECTING, CONNECTED}
         /\ b.new \in {FREED, MAX} /\ b.keep \in BOOLEAN /\ b.quic \in QuicIds
         /\ b.lib \in [Quics -> LibStates] /\ b.stream \in {"none", "open", "freed"}
         /\ b.q \in Seq(TaskNames) /\ b.detached \in BOOLEAN
         /\ b.closed \in {"no", "notified", "told"} /\ b.sends \in Nat /\ b.initials \in Nat
         /\ b.reset \in BOOLEAN /\ b.stale \in BOOLEAN
BY DEF ConnType

LEMMA Zero ==
  0 \in QuicIds /\ 0 \notin Quics /\ Quics \subseteq QuicIds
BY DEF QuicIds, Quics

LEMMA PostKeeps ==
  ASSUME NEW b, Sound(b), NEW t \in TaskNames
  PROVE  Sound(Post(b, t)) /\ Keeps(b, Post(b, t)) /\ Post(b, t).state = b.state
<1>1. CASE b.detached
  BY <1>1 DEF Post, Keeps
<1>2. CASE ~b.detached
  <2> DEFINE d == [b EXCEPT !.q = Append(@, t)]
  <2>1. b \in ConnType /\ Append(b.q, t) \in Seq(TaskNames)
    BY Fields DEF Sound
  <2>2. d \in ConnType
    BY <2>1, ZenonT(60) DEF ConnType
  <2>3. /\ Keeps(b, d) /\ d.state = b.state /\ d.initials = b.initials /\ d.quic = b.quic
        /\ d.lib = b.lib /\ d.detached = b.detached
    BY <2>1 DEF ConnType, Keeps
  <2>4. Post(b, t) = d
    BY <1>2 DEF Post
  <2> HIDE DEF d
  <2>5. Good(d)
    BY <2>3 DEF Good, Sound, Keeps
  <2> QED BY <2>2, <2>3, <2>4, <2>5 DEF Sound
<1> QED BY <1>1, <1>2

LEMMA CallKeeps ==
  ASSUME NEW b, Sound(b), NEW t \in TaskNames
  PROVE  Sound(Call(b, t)) /\ Keeps(b, Call(b, t)) /\ Call(b, t).state = b.state
BY PostKeeps DEF Call, Keeps

LEMMA SetStateKeeps ==
  ASSUME NEW b, Sound(b)
  PROVE  LET d == SetState(b, FREED)
         IN Sound(d) /\ Keeps(b, d) /\ d.state = b.state /\ d.quic = b.quic /\ d.lib = b.lib
<1> DEFINE d == [b EXCEPT !.new = FREED]
<1>1. b \in ConnType
  BY DEF Sound
<1>2. d \in ConnType
  BY <1>1, ZenonT(60) DEF ConnType
<1>3. /\ Keeps(b, d) /\ d.state = b.state /\ d.initials = b.initials /\ d.quic = b.quic
      /\ d.lib = b.lib /\ d.detached = b.detached
  BY <1>1 DEF ConnType, Keeps
<1>4. SetState(b, FREED) = d
  BY DEF SetState
<1> HIDE DEF d
<1>5. Good(d)
  BY <1>3 DEF Good, Sound, Keeps
<1> QED BY <1>2, <1>3, <1>4, <1>5 DEF Sound

LEMMA CloseCheckKeeps ==
  ASSUME NEW b, Sound(b)
  PROVE  Sound(CloseCheck(b)) /\ Keeps(b, CloseCheck(b))
<1> DEFINE l == [i \in Quics |-> IF i = b.quic THEN "closing" ELSE b.lib[i]]
           c == [b EXCEPT !.keep = FALSE, !.state = CLOSING_QUIC, !.lib = l]
           d == IF b.state <= CLOSING_QUIC THEN b ELSE c
           e == [d EXCEPT !.detached = TRUE, !.state = FREED]
<1>0. b \in ConnType /\ Good(b)
  BY DEF Sound
<1>1. l \in [Quics -> LibStates]
  BY <1>0, Fields DEF LibStates
<1>2. \A i \in Quics : l[i] # "none" => b.lib[i] # "none" \/ i = b.quic
  OBVIOUS
<1>3. CloseCheck(b) = IF ~Closing(b) THEN b
                      ELSE IF d.state = CLOSING_QUIC /\ d.quic = 0 THEN e ELSE d
  BY DEF CloseCheck
<1>4. CLOSING_QUIC \in {FREED, CLOSING_QUIC, HANDSHAKE, CONNECTING, CONNECTED}
      /\ FREED \in {FREED, CLOSING_QUIC, HANDSHAKE, CONNECTING, CONNECTED}
      /\ FALSE \in BOOLEAN /\ TRUE \in BOOLEAN
  OBVIOUS
<1> HIDE DEF l
<1>5. c \in ConnType
  BY <1>0, <1>1, <1>4, ZenonT(60) DEF ConnType
<1>6. /\ Keeps(b, c) /\ c.state = CLOSING_QUIC /\ c.initials = b.initials /\ c.quic = b.quic
      /\ c.lib = l /\ c.detached = b.detached
  BY <1>0, ZenonT(60) DEF ConnType, Keeps
<1> HIDE DEF c
<1>7. b.state \in Int /\ (b.state = FREED => b.state <= CLOSING_QUIC)
  BY <1>0, Fields DEF FREED, CLOSING_QUIC, HANDSHAKE, CONNECTING, CONNECTED
<1>8. ~(b.state <= CLOSING_QUIC) => Good(c)
  BY <1>0, <1>2, <1>6, <1>7 DEF Good, Keeps
<1>9. d \in ConnType /\ Good(d) /\ Keeps(b, d)
  BY <1>0, <1>5, <1>6, <1>8 DEF Keeps
<1> HIDE DEF d
<1>10. e \in ConnType
  BY <1>9, <1>4, ZenonT(60) DEF ConnType
<1>11. /\ Keeps(d, e) /\ e.state = FREED /\ e.initials = d.initials /\ e.quic = d.quic
       /\ e.lib = d.lib /\ e.detached = TRUE
  BY <1>9, ZenonT(60) DEF ConnType, Keeps
<1> HIDE DEF e
<1>12. d.quic = 0 => Good(e)
  BY <1>9, <1>11 DEF Good, Keeps
<1> QED
  BY <1>0, <1>3, <1>9, <1>10, <1>11, <1>12 DEF Sound, Keeps

LEMMA SendPacketKeeps ==
  ASSUME NEW b, Sound(b)
  PROVE  Sound(SendPacketInternal(b)) /\ Keeps(b, SendPacketInternal(b))
<1> DEFINE x == b.stale \/ b.stream = "freed"
           d == [b EXCEPT !.stale = x]
<1>1. b \in ConnType /\ x \in BOOLEAN
  BY Fields DEF Sound
<1> HIDE DEF x
<1>2. d \in ConnType
  BY <1>1, ZenonT(60) DEF ConnType
<1>3. /\ Keeps(b, d) /\ d.state = b.state /\ d.initials = b.initials /\ d.quic = b.quic
      /\ d.lib = b.lib /\ d.detached = b.detached
  BY <1>1 DEF ConnType, Keeps
<1>4. SendPacketInternal(b) \in {b, d}
  BY DEF SendPacketInternal, StreamSend, x
<1> HIDE DEF d
<1>5. Good(d)
  BY <1>3 DEF Good, Sound, Keeps
<1> QED BY <1>2, <1>3, <1>4, <1>5 DEF Sound, Keeps

LEMMA AcceptTaskKeeps ==
  ASSUME NEW b, Sound(b), NEW ok \in BOOLEAN
  PROVE  Sound(AcceptTask(b, ok)) /\ Keeps(b, AcceptTask(b, ok))
<1> DEFINE d == SendPacketInternal(b)
           e == SetState(d, FREED)
<1>1. Sound(d) /\ Keeps(b, d)
  BY SendPacketKeeps
<1>2. Sound(e) /\ Keeps(d, e)
  BY <1>1, SetStateKeeps
<1>3. Sound(CloseCheck(e)) /\ Keeps(e, CloseCheck(e))
  BY <1>2, CloseCheckKeeps
<1>4. Sound(CloseCheck(b)) /\ Keeps(b, CloseCheck(b))
  BY CloseCheckKeeps
<1>5. AcceptTask(b, ok) \in {CloseCheck(b), d, CloseCheck(e)}
  BY DEF AcceptTask
<1> HIDE DEF d, e
<1> QED BY <1>1, <1>2, <1>3, <1>4, <1>5 DEF Keeps

LEMMA CloseTaskKeeps ==
  ASSUME NEW b, Sound(b)
  PROVE  Sound(CloseTask(b)) /\ Keeps(b, CloseTask(b))
<1> DEFINE d == IF Closing(b) THEN b ELSE SetState(b, FREED)
<1>1. Sound(d) /\ Keeps(b, d)
  BY SetStateKeeps DEF Keeps
<1>2. CloseTask(b) = CloseCheck(d)
  BY DEF CloseTask
<1> HIDE DEF d
<1>3. Sound(CloseCheck(d)) /\ Keeps(d, CloseCheck(d))
  BY <1>1, CloseCheckKeeps
<1> QED BY <1>1, <1>2, <1>3 DEF Keeps

LEMMA InitialTaskKeeps ==
  ASSUME NEW b, Sound(b), NEW ok \in BOOLEAN
  PROVE  Sound(InitialTask(b, ok)) /\ Keeps(b, InitialTask(b, ok))
<1> DEFINE n == CHOOSE i \in Quics : b.lib[i] = "none"
           x == b.initials + 1
           l == [b.lib EXCEPT ![n] = "connecting"]
           d == [b EXCEPT !.quic = n, !.lib = l, !.initials = x]
           e == [b EXCEPT !.quic = 0, !.initials = x]
           f == SetState(e, FREED)
<1>0. b \in ConnType /\ Good(b) /\ 0 \notin Quics
  BY Zero DEF Sound
<1>1. b.lib \in [Quics -> LibStates] /\ b.initials \in Nat /\ b.detached \in BOOLEAN
  BY <1>0, Fields
<1>2. n \in QuicIds /\ 0 \in QuicIds
  BY <1>1, Zero, Zenon DEF QuicIds
<1>3. x \in Nat /\ (x <= 1 => b.initials = 0) /\ x # 0
  BY <1>1
<1>31. x <= 1 => b.initials <= 1
  BY <1>1
<1>4. InitialTask(b, ok) = IF Closing(b) THEN CloseCheck(b) ELSE IF ok THEN d ELSE CloseCheck(f)
  BY DEF InitialTask
<1> HIDE DEF n
<1>5. l \in [Quics -> LibStates] /\ \A i \in Quics : l[i] # "none" => b.lib[i] # "none" \/ i = n
  BY <1>1 DEF LibStates
<1> HIDE DEF l, x
<1>6. d \in ConnType /\ e \in ConnType
  BY <1>0, <1>2, <1>3, <1>5, ZenonT(60) DEF ConnType
<1>7. /\ Keeps(b, d) /\ d.state = b.state /\ d.initials = x /\ d.quic = n
      /\ d.lib = l /\ d.detached = b.detached
  BY <1>0, ZenonT(60) DEF ConnType, Keeps
<1>8. /\ Keeps(b, e) /\ e.state = b.state /\ e.initials = x /\ e.quic = 0
      /\ e.lib = b.lib /\ e.detached = b.detached
  BY <1>0, ZenonT(60) DEF ConnType, Keeps
<1> HIDE DEF d, e
<1>9. x <= 1 => \A i \in Quics : b.lib[i] = "none"
  <2> SUFFICES ASSUME x <= 1, NEW i \in Quics PROVE b.lib[i] = "none"
    OBVIOUS
  <2>1. b.quic = 0 /\ (b.lib[i] # "none" => b.quic = i)
    BY <1>0, <1>3, <1>31 DEF Good
  <2> QED BY <1>0, <2>1
<1>10. ~Closing(b) => Good(d)
  <2>1. ~Closing(b) => ~b.detached
    BY <1>0 DEF Closing, Good
  <2>2. x <= 1 => \A i \in Quics : l[i] # "none" => n = i
    BY <1>5, <1>9
  <2> QED BY <1>0, <1>3, <1>7, <2>1, <2>2 DEF Good, Keeps
<1>11. Good(e)
  BY <1>0, <1>3, <1>8, <1>9 DEF Good, Keeps
<1>12. Sound(f) /\ Keeps(e, f)
  BY <1>6, <1>11, SetStateKeeps DEF Sound
<1> HIDE DEF f
<1>13. Sound(CloseCheck(f)) /\ Keeps(f, CloseCheck(f))
  BY <1>12, CloseCheckKeeps
<1>14. Sound(CloseCheck(b)) /\ Keeps(b, CloseCheck(b))
  BY CloseCheckKeeps
<1> QED BY <1>4, <1>6, <1>7, <1>8, <1>10, <1>12, <1>13, <1>14 DEF Sound, Keeps

LEMMA RunTaskKeeps ==
  ASSUME NEW b, Sound(b), b.q # <<>>, NEW ok \in BOOLEAN
  PROVE  Sound(RunTask(b, Head(b.q), ok)) /\ Keeps(b, RunTask(b, Head(b.q), ok))
<1> DEFINE d == [b EXCEPT !.q = Tail(b.q)]
<1>1. b \in ConnType /\ Tail(b.q) \in Seq(TaskNames) /\ Head(b.q) \in TaskNames
  BY Fields DEF Sound
<1>2. d \in ConnType
  BY <1>1, ZenonT(60) DEF ConnType
<1>3. /\ Keeps(b, d) /\ d.state = b.state /\ d.initials = b.initials /\ d.quic = b.quic
      /\ d.lib = b.lib /\ d.detached = b.detached
  BY <1>1 DEF ConnType, Keeps
<1>4. RunTask(b, Head(b.q), ok) \in {InitialTask(d, ok), AcceptTask(d, TRUE), AcceptTask(d, FALSE),
                                     SendPacketInternal(d), CloseTask(d)}
  BY <1>1 DEF RunTask, TaskNames
<1> HIDE DEF d
<1>5. Sound(d)
  BY <1>2, <1>3 DEF Good, Sound, Keeps
<1>6. Sound(InitialTask(d, ok)) /\ Keeps(d, InitialTask(d, ok))
  BY <1>5, InitialTaskKeeps
<1>7. \A a \in BOOLEAN : Sound(AcceptTask(d, a)) /\ Keeps(d, AcceptTask(d, a))
  BY <1>5, AcceptTaskKeeps
<1>8. Sound(SendPacketInternal(d)) /\ Keeps(d, SendPacketInternal(d))
  BY <1>5, SendPacketKeeps
<1>9. Sound(CloseTask(d)) /\ Keeps(d, CloseTask(d))
  BY <1>5, CloseTaskKeeps
<1> QED BY <1>3, <1>4, <1>6, <1>7, <1>8, <1>9 DEF Keeps
-----------------------------------------------------------------------------
(* The server.                                                             *)

LEMMA SrvFields ==
  ASSUME NEW s \in SrvType
  PROVE  /\ s.state \in {FREED, SVR_INIT, SVR_DRAIN, SVR_WORKING} /\ s.new \in {FREED, MAX}
         /\ s.conns \in [Clients -> Objs \cup {NULL}]
         /\ s.udp \in {"open", "closing", "closed", "gone"} /\ s.lost \in BOOLEAN
         /\ s.engine \in BOOLEAN /\ s.deleted \in BOOLEAN /\ s.closes \in Nat
BY DEF SrvType

LEMMA RqGrows ==
  ASSUME NEW r \in Seq(RqType), NEW e \in RqType, NEW s, UdpTold(r, s),
         e.t = "udpClosed" => s.udp \in {"closed", "gone"}
  PROVE  Append(r, e) \in Seq(RqType) /\ UdpTold(Append(r, e), s)
<1> DEFINE p == Append(r, e)
<1>1. /\ p \in Seq(RqType) /\ DOMAIN p = DOMAIN r \cup {Len(r) + 1}
      /\ \A i \in DOMAIN r : p[i] = r[i]
      /\ p[Len(r) + 1] = e
  OBVIOUS
<1> HIDE DEF p
<1>2. UdpTold(p, s)
  BY <1>1, Zenon DEF UdpTold
<1> QED BY <1>1, <1>2 DEF p

LEMMA RqTail ==
  ASSUME NEW r \in Seq(RqType), r # <<>>, NEW s, UdpTold(r, s)
  PROVE  /\ Tail(r) \in Seq(RqType) /\ UdpTold(Tail(r), s) /\ Head(r) \in RqType
         /\ Head(r).t = "udpClosed" => s.udp \in {"closed", "gone"}
<1>1. /\ Tail(r) \in Seq(RqType) /\ Head(r) \in RqType /\ Head(r) = r[1] /\ 1 \in DOMAIN r
      /\ \A i \in DOMAIN Tail(r) : i + 1 \in DOMAIN r /\ Tail(r)[i] = r[i + 1]
  OBVIOUS
<1> QED BY <1>1, Zenon DEF UdpTold

LEMMA RqEvents ==
  /\ \A k \in Clients : Event("create", k) \in RqType /\ Event("create", k).t # "udpClosed"
  /\ \A t \in {"close", "check", "told"} : Event(t, NULL) \in RqType /\ Event(t, NULL).t # "udpClosed"
  /\ Event("udpClosed", NULL) \in RqType
BY DEF Event, RqType

LEMMA JsEvents ==
  /\ \A k \in Clients : Event("newConn", k) \in JsType
  /\ \A o \in Objs : Event("accept", o) \in JsType /\ Event("closed", o) \in JsType
  /\ Event("close", NULL) \in JsType
BY DEF Event, JsType

LEMMA EventCases ==
  /\ \A e \in RqType : e.t = "create" => e.x \in Clients
  /\ \A e \in JsType : /\ e.t = "newConn" => e.x \in Clients
                       /\ e.t = "closed" => e.x \in Objs
BY DEF RqType, JsType

LEMMA MappedKeeps ==
  ASSUME NEW b, NEW d, NEW o, NEW s, Keeps(b, d), Mapped(b, o, s)
  PROVE  Mapped(d, o, s)
BY DEF Keeps, Mapped

(* Another record of the server under which the map is the same.           *)
LEMMA MappedElse ==
  ASSUME NEW b, NEW o, NEW s, NEW z, z.conns = s.conns, Mapped(b, o, s)
  PROVE  Mapped(b, o, z)
BY DEF Mapped

AllSound(s) == \A o \in Objs : Sound(conn[o]) /\ Mapped(conn[o], o, s)

LEMMA FromIInv ==
  ASSUME IInv
  PROVE  /\ AllSound(srv) /\ conn \in [Objs -> ConnType] /\ srv \in SrvType /\ SrvGood(srv)
         /\ rq \in Seq(RqType) /\ UdpTold(rq, srv) /\ jsq \in Seq(JsType)
         /\ sent \in [Clients -> Nat]
BY DEF IInv, TypeInv, AllSound, Sound

(* The step of one object.                                                 *)
LEMMA ObjectStep ==
  ASSUME IInv, NEW o \in Objs, NEW b, Sound(b), Mapped(b, o, srv),
         conn' = [conn EXCEPT ![o] = b], UNCHANGED <<srv, rq, sent>>, jsq' \in Seq(JsType)
  PROVE  IInv'
<1>1. AllSound(srv) /\ conn \in [Objs -> ConnType]
  BY FromIInv
<1>2. conn' \in [Objs -> ConnType]
  BY <1>1 DEF Sound
<1>3. \A p \in Objs : conn'[p] = IF p = o THEN b ELSE conn[p]
  BY <1>1
<1>4. \A p \in Objs : Good(conn'[p]) /\ Mapped(conn'[p], p, srv)
  BY <1>1, <1>3 DEF AllSound, Sound
<1> QED BY <1>2, <1>4, FromIInv DEF IInv, TypeInv

LEMMA SrvCloseCheckKeeps ==
  ASSUME NEW s \in SrvType, SrvGood(s), NEW r \in Seq(RqType), UdpTold(r, s), AllSound(s),
         conn \in [Objs -> ConnType],
         SrvCloseCheck(s, r), jsq' \in Seq(JsType), sent' \in [Clients -> Nat]
  PROVE  IInv'
<1> DEFINE closeAll == SrvClosing(s) /\ s.state = SVR_WORKING
           d == IF closeAll THEN [s EXCEPT !.state = SVR_DRAIN] ELSE s
           drained == SrvClosing(s) /\ d.state = SVR_DRAIN /\ Drained(d)
           u == IF d.udp = "open" THEN "closing" ELSE d.udp
           e == IF drained THEN [d EXCEPT !.state = SVR_INIT, !.udp = u] ELSE d
           f == SrvClosing(s) /\ e.state = SVR_INIT /\ e.udp = "gone"
           g == [e EXCEPT !.state = FREED, !.engine = FALSE]
           h == IF f THEN g ELSE e
<1>1. /\ srv' = h /\ rq' = IF f THEN Append(r, Event("told", NULL)) ELSE r
      /\ conn' = [o \in Objs |-> IF closeAll /\ o \in Registered(s)
                                 THEN Call(conn[o], "close") ELSE conn[o]]
  BY DEF SrvCloseCheck
<1>2. s.state # SVR_WORKING => s.new = FREED
  BY DEF SrvGood
<1>3. closeAll => s.new = FREED
  BY SrvFields DEF SrvClosing, SVR_WORKING, FREED, MAX
<1>4. {FREED, SVR_INIT, SVR_DRAIN} \subseteq {FREED, SVR_INIT, SVR_DRAIN, SVR_WORKING}
      /\ SVR_DRAIN \notin {FREED, SVR_INIT} /\ SVR_INIT # SVR_WORKING /\ FREED # SVR_WORKING
      /\ SVR_DRAIN # SVR_WORKING
  BY DEF FREED, SVR_INIT, SVR_DRAIN, SVR_WORKING
<1>5. d \in SrvType
  <2>1. [s EXCEPT !.state = SVR_DRAIN] \in SrvType
    BY <1>4, Zenon DEF SrvType
  <2> QED BY <2>1
<1>6. /\ d.conns = s.conns /\ d.udp = s.udp /\ d.new = s.new /\ d.lost = s.lost
      /\ d.state = IF closeAll THEN SVR_DRAIN ELSE s.state
  BY DEF SrvType
<1> HIDE DEF d, closeAll
<1>7. SrvGood(d)
  <2>1. CASE ~closeAll
    BY <2>1, <1>6 DEF d
  <2>2. CASE closeAll
    <3>1. s.state \notin {FREED, SVR_INIT}
      BY <2>2, <1>4 DEF closeAll, SVR_WORKING, FREED, SVR_INIT
    <3> QED BY <2>2, <3>1, <1>3, <1>4, <1>6 DEF SrvGood
  <2> QED BY <2>1, <2>2
<1>8. u \in {"open", "closing", "closed", "gone"}
  BY <1>5, SrvFields
<1>81. (d.udp \in {"closed", "gone"} => u = d.udp) /\ (u \in {"closed", "gone"} => u = d.udp)
  OBVIOUS
<1> HIDE DEF u
<1>9. e \in SrvType
  <2>1. [d EXCEPT !.state = SVR_INIT, !.udp = u] \in SrvType
    BY <1>4, <1>5, <1>8, Zenon DEF SrvType
  <2> QED BY <2>1, <1>5
<1>10. /\ e.conns = d.conns /\ e.udp = (IF drained THEN u ELSE d.udp) /\ e.new = d.new
       /\ e.lost = d.lost /\ e.state = IF drained THEN SVR_INIT ELSE d.state
  BY <1>5 DEF SrvType
<1>11. drained => d.new = FREED /\ \A k \in Clients : d.conns[k] = NULL
  <2>1. drained => d.new = FREED
    BY <1>4, <1>7 DEF SrvGood
  <2>2. Drained(d) => \A k \in Clients : d.conns[k] = NULL
    BY DEF Drained, Registered
  <2> QED BY <2>1, <2>2
<1> HIDE DEF e, drained
<1>12. SrvGood(e)
  <2>1. CASE ~drained
    BY <2>1, <1>7, <1>10 DEF SrvGood
  <2>2. CASE drained
    BY <2>2, <1>10, <1>11, <1>4 DEF SrvGood
  <2> QED BY <2>1, <2>2
<1>13. e.conns = s.conns /\ (s.udp \in {"closed", "gone"} => e.udp \in {"closed", "gone"})
  BY <1>6, <1>10, <1>81
<1>14. g \in SrvType
  BY <1>4, <1>9, Zenon DEF SrvType
<1>15. /\ g.conns = e.conns /\ g.udp = e.udp /\ g.new = e.new /\ g.lost = e.lost /\ g.state = FREED
  BY <1>9, Zenon DEF SrvType
<1> HIDE DEF g
<1>16. f => SrvGood(g)
  BY <1>12, <1>15, <1>4 DEF SrvGood
<1>17. h \in SrvType /\ SrvGood(h) /\ h.conns = s.conns
       /\ (s.udp \in {"closed", "gone"} => h.udp \in {"closed", "gone"})
  BY <1>9, <1>12, <1>13, <1>14, <1>15, <1>16
<1> HIDE DEF f, h
<1>18. UdpTold(r, h)
  BY <1>17 DEF UdpTold
<1>19. rq' \in Seq(RqType) /\ UdpTold(rq', h)
  BY <1>1, <1>18, RqEvents, RqGrows
<1>20. ASSUME NEW o \in Objs PROVE Sound(conn'[o]) /\ Mapped(conn'[o], o, h)
  <2>1. Sound(conn[o]) /\ Mapped(conn[o], o, h)
    BY <1>17, MappedElse DEF AllSound
  <2>2. Sound(Call(conn[o], "close")) /\ Keeps(conn[o], Call(conn[o], "close"))
    BY <2>1, CallKeeps DEF TaskNames
  <2>3. Mapped(Call(conn[o], "close"), o, h)
    BY <2>1, <2>2, MappedKeeps
  <2>4. conn'[o] \in {conn[o], Call(conn[o], "close")}
    BY <1>1
  <2> QED BY <2>1, <2>2, <2>3, <2>4
<1>21. conn' \in [Objs -> ConnType]
  <2>1. conn' = [o \in Objs |-> conn'[o]]
    BY <1>1
  <2> QED BY <2>1, <1>20 DEF Sound
<1> QED BY <1>1, <1>17, <1>19, <1>20, <1>21 DEF IInv, TypeInv, Sound
-----------------------------------------------------------------------------
(* The steps of the server's threads.                                      *)

(* The server is asked to close, or goes on closing.                       *)
LEMMA AskedToClose ==
  ASSUME NEW s \in SrvType, SrvGood(s), AllSound(s)
  PROVE  LET z == IF SrvClosing(s) THEN s ELSE [s EXCEPT !.new = FREED]
         IN z \in SrvType /\ SrvGood(z) /\ AllSound(z) /\ z.udp = s.udp
<1> DEFINE z == [s EXCEPT !.new = FREED]
<1>1. z \in SrvType
  BY Zenon DEF SrvType
<1>2. z.state = s.state /\ z.conns = s.conns /\ z.udp = s.udp /\ z.lost = s.lost /\ z.new = FREED
  BY DEF SrvType
<1> HIDE DEF z
<1>3. SrvGood(z)
  BY <1>2 DEF SrvGood
<1>4. AllSound(z)
  BY <1>2, MappedElse DEF AllSound
<1> QED BY <1>1, <1>2, <1>3, <1>4 DEF z

LEMMA CreateStep ==
  ASSUME IInv, NEW k \in Clients, NEW r \in Seq(RqType), UdpTold(r, srv), CreateTask(k, r),
         jsq' = jsq, sent' = sent
  PROVE  IInv'
<1>0. /\ AllSound(srv) /\ conn \in [Objs -> ConnType] /\ srv \in SrvType /\ SrvGood(srv)
      /\ jsq \in Seq(JsType) /\ sent \in [Clients -> Nat]
  BY FromIInv
<1>01. "initial" \in TaskNames /\ srv.conns \in [Clients -> Objs \cup {NULL}]
  BY <1>0, SrvFields DEF TaskNames
<1>1. CASE SrvClosing(srv) /\ SrvCloseCheck(srv, r)
  BY <1>0, <1>1, SrvCloseCheckKeeps
<1>2. CASE /\ srv.conns[k] # NULL
           /\ conn' = [conn EXCEPT ![srv.conns[k]] = Call(@, "initial")]
           /\ rq' = r /\ UNCHANGED srv
  <2> DEFINE o == srv.conns[k]
             b == Call(conn[o], "initial")
  <2>1. o \in Objs
    BY <1>01, <1>2
  <2>2. conn' = [conn EXCEPT ![o] = b] /\ rq' = r /\ srv' = srv
    BY <1>2
  <2> HIDE DEF o
  <2>3. Sound(conn[o]) /\ Mapped(conn[o], o, srv)
    BY <1>0, <2>1 DEF AllSound
  <2>4. Sound(b) /\ Keeps(conn[o], b)
    BY <1>01, <2>3, CallKeeps
  <2> HIDE DEF b
  <2>5. Mapped(b, o, srv)
    BY <2>3, <2>4, MappedKeeps
  <2>6. conn' \in [Objs -> ConnType] /\ \A p \in Objs : conn'[p] = IF p = o THEN b ELSE conn[p]
    BY <1>0, <2>1, <2>2, <2>4 DEF Sound
  <2>7. \A p \in Objs : Good(conn'[p]) /\ Mapped(conn'[p], p, srv)
    BY <1>0, <2>4, <2>5, <2>6 DEF AllSound, Sound
  <2> QED BY <1>0, <2>2, <2>6, <2>7 DEF IInv, TypeInv
<1>3. CASE /\ ~SrvClosing(srv) /\ srv.conns[k] = NULL /\ rq' = r
           /\ \E o \in Objs : /\ conn[o].life = "none"
                              /\ conn' = [conn EXCEPT ![o] = Call(Created(k), "initial")]
                              /\ srv' = [srv EXCEPT !.conns[k] = o]
  <2>1. PICK o \in Objs : /\ conn' = [conn EXCEPT ![o] = Call(Created(k), "initial")]
                          /\ srv' = [srv EXCEPT !.conns[k] = o]
    BY <1>3
  <2> DEFINE c == Created(k)
             b == Call(c, "initial")
             m == [srv.conns EXCEPT ![k] = o]
             z == [srv EXCEPT !.conns = m]
  <2>2. Unborn \in ConnType
    BY Zero DEF Unborn, ConnType, LibStates
  <2>3. c \in ConnType
    <3>1. {"live", "none"} \subseteq {"none", "live", "gone"} /\ k \in Clients \cup {NULL} /\ TRUE \in BOOLEAN
          /\ HANDSHAKE \in {FREED, CLOSING_QUIC, HANDSHAKE, CONNECTING, CONNECTED}
      OBVIOUS
    <3> QED BY <2>2, <3>1, ZenonT(60) DEF Created, ConnType
  <2>4. /\ c.life = "live" /\ c.key = k /\ c.cid = k /\ c.closed = "no" /\ c.detached = FALSE
        /\ c.initials = 0 /\ c.quic = 0 /\ c.lib = [i \in Quics |-> "none"]
    BY DEF Created, Unborn
  <2> HIDE DEF c
  <2>5. Sound(c)
    BY <2>3, <2>4 DEF Sound, Good
  <2>6. Sound(b) /\ Keeps(c, b)
    BY <1>01, <2>5, CallKeeps
  <2> HIDE DEF b
  <2>7. conn' = [conn EXCEPT ![o] = b] /\ srv' = z
    BY <2>1 DEF b, c
  <2>8. m \in [Clients -> Objs \cup {NULL}] /\ m[k] = o /\ \A l \in Clients \ {k} : m[l] = srv.conns[l]
    BY <1>01
  <2> HIDE DEF m
  <2>9. z \in SrvType
    BY <1>0, <2>8, Zenon DEF SrvType
  <2>10. z.state = srv.state /\ z.new = srv.new /\ z.conns = m /\ z.udp = srv.udp /\ z.lost = srv.lost
    BY <1>0 DEF SrvType
  <2> HIDE DEF z
  <2>11. srv.state = SVR_WORKING
    <3>0. srv.state \in {FREED, SVR_INIT, SVR_DRAIN, SVR_WORKING} /\ ~SrvClosing(srv)
      BY <1>0, <1>3, SrvFields
    <3>1. srv.new # FREED
      BY <3>0 DEF SrvClosing, FREED, SVR_INIT, SVR_DRAIN, SVR_WORKING
    <3> QED BY <1>0, <3>1 DEF SrvGood
  <2>12. SrvGood(z)
    BY <1>0, <2>10, <2>11 DEF SrvGood, FREED, SVR_INIT, SVR_WORKING
  <2>13. UdpTold(r, z)
    BY <2>10 DEF UdpTold
  <2>14. conn' \in [Objs -> ConnType] /\ \A p \in Objs : conn'[p] = IF p = o THEN b ELSE conn[p]
    BY <1>0, <2>6, <2>7 DEF Sound
  <2>15. Mapped(b, o, z)
    BY <2>4, <2>6, <2>8, <2>10 DEF Mapped, Keeps
  <2>16. ASSUME NEW p \in Objs, p # o PROVE Mapped(conn[p], p, z)
    <3> SUFFICES ASSUME conn[p].life = "live", conn[p].closed = "no"
                 PROVE  conn[p].key \in Clients /\ m[conn[p].key] = p
      BY <2>10 DEF Mapped
    <3>1. conn[p].key \in Clients /\ srv.conns[conn[p].key] = p
      BY <1>0 DEF AllSound, Mapped
    <3>2. conn[p].key # k
      BY <3>1, <1>3, ServerAssumption
    <3> QED BY <3>1, <3>2, <2>8
  <2>17. \A p \in Objs : Good(conn'[p]) /\ Mapped(conn'[p], p, z)
    BY <1>0, <2>6, <2>14, <2>15, <2>16 DEF AllSound, Sound
  <2> QED BY <1>0, <1>3, <2>7, <2>9, <2>12, <2>13, <2>14, <2>17 DEF IInv, TypeInv
<1> QED BY <1>1, <1>2, <1>3 DEF CreateTask

LEMMA RuntimeStep ==
  ASSUME IInv, RuntimeTask
  PROVE  IInv'
<1>0. /\ AllSound(srv) /\ conn \in [Objs -> ConnType] /\ srv \in SrvType /\ SrvGood(srv)
      /\ rq \in Seq(RqType) /\ UdpTold(rq, srv) /\ jsq \in Seq(JsType) /\ sent \in [Clients -> Nat]
  BY FromIInv
<1> DEFINE t == Head(rq).t
           r == Tail(rq)
<1>1. rq # <<>> /\ sent' = sent
  BY DEF RuntimeTask
<1>2. r \in Seq(RqType) /\ UdpTold(r, srv) /\ (t = "udpClosed" => srv.udp \in {"closed", "gone"})
      /\ Head(rq) \in RqType
  BY <1>0, <1>1, RqTail
<1>3. CASE t = "create" /\ CreateTask(Head(rq).x, r) /\ UNCHANGED jsq
  <2>1. Head(rq).x \in Clients
    BY <1>2, <1>3, EventCases
  <2> QED BY <1>1, <1>2, <1>3, <2>1, CreateStep
<1>4. CASE /\ t = "close" /\ UNCHANGED jsq
           /\ SrvCloseCheck(IF SrvClosing(srv) THEN srv ELSE [srv EXCEPT !.new = FREED], r)
  <2> DEFINE z == IF SrvClosing(srv) THEN srv ELSE [srv EXCEPT !.new = FREED]
  <2>1. z \in SrvType /\ SrvGood(z) /\ AllSound(z) /\ z.udp = srv.udp
    BY <1>0, AskedToClose
  <2>2. SrvCloseCheck(z, r) /\ jsq' = jsq
    BY <1>4
  <2> HIDE DEF z
  <2>3. UdpTold(r, z)
    BY <1>2, <2>1 DEF UdpTold
  <2> QED BY <1>0, <1>1, <1>2, <2>1, <2>2, <2>3, SrvCloseCheckKeeps
<1>5. CASE t = "check" /\ SrvCloseCheck(srv, r) /\ UNCHANGED jsq
  BY <1>0, <1>1, <1>2, <1>5, SrvCloseCheckKeeps
<1>6. CASE t = "udpClosed" /\ UdpClosedTask(r) /\ UNCHANGED jsq
  <2> DEFINE s == [srv EXCEPT !.udp = "gone"]
             z == IF SrvClosing(s) THEN s ELSE [s EXCEPT !.new = FREED]
  <2>1. s \in SrvType
    BY <1>0, Zenon DEF SrvType
  <2>2. s.state = srv.state /\ s.new = srv.new /\ s.conns = srv.conns /\ s.udp = "gone" /\ s.lost = srv.lost
    BY <1>0 DEF SrvType
  <2>3. SrvCloseCheck(z, r) /\ jsq' = jsq
    BY <1>6 DEF UdpClosedTask
  <2> HIDE DEF s
  <2>4. SrvGood(s)
    BY <1>0, <1>2, <1>6, <2>2 DEF SrvGood
  <2>5. AllSound(s)
    BY <1>0, <2>2, MappedElse DEF AllSound
  <2>6. z \in SrvType /\ SrvGood(z) /\ AllSound(z) /\ z.udp = s.udp
    BY <2>1, <2>4, <2>5, AskedToClose
  <2> HIDE DEF z
  <2>7. UdpTold(r, z)
    BY <2>2, <2>6 DEF UdpTold
  <2> QED BY <1>0, <1>1, <1>2, <2>3, <2>6, <2>7, SrvCloseCheckKeeps
<1>7. CASE /\ t = "told" /\ Exchange("close", NULL) /\ rq' = r /\ UNCHANGED <<conn, srv>>
  <2>1. jsq' \in Seq(JsType)
    BY <1>0, <1>7, JsEvents DEF Exchange
  <2> QED BY <1>0, <1>1, <1>2, <1>7, <2>1 DEF IInv, TypeInv, AllSound, Sound
<1> QED BY <1>3, <1>4, <1>5, <1>6, <1>7 DEF RuntimeTask

LEMMA SocketStep ==
  ASSUME IInv, OnUdpClosed \/ \E k \in Clients : OnRecvInitial(k)
  PROVE  IInv'
<1>0. /\ AllSound(srv) /\ conn \in [Objs -> ConnType] /\ srv \in SrvType /\ SrvGood(srv)
      /\ rq \in Seq(RqType) /\ UdpTold(rq, srv) /\ jsq \in Seq(JsType) /\ sent \in [Clients -> Nat]
  BY FromIInv
<1>1. CASE OnUdpClosed
  <2> DEFINE l == (srv.udp = "open")
             z == [srv EXCEPT !.udp = "closed", !.lost = l]
  <2>1. srv' = z /\ rq' = Append(rq, Event("udpClosed", NULL)) /\ conn' = conn /\ jsq' = jsq /\ sent' = sent
        /\ srv.udp \in {"open", "closing"}
    BY <1>1 DEF OnUdpClosed
  <2>2. l \in BOOLEAN
    OBVIOUS
  <2>3. ~l => srv.udp = "closing"
    BY <2>1
  <2> HIDE DEF l
  <2>4. z \in SrvType
    BY <1>0, <2>2, Zenon DEF SrvType
  <2>5. z.state = srv.state /\ z.new = srv.new /\ z.conns = srv.conns /\ z.udp = "closed" /\ z.lost = l
    BY <1>0 DEF SrvType
  <2> HIDE DEF z
  <2>6. SrvGood(z)
    BY <1>0, <2>3, <2>5 DEF SrvGood
  <2>7. AllSound(z)
    BY <1>0, <2>5, MappedElse DEF AllSound
  <2>8. UdpTold(rq, z)
    BY <2>5 DEF UdpTold
  <2>9. rq' \in Seq(RqType) /\ UdpTold(rq', z)
    BY <1>0, <2>1, <2>5, <2>8, RqEvents, RqGrows
  <2> QED BY <1>0, <2>1, <2>4, <2>6, <2>7, <2>9 DEF IInv, TypeInv, AllSound, Sound
<1>2. ASSUME NEW k \in Clients, OnRecvInitial(k) PROVE IInv'
  <2>1. sent' \in [Clients -> Nat]
    BY <1>0, <1>2 DEF OnRecvInitial
  <2>2. CASE SrvCloseCheck(srv, rq) /\ UNCHANGED jsq
    BY <1>0, <2>1, <2>2, SrvCloseCheckKeeps
  <2>3. CASE Exchange("newConn", k) /\ UNCHANGED <<conn, srv, rq>>
    <3>1. jsq' \in Seq(JsType)
      BY <1>0, <2>3, JsEvents DEF Exchange
    <3> QED BY <1>0, <2>1, <2>3, <3>1 DEF IInv, TypeInv, AllSound, Sound
  <2> QED BY <1>2, <2>2, <2>3 DEF OnRecvInitial
<1> QED BY <1>1, <1>2
-----------------------------------------------------------------------------
(* The steps of a connection's worker and of the JavaScript thread.        *)

(* Whatever a callback does to one object keeps the invariant when the     *)
(* object is still sound and still the same connection.                    *)
LEMMA CallbackStep ==
  ASSUME IInv, NEW o \in Objs, NEW b, Sound(b), Keeps(conn[o], b),
         conn' = [conn EXCEPT ![o] = b], UNCHANGED <<srv, rq, sent>>, jsq' \in Seq(JsType)
  PROVE  IInv'
<1>1. Mapped(conn[o], o, srv)
  BY FromIInv DEF AllSound
<1>2. Mapped(b, o, srv)
  BY <1>1, MappedKeeps
<1> QED BY <1>2, ObjectStep

LEMMA WorkerStep ==
  ASSUME IInv, NEW o \in Objs, WorkerTask(o)
  PROVE  IInv'
<1>1. PICK ok \in BOOLEAN :
        LET b == RunTask(conn[o], Head(conn[o].q), ok) IN
        /\ conn' = [conn EXCEPT ![o] = b]
        /\ IF b.quic \notin {0, conn[o].quic} THEN Exchange("accept", o) ELSE UNCHANGED jsq
  BY DEF WorkerTask
<1> DEFINE b == RunTask(conn[o], Head(conn[o].q), ok)
<1>2. Sound(conn[o]) /\ jsq \in Seq(JsType)
  BY FromIInv DEF AllSound
<1>3. conn[o].q # <<>> /\ UNCHANGED <<srv, rq, sent>>
  BY DEF WorkerTask
<1>4. Sound(b) /\ Keeps(conn[o], b)
  BY <1>2, <1>3, RunTaskKeeps
<1>5. conn' = [conn EXCEPT ![o] = b]
  BY <1>1
<1>6. jsq' = jsq \/ jsq' = Append(jsq, Event("accept", o))
  BY <1>1 DEF Exchange
<1>7. jsq' \in Seq(JsType)
  BY <1>2, <1>6, JsEvents
<1> HIDE DEF b
<1> QED BY <1>3, <1>4, <1>5, <1>7, CallbackStep

(* The fields Good is about.                                               *)
Same(b, d) == d.initials = b.initials /\ d.quic = b.quic /\ d.detached = b.detached

LEMMA CallbacksStep ==
  ASSUME IInv, NEW o \in Objs,
         \/ OnHandshakeFinished(o) \/ OnStreamCreate(o) \/ OnConnect(o)
         \/ OnStreamClose(o) \/ WriteFails(o)
  PROVE  IInv'
<1> DEFINE b == conn[o]
<1>0. b \in ConnType /\ Good(b) /\ conn \in [Objs -> ConnType] /\ jsq \in Seq(JsType)
  BY FromIInv DEF AllSound, Sound
<1>01. /\ CONNECTING \in {FREED, CLOSING_QUIC, HANDSHAKE, CONNECTING, CONNECTED}
       /\ CONNECTED \in {FREED, CLOSING_QUIC, HANDSHAKE, CONNECTING, CONNECTED}
       /\ {"open", "freed"} \subseteq {"none", "open", "freed"} /\ TRUE \in BOOLEAN
  OBVIOUS
<1>02. ~Closing(b) => ~b.detached
  BY <1>0 DEF Closing, Good
<1>1. CASE OnHandshakeFinished(o)
  <2> DEFINE l == [b.lib EXCEPT ![b.quic] = "open"]
             d == [b EXCEPT !.state = CONNECTING, !.lib = l]
  <2>1. ~Closing(b) /\ UNCHANGED <<srv, rq, jsq, sent>>
        /\ conn' = [conn EXCEPT ![o].state = CONNECTING, ![o].lib[b.quic] = "open"]
    BY <1>1 DEF OnHandshakeFinished, Working
  <2>2. conn' = [conn EXCEPT ![o] = d]
    BY <2>1, <1>0
  <2>3. l \in [Quics -> LibStates] /\ \A i \in Quics : l[i] # "none" => b.lib[i] # "none" \/ b.quic = i
    BY <1>0, Fields DEF LibStates
  <2> HIDE DEF l
  <2>4. d \in ConnType
    BY <1>0, <1>01, <2>3, ZenonT(60) DEF ConnType
  <2>5. Keeps(b, d) /\ Same(b, d) /\ d.lib = l
    BY <1>0 DEF ConnType, Keeps, Same
  <2> HIDE DEF d
  <2>6. Good(d)
    BY <1>0, <1>02, <2>1, <2>3, <2>5 DEF Good, Keeps, Same
  <2> QED BY <1>0, <2>1, <2>2, <2>4, <2>5, <2>6, CallbackStep DEF Sound
<1>2. CASE OnStreamCreate(o)
  <2> DEFINE d == [b EXCEPT !.stream = "open"]
  <2>1. UNCHANGED <<srv, rq, jsq, sent>> /\ conn' = [conn EXCEPT ![o] = d]
    BY <1>2 DEF OnStreamCreate
  <2>2. d \in ConnType
    BY <1>0, <1>01, ZenonT(60) DEF ConnType
  <2>3. Keeps(b, d) /\ Same(b, d) /\ d.lib = b.lib /\ d.state = b.state
    BY <1>0 DEF ConnType, Keeps, Same
  <2> HIDE DEF d
  <2>4. Good(d)
    BY <1>0, <2>3 DEF Good, Keeps, Same
  <2> QED BY <1>0, <2>1, <2>2, <2>3, <2>4, CallbackStep DEF Sound
<1>3. CASE OnConnect(o)
  <2> DEFINE d == [b EXCEPT !.state = CONNECTED]
  <2>1. ~Closing(b) /\ UNCHANGED <<srv, rq, jsq, sent>> /\ conn' = [conn EXCEPT ![o] = d]
    BY <1>3 DEF OnConnect, Readable, Working
  <2>2. d \in ConnType
    BY <1>0, <1>01, ZenonT(60) DEF ConnType
  <2>3. Keeps(b, d) /\ Same(b, d) /\ d.lib = b.lib
    BY <1>0 DEF ConnType, Keeps, Same
  <2> HIDE DEF d
  <2>4. Good(d)
    BY <1>0, <1>02, <2>1, <2>3 DEF Good, Keeps, Same
  <2> QED BY <1>0, <2>1, <2>2, <2>3, <2>4, CallbackStep DEF Sound
<1>4. CASE OnStreamClose(o)
  <2> DEFINE d == [b EXCEPT !.stream = "freed", !.reset = TRUE]
  <2>1. UNCHANGED <<srv, rq, jsq, sent>> /\ conn' = [conn EXCEPT ![o] = d]
    BY <1>0, <1>4 DEF OnStreamClose
  <2>2. d \in ConnType
    BY <1>0, <1>01, ZenonT(60) DEF ConnType
  <2>3. Keeps(b, d) /\ Same(b, d) /\ d.lib = b.lib /\ d.state = b.state
    BY <1>0 DEF ConnType, Keeps, Same
  <2> HIDE DEF d
  <2>4. Good(d)
    BY <1>0, <2>3 DEF Good, Keeps, Same
  <2> QED BY <1>0, <2>1, <2>2, <2>3, <2>4, CallbackStep DEF Sound
<1>5. CASE WriteFails(o)
  <2> DEFINE d == SetState(b, FREED)
             e == CloseCheck(d)
  <2>1. UNCHANGED <<srv, rq, jsq, sent>> /\ conn' = [conn EXCEPT ![o] = e]
    BY <1>5 DEF WriteFails
  <2>2. Sound(d) /\ Keeps(b, d)
    BY <1>0, SetStateKeeps DEF Sound
  <2> HIDE DEF d
  <2>3. Sound(e) /\ Keeps(d, e)
    BY <2>2, CloseCheckKeeps
  <2> HIDE DEF e
  <2>4. Keeps(b, e)
    BY <2>2, <2>3 DEF Keeps
  <2> QED BY <1>0, <2>1, <2>3, <2>4, CallbackStep
<1> QED BY <1>1, <1>2, <1>3, <1>4, <1>5

LEMMA UpdataStep ==
  ASSUME IInv, NEW o \in Objs, OnUpdataCID(o)
  PROVE  IInv'
<1> DEFINE b == conn[o]
           d == [b EXCEPT !.cid = NULL]
<1>0. b \in ConnType /\ Good(b) /\ Mapped(b, o, srv) /\ jsq \in Seq(JsType)
  BY FromIInv DEF AllSound, Sound
<1>1. UNCHANGED <<srv, rq, jsq, sent>> /\ conn' = [conn EXCEPT ![o] = d]
  BY DEF OnUpdataCID
<1>2. d \in ConnType
  BY <1>0, ZenonT(60) DEF ConnType
<1>3. /\ Same(b, d) /\ d.lib = b.lib /\ d.state = b.state /\ d.cid = NULL
      /\ d.key = b.key /\ d.life = b.life /\ d.closed = b.closed
  BY <1>0 DEF ConnType, Same
<1> HIDE DEF d
<1>4. Good(d) /\ Mapped(d, o, srv)
  BY <1>0, <1>3 DEF Good, Mapped, Same
<1> QED BY <1>0, <1>1, <1>2, <1>4, ObjectStep DEF Sound

LEMMA OnCloseStep ==
  ASSUME IInv, NEW o \in Objs, NEW i \in Quics, OnClose(o, i)
  PROVE  IInv'
<1> DEFINE b == conn[o]
           l == [b.lib EXCEPT ![i] = "none"]
           s == IF b.stream = "open" THEN "freed" ELSE b.stream
           d == [b EXCEPT !.lib = l, !.quic = 0, !.stream = s]
           e == IF Closing(d) THEN d ELSE SetState(d, FREED)
           c == CloseCheck(e)
<1>0. b \in ConnType /\ Good(b) /\ jsq \in Seq(JsType) /\ 0 \in QuicIds
  BY FromIInv, Zero DEF AllSound, Sound
<1>1. UNCHANGED <<srv, rq, jsq, sent>> /\ conn' = [conn EXCEPT ![o] = c] /\ b.lib[i] # "none"
      /\ b.state # FREED
  BY DEF OnClose
<1>2. l \in [Quics -> LibStates] /\ l[i] = "none" /\ \A j \in Quics \ {i} : l[j] = b.lib[j]
  BY <1>0, Fields DEF LibStates
<1>3. s \in {"none", "open", "freed"}
  BY <1>0, Fields
<1>4. b.initials <= 1 => \A j \in Quics : l[j] = "none"
  BY <1>0, <1>1, <1>2 DEF Good
<1> HIDE DEF l, s, c
<1>5. d \in ConnType
  BY <1>0, <1>2, <1>3, ZenonT(60) DEF ConnType
<1>6. /\ Keeps(b, d) /\ d.initials = b.initials /\ d.quic = 0 /\ d.detached = b.detached
      /\ d.lib = l /\ d.state = b.state
  BY <1>0, ZenonT(60) DEF ConnType, Keeps
<1> HIDE DEF d
<1>7. Sound(d)
  BY <1>0, <1>1, <1>4, <1>5, <1>6 DEF Good, Keeps, Sound
<1>8. Sound(e) /\ Keeps(d, e)
  BY <1>7, SetStateKeeps DEF Keeps
<1> HIDE DEF e
<1>9. Sound(c) /\ Keeps(e, c)
  BY <1>8, CloseCheckKeeps DEF c
<1>10. Keeps(b, c)
  BY <1>6, <1>8, <1>9 DEF Keeps
<1> QED BY <1>0, <1>1, <1>9, <1>10, CallbackStep

LEMMA CallStep ==
  ASSUME IInv, NEW o \in Objs,
         Close(o) \/ \E t \in {"accept", "reject", "send"} : Accept(o, t)
  PROVE  IInv'
<1> DEFINE b == conn[o]
<1>0. b \in ConnType /\ Sound(b) /\ Good(b) /\ jsq \in Seq(JsType)
  BY FromIInv DEF AllSound, Sound
<1>1. CASE Close(o)
  <2> DEFINE d == Call(b, "close")
  <2>1. UNCHANGED <<srv, rq, jsq, sent>> /\ conn' = [conn EXCEPT ![o] = d]
    BY <1>1 DEF Close
  <2>2. Sound(d) /\ Keeps(b, d)
    BY <1>0, CallKeeps DEF TaskNames
  <2> HIDE DEF d
  <2> QED BY <1>0, <2>1, <2>2, CallbackStep
<1>2. ASSUME NEW t \in {"accept", "reject", "send"}, Accept(o, t) PROVE IInv'
  <2> DEFINE x == b.sends + 1
             d == [b EXCEPT !.sends = x]
             e == Call(d, t)
  <2>1. UNCHANGED <<srv, rq, jsq, sent>> /\ conn' = [conn EXCEPT ![o] = e]
    BY <1>2 DEF Accept
  <2>2. x \in Nat
    BY <1>0, Fields
  <2> HIDE DEF x
  <2>3. d \in ConnType
    BY <1>0, <2>2, ZenonT(60) DEF ConnType
  <2>4. Keeps(b, d) /\ Same(b, d) /\ d.lib = b.lib /\ d.state = b.state
    BY <1>0 DEF ConnType, Keeps, Same
  <2> HIDE DEF d
  <2>5. Sound(d)
    BY <1>0, <2>3, <2>4 DEF Good, Keeps, Same, Sound
  <2>6. Sound(e) /\ Keeps(d, e)
    BY <2>5, CallKeeps DEF TaskNames
  <2> HIDE DEF e
  <2>7. Keeps(b, e)
    BY <2>4, <2>6 DEF Keeps
  <2> QED BY <1>0, <2>1, <2>6, <2>7, CallbackStep
<1> QED BY <1>1, <1>2
LEMMA NotifyStep ==
  ASSUME IInv, NEW o \in Objs, NotifyConnClosed(o)
  PROVE  IInv'
<1> DEFINE b == conn[o]
           d == [b EXCEPT !.closed = "notified"]
           m == [k \in Clients |-> IF k = b.cid THEN NULL ELSE srv.conns[k]]
           z == [srv EXCEPT !.conns = m]
<1>0. /\ AllSound(srv) /\ conn \in [Objs -> ConnType] /\ srv \in SrvType /\ SrvGood(srv)
      /\ rq \in Seq(RqType) /\ UdpTold(rq, srv) /\ jsq \in Seq(JsType) /\ sent \in [Clients -> Nat]
      /\ b \in ConnType
  BY FromIInv
<1>01. srv.conns \in [Clients -> Objs \cup {NULL}] /\ Good(b) /\ Mapped(b, o, srv)
  BY <1>0, SrvFields DEF AllSound, Sound
<1>1. /\ b.life = "live" /\ b.detached /\ b.closed = "no"
      /\ srv' = z /\ conn' = [conn EXCEPT ![o] = d]
      /\ rq' = Append(rq, Event("check", NULL)) /\ jsq' = jsq /\ sent' = sent
  BY DEF NotifyConnClosed, Ended, Live
<1>2. m \in [Clients -> Objs \cup {NULL}] /\ \A k \in Clients : m[k] = IF k = b.cid THEN NULL ELSE srv.conns[k]
  BY <1>01
<1> HIDE DEF m
<1>3. z \in SrvType
  BY <1>0, <1>2, Zenon DEF SrvType
<1>4. z.state = srv.state /\ z.new = srv.new /\ z.conns = m /\ z.udp = srv.udp /\ z.lost = srv.lost
  BY <1>0 DEF SrvType
<1> HIDE DEF z
<1>5. SrvGood(z)
  BY <1>0, <1>2, <1>4 DEF SrvGood
<1>6. UdpTold(rq, z)
  BY <1>0, <1>4 DEF UdpTold
<1>7. rq' \in Seq(RqType) /\ UdpTold(rq', z)
  BY <1>0, <1>1, <1>6, RqEvents, RqGrows
<1>8. d \in ConnType
  BY <1>0, ZenonT(60) DEF ConnType
<1>9. /\ Same(b, d) /\ d.lib = b.lib /\ d.state = b.state /\ d.closed = "notified"
      /\ d.key = b.key /\ d.cid = b.cid
  BY <1>0 DEF ConnType, Same
<1> HIDE DEF d
<1>10. Good(d) /\ Mapped(d, o, z)
  BY <1>01, <1>1, <1>9 DEF Good, Mapped, Same
<1>11. ASSUME NEW p \in Objs, p # o PROVE Mapped(conn[p], p, z)
  <2> SUFFICES ASSUME conn[p].life = "live", conn[p].closed = "no"
               PROVE  conn[p].key \in Clients /\ m[conn[p].key] = p
    BY <1>4 DEF Mapped
  <2>1. conn[p].key \in Clients /\ srv.conns[conn[p].key] = p
    BY <1>0 DEF AllSound, Mapped
  <2>2. srv.conns[b.key] = o
    BY <1>01, <1>1 DEF Mapped
  <2>3. conn[p].key # b.cid
    BY <2>1, <2>2, <1>01, <1>11, ServerAssumption DEF Good
  <2> QED BY <2>1, <2>3, <1>2
<1>12. conn' \in [Objs -> ConnType] /\ \A p \in Objs : conn'[p] = IF p = o THEN d ELSE conn[p]
  BY <1>0, <1>1, <1>8
<1>13. \A p \in Objs : Good(conn'[p]) /\ Mapped(conn'[p], p, z)
  BY <1>0, <1>10, <1>11, <1>12 DEF AllSound, Sound
<1> QED BY <1>0, <1>1, <1>3, <1>5, <1>7, <1>12, <1>13 DEF IInv, TypeInv

LEMMA OnClosedStep ==
  ASSUME IInv, NEW o \in Objs, OnClosed(o)
  PROVE  IInv'
<1> DEFINE b == conn[o]
           d == [b EXCEPT !.closed = "told"]
<1>0. b \in ConnType /\ Good(b) /\ jsq \in Seq(JsType)
  BY FromIInv DEF AllSound, Sound
<1>1. /\ b.detached /\ conn' = [conn EXCEPT ![o] = d] /\ UNCHANGED <<srv, rq, sent>>
      /\ jsq' = Append(jsq, Event("closed", o))
  BY DEF OnClosed, Ended, ExchangeConn
<1>2. d \in ConnType
  BY <1>0, ZenonT(60) DEF ConnType
<1>3. /\ Same(b, d) /\ d.lib = b.lib /\ d.state = b.state /\ d.closed = "told"
      /\ d.key = b.key /\ d.cid = b.cid
  BY <1>0 DEF ConnType, Same
<1> HIDE DEF d
<1>4. Good(d) /\ Mapped(d, o, srv)
  BY <1>0, <1>1, <1>3 DEF Good, Mapped, Same
<1>5. jsq' \in Seq(JsType)
  BY <1>0, <1>1, JsEvents
<1> QED BY <1>1, <1>2, <1>4, <1>5, ObjectStep DEF Sound

LEMMA JsStep ==
  ASSUME IInv, OnExchangeEvent \/ CloseServer
  PROVE  IInv'
<1>0. /\ AllSound(srv) /\ conn \in [Objs -> ConnType] /\ srv \in SrvType /\ SrvGood(srv)
      /\ rq \in Seq(RqType) /\ UdpTold(rq, srv) /\ jsq \in Seq(JsType) /\ sent \in [Clients -> Nat]
  BY FromIInv
<1>1. CASE CloseServer
  <2> DEFINE x == srv.closes + 1
             z == [srv EXCEPT !.closes = x]
  <2>1. srv' = z /\ rq' = Append(rq, Event("close", NULL)) /\ UNCHANGED <<conn, jsq, sent>>
    BY <1>1 DEF CloseServer
  <2>2. x \in Nat
    BY <1>0, SrvFields
  <2> HIDE DEF x
  <2>3. z \in SrvType
    BY <1>0, <2>2, Zenon DEF SrvType
  <2>4. /\ z.state = srv.state /\ z.new = srv.new /\ z.conns = srv.conns /\ z.udp = srv.udp
        /\ z.lost = srv.lost
    BY <1>0 DEF SrvType
  <2> HIDE DEF z
  <2>5. SrvGood(z) /\ UdpTold(rq, z)
    BY <1>0, <2>4 DEF SrvGood, UdpTold
  <2>6. AllSound(z)
    BY <1>0, <2>4, MappedElse DEF AllSound
  <2>7. rq' \in Seq(RqType) /\ UdpTold(rq', z)
    BY <1>0, <2>1, <2>5, RqEvents, RqGrows
  <2> QED BY <1>0, <2>1, <2>3, <2>5, <2>6, <2>7 DEF IInv, TypeInv, AllSound, Sound
<1>2. CASE OnExchangeEvent
  <2> DEFINE e == Head(jsq)
  <2>1. jsq # <<>> /\ jsq' = Tail(jsq) /\ sent' = sent
    BY <1>2 DEF OnExchangeEvent
  <2>2. jsq' \in Seq(JsType) /\ e \in JsType
    BY <1>0, <2>1
  <2>3. CASE e.t = "newConn" /\ OnJsNewConn(e.x)
    <3>1. e.x \in Clients
      BY <2>2, <2>3, EventCases
    <3>2. rq' \in {rq, Append(rq, Event("create", e.x))} /\ UNCHANGED <<conn, srv>>
      BY <2>3 DEF OnJsNewConn
    <3>3. rq' \in Seq(RqType) /\ UdpTold(rq', srv)
      BY <1>0, <3>1, <3>2, RqEvents, RqGrows
    <3> QED BY <1>0, <2>1, <2>2, <3>2, <3>3 DEF IInv, TypeInv, AllSound, Sound
  <2>4. CASE e.t = "accept" /\ UNCHANGED <<conn, srv, rq>>
    BY <1>0, <2>1, <2>2, <2>4 DEF IInv, TypeInv, AllSound, Sound
  <2>5. CASE e.t = "close" /\ OnJsClose
    <3> DEFINE z == [srv EXCEPT !.deleted = TRUE]
    <3>1. srv' = z /\ UNCHANGED <<conn, rq>>
      BY <2>5 DEF OnJsClose
    <3>2. z \in SrvType
      BY <1>0, Zenon DEF SrvType
    <3>3. /\ z.state = srv.state /\ z.new = srv.new /\ z.conns = srv.conns /\ z.udp = srv.udp
          /\ z.lost = srv.lost
      BY <1>0 DEF SrvType
    <3> HIDE DEF z
    <3>4. SrvGood(z) /\ UdpTold(rq, z)
      BY <1>0, <3>3 DEF SrvGood, UdpTold
    <3>5. AllSound(z)
      BY <1>0, <3>3, MappedElse DEF AllSound
    <3> QED BY <1>0, <2>1, <2>2, <3>1, <3>2, <3>4, <3>5 DEF IInv, TypeInv, AllSound, Sound
  <2>6. CASE e.t = "closed" /\ OnJsClosed(e.x)
    <3> DEFINE o == e.x
               b == conn[o]
               d == [b EXCEPT !.life = "gone"]
    <3>1. o \in Objs
      BY <2>2, <2>6, EventCases
    <3>2. conn' = [conn EXCEPT ![o] = d] /\ UNCHANGED <<srv, rq>>
      BY <2>6 DEF OnJsClosed
    <3> HIDE DEF o
    <3>3. b \in ConnType /\ Good(b)
      BY <1>0, <3>1 DEF AllSound, Sound
    <3>4. d \in ConnType
      BY <3>3, ZenonT(60) DEF ConnType
    <3>5. /\ Same(b, d) /\ d.lib = b.lib /\ d.state = b.state /\ d.closed = b.closed
          /\ d.key = b.key /\ d.cid = b.cid /\ d.life = "gone"
      BY <3>3 DEF ConnType, Same
    <3> HIDE DEF d
    <3>6. Good(d) /\ Mapped(d, o, srv)
      BY <3>3, <3>5 DEF Good, Mapped, Same
    <3> QED BY <2>1, <2>2, <3>1, <3>2, <3>4, <3>6, ObjectStep DEF Sound
  <2> QED BY <1>2, <2>3, <2>4, <2>5, <2>6 DEF OnExchangeEvent
<1> QED BY <1>1, <1>2

-----------------------------------------------------------------------------
(* Every reachable state of the server keeps the bookkeeping IInv states:  *)
(* a live object is in conns_map_ until NotifyConnClosed took it out, the  *)
(* socket closes only after the map was drained, and an object with at     *)
(* most one Initial packet knows every QUIC connection made for it.        *)
THEOREM Invariance == Spec => []IInv
<1>1. Init => IInv
  <2> SUFFICES ASSUME Init PROVE IInv
    OBVIOUS
  <2>1. Unborn \in ConnType
    BY Zero DEF Unborn, ConnType, LibStates
  <2>2. NewServer \in SrvType
    BY DEF NewServer, SrvType
  <2>3. rq \in Seq(RqType) /\ jsq \in Seq(JsType) /\ UdpTold(rq, srv) /\ sent \in [Clients -> Nat]
    BY DEF Init, UdpTold
  <2>4. SrvGood(NewServer)
    BY DEF SrvGood, NewServer, FREED, SVR_INIT, SVR_WORKING
  <2>5. Good(Unborn) /\ \A o \in Objs : Mapped(Unborn, o, srv)
    BY DEF Good, Mapped, Unborn
  <2> QED BY <2>1, <2>2, <2>3, <2>4, <2>5 DEF Init, IInv, TypeInv
<1>2. IInv /\ [Next]_vars => IInv'
  <2> SUFFICES ASSUME IInv, [Next]_vars PROVE IInv'
    OBVIOUS
  <2>1. CASE UNCHANGED vars
    BY <2>1, FromIInv DEF vars, IInv, TypeInv, AllSound, Sound
  <2>2. CASE OnUdpClosed \/ \E k \in Clients : OnRecvInitial(k)
    BY <2>2, SocketStep
  <2>3. CASE RuntimeTask
    BY <2>3, RuntimeStep
  <2>4. CASE OnExchangeEvent \/ CloseServer
    BY <2>4, JsStep
  <2>5. ASSUME NEW o \in Objs, WorkerTask(o) PROVE IInv'
    BY <2>5, WorkerStep
  <2>6. ASSUME NEW o \in Objs,
               \/ OnHandshakeFinished(o) \/ OnStreamCreate(o) \/ OnConnect(o)
               \/ OnStreamClose(o) \/ WriteFails(o)
        PROVE  IInv'
    BY <2>6, CallbacksStep
  <2>7. ASSUME NEW o \in Objs, OnUpdataCID(o) PROVE IInv'
    BY <2>7, UpdataStep
  <2>8. ASSUME NEW o \in Objs, NEW i \in Quics, OnClose(o, i) PROVE IInv'
    BY <2>8, OnCloseStep
  <2>9. ASSUME NEW o \in Objs, NotifyConnClosed(o) PROVE IInv'
    BY <2>9, NotifyStep
  <2>10. ASSUME NEW o \in Objs, OnClosed(o) PROVE IInv'
    BY <2>10, OnClosedStep
  <2>11. ASSUME NEW o \in Objs, Close(o) \/ \E t \in {"accept", "reject", "send"} : Accept(o, t)
         PROVE  IInv'
    BY <2>11, CallStep
  <2> QED
    BY <2>1, <2>2, <2>3, <2>4, <2>5, <2>6, <2>7, <2>8, <2>9, <2>10, <2>11 DEF Next
<1> QED BY <1>1, <1>2, PTL DEF Spec

(* A connection object that detached, and may be deleted by its worker,    *)
(* leaves no QUIC connection that points to it, unless ProcessRecvData got *)
(* a second Initial packet.                                                *)
THEOREM Orphans == Spec => []OrphanQuicOnlyAfterRepeat
<1>1. IInv => OrphanQuicOnlyAfterRepeat
  <2> SUFFICES ASSUME IInv, NEW o \in Objs, conn[o].detached, conn[o].initials <= 1, NEW i \in Quics
               PROVE  conn[o].lib[i] = "none"
    BY DEF OrphanQuicOnlyAfterRepeat
  <2>1. conn[o].quic = 0 /\ (conn[o].lib[i] # "none" => conn[o].quic = i) /\ 0 \notin Quics
    BY Zero DEF IInv, Good
  <2> QED BY <2>1
<1> QED BY <1>1, Invariance, PTL

(* When SMPServer deletes the UDP socket it closed itself, every live      *)
(* connection, each of which holds the raw pointer, has ended.             *)
THEOREM SocketLast == Spec => []SocketOutlivesWriters
<1>1. IInv => SocketOutlivesWriters
  <2> SUFFICES ASSUME IInv, srv.udp = "gone", ~srv.lost, NEW o \in Objs, Live(o)
               PROVE  conn[o].state = FREED
    BY DEF SocketOutlivesWriters
  <2>1. \A k \in Clients : srv.conns[k] = NULL
    BY DEF IInv, SrvGood
  <2>2. Good(conn[o]) /\ Mapped(conn[o], o, srv)
    BY DEF IInv
  <2>3. conn[o].closed # "no"
    BY <2>1, <2>2, ServerAssumption DEF Mapped, Live
  <2> QED BY <2>2, <2>3 DEF Good
<1> QED BY <1>1, Invariance, PTL
=============================================================================
