------------------------- MODULE SMPConnectorProofs -------------------------
(***************************************************************************)
(* Proofs about SMPConnector, for any set of connections, of Connect calls *)
(* and of interfaces, and any number of closes, restarts and path changes. *)
(*                                                                         *)
(* Good is what every handler of the worker thread keeps of a connection;  *)
(* there is one lemma per operator a handler is made of, and one per       *)
(* action.                                                                 *)
(***************************************************************************)
EXTENDS SMPConnector, FiniteSetTheorems, SequenceTheorems, TLAPS

Nets == Ifaces \cup {NULL}
Udps == {"open", "stopping", "closed", "gone"}
Libs == {"none", "connecting", "open", "closing"}
EventType == [t : {"restart", "stop"}, x : Nets]
TaskType == {k \in [t : TaskKinds, x : Stubs \cup Nets] : k.t = "restart" => k.x \in Nets}

Connection ==
  [life : {"none", "live", "deleted"}, state : FREED..CONNECTED, new : {FREED, MAX},
   status : Statuses, keep : BOOLEAN, quic : {0} \cup Quics, lib : [Quics -> Libs],
   rpc : Stubs \cup {NULL}, timer : BOOLEAN,
   udp : Udps, handle : Nets, sock : Nets, local : Nets \cup {"unset"},
   work : Seq(EventType), drain : BOOLEAN, target : Nets, up : BOOLEAN,
   missed : BOOLEAN, restarts : 0..MaxRestart, q : Seq(TaskType), detached : BOOLEAN,
   closed : {"no", "notified", "told"}, ans : [Stubs -> Seq(Statuses)],
   posted : SUBSET Stubs, closes : 0..MaxClose, late : BOOLEAN]

(* The Connects that wait in the queue. *)
IsConnect(t) == t.t = "connect"
Queued(b) == {b.q[i].x : i \in {j \in DOMAIN b.q : IsConnect(b.q[j])}}
Distinct(b) ==
  \A i, j \in DOMAIN b.q : IsConnect(b.q[i]) /\ IsConnect(b.q[j]) /\ b.q[i].x = b.q[j].x => i = j
Restarted(b) == \E j \in DOMAIN b.q : b.q[j].t = "restarted"

(* The Connects the worker thread has taken, and the QUIC connections.     *)
Taken(b) == b.posted \ Queued(b)
Used(b) == {i \in Quics : b.lib[i] # "none"}

Unanswered(b, s) == s \in b.posted /\ b.ans[s] = <<>>

(* A Connect that waits, or that the connection took, has no answer yet.   *)
Answering(b) ==
  /\ Distinct(b)
  /\ \A s \in Queued(b) : s \in Stubs /\ Unanswered(b, s) /\ s # b.rpc
  /\ b.rpc # NULL => Unanswered(b, b.rpc)
  /\ \A s \in Stubs : Len(b.ans[s]) <= 1 /\ (s \notin b.posted => b.ans[s] = <<>>)
  /\ ~b.late

(* How far a connection that ends has come. *)
Ending(b) ==
  /\ b.state < INIT => b.new = FREED
  /\ b.state <= CLOSING_QUIC => ~b.timer
  /\ b.state < CLOSING_QUIC => b.quic = 0
  /\ b.detached <=> b.state = FREED
  /\ b.detached => b.rpc = NULL
  /\ b.closed # "no" => b.detached /\ b.q = <<>>

Failed(b) == \E s \in Stubs : b.ans[s] = <<"FAILURE">>
Again(b) == Failed(b) /\ Cardinality(b.posted) > 1

(* conn_ names the only QUIC connection, unless one failed before. *)
Slots(b) ==
  /\ b.quic # 0 => b.lib[b.quic] # "none"
  /\ (\A i \in Used(b) : i = b.quic) \/ Again(b)
  /\ b.state = INIT /\ b.quic # 0 => Failed(b)
  /\ Cardinality(Used(b)) <= Cardinality(Taken(b))

(* A new interface travels from the handle through the events of the       *)
(* sender and the restart it makes to the socket, and from there to QUIC.  *)
OnlyRestarts(b) == \A j \in DOMAIN b.work : b.work[j].t = "restart"
LastEvent(b, i) == b.work # <<>> => b.work[Len(b.work)].x = i
Bound(b) == IF b.drain THEN b.target = b.handle ELSE b.up => b.sock = b.handle
Routed(b) ==
  OnlyRestarts(b) /\ LastEvent(b, b.handle) /\ (b.work = <<>> /\ ~b.missed => Bound(b))

Addressed(b) ==
  b.new = MAX /\ b.udp = "open" =>
    Routed(b) /\ (b.up /\ ~Restarted(b) => b.local = b.sock)

Good(b) == b \in Connection /\ Answering(b) /\ Ending(b) /\ Slots(b) /\ Addressed(b)

IInv ==
  /\ conn \in [Conns -> Connection]
  /\ \A c \in Conns : Good(conn[c])
  /\ ctor \in [state : {FREED, CTOR_INIT, CTOR_WORKING}, new : {FREED, MAX},
               conns : SUBSET Conns, engine : BOOLEAN, told : BOOLEAN, closes : 0..1]
  /\ \A c \in Conns : c \in ctor.conns <=> Live(c) /\ conn[c].closed = "no"
  /\ \A c \in Conns : conn[c].life = "deleted" => conn[c].closed = "told"
  /\ ~ctor.engine => ctor.state = FREED /\ ctor.conns = {}
  /\ rq \in Seq({"close", "check", "told"})
  /\ net \in [iface : Nets, changes : 0..MaxChange]
  /\ mon \in [sig : Nets, first : BOOLEAN, cool : BOOLEAN, i : Nets, todo : SUBSET Conns]
-----------------------------------------------------------------------------
(* The queue.                                                              *)

LEMMA PostFields ==
  ASSUME NEW b \in Connection, NEW t \in TaskType
  PROVE  /\ Post(b, t) \in Connection
         /\ Post(b, t) = [b EXCEPT !.q = Post(b, t).q]
         /\ Post(b, t).q = IF b.detached THEN b.q ELSE Append(b.q, t)
<1>1. CASE b.detached
  BY <1>1 DEF Post, Connection
<1>2. CASE ~b.detached
  <2>1. Append(b.q, t) \in Seq(TaskType)
    BY DEF Connection
  <2> QED
    BY <1>2, <2>1 DEF Post, Connection
<1> QED BY <1>1, <1>2

LEMMA AppendQueued ==
  ASSUME NEW b \in Connection, NEW d \in Connection, NEW t \in TaskType,
         d.q = Append(b.q, t)
  PROVE  /\ Queued(d) = Queued(b) \cup (IF IsConnect(t) THEN {t.x} ELSE {})
         /\ Restarted(d) <=> Restarted(b) \/ t.t = "restarted"
         /\ Distinct(b) /\ (IsConnect(t) => t.x \notin Queued(b)) => Distinct(d)
<1>1. b.q \in Seq(TaskType) /\ d.q \in Seq(TaskType)
  BY DEF Connection
<1>2. /\ DOMAIN d.q = 1..(Len(b.q) + 1) /\ DOMAIN b.q = 1..Len(b.q) /\ Len(b.q) \in Nat
      /\ \A i \in 1..Len(b.q) : d.q[i] = b.q[i]
      /\ d.q[Len(b.q) + 1] = t
  BY <1>1
<1>3. DOMAIN d.q = DOMAIN b.q \cup {Len(b.q) + 1} /\ Len(b.q) + 1 \notin DOMAIN b.q
  BY <1>2
<1>4. \A i \in DOMAIN b.q : d.q[i] = b.q[i]
  BY <1>2
<1>5. d.q[Len(b.q) + 1] = t
  BY <1>2
<1> QED
  BY <1>3, <1>4, <1>5 DEF Queued, Restarted, Distinct

LEMMA TailQueued ==
  ASSUME NEW b \in Connection, NEW d \in Connection, b.q # <<>>, d.q = Tail(b.q), Distinct(b)
  PROVE  /\ Head(b.q) \in TaskType
         /\ IsConnect(Head(b.q)) => Head(b.q).x \in Queued(b)
         /\ Queued(d) = Queued(b) \ (IF IsConnect(Head(b.q)) THEN {Head(b.q).x} ELSE {})
         /\ Restarted(d) => Restarted(b)
         /\ Restarted(b) => Restarted(d) \/ Head(b.q).t = "restarted"
         /\ Distinct(d)
<1>1. b.q \in Seq(TaskType) /\ d.q \in Seq(TaskType)
  BY DEF Connection
<1>2. /\ Len(b.q) \in Nat /\ Len(b.q) > 0 /\ Len(d.q) = Len(b.q) - 1 /\ Head(b.q) = b.q[1]
      /\ DOMAIN d.q = 1..(Len(b.q) - 1) /\ DOMAIN b.q = 1..Len(b.q)
      /\ \A i \in 1..(Len(b.q) - 1) : d.q[i] = b.q[i + 1]
  BY <1>1
<1>3. Head(b.q) \in TaskType /\ 1 \in DOMAIN b.q
  BY <1>1, <1>2
<1>4. \A i \in DOMAIN d.q : i + 1 \in DOMAIN b.q /\ i + 1 # 1 /\ d.q[i] = b.q[i + 1]
  BY <1>2
<1>5. \A i \in DOMAIN b.q : i # 1 => i - 1 \in DOMAIN d.q /\ d.q[i - 1] = b.q[i]
  BY <1>2
<1>6. Distinct(d)
  BY <1>2, <1>4 DEF Distinct
<1>7. Queued(d) = Queued(b) \ (IF IsConnect(Head(b.q)) THEN {Head(b.q).x} ELSE {})
  <2>1. ASSUME NEW s \in Queued(d)
        PROVE  s \in Queued(b) /\ (IsConnect(Head(b.q)) => s # Head(b.q).x)
    BY <1>2, <1>3, <1>4 DEF Queued, Distinct
  <2>2. ASSUME NEW s \in Queued(b), IsConnect(Head(b.q)) => s # Head(b.q).x
        PROVE  s \in Queued(d)
    BY <1>2, <1>5, <2>2 DEF Queued
  <2> QED BY <2>1, <2>2
<1>8. /\ IsConnect(Head(b.q)) => Head(b.q).x \in Queued(b)
  BY <1>2, <1>3 DEF Queued
<1>9. Restarted(d) => Restarted(b)
  BY <1>4 DEF Restarted
<1>10. ASSUME Restarted(b), Head(b.q).t # "restarted"
       PROVE  Restarted(d)
  <2>1. PICK j \in DOMAIN b.q : b.q[j].t = "restarted"
    BY <1>10 DEF Restarted
  <2>2. j - 1 \in DOMAIN d.q /\ d.q[j - 1] = b.q[j]
    BY <1>2, <1>5, <1>10, <2>1
  <2> QED BY <2>1, <2>2 DEF Restarted
<1> QED
  BY <1>3, <1>6, <1>7, <1>8, <1>9, <1>10
LEMMA QuicsFacts ==
  /\ 0 \notin Quics /\ IsFiniteSet(Quics) /\ Cardinality(Quics) = Cardinality(Stubs)
  /\ Cardinality(Stubs) \in Nat
<1>1. IsFiniteSet(Stubs) /\ Cardinality(Stubs) \in Nat
  BY ConnectorAssumption, FS_CardinalityType
<1>2. IsFiniteSet(Quics) /\ Cardinality(Quics) = Cardinality(Stubs)
  BY <1>1, FS_Interval DEF Quics
<1> QED
  BY <1>1, <1>2 DEF Quics

-----------------------------------------------------------------------------
(* What an operator leaves alone. *)
SameLife(b, d) == d.life = b.life /\ d.closed = b.closed /\ d.detached = b.detached
SameTasks(b, d) == d.q = b.q /\ d.posted = b.posted
SameAnswers(b, d) == d.ans = b.ans /\ d.late = b.late /\ d.rpc = b.rpc
SameQuic(b, d) == d.quic = b.quic /\ d.lib = b.lib
SameNet(b, d) ==
  /\ d.udp = b.udp /\ d.handle = b.handle /\ d.sock = b.sock /\ d.local = b.local
  /\ d.work = b.work /\ d.drain = b.drain /\ d.target = b.target /\ d.up = b.up
  /\ d.missed = b.missed

LEMMA SameQueued ==
  ASSUME NEW b, NEW d, SameTasks(b, d)
  PROVE  /\ Queued(d) = Queued(b) /\ (Distinct(d) <=> Distinct(b))
         /\ (Restarted(d) <=> Restarted(b)) /\ Taken(d) = Taken(b)
BY DEF SameTasks, Queued, Distinct, Restarted, Taken

(* A step of the sender leaves the rest of the connection alone. *)
AlmostGood(b) == b \in Connection /\ Answering(b) /\ Ending(b) /\ Slots(b)

SameBesidesNet(b, d) ==
  /\ d.new = b.new /\ d.state = b.state /\ d.timer = b.timer
  /\ SameLife(b, d) /\ SameTasks(b, d) /\ SameAnswers(b, d) /\ SameQuic(b, d)

LEMMA NetOnly ==
  ASSUME NEW b, AlmostGood(b), NEW d \in Connection, SameBesidesNet(b, d)
  PROVE  AlmostGood(d) /\ (Restarted(d) <=> Restarted(b))
<1>1. b \in Connection /\ Answering(b) /\ Ending(b) /\ Slots(b)
  BY DEF AlmostGood
<1>2. /\ d.new = b.new /\ d.state = b.state /\ d.timer = b.timer
      /\ SameLife(b, d) /\ SameTasks(b, d) /\ SameAnswers(b, d) /\ SameQuic(b, d)
  BY DEF SameBesidesNet
<1>3. /\ Queued(d) = Queued(b) /\ (Distinct(d) <=> Distinct(b))
      /\ (Restarted(d) <=> Restarted(b)) /\ Taken(d) = Taken(b) /\ Used(d) = Used(b)
  BY <1>2, SameQueued DEF SameQuic, Used
<1>4. Answering(d)
  BY <1>1, <1>2, <1>3 DEF Answering, Unanswered, SameAnswers, SameTasks
<1>5. Ending(d)
  BY <1>1, <1>2 DEF Ending, SameLife, SameAnswers, SameQuic, SameTasks
<1>6. Slots(d)
  BY <1>1, <1>2, <1>3 DEF Slots, Again, Failed, SameAnswers, SameTasks, SameQuic
<1> QED
  BY <1>3, <1>4, <1>5, <1>6 DEF AlmostGood

(* The events of the sender. *)
SameSocket(b, d) ==
  /\ d.udp = b.udp /\ d.sock = b.sock /\ d.local = b.local /\ d.drain = b.drain
  /\ d.target = b.target /\ d.up = b.up /\ d.missed = b.missed

LEMMA NewWork ==
  ASSUME NEW b \in Connection, NEW w \in Seq(EventType)
  PROVE  LET d == [b EXCEPT !.work = w] IN
         /\ d \in Connection /\ SameBesidesNet(b, d) /\ SameSocket(b, d)
         /\ d.handle = b.handle /\ d.work = w
<1> DEFINE d == [b EXCEPT !.work = w]
<1>1. d \in Connection
  BY ZenonT(60) DEF Connection
<1>2. SameBesidesNet(b, d)
  BY ZenonT(60) DEF Connection, SameBesidesNet, SameLife, SameTasks, SameAnswers, SameQuic
<1>3. SameSocket(b, d) /\ d.handle = b.handle /\ d.work = w
  BY ZenonT(60) DEF Connection, SameSocket
<1> QED BY <1>1, <1>2, <1>3

Accepts(b) == b.udp \in {"open", "stopping"}

LEMMA PostEventFields ==
  ASSUME NEW b \in Connection, NEW t \in EventType
  PROVE  LET d == PostEvent(b, t) IN
         /\ d \in Connection /\ SameBesidesNet(b, d) /\ SameSocket(b, d)
         /\ d.handle = b.handle
         /\ d.work = IF Accepts(b) THEN Append(b.work, t) ELSE b.work
<1>1. CASE Accepts(b)
  <2> DEFINE w == Append(b.work, t)
  <2>1. w \in Seq(EventType)
    BY DEF Connection
  <2>2. PostEvent(b, t) = [b EXCEPT !.work = w]
    BY <1>1, Zenon DEF PostEvent, Accepts
  <2> HIDE DEF w
  <2>3. LET d == PostEvent(b, t) IN
        /\ d \in Connection /\ SameBesidesNet(b, d) /\ SameSocket(b, d)
        /\ d.handle = b.handle /\ d.work = w
    BY <2>1, <2>2, NewWork
  <2> QED BY <1>1, <2>3 DEF w
<1>2. CASE ~Accepts(b)
  BY <1>2 DEF PostEvent, Accepts, SameBesidesNet, SameSocket, SameLife, SameTasks,
              SameAnswers, SameQuic
<1> QED BY <1>1, <1>2

LEMMA EventTypes ==
  /\ Task("stop", NULL) \in EventType
  /\ \A i \in Nets : /\ Task("restart", i) \in EventType
                     /\ Task("restart", i).t = "restart" /\ Task("restart", i).x = i
BY DEF Task, EventType, Nets

LEMMA AppendWork ==
  ASSUME NEW b \in Connection, NEW d \in Connection, NEW t \in EventType,
         d.work = Append(b.work, t)
  PROVE  /\ OnlyRestarts(b) /\ t.t = "restart" => OnlyRestarts(d)
         /\ LastEvent(d, t.x) /\ d.work # <<>>
<1>1. b.work \in Seq(EventType)
  BY DEF Connection
<1>2. /\ DOMAIN d.work = 1..(Len(b.work) + 1) /\ DOMAIN b.work = 1..Len(b.work)
      /\ Len(b.work) \in Nat /\ Len(d.work) = Len(b.work) + 1
      /\ \A i \in 1..Len(b.work) : d.work[i] = b.work[i]
      /\ d.work[Len(b.work) + 1] = t
  BY <1>1
<1>3. d.work # <<>>
  BY <1>2
<1> QED BY <1>2, <1>3 DEF OnlyRestarts, LastEvent

LEMMA TailWork ==
  ASSUME NEW b \in Connection, b.work # <<>>, NEW d \in Connection, d.work = Tail(b.work)
  PROVE  /\ Head(b.work) \in EventType
         /\ OnlyRestarts(b) => OnlyRestarts(d) /\ Head(b.work).t = "restart"
         /\ \A i : LastEvent(b, i) => LastEvent(d, i) /\ (d.work = <<>> => Head(b.work).x = i)
<1>1. b.work \in Seq(EventType) /\ d.work \in Seq(EventType)
  BY DEF Connection
<1>2. /\ Len(b.work) \in Nat /\ Len(b.work) > 0 /\ Len(d.work) = Len(b.work) - 1
      /\ Head(b.work) = b.work[1]
      /\ DOMAIN d.work = 1..(Len(b.work) - 1) /\ DOMAIN b.work = 1..Len(b.work)
      /\ \A i \in 1..(Len(b.work) - 1) : d.work[i] = b.work[i + 1]
  BY <1>1
<1>3. Head(b.work) \in EventType
  BY <1>1, <1>2
<1>4. OnlyRestarts(b) => OnlyRestarts(d) /\ Head(b.work).t = "restart"
  <2>1. \A i \in DOMAIN d.work : i + 1 \in DOMAIN b.work /\ d.work[i] = b.work[i + 1]
    BY <1>2
  <2>2. 1 \in DOMAIN b.work
    BY <1>2
  <2> QED BY <1>2, <2>1, <2>2 DEF OnlyRestarts
<1>5. ASSUME NEW i, LastEvent(b, i)
      PROVE  LastEvent(d, i) /\ (d.work = <<>> => Head(b.work).x = i)
  <2>1. b.work[Len(b.work)].x = i
    BY <1>5 DEF LastEvent
  <2>2. CASE d.work = <<>>
    <3>1. Len(b.work) = 1
      <4>1. Len(d.work) = 0
        BY <1>1, <2>2, EmptySeq
      <4>2. PICK n \in Nat : n = Len(b.work)
        BY <1>2
      <4>3. n - 1 = 0
        BY <1>2, <4>1, <4>2
      <4> QED BY <4>2, <4>3
    <3> QED BY <1>2, <2>1, <2>2, <3>1 DEF LastEvent
  <2>3. CASE d.work # <<>>
    <3>1. Len(d.work) > 0
      BY <1>1, <2>3
    <3>2. Len(d.work) \in 1..(Len(b.work) - 1) /\ Len(d.work) + 1 = Len(b.work)
      BY <1>2, <3>1
    <3>3. d.work[Len(d.work)] = b.work[Len(b.work)]
      BY <1>2, <3>2
    <3> QED BY <2>1, <2>3, <3>3 DEF LastEvent
  <2> QED BY <2>2, <2>3
<1> QED BY <1>3, <1>4, <1>5

(* OnExecDone for a Connect s. *)
LEMMA NotifyFields ==
  ASSUME NEW b \in Connection, NEW s \in Stubs, NEW r \in Statuses, ~b.late, b.closed # "told"
  PROVE  LET d == NotifyConnectResult(b, s, r) IN
         /\ d \in Connection
         /\ d.ans = [b.ans EXCEPT ![s] = Append(b.ans[s], r)] /\ ~d.late
         /\ d.rpc = IF s = b.rpc THEN NULL ELSE b.rpc
         /\ d.timer => b.timer
         /\ s = b.rpc => ~d.timer
         /\ d.state = b.state /\ d.new = b.new /\ d.status = b.status
         /\ SameLife(b, d) /\ SameTasks(b, d) /\ SameQuic(b, d) /\ SameNet(b, d)
<1> DEFINE d == [b EXCEPT !.ans[s] = Append(@, r), !.late = @ \/ b.closed = "told",
                          !.rpc = IF s = @ THEN NULL ELSE @,
                          !.timer = IF s = b.rpc THEN FALSE ELSE @]
<1>1. s # NULL
  BY ConnectorAssumption
<1>2. NotifyConnectResult(b, s, r) = d
  BY <1>1, Zenon DEF NotifyConnectResult
<1>3. /\ (IF s = b.rpc THEN NULL ELSE b.rpc) \in Stubs \cup {NULL}
      /\ [b.ans EXCEPT ![s] = Append(b.ans[s], r)] \in [Stubs -> Seq(Statuses)]
  BY DEF Connection
<1>4. /\ (IF s = b.rpc THEN FALSE ELSE b.timer) \in BOOLEAN
      /\ (b.late \/ b.closed = "told") \in BOOLEAN
  BY ZenonT(60) DEF Connection
<1>5. d \in Connection
  BY <1>3, <1>4, ZenonT(60) DEF Connection
<1>6. /\ d.ans = [b.ans EXCEPT ![s] = Append(b.ans[s], r)]
      /\ d.rpc = (IF s = b.rpc THEN NULL ELSE b.rpc)
      /\ d.timer = (IF s = b.rpc THEN FALSE ELSE b.timer)
      /\ d.late = (b.late \/ b.closed = "told")
  BY ZenonT(60) DEF Connection
<1>7. /\ d.state = b.state /\ d.new = b.new /\ d.status = b.status
      /\ SameLife(b, d) /\ SameTasks(b, d) /\ SameQuic(b, d) /\ SameNet(b, d)
  BY ZenonT(60) DEF Connection, SameLife, SameTasks, SameQuic, SameNet
<1> HIDE DEF d
<1> QED
  BY <1>2, <1>5, <1>6, <1>7
LEMMA NotifyGood ==
  ASSUME NEW b, Good(b), NEW s \in Stubs, Unanswered(b, s), s \notin Queued(b),
         NEW r \in Statuses, b.closed # "told"
  PROVE  LET d == NotifyConnectResult(b, s, r) IN
         /\ Good(d)
         /\ d.state = b.state /\ d.new = b.new /\ d.status = b.status
         /\ SameLife(b, d) /\ SameTasks(b, d) /\ SameQuic(b, d) /\ SameNet(b, d)
         /\ d.rpc = IF s = b.rpc THEN NULL ELSE b.rpc
         /\ r = "FAILURE" => Failed(d)
         /\ d.timer => b.timer
<1> DEFINE d == NotifyConnectResult(b, s, r)
<1>1. b \in Connection /\ Answering(b) /\ Ending(b) /\ Slots(b) /\ Addressed(b)
  BY DEF Good
<1>2. /\ d \in Connection
      /\ d.ans = [b.ans EXCEPT ![s] = Append(b.ans[s], r)] /\ ~d.late
      /\ d.rpc = IF s = b.rpc THEN NULL ELSE b.rpc
      /\ d.timer => b.timer
      /\ d.state = b.state /\ d.new = b.new /\ d.status = b.status
      /\ SameLife(b, d) /\ SameTasks(b, d) /\ SameQuic(b, d) /\ SameNet(b, d)
  BY <1>1, NotifyFields DEF Answering
<1>3. d = NotifyConnectResult(b, s, r)
  OBVIOUS
<1> HIDE DEF d
<1>4. /\ Queued(d) = Queued(b) /\ (Distinct(d) <=> Distinct(b))
      /\ (Restarted(d) <=> Restarted(b)) /\ Taken(d) = Taken(b) /\ Used(d) = Used(b)
  BY <1>2, SameQueued DEF SameQuic, Used
<1>5. b.ans \in [Stubs -> Seq(Statuses)] /\ b.rpc \in Stubs \cup {NULL}
  BY <1>1 DEF Connection
<1>6. d.ans[s] = <<r>> /\ Len(d.ans[s]) = 1 /\ \A t \in Stubs \ {s} : d.ans[t] = b.ans[t]
  BY <1>2, <1>5 DEF Unanswered
<1>7. Answering(d)
  <2>1. d.posted = b.posted /\ d.rpc \in {NULL, b.rpc} /\ (d.rpc # NULL => d.rpc # s)
    BY <1>2 DEF SameTasks
  <2>2. \A t \in Queued(d) : t \in Stubs /\ Unanswered(d, t) /\ t # d.rpc
    BY <1>1, <1>4, <1>6, <2>1, ConnectorAssumption DEF Answering, Unanswered
  <2>3. d.rpc # NULL => Unanswered(d, d.rpc)
    BY <1>1, <1>5, <1>6, <2>1 DEF Answering, Unanswered
  <2>4. \A t \in Stubs : Len(d.ans[t]) <= 1 /\ (t \notin d.posted => d.ans[t] = <<>>)
    <3> TAKE t \in Stubs
    <3>1. CASE t = s
      <4>1. s \in d.posted
        BY <2>1 DEF Unanswered
      <4>2. Len(d.ans[s]) <= 1
        BY <1>6
      <4> QED BY <3>1, <4>1, <4>2
    <3>2. CASE t # s
      BY <1>1, <1>6, <2>1, <3>2 DEF Answering
    <3> QED BY <3>1, <3>2
  <2> QED
    BY <1>1, <1>2, <1>4, <2>2, <2>3, <2>4 DEF Answering
<1>8. (Failed(b) => Failed(d)) /\ (r = "FAILURE" => Failed(d)) /\ (Again(b) => Again(d))
  <2>1. <<"FAILURE">> # <<>>
    OBVIOUS
  <2> QED
    BY <1>2, <1>6, <2>1 DEF Failed, Again, SameTasks, Unanswered
<1>9. Ending(d)
  BY <1>1, <1>2 DEF Ending, SameLife, SameTasks, SameQuic
<1>10. Slots(d)
  BY <1>1, <1>2, <1>4, <1>8 DEF Slots, SameQuic
<1>11. Addressed(d)
  BY <1>1, <1>2, <1>4 DEF Addressed, Routed, OnlyRestarts, LastEvent, Bound, SameNet
<1> QED
  BY <1>2, <1>3, <1>7, <1>8, <1>9, <1>10, <1>11 DEF Good

-----------------------------------------------------------------------------
(* _CloseCheck.                                                            *)

LEMMA ClosingIff ==
  ASSUME NEW b, Good(b)
  PROVE  Closing(b) <=> b.new = FREED
BY DEF Good, Connection, Ending, Closing, FREED, MAX, CONNECTED, INIT

Keeps(b, d) == Good(d) /\ d.life = b.life /\ d.closed = b.closed

LEMMA CloseQuicKeeps ==
  ASSUME NEW b, Good(b), b.new = FREED
  PROVE  Keeps(b, CloseQuic(b)) /\ CloseQuic(b).new = FREED
<1>1. CASE b.state <= INIT
  BY <1>1 DEF CloseQuic, Keeps
<1>2. CASE ~(b.state <= INIT)
  <2> DEFINE lib == [i \in Quics |-> IF i = b.quic THEN "closing" ELSE b.lib[i]]
             d == [b EXCEPT !.keep = FALSE, !.timer = FALSE, !.state = CLOSING_QUIC,
                            !.lib = lib]
  <2>1. b \in Connection /\ Answering(b) /\ Ending(b) /\ Slots(b) /\ Addressed(b)
    BY DEF Good
  <2>2. CloseQuic(b) = d
    BY <1>2, Zenon DEF CloseQuic
  <2>3. lib \in [Quics -> Libs] /\ CLOSING_QUIC \in FREED..CONNECTED
    BY <2>1 DEF Connection, Libs, CLOSING_QUIC, FREED, CONNECTED
  <2>4. d \in Connection
    BY <2>1, <2>3, ZenonT(60) DEF Connection
  <2>5. /\ ~d.timer /\ d.state = CLOSING_QUIC /\ d.lib = lib /\ d.quic = b.quic
        /\ SameLife(b, d) /\ SameTasks(b, d) /\ SameAnswers(b, d) /\ SameNet(b, d)
        /\ d.new = b.new
    BY <2>1, ZenonT(60) DEF Connection, SameLife, SameTasks, SameAnswers, SameNet
  <2>6. Used(d) = Used(b) /\ (d.quic # 0 => d.lib[d.quic] # "none")
    <3>1. /\ b.quic \in {0} \cup Quics /\ b.lib \in [Quics -> Libs]
          /\ b.quic # 0 => b.lib[b.quic] # "none"
      BY <2>1 DEF Slots, Connection
    <3>2. \A i \in Quics : lib[i] = IF i = b.quic THEN "closing" ELSE b.lib[i]
      OBVIOUS
    <3>4. d.lib = lib /\ d.quic = b.quic
      BY <2>5
    <3> HIDE DEF d, lib
    <3>3. /\ \A i \in Quics : lib[i] # "none" <=> b.lib[i] # "none"
          /\ b.quic # 0 => lib[b.quic] # "none"
      BY <3>1, <3>2, QuicsFacts
    <3>5. Used(d) = Used(b)
      BY <3>3, <3>4 DEF Used
    <3> QED
      BY <3>3, <3>4, <3>5
  <2> HIDE DEF d, lib
  <2>7. /\ Queued(d) = Queued(b) /\ (Distinct(d) <=> Distinct(b))
        /\ (Restarted(d) <=> Restarted(b)) /\ Taken(d) = Taken(b)
    BY <2>5, SameQueued
  <2>8. Answering(d)
    BY <2>1, <2>5, <2>7 DEF Answering, Unanswered, SameAnswers, SameTasks
  <2>9. Ending(d)
    BY <1>2, <2>1, <2>5 DEF Ending, SameLife, SameTasks, SameAnswers, CLOSING_QUIC, INIT, FREED
  <2>10. Slots(d)
    BY <2>1, <2>5, <2>6, <2>7
    DEF Slots, Again, Failed, SameAnswers, SameTasks, CLOSING_QUIC, INIT
  <2>11. Addressed(d)
    BY <2>5 DEF Addressed, FREED, MAX
  <2> QED
    BY <2>2, <2>4, <2>5, <2>8, <2>9, <2>10, <2>11 DEF Keeps, Good, SameLife
<1> QED BY <1>1, <1>2

LEMMA CloseSockKeeps ==
  ASSUME NEW b, Good(b), b.new = FREED
  PROVE  Keeps(b, CloseSock(b)) /\ CloseSock(b).new = FREED
<1>1. CASE b.state # CLOSING_QUIC \/ b.quic # 0
  BY <1>1 DEF CloseSock, Keeps
<1>2. CASE ~(b.state # CLOSING_QUIC \/ b.quic # 0)
  <2> DEFINE d == [b EXCEPT !.timer = FALSE, !.state = CLOSING_SOCK]
             e == PostEvent(d, Task("stop", NULL))
  <2>1. b \in Connection /\ Answering(b) /\ Ending(b) /\ Slots(b)
    BY DEF Good
  <2>2. CloseSock(b) = e
    BY <1>2, Zenon DEF CloseSock
  <2>3. CLOSING_SOCK \in FREED..CONNECTED
    BY DEF CLOSING_SOCK, FREED, CONNECTED
  <2>4. d \in Connection
    BY <2>1, <2>3, ZenonT(60) DEF Connection
  <2>5. /\ ~d.timer /\ d.state = CLOSING_SOCK /\ d.new = b.new /\ SameQuic(b, d)
        /\ SameLife(b, d) /\ SameTasks(b, d) /\ SameAnswers(b, d)
    BY <2>1, ZenonT(60) DEF Connection, SameLife, SameTasks, SameAnswers, SameQuic
  <2> HIDE DEF d
  <2>6. /\ Queued(d) = Queued(b) /\ (Distinct(d) <=> Distinct(b))
        /\ Taken(d) = Taken(b) /\ Used(d) = Used(b)
    BY <2>5, SameQueued DEF SameQuic, Used
  <2>7. Answering(d)
    BY <2>1, <2>5, <2>6 DEF Answering, Unanswered, SameAnswers, SameTasks
  <2>8. Ending(d)
    BY <1>2, <2>1, <2>5
    DEF Ending, SameLife, SameTasks, SameAnswers, SameQuic, CLOSING_QUIC, CLOSING_SOCK, INIT, FREED
  <2>9. Slots(d)
    BY <1>2, <2>1, <2>5, <2>6
    DEF Slots, Again, Failed, SameAnswers, SameTasks, SameQuic, CLOSING_SOCK, INIT
  <2>10. AlmostGood(d)
    BY <2>4, <2>7, <2>8, <2>9 DEF AlmostGood
  <2>11. e \in Connection /\ SameBesidesNet(d, e)
    BY <2>4, PostEventFields, EventTypes
  <2> HIDE DEF e
  <2>12. AlmostGood(e) /\ e.new = FREED
    BY <2>5, <2>10, <2>11, NetOnly DEF SameBesidesNet
  <2>13. Addressed(e)
    BY <2>12 DEF Addressed, FREED, MAX
  <2> QED
    BY <2>2, <2>5, <2>11, <2>12, <2>13 DEF Keeps, Good, AlmostGood, SameLife, SameBesidesNet
<1> QED BY <1>1, <1>2

(* The last stage answers a Connect that is still open, and detaches. *)
LEMMA FreeKeeps ==
  ASSUME NEW b, Good(b), b.new = FREED
  PROVE  Keeps(b, Free(b))
<1>1. CASE b.state # CLOSING_SOCK \/ b.udp # "gone"
  BY <1>1 DEF Free, Keeps
<1>2. CASE ~(b.state # CLOSING_SOCK \/ b.udp # "gone")
  <2> DEFINE e == NotifyConnectResult(b, b.rpc, b.status)
             d == [e EXCEPT !.detached = TRUE, !.state = FREED]
  <2>1. b \in Connection /\ Answering(b) /\ Ending(b)
    BY DEF Good
  <2>2. ~b.detached /\ b.closed = "no" /\ ~b.timer /\ b.quic = 0
    BY <1>2, <2>1 DEF Ending, CLOSING_SOCK, CLOSING_QUIC, FREED, Connection
  <2>3. /\ Good(e) /\ e.new = FREED /\ e.rpc = NULL /\ ~e.timer /\ e.quic = 0
        /\ e.closed = "no" /\ e.life = b.life /\ e.state = b.state
    <3>1. CASE b.rpc = NULL
      BY <2>2, <3>1 DEF NotifyConnectResult
    <3>2. CASE b.rpc # NULL
      <4>1. b.rpc \in Stubs /\ Unanswered(b, b.rpc) /\ b.rpc \notin Queued(b)
            /\ b.status \in Statuses
        BY <2>1, <3>2 DEF Answering, Connection
      <4> QED
        BY <2>2, <4>1, NotifyGood DEF SameLife, SameQuic
    <3> QED BY <3>1, <3>2
  <2>4. Free(b) = d
    BY <1>2, Zenon DEF Free
  <2> HIDE DEF e
  <2>5. e \in Connection /\ Answering(e) /\ Ending(e) /\ Slots(e)
    BY <2>3 DEF Good
  <2>6. d \in Connection
    <3> FREED \in FREED..CONNECTED
      BY DEF FREED, CONNECTED
    <3> QED BY <2>5, ZenonT(60) DEF Connection
  <2>7. /\ d.detached /\ d.state = FREED /\ d.new = e.new /\ d.timer = e.timer
        /\ d.life = e.life /\ d.closed = e.closed
        /\ SameTasks(e, d) /\ SameAnswers(e, d) /\ SameQuic(e, d) /\ SameNet(e, d)
    BY <2>5, ZenonT(60) DEF Connection, SameTasks, SameAnswers, SameQuic, SameNet
  <2> HIDE DEF d
  <2>8. /\ Queued(d) = Queued(e) /\ (Distinct(d) <=> Distinct(e))
        /\ Taken(d) = Taken(e) /\ Used(d) = Used(e)
    BY <2>7, SameQueued DEF SameQuic, Used
  <2>9. Answering(d)
    BY <2>5, <2>7, <2>8 DEF Answering, Unanswered, SameAnswers, SameTasks
  <2>10. Ending(d)
    BY <2>3, <2>7 DEF Ending, SameAnswers, SameQuic, FREED, INIT, CLOSING_QUIC
  <2>11. Slots(d)
    BY <2>5, <2>7, <2>8 DEF Slots, Again, Failed, SameAnswers, SameTasks, SameQuic, FREED, INIT
  <2>12. Addressed(d)
    BY <2>3, <2>7 DEF Addressed, FREED, MAX
  <2> QED
    BY <2>2, <2>3, <2>4, <2>6, <2>7, <2>9, <2>10, <2>11, <2>12 DEF Keeps, Good
<1> QED BY <1>1, <1>2

LEMMA CloseCheckKeeps ==
  ASSUME NEW b, Good(b)
  PROVE  Keeps(b, CloseCheck(b))
<1>1. CASE b.new = FREED
  BY <1>1, ClosingIff, CloseQuicKeeps, CloseSockKeeps, FreeKeeps DEF CloseCheck, Keeps
<1>2. CASE b.new # FREED
  BY <1>2, ClosingIff DEF CloseCheck, Keeps
<1> QED BY <1>1, <1>2
-----------------------------------------------------------------------------
(* Tasks.                                                                  *)

LEMMA TakenCard ==
  ASSUME NEW b \in Connection
  PROVE  /\ IsFiniteSet(b.posted) /\ IsFiniteSet(Taken(b)) /\ IsFiniteSet(Used(b))
         /\ Cardinality(Taken(b)) \in Nat /\ Cardinality(Used(b)) \in Nat
         /\ Cardinality(b.posted) \in Nat
         /\ Cardinality(Taken(b)) <= Cardinality(Stubs)
<1>1. b.posted \subseteq Stubs /\ Taken(b) \subseteq Stubs /\ Used(b) \subseteq Quics
  BY DEF Connection, Taken, Used
<1>2. IsFiniteSet(Stubs) /\ IsFiniteSet(Quics)
  BY ConnectorAssumption, QuicsFacts
<1>3. /\ IsFiniteSet(b.posted) /\ IsFiniteSet(Taken(b)) /\ IsFiniteSet(Used(b))
      /\ Cardinality(Taken(b)) <= Cardinality(Stubs)
  BY <1>1, <1>2, FS_Subset
<1> QED
  BY <1>3, FS_CardinalityType

(* The task at the head of the queue is taken off it: all is in order but  *)
(* for the address, if the task was to hand that on.                       *)
Popping(b) ==
  [b EXCEPT !.q = Tail(@), !.udp = IF Head(b.q).t = "udpClosed" THEN "gone" ELSE @]

LEMMA PoppingFacts ==
  ASSUME NEW b, Good(b), b.q # <<>>
  PROVE  LET d == Popping(b)
             t == Head(b.q)
         IN /\ AlmostGood(d) /\ t \in TaskType /\ d.life = b.life /\ d.closed = "no"
            /\ b.closed = "no" /\ d.new = b.new
            /\ t.t # "restarted" => Addressed(d)
            /\ d.new = MAX /\ d.udp = "open" => Routed(d)
            /\ IsConnect(t) => /\ t.x \in Stubs /\ Unanswered(d, t.x) /\ t.x \notin Queued(d)
                               /\ t.x # d.rpc
                               /\ Cardinality(Used(d)) < Cardinality(Taken(d))
<1> DEFINE t == Head(b.q)
           d == Popping(b)
<1>1. b \in Connection /\ Answering(b) /\ Ending(b) /\ Slots(b) /\ Addressed(b)
  BY DEF Good
<1>2. d \in Connection
  <2>1. Tail(b.q) \in Seq(TaskType)
    BY <1>1 DEF Connection
  <2>2. (IF t.t = "udpClosed" THEN "gone" ELSE b.udp) \in Udps
    BY <1>1 DEF Connection, Udps
  <2> HIDE DEF t
  <2>3. d = [b EXCEPT !.q = Tail(@), !.udp = IF t.t = "udpClosed" THEN "gone" ELSE @]
    BY DEF Popping, t
  <2> HIDE DEF d
  <2> QED BY <1>1, <2>1, <2>2, <2>3, ZenonT(60) DEF Connection
<1>3. /\ d.q = Tail(b.q) /\ d.udp = (IF t.t = "udpClosed" THEN "gone" ELSE b.udp)
      /\ d.state = b.state /\ d.new = b.new /\ d.timer = b.timer /\ d.posted = b.posted
      /\ d.handle = b.handle /\ d.sock = b.sock /\ d.local = b.local
      /\ d.work = b.work /\ d.drain = b.drain /\ d.target = b.target /\ d.up = b.up
      /\ d.missed = b.missed
      /\ SameLife(b, d) /\ SameAnswers(b, d) /\ SameQuic(b, d)
  BY <1>1, ZenonT(60) DEF Popping, Connection, SameLife, SameAnswers, SameQuic
<1>4. d = Popping(b)
  OBVIOUS
<1> HIDE DEF d
<1>5. /\ t \in TaskType
      /\ IsConnect(t) => t.x \in Queued(b)
      /\ Queued(d) = Queued(b) \ (IF IsConnect(t) THEN {t.x} ELSE {})
      /\ Restarted(d) => Restarted(b)
      /\ Restarted(b) => Restarted(d) \/ t.t = "restarted"
      /\ Distinct(d)
  BY <1>1, <1>2, <1>3, TailQueued DEF Answering
<1> HIDE DEF t
<1>6. Answering(d)
  BY <1>1, <1>3, <1>5 DEF Answering, Unanswered, SameAnswers
<1>7. b.closed = "no" /\ d.closed = "no" /\ d.life = b.life
  BY <1>1, <1>3 DEF Ending, SameLife
<1>8. Ending(d)
  BY <1>1, <1>3, <1>7 DEF Ending, SameLife, SameAnswers, SameQuic
<1>9. Used(d) = Used(b) /\ Taken(b) \subseteq Taken(d)
  BY <1>3, <1>5 DEF Used, Taken, SameQuic
<1>10. IsConnect(t) => /\ t.x \in Stubs /\ Unanswered(d, t.x) /\ t.x \notin Queued(d)
                       /\ t.x # d.rpc /\ t.x \notin Taken(b) /\ t.x \in Taken(d)
  BY <1>1, <1>3, <1>5 DEF Answering, Unanswered, SameAnswers, Taken
<1>11. Cardinality(Taken(b)) <= Cardinality(Taken(d))
  BY <1>2, <1>9, TakenCard, FS_Subset
<1>12. IsConnect(t) => Cardinality(Used(d)) < Cardinality(Taken(d))
  <2> SUFFICES ASSUME IsConnect(t) PROVE Cardinality(Used(d)) < Cardinality(Taken(d))
    OBVIOUS
  <2>1. Taken(b) # Taken(d)
    BY <1>10
  <2>2. Cardinality(Taken(b)) < Cardinality(Taken(d))
    <3>1. IsFiniteSet(Taken(d)) /\ Taken(b) \in SUBSET Taken(d)
      BY <1>2, <1>9, TakenCard
    <3>2. Cardinality(Taken(d)) = Cardinality(Taken(b)) => Taken(d) = Taken(b)
      BY <3>1, FS_Subset
    <3>3. Cardinality(Taken(d)) \in Nat /\ Cardinality(Taken(b)) \in Nat
      BY <1>1, <1>2, TakenCard
    <3> QED BY <1>11, <2>1, <3>2, <3>3
  <2> QED
    BY <1>1, <1>2, <1>9, <2>2, TakenCard DEF Slots
<1>13. Slots(d)
  BY <1>1, <1>2, <1>3, <1>9, <1>11, TakenCard
  DEF Slots, Again, Failed, SameAnswers, SameQuic
<1>14. /\ t.t # "restarted" => Addressed(d)
       /\ d.new = MAX /\ d.udp = "open" => Routed(d)
  <2>1. d.new = MAX /\ d.udp = "open" => b.new = MAX /\ b.udp = "open"
    BY <1>3
  <2>2. Routed(b) => Routed(d)
    BY <1>3 DEF Routed, OnlyRestarts, LastEvent, Bound
  <2> QED
    BY <1>1, <1>3, <1>5, <2>1, <2>2 DEF Addressed
<1> QED
  BY <1>2, <1>3, <1>4, <1>5, <1>6, <1>7, <1>8, <1>10, <1>12, <1>13, <1>14
  DEF AlmostGood, t

(* SetState, by which an end begins. *)
LEMMA SetStateGood ==
  ASSUME NEW b, AlmostGood(b), NEW status \in Statuses
  PROVE  Keeps(b, SetState(b, FREED, status))
<1> DEFINE d == SetState(b, FREED, status)
<1>1. b \in Connection /\ Answering(b) /\ Ending(b) /\ Slots(b)
  BY DEF AlmostGood
<1>2. d \in Connection
  BY <1>1, ZenonT(60) DEF SetState, Connection
<1>3. /\ d.new = FREED /\ d.state = b.state /\ d.timer = b.timer
      /\ SameLife(b, d) /\ SameTasks(b, d) /\ SameAnswers(b, d) /\ SameQuic(b, d)
  BY <1>1, ZenonT(60) DEF SetState, Connection, SameLife, SameTasks, SameAnswers, SameQuic
<1>4. d = SetState(b, FREED, status)
  OBVIOUS
<1> HIDE DEF d
<1>5. /\ Queued(d) = Queued(b) /\ (Distinct(d) <=> Distinct(b))
      /\ Taken(d) = Taken(b) /\ Used(d) = Used(b)
  BY <1>3, SameQueued DEF SameQuic, Used
<1>6. Answering(d)
  BY <1>1, <1>3, <1>5 DEF Answering, Unanswered, SameAnswers, SameTasks
<1>7. Ending(d)
  BY <1>1, <1>3 DEF Ending, SameLife, SameAnswers, SameQuic, SameTasks
<1>8. Slots(d)
  BY <1>1, <1>3, <1>5 DEF Slots, Again, Failed, SameAnswers, SameTasks, SameQuic
<1>9. Addressed(d)
  BY <1>3 DEF Addressed, FREED, MAX
<1> QED
  BY <1>2, <1>3, <1>4, <1>6, <1>7, <1>8, <1>9 DEF Keeps, Good, SameLife
-----------------------------------------------------------------------------
(* Connect.                                                                *)

LEMMA SlotFree ==
  ASSUME NEW b \in Connection, Cardinality(Used(b)) < Cardinality(Taken(b))
  PROVE  \E i \in Quics : b.lib[i] = "none"
<1>1. Cardinality(Used(b)) < Cardinality(Quics)
  BY TakenCard, QuicsFacts
<1>2. Used(b) # Quics
  BY <1>1, QuicsFacts
<1> QED
  BY <1>2 DEF Used

(* A second QUIC connection is made only beside one that failed. *)
LEMMA StartedSlots ==
  ASSUME NEW b, Good(b), b.state = INIT, NEW s \in Stubs, Unanswered(b, s),
         Cardinality(Used(b)) < Cardinality(Taken(b)),
         NEW n \in Quics, b.lib[n] = "none",
         NEW d \in Connection, d.quic = n, d.lib = [b.lib EXCEPT ![n] = "connecting"],
         d.state = HANDSHAKE, SameTasks(b, d),
         \A t \in Stubs \ {s} : d.ans[t] = b.ans[t]
  PROVE  Slots(d)
<1>1. b \in Connection /\ Slots(b) /\ Answering(b)
  BY DEF Good
<1>2. b.lib \in [Quics -> Libs]
  BY <1>1 DEF Connection
<1>3. Used(d) = Used(b) \cup {n} /\ n \notin Used(b)
  BY <1>2 DEF Used
<1>4. Cardinality(Used(d)) <= Cardinality(Taken(d))
  <2>1. Cardinality(Used(d)) = Cardinality(Used(b)) + 1
    BY <1>1, <1>3, TakenCard, FS_AddElement
  <2>2. Taken(d) = Taken(b)
    BY SameQueued
  <2> QED BY <1>1, <2>1, <2>2, TakenCard
<1>5. Failed(b) => Failed(d)
  <2> <<"FAILURE">> # <<>>
    OBVIOUS
  <2> QED BY DEF Failed, Unanswered
<1>6. (\A i \in Used(d) : i = d.quic) \/ Again(d)
  <2>1. CASE Again(b)
    BY <1>5, <2>1 DEF Again, SameTasks
  <2>2. CASE ~Again(b) /\ b.quic = 0
    <3>1. Used(b) = {}
      BY <1>1, <2>2, QuicsFacts DEF Slots, Used
    <3> QED BY <1>3, <3>1
  <2>3. CASE b.quic # 0
    <3>1. Failed(b)
      BY <1>1, <2>3 DEF Slots
    <3>2. PICK t \in Stubs : b.ans[t] = <<"FAILURE">>
      BY <3>1 DEF Failed
    <3>3. t # s /\ t \in b.posted /\ s \in b.posted
      <4> <<"FAILURE">> # <<>>
        OBVIOUS
      <4> QED BY <1>1, <3>2 DEF Answering, Unanswered
    <3>4. IsFiniteSet(b.posted) /\ {s, t} \in SUBSET b.posted /\ Cardinality({s, t}) = 2
      <4>1. Cardinality({s}) = 1 /\ IsFiniteSet({s})
        BY FS_Singleton
      <4>2. Cardinality({s} \cup {t}) = 1 + 1
        BY <3>3, <4>1, FS_AddElement
      <4>3. {s, t} = {s} \cup {t}
        OBVIOUS
      <4> QED BY <1>1, <3>3, <4>2, <4>3, TakenCard
    <3>5. Cardinality(b.posted) > 1
      <4>1. Cardinality({s, t}) <= Cardinality(b.posted)
        BY <3>4, FS_Subset
      <4> QED BY <1>1, <3>4, <4>1, TakenCard
    <3> QED
      BY <1>5, <3>1, <3>5 DEF Again, SameTasks
  <2> QED BY <2>1, <2>2, <2>3
<1>7. d.lib[d.quic] # "none"
  BY <1>2
<1> QED
  BY <1>4, <1>6, <1>7 DEF Slots, HANDSHAKE, INIT

(* A refused Connect, and one that starts a handshake. *)
LEMMA ConnectTaskKeeps ==
  ASSUME NEW b, Good(b), b.new = MAX, b.closed = "no", NEW s \in Stubs,
         Unanswered(b, s), s \notin Queued(b), s # b.rpc,
         Cardinality(Used(b)) < Cardinality(Taken(b)), NEW o \in Outcomes
  PROVE  Keeps(b, ConnectTask(b, s, o))
<1>1. b \in Connection /\ Answering(b) /\ Ending(b) /\ Slots(b) /\ Addressed(b)
  BY DEF Good
<1>2. {"ALREADYRUNNING", "NO_PHYSICAL_INTERFACE", "FAILURE"} \subseteq Statuses
  BY DEF Statuses
<1>3. CASE b.state > INIT
  <2>1. ConnectTask(b, s, o) = NotifyConnectResult(b, s, "ALREADYRUNNING")
    BY <1>3 DEF ConnectTask
  <2> QED BY <1>2, <2>1, NotifyGood DEF Keeps, SameLife
<1>4. CASE ~(b.state > INIT) /\ o = "nophys"
  <2>1. ConnectTask(b, s, o) = NotifyConnectResult(b, s, "NO_PHYSICAL_INTERFACE")
    BY <1>4 DEF ConnectTask
  <2> QED BY <1>2, <2>1, NotifyGood DEF Keeps, SameLife
<1>5. CASE ~(b.state > INIT) /\ o # "nophys"
  <2>1. b.state = INIT /\ ~b.detached
    BY <1>1, <1>5 DEF Ending, Connection, INIT, FREED, CONNECTED, MAX
  <2> DEFINE n == CHOOSE i \in Quics : b.lib[i] = "none"
             e == [b EXCEPT !.quic = n, !.lib[n] = "connecting"]
             h == ConnectTask(b, s, o)
  <2>2. n \in Quics /\ b.lib[n] = "none"
    BY <1>1, SlotFree
  <2>3. h = [ConnectInternal(b, s, o) EXCEPT !.state = HANDSHAKE]
    BY <1>5, Zenon DEF ConnectTask
  <2>4. HANDSHAKE \in FREED..CONNECTED
    BY DEF HANDSHAKE, FREED, CONNECTED
  <2> HIDE DEF n
  <2>5. /\ e \in Connection /\ e.quic = n /\ e.lib = [b.lib EXCEPT ![n] = "connecting"]
        /\ SameLife(b, e) /\ SameTasks(b, e) /\ SameAnswers(b, e) /\ SameNet(b, e)
        /\ e.state = b.state /\ e.new = b.new /\ e.timer = b.timer
    <3>1. [b.lib EXCEPT ![n] = "connecting"] \in [Quics -> Libs]
      BY <1>1, <2>2 DEF Connection, Libs
    <3>2. e \in Connection
      BY <1>1, <2>2, <3>1, ZenonT(60) DEF Connection
    <3> QED
      BY <1>1, <3>2, ZenonT(60) DEF Connection, SameLife, SameTasks, SameAnswers, SameNet
  <2>6. CASE o = "bad"
    <3> DEFINE f == NotifyConnectResult(b, s, "FAILURE")
               g == SetState(f, FREED, "FAILURE")
    <3>1. ConnectInternal(b, s, o) = g
      BY <2>6 DEF ConnectInternal
    <3>2. Good(f) /\ f.life = b.life /\ f.closed = b.closed /\ f.state = INIT
      BY <1>2, <2>1, NotifyGood DEF SameLife
    <3> HIDE DEF f
    <3>3. Good(g) /\ g.life = b.life /\ g.closed = b.closed /\ g.new = FREED /\ g.state = INIT
      <4>1. Good(g) /\ g.life = f.life /\ g.closed = f.closed
        BY <1>2, <3>2, SetStateGood DEF Good, AlmostGood, Keeps
      <4>2. g.new = FREED /\ g.state = f.state
        BY <3>2, ZenonT(60) DEF Good, Connection, SetState
      <4> QED BY <3>2, <4>1, <4>2
    <3> HIDE DEF g
    <3>4. g \in Connection /\ Answering(g) /\ Ending(g) /\ Slots(g) /\ Addressed(g)
      BY <3>3 DEF Good
    <3>5. h = [g EXCEPT !.state = HANDSHAKE]
      BY <2>3, <3>1
    <3> HIDE DEF h
    <3>6. h \in Connection
      BY <2>4, <3>4, <3>5, ZenonT(60) DEF Connection
    <3>7. /\ h.state = HANDSHAKE /\ h.new = FREED /\ h.timer = g.timer
          /\ SameLife(g, h) /\ SameTasks(g, h) /\ SameAnswers(g, h) /\ SameQuic(g, h)
      BY <3>3, <3>4, <3>5, Zenon
      DEF Connection, SameLife, SameTasks, SameAnswers, SameQuic
    <3>8. /\ Queued(h) = Queued(g) /\ (Distinct(h) <=> Distinct(g))
          /\ Taken(h) = Taken(g) /\ Used(h) = Used(g)
      BY <3>7, SameQueued DEF SameQuic, Used
    <3>9. Answering(h)
      BY <3>4, <3>7, <3>8 DEF Answering, Unanswered, SameAnswers, SameTasks
    <3>10. Ending(h)
      BY <3>3, <3>4, <3>7
      DEF Ending, SameLife, SameAnswers, SameTasks, HANDSHAKE, INIT, CLOSING_QUIC, FREED
    <3>11. Slots(h)
      BY <3>4, <3>7, <3>8
      DEF Slots, Again, Failed, SameAnswers, SameTasks, SameQuic, HANDSHAKE, INIT
    <3>12. Addressed(h)
      BY <3>7 DEF Addressed, FREED, MAX
    <3> QED
      BY <3>3, <3>6, <3>7, <3>9, <3>10, <3>11, <3>12 DEF Keeps, Good, SameLife, h
  <2>7. CASE o = "notimer"
    <3> DEFINE f == NotifyConnectResult(e, s, "FAILURE")
               g == SetState(f, FREED, "FAILURE")
    <3>1. ConnectInternal(b, s, o) = g
      BY <2>7, Zenon DEF ConnectInternal, n
    <3> HIDE DEF e
    <3>2. /\ f \in Connection
          /\ f.ans = [e.ans EXCEPT ![s] = Append(e.ans[s], "FAILURE")] /\ ~f.late
          /\ f.rpc = IF s = e.rpc THEN NULL ELSE e.rpc
          /\ SameLife(e, f) /\ SameTasks(e, f) /\ SameQuic(e, f)
      <4>1. ~e.late /\ e.closed # "told" /\ "FAILURE" \in Statuses
        BY <1>1, <1>2, <2>5 DEF Answering, SameAnswers, SameLife
      <4> QED BY <2>5, <4>1, NotifyFields
    <3> HIDE DEF f
    <3>3. h = [g EXCEPT !.state = HANDSHAKE]
      BY <2>3, <3>1
    <3> HIDE DEF h
    <3>4. h \in Connection
      <4>1. g \in Connection
        BY <1>2, <3>2, ZenonT(60) DEF SetState, Connection
      <4> HIDE DEF g
      <4> QED BY <2>4, <3>3, <4>1, ZenonT(60) DEF Connection
    <3>5. /\ h.state = HANDSHAKE /\ h.new = FREED /\ SameQuic(f, h)
          /\ SameLife(f, h) /\ SameTasks(f, h) /\ SameAnswers(f, h)
      BY <3>2, <3>3, ZenonT(60) DEF SetState, Connection, SameLife, SameTasks, SameAnswers, SameQuic
    <3>6. /\ h.ans = [b.ans EXCEPT ![s] = Append(b.ans[s], "FAILURE")] /\ ~h.late
          /\ h.rpc = b.rpc /\ SameLife(b, h) /\ SameTasks(b, h)
          /\ h.quic = n /\ h.lib = [b.lib EXCEPT ![n] = "connecting"]
      BY <2>5, <3>2, <3>5 DEF SameLife, SameTasks, SameAnswers, SameQuic
    <3>7. b.ans \in [Stubs -> Seq(Statuses)] /\ b.rpc \in Stubs \cup {NULL}
      BY <1>1 DEF Connection
    <3>8. /\ h.ans[s] = <<"FAILURE">> /\ Len(h.ans[s]) <= 1
          /\ \A t \in Stubs \ {s} : h.ans[t] = b.ans[t]
      BY <3>6, <3>7 DEF Unanswered
    <3>9. Queued(h) = Queued(b) /\ (Distinct(h) <=> Distinct(b))
      BY <3>6, SameQueued
    <3>10. Answering(h)
      <4>1. h.posted = b.posted /\ s \in b.posted
        BY <3>6 DEF SameTasks, Unanswered
      <4>2. \A t \in Queued(h) : t \in Stubs /\ Unanswered(h, t) /\ t # h.rpc
        BY <1>1, <3>6, <3>8, <3>9, <4>1 DEF Answering, Unanswered
      <4>3. h.rpc # NULL => Unanswered(h, h.rpc)
        BY <1>1, <3>6, <3>7, <3>8, <4>1 DEF Answering, Unanswered
      <4>4. ASSUME NEW t \in Stubs
            PROVE  Len(h.ans[t]) <= 1 /\ (t \notin h.posted => h.ans[t] = <<>>)
        <5>1. CASE t = s
          BY <3>8, <4>1, <5>1
        <5>2. CASE t # s
          BY <1>1, <3>8, <4>1, <5>2 DEF Answering
        <5> QED BY <5>1, <5>2
      <4> QED
        BY <1>1, <3>6, <3>9, <4>2, <4>3, <4>4 DEF Answering
    <3>11. Ending(h)
      BY <1>1, <2>1, <3>5, <3>6
      DEF Ending, SameLife, SameTasks, HANDSHAKE, INIT, CLOSING_QUIC, FREED
    <3>12. Slots(h)
      BY <2>1, <2>2, <3>4, <3>5, <3>6, <3>8, StartedSlots
    <3>13. Addressed(h)
      BY <3>5 DEF Addressed, FREED, MAX
    <3> QED
      BY <3>4, <3>6, <3>10, <3>11, <3>12, <3>13 DEF Keeps, Good, SameLife, h
  <2>8. CASE o = "ok"
    <3> DEFINE g == [e EXCEPT !.timer = TRUE, !.rpc = s]
    <3>1. ConnectInternal(b, s, o) = g
      BY <2>8, Zenon DEF ConnectInternal, n
    <3> HIDE DEF e
    <3>2. h = [g EXCEPT !.state = HANDSHAKE]
      BY <2>3, <3>1
    <3> HIDE DEF h
    <3>3. h \in Connection
      <4>1. g \in Connection
        BY <2>5, ZenonT(60) DEF Connection
      <4> HIDE DEF g
      <4> QED BY <2>4, <3>2, <4>1, ZenonT(60) DEF Connection
    <3>4. /\ h.state = HANDSHAKE /\ h.new = e.new /\ h.rpc = s
          /\ h.ans = e.ans /\ h.late = e.late
          /\ SameLife(e, h) /\ SameTasks(e, h) /\ SameQuic(e, h) /\ SameNet(e, h)
      BY <2>5, <3>2, ZenonT(60) DEF Connection, SameLife, SameTasks, SameQuic, SameNet
    <3>5. /\ h.new = MAX /\ h.ans = b.ans /\ h.late = b.late
          /\ SameLife(b, h) /\ SameTasks(b, h) /\ SameNet(b, h)
          /\ h.quic = n /\ h.lib = [b.lib EXCEPT ![n] = "connecting"]
      BY <2>5, <3>4 DEF SameLife, SameTasks, SameAnswers, SameQuic, SameNet
    <3>6. /\ Queued(h) = Queued(b) /\ (Distinct(h) <=> Distinct(b))
          /\ (Restarted(h) <=> Restarted(b))
      BY <3>5, SameQueued
    <3>7. Answering(h)
      BY <1>1, <3>4, <3>5, <3>6 DEF Answering, Unanswered, SameTasks
    <3>8. Ending(h)
      BY <1>1, <2>1, <3>4, <3>5
      DEF Ending, SameLife, SameTasks, HANDSHAKE, INIT, CLOSING_QUIC, FREED
    <3>9. Slots(h)
      BY <2>1, <2>2, <3>3, <3>4, <3>5, StartedSlots
    <3>10. Addressed(h)
      BY <1>1, <3>5, <3>6 DEF Addressed, Routed, OnlyRestarts, LastEvent, Bound, SameNet
    <3> QED
      BY <3>3, <3>5, <3>7, <3>8, <3>9, <3>10 DEF Keeps, Good, SameLife, h
  <2> QED
    BY <1>5, <2>6, <2>7, <2>8, ConnectorAssumption
<1> QED
  BY <1>3, <1>4, <1>5
-----------------------------------------------------------------------------
(* The other tasks.                                                        *)

LEMMA RestartTaskKeeps ==
  ASSUME NEW b, Good(b), NEW i \in Nets
  PROVE  Keeps(b, RestartTask(b, i))
<1> DEFINE e == [b EXCEPT !.handle = i]
           d == PostEvent(e, Task("restart", i))
<1>1. b \in Connection /\ AlmostGood(b) /\ Addressed(b)
  BY DEF Good, AlmostGood
<1>2. RestartTask(b, i) = d
  BY Zenon DEF RestartTask
<1>3. e \in Connection
  BY <1>1, ZenonT(60) DEF Connection
<1>4. SameBesidesNet(b, e) /\ SameSocket(b, e) /\ e.handle = i /\ e.work = b.work
  BY <1>1, Zenon
  DEF Connection, SameBesidesNet, SameSocket, SameLife, SameTasks, SameAnswers, SameQuic
<1> HIDE DEF e
<1>5. /\ d \in Connection /\ SameBesidesNet(e, d) /\ SameSocket(e, d) /\ d.handle = i
      /\ d.work = IF Accepts(e) THEN Append(e.work, Task("restart", i)) ELSE e.work
  BY <1>3, <1>4, PostEventFields, EventTypes
<1> HIDE DEF d
<1>6. /\ AlmostGood(d) /\ (Restarted(d) <=> Restarted(b)) /\ d.life = b.life
      /\ d.closed = b.closed /\ d.new = b.new
  BY <1>1, <1>3, <1>4, <1>5, NetOnly DEF SameBesidesNet, SameLife
<1>7. /\ d.udp = b.udp /\ d.sock = b.sock /\ d.local = b.local /\ d.up = b.up
      /\ e.udp = b.udp
  BY <1>4, <1>5 DEF SameSocket
<1>8. ASSUME d.new = MAX, d.udp = "open"
      PROVE  Routed(d)
  <2>1. d.work = Append(e.work, Task("restart", i))
    BY <1>5, <1>7, <1>8 DEF Accepts
  <2>2. OnlyRestarts(e)
    BY <1>1, <1>4, <1>6, <1>7, <1>8 DEF Addressed, Routed, OnlyRestarts
  <2>3. OnlyRestarts(d) /\ LastEvent(d, i) /\ d.work # <<>>
    BY <1>3, <1>5, <2>1, <2>2, AppendWork, EventTypes
  <2> QED BY <1>5, <2>3 DEF Routed
<1>9. Addressed(d)
  BY <1>1, <1>6, <1>7, <1>8 DEF Addressed
<1> QED
  BY <1>2, <1>6, <1>9 DEF Keeps, Good, AlmostGood

LEMMA OnRestartTaskKeeps ==
  ASSUME NEW b, AlmostGood(b), b.new = MAX /\ b.udp = "open" => Routed(b)
  PROVE  Keeps(b, OnRestartTask(b))
<1> DEFINE l == IF b.up THEN b.sock ELSE "unset"
           d == [b EXCEPT !.local = l]
<1>1. b \in Connection
  BY DEF AlmostGood
<1>2. CASE b.udp = "gone"
  BY <1>2 DEF OnRestartTask, Keeps, Good, Addressed, AlmostGood
<1>3. CASE b.udp # "gone"
  <2>1. OnRestartTask(b) = d
    BY <1>3, Zenon DEF OnRestartTask
  <2>2. l \in Nets \cup {"unset"} /\ (b.up => l = b.sock)
    BY <1>1 DEF Connection
  <2> HIDE DEF l
  <2>3. d \in Connection
    BY <1>1, <2>2, ZenonT(60) DEF Connection
  <2>4. /\ SameBesidesNet(b, d) /\ d.udp = b.udp /\ d.handle = b.handle
        /\ d.sock = b.sock /\ d.work = b.work /\ d.drain = b.drain
        /\ d.target = b.target /\ d.up = b.up /\ d.missed = b.missed /\ d.local = l
    BY <1>1, ZenonT(60) DEF Connection, SameBesidesNet, SameLife, SameTasks, SameAnswers, SameQuic
  <2> HIDE DEF d
  <2>5. AlmostGood(d) /\ d.life = b.life /\ d.closed = b.closed /\ d.new = b.new
    BY <2>3, <2>4, NetOnly DEF SameBesidesNet, SameLife
  <2>6. Routed(b) => Routed(d)
    BY <2>4 DEF Routed, OnlyRestarts, LastEvent, Bound
  <2>7. Addressed(d)
    BY <2>2, <2>4, <2>5, <2>6 DEF Addressed
  <2> QED
    BY <2>1, <2>5, <2>7 DEF Keeps, Good, AlmostGood
<1> QED BY <1>2, <1>3

LEMMA RunTaskKeeps ==
  ASSUME NEW b, Good(b), b.q # <<>>, NEW o \in Outcomes
  PROVE  Keeps(b, RunTask(b, Head(b.q), o))
<1> DEFINE t == Head(b.q)
           d == Popping(b)
           e == IF Closing(d) THEN d ELSE Run(d, t, o)
<1>1. /\ AlmostGood(d) /\ t \in TaskType /\ d.life = b.life /\ d.closed = "no"
      /\ b.closed = "no" /\ d.new = b.new
      /\ t.t # "restarted" => Addressed(d)
      /\ d.new = MAX /\ d.udp = "open" => Routed(d)
      /\ IsConnect(t) => /\ t.x \in Stubs /\ Unanswered(d, t.x) /\ t.x \notin Queued(d)
                         /\ t.x # d.rpc
                         /\ Cardinality(Used(d)) < Cardinality(Taken(d))
  BY PoppingFacts
<1>2. RunTask(b, t, o) = CloseCheck(e)
  BY Zenon DEF RunTask, Popping
<1> HIDE DEF t, d
<1>3. d.new \in {FREED, MAX} /\ t.t \in TaskKinds /\ (t.t = "restart" => t.x \in Nets)
  BY <1>1 DEF AlmostGood, Connection, TaskType
<1>4. {"SUCCESS", "NETDOWN"} \subseteq Statuses
  BY DEF Statuses
<1>5. Closing(d) <=> d.new = FREED
  BY <1>1 DEF AlmostGood, Connection, Ending, Closing, FREED, MAX, CONNECTED, INIT
<1>6. Keeps(d, e)
  <2>1. CASE d.new = FREED
    BY <1>1, <1>5, <2>1 DEF Keeps, Good, AlmostGood, Addressed, FREED, MAX
  <2>2. CASE d.new = MAX /\ t.t = "connect"
    <3>1. e = ConnectTask(d, t.x, o)
      BY <1>5, <2>2 DEF Run, FREED, MAX
    <3>2. Good(d) /\ IsConnect(t)
      BY <1>1, <2>2 DEF Good, AlmostGood, IsConnect
    <3> QED BY <1>1, <2>2, <3>1, <3>2, ConnectTaskKeeps
  <2>3. CASE d.new = MAX /\ t.t = "close"
    <3>1. e = SetState(d, FREED, "SUCCESS")
      BY <1>5, <2>3 DEF Run, CloseTask, FREED, MAX
    <3> QED BY <1>1, <1>4, <3>1, SetStateGood
  <2>4. CASE d.new = MAX /\ t.t = "restart"
    <3>1. e = RestartTask(d, t.x)
      BY <1>5, <2>4 DEF Run, FREED, MAX
    <3>2. Good(d)
      BY <1>1, <2>4 DEF Good, AlmostGood
    <3> QED BY <1>3, <2>4, <3>1, <3>2, RestartTaskKeeps
  <2>5. CASE d.new = MAX /\ t.t = "restarted"
    <3>1. e = OnRestartTask(d)
      BY <1>5, <2>5 DEF Run, FREED, MAX
    <3> QED BY <1>1, <3>1, OnRestartTaskKeeps
  <2>6. CASE d.new = MAX /\ t.t = "udpClosed"
    <3>1. e = SetState(d, FREED, "NETDOWN")
      BY <1>5, <2>6 DEF Run, OnUdpClosedTask, FREED, MAX
    <3> QED BY <1>1, <1>4, <3>1, SetStateGood
  <2>7. CASE d.new = MAX /\ t.t = "notRestarted"
    <3>1. e = d
      BY <1>5, <2>7 DEF Run, FREED, MAX
    <3> QED BY <1>1, <2>7, <3>1 DEF Keeps, Good, AlmostGood
  <2> QED
    BY <1>3, <2>1, <2>2, <2>3, <2>4, <2>5, <2>6, <2>7 DEF TaskKinds
<1> HIDE DEF e
<1> QED
  BY <1>1, <1>2, <1>6, CloseCheckKeeps DEF Keeps, t
-----------------------------------------------------------------------------
(* The actions.                                                            *)

RqType == Seq({"close", "check", "told"})
NetType == [iface : Nets, changes : 0..MaxChange]
MonType == [sig : Nets, first : BOOLEAN, cool : BOOLEAN, i : Nets, todo : SUBSET Conns]

(* A step of the connections that leaves the connector alone. *)
LEMMA ConnsKept ==
  ASSUME IInv, conn' = [c \in Conns |-> conn'[c]], \A c \in Conns : Keeps(conn[c], conn'[c]),
         UNCHANGED ctor, rq' \in RqType, net' \in NetType, mon' \in MonType
  PROVE  IInv'
BY DEF IInv, Keeps, Good, Live, RqType, NetType, MonType

LEMMA ConnKept ==
  ASSUME IInv, NEW c \in Conns, NEW d, Keeps(conn[c], d), conn' = [conn EXCEPT ![c] = d],
         UNCHANGED ctor, rq' \in RqType, net' \in NetType, mon' \in MonType
  PROVE  IInv'
<1>1. conn' = [k \in Conns |-> conn'[k]] /\ \A k \in Conns : Keeps(conn[k], conn'[k])
  BY DEF IInv, Keeps
<1> QED
  BY <1>1, ConnsKept

LEMMA OthersKept ==
  ASSUME IInv
  PROVE  /\ \A c \in Conns : Good(conn[c])
         /\ UNCHANGED rq => rq' \in RqType
         /\ UNCHANGED net => net' \in NetType
         /\ UNCHANGED mon => mon' \in MonType
BY DEF IInv, RqType, NetType, MonType

(* A task that is no Connect is posted. *)
LEMMA PostAlmost ==
  ASSUME NEW b, AlmostGood(b), NEW t \in TaskType, ~IsConnect(t)
  PROVE  LET d == Post(b, t) IN
         /\ AlmostGood(d) /\ d.life = b.life /\ d.closed = b.closed
         /\ d.new = b.new /\ SameNet(b, d)
         /\ Restarted(b) => Restarted(d)
         /\ ~b.detached /\ t.t = "restarted" => Restarted(d)
<1> DEFINE d == Post(b, t)
<1>1. b \in Connection /\ Answering(b) /\ Ending(b) /\ Slots(b)
  BY DEF AlmostGood
<1>2. /\ d \in Connection /\ d = [b EXCEPT !.q = d.q]
      /\ d.q = IF b.detached THEN b.q ELSE Append(b.q, t)
  BY <1>1, PostFields
<1>3. d = Post(b, t)
  OBVIOUS
<1> HIDE DEF d
<1>4. /\ d.new = b.new /\ d.state = b.state /\ d.timer = b.timer /\ d.posted = b.posted
      /\ SameLife(b, d) /\ SameAnswers(b, d) /\ SameQuic(b, d) /\ SameNet(b, d)
  BY <1>1, <1>2 DEF Connection, SameLife, SameAnswers, SameQuic, SameNet
<1>5. /\ Queued(d) = Queued(b) /\ (Distinct(b) => Distinct(d))
      /\ Restarted(b) => Restarted(d)
      /\ ~b.detached /\ t.t = "restarted" => Restarted(d)
  <2>1. CASE b.detached
    BY <1>2, <2>1 DEF Queued, Distinct, Restarted
  <2>2. CASE ~b.detached
    BY <1>1, <1>2, <2>2, AppendQueued
  <2> QED BY <2>1, <2>2
<1>6. Taken(d) = Taken(b) /\ Used(d) = Used(b)
  BY <1>4, <1>5 DEF Taken, Used, SameQuic
<1>7. Answering(d)
  BY <1>1, <1>4, <1>5 DEF Answering, Unanswered, SameAnswers
<1>8. Ending(d)
  BY <1>1, <1>2, <1>4 DEF Ending, SameLife, SameAnswers, SameQuic
<1>9. Slots(d)
  BY <1>1, <1>4, <1>6 DEF Slots, Again, Failed, SameAnswers, SameQuic
<1> QED
  BY <1>2, <1>3, <1>4, <1>5, <1>7, <1>8, <1>9 DEF AlmostGood, SameLife

LEMMA PostKeeps ==
  ASSUME NEW b, Good(b), NEW t \in TaskType, ~IsConnect(t)
  PROVE  Keeps(b, Post(b, t)) /\ Post(b, t).new = b.new
<1>1. AlmostGood(b) /\ Addressed(b)
  BY DEF Good, AlmostGood
<1>2. Addressed(Post(b, t))
  BY <1>1, PostAlmost DEF Addressed, Routed, OnlyRestarts, LastEvent, Bound, SameNet
<1> QED
  BY <1>1, <1>2, PostAlmost DEF Keeps, Good, AlmostGood

LEMMA TaskTypes ==
  /\ \A k \in {"close", "restarted", "notRestarted", "udpClosed"} :
       Task(k, NULL) \in TaskType /\ ~IsConnect(Task(k, NULL)) /\ Task(k, NULL).t = k
  /\ \A i \in Nets : Task("restart", i) \in TaskType /\ ~IsConnect(Task("restart", i))
  /\ \A s \in Stubs : /\ Task("connect", s) \in TaskType /\ IsConnect(Task("connect", s))
                      /\ Task("connect", s).x = s
BY DEF Task, TaskType, IsConnect, TaskKinds, Nets
(* A change of state or timer while the connection works. *)
LEMMA RestatedGood ==
  ASSUME NEW b, Good(b), NEW d \in Connection, d.new = b.new,
         SameLife(b, d), SameTasks(b, d), SameAnswers(b, d), SameQuic(b, d), SameNet(b, d),
         b.state >= INIT, d.state >= INIT, d.state = INIT /\ d.quic # 0 => Failed(b)
  PROVE  Good(d)
<1>1. b \in Connection /\ Answering(b) /\ Ending(b) /\ Slots(b) /\ Addressed(b)
  BY DEF Good
<1>2. /\ Queued(d) = Queued(b) /\ (Distinct(d) <=> Distinct(b))
      /\ (Restarted(d) <=> Restarted(b)) /\ Taken(d) = Taken(b) /\ Used(d) = Used(b)
  BY SameQueued DEF SameQuic, Used
<1>3. Answering(d)
  BY <1>1, <1>2 DEF Answering, Unanswered, SameAnswers, SameTasks
<1>4. Ending(d)
  <2> b.state \in FREED..CONNECTED /\ d.state \in FREED..CONNECTED
    BY <1>1 DEF Connection
  <2> QED
    BY <1>1 DEF Ending, SameLife, SameTasks, SameAnswers, SameQuic, INIT, CLOSING_QUIC, FREED, CONNECTED
<1>5. Slots(d)
  BY <1>1, <1>2 DEF Slots, Again, Failed, SameAnswers, SameTasks, SameQuic
<1>6. Addressed(d)
  BY <1>1, <1>2 DEF Addressed, Routed, OnlyRestarts, LastEvent, Bound, SameNet
<1> QED
  BY <1>3, <1>4, <1>5, <1>6 DEF Good

(* A connection nothing has happened to. *)
Fresh(b) ==
  /\ b.state = INIT /\ b.new = MAX /\ b.quic = 0 /\ b.lib = [j \in Quics |-> "none"]
  /\ b.rpc = NULL /\ ~b.timer /\ b.handle = b.sock /\ b.local = b.sock
  /\ b.work = <<>> /\ ~b.drain
  /\ b.q = <<>> /\ ~b.detached /\ b.closed = "no" /\ b.ans = [s \in Stubs |-> <<>>]
  /\ b.posted = {} /\ ~b.late

LEMMA FreshGood ==
  ASSUME NEW b \in Connection, Fresh(b)
  PROVE  Good(b)
<1>4. Queued(b) = {} /\ Distinct(b) /\ Taken(b) = {} /\ Used(b) = {}
  BY DEF Fresh, Queued, Distinct, Taken, Used
<1>5. Answering(b)
  <2>1. \A s \in Stubs : b.ans[s] = <<>>
    BY DEF Fresh
  <2>2. Len(<<>>) <= 1
    OBVIOUS
  <2> QED
    BY <1>4, <2>1, <2>2 DEF Answering, Fresh
<1>6. Ending(b)
  BY DEF Ending, Fresh, INIT, FREED, CLOSING_QUIC
<1>7. Slots(b)
  <2>1. Cardinality({}) = 0
    BY FS_EmptySet
  <2> QED BY <1>4, <2>1 DEF Slots, Fresh
<1>8. Addressed(b)
  BY DEF Addressed, Routed, OnlyRestarts, LastEvent, Bound, Fresh
<1> QED
  BY <1>5, <1>6, <1>7, <1>8 DEF Good

LEMMA UnbornGood ==
  Unborn \in Connection /\ Good(Unborn) /\ Unborn.life = "none" /\ Unborn.closed = "no"
<1>1. /\ INIT \in FREED..CONNECTED /\ 0 \in 0..MaxClose /\ 0 \in 0..MaxRestart
      /\ [j \in Quics |-> "none"] \in [Quics -> Libs]
      /\ [s \in Stubs |-> <<>>] \in [Stubs -> Seq(Statuses)] /\ <<>> \in Seq(TaskType)
      /\ <<>> \in Seq(EventType) /\ "open" \in Udps
      /\ "SUCCESS" \in Statuses /\ {} \in SUBSET Stubs /\ NULL \in Nets
  BY ConnectorAssumption DEF INIT, FREED, CONNECTED, Libs, Statuses, Nets, Udps
<1>2. Unborn \in Connection
  BY <1>1, ZenonT(60) DEF Connection, Unborn
<1>3. Fresh(Unborn) /\ Unborn.life = "none" /\ Unborn.closed = "no"
  BY DEF Fresh, Unborn
<1> QED
  BY <1>2, <1>3, FreshGood

LEMMA CreatedGood ==
  ASSUME NEW i \in Nets
  PROVE  /\ Created(i) \in Connection /\ Good(Created(i))
         /\ Created(i).life = "live" /\ Created(i).closed = "no"
<1> DEFINE d == Created(i)
<1>1. Unborn \in Connection /\ Fresh(Unborn)
  BY UnbornGood DEF Fresh, Unborn
<1>2. d \in Connection
  BY <1>1, ZenonT(60) DEF Connection, Created
<1>3. /\ d.life = "live" /\ d.handle = i /\ d.sock = i /\ d.local = i
      /\ d.state = Unborn.state /\ d.new = Unborn.new /\ d.timer = Unborn.timer
      /\ d.work = Unborn.work /\ d.drain = Unborn.drain
      /\ d.closed = Unborn.closed /\ d.detached = Unborn.detached
      /\ SameTasks(Unborn, d) /\ SameAnswers(Unborn, d) /\ SameQuic(Unborn, d)
  BY <1>1, ZenonT(60) DEF Connection, Created, SameTasks, SameAnswers, SameQuic
<1>4. d.closed = "no" /\ Fresh(d)
  <2> HIDE DEF d
  <2> QED BY <1>1, <1>3 DEF Fresh, SameTasks, SameAnswers, SameQuic
<1> QED
  BY <1>2, <1>3, <1>4, FreshGood
LEMMA CreateConnectionInv ==
  ASSUME IInv, NEW c \in Conns, CreateConnection(c)
  PROVE  IInv'
<1> DEFINE d == Created(net.iface)
<1>1. net.iface \in Nets
  BY DEF IInv
<1>2. d \in Connection /\ Good(d) /\ d.life = "live" /\ d.closed = "no"
  BY <1>1, CreatedGood
<1>3. conn[c].life = "none" /\ ~CtorClosing(ctor)
      /\ conn' = [conn EXCEPT ![c] = d]
      /\ ctor' = [ctor EXCEPT !.conns = @ \cup {c}] /\ UNCHANGED <<rq, net, mon>>
  BY DEF CreateConnection
<1> HIDE DEF d
<1>4. /\ ctor' \in [state : {FREED, CTOR_INIT, CTOR_WORKING}, new : {FREED, MAX},
                    conns : SUBSET Conns, engine : BOOLEAN, told : BOOLEAN, closes : 0..1]
      /\ ctor'.engine = ctor.engine /\ ctor'.conns = ctor.conns \cup {c}
  BY <1>3 DEF IInv
<1>5. ctor.engine
  BY <1>3 DEF IInv, CtorClosing
<1>6. \A k \in Conns : /\ k # c => conn'[k] = conn[k]
                       /\ conn'[c] = d
  BY <1>3 DEF IInv
<1>7. conn' \in [Conns -> Connection] /\ \A k \in Conns : Good(conn'[k])
  BY <1>2, <1>3, <1>6 DEF IInv
<1>8. \A k \in Conns : k \in ctor'.conns <=> conn'[k].life = "live" /\ conn'[k].closed = "no"
  BY <1>2, <1>4, <1>6 DEF IInv, Live
<1>9. \A k \in Conns : conn'[k].life = "deleted" => conn'[k].closed = "told"
  BY <1>2, <1>6 DEF IInv
<1> QED
  BY <1>3, <1>4, <1>5, <1>7, <1>8, <1>9 DEF IInv, Live

LEMMA ConnectInv ==
  ASSUME IInv, NEW c \in Conns, NEW s \in Stubs, Connect(c, s)
  PROVE  IInv'
<1> DEFINE b == conn[c]
           e == Post(b, Task("connect", s))
           d == [e EXCEPT !.posted = b.posted \cup {s}]
<1>1. /\ s \notin b.posted /\ conn' = [conn EXCEPT ![c] = d] /\ UNCHANGED <<ctor, rq, net, mon>>
  BY DEF Connect
<1>2. b \in Connection /\ Answering(b) /\ Ending(b) /\ Slots(b) /\ Addressed(b)
  BY DEF IInv, Good
<1>3. /\ e \in Connection /\ e = [b EXCEPT !.q = e.q]
      /\ e.q = IF b.detached THEN b.q ELSE Append(b.q, Task("connect", s))
  BY <1>2, PostFields, TaskTypes
<1>4. /\ e.new = b.new /\ e.state = b.state /\ e.timer = b.timer /\ e.posted = b.posted
      /\ SameLife(b, e) /\ SameAnswers(b, e) /\ SameQuic(b, e) /\ SameNet(b, e)
  <2> HIDE DEF e
  <2> QED
    BY <1>2, <1>3 DEF Connection, SameLife, SameAnswers, SameQuic, SameNet
<1> HIDE DEF e
<1>5. d \in Connection
  <2> b.posted \cup {s} \in SUBSET Stubs
    BY <1>2 DEF Connection
  <2> QED BY <1>3, ZenonT(60) DEF Connection
<1>6. /\ d.q = e.q /\ d.posted = b.posted \cup {s}
      /\ d.new = e.new /\ d.state = e.state /\ d.timer = e.timer
      /\ SameLife(e, d) /\ SameAnswers(e, d) /\ SameQuic(e, d) /\ SameNet(e, d)
  BY <1>3, ZenonT(60) DEF Connection, SameLife, SameAnswers, SameQuic, SameNet
<1> HIDE DEF d
<1>7. /\ d.posted = b.posted \cup {s}
      /\ d.new = b.new /\ d.state = b.state /\ d.timer = b.timer
      /\ SameLife(b, d) /\ SameAnswers(b, d) /\ SameQuic(b, d) /\ SameNet(b, d)
  BY <1>4, <1>6 DEF SameLife, SameAnswers, SameQuic, SameNet
<1>8. s \notin Queued(b) /\ s # b.rpc /\ b.ans[s] = <<>>
  BY <1>1, <1>2, ConnectorAssumption DEF Answering, Unanswered
<1>9. /\ Queued(b) \subseteq Queued(d) /\ Queued(d) \subseteq Queued(b) \cup {s}
      /\ Distinct(d) /\ (Restarted(d) <=> Restarted(b))
  <2>1. CASE b.detached
    BY <1>2, <1>3, <1>6, <2>1 DEF Queued, Distinct, Restarted, Answering
  <2>2. CASE ~b.detached
    <3>1. d.q = Append(b.q, Task("connect", s)) /\ Distinct(b)
      BY <1>2, <1>3, <1>6, <2>2 DEF Answering
    <3>2. Task("connect", s) \in TaskType /\ Task("connect", s).x = s
          /\ Task("connect", s).t # "restarted" /\ IsConnect(Task("connect", s))
      BY TaskTypes DEF Task
    <3> QED BY <1>2, <1>5, <1>8, <3>1, <3>2, AppendQueued
  <2> QED BY <2>1, <2>2
<1>10. Answering(d)
  BY <1>2, <1>7, <1>8, <1>9 DEF Answering, Unanswered, SameAnswers
<1>11. Ending(d)
  BY <1>2, <1>3, <1>6, <1>7 DEF Ending, SameLife, SameAnswers, SameQuic
<1>12. Slots(d)
  <2>1. Used(d) = Used(b) /\ Taken(b) \subseteq Taken(d) /\ b.posted \subseteq d.posted
    BY <1>7, <1>8, <1>9, <1>1 DEF Used, Taken, SameQuic
  <2>2. /\ Cardinality(Taken(b)) <= Cardinality(Taken(d))
        /\ Cardinality(b.posted) <= Cardinality(d.posted)
    BY <1>2, <1>5, <2>1, TakenCard, FS_Subset
  <2>3. Again(b) => Again(d)
    <3>1. Failed(b) => Failed(d)
      BY <1>7 DEF Failed, SameAnswers
    <3>2. Cardinality(b.posted) \in Nat /\ Cardinality(d.posted) \in Nat
      BY <1>2, <1>5, TakenCard
    <3> QED BY <2>2, <3>1, <3>2 DEF Again
  <2>4. Cardinality(Used(d)) <= Cardinality(Taken(d))
    BY <1>2, <1>5, <2>1, <2>2, TakenCard DEF Slots
  <2> QED
    BY <1>2, <1>7, <2>1, <2>3, <2>4 DEF Slots, Failed, SameAnswers, SameQuic
<1>13. Addressed(d)
  BY <1>2, <1>7, <1>9 DEF Addressed, Routed, OnlyRestarts, LastEvent, Bound, SameNet
<1>14. Keeps(b, d)
  BY <1>5, <1>7, <1>10, <1>11, <1>12, <1>13 DEF Keeps, Good, SameLife
<1> QED
  BY <1>1, <1>14, ConnKept, OthersKept

LEMMA CloseInv ==
  ASSUME IInv, NEW c \in Conns, Close(c)
  PROVE  IInv'
<1> DEFINE b == conn[c]
           e == Post(b, Task("close", NULL))
           d == [e EXCEPT !.closes = b.closes + 1]
<1>1. b.closes < MaxClose /\ conn' = [conn EXCEPT ![c] = d] /\ UNCHANGED <<ctor, rq, net, mon>>
  BY DEF Close
<1>2. Good(b) /\ b \in Connection
  BY DEF IInv, Good
<1>3. Keeps(b, e) /\ e \in Connection /\ e.closes = b.closes
  <2>1. Keeps(b, e)
    BY <1>2, PostKeeps, TaskTypes
  <2>2. e = [b EXCEPT !.q = e.q]
    BY <1>2, PostFields, TaskTypes
  <2> HIDE DEF e
  <2>3. e.closes = b.closes
    BY <1>2, <2>2 DEF Connection
  <2> QED
    BY <2>1, <2>3 DEF Keeps, Good
<1> HIDE DEF e
<1>4. b.closes + 1 \in 0..MaxClose
  BY <1>1, <1>2, ConnectorAssumption DEF Connection
<1>5. d \in Connection
  BY <1>3, <1>4, ZenonT(60) DEF Connection
<1>6. /\ d.new = e.new /\ d.state = e.state /\ d.timer = e.timer /\ SameTasks(e, d)
      /\ SameLife(e, d) /\ SameAnswers(e, d) /\ SameQuic(e, d) /\ SameNet(e, d)
  BY <1>3, ZenonT(60) DEF Connection, SameLife, SameAnswers, SameQuic, SameNet, SameTasks
<1> HIDE DEF d
<1>7. Good(d)
  <2>1. Answering(e) /\ Ending(e) /\ Slots(e) /\ Addressed(e)
    BY <1>3 DEF Keeps, Good
  <2>2. /\ Queued(d) = Queued(e) /\ (Distinct(d) <=> Distinct(e))
        /\ (Restarted(d) <=> Restarted(e)) /\ Taken(d) = Taken(e) /\ Used(d) = Used(e)
    BY <1>6, SameQueued DEF SameQuic, Used
  <2>3. Answering(d)
    BY <1>6, <2>1, <2>2 DEF Answering, Unanswered, SameAnswers, SameTasks
  <2>4. Ending(d)
    BY <1>6, <2>1 DEF Ending, SameLife, SameTasks, SameAnswers, SameQuic
  <2>5. Slots(d)
    BY <1>6, <2>1, <2>2 DEF Slots, Again, Failed, SameAnswers, SameTasks, SameQuic
  <2>6. Addressed(d)
    BY <1>6, <2>1, <2>2 DEF Addressed, Routed, OnlyRestarts, LastEvent, Bound, SameNet
  <2> QED
    BY <1>5, <2>3, <2>4, <2>5, <2>6 DEF Good
<1>8. Keeps(b, d)
  BY <1>3, <1>6, <1>7 DEF Keeps, SameLife
<1> QED
  BY <1>1, <1>8, ConnKept, OthersKept

LEMMA NullNet == NULL \in Nets
BY DEF Nets

LEMMA RestartInv ==
  ASSUME IInv, NEW c \in Conns, Restart(c)
  PROVE  IInv'
<1> DEFINE b == conn[c]
           e == Post(b, Task("restart", NULL))
           d == [e EXCEPT !.restarts = b.restarts + 1]
<1>1. b.restarts < MaxRestart /\ conn' = [conn EXCEPT ![c] = d] /\ UNCHANGED <<ctor, rq, net, mon>>
  BY DEF Restart
<1>2. Good(b) /\ b \in Connection
  BY DEF IInv, Good
<1>3. Keeps(b, e) /\ e \in Connection /\ e.restarts = b.restarts
  <2>1. Keeps(b, e)
    BY <1>2, PostKeeps, TaskTypes, NullNet
  <2>2. e = [b EXCEPT !.q = e.q]
    BY <1>2, PostFields, TaskTypes, NullNet
  <2> HIDE DEF e
  <2>3. e.restarts = b.restarts
    BY <1>2, <2>2 DEF Connection
  <2> QED
    BY <2>1, <2>3 DEF Keeps, Good
<1> HIDE DEF e
<1>4. b.restarts + 1 \in 0..MaxRestart
  BY <1>1, <1>2, ConnectorAssumption DEF Connection
<1>5. d \in Connection
  BY <1>3, <1>4, ZenonT(60) DEF Connection
<1>6. /\ d.new = e.new /\ d.state = e.state /\ d.timer = e.timer /\ SameTasks(e, d)
      /\ SameLife(e, d) /\ SameAnswers(e, d) /\ SameQuic(e, d) /\ SameNet(e, d)
  BY <1>3, ZenonT(60) DEF Connection, SameLife, SameAnswers, SameQuic, SameNet, SameTasks
<1> HIDE DEF d
<1>7. Good(d)
  <2>1. Answering(e) /\ Ending(e) /\ Slots(e) /\ Addressed(e)
    BY <1>3 DEF Keeps, Good
  <2>2. /\ Queued(d) = Queued(e) /\ (Distinct(d) <=> Distinct(e))
        /\ (Restarted(d) <=> Restarted(e)) /\ Taken(d) = Taken(e) /\ Used(d) = Used(e)
    BY <1>6, SameQueued DEF SameQuic, Used
  <2>3. Answering(d)
    BY <1>6, <2>1, <2>2 DEF Answering, Unanswered, SameAnswers, SameTasks
  <2>4. Ending(d)
    BY <1>6, <2>1 DEF Ending, SameLife, SameTasks, SameAnswers, SameQuic
  <2>5. Slots(d)
    BY <1>6, <2>1, <2>2 DEF Slots, Again, Failed, SameAnswers, SameTasks, SameQuic
  <2>6. Addressed(d)
    BY <1>6, <2>1, <2>2 DEF Addressed, Routed, OnlyRestarts, LastEvent, Bound, SameNet
  <2> QED
    BY <1>5, <2>3, <2>4, <2>5, <2>6 DEF Good
<1>8. Keeps(b, d)
  BY <1>3, <1>6, <1>7 DEF Keeps, SameLife
<1> QED
  BY <1>1, <1>8, ConnKept, OthersKept

LEMMA WorkerTaskInv ==
  ASSUME IInv, NEW c \in Conns, WorkerTask(c)
  PROVE  IInv'
<1>1. PICK o \in Outcomes : conn' = [conn EXCEPT ![c] = RunTask(conn[c], Head(conn[c].q), o)]
  BY DEF WorkerTask
<1>2. Keeps(conn[c], RunTask(conn[c], Head(conn[c].q), o))
  BY OthersKept, RunTaskKeeps DEF WorkerTask
<1> QED
  BY <1>1, <1>2, ConnKept, OthersKept DEF WorkerTask

LEMMA RestartConnInv ==
  ASSUME IInv, NEW c \in Conns, RestartConn(c)
  PROVE  IInv'
<1>1. mon' \in MonType /\ mon.i \in Nets
  BY DEF RestartConn, IInv, MonType
<1>2. CASE conn' = [conn EXCEPT ![c] = Post(conn[c], Task("restart", mon.i))]
  <2>1. Keeps(conn[c], Post(conn[c], Task("restart", mon.i)))
    BY <1>1, OthersKept, PostKeeps, TaskTypes
  <2> QED
    BY <1>1, <1>2, <2>1, ConnKept, OthersKept DEF RestartConn
<1>3. CASE conn' = conn
  BY <1>1, <1>3 DEF RestartConn, IInv, MonType, Live
<1> QED
  BY <1>2, <1>3 DEF RestartConn
LEMMA OnConnectTimeoutInv ==
  ASSUME IInv, NEW c \in Conns, OnConnectTimeout(c)
  PROVE  IInv'
<1> DEFINE b == conn[c]
           a == [b EXCEPT !.timer = FALSE]
           e == NotifyConnectResult(a, b.rpc, "TIMEDOUT")
           d == SetState(e, FREED, "TIMEDOUT")
<1>1. b.timer /\ conn' = [conn EXCEPT ![c] = CloseCheck(d)] /\ UNCHANGED <<ctor, rq, net, mon>>
  BY DEF OnConnectTimeout
<1>2. Good(b) /\ b \in Connection /\ b.timer /\ Answering(b) /\ Ending(b) /\ Slots(b)
  BY <1>1 DEF IInv, Good
<1>3. b.state >= INIT /\ b.closed = "no"
  BY <1>2 DEF Connection, Ending, INIT, CLOSING_QUIC, FREED, CONNECTED
<1> HIDE DEF b
<1>4. a \in Connection
  BY <1>2, ZenonT(60) DEF Connection
<1>5. /\ a.new = b.new /\ a.state = b.state /\ SameTasks(b, a) /\ SameQuic(b, a)
      /\ SameLife(b, a) /\ SameAnswers(b, a) /\ SameNet(b, a)
  BY <1>2, ZenonT(60) DEF Connection, SameLife, SameAnswers, SameQuic, SameNet, SameTasks
<1> HIDE DEF a
<1>6. Good(a)
  <2>1. a.state = INIT /\ a.quic # 0 => Failed(b)
    BY <1>2, <1>5 DEF Slots, SameQuic
  <2> QED BY <1>2, <1>3, <1>4, <1>5, <2>1, RestatedGood
<1>7. Good(e) /\ e.life = b.life /\ e.closed = b.closed
  <2>1. CASE b.rpc = NULL
    BY <1>5, <1>6, <2>1 DEF NotifyConnectResult, SameLife
  <2>2. CASE b.rpc # NULL
    <3>1. /\ a.rpc = b.rpc /\ a.rpc \in Stubs /\ Unanswered(a, a.rpc) /\ a.rpc \notin Queued(a)
          /\ "TIMEDOUT" \in Statuses /\ a.closed # "told"
      BY <1>3, <1>4, <1>5, <1>6, <2>2 DEF Good, Answering, Connection, SameAnswers, SameLife, Statuses
    <3> QED
      BY <1>5, <1>6, <3>1, NotifyGood DEF SameLife
  <2> QED BY <2>1, <2>2
<1> HIDE DEF e
<1>8. Keeps(b, d)
  <2>1. AlmostGood(e) /\ "TIMEDOUT" \in Statuses
    BY <1>7 DEF Good, AlmostGood, Statuses
  <2> QED BY <1>7, <2>1, SetStateGood DEF Keeps
<1> HIDE DEF d
<1>9. Keeps(b, CloseCheck(d))
  BY <1>8, CloseCheckKeeps DEF Keeps
<1> QED
  BY <1>1, <1>9, ConnKept, OthersKept DEF b

LEMMA OnHandshakeFinishedInv ==
  ASSUME IInv, NEW c \in Conns, OnHandshakeFinished(c)
  PROVE  IInv'
<1> DEFINE b == conn[c]
           a == [b EXCEPT !.state = CONNECTING]
           lib == [b.lib EXCEPT ![b.quic] = "open"]
           d == [a EXCEPT !.lib = lib]
<1>1. Good(b) /\ b \in Connection /\ Slots(b) /\ Ending(b)
  BY DEF IInv, Good
<1>2. /\ ~Closing(b) /\ b.quic # 0 /\ b.lib[b.quic] = "connecting"
      /\ UNCHANGED <<ctor, rq, net, mon>>
  BY DEF OnHandshakeFinished
<1>3. b.quic \in Quics /\ b.lib \in [Quics -> Libs] /\ b.new = MAX /\ b.state >= INIT
  BY <1>1, <1>2, ClosingIff DEF Connection, Ending, Closing, FREED, INIT, MAX, CONNECTED
<1>4. conn' = [conn EXCEPT ![c] = d]
  <2>1. conn' = [conn EXCEPT ![c].state = CONNECTING, ![c].lib[b.quic] = "open"]
    BY DEF OnHandshakeFinished
  <2> QED BY <1>1, <2>1, ZenonT(60) DEF IInv, Connection
<1> HIDE DEF b
<1>5. CONNECTING \in FREED..CONNECTED /\ lib \in [Quics -> Libs]
  BY <1>3 DEF Libs, CONNECTING, FREED, CONNECTED
<1>6. a \in Connection
  BY <1>1, <1>5, ZenonT(60) DEF Connection
<1>7. /\ a.new = b.new /\ a.state = CONNECTING /\ SameTasks(b, a) /\ SameQuic(b, a)
      /\ SameLife(b, a) /\ SameAnswers(b, a) /\ SameNet(b, a)
  BY <1>1, ZenonT(60) DEF Connection, SameLife, SameAnswers, SameQuic, SameNet, SameTasks
<1> HIDE DEF a
<1>8. Good(a)
  <2>1. a.state >= INIT /\ a.state # INIT
    BY <1>7 DEF CONNECTING, INIT
  <2> QED BY <1>1, <1>3, <1>6, <1>7, <2>1, RestatedGood
<1>9. d \in Connection
  <2> HIDE DEF lib
  <2> QED BY <1>5, <1>6, ZenonT(60) DEF Connection
<1>10. /\ d.new = a.new /\ d.state = CONNECTING /\ d.timer = a.timer /\ SameTasks(a, d)
       /\ d.quic = b.quic /\ d.lib = lib
       /\ SameLife(a, d) /\ SameAnswers(a, d) /\ SameNet(a, d)
  <2> HIDE DEF lib
  <2>1. /\ d.new = a.new /\ d.state = a.state /\ d.timer = a.timer /\ SameTasks(a, d)
       /\ d.quic = a.quic /\ d.lib = lib
       /\ SameLife(a, d) /\ SameAnswers(a, d) /\ SameNet(a, d)
    BY <1>6, ZenonT(60) DEF Connection, SameLife, SameAnswers, SameNet, SameTasks
  <2> QED BY <1>7, <2>1 DEF SameQuic
<1> HIDE DEF d
<1>11. Used(d) = Used(a) /\ (d.quic # 0 => d.lib[d.quic] # "none")
  <2>1. \A i \in Quics : d.lib[i] # "none" <=> b.lib[i] # "none"
    BY <1>2, <1>3, <1>10
  <2>2. d.lib[b.quic] = "open"
    BY <1>3, <1>10
  <2> QED BY <1>7, <1>10, <2>1, <2>2 DEF Used, SameQuic
<1>12. Good(d)
  <2>1. Answering(a) /\ Ending(a) /\ Slots(a) /\ Addressed(a)
    BY <1>8 DEF Good
  <2>2. /\ Queued(d) = Queued(a) /\ (Distinct(d) <=> Distinct(a))
        /\ (Restarted(d) <=> Restarted(a)) /\ Taken(d) = Taken(a)
    BY <1>10, SameQueued
  <2>3. Answering(d)
    BY <1>10, <2>1, <2>2 DEF Answering, Unanswered, SameAnswers, SameTasks
  <2>4. Ending(d)
    BY <1>7, <1>10, <2>1
    DEF Ending, SameLife, SameTasks, SameAnswers, CONNECTING, INIT, CLOSING_QUIC, FREED
  <2>5. Slots(d)
    BY <1>7, <1>10, <1>11, <2>1, <2>2
    DEF Slots, Again, Failed, SameAnswers, SameTasks, SameQuic, CONNECTING, INIT
  <2>6. Addressed(d)
    BY <1>10, <2>1, <2>2 DEF Addressed, Routed, OnlyRestarts, LastEvent, Bound, SameNet
  <2> QED
    BY <1>9, <2>3, <2>4, <2>5, <2>6 DEF Good
<1>13. Keeps(b, d)
  BY <1>7, <1>10, <1>12 DEF Keeps, SameLife
<1> QED
  BY <1>2, <1>4, <1>13, ConnKept, OthersKept DEF b

LEMMA OnConnClosingNotifyInv ==
  ASSUME IInv, NEW c \in Conns, OnConnClosingNotify(c)
  PROVE  IInv'
<1> DEFINE b == conn[c]
           lib == [b.lib EXCEPT ![b.quic] = "closing"]
           d == [b EXCEPT !.lib = lib]
           e == NotifyConnectResult(d, b.rpc, "FAILURE")
<1>1. Good(b) /\ b \in Connection /\ Slots(b) /\ Ending(b) /\ Answering(b) /\ Addressed(b)
  BY DEF IInv, Good
<1>2. /\ b.quic # 0 /\ b.lib[b.quic] = "connecting" /\ b.rpc # NULL
      /\ UNCHANGED <<ctor, rq, net, mon>>
  BY DEF OnConnClosingNotify
<1>3. conn' = [conn EXCEPT ![c] = e]
  <2>1. conn' = [conn EXCEPT ![c] =
                   NotifyConnectResult([b EXCEPT !.lib[b.quic] = "closing"], b.rpc, "FAILURE")]
    BY Zenon DEF OnConnClosingNotify
  <2>2. [b EXCEPT !.lib[b.quic] = "closing"] = d
    BY <1>1, ZenonT(60) DEF Connection
  <2> QED BY <2>1, <2>2, Zenon
<1> HIDE DEF b
<1>4. b.quic \in Quics /\ b.lib \in [Quics -> Libs] /\ lib \in [Quics -> Libs]
  BY <1>1, <1>2 DEF Connection, Libs
<1>5. d \in Connection
  <2> HIDE DEF lib
  <2> QED BY <1>1, <1>4, ZenonT(60) DEF Connection
<1>6. /\ d.new = b.new /\ d.state = b.state /\ d.timer = b.timer /\ SameTasks(b, d)
      /\ d.quic = b.quic /\ d.lib = lib
      /\ SameLife(b, d) /\ SameAnswers(b, d) /\ SameNet(b, d)
  <2> HIDE DEF lib
  <2> QED BY <1>1, ZenonT(60) DEF Connection, SameLife, SameAnswers, SameNet, SameTasks
<1> HIDE DEF d
<1>7. Used(d) = Used(b) /\ (d.quic # 0 => d.lib[d.quic] # "none")
  <2>1. \A i \in Quics : d.lib[i] # "none" <=> b.lib[i] # "none"
    BY <1>2, <1>4, <1>6
  <2>2. d.lib[b.quic] = "closing"
    BY <1>4, <1>6
  <2> QED BY <1>6, <2>1, <2>2 DEF Used
<1>8. Good(d)
  <2>2. /\ Queued(d) = Queued(b) /\ (Distinct(d) <=> Distinct(b))
        /\ (Restarted(d) <=> Restarted(b)) /\ Taken(d) = Taken(b)
    BY <1>6, SameQueued
  <2>3. Answering(d)
    BY <1>1, <1>6, <2>2 DEF Answering, Unanswered, SameAnswers, SameTasks
  <2>4. Ending(d)
    BY <1>1, <1>6 DEF Ending, SameLife, SameTasks, SameAnswers
  <2>5. Slots(d)
    BY <1>1, <1>6, <1>7, <2>2 DEF Slots, Again, Failed, SameAnswers, SameTasks
  <2>6. Addressed(d)
    BY <1>1, <1>6, <2>2 DEF Addressed, Routed, OnlyRestarts, LastEvent, Bound, SameNet
  <2> QED
    BY <1>5, <2>3, <2>4, <2>5, <2>6 DEF Good
<1>9. Good(e) /\ e.life = b.life /\ e.closed = b.closed
  <2>1. d.rpc = b.rpc /\ d.rpc \in Stubs /\ Unanswered(d, d.rpc) /\ d.rpc \notin Queued(d)
    BY <1>2, <1>5, <1>6, <1>8 DEF Good, Answering, Connection, SameAnswers
  <2>2. "FAILURE" \in Statuses /\ d.closed # "told"
    BY <1>2, <1>5, <1>6, <1>8, <2>1 DEF Good, Ending, Statuses
  <2> QED
    BY <1>6, <1>8, <2>1, <2>2, NotifyGood DEF SameLife
<1>10. Keeps(b, e)
  BY <1>9 DEF Keeps
<1> HIDE DEF e
<1> QED
  BY <1>2, <1>3, <1>10, ConnKept, OthersKept DEF b

LEMMA ProcessPacketInv ==
  ASSUME IInv, NEW c \in Conns, NEW x \in Answers, ProcessPacket(c, x)
  PROVE  IInv'
<1> DEFINE b == conn[c]
<1>1. /\ Good(b) /\ b \in Connection /\ Answering(b) /\ Ending(b)
  BY DEF IInv, Good
<1>2. /\ ~Closing(b) /\ b.rpc # NULL /\ UNCHANGED <<ctor, rq, net, mon>>
      /\ conn' = [conn EXCEPT ![c] = IF x = "_result" THEN ProcessResult(b) ELSE ProcessError(b)]
  BY DEF ProcessPacket
<1>3. b.new = MAX /\ b.state >= INIT /\ ~b.detached /\ b.closed = "no"
  BY <1>1, <1>2, ClosingIff DEF Connection, Closing, Ending, FREED, INIT, MAX, CONNECTED
<1>4. b.rpc \in Stubs /\ Unanswered(b, b.rpc) /\ b.rpc \notin Queued(b)
  BY <1>1, <1>2 DEF Answering, Connection
<1> HIDE DEF b
<1>5. ASSUME NEW s \in {INIT, CONNECTED}, NEW r \in {"SUCCESS", "FAILURE"},
             s = INIT => r = "FAILURE"
      PROVE  Keeps(b, NotifyConnectResult([b EXCEPT !.state = s], b.rpc, r))
  <2> DEFINE a == [b EXCEPT !.state = s]
             d == NotifyConnectResult(a, b.rpc, r)
             e == NotifyConnectResult(b, b.rpc, r)
  <2>1. r \in Statuses /\ s \in FREED..CONNECTED /\ s >= INIT
    BY DEF Statuses, INIT, FREED, CONNECTED
  <2>2. a \in Connection
    BY <1>1, <2>1, ZenonT(60) DEF Connection
  <2>3. /\ a.new = b.new /\ a.state = s /\ SameTasks(b, a) /\ SameQuic(b, a)
        /\ SameLife(b, a) /\ SameAnswers(b, a) /\ SameNet(b, a)
    BY <1>1, ZenonT(60) DEF Connection, SameLife, SameAnswers, SameQuic, SameNet, SameTasks
  <2>8. d = NotifyConnectResult(a, b.rpc, r)
    OBVIOUS
  <2>11. e = NotifyConnectResult(b, b.rpc, r)
    OBVIOUS
  <2> HIDE DEF a, d, e
  <2>9. a = [b EXCEPT !.state = s]
    BY DEF a
  <2>4. /\ Good(e) /\ e.state = b.state /\ (r = "FAILURE" => Failed(e))
        /\ SameLife(b, e)
    BY <1>1, <1>3, <1>4, <2>1, <2>11, NotifyGood
  <2>5. /\ e.ans = [b.ans EXCEPT ![b.rpc] = Append(b.ans[b.rpc], r)] /\ ~e.late
        /\ e.rpc = NULL /\ e.new = b.new
        /\ SameLife(b, e) /\ SameTasks(b, e) /\ SameQuic(b, e) /\ SameNet(b, e)
    <3>1. ~b.late /\ b.closed # "told"
      BY <1>1, <1>3 DEF Answering
    <3>2. PICK p \in Stubs : p = b.rpc
      BY <1>4
    <3>3. b \in Connection /\ r \in Statuses /\ e = NotifyConnectResult(b, p, r)
      BY <1>1, <2>1, <2>11, <3>2
    <3>4. /\ e.ans = [b.ans EXCEPT ![p] = Append(b.ans[p], r)] /\ ~e.late
          /\ e.rpc = IF p = b.rpc THEN NULL ELSE b.rpc
          /\ e.new = b.new
          /\ SameLife(b, e) /\ SameTasks(b, e) /\ SameQuic(b, e) /\ SameNet(b, e)
      BY <3>1, <3>3, NotifyFields
    <3> QED BY <3>2, <3>4
  <2>6. /\ d \in Connection /\ d.state = s
        /\ d.ans = [a.ans EXCEPT ![b.rpc] = Append(a.ans[b.rpc], r)] /\ ~d.late
        /\ d.rpc = NULL /\ d.new = a.new
        /\ SameLife(a, d) /\ SameTasks(a, d) /\ SameQuic(a, d) /\ SameNet(a, d)
    <3>1. ~a.late /\ a.closed # "told" /\ a.rpc = b.rpc
      BY <1>1, <1>3, <2>3 DEF Answering, SameAnswers, SameLife
    <3> QED BY <1>4, <2>1, <2>2, <2>3, <2>8, <3>1, NotifyFields
  <2>7. /\ SameLife(e, d) /\ SameTasks(e, d) /\ SameQuic(e, d) /\ SameNet(e, d)
        /\ d.new = e.new /\ SameAnswers(e, d) /\ SameLife(b, d)
    <3>1. d.ans = e.ans
      BY <2>3, <2>5, <2>6 DEF SameAnswers
    <3>2. d.late = e.late
      <4> d.late \in BOOLEAN /\ e.late \in BOOLEAN
        BY <2>4, <2>6, ZenonT(60) DEF Connection, Good
      <4> QED BY <2>5, <2>6
    <3> QED
      BY <2>3, <2>5, <2>6, <3>1, <3>2 DEF SameLife, SameTasks, SameQuic, SameNet, SameAnswers
  <2>10. Good(d)
    BY <1>3, <1>5, <2>1, <2>4, <2>6, <2>7, RestatedGood DEF INIT, CONNECTED
  <2> QED
    BY <2>7, <2>8, <2>9, <2>10 DEF Keeps, SameLife
<1>6. CASE x = "_result"
  <2>1. Keeps(b, ProcessResult(b))
    BY <1>5 DEF ProcessResult, INIT, CONNECTED
  <2> QED
    BY <1>2, <1>6, <2>1, ConnKept, OthersKept DEF b
<1>7. CASE x # "_result"
  <2> DEFINE d == NotifyConnectResult([b EXCEPT !.state = INIT], b.rpc, "FAILURE")
  <2>1. Keeps(b, d)
    BY <1>5
  <2>2. ProcessError(b) = Post(d, Task("close", NULL))
    BY DEF ProcessError
  <2> HIDE DEF d
  <2>3. Keeps(b, ProcessError(b))
    <3>1. Task("close", NULL) \in TaskType /\ ~IsConnect(Task("close", NULL))
      BY TaskTypes
    <3> QED BY <2>1, <2>2, <3>1, PostKeeps DEF Keeps
  <2> QED
    BY <1>2, <1>7, <2>3, ConnKept, OthersKept DEF b
<1> QED
  BY <1>6, <1>7
(* The library's report takes a QUIC connection out of its slot. *)
LEMMA OnCloseInv ==
  ASSUME IInv, NEW c \in Conns, NEW i \in Quics, OnClose(c, i)
  PROVE  IInv'
<1> DEFINE b == conn[c]
           lib == [b.lib EXCEPT ![i] = "none"]
           d == [b EXCEPT !.lib[i] = "none", !.timer = FALSE, !.quic = 0]
           e == IF Closing(d) THEN d ELSE SetState(d, FREED, "NETDOWN")
<1>1. b \in Connection /\ Answering(b) /\ Ending(b) /\ Slots(b) /\ Addressed(b)
  BY DEF IInv, Good
<1>2. /\ b.quic # 0 /\ conn' = [conn EXCEPT ![c] = CloseCheck(e)]
      /\ UNCHANGED <<ctor, rq, net, mon>>
  BY DEF OnClose
<1> HIDE DEF b
<1>3. b.lib \in [Quics -> Libs] /\ lib \in [Quics -> Libs] /\ 0 \in {0} \cup Quics
  BY <1>1 DEF Connection, Libs
<1>4. d \in Connection
  BY <1>1, <1>3, ZenonT(60) DEF Connection
<1>5. /\ d.new = b.new /\ d.state = b.state /\ ~d.timer /\ d.quic = 0 /\ d.lib = lib
      /\ SameTasks(b, d) /\ SameLife(b, d) /\ SameAnswers(b, d) /\ SameNet(b, d)
  BY <1>1, ZenonT(60) DEF Connection, SameLife, SameAnswers, SameNet, SameTasks
<1> HIDE DEF d
<1>6. Used(d) = Used(b) \ {i}
  BY <1>3, <1>5 DEF Used
<1> HIDE DEF lib
<1>7. /\ Queued(d) = Queued(b) /\ (Distinct(d) <=> Distinct(b))
      /\ (Restarted(d) <=> Restarted(b)) /\ Taken(d) = Taken(b)
  BY <1>5, SameQueued
<1>8. Answering(d)
  BY <1>1, <1>5, <1>7 DEF Answering, Unanswered, SameAnswers, SameTasks
<1>9. Ending(d)
  BY <1>1, <1>5 DEF Ending, SameLife, SameTasks, SameAnswers
<1>10. Slots(d)
  <2>1. Cardinality(Used(d)) <= Cardinality(Taken(d))
    <3>1. Used(d) \in SUBSET Used(b) /\ IsFiniteSet(Used(b))
      BY <1>1, <1>6, TakenCard
    <3>2. Cardinality(Used(d)) <= Cardinality(Used(b))
      BY <3>1, FS_Subset
    <3> QED BY <1>1, <1>4, <1>7, <3>2, TakenCard DEF Slots
  <2>2. (\A j \in Used(d) : j = d.quic) \/ Again(d)
    <3>1. CASE Again(b)
      BY <1>5, <3>1 DEF Again, Failed, SameAnswers, SameTasks
    <3>2. CASE ~Again(b)
      <4>1. i \in Used(b)
        <5>1. conn[c].lib[i] # "none"
          BY DEF OnClose
        <5> QED BY <5>1 DEF Used, b
      <4>2. i = b.quic /\ Used(d) = {}
        BY <1>1, <1>6, <3>2, <4>1 DEF Slots
      <4> QED BY <4>2
    <3> QED BY <3>1, <3>2
  <2> QED BY <1>5, <2>1, <2>2 DEF Slots
<1>11. Addressed(d)
  BY <1>1, <1>5, <1>7 DEF Addressed, Routed, OnlyRestarts, LastEvent, Bound, SameNet
<1>12. Good(d) /\ AlmostGood(d) /\ "NETDOWN" \in Statuses
  BY <1>4, <1>8, <1>9, <1>10, <1>11 DEF Good, AlmostGood, Statuses
<1>13. Keeps(b, e)
  BY <1>5, <1>12, SetStateGood DEF Keeps, SameLife
<1> HIDE DEF e
<1>14. Keeps(b, CloseCheck(e))
  BY <1>13, CloseCheckKeeps DEF Keeps
<1> QED
  BY <1>2, <1>14, ConnKept, OthersKept DEF b

(* The sender takes an event: a restart begins, or the end, or it is       *)
(* dropped.                                                                *)
LEMMA SenderEventInv ==
  ASSUME IInv, NEW c \in Conns, SenderEvent(c)
  PROVE  IInv'
<1> DEFINE b == conn[c]
           t == Head(b.work)
           w == Tail(b.work)
           d == [b EXCEPT !.work = w]
           e == IF b.drain \/ b.udp = "stopping"
                THEN [d EXCEPT !.missed = @ \/ t.t = "restart"]
                ELSE IF t.t = "stop" THEN [d EXCEPT !.udp = "stopping"]
                ELSE [d EXCEPT !.drain = TRUE, !.target = t.x, !.missed = FALSE]
<1>1. b \in Connection /\ AlmostGood(b) /\ Addressed(b)
  BY DEF IInv, Good, AlmostGood
<1>2. /\ b.work # <<>> /\ Accepts(b) /\ conn' = [conn EXCEPT ![c] = e]
      /\ UNCHANGED <<ctor, rq, net, mon>>
  BY Zenon DEF SenderEvent, Accepts
<1>3. w \in Seq(EventType)
  BY <1>1, <1>2 DEF Connection
<1> HIDE DEF b
<1>4. d \in Connection /\ SameBesidesNet(b, d) /\ SameSocket(b, d) /\ d.handle = b.handle
      /\ d.work = w
  <2> HIDE DEF w
  <2> QED BY <1>1, <1>3, NewWork
<1>5. /\ t \in EventType
      /\ OnlyRestarts(b) => OnlyRestarts(d) /\ t.t = "restart"
      /\ LastEvent(b, b.handle) => /\ LastEvent(d, b.handle)
                                   /\ d.work = <<>> => t.x = b.handle
  BY <1>1, <1>2, <1>4, TailWork
<1>6. t.x \in Nets
  BY <1>5 DEF EventType
<1>7. AlmostGood(d) /\ (Restarted(d) <=> Restarted(b))
  BY <1>1, <1>4, NetOnly
<1>8. ASSUME b.new = MAX, b.udp = "open"
      PROVE  /\ OnlyRestarts(d) /\ t.t = "restart" /\ LastEvent(d, d.handle)
             /\ d.work = <<>> => t.x = d.handle
             /\ b.up /\ ~Restarted(b) => b.local = b.sock
  BY <1>1, <1>4, <1>5, <1>8 DEF Addressed, Routed
<1> HIDE DEF d, t, w
<1>9. e \in Connection /\ SameBesidesNet(d, e) /\ Addressed(e)
  <2>1. CASE b.drain \/ b.udp = "stopping"
    <3> DEFINE m == d.missed \/ t.t = "restart"
    <3>1. e = [d EXCEPT !.missed = m] /\ m \in BOOLEAN
      BY <2>1, Zenon
    <3> HIDE DEF m
    <3>2. e \in Connection
      BY <1>4, <3>1, ZenonT(60) DEF Connection
    <3>3. /\ SameBesidesNet(d, e) /\ e.udp = d.udp /\ e.handle = d.handle
          /\ e.sock = d.sock /\ e.work = d.work /\ e.up = d.up /\ e.missed = m
          /\ e.local = d.local
      BY <1>4, <3>1, Zenon
      DEF Connection, SameBesidesNet, SameLife, SameTasks, SameAnswers, SameQuic
    <3> HIDE DEF e
    <3>4. ASSUME e.new = MAX, e.udp = "open"
          PROVE  Routed(e) /\ (e.up /\ ~Restarted(e) => e.local = e.sock)
      <4>1. b.new = MAX /\ b.udp = "open" /\ (Restarted(e) <=> Restarted(b))
            /\ b.up = e.up /\ b.local = e.local /\ b.sock = e.sock
        BY <1>4, <1>7, <3>2, <3>3, <3>4, NetOnly DEF SameBesidesNet, SameSocket
      <4>2. OnlyRestarts(d) /\ t.t = "restart" /\ LastEvent(d, d.handle)
            /\ (b.up /\ ~Restarted(b) => b.local = b.sock)
        BY <1>8, <4>1
      <4>3. e.missed
        BY <3>3, <4>2 DEF m
      <4>4. OnlyRestarts(e) /\ LastEvent(e, e.handle)
        BY <3>3, <4>2 DEF OnlyRestarts, LastEvent
      <4> QED BY <4>1, <4>2, <4>3, <4>4 DEF Routed
    <3> QED BY <3>2, <3>3, <3>4 DEF Addressed
  <2>2. CASE ~(b.drain \/ b.udp = "stopping") /\ t.t = "stop"
    <3>1. e = [d EXCEPT !.udp = "stopping"]
      BY <2>2, Zenon
    <3>2. e \in Connection
      <4> "stopping" \in Udps
        BY DEF Udps
      <4> QED BY <1>4, <3>1, ZenonT(60) DEF Connection
    <3>3. SameBesidesNet(d, e) /\ e.udp = "stopping"
      BY <1>4, <3>1, Zenon
      DEF Connection, SameBesidesNet, SameLife, SameTasks, SameAnswers, SameQuic
    <3> HIDE DEF e
    <3> QED BY <3>2, <3>3 DEF Addressed
  <2>3. CASE ~(b.drain \/ b.udp = "stopping") /\ t.t # "stop"
    <3>1. e = [d EXCEPT !.drain = TRUE, !.target = t.x, !.missed = FALSE]
      BY <2>3, Zenon
    <3>2. e \in Connection
      BY <1>4, <1>6, <3>1, ZenonT(60) DEF Connection
    <3>3. /\ SameBesidesNet(d, e) /\ e.udp = d.udp /\ e.handle = d.handle
          /\ e.sock = d.sock /\ e.work = d.work /\ e.up = d.up /\ e.drain
          /\ e.local = d.local /\ e.target = t.x
      BY <1>4, <3>1, ZenonT(60)
      DEF Connection, SameBesidesNet, SameLife, SameTasks, SameAnswers, SameQuic
    <3> HIDE DEF e
    <3>4. ASSUME e.new = MAX, e.udp = "open"
          PROVE  Routed(e) /\ (e.up /\ ~Restarted(e) => e.local = e.sock)
      <4>1. b.new = MAX /\ b.udp = "open" /\ (Restarted(e) <=> Restarted(b))
            /\ b.up = e.up /\ b.local = e.local /\ b.sock = e.sock
        BY <1>4, <1>7, <3>2, <3>3, <3>4, NetOnly DEF SameBesidesNet, SameSocket
      <4>2. OnlyRestarts(d) /\ LastEvent(d, d.handle)
            /\ (d.work = <<>> => t.x = d.handle)
            /\ (b.up /\ ~Restarted(b) => b.local = b.sock)
        BY <1>8, <4>1
      <4>3. OnlyRestarts(e) /\ LastEvent(e, e.handle)
        BY <3>3, <4>2 DEF OnlyRestarts, LastEvent
      <4>4. e.work = <<>> => Bound(e)
        BY <3>3, <4>2 DEF Bound
      <4> QED BY <4>1, <4>2, <4>3, <4>4 DEF Routed
    <3> QED BY <3>2, <3>3, <3>4 DEF Addressed
  <2> QED BY <2>1, <2>2, <2>3
<1> HIDE DEF e
<1>10. Keeps(b, e)
  BY <1>4, <1>7, <1>9, NetOnly DEF Keeps, Good, AlmostGood, SameBesidesNet, SameLife
<1> QED
  BY <1>2, <1>10, ConnKept, OthersKept DEF b

LEMMA UdpRestartedInv ==
  ASSUME IInv, NEW c \in Conns, NEW ok \in BOOLEAN, UdpRestarted(c, ok)
  PROVE  IInv'
<1> DEFINE b == conn[c]
           s == IF ok THEN b.target ELSE b.sock
           k == Task(IF ok THEN "restarted" ELSE "notRestarted", NULL)
           e == [b EXCEPT !.drain = FALSE, !.up = ok, !.sock = s]
           d == Post(e, k)
<1>1. b \in Connection /\ AlmostGood(b) /\ Addressed(b)
  BY DEF IInv, Good, AlmostGood
<1>2. /\ b.drain /\ conn' = [conn EXCEPT ![c] = d]
      /\ UNCHANGED <<ctor, rq, net, mon>>
  BY Zenon DEF UdpRestarted
<1> HIDE DEF b
<1>3. s \in Nets
  BY <1>1 DEF Connection
<1>4. k \in TaskType /\ ~IsConnect(k) /\ (ok => k.t = "restarted")
  BY TaskTypes
<1>5. (ok => s = b.target)
  OBVIOUS
<1> HIDE DEF s, k
<1>6. e \in Connection
  BY <1>1, <1>3, ZenonT(60) DEF Connection
<1>7. /\ SameBesidesNet(b, e) /\ e.udp = b.udp /\ e.handle = b.handle
      /\ e.sock = s /\ e.work = b.work /\ (e.up <=> ok) /\ ~e.drain
      /\ e.missed = b.missed
  BY <1>1, ZenonT(60) DEF Connection, SameBesidesNet, SameLife, SameTasks, SameAnswers, SameQuic
<1> HIDE DEF e
<1>8. AlmostGood(e) /\ e.life = b.life /\ e.closed = b.closed /\ e.new = b.new
  BY <1>1, <1>6, <1>7, NetOnly DEF SameBesidesNet, SameLife
<1>9. /\ AlmostGood(d) /\ d.life = e.life /\ d.closed = e.closed
      /\ d.new = e.new /\ SameNet(e, d)
      /\ ~e.detached /\ k.t = "restarted" => Restarted(d)
  BY <1>4, <1>8, PostAlmost
<1> HIDE DEF d
<1>10. ASSUME d.new = MAX, d.udp = "open"
       PROVE  Routed(d) /\ (d.up /\ ~Restarted(d) => d.local = d.sock)
  <2>1. b.new = MAX /\ b.udp = "open" /\ ~e.detached
    BY <1>6, <1>7, <1>8, <1>9, <1>10 DEF AlmostGood, Ending, INIT, FREED, MAX, SameNet
  <2>2. Routed(b)
    BY <1>1, <2>1 DEF Addressed
  <2>3. d.up => Restarted(d)
    BY <1>4, <1>7, <1>9, <2>1 DEF SameNet
  <2>4. OnlyRestarts(d) /\ LastEvent(d, d.handle)
    BY <1>7, <1>9, <2>2 DEF Routed, OnlyRestarts, LastEvent, SameNet
  <2>5. d.work = <<>> /\ ~d.missed => Bound(d)
    BY <1>2, <1>5, <1>7, <1>9, <2>2 DEF Routed, Bound, SameNet
  <2> QED BY <2>3, <2>4, <2>5 DEF Routed
<1>11. Keeps(b, d)
  BY <1>8, <1>9, <1>10 DEF Keeps, Good, AlmostGood, Addressed
<1> QED
  BY <1>2, <1>11, ConnKept, OthersKept DEF b

LEMMA UdpClosedInv ==
  ASSUME IInv, NEW c \in Conns, UdpClosed(c)
  PROVE  IInv'
<1> DEFINE b == conn[c]
           e == [b EXCEPT !.udp = "closed", !.work = <<>>]
           d == Post(e, Task("udpClosed", NULL))
<1>1. b \in Connection /\ AlmostGood(b)
  BY DEF IInv, Good, AlmostGood
<1>2. conn' = [conn EXCEPT ![c] = d] /\ UNCHANGED <<ctor, rq, net, mon>>
  BY Zenon DEF UdpClosed
<1> HIDE DEF b
<1>3. "closed" \in Udps /\ <<>> \in Seq(EventType)
  BY DEF Udps
<1>4. e \in Connection
  BY <1>1, <1>3, ZenonT(60) DEF Connection
<1>5. SameBesidesNet(b, e) /\ e.udp = "closed"
  BY <1>1, ZenonT(60) DEF Connection, SameBesidesNet, SameLife, SameTasks, SameAnswers, SameQuic
<1> HIDE DEF e
<1>6. Good(e)
  BY <1>1, <1>4, <1>5, NetOnly DEF Good, AlmostGood, Addressed
<1>7. Keeps(b, d)
  BY <1>5, <1>6, PostKeeps, TaskTypes DEF Keeps, SameBesidesNet, SameLife
<1> HIDE DEF d
<1> QED
  BY <1>2, <1>7, ConnKept, OthersKept DEF b

(* Steps that only change what the owner and the map know of a connection. *)
LEMMA LifeGood ==
  ASSUME NEW b, Good(b), NEW d \in Connection, d.new = b.new, d.state = b.state,
         d.timer = b.timer, d.detached = b.detached,
         d.closed # "no" => d.detached /\ d.q = <<>>,
         SameTasks(b, d), SameAnswers(b, d), SameQuic(b, d), SameNet(b, d)
  PROVE  Good(d)
<1>1. b \in Connection /\ Answering(b) /\ Ending(b) /\ Slots(b) /\ Addressed(b)
  BY DEF Good
<1>2. /\ Queued(d) = Queued(b) /\ (Distinct(d) <=> Distinct(b))
      /\ (Restarted(d) <=> Restarted(b)) /\ Taken(d) = Taken(b) /\ Used(d) = Used(b)
  BY SameQueued DEF SameQuic, Used
<1>3. Answering(d)
  BY <1>1, <1>2 DEF Answering, Unanswered, SameAnswers, SameTasks
<1>4. Ending(d)
  BY <1>1 DEF Ending, SameTasks, SameAnswers, SameQuic
<1>5. Slots(d)
  BY <1>1, <1>2 DEF Slots, Again, Failed, SameAnswers, SameTasks, SameQuic
<1>6. Addressed(d)
  BY <1>1, <1>2 DEF Addressed, Routed, OnlyRestarts, LastEvent, Bound, SameNet
<1> QED
  BY <1>3, <1>4, <1>5, <1>6 DEF Good

LEMMA DeleteInv ==
  ASSUME IInv, NEW c \in Conns, Delete(c)
  PROVE  IInv'
<1> DEFINE b == conn[c]
           d == [b EXCEPT !.life = "deleted"]
<1>1. Good(b) /\ b \in Connection /\ Ending(b)
  BY DEF IInv, Good
<1>2. /\ b.closed = "told" /\ conn' = [conn EXCEPT ![c] = d] /\ UNCHANGED <<ctor, rq, net, mon>>
  BY DEF Delete
<1>3. d \in Connection
  BY <1>1, ZenonT(60) DEF Connection
<1>4. /\ d.life = "deleted" /\ d.closed = b.closed /\ d.new = b.new /\ d.state = b.state
      /\ d.timer = b.timer /\ d.detached = b.detached
      /\ SameTasks(b, d) /\ SameAnswers(b, d) /\ SameQuic(b, d) /\ SameNet(b, d)
  BY <1>1, ZenonT(60) DEF Connection, SameTasks, SameAnswers, SameQuic, SameNet
<1> HIDE DEF d
<1>5. Good(d)
  <2>1. d.closed # "no" => d.detached /\ d.q = <<>>
    BY <1>1, <1>4 DEF Ending, SameTasks
  <2> QED BY <1>1, <1>3, <1>4, <2>1, LifeGood
<1>6. \A k \in Conns : (k # c => conn'[k] = conn[k]) /\ conn'[c] = d
  BY <1>2 DEF IInv
<1>7. /\ conn' \in [Conns -> Connection]
      /\ \A k \in Conns : Good(conn'[k])
      /\ \A k \in Conns : k \in ctor.conns <=> conn'[k].life = "live" /\ conn'[k].closed = "no"
      /\ \A k \in Conns : conn'[k].life = "deleted" => conn'[k].closed = "told"
  BY <1>2, <1>3, <1>4, <1>5, <1>6 DEF IInv, Live
<1> QED
  BY <1>2, <1>7 DEF IInv, Live

LEMMA NotifyConnClosedInv ==
  ASSUME IInv, NEW c \in Conns, NotifyConnClosed(c)
  PROVE  IInv'
<1> DEFINE b == conn[c]
           d == [b EXCEPT !.closed = "notified"]
<1>1. Good(b) /\ b \in Connection /\ Ending(b)
  BY DEF IInv, Good
<1>2. /\ b.life = "live" /\ b.detached /\ b.q = <<>> /\ b.closed = "no"
      /\ conn' = [conn EXCEPT ![c] = d] /\ UNCHANGED <<net, mon>>
      /\ ctor' = [ctor EXCEPT !.conns = @ \ {c}] /\ rq' = Append(rq, "check")
  BY DEF NotifyConnClosed, Drained, Live
<1>3. d \in Connection
  BY <1>1, ZenonT(60) DEF Connection
<1>4. /\ d.life = b.life /\ d.closed = "notified" /\ d.new = b.new /\ d.state = b.state
      /\ d.timer = b.timer /\ d.detached = b.detached
      /\ SameTasks(b, d) /\ SameAnswers(b, d) /\ SameQuic(b, d) /\ SameNet(b, d)
  BY <1>1, ZenonT(60) DEF Connection, SameTasks, SameAnswers, SameQuic, SameNet
<1> HIDE DEF d
<1>5. Good(d)
  <2>1. d.closed # "no" => d.detached /\ d.q = <<>>
    BY <1>2, <1>4 DEF SameTasks
  <2> QED BY <1>1, <1>3, <1>4, <2>1, LifeGood
<1>6. \A k \in Conns : (k # c => conn'[k] = conn[k]) /\ conn'[c] = d
  BY <1>2 DEF IInv
<1>7. /\ ctor' \in [state : {FREED, CTOR_INIT, CTOR_WORKING}, new : {FREED, MAX},
                    conns : SUBSET Conns, engine : BOOLEAN, told : BOOLEAN, closes : 0..1]
      /\ ctor'.engine = ctor.engine /\ ctor'.conns = ctor.conns \ {c}
      /\ ctor'.state = ctor.state
  BY <1>2 DEF IInv
<1>8. /\ conn' \in [Conns -> Connection]
      /\ \A k \in Conns : Good(conn'[k])
      /\ \A k \in Conns : k \in ctor'.conns <=> conn'[k].life = "live" /\ conn'[k].closed = "no"
      /\ \A k \in Conns : conn'[k].life = "deleted" => conn'[k].closed = "told"
  BY <1>2, <1>3, <1>4, <1>5, <1>6, <1>7 DEF IInv, Live
<1>9. rq' \in Seq({"close", "check", "told"})
  BY <1>2 DEF IInv
<1>10. ~ctor'.engine => ctor'.state = FREED /\ ctor'.conns = {}
  BY <1>7 DEF IInv
<1> QED
  BY <1>2, <1>7, <1>8, <1>9, <1>10 DEF IInv, Live

LEMMA OnClosedInv ==
  ASSUME IInv, NEW c \in Conns, OnClosed(c)
  PROVE  IInv'
<1> DEFINE b == conn[c]
           d == [b EXCEPT !.closed = "told"]
<1>1. Good(b) /\ b \in Connection /\ Ending(b)
  BY DEF IInv, Good
<1>2. /\ b.life = "live" /\ b.detached /\ b.q = <<>> /\ b.closed = "notified"
      /\ conn' = [conn EXCEPT ![c] = d] /\ UNCHANGED <<ctor, rq, net, mon>>
  BY DEF OnClosed, Drained, Live
<1>3. d \in Connection
  BY <1>1, ZenonT(60) DEF Connection
<1>4. /\ d.life = b.life /\ d.closed = "told" /\ d.new = b.new /\ d.state = b.state
      /\ d.timer = b.timer /\ d.detached = b.detached
      /\ SameTasks(b, d) /\ SameAnswers(b, d) /\ SameQuic(b, d) /\ SameNet(b, d)
  BY <1>1, ZenonT(60) DEF Connection, SameTasks, SameAnswers, SameQuic, SameNet
<1> HIDE DEF d
<1>5. Good(d)
  <2>1. d.closed # "no" => d.detached /\ d.q = <<>>
    BY <1>2, <1>4 DEF SameTasks
  <2> QED BY <1>1, <1>3, <1>4, <2>1, LifeGood
<1>6. \A k \in Conns : (k # c => conn'[k] = conn[k]) /\ conn'[c] = d
  BY <1>2 DEF IInv
<1>7. /\ conn' \in [Conns -> Connection]
      /\ \A k \in Conns : Good(conn'[k])
      /\ \A k \in Conns : k \in ctor.conns <=> conn'[k].life = "live" /\ conn'[k].closed = "no"
      /\ \A k \in Conns : conn'[k].life = "deleted" => conn'[k].closed = "told"
  BY <1>2, <1>3, <1>4, <1>5, <1>6 DEF IInv, Live
<1> QED
  BY <1>2, <1>7 DEF IInv, Live
-----------------------------------------------------------------------------
(* The connector and the monitor.                                          *)

CtorType == [state : {FREED, CTOR_INIT, CTOR_WORKING}, new : {FREED, MAX},
             conns : SUBSET Conns, engine : BOOLEAN, told : BOOLEAN, closes : 0..1]

LEMMA CtorCloseCheckInv ==
  ASSUME IInv, rq # <<>>, UNCHANGED <<net, mon>>, NEW k \in CtorType,
         k.conns = ctor.conns, k.engine = ctor.engine, k.state = ctor.state, CtorCloseCheck(k)
  PROVE  IInv'
<1> DEFINE closeAll == CtorClosing(k) /\ k.state = CTOR_WORKING
           d == IF closeAll THEN [k EXCEPT !.state = CTOR_INIT] ELSE k
           e == IF CtorClosing(k) THEN DestroyEngine(d) ELSE k
<1>1. /\ conn' = [c \in Conns |-> IF closeAll /\ c \in k.conns /\ conn[c].keep
                                  THEN Post(conn[c], Task("close", NULL)) ELSE conn[c]]
      /\ ctor' = e /\ rq' = IF e.engine = k.engine THEN Tail(rq) ELSE Append(Tail(rq), "told")
  BY DEF CtorCloseCheck
<1>2. d \in CtorType /\ d.conns = k.conns /\ d.engine = k.engine
  BY DEF CtorType
<1>3. ~k.engine => k.state = FREED /\ k.conns = {}
  BY DEF IInv
<1>4. /\ e \in CtorType /\ e.conns = k.conns
      /\ ~e.engine => e.state = FREED /\ e.conns = {}
  <2>1. CASE ~CtorClosing(k)
    BY <1>3, <2>1
  <2>2. CASE CtorClosing(k)
    <3>1. e = DestroyEngine(d)
      BY <2>2
    <3>2. CASE d.state # CTOR_INIT \/ d.conns # {}
      <4>1. e = d
        BY <3>1, <3>2 DEF DestroyEngine
      <4>2. ~d.engine => d = k
        BY <1>2, <1>3 DEF FREED, CTOR_WORKING
      <4> HIDE DEF d
      <4> QED BY <1>2, <1>3, <4>1, <4>2
    <3>3. CASE ~(d.state # CTOR_INIT \/ d.conns # {})
      <4>1. e = [d EXCEPT !.engine = FALSE, !.state = FREED]
        BY <3>1, <3>3 DEF DestroyEngine
      <4> HIDE DEF d, e
      <4>2. e \in CtorType
        BY <1>2, <4>1, Zenon DEF CtorType
      <4>3. e.conns = d.conns /\ e.state = FREED
        BY <1>2, <4>1, Zenon DEF CtorType
      <4> QED BY <1>2, <3>3, <4>2, <4>3
    <3> QED BY <3>2, <3>3
  <2> QED BY <2>1, <2>2
<1> HIDE DEF e, closeAll, d
<1>5. rq' \in Seq({"close", "check", "told"})
  <2>1. Tail(rq) \in Seq({"close", "check", "told"})
    BY DEF IInv
  <2> QED BY <1>1, <2>1
<1>6. \A c \in Conns : Keeps(conn[c], conn'[c])
  <2> TAKE c \in Conns
  <2>1. Good(conn[c]) /\ Keeps(conn[c], conn[c])
    BY DEF IInv, Keeps
  <2>2. Keeps(conn[c], Post(conn[c], Task("close", NULL)))
    BY <2>1, PostKeeps, TaskTypes
  <2>3. conn'[c] \in {conn[c], Post(conn[c], Task("close", NULL))}
    BY <1>1
  <2> QED BY <2>1, <2>2, <2>3
<1>7. conn' \in [Conns -> Connection]
  BY <1>1, <1>6 DEF Keeps, Good
<1>8. /\ \A c \in Conns : Good(conn'[c])
      /\ \A c \in Conns : c \in ctor'.conns <=> conn'[c].life = "live" /\ conn'[c].closed = "no"
      /\ \A c \in Conns : conn'[c].life = "deleted" => conn'[c].closed = "told"
  BY <1>1, <1>4, <1>6 DEF IInv, Keeps, Live
<1> QED
  BY <1>1, <1>4, <1>5, <1>7, <1>8 DEF IInv, Live, CtorType

LEMMA RuntimeTaskInv ==
  ASSUME IInv, RuntimeTask
  PROVE  IInv'
<1>1. rq # <<>> /\ UNCHANGED <<net, mon>> /\ ctor \in CtorType
  BY DEF RuntimeTask, IInv, CtorType
<1>2. CASE CtorCloseCheck(IF CtorClosing(ctor) THEN ctor ELSE [ctor EXCEPT !.new = FREED])
  <2> DEFINE k == IF CtorClosing(ctor) THEN ctor ELSE [ctor EXCEPT !.new = FREED]
  <2>1. /\ k \in CtorType /\ k.conns = ctor.conns /\ k.engine = ctor.engine
        /\ k.state = ctor.state
    BY <1>1 DEF CtorType
  <2>2. CtorCloseCheck(k)
    BY <1>2
  <2> HIDE DEF k
  <2> QED BY <1>1, <2>1, <2>2, CtorCloseCheckInv
<1>3. CASE CtorCloseCheck(ctor)
  BY <1>1, <1>3, CtorCloseCheckInv
<1>4. CASE ctor' = [ctor EXCEPT !.told = TRUE] /\ rq' = Tail(rq) /\ UNCHANGED conn
  <2>1. /\ ctor' \in CtorType /\ ctor'.conns = ctor.conns /\ ctor'.engine = ctor.engine
        /\ ctor'.state = ctor.state
    BY <1>1, <1>4 DEF CtorType
  <2>2. rq' \in Seq({"close", "check", "told"})
    BY <1>1, <1>4 DEF IInv
  <2> QED
    BY <1>1, <1>4, <2>1, <2>2 DEF IInv, CtorType, Live
<1> QED
  BY <1>2, <1>3, <1>4 DEF RuntimeTask

LEMMA CloseConnectorInv ==
  ASSUME IInv, CloseConnector
  PROVE  IInv'
<1>1. /\ ctor' \in CtorType /\ ctor'.conns = ctor.conns /\ ctor'.engine = ctor.engine
      /\ ctor'.state = ctor.state
  <2>1. ctor \in CtorType /\ 1 \in 0..1
    BY DEF IInv, CtorType
  <2> QED BY <2>1, Zenon DEF CloseConnector, CtorType
<1>2. rq' \in Seq({"close", "check", "told"})
  BY DEF CloseConnector, IInv
<1> QED
  BY <1>1, <1>2 DEF CloseConnector, IInv, CtorType, Live

LEMMA MonitorInv ==
  ASSUME IInv, \/ \E i \in Ifaces \cup {NULL} : PathChanges(i)
               \/ OnPathChange \/ CooldownEnds
  PROVE  IInv'
<1>1. UNCHANGED <<conn, ctor, rq>>
  BY DEF PathChanges, OnPathChange, CooldownEnds
<1>2. net' \in NetType
  <2>1. CASE UNCHANGED net
    BY <2>1, OthersKept
  <2>2. CASE \E i \in Nets : PathChanges(i)
    BY <2>2, ConnectorAssumption DEF PathChanges, NetType, IInv
  <2> QED
    BY <2>1, <2>2 DEF OnPathChange, CooldownEnds, Nets
<1>3. mon' \in MonType
  <2>1. mon \in MonType /\ net.iface \in Nets /\ ctor.conns \in SUBSET Conns
    BY DEF IInv, MonType
  <2>2. CASE UNCHANGED mon
    BY <2>1, <2>2
  <2>3. CASE OnPathChange
    <3> DEFINE m == [mon EXCEPT !.sig = net.iface, !.first = TRUE]
               n == [m EXCEPT !.cool = TRUE, !.i = net.iface, !.todo = ctor.conns]
    <3>1. m \in MonType
      BY <2>1, Zenon DEF MonType
    <3>2. n \in MonType
      <4> HIDE DEF m
      <4> QED BY <2>1, <3>1, Zenon DEF MonType
    <3> QED BY <2>3, <3>1, <3>2, Zenon DEF OnPathChange
  <2>4. CASE CooldownEnds
    BY <2>1, <2>4 DEF CooldownEnds, MonType
  <2> QED
    BY <2>2, <2>3, <2>4 DEF PathChanges
<1> QED
  BY <1>1, <1>2, <1>3 DEF IInv, NetType, MonType, Live
-----------------------------------------------------------------------------
(* The invariant.                                                          *)

LEMMA InitIInv == Init => IInv
<1> SUFFICES ASSUME Init PROVE IInv
  OBVIOUS
<1>1. conn \in [Conns -> Connection] /\ \A c \in Conns : conn[c] = Unborn
  BY UnbornGood DEF Init
<1>2. ctor \in CtorType /\ ctor.conns = {} /\ ctor.engine
  BY DEF Init, CtorType
<1>3. rq \in RqType
  BY DEF Init, RqType
<1>4. net \in NetType /\ mon \in MonType
  BY ConnectorAssumption DEF Init, NetType, MonType, Nets
<1> QED
  BY <1>1, <1>2, <1>3, <1>4, UnbornGood DEF IInv, CtorType, RqType, NetType, MonType, Live

LEMMA NextIInv == IInv /\ [Next]_vars => IInv'
<1> SUFFICES ASSUME IInv, [Next]_vars PROVE IInv'
  OBVIOUS
<1>1. ASSUME NEW c \in Conns,
             \/ CreateConnection(c) \/ Close(c) \/ Restart(c) \/ Delete(c)
             \/ \E s \in Stubs : Connect(c, s)
             \/ Worker(c) \/ OnHandshakeFinished(c) \/ OnConnClosingNotify(c)
             \/ \E a \in Answers : ProcessPacket(c, a)
             \/ \E i \in Quics : OnClose(c, i)
             \/ SenderEvent(c) \/ UdpClosed(c)
             \/ \E ok \in BOOLEAN : UdpRestarted(c, ok)
             \/ RestartConn(c)
      PROVE  IInv'
  <2>1. CASE Worker(c)
    BY <2>1, WorkerTaskInv, OnConnectTimeoutInv, NotifyConnClosedInv, OnClosedInv DEF Worker
  <2>2. CASE \/ CreateConnection(c) \/ Close(c) \/ Restart(c) \/ Delete(c)
             \/ \E s \in Stubs : Connect(c, s)
    BY <2>2, CreateConnectionInv, CloseInv, RestartInv, DeleteInv, ConnectInv
  <2>3. CASE \/ OnHandshakeFinished(c) \/ OnConnClosingNotify(c)
             \/ \E a \in Answers : ProcessPacket(c, a)
             \/ \E i \in Quics : OnClose(c, i)
    BY <2>3, OnHandshakeFinishedInv, OnConnClosingNotifyInv, ProcessPacketInv, OnCloseInv
  <2>4. CASE \/ SenderEvent(c) \/ UdpClosed(c)
             \/ \E ok \in BOOLEAN : UdpRestarted(c, ok)
             \/ RestartConn(c)
    BY <2>4, SenderEventInv, UdpRestartedInv, UdpClosedInv, RestartConnInv
  <2> QED BY <1>1, <2>1, <2>2, <2>3, <2>4
<1>2. CASE UNCHANGED vars
  BY <1>2 DEF vars, IInv, Live
<1> QED
  BY <1>1, <1>2, CloseConnectorInv, RuntimeTaskInv, MonitorInv DEF Next

(* Each SMPConnection's state, counters, queue and answers agree with one  *)
(* another at every step of its _CloseCheck, and with what the connector   *)
(* and the path monitor hold of it.                                        *)
THEOREM Invariance == Spec => []IInv
BY InitIInv, NextIInv, PTL DEF Spec
-----------------------------------------------------------------------------
(* The map conns_map_, which SMPConnector::_CloseCheck and OnPathChange    *)
(* read, never holds a connection its owner has deleted: a connection      *)
(* leaves it before the owner is told of its end (OnEventProcShutdown).    *)
THEOREM Registered == Spec => []RegisteredAreLive
<1>1. IInv => RegisteredAreLive
  BY DEF IInv, RegisteredAreLive
<1> QED BY <1>1, Invariance, PTL

(* When SMPConnector::_CloseCheck destroys the QUIC engine, each           *)
(* SMPConnection has run through its own _CloseCheck and none has a QUIC   *)
(* connection in the engine, save one left behind by a second handshake.   *)
THEOREM EngineLast == Spec => []EngineOutlivesConnections
<1>1. ASSUME IInv PROVE EngineOutlivesConnections
  <2> SUFFICES ASSUME ~ctor.engine, NEW c \in Conns, conn[c].life # "none"
               PROVE  /\ conn[c].state = FREED
                      /\ StartedAgain(c) \/ \A i \in Quics : conn[c].lib[i] = "none"
    BY DEF EngineOutlivesConnections
  <2>1. ctor.conns = {} /\ Good(conn[c]) /\ conn[c] \in Connection
    BY <1>1 DEF IInv, Good
  <2>2. conn[c].closed # "no"
    <3>1. conn[c].life \in {"live", "deleted"}
      BY <2>1 DEF Connection
    <3> QED BY <1>1, <2>1, <3>1 DEF IInv, Live
  <2>3. conn[c].state = FREED /\ conn[c].quic = 0
    BY <2>1, <2>2 DEF Good, Ending, FREED, CLOSING_QUIC
  <2>4. StartedAgain(c) \/ \A i \in Quics : conn[c].lib[i] = "none"
    BY <2>1, <2>3, QuicsFacts DEF Good, Slots, Used, Again, Failed, StartedAgain
  <2> QED BY <2>3, <2>4
<1> QED BY <1>1, Invariance, PTL

(* _NotifyConnectResult calls OnExecDone at most once for a Connect and    *)
(* never after OnClosed, whichever of the answer, the timer, the close of  *)
(* the sockets or of QUIC comes first.                                     *)
THEOREM AtMostOneAnswer == Spec => []AnsweredOnce
<1>1. IInv => AnsweredOnce
  BY DEF IInv, Good, Answering, AnsweredOnce
<1> QED BY <1>1, Invariance, PTL

(* After any number of path changes, calls of Restart, restarts that fail  *)
(* and events a draining sender drops, a working connection without        *)
(* restart on the way has given QUIC the address of the socket it has, and *)
(* that socket is on the interface last asked for, unless the request was  *)
(* dropped (Restart, OnEventProcess and _Restart of the sender,            *)
(* OnRestart).                                                             *)
THEOREM AddressFollows == Spec => []AddressSettles
<1>1. ASSUME IInv PROVE AddressSettles
  <2> SUFFICES ASSUME NEW c \in Conns, ~Closing(conn[c]), conn[c].udp = "open",
                      ~RestartPending(conn[c])
               PROVE  /\ conn[c].up => conn[c].local = conn[c].sock
                      /\ conn[c].up /\ ~conn[c].missed => conn[c].sock = conn[c].handle
    BY DEF AddressSettles
  <2>1. Good(conn[c]) /\ conn[c] \in Connection
    BY <1>1 DEF IInv, Good
  <2>2. conn[c].new = MAX
    BY <2>1, ClosingIff DEF Connection
  <2>3. conn[c].work = <<>> /\ ~conn[c].drain /\ ~Restarted(conn[c])
    BY <2>1 DEF RestartPending, Restarted, Connection
  <2> QED BY <2>1, <2>2, <2>3 DEF Good, Addressed, Routed, Bound
<1> QED BY <1>1, Invariance, PTL

(* The variables of the connections, the connector, its queue and the      *)
(* monitor keep their types.                                               *)
THEOREM TypeCorrect == Spec => []TypeOK
<1>1. ASSUME IInv PROVE TypeOK
  <2>1. ASSUME NEW c \in Conns
        PROVE  LET b == conn[c] IN
               /\ b.life \in {"none", "live", "deleted"} /\ b.keep \in BOOLEAN
               /\ b.state \in FREED..CONNECTED /\ b.new \in {FREED, MAX}
               /\ b.status \in Statuses
               /\ b.quic \in {0} \cup Quics
               /\ b.lib \in [Quics -> {"none", "connecting", "open", "closing"}]
               /\ b.rpc \in Stubs \cup {NULL} /\ b.timer \in BOOLEAN
               /\ b.udp \in {"open", "stopping", "closed", "gone"}
               /\ {b.handle, b.sock, b.target} \subseteq Ifaces \cup {NULL}
               /\ b.local \in Ifaces \cup {NULL, "unset"}
               /\ b.work \in Seq([t : {"restart", "stop"}, x : Ifaces \cup {NULL}])
               /\ {b.drain, b.up, b.missed} \subseteq BOOLEAN
               /\ b.restarts \in 0..MaxRestart /\ b.closes \in 0..MaxClose
               /\ b.q \in Seq([t : TaskKinds, x : Stubs \cup Ifaces \cup {NULL}])
               /\ b.detached \in BOOLEAN /\ b.closed \in {"no", "notified", "told"}
               /\ b.ans \in [Stubs -> Seq(Statuses)] /\ b.posted \subseteq Stubs
               /\ b.late \in BOOLEAN
    <3> DEFINE b == conn[c]
    <3>1. b \in Connection
      BY <1>1 DEF IInv
    <3>2. b.q \in Seq([t : TaskKinds, x : Stubs \cup Ifaces \cup {NULL}])
      <4>1. b.q \in Seq(TaskType) /\ TaskType \subseteq [t : TaskKinds, x : Stubs \cup Ifaces \cup {NULL}]
        BY <3>1 DEF Connection, TaskType, Nets
      <4> HIDE DEF b
      <4> QED BY <4>1, SeqMonotonic, Zenon
    <3>3. /\ b.keep \in BOOLEAN /\ b.timer \in BOOLEAN /\ b.detached \in BOOLEAN
          /\ b.late \in BOOLEAN /\ {b.drain, b.up, b.missed} \subseteq BOOLEAN
      BY <3>1, ZenonT(60) DEF Connection
    <3>4. b.work \in Seq([t : {"restart", "stop"}, x : Ifaces \cup {NULL}])
      BY <3>1 DEF Connection, EventType, Nets
    <3> QED BY <3>1, <3>2, <3>3, <3>4 DEF Connection, Nets, Libs, Udps
  <2>2. /\ ctor.state \in {FREED, CTOR_INIT, CTOR_WORKING} /\ ctor.new \in {FREED, MAX}
        /\ ctor.conns \subseteq Conns /\ {ctor.engine, ctor.told} \subseteq BOOLEAN
    BY <1>1 DEF IInv
  <2>3. /\ net.iface \in Ifaces \cup {NULL} /\ net.changes \in 0..MaxChange
        /\ {mon.sig, mon.i} \subseteq Ifaces \cup {NULL} /\ mon.todo \subseteq Conns
        /\ {mon.first, mon.cool} \subseteq BOOLEAN
    BY <1>1 DEF IInv, Nets
  <2> QED BY <1>1, <2>1, <2>2, <2>3 DEF TypeOK, IInv
<1> QED BY <1>1, Invariance, PTL
=============================================================================
