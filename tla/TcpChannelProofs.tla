-------------------------- MODULE TcpChannelProofs --------------------------
(***************************************************************************)
(* Proofs about TcpChannel, for every value of its constants.              *)
(*                                                                         *)
(* Handlers on the queue thread are compositions of one operator per C++   *)
(* method.  Good is the invariant of the channel record that each of those *)
(* methods keeps, Follows what any of them may do to the record; there is  *)
(* one lemma per method, and the actions chain them.                       *)
(***************************************************************************)
EXTENDS TcpChannel, FiniteSetTheorems, TLAPS

NoResult(c) == \A i \in DOMAIN c.events : c.events[i].op # "resolved"

(* Recv2 reports the errors of an open socket in its completion (BCSocket),*)
(* so that _TcpRecv does not close a channel whose SSLayer is about to be  *)
(* entered.                                                                *)
RecvIsAsync == "recv" \notin SyncErrors

Good(c) ==
  /\ c \in Channel
  /\ Len(c.events) =< c.tasks
  /\ c.closing => ~c.timer /\ ~c.dnsRequest /\ c.state \in {"CLOSING", "CLOSED"}
  /\ c.notified => /\ c.closing /\ c.tasks = 0 /\ ~HasPendingIo(c)
                   /\ ~c.socket /\ ~c.sslLayer
  /\ RecvIsAsync => ~c.uaf

Follows(c, d) ==
  /\ Good(d)
  /\ d.sslDepth = c.sslDepth
  /\ d.opening = c.opening
  /\ d.tasks - Len(d.events) = c.tasks - Len(c.events)
  /\ c.closing => d.closing
  /\ c.abandoned => d.abandoned
  /\ c.dnsRequest => d.dnsRequest \/ d.abandoned
  /\ NoResult(c) => NoResult(d)
  /\ c.sslDepth > 0 /\ c.sslLayer => d.sslLayer

-----------------------------------------------------------------------------
LEMMA FollowsSelf ==
  ASSUME NEW c, Good(c)
  PROVE  Follows(c, c)
BY DEF Follows

LEMMA FollowsTrans ==
  ASSUME NEW c, NEW d, NEW e, Good(c), Follows(c, d), Follows(d, e)
  PROVE  Follows(c, e)
BY DEF Follows

(* The parts of the record Good and Follows speak of. *)
SameCounts(c, d) ==
  /\ d.sslDepth = c.sslDepth /\ d.opening = c.opening
  /\ d.tasks = c.tasks /\ d.events = c.events /\ d.uaf = c.uaf

SameIo(c, d) ==
  /\ d.connect = c.connect /\ d.recv = c.recv /\ d.send = c.send

LEMMA GoodTypes ==
  ASSUME NEW c, Good(c)
  PROVE  /\ c \in Channel
         /\ c.dns \in Nat /\ c.connect \in Nat /\ c.recv \in Nat /\ c.send \in Nat
         /\ c.sslDepth \in Nat /\ c.tasks \in Nat /\ c.events \in Seq(TaskType)
         /\ Len(c.events) \in Nat
         /\ c.closing \in BOOLEAN /\ c.notified \in BOOLEAN
BY DEF Good, Channel

LEMMA AbandonDnsFollows ==
  ASSUME NEW c, Good(c)
  PROVE  Follows(c, AbandonDns(c)) /\ ~AbandonDns(c).dnsRequest
<1>1. CASE c.dnsRequest
  <2> DEFINE d == [c EXCEPT !.abandoned = TRUE, !.dnsRequest = FALSE, !.dns = 0]
  <2>1. /\ d \in Channel
        /\ d.abandoned /\ ~d.dnsRequest /\ d.dns = 0
        /\ SameCounts(c, d) /\ SameIo(c, d)
        /\ d.closing = c.closing /\ d.notified = c.notified /\ d.state = c.state
        /\ d.timer = c.timer /\ d.socket = c.socket /\ d.sslLayer = c.sslLayer
    BY DEF Good, Channel, SameCounts, SameIo
  <2>2. AbandonDns(c) = d
    BY <1>1 DEF AbandonDns
  <2> HIDE DEF d
  <2> QED
    BY <2>1, <2>2, GoodTypes DEF Follows, Good, NoResult, HasPendingIo, SameCounts, SameIo
<1>2. CASE ~c.dnsRequest
  BY <1>2, FollowsSelf DEF AbandonDns
<1> QED BY <1>1, <1>2

LEMMA MaybeFinishCloseFollows ==
  ASSUME NEW c, Good(c)
  PROVE  Follows(c, MaybeFinishClose(c))
<1> DEFINE ends == /\ c.closing /\ ~c.notified /\ c.sslDepth = 0
                   /\ ~HasPendingIo(c) /\ c.tasks = 0
           d == Cleanup([SetState(c, "CLOSED") EXCEPT !.notified = TRUE, !.timer = FALSE])
<1>1. CASE ends
  <2>1. /\ d \in Channel
        /\ d.state = "CLOSED" /\ d.notified /\ ~d.timer /\ ~d.socket /\ ~d.sslLayer
        /\ SameCounts(c, d) /\ SameIo(c, d) /\ d.dns = c.dns
        /\ d.closing = c.closing /\ d.dnsRequest = c.dnsRequest
        /\ d.abandoned = c.abandoned
    BY DEF Good, Channel, Cleanup, SetState, States, SameCounts, SameIo
  <2>2. MaybeFinishClose(c) = d
    BY <1>1 DEF MaybeFinishClose
  <2> HIDE DEF d
  <2>3. Good(d)
    BY <1>1, <2>1, GoodTypes DEF Good, HasPendingIo, SameCounts, SameIo
  <2>4. Follows(c, d)
    BY <1>1, <2>1, <2>3, GoodTypes DEF Follows, NoResult, SameCounts
  <2> QED BY <2>2, <2>4
<1>2. CASE ~ends
  BY <1>2, FollowsSelf DEF MaybeFinishClose
<1> QED BY <1>1, <1>2

LEMMA FailFollows ==
  ASSUME NEW c, Good(c), NEW res \in Results
  PROVE  Follows(c, Fail(c, res)) /\ Fail(c, res).closing
<1>1. CASE c.closing
  BY <1>1, MaybeFinishCloseFollows DEF Fail, Follows
<1>2. CASE ~c.closing
  <2> DEFINE d == [SetState(c, "CLOSING") EXCEPT !.closing = TRUE, !.result = res]
             t == [d EXCEPT !.timer = FALSE]
             e == AbandonDns(t)
  <2>1. /\ t \in Channel
        /\ t.state = "CLOSING" /\ t.closing /\ ~t.timer /\ ~t.notified
        /\ SameCounts(c, t) /\ t.abandoned = c.abandoned
        /\ t.dnsRequest = c.dnsRequest /\ t.sslLayer = c.sslLayer
    BY <1>2 DEF Good, SetState, States, Channel, SameCounts
  <2> HIDE DEF t
  <2>2. /\ e \in Channel
        /\ e.state = "CLOSING" /\ e.closing /\ ~e.timer /\ ~e.notified /\ ~e.dnsRequest
        /\ SameCounts(c, e)
        /\ c.abandoned => e.abandoned
        /\ c.dnsRequest => e.abandoned
        /\ e.sslLayer = c.sslLayer
    <3>1. CASE t.dnsRequest
      BY <2>1, <3>1 DEF AbandonDns, Channel, SameCounts
    <3>2. CASE ~t.dnsRequest
      BY <2>1, <3>2 DEF AbandonDns
    <3> QED BY <3>1, <3>2
  <2>3. Fail(c, res) = MaybeFinishClose(e)
    BY <1>2 DEF Fail, CancelIo, t
  <2> HIDE DEF e
  <2>4. Follows(c, e) /\ e.closing
    BY <1>2, <2>2, GoodTypes DEF Follows, Good, NoResult, SameCounts
  <2>5. Follows(e, MaybeFinishClose(e))
    BY <2>4, MaybeFinishCloseFollows DEF Follows
  <2> QED
    BY <2>3, <2>4, <2>5, FollowsTrans DEF Follows
<1> QED BY <1>1, <1>2

-----------------------------------------------------------------------------
(* A step that leaves the close-relevant fields alone. *)
LEMMA FollowsByFields ==
  ASSUME NEW c, NEW d, Good(c), d \in Channel,
         SameCounts(c, d), SameIo(c, d), d.dns = c.dns,
         d.closing = c.closing, d.notified = c.notified,
         d.dnsRequest = c.dnsRequest, d.abandoned = c.abandoned,
         c.closing => d.state = c.state /\ ~d.timer,
         c.notified => ~d.socket /\ ~d.sslLayer, c.sslLayer => d.sslLayer
  PROVE  Follows(c, d)
BY GoodTypes DEF Follows, Good, NoResult, HasPendingIo, SameCounts, SameIo

(* A step of a channel that is not closing. *)
LEMMA FollowsWhileLive ==
  ASSUME NEW c, NEW d, Good(c), ~c.closing, d \in Channel,
         SameCounts(c, d), ~d.closing, ~d.notified,
         d.dnsRequest = c.dnsRequest, d.abandoned = c.abandoned,
         c.sslLayer => d.sslLayer
  PROVE  Follows(c, d)
BY GoodTypes DEF Follows, Good, NoResult, SameCounts

LEMMA LiveIsNotNotified ==
  ASSUME NEW c, Good(c), ~c.closing
  PROVE  ~c.notified
BY DEF Good

LEMMA ReadyIsLive ==
  ASSUME NEW c, Good(c), c.state \notin {"CLOSING", "CLOSED"}
  PROVE  ~c.closing
BY DEF Good

LEMMA AfterCallbackType ==
  ASSUME NEW kind, NEW v
  PROVE  AfterCallback(kind, v) \in Views
BY DEF AfterCallback, Views

LEMMA CallbackFollows ==
  ASSUME NEW c, Good(c), NEW kind, NEW h \in Handlers
  PROVE  /\ Follows(c, Callback(c, kind, h))
         /\ Callback(c, kind, h).state = c.state
         /\ Callback(c, kind, h).closing = c.closing
         /\ Callback(c, kind, h).handler = c.handler
         /\ Callback(c, kind, h).parked = c.parked
<1> DEFINE v == AfterCallback(kind, c.view[h])
           w == [c.view EXCEPT ![h] = v]
           d == [c EXCEPT !.view = w]
<1>1. v \in Views
  BY AfterCallbackType
<1>2. w \in [Handlers -> Views]
  BY <1>1 DEF Good, Channel
<1>3. Callback(c, kind, h) = d
  BY DEF Callback
<1> HIDE DEF w
<1>4. /\ d \in Channel
      /\ SameCounts(c, d) /\ SameIo(c, d) /\ d.dns = c.dns
      /\ d.closing = c.closing /\ d.notified = c.notified
      /\ d.dnsRequest = c.dnsRequest /\ d.abandoned = c.abandoned
      /\ d.state = c.state /\ d.timer = c.timer /\ d.socket = c.socket
      /\ d.sslLayer = c.sslLayer /\ d.handler = c.handler /\ d.parked = c.parked
  BY <1>2 DEF Good, Channel, SameCounts, SameIo
<1> HIDE DEF d
<1>5. c.closing => ~d.timer
  BY <1>4 DEF Good
<1>6. c.notified => ~d.socket /\ ~d.sslLayer
  BY <1>4 DEF Good
<1> QED BY <1>3, <1>4, <1>5, <1>6, FollowsByFields

LEMMA OnPeerClosedFollows ==
  ASSUME NEW c, Good(c)
  PROVE  Follows(c, OnPeerClosed(c)) /\ OnPeerClosed(c).closing
BY FailFollows DEF OnPeerClosed, Results

LEMMA TcpRecvFollows ==
  ASSUME NEW c, Good(c), NEW bad \in BOOLEAN
  PROVE  Follows(c, TcpRecv(c, bad))
<1> DEFINE d == [c EXCEPT !.recv = @ + 1]
<1>1. CASE c.closing \/ ~c.socket \/ c.recv > 0
  BY <1>1, FollowsSelf DEF TcpRecv
<1>2. CASE ~(c.closing \/ ~c.socket \/ c.recv > 0) /\ bad
  BY <1>2, FailFollows DEF TcpRecv, Results
<1>3. CASE ~(c.closing \/ ~c.socket \/ c.recv > 0) /\ ~bad
  <2>3. c.recv + 1 \in Nat /\ ~c.notified
    BY <1>3, GoodTypes, LiveIsNotNotified
  <2>1. /\ d \in Channel /\ SameCounts(c, d) /\ ~d.closing /\ ~d.notified
        /\ d.dnsRequest = c.dnsRequest /\ d.abandoned = c.abandoned
        /\ c.sslLayer => d.sslLayer
    BY <1>3, <2>3 DEF Good, Channel, SameCounts
  <2>2. TcpRecv(c, bad) = d
    BY <1>3 DEF TcpRecv
  <2> HIDE DEF d
  <2> QED BY <1>3, <2>1, <2>2, FollowsWhileLive
<1> QED BY <1>1, <1>2, <1>3

LEMMA SendRawFollows ==
  ASSUME NEW c, Good(c), NEW n \in Nat, NEW bad \in BOOLEAN
  PROVE  Follows(c, SendRaw(c, n, bad))
<1> DEFINE d == [c EXCEPT !.send = @ + n]
<1>1. CASE c.closing \/ ~c.socket
  BY <1>1, FollowsSelf DEF SendRaw
<1>2. CASE ~(c.closing \/ ~c.socket)
  <2>1. /\ d \in Channel /\ SameCounts(c, d) /\ ~d.closing /\ ~d.notified
        /\ d.dnsRequest = c.dnsRequest /\ d.abandoned = c.abandoned
        /\ c.sslLayer => d.sslLayer
    <3>1. ~c.notified
      BY <1>2, LiveIsNotNotified
    <3>2. c.send + n \in Nat
      BY GoodTypes
    <3> QED BY <1>2, <3>1, <3>2 DEF Good, Channel, SameCounts
  <2>2. SendRaw(c, n, bad) = IF bad THEN Fail(d, "send") ELSE d
    BY <1>2 DEF SendRaw
  <2> HIDE DEF d
  <2>3. Follows(c, d)
    BY <1>2, <2>1, FollowsWhileLive
  <2>4. Follows(d, Fail(d, "send"))
    BY <2>3, FailFollows DEF Follows, Results
  <2> QED BY <2>2, <2>3, <2>4, FollowsTrans
<1> QED BY <1>1, <1>2

-----------------------------------------------------------------------------
LEMMA ParkFollows ==
  ASSUME NEW c, Good(c), NEW w \in Watchers
  PROVE  Follows(c, Park(c, w))
<1> DEFINE v == [h \in Handlers |-> IF h = w THEN "watching"
                                    ELSE IF h = c.handler THEN "released"
                                    ELSE c.view[h]]
           d == [c EXCEPT !.handler = w, !.parked = TRUE, !.view = v]
<1>1. CASE c.state # "READY"
  BY <1>1, FollowsSelf DEF Park
<1>2. CASE c.state = "READY"
  <2>1. v \in [Handlers -> Views]
    BY DEF Good, Channel, Views
  <2>2. Park(c, w) = d
    BY <1>2 DEF Park
  <2>3. ~c.closing /\ ~c.notified
    BY <1>2, ReadyIsLive, LiveIsNotNotified
  <2> HIDE DEF v
  <2>4. /\ d \in Channel /\ SameCounts(c, d) /\ ~d.closing /\ ~d.notified
        /\ d.dnsRequest = c.dnsRequest /\ d.abandoned = c.abandoned
        /\ c.sslLayer => d.sslLayer
    BY <2>1, <2>3 DEF Good, Channel, SameCounts, Handlers
  <2> HIDE DEF d
  <2> QED BY <2>2, <2>3, <2>4, FollowsWhileLive
<1> QED BY <1>1, <1>2

(* Taking a token and posting its task. *)
LEMMA PostFollows ==
  ASSUME NEW c, Good(c), ~c.notified, NEW task \in TaskType, task.op # "resolved"
  PROVE  Follows(c, PostTask(AcquirePendingTask(c), task))
<1> DEFINE q == Append(c.events, task)
           d == [c EXCEPT !.tasks = c.tasks + 1, !.events = q]
<1>1. /\ q \in Seq(TaskType) /\ Len(q) = Len(c.events) + 1
      /\ NoResult(c) => \A i \in DOMAIN q : q[i].op # "resolved"
  BY GoodTypes DEF NoResult
<1>2. c.tasks + 1 \in Nat
  BY GoodTypes
<1>3. PostTask(AcquirePendingTask(c), task) = d
  BY GoodTypes DEF PostTask, AcquirePendingTask, Channel
<1> HIDE DEF q
<1>4. /\ d \in Channel /\ d.events = q /\ d.tasks = c.tasks + 1
      /\ SameIo(c, d) /\ d.dns = c.dns /\ d.sslDepth = c.sslDepth
      /\ d.opening = c.opening /\ d.closing = c.closing /\ ~d.notified
      /\ d.dnsRequest = c.dnsRequest /\ d.abandoned = c.abandoned
      /\ d.state = c.state /\ d.timer = c.timer
      /\ d.sslLayer = c.sslLayer /\ d.uaf = c.uaf
  BY <1>1, <1>2 DEF Good, Channel, SameIo
<1> HIDE DEF d
<1> QED BY <1>1, <1>3, <1>4, GoodTypes DEF Follows, Good, NoResult

LEMMA ReactFollows ==
  ASSUME NEW c, Good(c), NEW r \in Reactions
  PROVE  Follows(c, React(c, r))
<1>1. [op |-> "send"] \in TaskType /\ [op |-> "close"] \in TaskType
  BY DEF TaskType
<1>2. CASE r.op = "send" /\ c.state = "READY" /\ ~c.notified
  BY <1>1, <1>2, PostFollows DEF React
<1>3. CASE r.op = "close" /\ ~c.notified
  BY <1>1, <1>3, PostFollows DEF React
<1>4. CASE r.op = "park"
  <2>1. r.w \in Watchers
    BY <1>4 DEF Reactions
  <2> QED BY <1>4, <2>1, ParkFollows DEF React
<1>5. CASE /\ ~(r.op = "send" /\ c.state = "READY" /\ ~c.notified)
           /\ ~(r.op = "close" /\ ~c.notified)
           /\ r.op # "park"
  BY <1>5, FollowsSelf DEF React
<1> QED BY <1>2, <1>3, <1>4, <1>5

LEMMA EnterReadyFollows ==
  ASSUME NEW c, Good(c), ~c.closing, NEW r \in Reactions
  PROVE  Follows(c, EnterReady(c, r))
<1> DEFINE up == [SetState(c, "READY") EXCEPT !.timer = FALSE]
           told == Callback(up, "ready", up.handler)
<1>1. /\ up \in Channel /\ SameCounts(c, up) /\ ~up.closing /\ ~up.notified
      /\ up.dnsRequest = c.dnsRequest /\ up.abandoned = c.abandoned
      /\ c.sslLayer => up.sslLayer
  BY LiveIsNotNotified DEF Good, Channel, SetState, States, SameCounts
<1>2. EnterReady(c, r) = IF up.handler = NULL THEN up ELSE React(told, r)
  BY DEF EnterReady
<1>3. up.handler = NULL \/ up.handler \in Handlers
  BY <1>1 DEF Channel
<1> HIDE DEF up
<1>4. Follows(c, up)
  BY <1>1, FollowsWhileLive
<1>5. ASSUME up.handler # NULL
      PROVE  Follows(c, React(told, r))
  <2>1. Follows(up, told)
    BY <1>3, <1>4, <1>5, CallbackFollows DEF Follows
  <2>2. Follows(told, React(told, r))
    BY <2>1, ReactFollows DEF Follows
  <2>3. Good(up)
    BY <1>4 DEF Follows
  <2>4. Follows(up, React(told, r))
    BY <2>1, <2>2, <2>3, FollowsTrans
  <2> QED BY <1>4, <2>4, FollowsTrans
<1> QED BY <1>2, <1>4, <1>5

LEMMA OnRecvDataFromSSLFollows ==
  ASSUME NEW c, Good(c), NEW r \in Reactions
  PROVE  Follows(c, OnRecvDataFromSSL(c, r))
<1>1. CASE c.parked
  <2> DEFINE d == [c EXCEPT !.poisoned = TRUE]
  <2>1. /\ d \in Channel
        /\ SameCounts(c, d) /\ SameIo(c, d) /\ d.dns = c.dns
        /\ d.closing = c.closing /\ d.notified = c.notified
        /\ d.dnsRequest = c.dnsRequest /\ d.abandoned = c.abandoned
        /\ d.state = c.state /\ d.timer = c.timer /\ d.socket = c.socket
        /\ d.sslLayer = c.sslLayer
    BY DEF Good, Channel, SameCounts, SameIo
  <2>2. OnRecvDataFromSSL(c, r) = d
    BY <1>1 DEF OnRecvDataFromSSL
  <2> HIDE DEF d
  <2>3. (c.closing => ~d.timer) /\ (c.notified => ~d.socket /\ ~d.sslLayer)
    BY <2>1 DEF Good
  <2> QED BY <2>1, <2>2, <2>3, FollowsByFields
<1>2. CASE ~c.parked /\ (c.handler = NULL \/ c.state # "READY")
  BY <1>2, FollowsSelf DEF OnRecvDataFromSSL
<1>3. CASE ~c.parked /\ c.handler # NULL /\ c.state = "READY"
  <2> DEFINE told == Callback(c, "data", c.handler)
  <2>1. OnRecvDataFromSSL(c, r) = React(told, r)
    BY <1>3 DEF OnRecvDataFromSSL
  <2>2. c.handler \in Handlers
    BY <1>3 DEF Good, Channel
  <2>3. Follows(c, told)
    BY <2>2, CallbackFollows
  <2> HIDE DEF told
  <2>4. Follows(told, React(told, r))
    BY <2>3, ReactFollows DEF Follows
  <2> QED BY <2>1, <2>3, <2>4, FollowsTrans
<1> QED BY <1>1, <1>2, <1>3

-----------------------------------------------------------------------------
(* The SslReentryGuard around a call d of the SSLayer. *)
LEMMA GuardEnterGood ==
  ASSUME NEW c, Good(c), RecvIsAsync => c.sslLayer
  PROVE  LET d == GuardEnter(c)
         IN  /\ Good(d) /\ d.sslDepth = c.sslDepth + 1
             /\ d.opening = c.opening /\ d.tasks = c.tasks /\ d.events = c.events
             /\ d.closing = c.closing /\ d.abandoned = c.abandoned
             /\ d.dnsRequest = c.dnsRequest /\ d.sslLayer = c.sslLayer
<1> DEFINE d == GuardEnter(c)
<1>1. c.sslDepth + 1 \in Nat
  BY GoodTypes
<1>2. /\ d \in Channel /\ d.sslDepth = c.sslDepth + 1
      /\ d.opening = c.opening /\ d.tasks = c.tasks /\ d.events = c.events
      /\ SameIo(c, d) /\ d.dns = c.dns /\ d.closing = c.closing
      /\ d.notified = c.notified /\ d.abandoned = c.abandoned
      /\ d.dnsRequest = c.dnsRequest /\ d.state = c.state /\ d.timer = c.timer
      /\ d.socket = c.socket /\ d.sslLayer = c.sslLayer
      /\ d.uaf = (c.uaf \/ ~c.sslLayer)
  BY <1>1 DEF Good, Channel, GuardEnter, SameIo
<1> HIDE DEF d
<1>3. Good(d)
  BY <1>2 DEF Good, HasPendingIo, SameIo
<1> QED BY <1>2, <1>3 DEF d

LEMMA GuardExitFollows ==
  ASSUME NEW c, Good(c), RecvIsAsync => c.sslLayer, NEW d, Follows(GuardEnter(c), d)
  PROVE  Follows(c, GuardExit(d))
<1> DEFINE b == GuardEnter(c)
           e == [d EXCEPT !.sslDepth = @ - 1, !.uaf = @ \/ ~d.sslLayer]
<1>1. /\ Good(b) /\ b.sslDepth = c.sslDepth + 1
      /\ b.opening = c.opening /\ b.tasks = c.tasks /\ b.events = c.events
      /\ b.closing = c.closing /\ b.abandoned = c.abandoned
      /\ b.dnsRequest = c.dnsRequest /\ b.sslLayer = c.sslLayer
  BY GuardEnterGood
<1>2. /\ Good(d) /\ d.sslDepth = c.sslDepth + 1
      /\ c.sslLayer => d.sslLayer
  BY <1>1, GoodTypes DEF Follows
<1>3. d.sslDepth - 1 \in Nat /\ d.sslDepth - 1 = c.sslDepth
  BY <1>2, GoodTypes
<1>4. /\ e \in Channel /\ e.sslDepth = c.sslDepth
      /\ e.opening = d.opening /\ e.tasks = d.tasks /\ e.events = d.events
      /\ SameIo(d, e) /\ e.dns = d.dns /\ e.closing = d.closing
      /\ e.notified = d.notified /\ e.abandoned = d.abandoned
      /\ e.dnsRequest = d.dnsRequest /\ e.state = d.state /\ e.timer = d.timer
      /\ e.socket = d.socket /\ e.sslLayer = d.sslLayer
      /\ e.uaf = (d.uaf \/ ~d.sslLayer)
  BY <1>2, <1>3 DEF Good, Channel, SameIo
<1>5. GuardExit(d) = IF e.sslDepth = 0 THEN MaybeFinishClose(e) ELSE e
  BY DEF GuardExit
<1> HIDE DEF e
<1>6. Good(e)
  BY <1>2, <1>4 DEF Good, HasPendingIo, SameIo
<1>7. Follows(c, e)
  <2> HIDE DEF b
  <2>1. Follows(b, d)
    BY DEF b
  <2> QED BY <1>1, <1>2, <1>4, <1>6, <2>1 DEF Follows, NoResult
<1>8. Follows(e, MaybeFinishClose(e))
  BY <1>6, MaybeFinishCloseFollows
<1> QED BY <1>5, <1>7, <1>8, FollowsTrans

LEMMA OnSSLReadyFollows ==
  ASSUME NEW c, Good(c), NEW o \in Outcomes, NEW r \in Reactions
  PROVE  Follows(c, OnSSLReady(c, o, r))
<1> DEFINE v == VerifySpkiPin(c, o)
<1>1. Follows(c, v)
  BY FailFollows, FollowsSelf DEF VerifySpkiPin, Results
<1>2. Good(v)
  BY <1>1 DEF Follows
<1>3. OnSSLReady(c, o, r) \in {c, v} \/ (~v.closing /\ OnSSLReady(c, o, r) = EnterReady(v, r))
  BY DEF OnSSLReady
<1> HIDE DEF v
<1>4. ~v.closing => Follows(c, EnterReady(v, r))
  BY <1>1, <1>2, EnterReadyFollows, FollowsTrans
<1> QED BY <1>1, <1>3, <1>4, FollowsSelf

LEMMA OnSSLFinishedFollows ==
  ASSUME NEW c, Good(c)
  PROVE  Follows(c, OnSSLFinished(c))
<1> DEFINE d == [c EXCEPT !.tlsClean = TRUE]
<1>1. /\ d \in Channel
      /\ SameCounts(c, d) /\ SameIo(c, d) /\ d.dns = c.dns
      /\ d.closing = c.closing /\ d.notified = c.notified
      /\ d.dnsRequest = c.dnsRequest /\ d.abandoned = c.abandoned
      /\ d.state = c.state /\ d.timer = c.timer /\ d.socket = c.socket
      /\ d.sslLayer = c.sslLayer
  BY DEF Good, Channel, SameCounts, SameIo
<1>2. OnSSLFinished(c) = OnPeerClosed(d)
  BY DEF OnSSLFinished
<1> HIDE DEF d
<1>3. (c.closing => ~d.timer) /\ (c.notified => ~d.socket /\ ~d.sslLayer)
  BY <1>1 DEF Good
<1>4. Follows(c, d)
  BY <1>1, <1>3, FollowsByFields
<1>5. Follows(d, OnPeerClosed(d))
  BY <1>4, OnPeerClosedFollows DEF Follows
<1> QED BY <1>2, <1>4, <1>5, FollowsTrans

LEMMA ConnectSSLFollows ==
  ASSUME NEW c, Good(c), NEW o \in Outcomes, NEW r \in Reactions
  PROVE  Follows(c, ConnectSSL(c, o, r))
<1> DEFINE w == SendRaw(c, o.write, o.writeBad)
           d == [w EXCEPT !.sslState = "RW"]
<1>1. /\ o.write \in Nat /\ o.writeBad \in BOOLEAN
      /\ o.conn \in {"want", "done", "error"}
  BY DEF Outcomes
<1>2. Follows(c, w) /\ Good(w)
  BY <1>1, SendRawFollows DEF Follows
<1>3. ConnectSSL(c, o, r) \in {c, w, OnSSLReady(d, o, r), Fail(w, "tls")}
  BY <1>1 DEF ConnectSSL
<1> HIDE DEF w
<1>4. /\ d \in Channel
      /\ SameCounts(w, d) /\ SameIo(w, d) /\ d.dns = w.dns
      /\ d.closing = w.closing /\ d.notified = w.notified
      /\ d.dnsRequest = w.dnsRequest /\ d.abandoned = w.abandoned
      /\ d.state = w.state /\ d.timer = w.timer /\ d.socket = w.socket
      /\ d.sslLayer = w.sslLayer
  BY <1>2 DEF Good, Channel, SameCounts, SameIo
<1> HIDE DEF d
<1>5. (w.closing => ~d.timer) /\ (w.notified => ~d.socket /\ ~d.sslLayer)
  BY <1>2, <1>4 DEF Good
<1>6. Follows(w, d) /\ Good(d)
  BY <1>2, <1>4, <1>5, FollowsByFields DEF Follows
<1>7. Follows(w, OnSSLReady(d, o, r))
  BY <1>2, <1>6, OnSSLReadyFollows, FollowsTrans
<1>8. Follows(w, Fail(w, "tls"))
  BY <1>2, FailFollows DEF Results
<1>9. Follows(c, OnSSLReady(d, o, r)) /\ Follows(c, Fail(w, "tls"))
  BY <1>2, <1>7, <1>8, FollowsTrans
<1> QED BY <1>2, <1>3, <1>9, FollowsSelf

LEMMA ReadFromSSLFollows ==
  ASSUME NEW c, Good(c), NEW o \in Outcomes, NEW r \in Reactions
  PROVE  Follows(c, ReadFromSSL(c, o, r))
<1> DEFINE conn == ConnectSSL(c, o, r)
           read == IF o.read = "error" THEN Fail(conn, "tls") ELSE conn
           data == IF o.data THEN OnRecvDataFromSSL(read, r) ELSE read
<1>1. Follows(c, conn) /\ Good(conn)
  BY ConnectSSLFollows DEF Follows
<1>2. ReadFromSSL(c, o, r) \in {conn, data, OnSSLFinished(data)}
  BY DEF ReadFromSSL
<1> HIDE DEF conn
<1>3. Follows(conn, read)
  BY <1>1, FailFollows, FollowsSelf DEF Results
<1>4. Follows(c, read) /\ Good(read)
  BY <1>1, <1>3, FollowsTrans DEF Follows
<1> HIDE DEF read
<1>5. Follows(read, data)
  BY <1>4, OnRecvDataFromSSLFollows, FollowsSelf
<1>6. Follows(c, data) /\ Good(data)
  BY <1>4, <1>5, FollowsTrans DEF Follows
<1> HIDE DEF data
<1>7. Follows(c, OnSSLFinished(data))
  BY <1>6, OnSSLFinishedFollows, FollowsTrans
<1> QED BY <1>1, <1>2, <1>6, <1>7

-----------------------------------------------------------------------------
(* Pinning and connecting: all of it happens on a channel not yet closing. *)
LEMMA SetupTlsFollows ==
  ASSUME NEW c, Good(c), ~c.closing, NEW p
  PROVE  Follows(c, SetupTls(c, p))
<1> DEFINE d == [c EXCEPT !.sslLayer = TRUE]
<1>1. /\ d \in Channel /\ SameCounts(c, d) /\ ~d.closing /\ ~d.notified
      /\ d.dnsRequest = c.dnsRequest /\ d.abandoned = c.abandoned
      /\ c.sslLayer => d.sslLayer
  BY LiveIsNotNotified DEF Good, Channel, SameCounts
<1>2. SetupTls(c, p) \in {d, Fail(c, "tls")}
  BY DEF SetupTls
<1> HIDE DEF d
<1>3. Follows(c, d)
  BY <1>1, FollowsWhileLive
<1>4. Follows(c, Fail(c, "tls"))
  BY FailFollows DEF Results
<1> QED BY <1>2, <1>3, <1>4

LEMMA UnpinFollows ==
  ASSUME NEW c, Good(c), ~c.closing
  PROVE  /\ Follows(c, [c EXCEPT !.bound = FALSE, !.pinned = FALSE])
         /\ Follows(c, [c EXCEPT !.pinned = TRUE])
         /\ Follows(c, [c EXCEPT !.socket = TRUE])
         /\ ~[c EXCEPT !.socket = TRUE].closing
<1> DEFINE d == [c EXCEPT !.bound = FALSE, !.pinned = FALSE]
           e == [c EXCEPT !.pinned = TRUE]
           f == [c EXCEPT !.socket = TRUE]
<1>1. ~c.notified
  BY LiveIsNotNotified
<1>2. /\ d \in Channel /\ SameCounts(c, d) /\ ~d.closing /\ ~d.notified
      /\ d.dnsRequest = c.dnsRequest /\ d.abandoned = c.abandoned
      /\ c.sslLayer => d.sslLayer
  BY <1>1 DEF Good, Channel, SameCounts
<1>3. /\ e \in Channel /\ SameCounts(c, e) /\ ~e.closing /\ ~e.notified
      /\ e.dnsRequest = c.dnsRequest /\ e.abandoned = c.abandoned
      /\ c.sslLayer => e.sslLayer
  BY <1>1 DEF Good, Channel, SameCounts
<1>4. /\ f \in Channel /\ SameCounts(c, f) /\ ~f.closing /\ ~f.notified
      /\ f.dnsRequest = c.dnsRequest /\ f.abandoned = c.abandoned
      /\ c.sslLayer => f.sslLayer
  BY <1>1 DEF Good, Channel, SameCounts
<1> HIDE DEF d, e, f
<1>5. Follows(c, d) /\ Follows(c, e) /\ Follows(c, f)
  BY <1>2, <1>3, <1>4, FollowsWhileLive
<1> QED BY <1>4, <1>5 DEF d, e, f

LEMMA DecidePinFollows ==
  ASSUME NEW c, Good(c), ~c.closing, NEW p
  PROVE  Follows(c, DecidePinBeforeConnect(c, p))
<1>1. DecidePinBeforeConnect(c, p) \in
        {c, Fail(c, "route"), [c EXCEPT !.bound = FALSE, !.pinned = FALSE]}
  BY DEF DecidePinBeforeConnect
<1>2. Follows(c, Fail(c, "route"))
  BY FailFollows DEF Results
<1> QED BY <1>1, <1>2, UnpinFollows, FollowsSelf

LEMMA PinSocketFollows ==
  ASSUME NEW c, Good(c), ~c.closing, NEW p
  PROVE  Follows(c, PinSocket(c, p))
<1>1. PinSocket(c, p) \in
        {c, [c EXCEPT !.pinned = TRUE], Fail(c, "pin"),
         [c EXCEPT !.bound = FALSE, !.pinned = FALSE]}
  BY DEF PinSocket
<1>2. Follows(c, Fail(c, "pin"))
  BY FailFollows DEF Results
<1> QED BY <1>1, <1>2, UnpinFollows, FollowsSelf

LEMMA StartConnectFollows ==
  ASSUME NEW c, Good(c), ~c.closing, NEW p
  PROVE  Follows(c, StartConnect(c, p))
<1> DEFINE go == SetState(c, "CONNECTING")
           d  == [go EXCEPT !.connect = @ + 1]
<1>1. c.connect + 1 \in Nat
  BY GoodTypes
<1>2. /\ go \in Channel /\ SameCounts(c, go) /\ ~go.closing /\ ~go.notified
      /\ go.dnsRequest = c.dnsRequest /\ go.abandoned = c.abandoned
      /\ c.sslLayer => go.sslLayer
  BY LiveIsNotNotified DEF Good, Channel, SetState, States, SameCounts
<1>3. /\ d \in Channel /\ SameCounts(c, d) /\ ~d.closing /\ ~d.notified
      /\ d.dnsRequest = c.dnsRequest /\ d.abandoned = c.abandoned
      /\ c.sslLayer => d.sslLayer
  BY <1>1, LiveIsNotNotified DEF Good, Channel, SetState, States, SameCounts
<1>4. StartConnect(c, p) \in {d, Fail(go, "connect")}
  BY DEF StartConnect
<1> HIDE DEF go, d
<1>5. Follows(c, go) /\ Follows(c, d)
  BY <1>2, <1>3, FollowsWhileLive
<1>6. Follows(go, Fail(go, "connect"))
  BY <1>5, FailFollows DEF Follows, Results
<1> QED BY <1>4, <1>5, <1>6, FollowsTrans

LEMMA EnterPinningFollows ==
  ASSUME NEW c, Good(c), ~c.closing, NEW p
  PROVE  Follows(c, EnterPinning(c, p))
<1> DEFINE c0 == SetState(c, "PINNING")
           c1 == IF c.cfg.tls THEN SetupTls(c0, p) ELSE c0
           s1 == [c1 EXCEPT !.socket = TRUE]
           c2 == IF p.socketOk THEN DecidePinBeforeConnect(s1, p) ELSE Fail(c1, "socket")
           c3 == PinSocket(c2, p)
<1>1. /\ c0 \in Channel /\ SameCounts(c, c0) /\ ~c0.closing /\ ~c0.notified
      /\ c0.dnsRequest = c.dnsRequest /\ c0.abandoned = c.abandoned
      /\ c.sslLayer => c0.sslLayer
  BY LiveIsNotNotified DEF Good, Channel, SetState, States, SameCounts
<1>2. EnterPinning(c, p) =
        IF c1.closing THEN c1 ELSE IF c2.closing THEN c2
        ELSE IF c3.closing THEN c3 ELSE StartConnect(c3, p)
  BY DEF EnterPinning
<1> HIDE DEF c0
<1>3. Follows(c, c0) /\ Good(c0)
  BY <1>1, FollowsWhileLive DEF Follows
<1>4. Follows(c0, c1)
  BY <1>1, <1>3, SetupTlsFollows, FollowsSelf
<1>5. Follows(c, c1) /\ Good(c1)
  BY <1>3, <1>4, FollowsTrans DEF Follows
<1> HIDE DEF c1
<1>6. CASE c1.closing
  BY <1>2, <1>5, <1>6
<1>7. CASE ~c1.closing
  <2>1. Follows(c1, s1) /\ Good(s1) /\ ~s1.closing
    BY <1>5, <1>7, UnpinFollows DEF Follows
  <2> HIDE DEF s1
  <2>2. Follows(s1, DecidePinBeforeConnect(s1, p))
    BY <2>1, DecidePinFollows
  <2>3. Follows(c1, DecidePinBeforeConnect(s1, p))
    BY <1>5, <2>1, <2>2, FollowsTrans
  <2>4. Follows(c1, Fail(c1, "socket"))
    BY <1>5, FailFollows DEF Results
  <2>5. Follows(c, c2) /\ Good(c2)
    BY <1>5, <2>3, <2>4, FollowsTrans DEF Follows
  <2> HIDE DEF c2
  <2>6. ~c2.closing => Follows(c, c3) /\ Good(c3)
    BY <2>5, PinSocketFollows, FollowsTrans DEF Follows
  <2> HIDE DEF c3
  <2>7. ~c2.closing /\ ~c3.closing => Follows(c, StartConnect(c3, p))
    BY <2>6, StartConnectFollows, FollowsTrans
  <2> QED BY <1>2, <1>7, <2>5, <2>6, <2>7
<1> QED BY <1>6, <1>7

-----------------------------------------------------------------------------
(* The bodies of tasks and completions. *)
LEMMA RunSendFollows ==
  ASSUME NEW c, Good(c), NEW n \in Nat, NEW bad \in BOOLEAN
  PROVE  Follows(c, RunSend(c, n, bad))
<1> DEFINE g == GuardEnter(c)
<1>1. ASSUME c.sslLayer
      PROVE  Follows(c, GuardExit(WriteToSSL(GuardEnter(c), n, bad)))
  <2>1. Good(g)
    BY <1>1, GuardEnterGood
  <2>2. Follows(g, WriteToSSL(g, n, bad))
    BY <2>1, SendRawFollows DEF WriteToSSL
  <2> QED BY <1>1, <2>2, GuardExitFollows
<1> QED BY <1>1, SendRawFollows, MaybeFinishCloseFollows DEF RunSend

LEMMA HandOverFollows ==
  ASSUME NEW c, Good(c), NEW h \in Users, NEW r \in Reactions
  PROVE  Follows(c, HandOver(c, h, r))
<1> DEFINE freed == IF c.handler = NULL THEN c ELSE Callback(c, "detached", c.handler)
           d == [freed EXCEPT !.parked = FALSE, !.handler = h]
           told == Callback(d, "ready", h)
<1>1. h \in Handlers /\ (c.handler = NULL \/ c.handler \in Handlers)
  BY DEF Handlers, Good, Channel
<1>2. Follows(c, freed) /\ Good(freed)
  BY <1>1, CallbackFollows, FollowsSelf DEF Follows
<1>3. HandOver(c, h, r) = React(told, r)
  BY DEF HandOver
<1> HIDE DEF freed
<1>4. /\ d \in Channel
      /\ SameCounts(freed, d) /\ SameIo(freed, d) /\ d.dns = freed.dns
      /\ d.closing = freed.closing /\ d.notified = freed.notified
      /\ d.dnsRequest = freed.dnsRequest /\ d.abandoned = freed.abandoned
      /\ d.state = freed.state /\ d.timer = freed.timer /\ d.socket = freed.socket
      /\ d.sslLayer = freed.sslLayer
  BY <1>1, <1>2 DEF Good, Channel, SameCounts, SameIo
<1> HIDE DEF d
<1>5. (freed.closing => ~d.timer) /\ (freed.notified => ~d.socket /\ ~d.sslLayer)
  BY <1>2, <1>4 DEF Good
<1>6. Follows(c, d) /\ Good(d)
  BY <1>2, <1>4, <1>5, FollowsByFields, FollowsTrans DEF Follows
<1>7. Follows(d, told) /\ Good(told)
  BY <1>1, <1>6, CallbackFollows DEF Follows
<1> HIDE DEF told
<1>8. Follows(d, React(told, r))
  BY <1>6, <1>7, ReactFollows, FollowsTrans
<1> QED BY <1>3, <1>6, <1>8, FollowsTrans

LEMMA RunAdoptFollows ==
  ASSUME NEW c, Good(c), NEW h \in Users, NEW r \in Reactions
  PROVE  Follows(c, RunAdopt(c, h, r))
<1> DEFINE d == Callback(c, "adoptFailed", h)
<1>1. Follows(c, d) /\ Good(d)
  BY CallbackFollows DEF Follows, Handlers
<1>2. RunAdopt(c, h, r) \in {Fail(d, "success"), HandOver(c, h, r)}
  BY DEF RunAdopt
<1> HIDE DEF d
<1>3. Follows(c, Fail(d, "success"))
  BY <1>1, FailFollows, FollowsTrans DEF Results
<1> QED BY <1>2, <1>3, HandOverFollows

LEMMA OnConnectDoneFollows ==
  ASSUME NEW c, Good(c), NEW end, NEW o \in Outcomes, NEW r \in Reactions,
         RecvIsAsync => ~o.recvBad
  PROVE  Follows(c, OnConnectDone(c, end, o, r))
<1> DEFINE shake == SetState(c, "TLS_HANDSHAKE")
           reading == TcpRecv(shake, o.recvBad)
           g == GuardEnter(reading)
           up == EnterReady(c, r)
<1>1. o.recvBad \in BOOLEAN
  BY DEF Outcomes
<1>2. Follows(c, Fail(c, "connect"))
  BY FailFollows DEF Results
<1>3. ASSUME ~c.closing, c.sslLayer
      PROVE  Follows(c, GuardExit(ConnectSSL(g, o, r)))
  <2>1. /\ shake \in Channel /\ SameCounts(c, shake) /\ ~shake.closing
        /\ ~shake.notified /\ shake.dnsRequest = c.dnsRequest
        /\ shake.abandoned = c.abandoned /\ shake.sslLayer = c.sslLayer
    BY <1>3, LiveIsNotNotified DEF Good, Channel, SetState, States, SameCounts
  <2> HIDE DEF shake
  <2>2. Follows(c, shake) /\ Good(shake)
    BY <1>3, <2>1, FollowsWhileLive DEF Follows
  <2>3. Follows(c, reading) /\ Good(reading)
    BY <1>1, <2>2, TcpRecvFollows, FollowsTrans DEF Follows
  <2>7. RecvIsAsync => reading.sslLayer
    <3>1. shake.sslLayer
      BY <1>3, <2>1
    <3>2. shake \in Channel
      BY <2>1
    <3> QED BY <3>1, <3>2 DEF TcpRecv, Channel
  <2> HIDE DEF reading
  <2>4. Good(g)
    BY <2>3, <2>7, GuardEnterGood
  <2>5. Follows(g, ConnectSSL(g, o, r))
    BY <2>4, ConnectSSLFollows
  <2>6. Follows(reading, GuardExit(ConnectSSL(g, o, r)))
    BY <2>3, <2>5, <2>7, GuardExitFollows
  <2> QED BY <2>3, <2>6, FollowsTrans
<1>4. ASSUME ~c.closing
      PROVE  Follows(c, TcpRecv(up, o.recvBad))
  <2>1. Follows(c, up) /\ Good(up)
    BY <1>4, EnterReadyFollows DEF Follows
  <2> HIDE DEF up
  <2> QED BY <1>1, <2>1, TcpRecvFollows, FollowsTrans
<1>5. \/ OnConnectDone(c, end, o, r) \in {c, Fail(c, "connect")}
      \/ ~c.closing /\ c.sslLayer /\ OnConnectDone(c, end, o, r) = GuardExit(ConnectSSL(g, o, r))
      \/ ~c.closing /\ OnConnectDone(c, end, o, r) = TcpRecv(up, o.recvBad)
  BY DEF OnConnectDone
<1> QED BY <1>2, <1>3, <1>4, <1>5, FollowsSelf

LEMMA OnRecvDoneFollows ==
  ASSUME NEW c, Good(c), NEW o \in Outcomes, NEW r \in Reactions
  PROVE  Follows(c, OnRecvDone(c, o, r))
<1> DEFINE g == GuardEnter(c)
<1>1. ASSUME c.sslLayer
      PROVE  Follows(c, GuardExit(ReadFromSSL(GuardEnter(c), o, r)))
  <2>1. Good(g)
    BY <1>1, GuardEnterGood
  <2>2. Follows(g, ReadFromSSL(g, o, r))
    BY <2>1, ReadFromSSLFollows
  <2> QED BY <1>1, <2>2, GuardExitFollows
<1> QED BY <1>1, OnRecvDataFromSSLFollows DEF OnRecvDone

LEMMA OnSendDoneFollows ==
  ASSUME NEW c, Good(c), NEW o \in Outcomes, NEW r \in Reactions
  PROVE  Follows(c, OnSendDone(c, o, r))
<1> DEFINE g == GuardEnter(c)
<1>1. ASSUME c.sslLayer
      PROVE  Follows(c, GuardExit(ConnectSSL(GuardEnter(c), o, r)))
  <2>1. Good(g)
    BY <1>1, GuardEnterGood
  <2>2. Follows(g, ConnectSSL(g, o, r))
    BY <2>1, ConnectSSLFollows
  <2> QED BY <1>1, <2>2, GuardExitFollows
<1> QED BY <1>1, FollowsSelf DEF OnSendDone

-----------------------------------------------------------------------------
(***************************************************************************)
(* The inductive invariant.  Every token of pending_tasks_ stands for a    *)
(* task in the queue or for a thread between _AcquirePendingTask and       *)
(* PostTask; until Open returns nothing but a Close can reach the channel; *)
(* and a DNS worker that may still answer is either abandoned or the       *)
(* request the channel knows of, whose answer is not queued yet.           *)
(*                                                                         *)
(* A close that overtakes Open breaks this invariant.  From then on DInv   *)
(* holds instead: the channel never gets a socket or an SSLayer, and the   *)
(* tasks that can still run do nothing but look whether the close is over. *)
(***************************************************************************)
Acquired == {t \in Callers : caller[t].pc = "acquired"}

InCallOK(k) == \A t \in Callers :
  k[t].pc # "idle" => k[t].op # "none" /\ (k[t].op = "adopt" => k[t].h \in Users)

(* A channel on which Open has not returned, or was overtaken. *)
Fresh(c) ==
  /\ c.opening # "done" /\ c.state # "READY"
  /\ c.connect = 0 /\ c.recv = 0 /\ c.send = 0 /\ c.sslDepth = 0 /\ ~c.uaf
  /\ \A h \in Handlers : c.view[h] \in {"none", "opening", "closed"}
  /\ c.handler # NULL => c.view[c.handler] = "opening"

OnlyClose(c, k) ==
  /\ \A i \in DOMAIN c.events : c.events[i].op = "close"
  /\ \A t \in Callers : k[t].pc # "idle" => k[t].op = "close"

NotOpened(c, w, k) == ~c.closing /\ w = "none" /\ Fresh(c) /\ OnlyClose(c, k)

WorkerKnown(c, w) ==
  w \in {"queued", "resolving"} => (c.dnsRequest \/ c.abandoned) /\ NoResult(c)

IInv ==
  /\ Good(ch)
  /\ worker \in {"none", "queued", "resolving", "done"}
  /\ caller \in [Callers -> CallerType]
  /\ InCallOK(caller)
  /\ ch.tasks - Len(ch.events) = Cardinality(Acquired)
  /\ ch.opening # "done" => NotOpened(ch, worker, caller)
  /\ WorkerKnown(ch, worker)

DInv ==
  /\ ch \in Channel
  /\ worker \in {"none", "queued", "resolving", "done"}
  /\ caller \in [Callers -> CallerType]
  /\ Overtaken /\ Fresh(ch)
  /\ \A i \in DOMAIN ch.events : ch.events[i].op \in {"close", "noDns", "resolved"}
  /\ \A t \in Callers : caller[t].pc # "idle" => caller[t].op = "close"

LEMMA AcquiredFinite == IsFiniteSet(Acquired) /\ Cardinality(Acquired) \in Nat
<1>1. IsFiniteSet(Acquired)
  BY ConstantsAssumption, FS_Subset DEF Acquired
<1> QED BY <1>1, FS_CardinalityType

LEMMA InitIInv == Init => IInv
<1> SUFFICES ASSUME Init PROVE IInv
  OBVIOUS
<1> USE DEF Init
<1>1. ch \in Channel
  BY DEF InitChannel, Channel, States, ConfigType, NoConfig, Policies, Results,
         Views
<1>2. /\ ch.closing = FALSE /\ ch.notified = FALSE /\ ch.events = <<>>
      /\ ch.tasks = 0 /\ ch.opening = "no" /\ ch.state = "IDLE"
      /\ ch.connect = 0 /\ ch.recv = 0 /\ ch.send = 0 /\ ch.uaf = FALSE
      /\ ch.sslDepth = 0 /\ ch.handler = NULL
      /\ ch.view = [h \in Handlers |-> "none"]
  BY DEF InitChannel
<1>3. caller \in [Callers -> CallerType] /\ \A t \in Callers : caller[t].pc = "idle"
  BY DEF CallerType
<1>4. Acquired = {}
  BY <1>3 DEF Acquired
<1>5. Cardinality(Acquired) = 0
  BY <1>4, FS_EmptySet
<1>6. Good(ch)
  BY <1>1, <1>2 DEF Good
<1>7. ch.tasks - Len(ch.events) = Cardinality(Acquired)
  <2> DEFINE n == Cardinality(Acquired)
             l == Len(ch.events)
             k == ch.tasks
  <2>1. l = 0 /\ k = 0
    BY <1>2
  <2>2. n = 0
    BY <1>5
  <2> HIDE DEF n, l, k
  <2>3. k - l = n
    BY <2>1, <2>2
  <2> QED BY <2>3 DEF n, l, k
<1>8. Fresh(ch)
  BY <1>2 DEF Fresh
<1>9. OnlyClose(ch, caller)
  BY <1>2, <1>3 DEF OnlyClose
<1> QED BY <1>2, <1>3, <1>6, <1>7, <1>8, <1>9 DEF IInv, InCallOK, NotOpened, WorkerKnown

(* What a step of the queue thread does to the invariant. *)
LEMMA QueueStepIInv ==
  ASSUME IInv, ch.opening = "done", Follows(ch, ch'), UNCHANGED <<worker, caller>>
  PROVE  IInv'
<1>1. Acquired' = Acquired
  BY DEF Acquired
<1>2. ch'.opening = "done" /\ Good(ch')
  BY DEF Follows
<1>3. ch'.tasks - Len(ch'.events) = Cardinality(Acquired')
  BY <1>1 DEF IInv, Follows
<1>4. WorkerKnown(ch', worker')
  BY DEF IInv, Follows, WorkerKnown
<1> QED BY <1>2, <1>3, <1>4 DEF IInv

(* A completion takes its operation off the count of pending ones. *)
LEMMA CompletionFollows ==
  ASSUME NEW c, Good(c)
  PROVE  /\ c.connect > 0 => Follows(c, [c EXCEPT !.connect = @ - 1])
         /\ c.recv > 0 => Follows(c, [c EXCEPT !.recv = @ - 1])
         /\ c.send > 0 => Follows(c, [c EXCEPT !.send = @ - 1])
<1> DEFINE d == [c EXCEPT !.connect = @ - 1]
           e == [c EXCEPT !.recv = @ - 1]
           f == [c EXCEPT !.send = @ - 1]
<1>1. ASSUME c.connect > 0 PROVE Follows(c, d)
  <2>1. c.connect - 1 \in Nat /\ ~c.notified
    BY <1>1, GoodTypes DEF Good, HasPendingIo
  <2>2. /\ d \in Channel /\ SameCounts(c, d) /\ d.closing = c.closing
        /\ d.notified = c.notified /\ d.dnsRequest = c.dnsRequest
        /\ d.abandoned = c.abandoned /\ d.state = c.state /\ d.timer = c.timer
        /\ d.sslLayer = c.sslLayer
    BY <2>1 DEF Good, Channel, SameCounts
  <2> HIDE DEF d
  <2> QED BY <2>1, <2>2, GoodTypes DEF Follows, Good, NoResult, SameCounts
<1>2. ASSUME c.recv > 0 PROVE Follows(c, e)
  <2>1. c.recv - 1 \in Nat /\ ~c.notified
    BY <1>2, GoodTypes DEF Good, HasPendingIo
  <2>2. /\ e \in Channel /\ SameCounts(c, e) /\ e.closing = c.closing
        /\ e.notified = c.notified /\ e.dnsRequest = c.dnsRequest
        /\ e.abandoned = c.abandoned /\ e.state = c.state /\ e.timer = c.timer
        /\ e.sslLayer = c.sslLayer
    BY <2>1 DEF Good, Channel, SameCounts
  <2> HIDE DEF e
  <2> QED BY <2>1, <2>2, GoodTypes DEF Follows, Good, NoResult, SameCounts
<1>3. ASSUME c.send > 0 PROVE Follows(c, f)
  <2>1. c.send - 1 \in Nat /\ ~c.notified
    BY <1>3, GoodTypes DEF Good, HasPendingIo
  <2>2. /\ f \in Channel /\ SameCounts(c, f) /\ f.closing = c.closing
        /\ f.notified = c.notified /\ f.dnsRequest = c.dnsRequest
        /\ f.abandoned = c.abandoned /\ f.state = c.state /\ f.timer = c.timer
        /\ f.sslLayer = c.sslLayer
    BY <2>1 DEF Good, Channel, SameCounts
  <2> HIDE DEF f
  <2> QED BY <2>1, <2>2, GoodTypes DEF Follows, Good, NoResult, SameCounts
<1> QED BY <1>1, <1>2, <1>3

LEMMA OutcomesInType ==
  ASSUME NEW c, NEW reads
  PROVE  OutcomesIn(c, reads) \subseteq Outcomes
<1> SUFFICES ASSUME NEW o \in OutcomesIn(c, reads) PROVE o \in Outcomes
  OBVIOUS
<1> DEFINE shakes == c.cfg.tls /\ c.sslState = "CONNECTING" /\ ~c.closing
<1>1. o \in [write    : IF shakes /\ c.send < MaxSends THEN 0..1 ELSE {0},
             writeBad : IF shakes THEN SyncBad("send") ELSE {FALSE},
             conn     : IF shakes THEN {"want", "done", "error"} ELSE {"want"},
             spkiOk   : IF shakes /\ c.cfg.spki THEN BOOLEAN ELSE {TRUE},
             data     : IF reads THEN BOOLEAN ELSE {FALSE},
             read     : IF reads THEN {"more", "error", "finished"} ELSE {"more"},
             recvBad  : SyncBad("recv")]
  BY DEF OutcomesIn
<1>2. /\ SyncBad("send") \subseteq BOOLEAN /\ SyncBad("recv") \subseteq BOOLEAN
  BY DEF SyncBad
<1>3. /\ o.write \in 0..1 /\ o.writeBad \in BOOLEAN
      /\ o.conn \in {"want", "done", "error"} /\ o.spkiOk \in BOOLEAN
      /\ o.data \in BOOLEAN /\ o.read \in {"more", "error", "finished"}
      /\ o.recvBad \in BOOLEAN
  <2> HIDE DEF shakes
  <2>1. o.write \in 0..1
    BY <1>1
  <2>2. o.writeBad \in BOOLEAN /\ o.recvBad \in BOOLEAN
    BY <1>1, <1>2
  <2>3. o.conn \in {"want", "done", "error"} /\ o.read \in {"more", "error", "finished"}
    BY <1>1
  <2>4. o.spkiOk \in BOOLEAN /\ o.data \in BOOLEAN
    BY <1>1
  <2> QED BY <2>1, <2>2, <2>3, <2>4
<1>4. o = [write |-> o.write, writeBad |-> o.writeBad, conn |-> o.conn,
           spkiOk |-> o.spkiOk, data |-> o.data, read |-> o.read,
           recvBad |-> o.recvBad]
  <2> HIDE DEF shakes
  <2> QED BY <1>1
<1> QED BY <1>3, <1>4 DEF Outcomes

LEMMA AsyncOutcomes ==
  ASSUME NEW c, NEW reads, NEW o \in OutcomesIn(c, reads), RecvIsAsync
  PROVE  ~o.recvBad
<1>1. o.recvBad \in SyncBad("recv")
  BY DEF OutcomesIn
<1> QED BY <1>1 DEF SyncBad, RecvIsAsync

-----------------------------------------------------------------------------
LEMMA ConnectDoneIInv == IInv /\ ConnectDone => IInv'
<1> SUFFICES ASSUME IInv, ConnectDone PROVE IInv'
  OBVIOUS
<1> DEFINE c == [ch EXCEPT !.connect = @ - 1]
<1>1. Good(ch) /\ ch.connect > 0 /\ ch.opening = "done"
  BY DEF IInv, ConnectDone, NotOpened, Fresh
<1>2. Follows(ch, c) /\ Good(c)
  BY <1>1, CompletionFollows DEF Follows
<1>3. PICK end \in Ends(ch), o \in Outcomes, r \in Reactions :
        /\ ch' = MaybeFinishClose(OnConnectDone(c, end, o, r))
        /\ RecvIsAsync => ~o.recvBad
  BY OutcomesInType, AsyncOutcomes DEF ConnectDone
<1> DEFINE d == OnConnectDone(c, end, o, r)
<1>4. Follows(ch, d) /\ Good(d)
  <2> HIDE DEF c
  <2> QED BY <1>1, <1>2, <1>3, OnConnectDoneFollows, FollowsTrans DEF Follows
<1> HIDE DEF d
<1>5. Follows(ch, MaybeFinishClose(d))
  BY <1>1, <1>4, MaybeFinishCloseFollows, FollowsTrans
<1>6. Follows(ch, ch')
  BY <1>3, <1>5 DEF d
<1> QED BY <1>1, <1>6, QueueStepIInv DEF ConnectDone

LEMMA RecvDoneIInv == IInv /\ RecvDone => IInv'
<1> SUFFICES ASSUME IInv, RecvDone PROVE IInv'
  OBVIOUS
<1> DEFINE c == [ch EXCEPT !.recv = @ - 1]
<1>1. Good(ch) /\ ch.recv > 0 /\ ch.opening = "done"
  BY DEF IInv, RecvDone, NotOpened, Fresh
<1>2. Follows(ch, c) /\ Good(c)
  BY <1>1, CompletionFollows DEF Follows
<1>3. \/ \E o \in Outcomes, r \in Reactions :
           ch' = MaybeFinishClose(TcpRecv(OnRecvDone(c, o, r), o.recvBad))
      \/ ch' = MaybeFinishClose(OnPeerClosed(c))
      \/ ch' = MaybeFinishClose(Fail(c, "recv"))
      \/ ch' = MaybeFinishClose(c)
  BY OutcomesInType DEF RecvDone
<1> HIDE DEF c
<1>4. \E d : Follows(ch, d) /\ Good(d) /\ ch' = MaybeFinishClose(d)
  <2>1. ASSUME NEW o \in Outcomes, NEW r \in Reactions,
               ch' = MaybeFinishClose(TcpRecv(OnRecvDone(c, o, r), o.recvBad))
        PROVE  \E d : Follows(ch, d) /\ Good(d) /\ ch' = MaybeFinishClose(d)
    <3> DEFINE e == OnRecvDone(c, o, r)
    <3>1. Follows(ch, e) /\ Good(e)
      BY <1>1, <1>2, OnRecvDoneFollows, FollowsTrans DEF Follows
    <3> HIDE DEF e
    <3>2. o.recvBad \in BOOLEAN
      BY DEF Outcomes
    <3>3. Follows(e, TcpRecv(e, o.recvBad))
      BY <3>1, <3>2, TcpRecvFollows
    <3>4. Follows(ch, TcpRecv(e, o.recvBad)) /\ Good(TcpRecv(e, o.recvBad))
      BY <1>1, <3>1, <3>3, FollowsTrans DEF Follows
    <3> QED BY <2>1, <3>4 DEF e
  <2>2. Follows(ch, OnPeerClosed(c)) /\ Good(OnPeerClosed(c))
    BY <1>1, <1>2, OnPeerClosedFollows, FollowsTrans DEF Follows
  <2>3. Follows(ch, Fail(c, "recv")) /\ Good(Fail(c, "recv"))
    BY <1>1, <1>2, FailFollows, FollowsTrans DEF Follows, Results
  <2> QED BY <1>2, <1>3, <2>1, <2>2, <2>3
<1>5. Follows(ch, ch')
  BY <1>1, <1>4, MaybeFinishCloseFollows, FollowsTrans
<1> QED BY <1>1, <1>5, QueueStepIInv DEF RecvDone

LEMMA SendDoneIInv == IInv /\ SendDone => IInv'
<1> SUFFICES ASSUME IInv, SendDone PROVE IInv'
  OBVIOUS
<1> DEFINE c == [ch EXCEPT !.send = @ - 1]
<1>1. Good(ch) /\ ch.send > 0 /\ ch.opening = "done"
  BY DEF IInv, SendDone, NotOpened, Fresh
<1>2. Follows(ch, c) /\ Good(c)
  BY <1>1, CompletionFollows DEF Follows
<1>3. \/ \E o \in Outcomes, r \in Reactions : ch' = MaybeFinishClose(OnSendDone(c, o, r))
      \/ ch' = MaybeFinishClose(Fail(c, "send"))
      \/ ch' = MaybeFinishClose(c)
  BY OutcomesInType DEF SendDone
<1> HIDE DEF c
<1>4. \E d : Follows(ch, d) /\ Good(d) /\ ch' = MaybeFinishClose(d)
  <2>1. ASSUME NEW o \in Outcomes, NEW r \in Reactions
        PROVE  Follows(ch, OnSendDone(c, o, r)) /\ Good(OnSendDone(c, o, r))
    BY <1>1, <1>2, OnSendDoneFollows, FollowsTrans DEF Follows
  <2>2. Follows(ch, Fail(c, "send")) /\ Good(Fail(c, "send"))
    BY <1>1, <1>2, FailFollows, FollowsTrans DEF Follows, Results
  <2> QED BY <1>2, <1>3, <2>1, <2>2
<1>5. Follows(ch, ch')
  BY <1>1, <1>4, MaybeFinishCloseFollows, FollowsTrans
<1> QED BY <1>1, <1>5, QueueStepIInv DEF SendDone

-----------------------------------------------------------------------------
(* Taking the first task off the queue. *)
LEMMA TakeTask ==
  ASSUME NEW c, Good(c), c.events # <<>>, ~c.notified
  PROVE  LET d == ReleasePendingTask([c EXCEPT !.events = Tail(@)])
         IN  Follows(c, d) /\ Head(c.events) \in TaskType
<1> DEFINE q == Tail(c.events)
           d == [c EXCEPT !.events = q, !.tasks = c.tasks - 1]
<1>1. /\ q \in Seq(TaskType) /\ Len(q) = Len(c.events) - 1 /\ Len(c.events) > 0
      /\ Head(c.events) \in TaskType
      /\ NoResult(c) => \A i \in DOMAIN q : q[i].op # "resolved"
  BY GoodTypes DEF NoResult
<1>2. c.tasks > 0 /\ c.tasks - 1 \in Nat /\ Len(q) =< c.tasks - 1
  BY <1>1, GoodTypes DEF Good
<1>3. ReleasePendingTask([c EXCEPT !.events = Tail(@)]) = d
  BY <1>2, GoodTypes DEF ReleasePendingTask, Channel
<1> HIDE DEF q
<1>4. /\ d \in Channel /\ d.events = q /\ d.tasks = c.tasks - 1
      /\ d.sslDepth = c.sslDepth /\ d.opening = c.opening
      /\ d.closing = c.closing /\ ~d.notified
      /\ d.dnsRequest = c.dnsRequest /\ d.abandoned = c.abandoned
      /\ d.state = c.state /\ d.timer = c.timer
      /\ d.sslLayer = c.sslLayer /\ d.uaf = c.uaf
  BY <1>1, <1>2 DEF Good, Channel
<1> HIDE DEF d
<1>5. d.tasks - Len(d.events) = c.tasks - Len(c.events)
  <2> DEFINE l == Len(c.events)
             k == c.tasks
  <2>1. l \in Nat /\ k \in Nat
    BY GoodTypes
  <2>2. d.tasks = k - 1 /\ Len(d.events) = l - 1
    BY <1>1, <1>4
  <2> HIDE DEF l, k
  <2>3. (k - 1) - (l - 1) = k - l
    BY <2>1
  <2> QED BY <2>2, <2>3 DEF l, k
<1>6. Good(d)
  BY <1>2, <1>4 DEF Good
<1>7. NoResult(c) => NoResult(d)
  BY <1>1, <1>4 DEF NoResult
<1>8. Follows(c, d)
  BY <1>4, <1>5, <1>6, <1>7 DEF Follows
<1> QED BY <1>1, <1>3, <1>8

LEMMA OnResolveDoneGood ==
  ASSUME NEW c, Good(c), NEW ok, NEW p
  PROVE  LET d == OnResolveDone(c, ok, p)
         IN  /\ Good(d) /\ d.opening = c.opening
             /\ d.tasks - Len(d.events) = c.tasks - Len(c.events)
<1> DEFINE n  == IF c.dns > 0 THEN c.dns - 1 ELSE 0
           c1 == [c EXCEPT !.dns = n, !.dnsRequest = FALSE]
<1>1. n \in Nat /\ (c.dns = 0 => n = 0) /\ (n > 0 => c.dns > 0)
  BY GoodTypes
<1>0. c1 = [c EXCEPT !.dns = IF @ > 0 THEN @ - 1 ELSE 0, !.dnsRequest = FALSE]
  BY DEF Good, Channel
<1>2. \/ OnResolveDone(c, ok, p) = MaybeFinishClose(c1)
      \/ OnResolveDone(c, ok, p) = Fail(c1, "dns")
      \/ ~c1.closing /\ OnResolveDone(c, ok, p) = EnterPinning(c1, p)
  <2>1. OnResolveDone(c, ok, p) =
          CASE c1.closing \/ c1.state # "RESOLVING" -> MaybeFinishClose(c1)
            [] ~c1.closing /\ c1.state = "RESOLVING" /\ ~ok -> Fail(c1, "dns")
            [] OTHER -> EnterPinning(c1, p)
    <3> HIDE DEF c1
    <3> QED BY <1>0 DEF OnResolveDone
  <2> HIDE DEF c1
  <2> QED BY <2>1
<1> HIDE DEF n
<1>3. /\ c1 \in Channel /\ SameCounts(c, c1) /\ SameIo(c, c1) /\ c1.dns = n
      /\ c1.closing = c.closing /\ c1.notified = c.notified /\ ~c1.dnsRequest
      /\ c1.state = c.state /\ c1.timer = c.timer /\ c1.socket = c.socket
      /\ c1.sslLayer = c.sslLayer
  BY <1>1 DEF Good, Channel, SameCounts, SameIo
<1> HIDE DEF c1
<1>4. Good(c1)
  BY <1>1, <1>3, GoodTypes DEF Good, HasPendingIo, SameCounts, SameIo
<1>5. Follows(c1, OnResolveDone(c, ok, p))
  BY <1>2, <1>4, MaybeFinishCloseFollows, FailFollows, EnterPinningFollows DEF Results
<1> QED BY <1>3, <1>5 DEF Follows, SameCounts

LEMMA RunTaskIInv ==
  ASSUME IInv, RunTask, ch.opening = "done"
  PROVE  IInv'
<1> DEFINE task == Head(ch.events)
           c    == ReleasePendingTask([ch EXCEPT !.events = Tail(@)])
<1>1. /\ Good(ch) /\ ch.events # <<>> /\ ~ch.notified /\ ch.opening = "done"
      /\ UNCHANGED <<worker, caller>>
  BY DEF IInv, RunTask, NotOpened
<1>2. Follows(ch, c) /\ Good(c) /\ task \in TaskType
  BY <1>1, TakeTask DEF Follows
<1>3. \/ \E n \in 0..1, bad \in BOOLEAN : ch' = RunSend(c, n, bad)
      \/ ch' = Fail(c, "success")
      \/ ch' = Fail(c, "dns")
      \/ task.op = "adopt" /\ \E r \in Reactions : ch' = RunAdopt(c, task.h, r)
      \/ task.op = "resolved" /\ \E p \in PinningsIn(c) : ch' = OnResolveDone(c, task.ok, p)
  BY DEF RunTask, SyncBad
<1>4. task.op = "adopt" => task.h \in Users
  BY <1>2 DEF TaskType
<1>5. NoResult(ch) => task.op # "resolved"
  BY <1>1, GoodTypes DEF NoResult
<1> HIDE DEF c, task
<1>6. CASE \E n \in 0..1, bad \in BOOLEAN : ch' = RunSend(c, n, bad)
  <2>1. Follows(c, ch')
    BY <1>2, <1>6, RunSendFollows
  <2> QED BY <1>1, <1>2, <2>1, FollowsTrans, QueueStepIInv
<1>7. CASE ch' = Fail(c, "success") \/ ch' = Fail(c, "dns")
  <2>1. Follows(c, ch')
    BY <1>2, <1>7, FailFollows DEF Results
  <2> QED BY <1>1, <1>2, <2>1, FollowsTrans, QueueStepIInv
<1>8. CASE task.op = "adopt" /\ \E r \in Reactions : ch' = RunAdopt(c, task.h, r)
  <2>1. Follows(c, ch')
    BY <1>2, <1>4, <1>8, RunAdoptFollows
  <2> QED BY <1>1, <1>2, <2>1, FollowsTrans, QueueStepIInv
<1>9. CASE task.op = "resolved" /\ \E p \in PinningsIn(c) : ch' = OnResolveDone(c, task.ok, p)
  <2>1. /\ Good(ch') /\ ch'.opening = "done"
        /\ ch'.tasks - Len(ch'.events) = ch.tasks - Len(ch.events)
    BY <1>1, <1>2, <1>9, OnResolveDoneGood DEF Follows
  <2>2. worker' \notin {"queued", "resolving"}
    BY <1>1, <1>5, <1>9 DEF IInv, WorkerKnown
  <2>3. Acquired' = Acquired
    BY <1>1 DEF Acquired
  <2> QED BY <1>1, <2>1, <2>2, <2>3 DEF IInv, WorkerKnown
<1> QED BY <1>3, <1>6, <1>7, <1>8, <1>9

LEMMA ConnectTimeoutIInv ==
  ASSUME IInv, ConnectTimeout, ch.opening = "done"
  PROVE  IInv'
<1> DEFINE c == [ch EXCEPT !.timer = FALSE]
<1>1. Good(ch) /\ ch.opening = "done" /\ ch' = Fail(c, "timeout")
  BY DEF IInv, ConnectTimeout
<1>2. /\ c \in Channel
      /\ SameCounts(ch, c) /\ SameIo(ch, c) /\ c.dns = ch.dns
      /\ c.closing = ch.closing /\ c.notified = ch.notified
      /\ c.dnsRequest = ch.dnsRequest /\ c.abandoned = ch.abandoned
      /\ c.state = ch.state /\ ~c.timer /\ c.socket = ch.socket
      /\ c.sslLayer = ch.sslLayer
  BY <1>1 DEF Good, Channel, SameCounts, SameIo
<1> HIDE DEF c
<1>3. ch.notified => ~c.socket /\ ~c.sslLayer
  BY <1>1, <1>2 DEF Good
<1>4. Follows(ch, c) /\ Good(c)
  BY <1>1, <1>2, <1>3, FollowsByFields DEF Follows
<1>5. Follows(ch, ch')
  BY <1>1, <1>4, FailFollows, FollowsTrans DEF Results
<1> QED BY <1>1, <1>5, QueueStepIInv DEF ConnectTimeout

LEMMA OnEventProcShutdownIInv == IInv /\ OnEventProcShutdown => IInv'
<1> SUFFICES ASSUME IInv, OnEventProcShutdown PROVE IInv'
  OBVIOUS
<1> DEFINE c == [ch EXCEPT !.shutdown = TRUE, !.handler = NULL]
<1>1. /\ Good(ch) /\ ch.opening = "done"
      /\ ch' = IF ch.handler = NULL THEN c ELSE Callback(c, "closed", ch.handler)
  BY DEF IInv, OnEventProcShutdown, Good, NotOpened
<1>2. ch.handler = NULL \/ ch.handler \in Handlers
  BY <1>1 DEF Good, Channel
<1>3. /\ c \in Channel
      /\ SameCounts(ch, c) /\ SameIo(ch, c) /\ c.dns = ch.dns
      /\ c.closing = ch.closing /\ c.notified = ch.notified
      /\ c.dnsRequest = ch.dnsRequest /\ c.abandoned = ch.abandoned
      /\ c.state = ch.state /\ c.timer = ch.timer /\ c.socket = ch.socket
      /\ c.sslLayer = ch.sslLayer
  BY <1>1 DEF Good, Channel, SameCounts, SameIo
<1> HIDE DEF c
<1>4. (ch.closing => ~c.timer) /\ (ch.notified => ~c.socket /\ ~c.sslLayer)
  BY <1>1, <1>3 DEF Good
<1>5. Follows(ch, c) /\ Good(c)
  BY <1>1, <1>3, <1>4, FollowsByFields DEF Follows
<1>6. Follows(ch, ch')
  BY <1>1, <1>2, <1>5, CallbackFollows, FollowsTrans
<1> QED BY <1>1, <1>6, QueueStepIInv DEF OnEventProcShutdown

-----------------------------------------------------------------------------
(* Open, on the caller's thread. *)
LEMMA OpenCreateIInv ==
  ASSUME IInv, NEW cfg \in Configs, OpenCreate(cfg)
  PROVE  IInv'
<1>1. Good(ch) /\ NotOpened(ch, worker, caller) /\ UNCHANGED <<worker, caller>>
  BY DEF IInv, OpenCreate
<1>2. cfg \in ConfigType
  BY ConstantsAssumption
<1>4. /\ ch' \in Channel /\ ch'.opening = "created"
      /\ ch'.tasks = ch.tasks /\ ch'.events = ch.events /\ SameIo(ch, ch')
      /\ ch'.closing = ch.closing /\ ch'.notified = ch.notified
      /\ ch'.uaf = ch.uaf /\ ch'.state = ch.state /\ ch'.sslDepth = ch.sslDepth
      /\ ch'.view = ch.view /\ ch'.handler = ch.handler
  BY <1>1, <1>2 DEF OpenCreate, Good, Channel, SameIo
<1>5. Good(ch')
  BY <1>1, <1>4 DEF Good, NotOpened
<1>6. NotOpened(ch', worker', caller')
  BY <1>1, <1>4 DEF NotOpened, SameIo, Fresh, OnlyClose
<1>7. Acquired' = Acquired
  BY <1>1 DEF Acquired
<1>8. WorkerKnown(ch', worker')
  BY <1>6 DEF NotOpened, WorkerKnown
<1> QED BY <1>1, <1>4, <1>5, <1>6, <1>7, <1>8 DEF IInv

LEMMA OpenArmFields ==
  ASSUME ch \in Channel, NEW h \in Users, NEW armed \in BOOLEAN, OpenArm(h, armed)
  PROVE  /\ ch' \in Channel /\ ch'.opening = "begun" /\ ch'.handler = h
         /\ ch'.tasks = ch.tasks /\ ch'.events = ch.events /\ SameIo(ch, ch')
         /\ ch'.closing = ch.closing /\ ch'.notified = ch.notified
         /\ ch'.uaf = ch.uaf /\ ch'.state = ch.state /\ ch'.sslDepth = ch.sslDepth
         /\ ch'.parked = ch.parked /\ ch'.shutdown = ch.shutdown
         /\ ch'.view[h] = "opening"
         /\ \A g \in Handlers : g # h => ch'.view[g] = ch.view[g]
<1> DEFINE v == [ch.view EXCEPT ![h] = "opening"]
<1>1. h \in Handlers
  BY DEF Handlers
<1>2. /\ v \in [Handlers -> Views] /\ v[h] = "opening"
      /\ \A g \in Handlers : g # h => v[g] = ch.view[g]
  BY <1>1 DEF Channel, Views
<1>3. ch' = [ch EXCEPT !.opening = "begun", !.handler = h, !.timer = armed, !.view = v]
  BY DEF OpenArm
<1> HIDE DEF v
<1>4. /\ ch' \in Channel /\ ch'.opening = "begun" /\ ch'.handler = h
      /\ ch'.tasks = ch.tasks /\ ch'.events = ch.events /\ SameIo(ch, ch')
      /\ ch'.closing = ch.closing /\ ch'.notified = ch.notified
      /\ ch'.uaf = ch.uaf /\ ch'.state = ch.state /\ ch'.sslDepth = ch.sslDepth
      /\ ch'.parked = ch.parked /\ ch'.shutdown = ch.shutdown /\ ch'.view = v
  BY <1>1, <1>2, <1>3 DEF Channel, SameIo
<1> QED BY <1>2, <1>4

LEMMA OpenArmIInv ==
  ASSUME IInv, ~ch.closing, NEW h \in Users, NEW armed \in BOOLEAN, OpenArm(h, armed)
  PROVE  IInv'
<1>1. Good(ch) /\ NotOpened(ch, worker, caller) /\ UNCHANGED <<worker, caller>>
  BY DEF IInv, OpenArm
<1>2. /\ ch' \in Channel /\ ch'.opening = "begun" /\ ch'.handler = h
      /\ ch'.tasks = ch.tasks /\ ch'.events = ch.events /\ SameIo(ch, ch')
      /\ ch'.closing = ch.closing /\ ch'.notified = ch.notified
      /\ ch'.uaf = ch.uaf /\ ch'.state = ch.state /\ ch'.sslDepth = ch.sslDepth
      /\ ch'.view[h] = "opening"
      /\ \A g \in Handlers : g # h => ch'.view[g] = ch.view[g]
  BY <1>1, OpenArmFields DEF Good
<1>3. Good(ch')
  BY <1>1, <1>2 DEF Good, NotOpened
<1>4. Fresh(ch')
  BY <1>1, <1>2 DEF NotOpened, Fresh, SameIo
<1>5. OnlyClose(ch', caller')
  BY <1>1, <1>2 DEF NotOpened, OnlyClose
<1>6. NotOpened(ch', worker', caller')
  BY <1>1, <1>2, <1>4, <1>5 DEF NotOpened
<1>7. Acquired' = Acquired
  BY <1>1 DEF Acquired
<1>8. WorkerKnown(ch', worker')
  BY <1>6 DEF NotOpened, WorkerKnown
<1> QED BY <1>1, <1>2, <1>3, <1>6, <1>7, <1>8 DEF IInv

(* A token taken and its task posted, whatever the task is. *)
LEMMA PostKeeps ==
  ASSUME NEW c, Good(c), ~c.notified, NEW task \in TaskType
  PROVE  LET d == PostTask(AcquirePendingTask(c), task)
         IN  /\ Good(d) /\ d.opening = c.opening
             /\ d.tasks - Len(d.events) = c.tasks - Len(c.events)
<1> DEFINE q == Append(c.events, task)
           d == [c EXCEPT !.tasks = c.tasks + 1, !.events = q]
<1>1. q \in Seq(TaskType) /\ Len(q) = Len(c.events) + 1
  BY GoodTypes
<1>2. c.tasks + 1 \in Nat
  BY GoodTypes
<1>3. PostTask(AcquirePendingTask(c), task) = d
  BY GoodTypes DEF PostTask, AcquirePendingTask, Channel
<1> HIDE DEF q
<1>4. /\ d \in Channel /\ d.events = q /\ d.tasks = c.tasks + 1
      /\ d.opening = c.opening /\ d.closing = c.closing /\ ~d.notified
      /\ d.dnsRequest = c.dnsRequest /\ d.state = c.state /\ d.timer = c.timer
      /\ d.uaf = c.uaf
  BY <1>1, <1>2 DEF Good, Channel
<1> HIDE DEF d
<1>5. Len(d.events) =< d.tasks /\ d.tasks - Len(d.events) = c.tasks - Len(c.events)
  BY <1>1, <1>4, GoodTypes DEF Good
<1>6. Good(d)
  BY <1>4, <1>5 DEF Good
<1> QED BY <1>3, <1>4, <1>5, <1>6

LEMMA OpenFinishIInv == IInv /\ OpenFinish => IInv'
<1> SUFFICES ASSUME IInv, OpenFinish PROVE IInv'
  OBVIOUS
<1> DEFINE c == SetState([ch EXCEPT !.opening = "done"], "RESOLVING")
           d == [c EXCEPT !.dnsRequest = TRUE, !.abandoned = FALSE, !.dns = @ + 1]
<1>1. /\ Good(ch) /\ NotOpened(ch, worker, caller) /\ UNCHANGED caller
      /\ ~ch.closing /\ ~ch.notified
  BY DEF IInv, OpenFinish, NotOpened, Good
<1>2. /\ c \in Channel /\ c.opening = "done" /\ c.tasks = ch.tasks
      /\ c.events = ch.events /\ ~c.closing /\ ~c.notified /\ c.uaf = ch.uaf
  BY <1>1 DEF Good, Channel, SetState, States
<1>3. \/ /\ \E task \in TaskType : ch' = PostTask(AcquirePendingTask(c), task)
         /\ worker' = worker
      \/ ch' = d /\ worker' = "queued"
  <2>1. ~ch.closing /\ ch.opening = "begun"
    BY <1>1 DEF OpenFinish
  <2>2. [op |-> "resolved", ok |-> TRUE] \in TaskType /\ [op |-> "noDns"] \in TaskType
    BY DEF TaskType
  <2>3. \/ /\ \/ ch' = PostTask(AcquirePendingTask(c), [op |-> "resolved", ok |-> TRUE])
              \/ ch' = PostTask(AcquirePendingTask(c), [op |-> "noDns"])
           /\ worker' = worker
        \/ ch' = [c EXCEPT !.dnsRequest = TRUE, !.abandoned = FALSE, !.dns = @ + 1] /\ worker' = "queued"
    BY <1>2, <2>1 DEF OpenFinish
  <2> QED BY <2>2, <2>3
<1> HIDE DEF c
<1>4. Good(c)
  BY <1>1, <1>2 DEF Good
<1>5. Acquired' = Acquired
  BY <1>1 DEF Acquired
<1>6. CASE \E task \in TaskType : ch' = PostTask(AcquirePendingTask(c), task) /\ worker' = worker
  <2>1. /\ Good(ch') /\ ch'.opening = "done"
        /\ ch'.tasks - Len(ch'.events) = ch.tasks - Len(ch.events)
    BY <1>2, <1>4, <1>6, PostKeeps
  <2>2. worker' = "none"
    BY <1>1, <1>6 DEF NotOpened
  <2> QED BY <1>1, <1>5, <2>1, <2>2 DEF IInv, WorkerKnown
<1>7. CASE ch' = d /\ worker' = "queued"
  <2>1. c.dns + 1 \in Nat
    BY <1>4, GoodTypes
  <2>2. /\ d \in Channel /\ d.opening = "done" /\ d.tasks = ch.tasks
        /\ d.events = ch.events /\ ~d.closing /\ ~d.notified /\ d.dnsRequest
        /\ d.uaf = ch.uaf
    BY <1>2, <2>1 DEF Channel
  <2> HIDE DEF d
  <2>3. Good(d)
    BY <1>1, <2>2 DEF Good
  <2>4. NoResult(d)
    BY <1>1, <2>2 DEF NoResult, NotOpened, OnlyClose
  <2> QED BY <1>1, <1>5, <1>7, <2>2, <2>3, <2>4 DEF IInv, WorkerKnown
<1> QED BY <1>3, <1>6, <1>7

-----------------------------------------------------------------------------
(* The DNS worker and the caller threads. *)
LEMMA WorkerIInv == IInv /\ (WorkerStart \/ WorkerDone) => IInv'
<1> SUFFICES ASSUME IInv, WorkerStart \/ WorkerDone PROVE IInv'
  OBVIOUS
<1>1. /\ Good(ch) /\ worker \in {"queued", "resolving"} /\ UNCHANGED caller
      /\ ch.opening = "done"
  BY DEF IInv, WorkerStart, WorkerDone, NotOpened
<1>2. Acquired' = Acquired
  BY <1>1 DEF Acquired
<1>3. CASE WorkerStart
  BY <1>1, <1>2, <1>3 DEF IInv, WorkerStart, WorkerKnown
<1>4. CASE WorkerDone
  <2>1. worker' = "done"
    BY <1>4 DEF WorkerDone
  <2>2. CASE UNCHANGED ch
    BY <1>1, <1>2, <2>1, <2>2 DEF IInv, WorkerKnown
  <2>3. CASE /\ ~ch.notified
             /\ \E task \in TaskType : ch' = PostTask(AcquirePendingTask(ch), task)
    <3>1. /\ Good(ch') /\ ch'.opening = "done"
          /\ ch'.tasks - Len(ch'.events) = ch.tasks - Len(ch.events)
      BY <1>1, <2>3, PostKeeps
    <3> QED BY <1>1, <1>2, <2>1, <3>1 DEF IInv, WorkerKnown
  <2> QED BY <1>4, <2>2, <2>3 DEF WorkerDone, TaskType
<1> QED BY <1>3, <1>4

LEMMA CallBeginIInv ==
  ASSUME IInv, NEW t \in Callers,
         NEW op \in {"send", "close", "adopt"}, NEW h \in Users \cup {NULL},
         CallBegin(t, op, h)
  PROVE  IInv'
<1>1. /\ ch' = ch /\ worker' = worker /\ caller[t].pc = "idle"
      /\ caller' = [caller EXCEPT ![t] = [pc |-> "checked", op |-> op, h |-> h,
                                          calls |-> @.calls + 1]]
      /\ (op = "adopt") = (h # NULL)
  BY DEF CallBegin
<1>2. caller \in [Callers -> CallerType] /\ caller[t].calls + 1 \in Nat
  BY DEF IInv, CallerType
<1>3. caller' \in [Callers -> CallerType]
  BY <1>1, <1>2 DEF CallerType
<1>4. InCallOK(caller')
  BY <1>1, <1>2 DEF IInv, InCallOK
<1>5. Acquired' = Acquired
  BY <1>1, <1>2 DEF Acquired
<1>6. ASSUME ch.opening # "done" PROVE NotOpened(ch', worker', caller')
  <2>1. NotOpened(ch, worker, caller) /\ ch.state # "READY"
    BY <1>6 DEF IInv, NotOpened, Fresh
  <2>2. op = "close"
    BY <2>1 DEF CallBegin, IsParkedAndUsable
  <2>3. OnlyClose(ch', caller')
    BY <1>1, <1>2, <2>1, <2>2 DEF NotOpened, OnlyClose
  <2> QED BY <1>1, <2>1, <2>3 DEF NotOpened
<1> QED BY <1>1, <1>3, <1>4, <1>5, <1>6 DEF IInv

LEMMA CallAcquireIInv ==
  ASSUME IInv, NEW t \in Callers, CallAcquire(t)
  PROVE  IInv'
<1>1. /\ Good(ch) /\ worker' = worker /\ caller[t].pc = "checked"
      /\ caller \in [Callers -> CallerType]
  BY DEF IInv, CallAcquire
<1>2. /\ caller[t].op # "none" /\ (caller[t].op = "adopt" => caller[t].h \in Users)
  BY <1>1 DEF IInv, InCallOK
<1>3. CASE ch.notified
  <2>1. ch' = ch /\ caller' = [caller EXCEPT ![t].pc = "idle"]
    BY <1>3 DEF CallAcquire
  <2>2. caller' \in [Callers -> CallerType] /\ InCallOK(caller')
    BY <1>1, <2>1 DEF IInv, InCallOK, CallerType
  <2>3. Acquired' = Acquired
    BY <1>1, <2>1 DEF Acquired, CallerType
  <2>4. ~(ch.opening # "done")
    BY <1>3 DEF IInv, NotOpened, Good
  <2> QED BY <1>1, <2>1, <2>2, <2>3, <2>4 DEF IInv
<1>4. CASE ~ch.notified
  <2>1. caller' = [caller EXCEPT ![t].pc = "acquired"]
    BY <1>4 DEF CallAcquire
  <2>2. caller' \in [Callers -> CallerType] /\ InCallOK(caller')
    BY <1>1, <1>2, <2>1 DEF IInv, InCallOK, CallerType
  <2>3. Acquired' = Acquired \cup {t} /\ t \notin Acquired
    BY <1>1, <2>1 DEF Acquired, CallerType
  <2>4. Cardinality(Acquired') = Cardinality(Acquired) + 1
    BY <2>3, AcquiredFinite, FS_AddElement
  <2>5. /\ ch' \in Channel /\ ch'.tasks = ch.tasks + 1 /\ ch'.events = ch.events
        /\ ch'.opening = ch.opening /\ ch'.closing = ch.closing /\ ~ch'.notified
        /\ ch'.dnsRequest = ch.dnsRequest /\ ch'.abandoned = ch.abandoned
        /\ ch'.state = ch.state /\ ch'.timer = ch.timer /\ ch'.uaf = ch.uaf
    <3> DEFINE d == AcquirePendingTask(ch)
    <3>1. ch.tasks + 1 \in Nat
      BY <1>1, GoodTypes
    <3>2. /\ d \in Channel /\ d.tasks = ch.tasks + 1 /\ d.events = ch.events
          /\ d.opening = ch.opening /\ d.closing = ch.closing /\ ~d.notified
          /\ d.dnsRequest = ch.dnsRequest /\ d.abandoned = ch.abandoned
          /\ d.state = ch.state /\ d.timer = ch.timer /\ d.uaf = ch.uaf
      BY <1>1, <1>4, <3>1 DEF AcquirePendingTask, Good, Channel
    <3>3. CASE caller[t].op # "adopt"
      <4>1. ch' = d
        BY <1>4, <3>3 DEF CallAcquire
      <4> QED BY <3>2, <4>1
    <3>4. CASE caller[t].op = "adopt"
      <4> DEFINE v == [d.view EXCEPT ![caller[t].h] = "asked"]
                 e == [d EXCEPT !.view = v]
      <4>1. ch' = e
        BY <1>4, <3>4 DEF CallAcquire
      <4>2. v \in [Handlers -> Views]
        BY <1>2, <3>2, <3>4 DEF Channel, Handlers, Views
      <4> HIDE DEF d, v
      <4>3. /\ e \in Channel /\ e.tasks = d.tasks /\ e.events = d.events
            /\ e.opening = d.opening /\ e.closing = d.closing
            /\ e.notified = d.notified /\ e.dnsRequest = d.dnsRequest
            /\ e.abandoned = d.abandoned /\ e.state = d.state /\ e.timer = d.timer
            /\ e.uaf = d.uaf
        BY <3>2, <4>2 DEF Channel
      <4> HIDE DEF e
      <4> QED BY <3>2, <4>1, <4>3
    <3> QED BY <3>3, <3>4
  <2>6. Good(ch')
    BY <1>1, <2>5, GoodTypes DEF Good
  <2>7. ch'.tasks - Len(ch'.events) = Cardinality(Acquired')
    BY <1>1, <2>4, <2>5, GoodTypes, AcquiredFinite DEF IInv
  <2>8. WorkerKnown(ch', worker')
    BY <1>1, <2>5 DEF IInv, WorkerKnown, NoResult
  <2>9. ASSUME ch.opening # "done" PROVE NotOpened(ch', worker', caller')
    <3>1. NotOpened(ch, worker, caller) /\ caller[t].op = "close"
      BY <1>1, <2>9 DEF IInv, NotOpened, OnlyClose
    <3>2. ch' = AcquirePendingTask(ch) /\ ch.tasks + 1 \in Nat
      BY <1>1, <1>4, <3>1, GoodTypes DEF CallAcquire
    <3>3. /\ SameIo(ch, ch') /\ ch'.sslDepth = ch.sslDepth /\ ch'.view = ch.view
          /\ ch'.handler = ch.handler
      BY <1>1, <3>2 DEF AcquirePendingTask, Good, Channel, SameIo
    <3>4. Fresh(ch')
      BY <2>5, <3>1, <3>3 DEF NotOpened, Fresh, SameIo
    <3>5. OnlyClose(ch', caller')
      BY <1>1, <2>1, <2>5, <3>1 DEF NotOpened, OnlyClose, CallerType
    <3> QED BY <1>1, <2>5, <3>1, <3>4, <3>5 DEF NotOpened
  <2> QED BY <1>1, <2>2, <2>5, <2>6, <2>7, <2>8, <2>9 DEF IInv
<1> QED BY <1>3, <1>4

LEMMA AppendTask ==
  ASSUME NEW s \in Seq(TaskType), NEW x \in TaskType, x.op # "resolved"
  PROVE  /\ Append(s, x) \in Seq(TaskType) /\ Len(Append(s, x)) = Len(s) + 1
         /\ (\A i \in DOMAIN s : s[i].op # "resolved")
              => \A i \in DOMAIN Append(s, x) : Append(s, x)[i].op # "resolved"
OBVIOUS

LEMMA CallPostIInv ==
  ASSUME IInv, NEW t \in Callers, CallPost(t)
  PROVE  IInv'
<1> DEFINE task == IF caller[t].op = "adopt"
                   THEN [op |-> "adopt", h |-> caller[t].h]
                   ELSE [op |-> caller[t].op]
           q == Append(ch.events, task)
<1>1. /\ Good(ch) /\ worker' = worker /\ caller[t].pc = "acquired"
      /\ caller \in [Callers -> CallerType]
      /\ ch' = PostTask(ch, task)
      /\ caller' = [caller EXCEPT ![t].pc = "idle"]
  BY DEF IInv, CallPost
<1>2. /\ caller[t].op \in {"send", "close", "adopt"}
      /\ caller[t].op = "adopt" => caller[t].h \in Users
  BY <1>1 DEF IInv, InCallOK, CallerType
<1>3. task \in TaskType /\ task.op # "resolved"
  BY <1>2 DEF TaskType
<1> HIDE DEF task
<1>4. /\ q \in Seq(TaskType) /\ Len(q) = Len(ch.events) + 1
      /\ NoResult(ch) => \A i \in DOMAIN q : q[i].op # "resolved"
  BY <1>1, <1>3, GoodTypes, AppendTask DEF NoResult
<1>5. ch' = [ch EXCEPT !.events = q]
  BY <1>1 DEF PostTask
<1> HIDE DEF q
<1>6. /\ ch' \in Channel /\ ch'.tasks = ch.tasks /\ ch'.events = q
      /\ ch'.opening = ch.opening /\ ch'.closing = ch.closing
      /\ ch'.notified = ch.notified /\ SameIo(ch, ch') /\ ch'.dns = ch.dns
      /\ ch'.dnsRequest = ch.dnsRequest /\ ch'.abandoned = ch.abandoned
      /\ ch'.state = ch.state /\ ch'.timer = ch.timer
      /\ ch'.socket = ch.socket /\ ch'.sslLayer = ch.sslLayer /\ ch'.uaf = ch.uaf
  <2>1. ch \in Channel
    BY <1>1 DEF Good
  <2> QED BY <1>4, <1>5, <2>1, SMTT(40) DEF Channel, SameIo
<1>7. caller' \in [Callers -> CallerType] /\ InCallOK(caller')
  BY <1>1 DEF IInv, InCallOK, CallerType
<1>8. Acquired' = Acquired \ {t} /\ t \in Acquired
  BY <1>1 DEF Acquired, CallerType
<1>9. Cardinality(Acquired') = Cardinality(Acquired) - 1
  BY <1>8, AcquiredFinite, FS_RemoveElement
<1>10. Cardinality(Acquired') \in Nat
  <2>1. IsFiniteSet(Acquired')
    BY <1>8, AcquiredFinite, FS_RemoveElement
  <2> QED BY <2>1, FS_CardinalityType
<1>11. ch'.tasks - Len(ch'.events) = Cardinality(Acquired') /\ Len(ch'.events) =< ch'.tasks
  <2> DEFINE n == Cardinality(Acquired)
             m == Cardinality(Acquired')
             l == Len(ch.events)
             k == ch.tasks
  <2>1. k \in Nat /\ l \in Nat /\ n \in Nat /\ m \in Nat
    BY <1>1, <1>10, GoodTypes, AcquiredFinite
  <2>2. k - l = n /\ m = n - 1
    BY <1>9 DEF IInv
  <2>3. ch'.tasks = k /\ Len(ch'.events) = l + 1
    BY <1>4, <1>6
  <2> HIDE DEF n, m, l, k
  <2>4. k - (l + 1) = m /\ l + 1 =< k
    BY <2>1, <2>2
  <2> QED BY <2>3, <2>4 DEF m
<1>12. Good(ch')
  BY <1>1, <1>6, <1>11 DEF Good, HasPendingIo, SameIo
<1>13. WorkerKnown(ch', worker')
  BY <1>1, <1>4, <1>6 DEF IInv, WorkerKnown, NoResult
<1>14. ASSUME ch.opening # "done" PROVE NotOpened(ch', worker', caller')
  <2>1. NotOpened(ch, worker, caller) /\ caller[t].op = "close"
    BY <1>1, <1>14 DEF IInv, NotOpened, OnlyClose
  <2>2. /\ ch'.sslDepth = ch.sslDepth /\ ch'.view = ch.view
        /\ ch'.handler = ch.handler
    BY <1>1, <1>5 DEF Good, Channel
  <2>3. Fresh(ch')
    BY <1>6, <2>1, <2>2 DEF NotOpened, Fresh, SameIo
  <2>4. task.op = "close"
    BY <2>1 DEF task
  <2>5. \A i \in DOMAIN q : q[i].op = "close"
    <3>1. \A i \in DOMAIN ch.events : ch.events[i].op = "close"
      BY <2>1 DEF NotOpened, OnlyClose
    <3> QED BY <1>1, <1>3, <2>4, <3>1, GoodTypes DEF q
  <2>6. OnlyClose(ch', caller')
    BY <1>1, <1>6, <2>1, <2>5 DEF NotOpened, OnlyClose, CallerType
  <2> QED BY <1>1, <1>6, <2>1, <2>3, <2>6 DEF NotOpened
<1> QED BY <1>1, <1>6, <1>7, <1>11, <1>12, <1>13, <1>14 DEF IInv

-----------------------------------------------------------------------------
(* A close that overtakes Open, and what can still happen after it. *)
LEMMA TailOps ==
  ASSUME NEW q \in Seq(TaskType), q # <<>>, NEW S, \A i \in DOMAIN q : q[i].op \in S
  PROVE  /\ Tail(q) \in Seq(TaskType) /\ Head(q).op \in S
         /\ \A i \in DOMAIN Tail(q) : Tail(q)[i].op \in S
OBVIOUS

LEMMA AppendOps ==
  ASSUME NEW q \in Seq(TaskType), NEW x \in TaskType, NEW S, x.op \in S,
         \A i \in DOMAIN q : q[i].op \in S
  PROVE  /\ Append(q, x) \in Seq(TaskType)
         /\ \A i \in DOMAIN Append(q, x) : Append(q, x)[i].op \in S
OBVIOUS

LEMMA FreshMaybeFinishClose ==
  ASSUME NEW c \in Channel, c.closing, Fresh(c)
  PROVE  LET d == MaybeFinishClose(c)
         IN  d \in Channel /\ d.closing /\ Fresh(d) /\ d.events = c.events
<1> DEFINE d == Cleanup([SetState(c, "CLOSED") EXCEPT !.notified = TRUE, !.timer = FALSE])
<1>1. /\ d \in Channel /\ d.closing /\ d.state = "CLOSED" /\ d.events = c.events
      /\ SameIo(c, d) /\ d.sslDepth = c.sslDepth /\ d.uaf = c.uaf
      /\ d.view = c.view /\ d.handler = c.handler /\ d.opening = c.opening
  BY DEF Channel, Cleanup, SetState, States, SameIo
<1>2. MaybeFinishClose(c) = d \/ MaybeFinishClose(c) = c
  BY DEF MaybeFinishClose
<1> HIDE DEF d
<1>3. Fresh(d)
  BY <1>1 DEF Fresh, SameIo
<1> QED BY <1>1, <1>2, <1>3

LEMMA FreshFail ==
  ASSUME NEW c \in Channel, Fresh(c), NEW res \in Results
  PROVE  LET d == Fail(c, res)
         IN  d \in Channel /\ d.closing /\ Fresh(d) /\ d.events = c.events
<1>1. CASE c.closing
  BY <1>1, FreshMaybeFinishClose DEF Fail
<1>2. CASE ~c.closing
  <2> DEFINE t == [[SetState(c, "CLOSING") EXCEPT !.closing = TRUE, !.result = res]
                     EXCEPT !.timer = FALSE]
             e == [t EXCEPT !.abandoned = TRUE, !.dnsRequest = FALSE, !.dns = 0]
  <2>1. Fail(c, res) = MaybeFinishClose(t) \/ Fail(c, res) = MaybeFinishClose(e)
    BY <1>2 DEF Fail, CancelIo, AbandonDns
  <2>2. /\ t \in Channel /\ t.closing /\ t.state = "CLOSING" /\ t.events = c.events
        /\ SameIo(c, t) /\ t.sslDepth = c.sslDepth /\ t.uaf = c.uaf
        /\ t.view = c.view /\ t.handler = c.handler /\ t.opening = c.opening
    BY DEF Channel, SetState, States, SameIo
  <2> HIDE DEF t
  <2>3. /\ e \in Channel /\ e.closing /\ e.state = "CLOSING" /\ e.events = c.events
        /\ SameIo(c, e) /\ e.sslDepth = c.sslDepth /\ e.uaf = c.uaf
        /\ e.view = c.view /\ e.handler = c.handler /\ e.opening = c.opening
    BY <2>2 DEF Channel, SameIo
  <2> HIDE DEF e
  <2>4. Fresh(t) /\ Fresh(e)
    BY <2>2, <2>3 DEF Fresh, SameIo
  <2> QED BY <2>1, <2>2, <2>3, <2>4, FreshMaybeFinishClose
<1> QED BY <1>1, <1>2

LEMMA FreshTake ==
  ASSUME NEW c \in Channel, Fresh(c), c.events # <<>>
  PROVE  LET d == ReleasePendingTask([c EXCEPT !.events = Tail(@)])
         IN  d \in Channel /\ Fresh(d) /\ d.closing = c.closing /\ d.events = Tail(c.events)
<1> DEFINE n == IF c.tasks > 0 THEN c.tasks - 1 ELSE 0
           q == Tail(c.events)
           d == [c EXCEPT !.events = q, !.tasks = n]
<1>1. c.tasks \in Nat /\ c.events \in Seq(TaskType)
  BY DEF Channel
<1>2. n \in Nat /\ q \in Seq(TaskType)
  BY <1>1
<1>3. ReleasePendingTask([c EXCEPT !.events = Tail(@)]) = d
  BY DEF ReleasePendingTask, Channel
<1> HIDE DEF n, q
<1>4. /\ d \in Channel /\ d.closing = c.closing /\ d.state = c.state /\ d.events = q
      /\ SameIo(c, d) /\ d.sslDepth = c.sslDepth /\ d.uaf = c.uaf
      /\ d.view = c.view /\ d.handler = c.handler /\ d.opening = c.opening
  BY <1>2 DEF Channel, SameIo
<1> HIDE DEF d
<1>5. Fresh(d)
  BY <1>4 DEF Fresh, SameIo
<1> QED BY <1>3, <1>4, <1>5 DEF q

LEMMA FreshTimeout ==
  ASSUME ch \in Channel, Fresh(ch), ConnectTimeout
  PROVE  ch' \in Channel /\ ch'.closing /\ Fresh(ch') /\ ch'.events = ch.events
<1> DEFINE c == [ch EXCEPT !.timer = FALSE]
<1>1. /\ c \in Channel /\ c.closing = ch.closing /\ c.state = ch.state
      /\ c.events = ch.events
      /\ SameIo(ch, c) /\ c.sslDepth = ch.sslDepth /\ c.uaf = ch.uaf
      /\ c.view = ch.view /\ c.handler = ch.handler /\ c.opening = ch.opening
  BY DEF Channel, SameIo
<1>2. ch' = Fail(c, "timeout")
  BY DEF ConnectTimeout
<1> HIDE DEF c
<1>3. Fresh(c)
  BY <1>1 DEF Fresh, SameIo
<1> QED BY <1>1, <1>2, <1>3, FreshFail DEF Results

LEMMA OvertakenByTask ==
  ASSUME IInv, RunTask, ch.opening # "done"
  PROVE  DInv'
<1> DEFINE c == ReleasePendingTask([ch EXCEPT !.events = Tail(@)])
<1>1. /\ ch \in Channel /\ ch.events \in Seq(TaskType) /\ ch.events # <<>>
      /\ NotOpened(ch, worker, caller) /\ UNCHANGED <<worker, caller>>
  BY DEF IInv, Good, Channel, RunTask
<1>2. \A i \in DOMAIN ch.events : ch.events[i].op \in {"close"}
  BY <1>1 DEF NotOpened, OnlyClose
<1>3. /\ Head(ch.events).op = "close"
      /\ \A i \in DOMAIN Tail(ch.events) : Tail(ch.events)[i].op \in {"close"}
  BY <1>1, <1>2, TailOps
<1>4. c \in Channel /\ Fresh(c) /\ c.events = Tail(ch.events)
  BY <1>1, FreshTake DEF NotOpened
<1>5. ch' = Fail(c, "success")
  BY <1>3 DEF RunTask
<1> HIDE DEF c
<1>6. ch' \in Channel /\ ch'.closing /\ Fresh(ch') /\ ch'.events = c.events
  BY <1>4, <1>5, FreshFail DEF Results
<1> QED BY <1>1, <1>3, <1>4, <1>6 DEF DInv, Overtaken, IInv, NotOpened, OnlyClose, Fresh

LEMMA OvertakenByTimer ==
  ASSUME IInv, ConnectTimeout, ch.opening # "done"
  PROVE  DInv'
<1>1. /\ ch \in Channel /\ NotOpened(ch, worker, caller) /\ UNCHANGED <<worker, caller>>
  BY DEF IInv, Good, ConnectTimeout
<1>2. ch' \in Channel /\ ch'.closing /\ Fresh(ch') /\ ch'.events = ch.events
  BY <1>1, FreshTimeout DEF NotOpened
<1> QED BY <1>1, <1>2 DEF DInv, Overtaken, IInv, NotOpened, OnlyClose, Fresh

LEMMA NextIInv == IInv /\ [Next]_vars => IInv' \/ DInv'
<1> SUFFICES ASSUME IInv, [Next]_vars PROVE IInv' \/ DInv'
  OBVIOUS
<1>1. CASE Open
  <2>1. CASE \E h \in Users, armed \in BOOLEAN : OpenArm(h, armed)
    <3>1. ~ch.closing
      BY <2>1 DEF OpenArm, IInv, NotOpened
    <3> QED BY <2>1, <3>1, OpenArmIInv
  <2> QED BY <1>1, <2>1, OpenCreateIInv, OpenFinishIInv DEF Open
<1>2. CASE WorkerStart \/ WorkerDone
  BY <1>2, WorkerIInv
<1>3. CASE \E t \in Callers : Call(t)
  BY <1>3, CallBeginIInv, CallAcquireIInv, CallPostIInv DEF Call
<1>4. CASE Queue
  BY <1>4, RunTaskIInv, OvertakenByTask, ConnectDoneIInv, RecvDoneIInv, SendDoneIInv,
     ConnectTimeoutIInv, OvertakenByTimer, OnEventProcShutdownIInv DEF Queue
<1>5. CASE UNCHANGED vars
  <2>1. Acquired' = Acquired
    BY <1>5 DEF vars, Acquired
  <2> QED BY <1>5, <2>1 DEF vars, IInv, NotOpened, WorkerKnown, InCallOK
<1> QED BY <1>1, <1>2, <1>3, <1>4, <1>5 DEF Next

-----------------------------------------------------------------------------
LEMMA DInvRunTask == DInv /\ RunTask => DInv'
<1> SUFFICES ASSUME DInv, RunTask PROVE DInv'
  OBVIOUS
<1> DEFINE c == ReleasePendingTask([ch EXCEPT !.events = Tail(@)])
           task == Head(ch.events)
           S == {"close", "noDns", "resolved"}
<1>1. /\ ch \in Channel /\ ch.events \in Seq(TaskType) /\ ch.events # <<>>
      /\ ch.closing /\ Fresh(ch) /\ UNCHANGED <<worker, caller>>
      /\ \A i \in DOMAIN ch.events : ch.events[i].op \in S
  BY DEF DInv, Overtaken, Channel, RunTask
<1>3. /\ task.op \in S
      /\ \A i \in DOMAIN Tail(ch.events) : Tail(ch.events)[i].op \in S
  <2> HIDE DEF S
  <2> QED BY <1>1, TailOps
<1>4. c \in Channel /\ Fresh(c) /\ c.events = Tail(ch.events) /\ c.closing
  BY <1>1, FreshTake
<1>5. \/ ch' = Fail(c, "success")
      \/ ch' = Fail(c, "dns")
      \/ \E p : ch' = OnResolveDone(c, task.ok, p)
  BY <1>3 DEF RunTask
<1> HIDE DEF c, task
<1>6. /\ ch' \in Channel /\ ch'.closing /\ Fresh(ch') /\ ch'.events = c.events
  <2>1. CASE ch' = Fail(c, "success") \/ ch' = Fail(c, "dns")
    BY <1>4, <2>1, FreshFail DEF Results
  <2>2. CASE \E p : ch' = OnResolveDone(c, task.ok, p)
    <3> DEFINE n == IF c.dns > 0 THEN c.dns - 1 ELSE 0
               d == [c EXCEPT !.dns = n, !.dnsRequest = FALSE]
    <3>1. c.dns \in Nat
      BY <1>4 DEF Channel
    <3>2. n \in Nat
      BY <3>1
    <3>3. ch' = MaybeFinishClose(d)
      BY <1>4, <2>2 DEF OnResolveDone, Channel
    <3> HIDE DEF n
    <3>4. /\ d \in Channel /\ d.closing /\ d.state = c.state /\ d.events = c.events
          /\ SameIo(c, d) /\ d.sslDepth = c.sslDepth /\ d.uaf = c.uaf
          /\ d.view = c.view /\ d.handler = c.handler /\ d.opening = c.opening
      BY <1>4, <3>2 DEF Channel, SameIo
    <3> HIDE DEF d
    <3>5. Fresh(d)
      BY <1>4, <3>4 DEF Fresh, SameIo
    <3> QED BY <3>3, <3>4, <3>5, FreshMaybeFinishClose
  <2> QED BY <1>5, <2>1, <2>2
<1> QED BY <1>1, <1>3, <1>4, <1>6 DEF DInv, Overtaken, Fresh

LEMMA DInvShutdown == DInv /\ OnEventProcShutdown => DInv'
<1> SUFFICES ASSUME DInv, OnEventProcShutdown PROVE DInv'
  OBVIOUS
<1> DEFINE c == [ch EXCEPT !.shutdown = TRUE, !.handler = NULL]
<1>1. /\ ch \in Channel /\ ch.closing /\ Fresh(ch) /\ UNCHANGED <<worker, caller>>
      /\ ch' = IF ch.handler = NULL THEN c ELSE Callback(c, "closed", ch.handler)
      /\ ch.view \in [Handlers -> Views] /\ ch.handler \in Handlers \cup {NULL}
  BY DEF DInv, Overtaken, OnEventProcShutdown, Channel
<1>2. /\ c \in Channel /\ c.closing /\ c.state = ch.state /\ c.events = ch.events
      /\ SameIo(ch, c) /\ c.sslDepth = ch.sslDepth /\ c.uaf = ch.uaf
      /\ c.view = ch.view /\ c.handler = NULL /\ c.opening = ch.opening
  BY <1>1 DEF Channel, SameIo
<1> HIDE DEF c
<1>3. /\ ch' \in Channel /\ ch'.closing /\ ch'.state = ch.state /\ ch'.events = ch.events
      /\ SameIo(ch, ch') /\ ch'.sslDepth = ch.sslDepth /\ ch'.uaf = ch.uaf
      /\ ch'.handler = NULL /\ ch'.opening = ch.opening
      /\ \A g \in Handlers : ch'.view[g] \in {ch.view[g], "closed"}
  <2>1. CASE ch.handler = NULL
    BY <1>1, <1>2, <2>1
  <2>2. CASE ch.handler # NULL
    <3> DEFINE h == ch.handler
               v == [ch.view EXCEPT ![h] = AfterCallback("closed", ch.view[h])]
    <3>1. h \in Handlers /\ ch.view[h] = "opening"
      BY <1>1, <2>2 DEF Fresh
    <3>2. AfterCallback("closed", ch.view[h]) = "closed"
      BY <3>1 DEF AfterCallback
    <3>3. v \in [Handlers -> Views] /\ \A g \in Handlers : v[g] \in {ch.view[g], "closed"}
      BY <1>1, <3>1, <3>2 DEF Views
    <3>4. ch' = [c EXCEPT !.view = v]
      BY <1>1, <1>2, <2>2 DEF Callback
    <3> HIDE DEF v, h
    <3> QED BY <1>2, <3>3, <3>4 DEF Channel, SameIo
  <2> QED BY <2>1, <2>2
<1>4. Fresh(ch')
  BY <1>1, <1>3 DEF Fresh, SameIo
<1> QED BY <1>1, <1>3, <1>4 DEF DInv, Overtaken, Fresh

LEMMA DInvPosts ==
  ASSUME DInv, NEW c \in Channel, c.closing, Fresh(c), c.events = ch.events,
         NEW task \in TaskType, task.op \in {"close", "noDns", "resolved"},
         \/ ch' = PostTask(c, task)
         \/ ch' = PostTask(AcquirePendingTask(c), task)
  PROVE  /\ ch' \in Channel /\ ch'.closing /\ Fresh(ch')
         /\ \A i \in DOMAIN ch'.events : ch'.events[i].op \in {"close", "noDns", "resolved"}
<1> DEFINE q == Append(ch.events, task)
           S == {"close", "noDns", "resolved"}
<1>1. ch.events \in Seq(TaskType) /\ \A i \in DOMAIN ch.events : ch.events[i].op \in S
  BY DEF DInv, Channel
<1>2. q \in Seq(TaskType) /\ \A i \in DOMAIN q : q[i].op \in S
  <2> HIDE DEF S
  <2>1. task.op \in S
    BY DEF S
  <2> QED BY <1>1, <2>1, AppendOps
<1> HIDE DEF q
<1>3. c.tasks \in Nat /\ c.tasks + 1 \in Nat
  BY DEF Channel
<1>4. ch' = [c EXCEPT !.events = q] \/ ch' = [c EXCEPT !.tasks = c.tasks + 1, !.events = q]
  BY DEF PostTask, AcquirePendingTask, Channel, q
<1>5. /\ ch' \in Channel /\ ch'.closing /\ ch'.state = c.state /\ ch'.events = q
      /\ SameIo(c, ch') /\ ch'.sslDepth = c.sslDepth /\ ch'.uaf = c.uaf
      /\ ch'.view = c.view /\ ch'.handler = c.handler /\ ch'.opening = c.opening
  <2>1. CASE ch' = [c EXCEPT !.events = q]
    BY <1>2, <2>1 DEF Channel, SameIo
  <2>2. CASE ch' = [c EXCEPT !.tasks = c.tasks + 1, !.events = q]
    BY <1>2, <1>3, <2>2 DEF Channel, SameIo
  <2> QED BY <1>4, <2>1, <2>2
<1>6. Fresh(ch')
  BY <1>5 DEF Fresh, SameIo
<1> QED BY <1>2, <1>5, <1>6

LEMMA DInvOpen == DInv /\ Open => DInv'
<1> SUFFICES ASSUME DInv, Open PROVE DInv'
  OBVIOUS
<1>1. /\ ch \in Channel /\ ch.closing /\ Fresh(ch) /\ caller' = caller
  BY DEF DInv, Overtaken, Open, OpenCreate, OpenArm, OpenFinish
<1>2. CASE \E cfg \in Configs : OpenCreate(cfg)
  <2>1. PICK cfg \in Configs : OpenCreate(cfg)
    BY <1>2
  <2>2. cfg \in ConfigType /\ worker' = worker
    BY <2>1, ConstantsAssumption DEF OpenCreate
  <2>3. /\ ch' \in Channel /\ ch'.opening = "created" /\ ch'.events = ch.events
        /\ SameIo(ch, ch') /\ ch'.closing = ch.closing
        /\ ch'.uaf = ch.uaf /\ ch'.state = ch.state /\ ch'.sslDepth = ch.sslDepth
        /\ ch'.view = ch.view /\ ch'.handler = ch.handler
    BY <1>1, <2>1, <2>2 DEF OpenCreate, Channel, SameIo
  <2>4. Fresh(ch')
    BY <1>1, <2>3 DEF Fresh, SameIo
  <2> QED BY <1>1, <2>2, <2>3, <2>4 DEF DInv, Overtaken
<1>3. CASE \E h \in Users, armed \in BOOLEAN : OpenArm(h, armed)
  <2>1. PICK h \in Users, armed \in BOOLEAN : OpenArm(h, armed)
    BY <1>3
  <2>2. /\ ch' \in Channel /\ ch'.opening = "begun" /\ ch'.handler = h
        /\ ch'.events = ch.events /\ SameIo(ch, ch') /\ ch'.closing = ch.closing
        /\ ch'.uaf = ch.uaf /\ ch'.state = ch.state /\ ch'.sslDepth = ch.sslDepth
        /\ ch'.view[h] = "opening"
        /\ \A g \in Handlers : g # h => ch'.view[g] = ch.view[g]
    BY <1>1, <2>1, OpenArmFields
  <2>3. Fresh(ch')
    BY <1>1, <2>2 DEF Fresh, SameIo
  <2>4. worker' = worker
    BY <2>1 DEF OpenArm
  <2> QED BY <1>1, <2>2, <2>3, <2>4 DEF DInv, Overtaken
<1>4. CASE OpenFinish
  <2>1. PICK s \in {"RESOLVING", ch.state} :
          LET c == SetState([ch EXCEPT !.opening = "overtaken"], s)
          IN  \/ \E task \in {[op |-> "resolved", ok |-> TRUE], [op |-> "noDns"]} :
                   /\ \/ ch' = PostTask(c, task)
                      \/ ch' = PostTask(AcquirePendingTask(c), task)
                   /\ worker' = worker
              \/ \E lost \in BOOLEAN :
                   /\ ch' = [c EXCEPT !.dnsRequest = ~lost, !.abandoned = lost, !.dns = @ + 1]
                   /\ worker' = "queued"
    BY <1>1, <1>4 DEF OpenFinish
  <2> DEFINE c == SetState([ch EXCEPT !.opening = "overtaken"], s)
  <2>2. /\ c \in Channel /\ c.closing /\ c.opening = "overtaken" /\ c.state # "READY"
        /\ c.events = ch.events /\ SameIo(ch, c) /\ c.sslDepth = ch.sslDepth
        /\ c.uaf = ch.uaf /\ c.view = ch.view /\ c.handler = ch.handler
    <3>1. s \in States /\ s # "READY"
      BY <1>1 DEF Channel, States, Fresh
    <3>3. ch \in Channel /\ ch.closing
      BY <1>1
    <3> DEFINE b == [ch EXCEPT !.opening = "overtaken"]
    <3>4. /\ b \in Channel /\ b.opening = "overtaken" /\ b.closing
          /\ b.events = ch.events /\ SameIo(ch, b) /\ b.sslDepth = ch.sslDepth
          /\ b.uaf = ch.uaf /\ b.view = ch.view /\ b.handler = ch.handler
      BY <3>3 DEF Channel, SameIo
    <3>5. c = [b EXCEPT !.state = s]
      BY DEF SetState
    <3> HIDE DEF b, c
    <3>6. c \in Channel
      BY <3>1, <3>4, <3>5 DEF Channel
    <3>7. b \in Channel
      BY <3>4
    <3>8. /\ c.closing = b.closing /\ c.opening = b.opening /\ c.state = s
          /\ c.events = b.events /\ c.sslDepth = b.sslDepth
          /\ c.uaf = b.uaf /\ c.view = b.view /\ c.handler = b.handler
          /\ c.connect = b.connect /\ c.recv = b.recv /\ c.send = b.send
      BY <3>5, <3>7 DEF Channel
    <3> QED BY <3>1, <3>4, <3>6, <3>8 DEF SameIo
  <2>n. c.dns + 1 \in Nat
    <3> HIDE DEF c
    <3> QED BY <2>2 DEF Channel
  <2>3. \/ \E task \in {[op |-> "resolved", ok |-> TRUE], [op |-> "noDns"]} :
             /\ \/ ch' = PostTask(c, task)
                \/ ch' = PostTask(AcquirePendingTask(c), task)
             /\ worker' = worker
        \/ \E lost \in BOOLEAN :
             /\ ch' = [c EXCEPT !.dnsRequest = ~lost, !.abandoned = lost, !.dns = @ + 1]
             /\ worker' = "queued"
    BY <2>1
  <2> HIDE DEF c
  <2>4. Fresh(c)
    BY <1>1, <2>2 DEF Fresh, SameIo
  <2>5. CASE \E task \in {[op |-> "resolved", ok |-> TRUE], [op |-> "noDns"]} :
             /\ \/ ch' = PostTask(c, task)
                \/ ch' = PostTask(AcquirePendingTask(c), task)
             /\ worker' = worker
    <3>1. PICK task \in {[op |-> "resolved", ok |-> TRUE], [op |-> "noDns"]} :
             /\ \/ ch' = PostTask(c, task)
                \/ ch' = PostTask(AcquirePendingTask(c), task)
             /\ worker' = worker
      BY <2>5
    <3>2. task \in TaskType /\ task.op \in {"close", "noDns", "resolved"}
      <4>1. CASE task = [op |-> "resolved", ok |-> TRUE]
        BY <4>1 DEF TaskType
      <4>2. CASE task = [op |-> "noDns"]
        BY <4>2 DEF TaskType
      <4> QED BY <4>1, <4>2
    <3>3. /\ ch' \in Channel /\ ch'.closing /\ Fresh(ch')
          /\ \A i \in DOMAIN ch'.events : ch'.events[i].op \in {"close", "noDns", "resolved"}
      <4>1. c \in Channel /\ c.closing /\ Fresh(c) /\ c.events = ch.events
        BY <2>2, <2>4
      <4> QED BY <3>1, <3>2, <4>1, DInvPosts
    <3> QED BY <1>1, <3>1, <3>3 DEF DInv, Overtaken, Fresh
  <2>6. CASE \E lost \in BOOLEAN :
             /\ ch' = [c EXCEPT !.dnsRequest = ~lost, !.abandoned = lost, !.dns = @ + 1]
             /\ worker' = "queued"
    <3>1. PICK lost \in BOOLEAN :
             /\ ch' = [c EXCEPT !.dnsRequest = ~lost, !.abandoned = lost, !.dns = @ + 1]
             /\ worker' = "queued"
      BY <2>6
    <3> DEFINE gone == ~lost
               n == c.dns + 1
    <3>2. gone \in BOOLEAN /\ n \in Nat /\ ch' = [c EXCEPT !.dnsRequest = gone, !.abandoned = lost, !.dns = n]
      BY <2>n, <3>1
    <3> HIDE DEF gone, n
    <3> DEFINE a == [c EXCEPT !.dnsRequest = gone]
               b == [a EXCEPT !.abandoned = lost]
    <3>a. a \in Channel
      BY <2>2, <3>2 DEF Channel
    <3>c. ch' = [b EXCEPT !.dns = n]
      BY <3>2
    <3>d. b \in Channel
      <4> HIDE DEF a
      <4> QED BY <3>a DEF Channel
    <3>3. /\ ch' \in Channel /\ ch'.closing /\ ch'.state = c.state /\ ch'.events = c.events
          /\ SameIo(c, ch') /\ ch'.sslDepth = c.sslDepth /\ ch'.uaf = c.uaf
          /\ ch'.view = c.view /\ ch'.handler = c.handler /\ ch'.opening = c.opening
      <4>1. c \in Channel /\ c.closing
        BY <2>2
      <4>2. ch' \in Channel
        <5> HIDE DEF b
        <5> QED BY <3>2, <3>c, <3>d DEF Channel
      <4> QED BY <3>2, <4>1, <4>2, SMTT(40) DEF Channel, SameIo
    <3>4. Fresh(ch')
      BY <2>4, <3>3 DEF Fresh, SameIo
    <3> QED BY <1>1, <2>2, <3>1, <3>3, <3>4 DEF DInv, Overtaken, Fresh
  <2> QED BY <2>3, <2>5, <2>6
<1> QED BY <1>2, <1>3, <1>4 DEF Open

LEMMA DInvWorker == DInv /\ (WorkerStart \/ WorkerDone) => DInv'
<1> SUFFICES ASSUME DInv, WorkerStart \/ WorkerDone PROVE DInv'
  OBVIOUS
<1>1. /\ caller' = caller /\ worker' \in {"none", "queued", "resolving", "done"}
      /\ ch \in Channel /\ ch.closing /\ Fresh(ch)
  BY DEF WorkerStart, WorkerDone, DInv, Overtaken
<1>2. CASE ch' = ch
  BY <1>1, <1>2 DEF DInv, Overtaken, Fresh
<1>3. CASE \E ok \in BOOLEAN :
             ch' = PostTask(AcquirePendingTask(ch), [op |-> "resolved", ok |-> ok])
  <2>1. PICK task \in TaskType : /\ task.op = "resolved"
                                 /\ ch' = PostTask(AcquirePendingTask(ch), task)
    BY <1>3 DEF TaskType
  <2>2. /\ ch' \in Channel /\ ch'.closing /\ Fresh(ch')
        /\ \A i \in DOMAIN ch'.events : ch'.events[i].op \in {"close", "noDns", "resolved"}
    BY <1>1, <2>1, DInvPosts
  <2> QED BY <1>1, <2>2 DEF DInv, Overtaken, Fresh
<1> QED BY <1>2, <1>3 DEF WorkerStart, WorkerDone

LEMMA DInvCall == ASSUME DInv, NEW t \in Callers, Call(t) PROVE DInv'
<1>1. /\ ch \in Channel /\ ch.closing /\ Fresh(ch) /\ caller \in [Callers -> CallerType]
      /\ worker' = worker
      /\ \A u \in Callers : caller[u].pc # "idle" => caller[u].op = "close"
  BY DEF DInv, Overtaken, Call, CallBegin, CallAcquire, CallPost
<1>2. CASE \E op \in {"send", "close", "adopt"}, h \in Users \cup {NULL} : CallBegin(t, op, h)
  <2>1. PICK op \in {"send", "close", "adopt"}, h \in Users \cup {NULL} : CallBegin(t, op, h)
    BY <1>2
  <2>2. op = "close" /\ ch' = ch
    BY <1>1, <2>1 DEF CallBegin, IsParkedAndUsable, Fresh
  <2>3. caller[t].calls + 1 \in Nat
    BY <1>1 DEF CallerType
  <2>4. caller' \in [Callers -> CallerType]
    BY <1>1, <2>1, <2>3 DEF CallBegin, CallerType
  <2>5. \A u \in Callers : caller'[u].pc # "idle" => caller'[u].op = "close"
    BY <1>1, <2>1, <2>2 DEF CallBegin
  <2> QED BY <1>1, <2>2, <2>4, <2>5 DEF DInv, Overtaken, Fresh
<1>3. CASE CallAcquire(t)
  <2>1. caller[t].op = "close" /\ caller[t].pc = "checked"
    BY <1>1, <1>3 DEF CallAcquire
  <2>2. caller' = [caller EXCEPT ![t].pc = "idle"] \/ caller' = [caller EXCEPT ![t].pc = "acquired"]
    BY <1>3 DEF CallAcquire
  <2>3. /\ caller' \in [Callers -> CallerType]
        /\ \A u \in Callers : caller'[u].pc # "idle" => caller'[u].op = "close"
    BY <1>1, <2>1, <2>2 DEF CallerType
  <2>4. ch' = ch \/ ch' = AcquirePendingTask(ch)
    BY <1>3, <2>1 DEF CallAcquire
  <2>5. ch.tasks + 1 \in Nat
    BY <1>1 DEF Channel
  <2>6. /\ ch' \in Channel /\ ch'.closing /\ ch'.state = ch.state /\ ch'.events = ch.events
        /\ SameIo(ch, ch') /\ ch'.sslDepth = ch.sslDepth /\ ch'.uaf = ch.uaf
        /\ ch'.view = ch.view /\ ch'.handler = ch.handler /\ ch'.opening = ch.opening
    <3>1. CASE ch' = ch
      BY <1>1, <3>1 DEF SameIo
    <3>2. CASE ch' = AcquirePendingTask(ch)
      BY <1>1, <2>5, <3>2 DEF AcquirePendingTask, Channel, SameIo
    <3> QED BY <2>4, <3>1, <3>2
  <2>7. Fresh(ch')
    BY <1>1, <2>6 DEF Fresh, SameIo
  <2> QED BY <1>1, <2>3, <2>6, <2>7 DEF DInv, Overtaken, Fresh
<1>4. CASE CallPost(t)
  <2>1. caller[t].op = "close" /\ caller' = [caller EXCEPT ![t].pc = "idle"]
    BY <1>1, <1>4 DEF CallPost
  <2>2. /\ caller' \in [Callers -> CallerType]
        /\ \A u \in Callers : caller'[u].pc # "idle" => caller'[u].op = "close"
    BY <1>1, <2>1 DEF CallerType
  <2>3. PICK task \in TaskType : task.op = "close" /\ ch' = PostTask(ch, task)
    BY <1>4, <2>1 DEF CallPost, TaskType
  <2>4. /\ ch' \in Channel /\ ch'.closing /\ Fresh(ch')
        /\ \A i \in DOMAIN ch'.events : ch'.events[i].op \in {"close", "noDns", "resolved"}
    BY <1>1, <2>3, DInvPosts
  <2> QED BY <1>1, <2>2, <2>4 DEF DInv, Overtaken, Fresh
<1> QED BY <1>2, <1>3, <1>4 DEF Call

LEMMA NextDInv == DInv /\ [Next]_vars => DInv'
<1> SUFFICES ASSUME DInv, [Next]_vars PROVE DInv'
  OBVIOUS
<1>1. CASE Open
  BY <1>1, DInvOpen
<1>2. CASE WorkerStart \/ WorkerDone
  BY <1>2, DInvWorker
<1>3. CASE \E t \in Callers : Call(t)
  BY <1>3, DInvCall
<1>4. CASE Queue
  <2>1. ~ConnectDone /\ ~RecvDone /\ ~SendDone
    BY DEF ConnectDone, RecvDone, SendDone, DInv, Fresh
  <2>2. CASE ConnectTimeout
    <3>1. ch' \in Channel /\ ch'.closing /\ Fresh(ch') /\ ch'.events = ch.events
      BY <2>2, FreshTimeout DEF DInv
    <3> QED BY <2>2, <3>1 DEF ConnectTimeout, DInv, Overtaken, Fresh
  <2> QED BY <1>4, <2>1, <2>2, DInvRunTask, DInvShutdown DEF Queue
<1>5. CASE UNCHANGED vars
  BY <1>5 DEF vars, DInv, Overtaken, Fresh
<1> QED BY <1>1, <1>2, <1>3, <1>4, <1>5 DEF Next

LEMMA IInvTypeOK == IInv => TypeOK
BY DEF IInv, Good, TypeOK

LEMMA IInvQuiet == IInv => QuietAfterClosed
<1> SUFFICES ASSUME IInv, ch.notified PROVE QuietAfterClosed
  BY DEF QuietAfterClosed
<1>1. /\ Good(ch) /\ ch.closing /\ ch.tasks = 0 /\ ~HasPendingIo(ch)
      /\ ~ch.socket /\ ~ch.sslLayer /\ ~ch.timer /\ ~ch.dnsRequest
  BY DEF IInv, Good
<1>2. Len(ch.events) = 0 /\ ch.events = <<>>
  BY <1>1, GoodTypes DEF Good
<1>3. Cardinality(Acquired) = 0
  BY <1>1, <1>2 DEF IInv
<1>4. Acquired = {}
  BY <1>3, AcquiredFinite, FS_EmptySet
<1>5. \A t \in Callers : caller[t].pc # "acquired"
  BY <1>4 DEF Acquired
<1>6. worker \in {"queued", "resolving"} => ch.abandoned
  BY <1>1 DEF IInv, WorkerKnown
<1> QED BY <1>1, <1>2, <1>5, <1>6 DEF QuietAfterClosed

(***************************************************************************)
(* The channel, its worker and its callers keep their types: no pending    *)
(* counter goes negative and no handler outside the known ones is called,  *)
(* also when the connect timer or a Close overtakes Open.                  *)
(***************************************************************************)
THEOREM TypeCorrect == Spec => []TypeOK
<1> DEFINE Inv == IInv \/ DInv
<1>1. Init => Inv
  BY InitIInv
<1>2. Inv /\ [Next]_vars => Inv'
  BY NextIInv, NextDInv
<1>3. Inv => TypeOK
  BY IInvTypeOK DEF DInv, TypeOK
<1> HIDE DEF Inv
<1> QED BY <1>1, <1>2, <1>3, PTL DEF Spec

(***************************************************************************)
(* _MaybeFinishClose is safe: when it sets closed_notified_, no task, I/O, *)
(* timer, caller past its token check or DNS worker can reach the channel  *)
(* again, for any number of threads, calls and handlers.  An Open that the *)
(* close overtook is the exception QuietAfterClosed names.                 *)
(***************************************************************************)
THEOREM ClosedIsQuiet == Spec => []QuietAfterClosed
<1> DEFINE Inv == IInv \/ DInv
<1>1. Init => Inv
  BY InitIInv
<1>2. Inv /\ [Next]_vars => Inv'
  BY NextIInv, NextDInv
<1>3. Inv => QuietAfterClosed
  BY IInvQuiet DEF DInv, QuietAfterClosed
<1> HIDE DEF Inv
<1> QED BY <1>1, <1>2, <1>3, PTL DEF Spec

(***************************************************************************)
(* SslReentryGuard suffices: no SSLayer method is entered, or returned     *)
(* into, after _Cleanup has freed the SSLayer, as long as a receive cannot *)
(* fail at once between the end of the connect and the handshake.          *)
(***************************************************************************)
THEOREM SslOutlivesItsCalls ==
  ASSUME RecvIsAsync
  PROVE  Spec => []NoSslUseAfterFree
<1> DEFINE Inv == IInv \/ DInv
<1>1. Init => Inv
  BY InitIInv
<1>2. Inv /\ [Next]_vars => Inv'
  BY NextIInv, NextDInv
<1>3. Inv => NoSslUseAfterFree
  BY DEF IInv, Good, DInv, Fresh, NoSslUseAfterFree
<1> HIDE DEF Inv
<1> QED BY <1>1, <1>2, <1>3, PTL DEF Spec

-----------------------------------------------------------------------------
(***************************************************************************)
(* What the handlers are told.  Early are the states of a channel that has *)
(* not been READY yet; an Attached view is that of the channel's current   *)
(* handler_, a Free one that of a handler with no claim on the channel.    *)
(***************************************************************************)
Early == {"IDLE", "RESOLVING", "PINNING", "CONNECTING", "TLS_HANDSHAKE"}

Attached == {"opening", "using", "watching"}

Free == {"none", "released"}

(* Nobody has had a callback out of turn, only handler_ waits for one, and *)
(* what handler_ has been told agrees with state_ and parked_.             *)
Told(c) ==
  /\ \A h \in Handlers : /\ c.view[h] # "broken"
                         /\ c.view[h] \in Attached => c.handler = h
  /\ c.handler # NULL =>
       /\ c.view[c.handler] \in Attached
       /\ c.state \in Early => c.view[c.handler] = "opening"
       /\ c.state = "READY" =>
            c.view[c.handler] = IF c.parked THEN "watching" ELSE "using"
  /\ c.state \in Early => ~c.parked
  /\ c.shutdown => c.handler = NULL /\ c.notified

(* The Adopt tasks of the queue q, by position. *)
Adopts(q) == {i \in DOMAIN q : q[i].op = "adopt"}

(* What a method does to the conversation when it answers no Adopt. *)
Keeps(c, d) ==
  /\ Told(d)
  /\ \A h \in Handlers : (d.view[h] = "asked") <=> (c.view[h] = "asked")
  /\ \A h \in Users : c.view[h] \in Free => d.view[h] \in Free
  /\ Adopts(d.events) = Adopts(c.events)
  /\ \A i \in Adopts(c.events) : d.events[i] = c.events[i]

(* A method that calls nobody back: it may only close, or get on with Open.*)
Mute(c, d) ==
  /\ d.view = c.view /\ d.handler = c.handler /\ d.parked = c.parked
  /\ d.shutdown = c.shutdown /\ d.events = c.events
  /\ c.notified => d.notified
  /\ c.closing => d.closing
  /\ \/ d.state = c.state
     \/ d.closing /\ d.state \in {"CLOSING", "CLOSED"}
     \/ c.state \in Early /\ d.state \in Early

-----------------------------------------------------------------------------
LEMMA KeepsTrans ==
  ASSUME NEW c, NEW d, NEW e, Keeps(c, d), Keeps(d, e)
  PROVE  Keeps(c, e)
BY DEF Keeps

LEMMA KeepsSelf ==
  ASSUME NEW c, Told(c)
  PROVE  Keeps(c, c)
BY DEF Keeps

LEMMA MuteSelf == ASSUME NEW c PROVE Mute(c, c)
BY DEF Mute

LEMMA MuteTrans ==
  ASSUME NEW c, NEW d, NEW e, Mute(c, d), Mute(d, e)
  PROVE  Mute(c, e)
BY DEF Mute, Early

LEMMA MuteKeeps ==
  ASSUME NEW c, NEW d, Told(c), Mute(c, d)
  PROVE  Keeps(c, d)
<1>1. Told(d)
  BY DEF Told, Mute, Early
<1> QED BY <1>1 DEF Keeps, Mute

-----------------------------------------------------------------------------
(* Closing, socket I/O and the guard of the SSLayer call nobody back. *)
LEMMA MaybeFinishCloseMute ==
  ASSUME NEW c, Good(c)
  PROVE  Mute(c, MaybeFinishClose(c))
<1> DEFINE d == Cleanup([SetState(c, "CLOSED") EXCEPT !.notified = TRUE, !.timer = FALSE])
<1>1. MaybeFinishClose(c) = c \/ (c.closing /\ MaybeFinishClose(c) = d)
  BY DEF MaybeFinishClose
<1>2. ASSUME c.closing PROVE Mute(c, d)
  BY <1>2 DEF Good, Channel, Cleanup, SetState, Mute
<1> HIDE DEF d
<1> QED BY <1>1, <1>2, MuteSelf

LEMMA FailMute ==
  ASSUME NEW c, Good(c), NEW res \in Results
  PROVE  Mute(c, Fail(c, res))
<1>1. CASE c.closing
  BY <1>1, MaybeFinishCloseMute DEF Fail
<1>2. CASE ~c.closing
  <2> DEFINE d == [SetState(c, "CLOSING") EXCEPT !.closing = TRUE, !.result = res]
             t == [d EXCEPT !.timer = FALSE]
             e == AbandonDns(t)
  <2>1. /\ t \in Channel
        /\ t.state = "CLOSING" /\ t.closing /\ ~t.timer /\ ~t.notified
        /\ SameCounts(c, t) /\ Mute(c, t)
    BY <1>2 DEF Good, SetState, States, Channel, SameCounts, Mute
  <2> HIDE DEF t
  <2>2. /\ e \in Channel
        /\ e.state = "CLOSING" /\ e.closing /\ ~e.timer /\ ~e.notified /\ ~e.dnsRequest
        /\ SameCounts(c, e) /\ Mute(t, e)
    <3>1. CASE t.dnsRequest
      BY <2>1, <3>1 DEF AbandonDns, Channel, SameCounts, Mute
    <3>2. CASE ~t.dnsRequest
      BY <2>1, <3>2, MuteSelf DEF AbandonDns
    <3> QED BY <3>1, <3>2
  <2>3. Fail(c, res) = MaybeFinishClose(e)
    BY <1>2 DEF Fail, CancelIo, t
  <2> HIDE DEF e
  <2>4. Good(e)
    BY <1>2, <2>2, GoodTypes DEF Good, SameCounts
  <2>5. Mute(c, e)
    BY <2>1, <2>2, MuteTrans
  <2> QED
    BY <2>3, <2>4, <2>5, MaybeFinishCloseMute, MuteTrans
<1> QED BY <1>1, <1>2

LEMMA OnPeerClosedMute ==
  ASSUME NEW c, Good(c)
  PROVE  Mute(c, OnPeerClosed(c))
BY FailMute DEF OnPeerClosed, Results

LEMMA TcpRecvMute ==
  ASSUME NEW c, Good(c), NEW bad
  PROVE  Mute(c, TcpRecv(c, bad))
<1> DEFINE d == [c EXCEPT !.recv = @ + 1]
<1>1. Mute(c, d)
  BY DEF Good, Channel, Mute
<1>2. TcpRecv(c, bad) \in {c, Fail(c, "recv"), d}
  BY DEF TcpRecv
<1> HIDE DEF d
<1> QED BY <1>1, <1>2, FailMute, MuteSelf DEF Results

LEMMA SendRawMute ==
  ASSUME NEW c, Good(c), NEW n \in Nat, NEW bad
  PROVE  Mute(c, SendRaw(c, n, bad))
<1> DEFINE d == [c EXCEPT !.send = @ + n]
<1>1. Mute(c, d)
  BY DEF Good, Channel, Mute
<1>2. SendRaw(c, n, bad) = c \/ SendRaw(c, n, bad) = d \/ (~c.closing /\ SendRaw(c, n, bad) = Fail(d, "send"))
  BY DEF SendRaw
<1>3. ASSUME ~c.closing PROVE Good(d)
  <2>1. c.send + n \in Nat
    BY GoodTypes
  <2>2. ~c.notified
    BY <1>3, LiveIsNotNotified
  <2>3. /\ d \in Channel /\ SameCounts(c, d) /\ ~d.closing /\ ~d.notified
    BY <1>3, <2>1, <2>2 DEF Good, Channel, SameCounts
  <2> HIDE DEF d
  <2> QED BY <2>3 DEF Good, SameCounts
<1> HIDE DEF d
<1>4. ASSUME ~c.closing PROVE Mute(c, Fail(d, "send"))
  BY <1>1, <1>3, <1>4, FailMute, MuteTrans DEF Results
<1> QED BY <1>1, <1>2, <1>4, MuteSelf

-----------------------------------------------------------------------------
LEMMA GuardEnterMute ==
  ASSUME NEW c, Good(c)
  PROVE  Mute(c, GuardEnter(c))
BY DEF Good, Channel, GuardEnter, Mute

LEMMA GuardExitMute ==
  ASSUME NEW d, Good(d), d.sslDepth > 0, RecvIsAsync => d.sslLayer
  PROVE  Mute(d, GuardExit(d))
<1> DEFINE e == [d EXCEPT !.sslDepth = @ - 1, !.uaf = @ \/ ~d.sslLayer]
<1>1. d.sslDepth - 1 \in Nat
  BY GoodTypes
<1>2. /\ e \in Channel
      /\ e.tasks = d.tasks /\ e.events = d.events
      /\ SameIo(d, e) /\ e.dns = d.dns /\ e.closing = d.closing
      /\ e.notified = d.notified /\ e.abandoned = d.abandoned
      /\ e.dnsRequest = d.dnsRequest /\ e.state = d.state /\ e.timer = d.timer
      /\ e.socket = d.socket /\ e.sslLayer = d.sslLayer
      /\ e.uaf = (d.uaf \/ ~d.sslLayer)
  BY <1>1 DEF Good, Channel, SameIo
<1>3. Mute(d, e)
  BY DEF Good, Channel, Mute
<1>4. GuardExit(d) \in {e, MaybeFinishClose(e)}
  BY DEF GuardExit
<1> HIDE DEF e
<1>5. Good(e)
  BY <1>2 DEF Good, HasPendingIo, SameIo
<1>6. Mute(d, MaybeFinishClose(e))
  BY <1>3, <1>5, MaybeFinishCloseMute, MuteTrans
<1> QED BY <1>3, <1>4, <1>6

(* What the call of an SSLayer method keeps, its guard keeps. *)
LEMMA GuardedKeeps ==
  ASSUME NEW c, Good(c), RecvIsAsync => c.sslLayer,
         NEW d, Follows(GuardEnter(c), d), Keeps(GuardEnter(c), d), Told(c)
  PROVE  Keeps(c, GuardExit(d))
<1> DEFINE b == GuardEnter(c)
<1>1. /\ Good(b) /\ b.sslDepth = c.sslDepth + 1 /\ b.sslLayer = c.sslLayer
  BY GuardEnterGood
<1>2. Keeps(c, b)
  BY GuardEnterMute, MuteKeeps
<1> HIDE DEF b
<1>3. Follows(b, d) /\ Keeps(b, d)
  BY DEF b
<1>4. Good(d) /\ d.sslDepth > 0 /\ (RecvIsAsync => d.sslLayer)
  BY <1>1, <1>3, GoodTypes DEF Follows
<1>5. Keeps(d, GuardExit(d))
  BY <1>3, <1>4, GuardExitMute, MuteKeeps DEF Keeps
<1> QED BY <1>2, <1>3, <1>5, KeepsTrans

-----------------------------------------------------------------------------
(* Callbacks, and what the handler does inside them. *)
LEMMA CallbackFields ==
  ASSUME NEW c, Good(c), NEW kind, NEW h \in Handlers
  PROVE  LET d == Callback(c, kind, h)
         IN  /\ d.view = [c.view EXCEPT ![h] = AfterCallback(kind, c.view[h])]
             /\ d.handler = c.handler /\ d.parked = c.parked
             /\ d.shutdown = c.shutdown /\ d.notified = c.notified
             /\ d.events = c.events /\ d.state = c.state
<1> DEFINE w == [c.view EXCEPT ![h] = AfterCallback(kind, c.view[h])]
           d == [c EXCEPT !.view = w]
<1>1. Callback(c, kind, h) = d
  BY DEF Callback
<1> HIDE DEF w
<1>2. /\ d.view = w
      /\ d.handler = c.handler /\ d.parked = c.parked
      /\ d.shutdown = c.shutdown /\ d.notified = c.notified
      /\ d.events = c.events /\ d.state = c.state
  BY DEF Good, Channel
<1> HIDE DEF d
<1> QED BY <1>1, <1>2 DEF w

LEMMA ParkKeeps ==
  ASSUME NEW c, Good(c), Told(c), NEW w \in Watchers, c.view[w] \in Free
  PROVE  Keeps(c, Park(c, w))
<1> DEFINE v == [h \in Handlers |-> IF h = w THEN "watching"
                                    ELSE IF h = c.handler THEN "released"
                                    ELSE c.view[h]]
           d == [c EXCEPT !.handler = w, !.parked = TRUE, !.view = v]
<1>1. CASE c.state # "READY"
  BY <1>1, KeepsSelf DEF Park
<1>2. CASE c.state = "READY"
  <2>1. Park(c, w) = d
    BY <1>2 DEF Park
  <2>2. ~c.notified /\ ~c.shutdown
    BY <1>2, ReadyIsLive, LiveIsNotNotified DEF Told
  <2>3. w \in Handlers /\ w # NULL /\ w \notin Users
    BY ConstantsAssumption DEF Handlers
  <2> HIDE DEF v
  <2>4. /\ d.view = v /\ d.handler = w /\ d.parked
        /\ d.shutdown = c.shutdown /\ d.events = c.events /\ d.state = c.state
    BY DEF Good, Channel
  <2> HIDE DEF d
  <2>5. v[w] = "watching"
    BY <2>3 DEF v
  <2>6. \A h \in Handlers : h # w => v[h] = IF h = c.handler THEN "released" ELSE c.view[h]
    BY DEF v
  <2>7. ASSUME NEW h \in Handlers, h # w
        PROVE  v[h] \notin Attached /\ v[h] # "broken"
    BY <2>6, <2>7 DEF Told, Attached
  <2>8. Told(d)
    BY <1>2, <2>2, <2>3, <2>4, <2>5, <2>7 DEF Told, Attached, Early
  <2>9. \A h \in Handlers : (d.view[h] = "asked") <=> (c.view[h] = "asked")
    <3> TAKE h \in Handlers
    <3>1. CASE h = w
      BY <3>1, <2>4, <2>5 DEF Free
    <3>2. CASE h # w /\ h = c.handler
      <4>1. c.view[h] \in Attached
        BY <2>3, <3>2, ConstantsAssumption DEF Told
      <4> QED BY <4>1, <3>2, <2>4, <2>6 DEF Attached
    <3>3. CASE h # w /\ h # c.handler
      BY <3>3, <2>4, <2>6
    <3> QED BY <3>1, <3>2, <3>3
  <2>10. \A h \in Users : c.view[h] \in Free => d.view[h] \in Free
    BY <2>3, <2>4, <2>6 DEF Handlers, Free
  <2> QED BY <2>1, <2>4, <2>8, <2>9, <2>10 DEF Keeps
<1> QED BY <1>1, <1>2

LEMMA AppendOther ==
  ASSUME NEW q \in Seq(TaskType), NEW x \in TaskType, x.op # "adopt"
  PROVE  /\ Adopts(Append(q, x)) = Adopts(q)
         /\ \A i \in Adopts(q) : Append(q, x)[i] = q[i]
BY DEF Adopts

LEMMA PostKeepsTalk ==
  ASSUME NEW c, Good(c), Told(c), NEW task \in TaskType, task.op # "adopt"
  PROVE  Keeps(c, PostTask(AcquirePendingTask(c), task))
<1> DEFINE q == Append(c.events, task)
           d == [c EXCEPT !.tasks = c.tasks + 1, !.events = q]
<1>1. PostTask(AcquirePendingTask(c), task) = d
  BY GoodTypes DEF PostTask, AcquirePendingTask, Channel
<1>2. Adopts(q) = Adopts(c.events) /\ \A i \in Adopts(c.events) : q[i] = c.events[i]
  BY GoodTypes, AppendOther
<1> HIDE DEF q
<1>3. /\ d.view = c.view /\ d.handler = c.handler /\ d.parked = c.parked
      /\ d.shutdown = c.shutdown /\ d.notified = c.notified /\ d.state = c.state
      /\ d.events = q
  BY DEF Good, Channel
<1> HIDE DEF d
<1>4. Told(d)
  BY <1>3 DEF Told
<1> QED BY <1>1, <1>2, <1>3, <1>4 DEF Keeps

LEMMA ReactKeeps ==
  ASSUME NEW c, Good(c), Told(c), NEW r \in Reactions,
         r.op = "park" => c.view[r.w] \in Free
  PROVE  Keeps(c, React(c, r))
<1>1. [op |-> "send"] \in TaskType /\ [op |-> "close"] \in TaskType
  BY DEF TaskType
<1>2. CASE r.op = "send" /\ c.state = "READY" /\ ~c.notified
  BY <1>1, <1>2, PostKeepsTalk DEF React
<1>3. CASE r.op = "close" /\ ~c.notified
  BY <1>1, <1>3, PostKeepsTalk DEF React
<1>4. CASE r.op = "park"
  <2>1. r.w \in Watchers
    BY <1>4 DEF Reactions
  <2> QED BY <1>4, <2>1, ParkKeeps DEF React
<1>5. CASE /\ ~(r.op = "send" /\ c.state = "READY" /\ ~c.notified)
           /\ ~(r.op = "close" /\ ~c.notified)
           /\ r.op # "park"
  BY <1>5, KeepsSelf DEF React
<1> QED BY <1>2, <1>3, <1>4, <1>5

LEMMA EnterReadyKeeps ==
  ASSUME NEW c, Good(c), Told(c), ~c.closing, c.state \in Early,
         NEW r \in Reactions, r.op # "park"
  PROVE  Keeps(c, EnterReady(c, r))
<1> DEFINE up == [SetState(c, "READY") EXCEPT !.timer = FALSE]
           told == Callback(up, "ready", up.handler)
<1>1. /\ up \in Channel /\ SameCounts(c, up) /\ ~up.closing /\ ~up.notified
      /\ up.dnsRequest = c.dnsRequest /\ up.abandoned = c.abandoned
      /\ c.sslLayer => up.sslLayer
  BY LiveIsNotNotified DEF Good, Channel, SetState, States, SameCounts
<1>2. /\ up.view = c.view /\ up.handler = c.handler /\ up.parked = c.parked
      /\ up.shutdown = c.shutdown /\ up.events = c.events /\ up.state = "READY"
  BY DEF Good, Channel, SetState
<1>3. EnterReady(c, r) = IF up.handler = NULL THEN up ELSE React(told, r)
  BY DEF EnterReady
<1> HIDE DEF up
<1>4. Follows(c, up) /\ Good(up)
  BY <1>1, FollowsWhileLive DEF Follows
<1>5. CASE up.handler = NULL
  <2>1. Told(up)
    BY <1>1, <1>2, <1>5, LiveIsNotNotified DEF Told, Early
  <2> QED BY <1>2, <1>3, <1>5, <2>1 DEF Keeps
<1>6. CASE up.handler # NULL
  <2> DEFINE h == c.handler
  <2>1. h \in Handlers /\ up.handler = h
    BY <1>2, <1>6 DEF Good, Channel
  <2>2. c.view[h] = "opening" /\ ~c.parked /\ ~c.shutdown
    BY <1>2, <1>6, <2>1 DEF Told
  <2>3. AfterCallback("ready", "opening") = "using"
    BY DEF AfterCallback
  <2>4. /\ told.view = [c.view EXCEPT ![h] = "using"]
        /\ told.handler = h /\ told.parked = c.parked
        /\ told.shutdown = c.shutdown
        /\ told.events = c.events /\ told.state = "READY"
    BY <1>2, <1>4, <2>1, <2>2, <2>3, CallbackFields
  <2>5. Follows(up, told) /\ Good(told)
    BY <1>4, <2>1, CallbackFollows DEF Follows
  <2> HIDE DEF told
  <2>6. c.view \in [Handlers -> Views]
    BY DEF Good, Channel
  <2>7. told.view[h] = "using" /\ \A g \in Handlers : g # h => told.view[g] = c.view[g]
    BY <2>1, <2>4, <2>6
  <2>8. Told(told)
    <3>1. \A g \in Handlers : /\ told.view[g] # "broken"
                              /\ told.view[g] \in Attached => g = h
      BY <2>7 DEF Told, Attached
    <3> QED BY <2>2, <2>4, <2>7, <3>1 DEF Told, Attached, Early
  <2>9. Keeps(c, told)
    <3>1. \A g \in Handlers : (told.view[g] = "asked") <=> (c.view[g] = "asked")
      BY <2>2, <2>7
    <3>2. \A g \in Users : c.view[g] \in Free => told.view[g] \in Free
      BY <2>2, <2>7 DEF Free, Handlers
    <3> QED BY <2>4, <2>8, <3>1, <3>2 DEF Keeps
  <2>10. Keeps(told, React(told, r))
    BY <2>5, <2>8, ReactKeeps
  <2> QED BY <1>3, <1>6, <2>9, <2>10, KeepsTrans DEF told
<1> QED BY <1>5, <1>6

LEMMA OnRecvDataFromSSLKeeps ==
  ASSUME NEW c, Good(c), Told(c), NEW r \in Reactions,
         r.op = "park" => c.view[r.w] \in Free
  PROVE  Keeps(c, OnRecvDataFromSSL(c, r))
<1>1. CASE c.parked
  <2> DEFINE d == [c EXCEPT !.poisoned = TRUE]
  <2>1. Mute(c, d)
    BY DEF Good, Channel, Mute
  <2>2. OnRecvDataFromSSL(c, r) = d
    BY <1>1 DEF OnRecvDataFromSSL
  <2> HIDE DEF d
  <2> QED BY <2>1, <2>2, MuteKeeps
<1>2. CASE ~c.parked /\ (c.handler = NULL \/ c.state # "READY")
  BY <1>2, KeepsSelf DEF OnRecvDataFromSSL
<1>3. CASE ~c.parked /\ c.handler # NULL /\ c.state = "READY"
  <2> DEFINE told == Callback(c, "data", c.handler)
  <2>1. OnRecvDataFromSSL(c, r) = React(told, r)
    BY <1>3 DEF OnRecvDataFromSSL
  <2>2. c.handler \in Handlers /\ c.view[c.handler] = "using"
    BY <1>3 DEF Good, Channel, Told
  <2>3. AfterCallback("data", "using") = "using"
    BY DEF AfterCallback
  <2>4. c.view \in [Handlers -> Views]
    BY DEF Good, Channel
  <2>5. [c.view EXCEPT ![c.handler] = "using"] = c.view
    BY <2>2, <2>4
  <2>6. /\ told.view = c.view /\ told.handler = c.handler /\ told.parked = c.parked
        /\ told.shutdown = c.shutdown /\ told.notified = c.notified
        /\ told.events = c.events /\ told.state = c.state
    BY <2>2, <2>3, <2>5, CallbackFields
  <2>7. Follows(c, told) /\ Good(told)
    BY <2>2, CallbackFollows DEF Follows
  <2> HIDE DEF told
  <2>8. Told(told)
    BY <2>6 DEF Told
  <2>9. Keeps(c, told)
    BY <2>6, <2>8 DEF Keeps
  <2>10. Keeps(told, React(told, r))
    BY <2>6, <2>7, <2>8, ReactKeeps
  <2> QED BY <2>1, <2>9, <2>10, KeepsTrans
<1> QED BY <1>1, <1>2, <1>3

-----------------------------------------------------------------------------
(* TLS: a handler parks only on data, in READY, so never on the handshake. *)
LEMMA OnSSLReadyKeeps ==
  ASSUME NEW c, Good(c), Told(c), NEW o \in Outcomes, NEW r \in Reactions,
         r.op = "park" => c.state \notin Early
  PROVE  /\ Keeps(c, OnSSLReady(c, o, r))
         /\ r.op = "park" => OnSSLReady(c, o, r) = c
<1> DEFINE v == VerifySpkiPin(c, o)
<1>1. Follows(c, v) /\ Good(v)
  BY FailFollows, FollowsSelf DEF VerifySpkiPin, Results, Follows
<1>2. Mute(c, v)
  BY FailMute, MuteSelf DEF VerifySpkiPin, Results
<1>3. \/ OnSSLReady(c, o, r) = c
      \/ c.state = "TLS_HANDSHAKE" /\ OnSSLReady(c, o, r) = v
      \/ c.state = "TLS_HANDSHAKE" /\ ~v.closing /\ OnSSLReady(c, o, r) = EnterReady(v, r)
  BY DEF OnSSLReady
<1> HIDE DEF v
<1>4. Keeps(c, v) /\ Told(v)
  BY <1>2, MuteKeeps DEF Keeps
<1>5. ASSUME c.state = "TLS_HANDSHAKE", ~v.closing
      PROVE  Keeps(c, EnterReady(v, r))
  <2>1. v.state \in Early /\ r.op # "park"
    BY <1>2, <1>5 DEF Mute, Early
  <2>2. Keeps(v, EnterReady(v, r))
    BY <1>1, <1>4, <1>5, <2>1, EnterReadyKeeps
  <2> QED BY <1>4, <2>2, KeepsTrans
<1>6. r.op = "park" => c.state # "TLS_HANDSHAKE"
  BY DEF Early
<1> QED BY <1>3, <1>4, <1>5, <1>6, KeepsSelf

LEMMA ConnectSSLKeeps ==
  ASSUME NEW c, Good(c), Told(c), NEW o \in Outcomes, NEW r \in Reactions,
         r.op = "park" => c.state = "READY"
  PROVE  /\ Keeps(c, ConnectSSL(c, o, r))
         /\ r.op = "park" => ConnectSSL(c, o, r).view = c.view
<1> DEFINE w == SendRaw(c, o.write, o.writeBad)
           d == [w EXCEPT !.sslState = "RW"]
<1>1. /\ o.write \in Nat /\ o.writeBad \in BOOLEAN
      /\ o.conn \in {"want", "done", "error"}
  BY DEF Outcomes
<1>2. Follows(c, w) /\ Good(w) /\ Mute(c, w)
  BY <1>1, SendRawFollows, SendRawMute DEF Follows
<1>3. ConnectSSL(c, o, r) \in {c, w, OnSSLReady(d, o, r), Fail(w, "tls")}
  BY <1>1 DEF ConnectSSL
<1> HIDE DEF w
<1>4. /\ d \in Channel
      /\ SameCounts(w, d) /\ SameIo(w, d) /\ d.dns = w.dns
      /\ d.closing = w.closing /\ d.notified = w.notified
      /\ d.dnsRequest = w.dnsRequest /\ d.abandoned = w.abandoned
      /\ d.state = w.state /\ d.timer = w.timer /\ d.socket = w.socket
      /\ d.sslLayer = w.sslLayer
  BY <1>2 DEF Good, Channel, SameCounts, SameIo
<1>5. Mute(w, d)
  BY <1>2 DEF Good, Channel, Mute
<1> HIDE DEF d
<1>6. (w.closing => ~d.timer) /\ (w.notified => ~d.socket /\ ~d.sslLayer)
  BY <1>2, <1>4 DEF Good
<1>7. Good(d)
  BY <1>2, <1>4, <1>6, FollowsByFields DEF Follows
<1>8. Mute(c, d) /\ Mute(c, Fail(w, "tls"))
  BY <1>2, <1>5, FailMute, MuteTrans DEF Results
<1>9. Keeps(c, w) /\ Keeps(c, d) /\ Keeps(c, Fail(w, "tls")) /\ Told(d)
  BY <1>2, <1>8, MuteKeeps DEF Keeps
<1>10. r.op = "park" => d.state \notin Early
  BY <1>8 DEF Mute, Early
<1>11. /\ Keeps(d, OnSSLReady(d, o, r))
       /\ r.op = "park" => OnSSLReady(d, o, r) = d
  BY <1>7, <1>9, <1>10, OnSSLReadyKeeps
<1>12. Keeps(c, OnSSLReady(d, o, r))
  BY <1>9, <1>11, KeepsTrans
<1>13. w.view = c.view /\ d.view = c.view /\ Fail(w, "tls").view = c.view
  BY <1>2, <1>8 DEF Mute
<1> QED BY <1>3, <1>9, <1>11, <1>12, <1>13, KeepsSelf

LEMMA OnSSLFinishedMute ==
  ASSUME NEW c, Good(c)
  PROVE  Mute(c, OnSSLFinished(c))
<1> DEFINE d == [c EXCEPT !.tlsClean = TRUE]
<1>1. /\ d \in Channel
      /\ SameCounts(c, d) /\ SameIo(c, d) /\ d.dns = c.dns
      /\ d.closing = c.closing /\ d.notified = c.notified
      /\ d.dnsRequest = c.dnsRequest /\ d.abandoned = c.abandoned
      /\ d.state = c.state /\ d.timer = c.timer /\ d.socket = c.socket
      /\ d.sslLayer = c.sslLayer
  BY DEF Good, Channel, SameCounts, SameIo
<1>2. Mute(c, d)
  BY DEF Good, Channel, Mute
<1>3. OnSSLFinished(c) = OnPeerClosed(d)
  BY DEF OnSSLFinished
<1> HIDE DEF d
<1>4. (c.closing => ~d.timer) /\ (c.notified => ~d.socket /\ ~d.sslLayer)
  BY <1>1 DEF Good
<1>5. Good(d)
  BY <1>1, <1>4, FollowsByFields DEF Follows
<1> QED BY <1>2, <1>3, <1>5, OnPeerClosedMute, MuteTrans

LEMMA ReadFromSSLKeeps ==
  ASSUME NEW c, Good(c), Told(c), NEW o \in Outcomes, NEW r \in Reactions,
         r.op = "park" => c.state = "READY" /\ c.view[r.w] \in Free
  PROVE  Keeps(c, ReadFromSSL(c, o, r))
<1> DEFINE conn == ConnectSSL(c, o, r)
           read == IF o.read = "error" THEN Fail(conn, "tls") ELSE conn
           data == IF o.data THEN OnRecvDataFromSSL(read, r) ELSE read
<1>1. /\ Good(conn) /\ Keeps(c, conn) /\ Told(conn)
      /\ r.op = "park" => conn.view = c.view
  BY ConnectSSLFollows, ConnectSSLKeeps DEF Follows, Keeps
<1>2. ReadFromSSL(c, o, r) \in {conn, data, OnSSLFinished(data)}
  BY DEF ReadFromSSL
<1> HIDE DEF conn
<1>3. Good(read)
  BY <1>1, FailFollows DEF Results, Follows
<1>4. Mute(conn, read)
  BY <1>1, FailMute, MuteSelf DEF Results
<1> HIDE DEF read
<1>5. Keeps(c, read) /\ Told(read)
  BY <1>1, <1>4, MuteKeeps, KeepsTrans DEF Keeps
<1>6. r.op = "park" => read.view[r.w] \in Free
  BY <1>1, <1>4 DEF Mute
<1>7. Good(data)
  BY <1>3, OnRecvDataFromSSLFollows DEF Follows
<1>8. Keeps(read, data)
  BY <1>3, <1>5, <1>6, OnRecvDataFromSSLKeeps, KeepsSelf
<1> HIDE DEF data
<1>9. Keeps(c, data) /\ Told(data)
  BY <1>5, <1>8, KeepsTrans DEF Keeps
<1>10. Keeps(c, OnSSLFinished(data))
  BY <1>7, <1>9, OnSSLFinishedMute, MuteKeeps, KeepsTrans
<1> QED BY <1>1, <1>2, <1>9, <1>10

-----------------------------------------------------------------------------
(* Pinning and connecting stay within the Early states, or close. *)
LEMMA EnterPinningMute ==
  ASSUME NEW c, Good(c), ~c.closing, c.state \in Early, NEW p
  PROVE  Mute(c, EnterPinning(c, p))
<1> DEFINE c0 == SetState(c, "PINNING")
           c1 == IF c.cfg.tls THEN SetupTls(c0, p) ELSE c0
           s1 == [c1 EXCEPT !.socket = TRUE]
           c2 == IF p.socketOk THEN DecidePinBeforeConnect(s1, p) ELSE Fail(c1, "socket")
           c3 == PinSocket(c2, p)
<1>1. /\ c0 \in Channel /\ SameCounts(c, c0) /\ ~c0.closing /\ ~c0.notified
      /\ c0.dnsRequest = c.dnsRequest /\ c0.abandoned = c.abandoned
      /\ c.sslLayer => c0.sslLayer
  BY LiveIsNotNotified DEF Good, Channel, SetState, States, SameCounts
<1>2. EnterPinning(c, p) =
        IF c1.closing THEN c1 ELSE IF c2.closing THEN c2
        ELSE IF c3.closing THEN c3 ELSE StartConnect(c3, p)
  BY DEF EnterPinning
<1>m. Mute(c, c0)
  BY DEF Good, Channel, SetState, Mute, Early
<1> HIDE DEF c0
<1>3. Good(c0)
  BY <1>1, FollowsWhileLive DEF Follows
<1>4. Good(c1)
  BY <1>1, <1>3, SetupTlsFollows DEF Follows
<1>5. Mute(c, c1)
  <2> DEFINE d == [c0 EXCEPT !.sslLayer = TRUE]
  <2>1. Mute(c0, d)
    BY <1>3 DEF Good, Channel, Mute
  <2>2. c1 \in {c0, d, Fail(c0, "tls")}
    BY DEF SetupTls
  <2> HIDE DEF d, c1
  <2>3. Mute(c0, Fail(c0, "tls"))
    BY <1>3, FailMute DEF Results
  <2>4. Mute(c0, c1)
    BY <2>1, <2>2, <2>3, MuteSelf
  <2> QED BY <1>m, <2>4, MuteTrans
<1> HIDE DEF c1
<1>6. CASE c1.closing
  BY <1>2, <1>5, <1>6
<1>7. CASE ~c1.closing
  <2>1. Good(s1) /\ ~s1.closing
    BY <1>4, <1>7, UnpinFollows DEF Follows
  <2>2. Mute(c1, s1)
    BY <1>4 DEF Good, Channel, Mute
  <2> HIDE DEF s1
  <2>3. Good(DecidePinBeforeConnect(s1, p)) /\ Good(Fail(c1, "socket"))
    BY <1>4, <2>1, DecidePinFollows, FailFollows DEF Follows, Results
  <2>4. Mute(s1, DecidePinBeforeConnect(s1, p))
    <3> DEFINE d == [s1 EXCEPT !.bound = FALSE, !.pinned = FALSE]
    <3>1. DecidePinBeforeConnect(s1, p) \in {s1, Fail(s1, "route"), d}
      BY DEF DecidePinBeforeConnect
    <3>2. Mute(s1, d)
      BY <2>1 DEF Good, Channel, Mute
    <3> HIDE DEF d
    <3> QED BY <2>1, <3>1, <3>2, FailMute, MuteSelf DEF Results
  <2>5. Mute(c1, Fail(c1, "socket"))
    BY <1>4, FailMute DEF Results
  <2>6. Mute(c1, DecidePinBeforeConnect(s1, p))
    BY <2>2, <2>4, MuteTrans
  <2>7. Mute(c, c2) /\ Good(c2)
    BY <1>5, <2>3, <2>5, <2>6, MuteTrans
  <2> HIDE DEF c2
  <2>8. ~c2.closing => Mute(c, c3) /\ Good(c3)
    <3> SUFFICES ASSUME ~c2.closing PROVE Mute(c, c3) /\ Good(c3)
      OBVIOUS
    <3> DEFINE d == [c2 EXCEPT !.bound = FALSE, !.pinned = FALSE]
               e == [c2 EXCEPT !.pinned = TRUE]
    <3>1. c3 \in {c2, Fail(c2, "pin"), d, e}
      BY DEF PinSocket
    <3>2. Mute(c2, d) /\ Mute(c2, e)
      BY <2>7 DEF Good, Channel, Mute
    <3>3. Good(c3)
      BY <2>7, PinSocketFollows DEF Follows
    <3> HIDE DEF d, e, c3
    <3>4. Mute(c2, c3)
      BY <2>7, <3>1, <3>2, FailMute, MuteSelf DEF Results
    <3> QED BY <2>7, <3>3, <3>4, MuteTrans
  <2> HIDE DEF c3
  <2>9. ~c2.closing /\ ~c3.closing => Mute(c, StartConnect(c3, p))
    <3> SUFFICES ASSUME ~c2.closing, ~c3.closing PROVE Mute(c, StartConnect(c3, p))
      OBVIOUS
    <3> DEFINE go == SetState(c3, "CONNECTING")
               d  == [go EXCEPT !.connect = @ + 1]
    <3>1. /\ go \in Channel /\ SameCounts(c3, go) /\ ~go.closing /\ ~go.notified
      BY <2>8, LiveIsNotNotified DEF Good, Channel, SetState, States, SameCounts
    <3>2. c3.state \in Early
      BY <2>8 DEF Mute
    <3>3. Mute(c3, go) /\ Mute(c3, d)
      BY <2>8, <3>2 DEF Good, Channel, SetState, Mute, Early
    <3>4. StartConnect(c3, p) \in {d, Fail(go, "connect")}
      BY DEF StartConnect
    <3> HIDE DEF go, d
    <3>5. Good(go)
      BY <2>8, <3>1 DEF Good, SameCounts
    <3>6. Mute(c3, Fail(go, "connect"))
      BY <3>3, <3>5, FailMute, MuteTrans DEF Results
    <3>7. Mute(c3, StartConnect(c3, p))
      BY <3>3, <3>4, <3>6
    <3> QED BY <2>8, <3>7, MuteTrans
  <2> QED BY <1>2, <1>7, <2>7, <2>8, <2>9
<1> QED BY <1>6, <1>7

LEMMA OnResolveDoneMute ==
  ASSUME NEW c, Good(c), NEW ok, NEW p
  PROVE  Mute(c, OnResolveDone(c, ok, p))
<1> DEFINE n  == IF c.dns > 0 THEN c.dns - 1 ELSE 0
           c1 == [c EXCEPT !.dns = n, !.dnsRequest = FALSE]
<1>1. n \in Nat /\ (c.dns = 0 => n = 0) /\ (n > 0 => c.dns > 0)
  BY GoodTypes
<1>0. c1 = [c EXCEPT !.dns = IF @ > 0 THEN @ - 1 ELSE 0, !.dnsRequest = FALSE]
  BY DEF Good, Channel
<1>2. \/ OnResolveDone(c, ok, p) = MaybeFinishClose(c1)
      \/ OnResolveDone(c, ok, p) = Fail(c1, "dns")
      \/ ~c1.closing /\ c1.state = "RESOLVING" /\ OnResolveDone(c, ok, p) = EnterPinning(c1, p)
  <2>1. OnResolveDone(c, ok, p) =
          CASE c1.closing \/ c1.state # "RESOLVING" -> MaybeFinishClose(c1)
            [] ~c1.closing /\ c1.state = "RESOLVING" /\ ~ok -> Fail(c1, "dns")
            [] OTHER -> EnterPinning(c1, p)
    <3> HIDE DEF c1
    <3> QED BY <1>0 DEF OnResolveDone
  <2> HIDE DEF c1
  <2> QED BY <2>1
<1> HIDE DEF n
<1>3. /\ c1 \in Channel /\ SameCounts(c, c1) /\ SameIo(c, c1) /\ c1.dns = n
      /\ c1.closing = c.closing /\ c1.notified = c.notified /\ ~c1.dnsRequest
      /\ c1.state = c.state /\ c1.timer = c.timer /\ c1.socket = c.socket
      /\ c1.sslLayer = c.sslLayer
  BY <1>1 DEF Good, Channel, SameCounts, SameIo
<1>4. Mute(c, c1)
  BY DEF Good, Channel, Mute
<1> HIDE DEF c1
<1>5. Good(c1)
  BY <1>1, <1>3, GoodTypes DEF Good, HasPendingIo, SameCounts, SameIo
<1>6. Mute(c1, MaybeFinishClose(c1)) /\ Mute(c1, Fail(c1, "dns"))
  BY <1>5, MaybeFinishCloseMute, FailMute DEF Results
<1>7. ~c1.closing /\ c1.state = "RESOLVING" => Mute(c1, EnterPinning(c1, p))
  BY <1>5, EnterPinningMute DEF Early
<1>8. Mute(c1, OnResolveDone(c, ok, p))
  BY <1>2, <1>6, <1>7
<1> QED BY <1>4, <1>8, MuteTrans

LEMMA RunSendKeeps ==
  ASSUME NEW c, Good(c), Told(c), NEW n \in Nat, NEW bad \in BOOLEAN
  PROVE  Keeps(c, RunSend(c, n, bad))
<1> DEFINE g == GuardEnter(c)
<1>1. ASSUME c.sslLayer
      PROVE  Keeps(c, GuardExit(WriteToSSL(GuardEnter(c), n, bad)))
  <2>1. Good(g) /\ Told(g)
    BY <1>1, GuardEnterGood, GuardEnterMute, MuteKeeps DEF Keeps
  <2>2. Follows(g, WriteToSSL(g, n, bad)) /\ Keeps(g, WriteToSSL(g, n, bad))
    BY <2>1, SendRawFollows, SendRawMute, MuteKeeps DEF WriteToSSL
  <2> QED BY <1>1, <2>2, GuardedKeeps
<1>2. Keeps(c, SendRaw(c, n, bad)) /\ Keeps(c, MaybeFinishClose(c))
  BY SendRawMute, MaybeFinishCloseMute, MuteKeeps
<1> QED BY <1>1, <1>2 DEF RunSend

LEMMA OnConnectDoneKeeps ==
  ASSUME NEW c, Good(c), Told(c), NEW end, NEW o \in Outcomes,
         NEW r \in Reactions, r.op # "park", RecvIsAsync => ~o.recvBad
  PROVE  Keeps(c, OnConnectDone(c, end, o, r))
<1> DEFINE shake == SetState(c, "TLS_HANDSHAKE")
           reading == TcpRecv(shake, o.recvBad)
           g == GuardEnter(reading)
           up == EnterReady(c, r)
<1>1. o.recvBad \in BOOLEAN
  BY DEF Outcomes
<1>2. Keeps(c, Fail(c, "connect")) /\ Keeps(c, c)
  BY FailMute, MuteKeeps, KeepsSelf DEF Results
<1>3. ASSUME ~c.closing, c.sslLayer, c.state = "CONNECTING"
      PROVE  Keeps(c, GuardExit(ConnectSSL(g, o, r)))
  <2>1. /\ shake \in Channel /\ SameCounts(c, shake) /\ ~shake.closing
        /\ ~shake.notified /\ shake.dnsRequest = c.dnsRequest
        /\ shake.abandoned = c.abandoned /\ shake.sslLayer = c.sslLayer
    BY <1>3, LiveIsNotNotified DEF Good, Channel, SetState, States, SameCounts
  <2>m. Mute(c, shake)
    BY <1>3 DEF Good, Channel, SetState, Mute, Early
  <2> HIDE DEF shake
  <2>2. Good(shake)
    BY <1>3, <2>1, FollowsWhileLive DEF Follows
  <2>3. Good(reading) /\ Mute(shake, reading)
    BY <1>1, <2>2, TcpRecvFollows, TcpRecvMute DEF Follows
  <2>7. RecvIsAsync => reading.sslLayer
    <3>1. shake.sslLayer
      BY <1>3, <2>1
    <3>2. shake \in Channel
      BY <2>1
    <3> QED BY <3>1, <3>2 DEF TcpRecv, Channel
  <2> HIDE DEF reading
  <2>4. Keeps(c, reading) /\ Told(reading)
    BY <2>m, <2>3, MuteTrans, MuteKeeps DEF Keeps
  <2>5. Good(g) /\ Told(g)
    BY <2>3, <2>4, <2>7, GuardEnterGood, GuardEnterMute, MuteKeeps DEF Keeps
  <2>6. Follows(g, ConnectSSL(g, o, r)) /\ Keeps(g, ConnectSSL(g, o, r))
    BY <2>5, ConnectSSLFollows, ConnectSSLKeeps
  <2>8. Keeps(reading, GuardExit(ConnectSSL(g, o, r)))
    BY <2>3, <2>4, <2>6, <2>7, GuardedKeeps
  <2> QED BY <2>4, <2>8, KeepsTrans
<1>4. ASSUME ~c.closing, c.state = "CONNECTING"
      PROVE  Keeps(c, TcpRecv(up, o.recvBad))
  <2>1. Good(up)
    BY <1>4, EnterReadyFollows DEF Follows
  <2>2. Keeps(c, up) /\ Told(up)
    BY <1>4, EnterReadyKeeps DEF Keeps, Early
  <2> HIDE DEF up
  <2> QED BY <1>1, <2>1, <2>2, TcpRecvMute, MuteKeeps, KeepsTrans
<1>5. \/ OnConnectDone(c, end, o, r) \in {c, Fail(c, "connect")}
      \/ /\ ~c.closing /\ c.state = "CONNECTING" /\ c.sslLayer
         /\ OnConnectDone(c, end, o, r) = GuardExit(ConnectSSL(g, o, r))
      \/ /\ ~c.closing /\ c.state = "CONNECTING"
         /\ OnConnectDone(c, end, o, r) = TcpRecv(up, o.recvBad)
  BY DEF OnConnectDone
<1> QED BY <1>2, <1>3, <1>4, <1>5

LEMMA OnRecvDoneKeeps ==
  ASSUME NEW c, Good(c), Told(c), NEW o \in Outcomes, NEW r \in Reactions,
         r.op = "park" => c.state = "READY" /\ c.view[r.w] \in Free
  PROVE  Keeps(c, OnRecvDone(c, o, r))
<1> DEFINE g == GuardEnter(c)
<1>1. ASSUME c.sslLayer
      PROVE  Keeps(c, GuardExit(ReadFromSSL(GuardEnter(c), o, r)))
  <2>1. Good(g) /\ Told(g)
    BY <1>1, GuardEnterGood, GuardEnterMute, MuteKeeps DEF Keeps
  <2>2. g.state = c.state /\ g.view = c.view
    BY DEF GuardEnter, Good, Channel
  <2> HIDE DEF g
  <2>3. Follows(g, ReadFromSSL(g, o, r)) /\ Keeps(g, ReadFromSSL(g, o, r))
    BY <2>1, <2>2, ReadFromSSLFollows, ReadFromSSLKeeps
  <2> QED BY <1>1, <2>3, GuardedKeeps DEF g
<1> QED BY <1>1, OnRecvDataFromSSLKeeps DEF OnRecvDone

LEMMA OnSendDoneKeeps ==
  ASSUME NEW c, Good(c), Told(c), NEW o \in Outcomes, NEW r \in Reactions,
         r.op # "park"
  PROVE  Keeps(c, OnSendDone(c, o, r))
<1> DEFINE g == GuardEnter(c)
<1>1. ASSUME c.sslLayer
      PROVE  Keeps(c, GuardExit(ConnectSSL(GuardEnter(c), o, r)))
  <2>1. Good(g) /\ Told(g)
    BY <1>1, GuardEnterGood, GuardEnterMute, MuteKeeps DEF Keeps
  <2>2. Follows(g, ConnectSSL(g, o, r)) /\ Keeps(g, ConnectSSL(g, o, r))
    BY <2>1, ConnectSSLFollows, ConnectSSLKeeps
  <2> QED BY <1>1, <2>2, GuardedKeeps
<1> QED BY <1>1, KeepsSelf DEF OnSendDone

-----------------------------------------------------------------------------
(* What RunAdopt does: h is answered, everybody else is as before. *)
Answers(c, d, h) ==
  /\ Told(d)
  /\ d.view[h] # "asked"
  /\ \A g \in Handlers : g # h => ((d.view[g] = "asked") <=> (c.view[g] = "asked"))
  /\ \A g \in Users : c.view[g] \in Free => d.view[g] \in Free
  /\ Adopts(d.events) = Adopts(c.events)
  /\ \A i \in Adopts(c.events) : d.events[i] = c.events[i]

LEMMA AnswersKeeps ==
  ASSUME NEW c, NEW d, NEW e, NEW h \in Handlers, Answers(c, d, h), Keeps(d, e)
  PROVE  Answers(c, e, h)
BY DEF Answers, Keeps

LEMMA HandOverAnswers ==
  ASSUME NEW c, Good(c), Told(c), NEW h \in Users, c.view[h] = "asked",
         c.state = "READY", c.parked, NEW r \in Reactions, r.op # "park"
  PROVE  Answers(c, HandOver(c, h, r), h)
<1> DEFINE freed == IF c.handler = NULL THEN c ELSE Callback(c, "detached", c.handler)
           d == [freed EXCEPT !.parked = FALSE, !.handler = h]
           told == Callback(d, "ready", h)
<1>1. h \in Handlers /\ h # NULL /\ (c.handler = NULL \/ c.handler \in Handlers)
  BY ConstantsAssumption DEF Handlers, Good, Channel
<1>2. Follows(c, freed) /\ Good(freed)
  BY <1>1, CallbackFollows, FollowsSelf DEF Follows
<1>3. HandOver(c, h, r) = React(told, r)
  BY DEF HandOver
<1>v. c.view \in [Handlers -> Views]
  BY DEF Good, Channel
<1>w. c.handler # NULL => c.view[c.handler] = "watching"
  BY DEF Told
<1>x. ~c.shutdown
  BY ReadyIsLive, LiveIsNotNotified DEF Told
<1>y. /\ \A g \in Handlers : freed.view[g] = IF g = c.handler THEN "released" ELSE c.view[g]
      /\ freed.view \in [Handlers -> Views]
      /\ freed.shutdown = c.shutdown /\ freed.events = c.events /\ freed.state = c.state
  <2>0. freed.view \in [Handlers -> Views]
    BY <1>2 DEF Good, Channel
  <2>1. CASE c.handler = NULL
    BY <2>0, <2>1, ConstantsAssumption
  <2>2. CASE c.handler # NULL
    <3>1. AfterCallback("detached", "watching") = "released"
      BY DEF AfterCallback
    <3>2. freed = Callback(c, "detached", c.handler)
      BY <2>2
    <3>3. /\ freed.view = [c.view EXCEPT ![c.handler] = "released"]
          /\ freed.shutdown = c.shutdown /\ freed.events = c.events
          /\ freed.state = c.state
      <4> HIDE DEF freed
      <4> QED BY <1>1, <1>w, <2>2, <3>1, <3>2, CallbackFields
    <3> HIDE DEF freed
    <3> QED BY <1>1, <1>v, <2>0, <2>2, <3>3
  <2> QED BY <2>1, <2>2
<1> HIDE DEF freed
<1>4. /\ d \in Channel
      /\ SameCounts(freed, d) /\ SameIo(freed, d) /\ d.dns = freed.dns
      /\ d.closing = freed.closing /\ d.notified = freed.notified
      /\ d.dnsRequest = freed.dnsRequest /\ d.abandoned = freed.abandoned
      /\ d.state = freed.state /\ d.timer = freed.timer /\ d.socket = freed.socket
      /\ d.sslLayer = freed.sslLayer
  BY <1>1, <1>2 DEF Good, Channel, SameCounts, SameIo
<1>5. /\ d.view = freed.view /\ d.shutdown = freed.shutdown /\ d.handler = h
      /\ ~d.parked /\ d.events = freed.events
  BY <1>2 DEF Good, Channel
<1> HIDE DEF d
<1>6. (freed.closing => ~d.timer) /\ (freed.notified => ~d.socket /\ ~d.sslLayer)
  BY <1>2, <1>4 DEF Good
<1>7. Good(d)
  BY <1>2, <1>4, <1>6, FollowsByFields DEF Follows
<1>8. h # c.handler
  BY <1>1, <1>w
<1>9. d.view[h] = "asked"
  BY <1>1, <1>5, <1>8, <1>y
<1>10. AfterCallback("ready", "asked") = "using"
  BY DEF AfterCallback
<1>11. /\ told.view = [freed.view EXCEPT ![h] = "using"]
       /\ told.handler = h /\ ~told.parked /\ told.shutdown = c.shutdown
       /\ told.events = c.events /\ told.state = "READY"
  BY <1>1, <1>4, <1>5, <1>7, <1>9, <1>10, <1>y, CallbackFields
<1>12. Good(told)
  BY <1>1, <1>7, CallbackFollows DEF Follows
<1> HIDE DEF told
<1>13. /\ told.view[h] = "using"
       /\ \A g \in Handlers : g # h =>
            told.view[g] = IF g = c.handler THEN "released" ELSE c.view[g]
  BY <1>1, <1>11, <1>y
<1>14. Told(told)
  <2>1. \A g \in Handlers : /\ told.view[g] # "broken"
                            /\ told.view[g] \in Attached => g = h
    BY <1>13 DEF Told, Attached
  <2> QED BY <1>11, <1>13, <1>x, <2>1 DEF Told, Attached, Early
<1>15. Answers(c, told, h)
  <2>1. \A g \in Handlers : g # h => ((told.view[g] = "asked") <=> (c.view[g] = "asked"))
    BY <1>1, <1>13, <1>w, ConstantsAssumption
  <2>2. \A g \in Users : c.view[g] \in Free => told.view[g] \in Free
    BY <1>13 DEF Free, Handlers
  <2> QED BY <1>11, <1>13, <1>14, <2>1, <2>2 DEF Answers
<1>16. Keeps(told, React(told, r))
  BY <1>12, <1>14, ReactKeeps
<1> QED BY <1>1, <1>3, <1>15, <1>16, AnswersKeeps

LEMMA RunAdoptAnswers ==
  ASSUME NEW c, Good(c), Told(c), NEW h \in Users, c.view[h] = "asked",
         NEW r \in Reactions, r.op # "park"
  PROVE  Answers(c, RunAdopt(c, h, r), h)
<1>1. CASE IsParkedAndUsable(c)
  BY <1>1, HandOverAnswers DEF RunAdopt, IsParkedAndUsable
<1>2. CASE ~IsParkedAndUsable(c)
  <2> DEFINE d == Callback(c, "adoptFailed", h)
  <2>1. RunAdopt(c, h, r) = Fail(d, "success")
    BY <1>2 DEF RunAdopt
  <2>2. h \in Handlers /\ c.view \in [Handlers -> Views]
    BY DEF Handlers, Good, Channel
  <2>3. AfterCallback("adoptFailed", "asked") = "released"
    BY DEF AfterCallback
  <2>4. /\ d.view = [c.view EXCEPT ![h] = "released"]
        /\ d.handler = c.handler /\ d.parked = c.parked
        /\ d.shutdown = c.shutdown /\ d.notified = c.notified
        /\ d.events = c.events /\ d.state = c.state
    BY <2>2, <2>3, CallbackFields
  <2>5. Good(d)
    BY <2>2, CallbackFollows DEF Follows
  <2> HIDE DEF d
  <2>6. /\ d.view[h] = "released"
        /\ \A g \in Handlers : g # h => d.view[g] = c.view[g]
    BY <2>2, <2>4
  <2>7. c.handler # h /\ (c.handler # NULL => c.handler \in Handlers)
    BY <2>2, ConstantsAssumption DEF Told, Attached, Good, Channel
  <2>8. Told(d)
    <3>1. \A g \in Handlers : /\ d.view[g] # "broken"
                              /\ d.view[g] \in Attached => d.handler = g
      BY <2>4, <2>6 DEF Told, Attached
    <3>2. c.handler # NULL => d.view[c.handler] = c.view[c.handler]
      BY <2>6, <2>7
    <3> QED BY <2>4, <3>1, <3>2 DEF Told
  <2>9. Answers(c, d, h)
    BY <2>4, <2>6, <2>8 DEF Answers, Free, Handlers
  <2>10. Keeps(d, Fail(d, "success"))
    BY <2>5, <2>8, FailMute, MuteKeeps DEF Results
  <2> QED BY <2>1, <2>2, <2>9, <2>10, AnswersKeeps
<1> QED BY <1>1, <1>2

-----------------------------------------------------------------------------
(***************************************************************************)
(* The inductive invariant of the conversation.  An Adopt is Adopting from *)
(* its check on and Holding once it has its token; h is Waiting while its  *)
(* Adopt holds a token or is queued.  No two Adopts speak for the same     *)
(* handler, and whoever has asked is waited for by exactly one of them, so *)
(* that a close, which waits for tokens and tasks, waits for every answer. *)
(***************************************************************************)
Adopting(k, t) == k[t].pc # "idle" /\ k[t].op = "adopt"

Holding(k, t) == k[t].pc = "acquired" /\ k[t].op = "adopt"

Waiting(c, k, h) ==
  \/ \E i \in Adopts(c.events) : c.events[i].h = h
  \/ \E t \in Callers : Holding(k, t) /\ k[t].h = h

Distinct(c, k) ==
  /\ \A t \in Callers : Adopting(k, t) /\ ~Holding(k, t) => c.view[k[t].h] \in Free
  /\ \A t \in Callers : Holding(k, t) => c.view[k[t].h] = "asked"
  /\ \A t, u \in Callers :
       Adopting(k, t) /\ Adopting(k, u) /\ k[t].h = k[u].h => t = u
  /\ \A i \in Adopts(c.events) : c.view[c.events[i].h] = "asked"
  /\ \A i, j \in Adopts(c.events) : c.events[i].h = c.events[j].h => i = j
  /\ \A i \in Adopts(c.events), t \in Callers :
       Holding(k, t) => c.events[i].h # k[t].h

Asking(c, k) ==
  Distinct(c, k) /\ \A h \in Handlers : c.view[h] = "asked" => Waiting(c, k, h)

TalkInv ==
  /\ IInv
  /\ Told(ch)
  /\ Asking(ch, caller)
  /\ ch.opening # "done" => ch.state = "IDLE"
  /\ ch.opening \in {"no", "created"} => ch.handler = NULL

LEMMA AdoptersAreUsers ==
  ASSUME IInv
  PROVE  /\ \A t \in Callers : Adopting(caller, t) => caller[t].h \in Users
         /\ \A i \in Adopts(ch.events) : ch.events[i].h \in Users
<1>1. ch.events \in Seq(TaskType)
  BY GoodTypes DEF IInv
<1>2. \A i \in Adopts(ch.events) : ch.events[i] \in TaskType /\ ch.events[i].op = "adopt"
  BY <1>1 DEF Adopts
<1>3. \A i \in Adopts(ch.events) : ch.events[i].h \in Users
  BY <1>2 DEF TaskType
<1> QED BY <1>3 DEF IInv, InCallOK, Adopting

(* Steps that leave everybody's Adopt as it is. *)
LEMMA KeepsAsking ==
  ASSUME NEW c, NEW d, NEW k, Asking(c, k), Keeps(c, d),
         \A t \in Callers : Adopting(k, t) => k[t].h \in Users,
         \A i \in Adopts(c.events) : c.events[i].h \in Users
  PROVE  Asking(d, k)
<1>0. Users \subseteq Handlers
  BY DEF Handlers
<1>1. \A t \in Callers : Adopting(k, t) /\ ~Holding(k, t) => d.view[k[t].h] \in Free
  BY DEF Asking, Distinct, Keeps
<1>2. \A t \in Callers : Holding(k, t) => d.view[k[t].h] = "asked"
  <2> TAKE t \in Callers
  <2> HAVE Holding(k, t)
  <2>1. Adopting(k, t)
    BY DEF Holding, Adopting
  <2> QED BY <1>0, <2>1 DEF Asking, Distinct, Keeps
<1>3. \A i \in Adopts(d.events) : d.view[d.events[i].h] = "asked"
  BY <1>0 DEF Asking, Distinct, Keeps
<1>4. \A i, j \in Adopts(d.events) : d.events[i].h = d.events[j].h => i = j
  BY DEF Asking, Distinct, Keeps
<1>5. \A i \in Adopts(d.events), t \in Callers : Holding(k, t) => d.events[i].h # k[t].h
  BY DEF Asking, Distinct, Keeps
<1>6. \A h \in Handlers : d.view[h] = "asked" => Waiting(d, k, h)
  BY DEF Asking, Waiting, Keeps
<1> QED BY <1>1, <1>2, <1>3, <1>4, <1>5, <1>6 DEF Asking, Distinct

(* The step that answers h's Adopt, once its task is off the queue. *)
LEMMA AnswersAsking ==
  ASSUME NEW c, NEW d, NEW k, NEW h \in Users, Distinct(c, k), Answers(c, d, h),
         ~Waiting(c, k, h),
         \A g \in Handlers : g # h /\ c.view[g] = "asked" => Waiting(c, k, g),
         \A t \in Callers : Adopting(k, t) => k[t].h \in Users,
         \A i \in Adopts(c.events) : c.events[i].h \in Users
  PROVE  Asking(d, k)
<1>0. Users \subseteq Handlers
  BY DEF Handlers
<1>1. \A t \in Callers : Adopting(k, t) /\ ~Holding(k, t) => d.view[k[t].h] \in Free
  BY DEF Distinct, Answers
<1>2. \A t \in Callers : Holding(k, t) => d.view[k[t].h] = "asked"
  <2> TAKE t \in Callers
  <2> HAVE Holding(k, t)
  <2>1. Adopting(k, t)
    BY DEF Holding, Adopting
  <2>2. k[t].h # h
    BY DEF Waiting
  <2> QED BY <1>0, <2>1, <2>2 DEF Distinct, Answers
<1>3. \A i \in Adopts(d.events) : d.view[d.events[i].h] = "asked"
  <2> TAKE i \in Adopts(d.events)
  <2>1. i \in Adopts(c.events) /\ d.events[i] = c.events[i]
    BY DEF Answers
  <2>2. c.events[i].h # h
    BY <2>1 DEF Waiting
  <2> QED BY <1>0, <2>1, <2>2 DEF Distinct, Answers
<1>4. \A i, j \in Adopts(d.events) : d.events[i].h = d.events[j].h => i = j
  BY DEF Distinct, Answers
<1>5. \A i \in Adopts(d.events), t \in Callers : Holding(k, t) => d.events[i].h # k[t].h
  BY DEF Distinct, Answers
<1>6. \A g \in Handlers : d.view[g] = "asked" => Waiting(d, k, g)
  <2> TAKE g \in Handlers
  <2> HAVE d.view[g] = "asked"
  <2>1. g # h /\ c.view[g] = "asked"
    BY DEF Answers
  <2>2. Waiting(c, k, g)
    BY <2>1
  <2> QED BY <2>2 DEF Waiting, Answers
<1> QED BY <1>1, <1>2, <1>3, <1>4, <1>5, <1>6 DEF Asking, Distinct

(* A step of the queue thread that answers no Adopt. *)
LEMMA QueueStepTalk ==
  ASSUME TalkInv, IInv', ch.opening = "done", ch'.opening = "done",
         Keeps(ch, ch'), caller' = caller
  PROVE  TalkInv'
<1>1. Asking(ch', caller)
  BY KeepsAsking, AdoptersAreUsers DEF TalkInv
<1>2. Asking(ch', caller')
  BY <1>1
<1> QED BY <1>2 DEF TalkInv, Keeps

LEMMA CompletionMute ==
  ASSUME NEW c, Good(c)
  PROVE  /\ Mute(c, [c EXCEPT !.connect = @ - 1])
         /\ Mute(c, [c EXCEPT !.recv = @ - 1])
         /\ Mute(c, [c EXCEPT !.send = @ - 1])
<1>1. Mute(c, [c EXCEPT !.connect = @ - 1])
  BY DEF Good, Channel, Mute
<1>2. Mute(c, [c EXCEPT !.recv = @ - 1])
  BY DEF Good, Channel, Mute
<1>3. Mute(c, [c EXCEPT !.send = @ - 1])
  BY DEF Good, Channel, Mute
<1> QED BY <1>1, <1>2, <1>3

LEMMA OpeningStays ==
  ASSUME NEW c, NEW d, Follows(c, d), c.opening = "done"
  PROVE  d.opening = "done"
BY DEF Follows

LEMMA ConnectDoneTalk == TalkInv /\ ConnectDone => TalkInv'
<1> SUFFICES ASSUME TalkInv, ConnectDone PROVE TalkInv'
  OBVIOUS
<1> DEFINE c == [ch EXCEPT !.connect = @ - 1]
<1>0. IInv /\ IInv' /\ Told(ch)
  BY ConnectDoneIInv DEF TalkInv
<1>1. Good(ch) /\ ch.connect > 0 /\ ch.opening = "done" /\ caller' = caller
  BY <1>0 DEF IInv, ConnectDone, NotOpened, Fresh
<1>2. Good(c) /\ c.opening = "done" /\ Keeps(ch, c) /\ Told(c)
  <2>1. Follows(ch, c) /\ Mute(ch, c)
    BY <1>1, CompletionFollows, CompletionMute
  <2> HIDE DEF c
  <2>2. Good(c) /\ c.opening = "done"
    BY <1>1, <2>1 DEF Follows
  <2>3. Keeps(ch, c)
    BY <1>0, <2>1, MuteKeeps
  <2> QED BY <2>2, <2>3 DEF Keeps
<1>3. PICK end \in Ends(ch), o \in Outcomes, r \in Reactions :
        /\ ch' = MaybeFinishClose(OnConnectDone(c, end, o, r))
        /\ r.op # "park"
        /\ RecvIsAsync => ~o.recvBad
  BY OutcomesInType, AsyncOutcomes DEF ConnectDone
<1> DEFINE d == OnConnectDone(c, end, o, r)
<1>4. Keeps(c, d) /\ Good(d) /\ Told(d) /\ d.opening = "done"
  <2> HIDE DEF c
  <2>1. Follows(c, d)
    BY <1>2, <1>3, OnConnectDoneFollows
  <2>2. Keeps(c, d)
    BY <1>2, <1>3, OnConnectDoneKeeps
  <2> HIDE DEF d
  <2> QED BY <1>2, <2>1, <2>2 DEF Follows, Keeps
<1>e. Keeps(ch, d)
  <2> HIDE DEF c
  <2> QED BY <1>2, <1>4, KeepsTrans
<1> HIDE DEF d
<1>5. Keeps(ch, MaybeFinishClose(d))
  BY <1>4, <1>e, MaybeFinishCloseMute, MuteKeeps, KeepsTrans
<1>6. MaybeFinishClose(d).opening = "done"
  BY <1>4, MaybeFinishCloseFollows, OpeningStays
<1>7. Keeps(ch, ch') /\ ch'.opening = "done"
  BY <1>3, <1>5, <1>6 DEF d
<1> QED BY <1>0, <1>1, <1>7, QueueStepTalk

LEMMA RecvDoneTalk == TalkInv /\ RecvDone => TalkInv'
<1> SUFFICES ASSUME TalkInv, RecvDone PROVE TalkInv'
  OBVIOUS
<1> DEFINE c == [ch EXCEPT !.recv = @ - 1]
<1>0. IInv /\ IInv' /\ Told(ch)
  BY RecvDoneIInv DEF TalkInv
<1>1. Good(ch) /\ ch.recv > 0 /\ ch.opening = "done" /\ caller' = caller
  BY <1>0 DEF IInv, RecvDone, NotOpened, Fresh
<1>2. Good(c) /\ c.opening = "done" /\ Keeps(ch, c) /\ Told(c)
  <2>1. Follows(ch, c) /\ Mute(ch, c)
    BY <1>1, CompletionFollows, CompletionMute
  <2> HIDE DEF c
  <2>2. Good(c) /\ c.opening = "done"
    BY <1>1, <2>1 DEF Follows
  <2>3. Keeps(ch, c)
    BY <1>0, <2>1, MuteKeeps
  <2> QED BY <2>2, <2>3 DEF Keeps
<1>3. \/ \E o \in Outcomes, r \in Reactions :
           /\ r.op = "park" => c.state = "READY" /\ c.view[r.w] \in Free
           /\ ch' = MaybeFinishClose(TcpRecv(OnRecvDone(c, o, r), o.recvBad))
      \/ ch' = MaybeFinishClose(OnPeerClosed(c))
      \/ ch' = MaybeFinishClose(Fail(c, "recv"))
      \/ ch' = MaybeFinishClose(c)
  BY OutcomesInType DEF RecvDone, CanReact, Free
<1> HIDE DEF c
<1>4. \E d : Keeps(c, d) /\ Good(d) /\ d.opening = "done" /\ ch' = MaybeFinishClose(d)
  <2>1. ASSUME NEW o \in Outcomes, NEW r \in Reactions,
               r.op = "park" => c.state = "READY" /\ c.view[r.w] \in Free,
               ch' = MaybeFinishClose(TcpRecv(OnRecvDone(c, o, r), o.recvBad))
        PROVE  \E d : Keeps(c, d) /\ Good(d) /\ d.opening = "done" /\ ch' = MaybeFinishClose(d)
    <3> DEFINE e == OnRecvDone(c, o, r)
    <3>1. Keeps(c, e) /\ Good(e) /\ Told(e) /\ e.opening = "done"
      BY <1>2, <2>1, OnRecvDoneFollows, OnRecvDoneKeeps DEF Follows, Keeps
    <3> HIDE DEF e
    <3>2. o.recvBad \in BOOLEAN
      BY DEF Outcomes
    <3> DEFINE f == TcpRecv(e, o.recvBad)
    <3>3. Good(f) /\ f.opening = "done"
      BY <3>1, <3>2, TcpRecvFollows DEF Follows
    <3>4. Keeps(c, f)
      BY <3>1, TcpRecvMute, MuteKeeps, KeepsTrans
    <3> QED BY <2>1, <3>3, <3>4 DEF e
  <2>2. /\ Keeps(c, OnPeerClosed(c)) /\ Good(OnPeerClosed(c))
        /\ OnPeerClosed(c).opening = "done"
    BY <1>2, OnPeerClosedFollows, OnPeerClosedMute, MuteKeeps DEF Follows
  <2>3. Keeps(c, Fail(c, "recv")) /\ Good(Fail(c, "recv")) /\ Fail(c, "recv").opening = "done"
    BY <1>2, FailFollows, FailMute, MuteKeeps DEF Follows, Results
  <2> QED BY <1>2, <1>3, <2>1, <2>2, <2>3, KeepsSelf
<1>5. Keeps(c, ch') /\ ch'.opening = "done"
  <2>1. PICK d : Keeps(c, d) /\ Good(d) /\ d.opening = "done" /\ ch' = MaybeFinishClose(d)
    BY <1>4
  <2>2. Keeps(d, MaybeFinishClose(d))
    BY <2>1, MaybeFinishCloseMute, MuteKeeps DEF Keeps
  <2>3. MaybeFinishClose(d).opening = "done"
    BY <2>1, MaybeFinishCloseFollows, OpeningStays
  <2> QED BY <2>1, <2>2, <2>3, KeepsTrans
<1>6. Keeps(ch, ch')
  BY <1>2, <1>5, KeepsTrans
<1> QED BY <1>0, <1>1, <1>5, <1>6, QueueStepTalk

LEMMA SendDoneTalk == TalkInv /\ SendDone => TalkInv'
<1> SUFFICES ASSUME TalkInv, SendDone PROVE TalkInv'
  OBVIOUS
<1> DEFINE c == [ch EXCEPT !.send = @ - 1]
<1>0. IInv /\ IInv' /\ Told(ch)
  BY SendDoneIInv DEF TalkInv
<1>1. Good(ch) /\ ch.send > 0 /\ ch.opening = "done" /\ caller' = caller
  BY <1>0 DEF IInv, SendDone, NotOpened, Fresh
<1>2. Good(c) /\ c.opening = "done" /\ Keeps(ch, c) /\ Told(c)
  <2>1. Follows(ch, c) /\ Mute(ch, c)
    BY <1>1, CompletionFollows, CompletionMute
  <2> HIDE DEF c
  <2>2. Good(c) /\ c.opening = "done"
    BY <1>1, <2>1 DEF Follows
  <2>3. Keeps(ch, c)
    BY <1>0, <2>1, MuteKeeps
  <2> QED BY <2>2, <2>3 DEF Keeps
<1>3. \/ \E o \in Outcomes, r \in Reactions :
           r.op # "park" /\ ch' = MaybeFinishClose(OnSendDone(c, o, r))
      \/ ch' = MaybeFinishClose(Fail(c, "send"))
      \/ ch' = MaybeFinishClose(c)
  BY OutcomesInType DEF SendDone
<1> HIDE DEF c
<1>4. \E d : Keeps(c, d) /\ Good(d) /\ d.opening = "done" /\ ch' = MaybeFinishClose(d)
  <2>1. ASSUME NEW o \in Outcomes, NEW r \in Reactions, r.op # "park"
        PROVE  /\ Keeps(c, OnSendDone(c, o, r)) /\ Good(OnSendDone(c, o, r))
               /\ OnSendDone(c, o, r).opening = "done"
    BY <1>2, <2>1, OnSendDoneFollows, OnSendDoneKeeps DEF Follows
  <2>2. Keeps(c, Fail(c, "send")) /\ Good(Fail(c, "send")) /\ Fail(c, "send").opening = "done"
    BY <1>2, FailFollows, FailMute, MuteKeeps DEF Follows, Results
  <2> QED BY <1>2, <1>3, <2>1, <2>2, KeepsSelf
<1>5. Keeps(c, ch') /\ ch'.opening = "done"
  <2>1. PICK d : Keeps(c, d) /\ Good(d) /\ d.opening = "done" /\ ch' = MaybeFinishClose(d)
    BY <1>4
  <2>2. Keeps(d, MaybeFinishClose(d))
    BY <2>1, MaybeFinishCloseMute, MuteKeeps DEF Keeps
  <2>3. MaybeFinishClose(d).opening = "done"
    BY <2>1, MaybeFinishCloseFollows, OpeningStays
  <2> QED BY <2>1, <2>2, <2>3, KeepsTrans
<1>6. Keeps(ch, ch')
  BY <1>2, <1>5, KeepsTrans
<1> QED BY <1>0, <1>1, <1>5, <1>6, QueueStepTalk

-----------------------------------------------------------------------------
(* Taking the first task off the queue. *)
LEMMA TakeFields ==
  ASSUME NEW c, Good(c), c.events # <<>>
  PROVE  LET d == ReleasePendingTask([c EXCEPT !.events = Tail(@)])
         IN  /\ d.view = c.view /\ d.handler = c.handler /\ d.parked = c.parked
             /\ d.shutdown = c.shutdown /\ d.notified = c.notified
             /\ d.state = c.state /\ d.opening = c.opening
             /\ d.events = Tail(c.events)
<1> DEFINE q == Tail(c.events)
           d == [c EXCEPT !.events = q, !.tasks = c.tasks - 1]
<1>1. Len(c.events) > 0
  BY GoodTypes
<1>2. c.tasks > 0
  BY <1>1, GoodTypes DEF Good
<1>3. ReleasePendingTask([c EXCEPT !.events = Tail(@)]) = d
  BY <1>2, GoodTypes DEF ReleasePendingTask, Channel
<1> HIDE DEF q
<1>4. /\ d.view = c.view /\ d.handler = c.handler /\ d.parked = c.parked
      /\ d.shutdown = c.shutdown /\ d.notified = c.notified
      /\ d.state = c.state /\ d.opening = c.opening /\ d.events = q
  BY DEF Good, Channel
<1> HIDE DEF d
<1> QED BY <1>3, <1>4 DEF q

LEMMA TailAdopts ==
  ASSUME NEW q \in Seq(TaskType), q # <<>>
  PROVE  /\ \A i \in Adopts(Tail(q)) : i + 1 \in Adopts(q) /\ q[i + 1] = Tail(q)[i] /\ i \in Nat /\ i > 0
         /\ \A j \in Adopts(q) : j \in Nat /\ (j # 1 => j - 1 \in Adopts(Tail(q)) /\ q[j] = Tail(q)[j - 1])
         /\ Head(q) = q[1]
         /\ Head(q).op = "adopt" => 1 \in Adopts(q)
BY DEF Adopts

LEMMA TakeDistinct ==
  ASSUME NEW c, NEW d, NEW k, Distinct(c, k), d.view = c.view,
         c.events \in Seq(TaskType), c.events # <<>>, d.events = Tail(c.events)
  PROVE  Distinct(d, k)
<1> DEFINE q == c.events
           p == Tail(c.events)
<1>1. \A i \in Adopts(p) : i + 1 \in Adopts(q) /\ q[i + 1] = p[i] /\ i \in Nat /\ i > 0
  BY TailAdopts
<1> HIDE DEF p, q
<1>2. d.events = p /\ c.events = q
  BY DEF p, q
<1>3. \A i \in Adopts(p) : c.view[p[i].h] = "asked"
  BY <1>1, <1>2 DEF Distinct
<1>4. ASSUME NEW i \in Adopts(p), NEW j \in Adopts(p), p[i].h = p[j].h
      PROVE  i = j
  <2>1. i + 1 \in Adopts(q) /\ j + 1 \in Adopts(q) /\ q[i + 1].h = q[j + 1].h
    BY <1>1, <1>4
  <2>2. i + 1 = j + 1
    BY <1>2, <2>1 DEF Distinct
  <2>3. i \in Nat /\ j \in Nat
    BY <1>1
  <2> QED BY <2>2, <2>3
<1>5. \A i \in Adopts(p), t \in Callers : Holding(k, t) => p[i].h # k[t].h
  BY <1>1, <1>2 DEF Distinct
<1> QED BY <1>2, <1>3, <1>4, <1>5 DEF Distinct

LEMMA TakeWaiting ==
  ASSUME NEW c, NEW d, NEW k, NEW g, Waiting(c, k, g),
         c.events \in Seq(TaskType), c.events # <<>>, d.events = Tail(c.events),
         Head(c.events).op = "adopt" => Head(c.events).h # g
  PROVE  Waiting(d, k, g)
<1>1. CASE \E t \in Callers : Holding(k, t) /\ k[t].h = g
  BY <1>1 DEF Waiting
<1>2. CASE \E i \in Adopts(c.events) : c.events[i].h = g
  <2>1. PICK i \in Adopts(c.events) : c.events[i].h = g
    BY <1>2
  <2>2. c.events[i].op = "adopt"
    BY DEF Adopts
  <2>3. i # 1
    BY <2>1, <2>2, TailAdopts
  <2>4. i - 1 \in Adopts(Tail(c.events)) /\ c.events[i] = Tail(c.events)[i - 1]
    BY <2>3, TailAdopts
  <2> QED BY <2>1, <2>4 DEF Waiting
<1> QED BY <1>1, <1>2 DEF Waiting

LEMMA TakeAnswered ==
  ASSUME NEW c, NEW d, NEW k, Distinct(c, k),
         c.events \in Seq(TaskType), c.events # <<>>, d.events = Tail(c.events),
         Head(c.events).op = "adopt"
  PROVE  ~Waiting(d, k, Head(c.events).h) /\ c.view[Head(c.events).h] = "asked"
<1> DEFINE q == c.events
           p == Tail(c.events)
           h == Head(c.events).h
<1>1. /\ \A i \in Adopts(p) : i + 1 \in Adopts(q) /\ q[i + 1] = p[i] /\ i \in Nat /\ i > 0
      /\ 1 \in Adopts(q) /\ q[1].h = h
  BY TailAdopts
<1> HIDE DEF p, q, h
<1>2. d.events = p /\ c.events = q
  BY DEF p, q
<1>3. \A i \in Adopts(p) : p[i].h # h
  <2> SUFFICES ASSUME NEW i \in Adopts(p), p[i].h = h PROVE FALSE
    OBVIOUS
  <2>1. i + 1 \in Adopts(q) /\ q[i + 1].h = q[1].h /\ i \in Nat /\ i > 0
    BY <1>1
  <2>2. i + 1 = 1
    BY <1>1, <1>2, <2>1 DEF Distinct
  <2> QED BY <2>1, <2>2
<1>4. \A t \in Callers : ~(Holding(k, t) /\ k[t].h = h)
  BY <1>1, <1>2 DEF Distinct
<1>5. c.view[h] = "asked"
  BY <1>1, <1>2 DEF Distinct
<1> QED BY <1>2, <1>3, <1>4, <1>5 DEF Waiting, h

LEMMA RunTaskTalk ==
  ASSUME TalkInv, RunTask, ch.opening = "done"
  PROVE  TalkInv'
<1> DEFINE task == Head(ch.events)
           c    == ReleasePendingTask([ch EXCEPT !.events = Tail(@)])
<1>0. IInv /\ IInv' /\ Told(ch) /\ Asking(ch, caller)
  BY RunTaskIInv DEF TalkInv
<1>1. /\ Good(ch) /\ ch.events # <<>> /\ ~ch.notified /\ ch.opening = "done"
      /\ caller' = caller
  BY <1>0 DEF IInv, RunTask, NotOpened
<1>2. Follows(ch, c) /\ Good(c) /\ task \in TaskType
  BY <1>1, TakeTask DEF Follows
<1>3. \/ task.op = "send" /\ \E n \in 0..1, bad \in BOOLEAN : ch' = RunSend(c, n, bad)
      \/ task.op = "close" /\ ch' = Fail(c, "success")
      \/ task.op = "noDns" /\ ch' = Fail(c, "dns")
      \/ task.op = "adopt" /\ \E r \in Reactions : r.op # "park" /\ ch' = RunAdopt(c, task.h, r)
      \/ task.op = "resolved" /\ \E p \in PinningsIn(c) : ch' = OnResolveDone(c, task.ok, p)
  BY DEF RunTask, SyncBad
<1>4. task.op = "adopt" => task.h \in Users
  BY <1>2 DEF TaskType
<1>5. /\ c.view = ch.view /\ c.handler = ch.handler /\ c.parked = ch.parked
      /\ c.shutdown = ch.shutdown /\ c.notified = ch.notified
      /\ c.state = ch.state /\ c.opening = ch.opening
      /\ c.events = Tail(ch.events)
  BY <1>1, TakeFields
<1> HIDE DEF c
<1>6. Told(c)
  BY <1>0, <1>5 DEF Told
<1>7. ch.events \in Seq(TaskType)
  BY <1>1, GoodTypes
<1>8. Distinct(c, caller)
  BY <1>0, <1>1, <1>5, <1>7, TakeDistinct DEF Asking
<1>9. \A g \in Handlers : c.view[g] = "asked" /\ ~(task.op = "adopt" /\ task.h = g)
                            => Waiting(c, caller, g)
  <2> SUFFICES ASSUME NEW g \in Handlers, c.view[g] = "asked",
                      ~(task.op = "adopt" /\ task.h = g)
               PROVE  Waiting(c, caller, g)
    OBVIOUS
  <2>1. Waiting(ch, caller, g)
    BY <1>0, <1>5 DEF Asking
  <2> QED BY <1>1, <1>5, <1>7, <2>1, TakeWaiting
<1>10. /\ \A t \in Callers : Adopting(caller, t) => caller[t].h \in Users
       /\ \A i \in Adopts(c.events) : c.events[i].h \in Users
  <2>1. \A i \in Adopts(c.events) : ch.events[i + 1] = c.events[i] /\ i + 1 \in Adopts(ch.events)
    BY <1>1, <1>5, <1>7, TailAdopts
  <2> QED BY <1>0, <2>1, AdoptersAreUsers
<1>11. CASE task.op # "adopt"
  <2>1. Asking(c, caller)
    BY <1>8, <1>9, <1>11 DEF Asking
  <2>2. Keeps(c, ch') /\ (Follows(c, ch') \/ ch'.opening = "done")
    <3>1. CASE \E n \in 0..1, bad \in BOOLEAN : ch' = RunSend(c, n, bad)
      BY <1>2, <1>6, <3>1, RunSendKeeps, RunSendFollows
    <3>2. CASE ch' = Fail(c, "success") \/ ch' = Fail(c, "dns")
      BY <1>2, <1>6, <3>2, FailMute, MuteKeeps, FailFollows DEF Results
    <3>3. CASE \E p : ch' = OnResolveDone(c, task.ok, p)
      <4>1. PICK p : ch' = OnResolveDone(c, task.ok, p)
        BY <3>3
      <4>2. Keeps(c, ch')
        BY <1>2, <1>6, <4>1, OnResolveDoneMute, MuteKeeps
      <4>3. ch'.opening = c.opening
        BY <1>2, <4>1, OnResolveDoneGood
      <4> QED BY <1>1, <1>5, <4>2, <4>3
    <3> QED BY <1>3, <1>11, <3>1, <3>2, <3>3
  <2>3. Keeps(c, ch') /\ ch'.opening = "done"
    BY <1>1, <1>5, <2>2, OpeningStays
  <2>4. Asking(ch', caller)
    BY <1>10, <2>1, <2>3, KeepsAsking
  <2>5. Asking(ch', caller')
    BY <1>1, <2>4
  <2> QED BY <1>0, <2>3, <2>5 DEF TalkInv, Keeps
<1>12. CASE task.op = "adopt"
  <2> DEFINE h == task.h
  <2>1. h \in Users /\ h \in Handlers
    BY <1>4, <1>12 DEF Handlers
  <2>2. ~Waiting(c, caller, h) /\ c.view[h] = "asked"
    BY <1>0, <1>1, <1>5, <1>7, <1>12, TakeAnswered DEF Asking
  <2>3. PICK r \in Reactions : r.op # "park" /\ ch' = RunAdopt(c, h, r)
    BY <1>3, <1>12
  <2> HIDE DEF task
  <2>4. \A g \in Handlers : g # h /\ c.view[g] = "asked" => Waiting(c, caller, g)
    BY <1>9
  <2> HIDE DEF h
  <2>5. Answers(c, ch', h)
    BY <1>2, <1>6, <2>1, <2>2, <2>3, RunAdoptAnswers
  <2>6. ch'.opening = "done"
    BY <1>1, <1>2, <1>5, <2>1, <2>3, RunAdoptFollows, OpeningStays
  <2>7. Asking(ch', caller)
    BY <1>8, <1>10, <2>1, <2>2, <2>4, <2>5, AnswersAsking
  <2>8. Asking(ch', caller')
    BY <1>1, <2>7
  <2> QED BY <1>0, <2>5, <2>6, <2>8 DEF TalkInv, Answers
<1> QED BY <1>11, <1>12

LEMMA ConnectTimeoutTalk ==
  ASSUME TalkInv, ConnectTimeout, ch.opening = "done"
  PROVE  TalkInv'
<1> DEFINE c == [ch EXCEPT !.timer = FALSE]
<1>0. IInv /\ IInv' /\ Told(ch)
  BY ConnectTimeoutIInv DEF TalkInv
<1>1. Good(ch) /\ ch.opening = "done" /\ ch' = Fail(c, "timeout") /\ caller' = caller
  BY <1>0 DEF IInv, ConnectTimeout
<1>2. /\ c \in Channel
      /\ SameCounts(ch, c) /\ SameIo(ch, c) /\ c.dns = ch.dns
      /\ c.closing = ch.closing /\ c.notified = ch.notified
      /\ c.dnsRequest = ch.dnsRequest /\ c.abandoned = ch.abandoned
      /\ c.state = ch.state /\ ~c.timer /\ c.socket = ch.socket
      /\ c.sslLayer = ch.sslLayer
  BY <1>1 DEF Good, Channel, SameCounts, SameIo
<1>3. Mute(ch, c)
  BY <1>1 DEF Good, Channel, Mute
<1> HIDE DEF c
<1>4. ch.notified => ~c.socket /\ ~c.sslLayer
  BY <1>1, <1>2 DEF Good
<1>5. Follows(ch, c) /\ Good(c)
  BY <1>1, <1>2, <1>4, FollowsByFields DEF Follows
<1>6. Keeps(ch, ch')
  <2>1. Mute(c, ch')
    BY <1>1, <1>5, FailMute DEF Results
  <2>2. Mute(ch, ch')
    BY <1>3, <2>1, MuteTrans
  <2> QED BY <1>0, <2>2, MuteKeeps
<1>7. Follows(c, ch')
  BY <1>1, <1>5, FailFollows DEF Results
<1>8. ch'.opening = "done"
  BY <1>1, <1>5, <1>7, OpeningStays
<1> QED BY <1>0, <1>1, <1>6, <1>8, QueueStepTalk

LEMMA OnEventProcShutdownTalk == TalkInv /\ OnEventProcShutdown => TalkInv'
<1> SUFFICES ASSUME TalkInv, OnEventProcShutdown PROVE TalkInv'
  OBVIOUS
<1> DEFINE c == [ch EXCEPT !.shutdown = TRUE, !.handler = NULL]
<1>0. IInv /\ IInv' /\ Told(ch)
  BY OnEventProcShutdownIInv DEF TalkInv
<1>1. /\ Good(ch) /\ ch.opening = "done" /\ ch.notified /\ caller' = caller
      /\ ch' = IF ch.handler = NULL THEN c ELSE Callback(c, "closed", ch.handler)
  BY <1>0 DEF IInv, OnEventProcShutdown, Good, NotOpened
<1>2. /\ ch.handler = NULL \/ ch.handler \in Handlers
      /\ ch.view \in [Handlers -> Views]
  BY <1>1 DEF Good, Channel
<1>3. /\ c \in Channel
      /\ SameCounts(ch, c) /\ SameIo(ch, c) /\ c.dns = ch.dns
      /\ c.closing = ch.closing /\ c.notified = ch.notified
      /\ c.dnsRequest = ch.dnsRequest /\ c.abandoned = ch.abandoned
      /\ c.state = ch.state /\ c.timer = ch.timer /\ c.socket = ch.socket
      /\ c.sslLayer = ch.sslLayer
  BY <1>1 DEF Good, Channel, SameCounts, SameIo
<1>f. /\ c.view = ch.view /\ c.handler = NULL /\ c.parked = ch.parked /\ c.shutdown
      /\ c.events = ch.events /\ c.opening = ch.opening
  BY <1>1 DEF Good, Channel
<1> HIDE DEF c
<1>4. (ch.closing => ~c.timer) /\ (ch.notified => ~c.socket /\ ~c.sslLayer)
  BY <1>1, <1>3 DEF Good
<1>5. Follows(ch, c) /\ Good(c)
  <2>1. Good(ch) /\ (ch.closing => c.state = ch.state /\ ~c.timer)
    BY <1>1, <1>3, <1>4
  <2>2. Follows(ch, c)
    BY <1>3, <1>4, <2>1, FollowsByFields
  <2> QED BY <2>2 DEF Follows
<1>6. /\ ch'.handler = NULL /\ ch'.notified /\ ch'.state = ch.state
      /\ ch'.parked = ch.parked /\ ch'.events = ch.events /\ ch'.opening = "done"
      /\ \A g \in Handlers : ch'.view[g] = IF g = ch.handler THEN "closed" ELSE ch.view[g]
  <2>1. CASE ch.handler = NULL
    BY <1>1, <1>3, <1>f, <2>1, ConstantsAssumption
  <2>2. CASE ch.handler # NULL
    <3>1. ch' = Callback(c, "closed", ch.handler) /\ ch.handler \in Handlers
      BY <1>1, <1>2, <2>2
    <3>2. ch.view[ch.handler] \in Attached
      BY <1>0, <2>2 DEF Told
    <3>3. AfterCallback("closed", ch.view[ch.handler]) = "closed"
      BY <3>2 DEF AfterCallback, Attached
    <3>4. /\ ch'.view = [ch.view EXCEPT ![ch.handler] = "closed"]
          /\ ch'.handler = NULL /\ ch'.parked = ch.parked
          /\ ch'.notified = ch.notified /\ ch'.events = ch.events
          /\ ch'.state = ch.state
      BY <1>3, <1>5, <1>f, <3>1, <3>3, CallbackFields
    <3>5. ch'.opening = "done"
      BY <1>1, <1>5, <1>f, <3>1, CallbackFollows, OpeningStays
    <3> QED BY <1>1, <1>2, <3>1, <3>4, <3>5
  <2> QED BY <2>1, <2>2
<1>7. Told(ch')
  <2>1. \A g \in Handlers : ch'.view[g] # "broken" /\ ch'.view[g] \notin Attached
    BY <1>0, <1>6 DEF Told, Attached
  <2> QED BY <1>0, <1>6, <2>1 DEF Told
<1>8. Keeps(ch, ch')
  <2>1. \A g \in Handlers : (ch'.view[g] = "asked") <=> (ch.view[g] = "asked")
    <3> TAKE g \in Handlers
    <3>1. g = ch.handler => ch.view[g] # "asked"
      BY <1>0, ConstantsAssumption DEF Told, Attached
    <3> QED BY <1>6, <3>1
  <2>2. \A g \in Users : ch.view[g] \in Free => ch'.view[g] \in Free
    <3> TAKE g \in Users
    <3>1. g = ch.handler => ch.view[g] \notin Free
      BY <1>0, ConstantsAssumption DEF Told, Attached, Free, Handlers
    <3> QED BY <1>6, <3>1 DEF Handlers
  <2> QED BY <1>6, <1>7, <2>1, <2>2 DEF Keeps
<1> QED BY <1>0, <1>1, <1>6, <1>8, QueueStepTalk

-----------------------------------------------------------------------------
(* Open, the DNS worker and the caller threads. *)
LEMMA OpenCreateTalk ==
  ASSUME TalkInv, NEW cfg \in Configs, OpenCreate(cfg)
  PROVE  TalkInv'
<1>0. IInv /\ IInv' /\ Told(ch) /\ Asking(ch, caller)
  BY OpenCreateIInv DEF TalkInv
<1>1. Good(ch) /\ ch.opening = "no" /\ ch.handler = NULL /\ caller' = caller
  BY <1>0 DEF IInv, OpenCreate, TalkInv
<1>2. cfg \in ConfigType
  BY ConstantsAssumption
<1>3. Mute(ch, ch') /\ ch'.opening = "created" /\ ch'.handler = NULL
      /\ ch'.state = "IDLE"
  BY <1>1, <1>2 DEF OpenCreate, Good, Channel, Mute
<1>4. Keeps(ch, ch')
  BY <1>0, <1>3, MuteKeeps
<1>5. Asking(ch', caller)
  BY <1>0, <1>4, KeepsAsking, AdoptersAreUsers
<1>6. Asking(ch', caller')
  BY <1>1, <1>5
<1> QED BY <1>0, <1>3, <1>4, <1>6 DEF TalkInv, Keeps

LEMMA OpenArmTalk ==
  ASSUME TalkInv, NEW h \in Users, NEW armed \in BOOLEAN, OpenArm(h, armed)
  PROVE  TalkInv'
<1>0. IInv /\ Told(ch) /\ Asking(ch, caller)
  BY DEF TalkInv
<1>1. /\ Good(ch) /\ NotOpened(ch, worker, caller) /\ caller' = caller
      /\ ch.state = "IDLE" /\ ch.handler = NULL /\ ~ch.closing
  BY <1>0 DEF IInv, OpenArm, TalkInv, NotOpened
<1>2. IInv'
  BY <1>0, <1>1, OpenArmIInv
<1>3. h \in Handlers /\ h # NULL
  BY ConstantsAssumption DEF Handlers
<1>4. /\ ch'.opening = "begun" /\ ch'.handler = h /\ ch'.parked = ch.parked
      /\ ch'.shutdown = ch.shutdown /\ ch'.events = ch.events
      /\ ch'.state = ch.state /\ ch'.notified = ch.notified
      /\ ch'.view[h] = "opening"
      /\ \A g \in Handlers : g # h => ch'.view[g] = ch.view[g]
  BY <1>1, OpenArmFields DEF Good
<1>5. ~ch.shutdown /\ ~ch.parked
  BY <1>0, <1>1 DEF Told, Good, NotOpened, Early
<1>6. \A g \in Handlers : ch.view[g] \notin Attached /\ ch.view[g] # "broken"
  BY <1>0, <1>1, ConstantsAssumption DEF Told
<1>7. Told(ch')
  <2>1. \A g \in Handlers : /\ ch'.view[g] # "broken"
                            /\ ch'.view[g] \in Attached => g = h
    BY <1>4, <1>6
  <2> QED BY <1>1, <1>3, <1>4, <1>5, <2>1 DEF Told, Attached, Early
<1>8. Adopts(ch.events) = {} /\ \A t \in Callers : ~Adopting(caller, t)
  BY <1>1 DEF NotOpened, OnlyClose, Adopts, Adopting
<1>9. \A g \in Handlers : ch'.view[g] # "asked"
  BY <1>1, <1>4 DEF NotOpened, Fresh
<1>10. Asking(ch', caller')
  BY <1>1, <1>4, <1>8, <1>9 DEF Asking, Distinct, Adopting, Holding
<1> QED BY <1>1, <1>2, <1>4, <1>7, <1>10 DEF TalkInv

LEMMA OpenFinishTalk == TalkInv /\ OpenFinish => TalkInv'
<1> SUFFICES ASSUME TalkInv, OpenFinish PROVE TalkInv'
  OBVIOUS
<1> DEFINE c == SetState([ch EXCEPT !.opening = "done"], "RESOLVING")
           d == [c EXCEPT !.dnsRequest = TRUE, !.abandoned = FALSE, !.dns = @ + 1]
<1>0. IInv /\ IInv' /\ Told(ch) /\ Asking(ch, caller) /\ ch.state = "IDLE"
  BY OpenFinishIInv DEF TalkInv, OpenFinish
<1>1. /\ Good(ch) /\ NotOpened(ch, worker, caller) /\ caller' = caller
      /\ ~ch.closing /\ ~ch.notified
  BY <1>0 DEF IInv, OpenFinish, NotOpened, Good
<1>2. /\ c \in Channel /\ c.opening = "done" /\ c.tasks = ch.tasks
      /\ c.events = ch.events /\ ~c.closing /\ ~c.notified /\ c.uaf = ch.uaf
  BY <1>1 DEF Good, Channel, SetState, States
<1>m. Mute(ch, c)
  BY <1>0, <1>1 DEF Good, Channel, SetState, Mute, Early
<1>n. Mute(c, d) /\ d.opening = "done"
  BY <1>2 DEF Channel, Mute
<1>3. \/ \E task \in TaskType : task.op # "adopt" /\ ch' = PostTask(AcquirePendingTask(c), task)
      \/ ch' = d
  <2>1. /\ [op |-> "resolved", ok |-> TRUE] \in TaskType /\ [op |-> "noDns"] \in TaskType
        /\ [op |-> "resolved", ok |-> TRUE].op # "adopt" /\ [op |-> "noDns"].op # "adopt"
    BY DEF TaskType
  <2>2. \/ ch' = PostTask(AcquirePendingTask(c), [op |-> "resolved", ok |-> TRUE])
        \/ ch' = PostTask(AcquirePendingTask(c), [op |-> "noDns"])
        \/ ch' = [c EXCEPT !.dnsRequest = TRUE, !.abandoned = FALSE, !.dns = @ + 1]
    BY <1>1, <1>2 DEF OpenFinish
  <2> QED BY <2>1, <2>2
<1> HIDE DEF c, d
<1>4. Good(c)
  BY <1>1, <1>2 DEF Good
<1>5. Keeps(ch, c) /\ Told(c)
  BY <1>0, <1>m, MuteKeeps DEF Keeps
<1>6. Keeps(ch, ch') /\ ch'.opening = "done"
  <2>1. CASE ch' = d
    <3>1. Keeps(c, ch')
      BY <1>5, <1>n, <2>1, MuteKeeps
    <3> QED BY <1>5, <1>n, <2>1, <3>1, KeepsTrans
  <2>2. CASE \E task \in TaskType : task.op # "adopt" /\ ch' = PostTask(AcquirePendingTask(c), task)
    <3>1. PICK task \in TaskType : task.op # "adopt" /\ ch' = PostTask(AcquirePendingTask(c), task)
      BY <2>2
    <3>2. Keeps(c, ch')
      BY <1>4, <1>5, <3>1, PostKeepsTalk
    <3>3. ch'.opening = c.opening
      BY <1>2, <1>4, <3>1, PostKeeps
    <3> QED BY <1>2, <1>5, <3>2, <3>3, KeepsTrans
  <2> QED BY <1>3, <2>1, <2>2
<1>7. Asking(ch', caller)
  BY <1>0, <1>6, KeepsAsking, AdoptersAreUsers
<1>8. Asking(ch', caller')
  BY <1>1, <1>7
<1> QED BY <1>0, <1>6, <1>8 DEF TalkInv, Keeps

LEMMA WorkerTalk == TalkInv /\ (WorkerStart \/ WorkerDone) => TalkInv'
<1> SUFFICES ASSUME TalkInv, WorkerStart \/ WorkerDone PROVE TalkInv'
  OBVIOUS
<1>0. IInv /\ IInv' /\ Told(ch)
  BY WorkerIInv DEF TalkInv
<1>1. Good(ch) /\ ch.opening = "done" /\ caller' = caller
  BY <1>0 DEF IInv, WorkerStart, WorkerDone, NotOpened
<1>2. \/ ch' = ch
      \/ /\ ~ch.notified
         /\ \E task \in TaskType : task.op # "adopt" /\ ch' = PostTask(AcquirePendingTask(ch), task)
  BY DEF WorkerStart, WorkerDone, TaskType
<1>3. Keeps(ch, ch') /\ ch'.opening = "done"
  BY <1>0, <1>1, <1>2, KeepsSelf, PostKeepsTalk, PostKeeps
<1> QED BY <1>0, <1>1, <1>3, QueueStepTalk

LEMMA CallBeginTalk ==
  ASSUME TalkInv, NEW t \in Callers,
         NEW op \in {"send", "close", "adopt"}, NEW h \in Users \cup {NULL},
         CallBegin(t, op, h)
  PROVE  TalkInv'
<1>0. IInv /\ IInv' /\ Told(ch) /\ Asking(ch, caller)
  BY CallBeginIInv DEF TalkInv
<1>1. /\ ch' = ch /\ caller[t].pc = "idle"
      /\ caller' = [caller EXCEPT ![t] = [pc |-> "checked", op |-> op, h |-> h,
                                          calls |-> @.calls + 1]]
      /\ op = "adopt" => /\ ch.view[h] \in Free
                         /\ \A u \in Callers : caller[u].pc # "idle" => caller[u].h # h
  BY DEF CallBegin, Free
<1>2. caller \in [Callers -> CallerType]
  BY <1>0 DEF IInv
<1>3. /\ caller'[t].pc = "checked" /\ caller'[t].op = op /\ caller'[t].h = h
      /\ \A u \in Callers : u # t => caller'[u] = caller[u]
  BY <1>1, <1>2
<1>4. /\ \A u \in Callers : Holding(caller', u) <=> Holding(caller, u)
      /\ \A u \in Callers : u # t => (Adopting(caller', u) <=> Adopting(caller, u))
      /\ Adopting(caller', t) <=> op = "adopt"
      /\ ~Holding(caller', t) /\ ~Holding(caller, t)
  BY <1>1, <1>3 DEF Holding, Adopting
<1>5. Distinct(ch, caller')
  <2>1. \A u \in Callers : Adopting(caller', u) /\ ~Holding(caller', u)
                             => ch.view[caller'[u].h] \in Free
    BY <1>0, <1>1, <1>3, <1>4 DEF Asking, Distinct
  <2>2. \A u \in Callers : Holding(caller', u) => ch.view[caller'[u].h] = "asked"
    BY <1>0, <1>3, <1>4 DEF Asking, Distinct
  <2>3. \A u, w \in Callers :
          Adopting(caller', u) /\ Adopting(caller', w) /\ caller'[u].h = caller'[w].h => u = w
    <3>1. \A u \in Callers : u # t /\ Adopting(caller', u) /\ op = "adopt" => caller'[u].h # h
      BY <1>1, <1>3, <1>4 DEF Adopting
    <3> QED BY <1>0, <1>3, <1>4, <3>1 DEF Asking, Distinct
  <2>4. \A i \in Adopts(ch.events), u \in Callers :
          Holding(caller', u) => ch.events[i].h # caller'[u].h
    BY <1>0, <1>3, <1>4 DEF Asking, Distinct
  <2> QED BY <1>0, <2>1, <2>2, <2>3, <2>4 DEF Asking, Distinct
<1>6. \A g \in Handlers : ch.view[g] = "asked" => Waiting(ch, caller', g)
  BY <1>0, <1>3, <1>4 DEF Asking, Waiting
<1>7. Asking(ch, caller')
  BY <1>5, <1>6 DEF Asking
<1>8. Asking(ch', caller')
  BY <1>1, <1>7
<1> QED BY <1>0, <1>1, <1>8 DEF TalkInv

LEMMA CallAcquireTalk ==
  ASSUME TalkInv, NEW t \in Callers, CallAcquire(t)
  PROVE  TalkInv'
<1>0. /\ IInv /\ IInv' /\ Told(ch) /\ Asking(ch, caller)
      /\ ch.opening # "done" => ch.state = "IDLE"
      /\ ch.opening \in {"no", "created"} => ch.handler = NULL
  BY CallAcquireIInv DEF TalkInv
<1>1. /\ Good(ch) /\ caller[t].pc = "checked"
      /\ caller \in [Callers -> CallerType]
  BY <1>0 DEF IInv, CallAcquire, NotOpened
<1>2. CASE ch.notified
  <2>1. ch' = ch /\ caller' = [caller EXCEPT ![t].pc = "idle"]
    BY <1>2 DEF CallAcquire
  <2>2. /\ caller'[t].pc = "idle"
        /\ \A u \in Callers : u # t => caller'[u] = caller[u]
    BY <1>1, <2>1 DEF CallerType
  <2>3. /\ ~Holding(caller, t) /\ ~Holding(caller', t) /\ ~Adopting(caller', t)
        /\ \A u \in Callers : u # t => /\ Adopting(caller', u) <=> Adopting(caller, u)
                                       /\ Holding(caller', u) <=> Holding(caller, u)
    BY <1>1, <2>2 DEF Adopting, Holding
  <2>4. Distinct(ch, caller')
    BY <1>0, <2>2, <2>3 DEF Asking, Distinct
  <2>5. \A g \in Handlers : ch.view[g] = "asked" => Waiting(ch, caller', g)
    BY <1>0, <2>2, <2>3 DEF Asking, Waiting
  <2>6. Asking(ch, caller')
    BY <2>4, <2>5 DEF Asking
  <2>7. Asking(ch', caller')
    BY <2>1, <2>6
  <2> QED BY <1>0, <1>1, <2>1, <2>7 DEF TalkInv
<1>3. CASE ~ch.notified
  <2> DEFINE d == AcquirePendingTask(ch)
             h == caller[t].h
  <2>1. caller' = [caller EXCEPT ![t].pc = "acquired"]
    BY <1>3 DEF CallAcquire
  <2>2. /\ caller'[t].pc = "acquired" /\ caller'[t].op = caller[t].op /\ caller'[t].h = h
        /\ \A u \in Callers : u # t => caller'[u] = caller[u]
    BY <1>1, <2>1 DEF CallerType
  <2>3. Mute(ch, d) /\ d.opening = ch.opening /\ d.state = ch.state /\ d \in Channel
    <3>1. ch.tasks + 1 \in Nat
      BY <1>1, GoodTypes
    <3> QED BY <1>1, <3>1 DEF AcquirePendingTask, Good, Channel, Mute
  <2>k. Keeps(ch, d) /\ Told(d)
    <3> HIDE DEF d
    <3> QED BY <1>0, <2>3, MuteKeeps DEF Keeps
  <2>4. /\ \A u \in Callers : u # t => (Holding(caller', u) <=> Holding(caller, u))
        /\ \A u \in Callers : Adopting(caller', u) <=> Adopting(caller, u)
        /\ ~Holding(caller, t)
        /\ Holding(caller', t) <=> caller[t].op = "adopt"
        /\ \A u \in Callers : caller'[u].h = caller[u].h
        /\ Adopting(caller, t) <=> caller[t].op = "adopt"
    BY <1>1, <2>2 DEF Holding, Adopting
  <2>5. CASE caller[t].op # "adopt"
    <3>1. ch' = d
      BY <1>3, <2>5 DEF CallAcquire
    <3> HIDE DEF d
    <3>2. Distinct(ch, caller')
      BY <1>0, <2>4, <2>5 DEF Asking, Distinct
    <3>3. \A g \in Handlers : ch.view[g] = "asked" => Waiting(ch, caller', g)
      BY <1>0, <2>4, <2>5 DEF Asking, Waiting
    <3>4. Asking(ch, caller')
      BY <3>2, <3>3 DEF Asking
    <3>5. \A u \in Callers : Adopting(caller', u) => caller'[u].h \in Users
      BY <1>0, <2>4, AdoptersAreUsers
    <3>6. Asking(d, caller')
      BY <1>0, <2>k, <3>4, <3>5, KeepsAsking, AdoptersAreUsers
    <3>7. Asking(ch', caller')
      BY <3>1, <3>6
    <3>8. ch'.opening = ch.opening /\ ch'.state = ch.state /\ ch'.handler = ch.handler
      BY <2>3, <3>1 DEF Mute
    <3>9. Told(ch')
      BY <2>k, <3>1
    <3> QED BY <1>0, <3>7, <3>8, <3>9 DEF TalkInv
  <2>6. CASE caller[t].op = "adopt"
    <3> DEFINE v == [d.view EXCEPT ![h] = "asked"]
    <3>1. ch' = [d EXCEPT !.view = v]
      BY <1>3, <2>6 DEF CallAcquire
    <3>2. h \in Users /\ h \in Handlers /\ h # NULL /\ ch.view[h] \in Free
      BY <1>0, <2>4, <2>6, AdoptersAreUsers, ConstantsAssumption DEF Handlers, Asking, Distinct
    <3> HIDE DEF h
    <3>3. d.view = ch.view /\ ch.view \in [Handlers -> Views]
      BY <1>1, <2>3 DEF Mute, Good, Channel
    <3> HIDE DEF d
    <3>4. v[h] = "asked" /\ \A g \in Handlers : g # h => v[g] = ch.view[g]
      BY <3>2, <3>3
    <3> HIDE DEF v
    <3>5. /\ ch'.view = v /\ ch'.handler = d.handler /\ ch'.parked = d.parked
          /\ ch'.shutdown = d.shutdown /\ ch'.notified = d.notified
          /\ ch'.events = d.events /\ ch'.state = d.state /\ ch'.opening = d.opening
      BY <2>3, <3>1 DEF Channel
    <3>6. d.handler # h /\ (d.handler # NULL => d.handler \in Handlers)
      BY <2>3, <2>k, <3>2, <3>3 DEF Told, Attached, Free, Channel
    <3>7. Told(ch')
      <4>1. \A g \in Handlers : /\ ch'.view[g] # "broken"
                                /\ ch'.view[g] \in Attached => ch'.handler = g
        BY <2>k, <3>3, <3>4, <3>5 DEF Told, Attached
      <4>2. d.handler # NULL => ch'.view[d.handler] = d.view[d.handler]
        BY <3>3, <3>4, <3>5, <3>6
      <4> QED BY <2>k, <3>5, <4>1, <4>2 DEF Told
    <3>8. ch'.events = ch.events
      BY <2>3, <3>5 DEF Mute
    <3>9. Distinct(ch', caller')
      <4>1. \A u \in Callers : u # t /\ Adopting(caller, u) => caller[u].h # h
        BY <1>0, <2>4, <2>6 DEF Asking, Distinct, h
      <4>2. \A u \in Callers : Adopting(caller', u) /\ ~Holding(caller', u)
                                 => ch'.view[caller'[u].h] \in Free
        <5> TAKE u \in Callers
        <5> HAVE Adopting(caller', u) /\ ~Holding(caller', u)
        <5>1. u # t /\ Adopting(caller, u) /\ ~Holding(caller, u)
          BY <2>4, <2>6
        <5>2. caller[u].h # h /\ caller[u].h \in Handlers
          BY <1>0, <4>1, <5>1, AdoptersAreUsers DEF Handlers
        <5> QED BY <1>0, <2>4, <3>4, <3>5, <5>1, <5>2 DEF Asking, Distinct
      <4>3. \A u \in Callers : Holding(caller', u) => ch'.view[caller'[u].h] = "asked"
        <5> TAKE u \in Callers
        <5> HAVE Holding(caller', u)
        <5>1. CASE u = t
          BY <2>2, <3>4, <3>5, <5>1
        <5>2. CASE u # t
          <6>1. Holding(caller, u) /\ Adopting(caller, u)
            BY <2>4, <5>2 DEF Holding, Adopting
          <6>2. caller[u].h # h /\ caller[u].h \in Handlers
            BY <1>0, <4>1, <5>2, <6>1, AdoptersAreUsers DEF Handlers
          <6> QED BY <1>0, <2>4, <3>4, <3>5, <6>1, <6>2 DEF Asking, Distinct
        <5> QED BY <5>1, <5>2
      <4>4. \A u, w \in Callers :
              Adopting(caller', u) /\ Adopting(caller', w) /\ caller'[u].h = caller'[w].h => u = w
        BY <1>0, <2>4 DEF Asking, Distinct
      <4>5. \A i \in Adopts(ch.events) : /\ ch.view[ch.events[i].h] = "asked"
                                         /\ ch.events[i].h \in Handlers
                                         /\ ch.events[i].h # h
        BY <1>0, <3>2, AdoptersAreUsers DEF Asking, Distinct, Handlers, Free
      <4>6. \A i \in Adopts(ch'.events) : ch'.view[ch'.events[i].h] = "asked"
        BY <3>4, <3>5, <3>8, <4>5
      <4>7. \A i \in Adopts(ch.events), u \in Callers :
              Holding(caller', u) => ch.events[i].h # caller'[u].h
        <5> TAKE i \in Adopts(ch.events), u \in Callers
        <5> HAVE Holding(caller', u)
        <5>1. CASE u = t
          BY <2>2, <4>5, <5>1
        <5>2. CASE u # t
          BY <1>0, <2>4, <5>2 DEF Asking, Distinct
        <5> QED BY <5>1, <5>2
      <4>8. \A i, j \in Adopts(ch.events) : ch.events[i].h = ch.events[j].h => i = j
        BY <1>0 DEF Asking, Distinct
      <4> QED BY <3>8, <4>2, <4>3, <4>4, <4>6, <4>7, <4>8 DEF Distinct
    <3>10. \A g \in Handlers : ch'.view[g] = "asked" => Waiting(ch', caller', g)
      <4> TAKE g \in Handlers
      <4> HAVE ch'.view[g] = "asked"
      <4>1. CASE g = h
        BY <2>2, <2>4, <2>6, <4>1 DEF Waiting
      <4>2. CASE g # h
        <5>1. ch.view[g] = "asked"
          BY <3>4, <3>5, <4>2
        <5>2. Waiting(ch, caller, g)
          BY <1>0, <5>1 DEF Asking
        <5> QED BY <2>4, <3>8, <5>2 DEF Waiting
      <4> QED BY <4>1, <4>2
    <3>11. ch'.opening = ch.opening /\ ch'.state = ch.state /\ ch'.handler = ch.handler
      BY <2>3, <3>5 DEF Mute
    <3>12. Asking(ch', caller')
      BY <3>9, <3>10 DEF Asking
    <3> QED BY <1>0, <3>7, <3>11, <3>12 DEF TalkInv
  <2> QED BY <2>5, <2>6
<1> QED BY <1>2, <1>3

LEMMA AppendAdopts ==
  ASSUME NEW q \in Seq(TaskType), NEW x \in TaskType
  PROVE  LET p == Append(q, x)
         IN  /\ \A i \in Adopts(q) : i \in Adopts(p) /\ p[i] = q[i]
             /\ \A i \in Adopts(p) : i \in Adopts(q) \/ (i = Len(q) + 1 /\ x.op = "adopt")
             /\ p[Len(q) + 1] = x
             /\ x.op = "adopt" => Len(q) + 1 \in Adopts(p)
             /\ Len(q) + 1 \notin Adopts(q)
BY DEF Adopts

LEMMA CallPostTalk ==
  ASSUME TalkInv, NEW t \in Callers, CallPost(t)
  PROVE  TalkInv'
<1> DEFINE task == IF caller[t].op = "adopt"
                   THEN [op |-> "adopt", h |-> caller[t].h]
                   ELSE [op |-> caller[t].op]
           q == ch.events
           p == Append(q, task)
           h == caller[t].h
           n == Len(q) + 1
<1>0. IInv /\ IInv' /\ Told(ch) /\ Asking(ch, caller)
  BY CallPostIInv DEF TalkInv
<1>1. /\ Good(ch) /\ caller[t].pc = "acquired"
      /\ caller \in [Callers -> CallerType]
      /\ ch' = PostTask(ch, task)
      /\ caller' = [caller EXCEPT ![t].pc = "idle"]
  BY <1>0 DEF IInv, CallPost, NotOpened
<1>2. /\ caller[t].op \in {"send", "close", "adopt"}
      /\ caller[t].op = "adopt" => caller[t].h \in Users
  BY <1>0, <1>1 DEF IInv, InCallOK, CallerType
<1>3. /\ task \in TaskType
      /\ task.op = "adopt" <=> caller[t].op = "adopt"
      /\ task.op = "adopt" => task.h = h
  BY <1>2 DEF TaskType
<1> HIDE DEF task, h
<1>4. q \in Seq(TaskType)
  BY <1>1, GoodTypes
<1>5. ch' = [ch EXCEPT !.events = p]
  BY <1>1 DEF PostTask
<1>6. /\ \A i \in Adopts(q) : i \in Adopts(p) /\ p[i] = q[i]
      /\ \A i \in Adopts(p) : i \in Adopts(q) \/ (i = n /\ task.op = "adopt")
      /\ p[n] = task
      /\ task.op = "adopt" => n \in Adopts(p)
      /\ n \notin Adopts(q)
  BY <1>3, <1>4, AppendAdopts
<1> HIDE DEF p, n
<1>7. /\ ch'.view = ch.view /\ ch'.handler = ch.handler /\ ch'.parked = ch.parked
      /\ ch'.shutdown = ch.shutdown /\ ch'.notified = ch.notified
      /\ ch'.events = p /\ ch'.state = ch.state /\ ch'.opening = ch.opening
  BY <1>1, <1>5 DEF Good, Channel
<1>8. Told(ch')
  BY <1>0, <1>7 DEF Told
<1>9. /\ caller'[t].pc = "idle"
      /\ \A u \in Callers : u # t => caller'[u] = caller[u]
  BY <1>1 DEF CallerType
<1>10. /\ ~Adopting(caller', t) /\ ~Holding(caller', t)
       /\ \A u \in Callers : u # t => /\ Adopting(caller', u) <=> Adopting(caller, u)
                                      /\ Holding(caller', u) <=> Holding(caller, u)
  BY <1>9 DEF Adopting, Holding
<1>11. task.op = "adopt" => Holding(caller, t) /\ Adopting(caller, t)
  BY <1>1, <1>3 DEF Holding, Adopting
<1>q. ch.events = q
  OBVIOUS
<1> HIDE DEF q
<1>12. Distinct(ch', caller')
  <2>1. \A u \in Callers : Adopting(caller', u) /\ ~Holding(caller', u)
                             => ch'.view[caller'[u].h] \in Free
    BY <1>0, <1>7, <1>9, <1>10 DEF Asking, Distinct
  <2>2. \A u \in Callers : Holding(caller', u) => ch'.view[caller'[u].h] = "asked"
    BY <1>0, <1>7, <1>9, <1>10 DEF Asking, Distinct
  <2>3. \A u, w \in Callers :
          Adopting(caller', u) /\ Adopting(caller', w) /\ caller'[u].h = caller'[w].h => u = w
    BY <1>0, <1>9, <1>10 DEF Asking, Distinct
  <2>4. task.op = "adopt" => /\ ch.view[h] = "asked"
                             /\ \A i \in Adopts(q) : q[i].h # h
                             /\ \A u \in Callers : Adopting(caller, u) /\ u # t => caller[u].h # h
    BY <1>0, <1>11, <1>q DEF Asking, Distinct, h
  <2>5. \A i \in Adopts(p) : ch.view[p[i].h] = "asked"
    BY <1>0, <1>3, <1>6, <1>q, <2>4 DEF Asking, Distinct
  <2>6. \A i, j \in Adopts(p) : p[i].h = p[j].h => i = j
    <3>1. \A i, j \in Adopts(q) : q[i].h = q[j].h => i = j
      BY <1>0, <1>q DEF Asking, Distinct
    <3> QED BY <1>3, <1>6, <2>4, <3>1
  <2>7. \A i \in Adopts(p), u \in Callers : Holding(caller', u) => p[i].h # caller'[u].h
    <3> TAKE i \in Adopts(p), u \in Callers
    <3> HAVE Holding(caller', u)
    <3>1. u # t /\ Holding(caller, u) /\ Adopting(caller, u) /\ caller'[u].h = caller[u].h
      BY <1>9, <1>10 DEF Holding, Adopting
    <3>2. CASE i \in Adopts(q)
      BY <1>0, <1>6, <1>q, <3>1, <3>2 DEF Asking, Distinct
    <3>3. CASE i = n /\ task.op = "adopt"
      BY <1>3, <1>6, <2>4, <3>1, <3>3
    <3> QED BY <1>6, <3>2, <3>3
  <2> QED BY <1>7, <2>1, <2>2, <2>3, <2>5, <2>6, <2>7 DEF Distinct
<1>13. \A g \in Handlers : ch'.view[g] = "asked" => Waiting(ch', caller', g)
  <2> TAKE g \in Handlers
  <2> HAVE ch'.view[g] = "asked"
  <2>1. Waiting(ch, caller, g)
    BY <1>0, <1>7 DEF Asking
  <2>2. CASE \E i \in Adopts(q) : q[i].h = g
    BY <1>6, <1>7, <2>2 DEF Waiting
  <2>3. CASE \E u \in Callers : Holding(caller, u) /\ caller[u].h = g
    <3>1. PICK u \in Callers : Holding(caller, u) /\ caller[u].h = g
      BY <2>3
    <3>2. CASE u = t
      <4>1. task.op = "adopt" /\ task.h = g
        BY <1>3, <3>1, <3>2 DEF Holding, h
      <4> QED BY <1>6, <1>7, <4>1 DEF Waiting
    <3>3. CASE u # t
      BY <1>9, <1>10, <3>1, <3>3 DEF Waiting
    <3> QED BY <3>2, <3>3
  <2> QED BY <1>q, <2>1, <2>2, <2>3 DEF Waiting
<1> QED BY <1>0, <1>7, <1>8, <1>12, <1>13 DEF TalkInv, Asking

LEMMA InitTalk == Init => TalkInv
<1> SUFFICES ASSUME Init PROVE TalkInv
  OBVIOUS
<1>1. IInv
  BY InitIInv
<1>2. /\ ch.state = "IDLE" /\ ch.opening = "no" /\ ch.handler = NULL
      /\ ch.parked = FALSE /\ ch.shutdown = FALSE /\ ch.events = <<>>
      /\ ch.view = [h \in Handlers |-> "none"]
  BY DEF Init, InitChannel
<1>3. \A t \in Callers : caller[t].pc = "idle"
  BY DEF Init
<1>4. \A h \in Handlers : ch.view[h] = "none"
  BY <1>2
<1>5. Told(ch)
  BY <1>2, <1>4 DEF Told, Attached
<1>6. Adopts(ch.events) = {}
  BY <1>2 DEF Adopts
<1>7. Asking(ch, caller)
  BY <1>3, <1>4, <1>6 DEF Asking, Distinct, Adopting, Holding
<1> QED BY <1>1, <1>2, <1>5, <1>7 DEF TalkInv

LEMMA NextTalk == TalkInv /\ [Next]_vars => TalkInv' \/ DInv'
<1> SUFFICES ASSUME TalkInv, [Next]_vars PROVE TalkInv' \/ DInv'
  OBVIOUS
<1>1. CASE Open
  BY <1>1, OpenCreateTalk, OpenArmTalk, OpenFinishTalk DEF Open
<1>2. CASE WorkerStart \/ WorkerDone
  BY <1>2, WorkerTalk
<1>3. CASE \E t \in Callers : Call(t)
  BY <1>3, CallBeginTalk, CallAcquireTalk, CallPostTalk DEF Call
<1>4. CASE Queue
  <2>1. IInv
    BY DEF TalkInv
  <2>2. CASE RunTask
    BY <2>1, <2>2, RunTaskTalk, OvertakenByTask
  <2>3. CASE ConnectTimeout
    BY <2>1, <2>3, ConnectTimeoutTalk, OvertakenByTimer
  <2> QED BY <1>4, <2>2, <2>3, ConnectDoneTalk, RecvDoneTalk, SendDoneTalk,
             OnEventProcShutdownTalk DEF Queue
<1>5. CASE UNCHANGED vars
  <2>1. IInv'
    <3>1. Acquired' = Acquired
      BY <1>5 DEF vars, Acquired
    <3> QED BY <1>5, <3>1 DEF vars, TalkInv, IInv, NotOpened, WorkerKnown, InCallOK
  <2> QED BY <1>5, <2>1 DEF TalkInv, vars
<1> QED BY <1>1, <1>2, <1>3, <1>4, <1>5 DEF Next

LEMMA TalkNobodyForgotten == TalkInv => NobodyForgotten
<1> SUFFICES ASSUME TalkInv, ch.shutdown, ~Overtaken, NEW h \in Handlers
             PROVE  ch.view[h] \in {"none", "released", "closed"}
  BY DEF NobodyForgotten
<1>1. ch.handler = NULL /\ ch.notified /\ ch.view[h] \in Views
  BY DEF TalkInv, Told, IInv, Good, Channel
<1>2. ch.view[h] # "broken" /\ ch.view[h] \notin Attached
  BY <1>1, ConstantsAssumption DEF TalkInv, Told
<1>3. ch.events = <<>> /\ \A t \in Callers : caller[t].pc # "acquired"
  BY <1>1, IInvQuiet DEF TalkInv, QuietAfterClosed
<1>4. ~Waiting(ch, caller, h)
  BY <1>3 DEF Waiting, Adopts, Holding
<1>5. ch.view[h] # "asked"
  BY <1>4 DEF TalkInv, Asking
<1> QED BY <1>1, <1>2, <1>5 DEF Views, Attached

(***************************************************************************)
(* OnEventProcShutdown leaves nobody waiting: whoever opened the channel,  *)
(* used it, watched it or asked to adopt it has had its last callback, for *)
(* any number of handlers, threads and racing Send, Close and Adopt calls, *)
(* unless the close overtook Open itself.                                  *)
(***************************************************************************)
THEOREM EveryHandlerIsTold == Spec => []NobodyForgotten
<1> DEFINE Inv == TalkInv \/ DInv
<1>1. Init => Inv
  BY InitTalk
<1>2. Inv /\ [Next]_vars => Inv'
  BY NextTalk, NextDInv
<1>3. Inv => NobodyForgotten
  BY TalkNobodyForgotten DEF DInv, NobodyForgotten
<1> HIDE DEF Inv
<1> QED BY <1>1, <1>2, <1>3, PTL DEF Spec

(***************************************************************************)
(* No handler is ever called back out of turn: data only while it uses the *)
(* channel, detached only while it watches it, the answer to an Adopt only *)
(* and once if it asked, closed only while the channel is its own.         *)
(***************************************************************************)
THEOREM CallbacksKeepTheirOrder == Spec => []CallbacksInTurn
<1> DEFINE Inv == TalkInv \/ DInv
<1>1. Init => Inv
  BY InitTalk
<1>2. Inv /\ [Next]_vars => Inv'
  BY NextTalk, NextDInv
<1>3. Inv => CallbacksInTurn
  BY DEF TalkInv, Told, DInv, Fresh, CallbacksInTurn
<1> HIDE DEF Inv
<1> QED BY <1>1, <1>2, <1>3, PTL DEF Spec
=============================================================================
