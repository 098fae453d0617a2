--------------------------- MODULE UDPSenderGroup ---------------------------
(***************************************************************************)
(* The UDP senders of one SMPConnection (UDPSender.cpp) and the group that *)
(* races them until one hears from the server (UDPSenderGroup.cpp).        *)
(*                                                                         *)
(* Everything runs on one worker thread: the connection's tasks, and the   *)
(* BCTask of each sender.  A sender's task queue holds completions of its  *)
(* socket and at most one CTRL item, which makes the thread drain the      *)
(* event list of the sender's BCEventQueue (STARTs, RESTARTs, STOPs posted *)
(* by the API) before it does anything else.  The kernel, and a thread     *)
(* that destroys the group, run beside it.                                 *)
(*                                                                         *)
(* Restart is modelled as the group calls it, checkAvailable = false: no   *)
(* caller in the repository passes true.                                   *)
(***************************************************************************)
EXTENDS Integers, Sequences, FiniteSets

CONSTANTS
  Senders,
  Handles,        \* network handles of a Restart
  NULL,
  ForcePhysical,  \* m_eVpnPolicy == TT_VPN_POLICY_FORCE_PHYSICAL
  Recheck,        \* a platform where Connect unpins on a route mismatch
  OpenMayFail,    \* whether reopening the socket may fail
  Pins,           \* outcomes of tt_socket_pin
  Results,        \* outcomes of socket operations
  Owners,         \* who ends the group: its "connection", or a "creator"
                  \* that failed half way and calls Destroy
  MaxSend,        \* sends in progress on one sender
  MaxRestart      \* Restart calls

ASSUME GroupAssumption ==
  /\ NULL \notin Senders \cup Handles /\ IsFiniteSet(Senders)
  /\ ForcePhysical \in BOOLEAN /\ Recheck \in BOOLEAN /\ OpenMayFail \in BOOLEAN
  /\ Pins \subseteq BOOLEAN /\ "ok" \in Results
  /\ Results \subseteq {"ok", "unreach", "transient", "fatal"}
  /\ Owners \subseteq {"connection", "creator"}
  /\ MaxSend \in Nat /\ MaxRestart \in Nat

(* Results, up to what the callbacks tell apart.  "unreach" stands for     *)
(* NETUNREACH, HOSTUNREACH, ADDRNOTAVAIL; "transient" for the other errors *)
(* that keep the socket, CANCELED among them; "fatal" for the rest.        *)

VARIABLES
  snd,    \* the UDPSender objects, with their queues and socket operations
  busy,   \* the sender whose event list the worker thread is draining
  grp,    \* UDPSenderGroup
  conn,   \* the owner: its posted tasks and what it has called
  dtor    \* the thread in UDPSender::Destroy

vars == <<snd, busy, grp, conn, dtor>>

FREED == 0
INACTIVE == 1
READY == 3
READING == 4
MAX == 9

(* What _InitSocket meets: whether the socket opens and binds, and whether *)
(* tt_socket_pin succeeds.                                                 *)
Outcomes == [open : IF OpenMayFail THEN BOOLEAN ELSE {TRUE}, pin : Pins]

Item(k, r, gen) == [k |-> k, r |-> r, gen |-> gen]
CTRL == Item("CTRL", "ok", 0)
SHUTDOWN == Item("SHUTDOWN", "ok", 0)

Event(t, h) == [t |-> t, h |-> h]

Created(pin) ==
  [state |-> READING, newState |-> MAX, recv |-> 0, send |-> 0, restart |-> 0,
   handle |-> NULL, gen |-> 1, opened |-> 1, bound |-> pin, list |-> <<>>,
   taskq |-> <<>>, kRecv |-> 0, kSend |-> 0, detached |-> FALSE,
   shut |-> FALSE, openFailed |-> FALSE, fault |-> FALSE, posts |-> <<>>]

Init ==
  /\ \E pins \in [Senders -> Pins] : snd = [s \in Senders |-> Created(pins[s])]
  /\ busy = NULL
  /\ grp = [winner |-> NULL, closed |-> 0]
  /\ \E o \in Owners :
       conn = [owner |-> o, q |-> <<>>, started |-> FALSE, restarts |-> 0,
               closing |-> FALSE, deleted |-> FALSE]
  /\ dtor = [pc |-> "idle", s |-> NULL, done |-> {}]

-----------------------------------------------------------------------------
(* The event queue of a sender.                                            *)

Ctrls(b) == \E i \in DOMAIN b.taskq : b.taskq[i] = CTRL

(* PostEvent: the item is listed, and the task is woken unless it already  *)
(* is, or is draining the list now, or is gone.                            *)
Post(b, e, draining) ==
  [b EXCEPT !.list = Append(@, e),
            !.taskq = IF b.detached \/ Ctrls(b) \/ draining THEN @
                      ELSE Append(@, CTRL)]

(* BCEventQueue::Detach, idempotent: the shutdown runs after what is queued. *)
Detach(b) ==
  IF b.detached THEN b
  ELSE [b EXCEPT !.detached = TRUE, !.taskq = Append(@, SHUTDOWN)]

-----------------------------------------------------------------------------
(* UDPSender internals.                                                    *)

InitSocket(b, o) ==
  IF o.open
  THEN [b EXCEPT !.gen = b.opened + 1, !.opened = @ + 1, !.bound = o.pin]
  ELSE [b EXCEPT !.gen = 0, !.bound = FALSE, !.openFailed = TRUE]

(* _Restart: reopen, and tell the handler (posts: what it will be told).   *)
Reopen(b, o) ==
  [InitSocket(b, o) EXCEPT !.restart = @ - 1,
                           !.posts = IF o.open THEN Append(@, "restarted") ELSE @]

(* Cancel posts a CANCELED completion for what the kernel still holds.     *)
Cancel(b) ==
  [b EXCEPT !.taskq = @ \o [i \in 1..b.kRecv |-> Item("RECVDONE", "transient", b.gen)]
                        \o [i \in 1..b.kSend |-> Item("SENDDONE", "transient", b.gen)],
            !.kRecv = 0, !.kSend = 0]

StopReading(b) ==
  IF b.state = READING THEN [Cancel(b) EXCEPT !.state = READY] ELSE b

CloseSocket(b) == [b EXCEPT !.gen = 0]

(* Mutant: pending sends are not waited for.                               *)
ExitCheckIgnoringSends(b, o) ==
  LET e == [CloseSocket(StopReading(b)) EXCEPT !.state = INACTIVE]
  IN IF b.state <= b.newState THEN <<FALSE, b>>
     ELSE IF b.state = INACTIVE \/ b.recv > 0 \/ b.restart = 0 THEN <<TRUE, StopReading(b)>>
     ELSE <<FALSE, [Reopen(e, o) EXCEPT !.state = READING, !.newState = MAX]>>

(* _ExitCheck, as <<exiting, sender after it>>.                            *)
ExitCheck(b, o) ==
  LET c == StopReading(b)
      d == CloseSocket(c)
      e == [d EXCEPT !.state = INACTIVE]
  IN IF b.state <= b.newState THEN <<FALSE, b>>
     ELSE IF b.state = INACTIVE THEN <<TRUE, Detach(b)>>
     ELSE IF c.recv + c.send > 0 THEN <<TRUE, c>>
     ELSE IF Ctrls(d) THEN <<TRUE, d>>
     ELSE IF b.newState = INACTIVE
          THEN <<FALSE, IF e.restart > 0
                        THEN [Reopen(e, o) EXCEPT !.state = READING, !.newState = MAX]
                        ELSE e>>
     ELSE <<TRUE, Detach(e)>>

After(b, o) == ExitCheck(b, o)[2]
Exiting(b, o) == ExitCheck(b, o)[1]

(* _UDP_RecvChunk: RecvV2 on the socket, which has to be there.            *)
RecvChunk(b, o) ==
  LET c == After(b, o)
  IN IF Exiting(b, o) \/ c.recv > 0 THEN c
     ELSE IF c.gen = 0 THEN [c EXCEPT !.fault = TRUE]
     ELSE After([c EXCEPT !.recv = @ + 1, !.kRecv = @ + 1], o)

(* OnEventProcess's switch.                                                *)
Dispatch(b, e, o) ==
  CASE e.t = "START_RECV" -> RecvChunk(b, o)
    [] e.t = "STOPWORK"   -> [b EXCEPT !.newState = FREED]
    [] e.t = "RESTART_WORK" ->
         [b EXCEPT !.newState = IF b.restart = 0 THEN INACTIVE ELSE @,
                   !.restart = @ + 1, !.handle = e.h]

OnEvent(b, e, o) ==
  LET c == After(b, o)
  IN IF Exiting(b, o) THEN c ELSE After(Dispatch(c, e, o), o)

ClearBinding(b) == IF b.gen = 0 THEN b ELSE [b EXCEPT !.bound = FALSE]

(* The error arm shared by both completions: only outside a restart.       *)
OnIoError(b, r) ==
  IF r = "fatal" /\ b.restart = 0 THEN [b EXCEPT !.newState = FREED] ELSE b

OnSendError(b, r) ==
  IF r = "unreach" /\ b.restart = 0 THEN ClearBinding(b) ELSE OnIoError(b, r)

(* _RecvDoneCallback; heard says whether it goes on to _OnDataRecv.        *)
RecvFailed(b, r) == OnIoError([b EXCEPT !.recv = @ - 1], r)
Heard(b, r, o) == ~Exiting(RecvFailed(b, r), o)
RecvDone(b, r, o) ==
  LET c == After(RecvFailed(b, r), o)
  IN IF Heard(b, r, o) THEN After(RecvChunk(c, o), o) ELSE c

SendDone(b, r, o) ==
  LET c == OnSendError([b EXCEPT !.send = IF @ > 0 THEN @ - 1 ELSE @], r)
  IN After(After(c, o), o)

ConnectDone(b, r, o) ==
  After(IF r = "unreach" /\ ~ForcePhysical THEN ClearBinding(b) ELSE b, o)

-----------------------------------------------------------------------------
(* Calls of the owner, on the worker thread.  unpin: the route recheck of  *)
(* Connect found that the route to the peer leaves by another interface.   *)

ConnectSocket(b, c, o) ==
  LET a == After(b, o)
      u == IF c.unpin /\ a.bound /\ ~ForcePhysical /\ Recheck
           THEN ClearBinding(a) ELSE a
  IN IF Exiting(b, o) \/ a.gen = 0 THEN a
     ELSE [u EXCEPT !.taskq = Append(@, Item("CONNDONE", c.r, u.gen))]

SendOn(b, o) ==
  LET a == After(b, o)
  IN IF Exiting(b, o) THEN a
     ELSE IF a.gen = 0 THEN [a EXCEPT !.fault = TRUE]
     ELSE [a EXCEPT !.send = @ + 1, !.kSend = @ + 1]

WorkerFree == busy = NULL /\ ~conn.deleted

OwnerMayCall == WorkerFree /\ conn.owner = "connection" /\ ~conn.closing

PostAll(e) == snd' = [s \in Senders |-> Post(snd[s], e, FALSE)]

StartRecv ==
  /\ OwnerMayCall /\ ~conn.started
  /\ PostAll(Event("START_RECV", NULL))
  /\ conn' = [conn EXCEPT !.started = TRUE]
  /\ UNCHANGED <<busy, grp, dtor>>

Restart(h) ==
  /\ OwnerMayCall /\ conn.restarts < MaxRestart
  /\ PostAll(Event("RESTART_WORK", h))
  /\ conn' = [conn EXCEPT !.restarts = @ + 1]
  /\ UNCHANGED <<busy, grp, dtor>>

(* The winner alone sends once there is one; before, every sender does.    *)
SendTargets == IF grp.winner = NULL THEN Senders ELSE {grp.winner}

Send(o) ==
  /\ OwnerMayCall /\ conn.started
  /\ \A s \in SendTargets : snd[s].send < MaxSend
  /\ snd' = [s \in Senders |-> IF s \in SendTargets THEN SendOn(snd[s], o) ELSE snd[s]]
  /\ UNCHANGED <<busy, grp, conn, dtor>>

Close ==
  /\ OwnerMayCall
  /\ PostAll(Event("STOPWORK", NULL))
  /\ conn' = [conn EXCEPT !.closing = TRUE]
  /\ UNCHANGED <<busy, grp, dtor>>

(* The task SMPConnection::OnRestart posts: connect and listen again.      *)
OnRestart(o, cs) ==
  /\ WorkerFree /\ conn.q # <<>> /\ Head(conn.q) = "restarted"
  /\ snd' = IF conn.closing THEN snd
            ELSE [s \in Senders |->
                    Post(ConnectSocket(snd[s], cs[s], o), Event("START_RECV", NULL), FALSE)]
  /\ conn' = [conn EXCEPT !.q = Tail(@)]
  /\ UNCHANGED <<busy, grp, dtor>>

(* The task SMPConnection::OnUdpClosed posts: ~UDPSenderGroup deletes every *)
(* sender, all of which have closed.                                       *)
OnUdpClosed ==
  /\ WorkerFree /\ conn.q # <<>> /\ Head(conn.q) = "closed"
  /\ conn' = [conn EXCEPT !.q = Tail(@), !.deleted = TRUE]
  /\ UNCHANGED <<snd, busy, grp, dtor>>

-----------------------------------------------------------------------------
(* Callbacks from a sender through its SenderHandler.                      *)

SetSender(s, b) == snd' = [snd EXCEPT ![s] = [b EXCEPT !.posts = <<>>]]

(* Mutant: restarts are passed on only after a winner was found.           *)
NotifyWinnerOnly(s, b, more) ==
  conn' = [conn EXCEPT !.q = @ \o (IF grp.winner = s THEN b.posts ELSE <<>>) \o more]

(* OnSenderRestart passes on the winner's callbacks only, once there is a  *)
(* winner.  A failed restart goes to the application and posts nothing.    *)
NotifyOf(s, b, more) ==
  conn' = [conn EXCEPT !.q = @ \o (IF grp.winner \in {NULL, s} THEN b.posts ELSE <<>>) \o more]

(* OnSenderRecvData: the first sender that hears becomes the winner.       *)
Converge(s) == grp' = [grp EXCEPT !.winner = IF @ = NULL THEN s ELSE @]

-----------------------------------------------------------------------------
(* The worker thread inside a sender's task.                               *)

Next1(s, k) == /\ WorkerFree /\ snd[s].taskq # <<>> /\ Head(snd[s].taskq).k = k

Popped(s) == [snd[s] EXCEPT !.taskq = Tail(@)]

(* BCEventQueue::_EventCallback starts to drain the list ...               *)
EventCallback(s) ==
  /\ Next1(s, "CTRL")
  /\ SetSender(s, Popped(s))
  /\ busy' = s
  /\ UNCHANGED <<grp, conn, dtor>>

(* ... one event at a time ...                                             *)
OnEventProcess(s, o) ==
  /\ busy = s /\ snd[s].list # <<>>
  /\ LET b == OnEvent([snd[s] EXCEPT !.list = Tail(@)], Head(snd[s].list), o)
     IN SetSender(s, b) /\ NotifyOf(s, b, <<>>)
  /\ UNCHANGED <<busy, grp, dtor>>

(* ... until it is empty.                                                  *)
EventsDrained(s) ==
  /\ busy = s /\ snd[s].list = <<>>
  /\ busy' = NULL
  /\ UNCHANGED <<snd, grp, conn, dtor>>

RecvDoneCallback(s, o) ==
  /\ Next1(s, "RECVDONE")
  /\ LET r == Head(snd[s].taskq).r
         b == RecvDone(Popped(s), r, o)
     IN /\ SetSender(s, b) /\ NotifyOf(s, b, <<>>)
        /\ IF Heard(Popped(s), r, o) THEN Converge(s) ELSE UNCHANGED grp
  /\ UNCHANGED <<busy, dtor>>

SendDoneCallback(s, o) ==
  /\ Next1(s, "SENDDONE")
  /\ LET b == SendDone(Popped(s), Head(snd[s].taskq).r, o)
     IN SetSender(s, b) /\ NotifyOf(s, b, <<>>)
  /\ UNCHANGED <<busy, grp, dtor>>

ConnectDoneCB(s, o) ==
  /\ Next1(s, "CONNDONE")
  /\ LET b == ConnectDone(Popped(s), Head(snd[s].taskq).r, o)
     IN SetSender(s, b) /\ NotifyOf(s, b, <<>>)
  /\ UNCHANGED <<busy, grp, dtor>>

(* Mutant: the owner is told about the first sender that closes.           *)
AnyClosed == grp.closed + 1 > 0

(* Mutant: the count is compared before it includes this sender.           *)
MoreThanAllClosed == grp.closed >= Cardinality(Senders)

AllClosed == grp.closed + 1 >= Cardinality(Senders)

(* OnEventProcShutdown: flush, signal the thread in Destroy if it waits,   *)
(* then OnSenderUdpClosed, which tells the owner about the last one.       *)
OnEventProcShutdown(s) ==
  /\ Next1(s, "SHUTDOWN")
  /\ SetSender(s, [Popped(s) EXCEPT !.shut = TRUE, !.list = <<>>])
  /\ grp' = [grp EXCEPT !.closed = @ + 1]
  /\ dtor' = IF dtor.s = s /\ dtor.pc = "waiting" THEN [dtor EXCEPT !.pc = "signalled"]
             ELSE dtor
  /\ NotifyOf(s, snd[s], IF conn.owner = "connection" /\ AllClosed THEN <<"closed">> ELSE <<>>)
  /\ UNCHANGED busy

-----------------------------------------------------------------------------
(* The kernel completes what it holds, at any time.                        *)

RecvCompletes(s, r) ==
  /\ snd[s].kRecv > 0 /\ ~conn.deleted
  /\ snd' = [snd EXCEPT ![s].kRecv = 0,
                        ![s].taskq = Append(@, Item("RECVDONE", r, snd[s].gen))]
  /\ UNCHANGED <<busy, grp, conn, dtor>>

SendCompletes(s, r) ==
  /\ snd[s].kSend > 0 /\ ~conn.deleted
  /\ snd' = [snd EXCEPT ![s].kSend = @ - 1,
                        ![s].taskq = Append(@, Item("SENDDONE", r, snd[s].gen))]
  /\ UNCHANGED <<busy, grp, conn, dtor>>

-----------------------------------------------------------------------------
(* UDPSenderGroup::Destroy on the creator's thread: each sender in turn is *)
(* told to stop, and waited for on m_sExitCond.                            *)

DestroyPost(s) ==
  /\ conn.owner = "creator" /\ dtor.pc = "idle" /\ s \notin dtor.done
  /\ snd' = [snd EXCEPT ![s] = Post(@, Event("STOPWORK", NULL), busy = s)]
  /\ dtor' = [dtor EXCEPT !.pc = "posted", !.s = s]
  /\ UNCHANGED <<busy, grp, conn>>

DestroyWait ==
  /\ dtor.pc = "posted"
  /\ dtor' = [dtor EXCEPT !.pc = "waiting"]
  /\ UNCHANGED <<snd, busy, grp, conn>>

DestroyDone ==
  /\ dtor.pc = "signalled"
  /\ dtor' = [pc |-> "idle", s |-> NULL, done |-> dtor.done \cup {dtor.s}]
  /\ UNCHANGED <<snd, busy, grp, conn>>

-----------------------------------------------------------------------------
ConnEnvs == [r : {"ok", "unreach", "transient"}, unpin : Pins]

OwnerStep ==
  \/ StartRecv \/ Close
  \/ \E h \in Handles : Restart(h)
  \/ \E o \in Outcomes : Send(o)

OwnerTask ==
  \/ OnUdpClosed
  \/ \E o \in Outcomes, cs \in [Senders -> ConnEnvs] : OnRestart(o, cs)

SenderTask(s) ==
  \/ EventCallback(s) \/ EventsDrained(s) \/ OnEventProcShutdown(s)
  \/ \E o \in Outcomes : OnEventProcess(s, o)
  \/ \E o \in Outcomes : RecvDoneCallback(s, o)
  \/ \E o \in Outcomes : SendDoneCallback(s, o)
  \/ \E o \in Outcomes : ConnectDoneCB(s, o)

Kernel(s) == \E r \in Results : RecvCompletes(s, r) \/ SendCompletes(s, r)

Destroyer == DestroyWait \/ DestroyDone \/ \E s \in Senders : DestroyPost(s)

Next ==
  \/ OwnerStep \/ OwnerTask \/ Destroyer
  \/ \E s \in Senders : SenderTask(s) \/ Kernel(s)

Spec == Init /\ [][Next]_vars

(* The worker thread runs what is queued, and the destroying thread goes   *)
(* on.  Nothing is assumed of the kernel: a datagram may never come, and a *)
(* send may never finish.  The application need not call anything.         *)
FairSpec ==
  /\ Spec
  /\ WF_vars(OwnerTask) /\ WF_vars(Destroyer)
  /\ \A s \in Senders : WF_vars(SenderTask(s))

-----------------------------------------------------------------------------
Items == [k : {"RECVDONE", "SENDDONE", "CONNDONE"}, r : Results \cup {"transient"},
          gen : 1..(MaxRestart + 1)] \cup {CTRL, SHUTDOWN}

Events == [t : {"START_RECV", "STOPWORK", "RESTART_WORK"}, h : Handles \cup {NULL}]

(* Every variable keeps its type; a step leaves no callback undelivered    *)
(* (posts is empty between steps), m_nPendingRecv and m_nPendingRestart    *)
(* never exceed one, as the ASSERT of _RecvDoneCallback relies on.         *)
TypeOK ==
  /\ snd \in [Senders ->
       [state : {FREED, INACTIVE, READY, READING}, newState : {FREED, INACTIVE, MAX},
        recv : 0..1, send : 0..MaxSend, restart : 0..1, handle : Handles \cup {NULL},
        gen : 0..(MaxRestart + 1), opened : 1..(MaxRestart + 1), bound : BOOLEAN,
        list : Seq(Events), taskq : Seq(Items), kRecv : 0..1, kSend : 0..MaxSend,
        detached : BOOLEAN, shut : BOOLEAN, openFailed : BOOLEAN, fault : BOOLEAN,
        posts : {<<>>}]]
  /\ busy \in Senders \cup {NULL}
  /\ grp \in [winner : Senders \cup {NULL}, closed : 0..Cardinality(Senders)]
  /\ conn \in [owner : Owners, q : Seq({"restarted", "closed"}), started : BOOLEAN,
               restarts : 0..MaxRestart, closing : BOOLEAN, deleted : BOOLEAN]
  /\ dtor \in [pc : {"idle", "posted", "waiting", "signalled"},
               s : Senders \cup {NULL}, done : SUBSET Senders]

Queued(b, k) == {i \in DOMAIN b.taskq : b.taskq[i].k = k}

(* The two counters _ExitCheck waits on are exact: what a sender counts as *)
(* pending is held by the kernel or is a completion in its task queue, and *)
(* it belongs to the socket the sender has now.  So a completion of a      *)
(* socket that a restart replaced never reaches its successor, and a       *)
(* sender that has detached is called by nobody.                           *)
CompletionsMatchSocket ==
  \A s \in Senders : LET b == snd[s] IN
    /\ b.recv = b.kRecv + Cardinality(Queued(b, "RECVDONE"))
    /\ b.send = b.kSend + Cardinality(Queued(b, "SENDDONE"))
    /\ \A i \in Queued(b, "RECVDONE") \cup Queued(b, "SENDDONE") : b.taskq[i].gen = b.gen
    /\ b.detached => b.recv + b.send + b.gen = 0

(* ~UDPSenderGroup deletes the senders when all have closed: at that time  *)
(* none has a task, an event callback in progress or a socket operation    *)
(* that would still use it.                                                *)
DeleteIsSafe ==
  conn.deleted =>
    /\ busy = NULL
    /\ \A s \in Senders : snd[s].shut /\ snd[s].taskq = <<>> /\ snd[s].kRecv + snd[s].kSend = 0

Lost(s) ==
  \/ conn.closing \/ snd[s].newState = FREED \/ snd[s].openFailed
  \/ grp.winner \notin {NULL, s}

(* Once receiving was started, the sender that carries the connection is   *)
(* listening again after any number of restarts, though a START_RECV that  *)
(* meets a restart in progress is dropped by OnEventProcess.               *)
KeepsListening ==
  \A s \in Senders : conn.started ~> (snd[s].recv = 1 \/ Lost(s))

(* OnEventProcess dropped the STOPWORK of s, which met a draining restart. *)
StopDropped(s) ==
  /\ conn.closing /\ conn.restarts > 0 /\ snd[s].newState # FREED
  /\ \A i \in DOMAIN snd[s].list : snd[s].list[i].t # "STOPWORK"

(* Close, beside any restarts and failures, closes every sender and tells  *)
(* the owner, even if the kernel never completes a send or a receive by    *)
(* itself: only a STOPWORK that a draining restart dropped can keep it     *)
(* from that.                                                              *)
StopIsCarriedOut ==
  conn.closing ~> (conn.deleted \/ \E s \in Senders : StopDropped(s))
=============================================================================
