----------------------------- MODULE TcpChannel -----------------------------
(***************************************************************************)
(* One TcpChannel (src/src/cpp/TcpChannel.cpp): the TCP/TLS connection     *)
(* that HttpConnector and WSConnector are built on.                        *)
(*                                                                         *)
(* Three kinds of thread touch a channel.  Its event queue runs every      *)
(* posted task, timer and socket completion one at a time; a handler that  *)
(* runs there is one action here, written as a composition of operators    *)
(* on the channel record `ch', one operator per C++ method, in the order   *)
(* the method makes its calls.  Caller threads run Send, Close and Adopt,  *)
(* which test, then take a task token under guard_lock_, then post: three  *)
(* actions each.  A DnsExecutor worker resolves the name and posts the     *)
(* result unless the request was abandoned meanwhile.                      *)
(*                                                                         *)
(* `ch.view' is a history variable: what each ITcpChannelHandler has been  *)
(* told so far.  `ch.uaf' records a call into an SSLayer that is gone.     *)
(***************************************************************************)
EXTENDS Integers, Sequences, FiniteSets

CONSTANTS
  Users,          \* handlers that open or adopt the channel (HttpConnection)
  Watchers,       \* handlers a parked channel is left with (PooledChannel)
  NULL,           \* the null handler
  Callers,        \* threads that call Send, Close and Adopt
  Configs,        \* the TcpChannelConfig values Open may be given
  SyncErrors,     \* socket calls that can fail at once in this build
  MaxTasks,       \* a callback posts no task when this many are pending
  MaxSends,       \* the handshake writes nothing when this many are in flight
  MaxCalls        \* bound on the calls one caller thread makes

Handlers == Users \cup Watchers

States == {"IDLE", "RESOLVING", "PINNING", "CONNECTING", "TLS_HANDSHAKE",
           "READY", "CLOSING", "CLOSED"}

Policies == {"os", "prefer", "force"}

Results == {"none", "success", "timeout", "dns", "socket", "route", "pin", "tls",
            "verify", "connect", "recv", "send", "unexpected_end"}

(* What a handler knows: opening (it called Open), using (told ready),     *)
(* asked (Adopt accepted), watching (it is the Park watcher), released     *)
(* (it parked, was detached, or its Adopt failed), closed; broken is a     *)
(* callback it must never receive.                                         *)
Views == {"none", "opening", "using", "asked", "watching", "released",
          "closed", "broken"}

ConfigType == [tls : BOOLEAN, spki : BOOLEAN, policy : Policies,
               literal : BOOLEAN, nic : BOOLEAN]

TaskType == [op : {"send", "close", "noDns"}]
            \cup [op : {"adopt"}, h : Users]
            \cup [op : {"resolved"}, ok : BOOLEAN]

ASSUME ConstantsAssumption ==
  /\ NULL \notin Handlers /\ Users \cap Watchers = {}
  /\ IsFiniteSet(Callers)
  /\ Configs \subseteq ConfigType
  /\ SyncErrors \subseteq {"connect", "recv", "send"}
  /\ MaxTasks \in Nat /\ MaxSends \in Nat /\ MaxCalls \in Nat

VARIABLES
  ch,       \* the channel and its event queue
  worker,   \* the DnsExecutor worker serving this channel's request
  caller    \* program counter of each caller thread

vars == <<ch, worker, caller>>

NoConfig == [tls |-> FALSE, spki |-> FALSE, policy |-> "os",
             literal |-> FALSE, nic |-> FALSE]

InitChannel ==
  [state |-> "IDLE", cfg |-> NoConfig, opening |-> "no", handler |-> NULL,
   parked |-> FALSE, poisoned |-> FALSE, socket |-> FALSE,
   sslLayer |-> FALSE, sslState |-> "CONNECTING", bound |-> FALSE,
   pinned |-> FALSE, timer |-> FALSE, tlsClean |-> FALSE,
   dnsRequest |-> FALSE, abandoned |-> FALSE,
   dns |-> 0, connect |-> 0, recv |-> 0, send |-> 0, sslDepth |-> 0,
   tasks |-> 0, events |-> <<>>, closing |-> FALSE, notified |-> FALSE,
   result |-> "none", shutdown |-> FALSE,
   view |-> [h \in Handlers |-> "none"], uaf |-> FALSE]

Init ==
  /\ ch = InitChannel
  /\ worker = "none"
  /\ caller = [t \in Callers |-> [pc |-> "idle", op |-> "none", h |-> NULL,
                                  calls |-> 0]]

-----------------------------------------------------------------------------
(* What the handler h is told, and what that makes of its view.            *)

AfterCallback(kind, v) ==
  CASE kind = "ready"       /\ v \in {"opening", "asked"} -> "using"
    [] kind = "data"        /\ v = "using"                -> "using"
    [] kind = "adoptFailed" /\ v = "asked"                -> "released"
    [] kind = "detached"    /\ v = "watching"             -> "released"
    [] kind = "closed" /\ v \in {"opening", "using", "watching"} -> "closed"
    [] OTHER -> "broken"

Callback(c, kind, h) == [c EXCEPT !.view[h] = AfterCallback(kind, @)]

-----------------------------------------------------------------------------
(* State, pending-operation and task-token bookkeeping.                    *)

(* An illegal transition is logged and made all the same. *)
SetState(c, next) == [c EXCEPT !.state = next]

(* _AcquirePendingTask refuses exactly when c.notified. *)
AcquirePendingTask(c) == [c EXCEPT !.tasks = @ + 1]

ReleasePendingTask(c) == [c EXCEPT !.tasks = IF @ > 0 THEN @ - 1 ELSE 0]

PostTask(c, task) == [c EXCEPT !.events = Append(@, task)]

HasPendingIo(c) == c.dns > 0 \/ c.connect > 0 \/ c.recv > 0 \/ c.send > 0

IsParkedAndUsable(c) == c.parked /\ ~c.poisoned /\ c.state = "READY"

-----------------------------------------------------------------------------
(* Closing: _Fail, _CancelIo, _AbandonDns, _MaybeFinishClose, _Cleanup.    *)

AbandonDns(c) ==
  IF c.dnsRequest
  THEN [c EXCEPT !.abandoned = TRUE, !.dnsRequest = FALSE, !.dns = 0]
  ELSE c

(* Cancelled operations still complete, later, with CANCELED. *)
CancelIo(c) == AbandonDns([c EXCEPT !.timer = FALSE])

Cleanup(c) == [c EXCEPT !.socket = FALSE, !.sslLayer = FALSE]

(* Mutant: the close does not wait for posted tasks. *)
MaybeFinishCloseIgnoringTasks(c) ==
  IF c.closing /\ ~c.notified /\ c.sslDepth = 0 /\ ~HasPendingIo(c)
  THEN Cleanup([SetState(c, "CLOSED") EXCEPT !.notified = TRUE, !.timer = FALSE])
  ELSE c

(* Mutant: the close does not wait for the SSLayer call on the stack. *)
MaybeFinishCloseUnderSsl(c) ==
  IF c.closing /\ ~c.notified /\ ~HasPendingIo(c) /\ c.tasks = 0
  THEN Cleanup([SetState(c, "CLOSED") EXCEPT !.notified = TRUE, !.timer = FALSE])
  ELSE c

(* The test of pending_tasks_ and the write of closed_notified_ are one    *)
(* critical section of guard_lock_.  Detach unschedules the timer and      *)
(* posts the shutdown event.                                               *)
MaybeFinishClose(c) ==
  IF /\ c.closing /\ ~c.notified
     /\ c.sslDepth = 0
     /\ ~HasPendingIo(c)
     /\ c.tasks = 0
  THEN Cleanup([SetState(c, "CLOSED") EXCEPT !.notified = TRUE, !.timer = FALSE])
  ELSE c

Fail(c, res) ==
  IF c.closing
  THEN MaybeFinishClose(c)
  ELSE MaybeFinishClose(CancelIo(
         [SetState(c, "CLOSING") EXCEPT !.closing = TRUE, !.result = res]))

OnPeerClosed(c) ==
  IF c.state # "READY" \/ (c.cfg.tls /\ ~c.tlsClean)
  THEN Fail(c, "unexpected_end")
  ELSE Fail(c, "success")

-----------------------------------------------------------------------------
(* Socket I/O.  A call in SyncErrors may fail at once: `bad' says so.      *)

TcpRecv(c, bad) ==
  IF c.closing \/ ~c.socket \/ c.recv > 0
  THEN c
  ELSE IF bad THEN Fail(c, "recv") ELSE [c EXCEPT !.recv = @ + 1]

(* n slices are accepted by SendV; then, if bad, one is refused. *)
SendRaw(c, n, bad) ==
  IF c.closing \/ ~c.socket
  THEN c
  ELSE LET sent == [c EXCEPT !.send = @ + n]
       IN  IF bad THEN Fail(sent, "send") ELSE sent

-----------------------------------------------------------------------------
(* What a handler does inside OnChannelReady or OnChannelData: nothing, or *)
(* Send, Close, or (HttpConnector, on a complete response) Park.           *)

Park(c, watcher) ==
  IF c.state # "READY"
  THEN c
  ELSE [c EXCEPT !.handler = watcher, !.parked = TRUE,
                 !.view = [h \in Handlers |->
                             IF h = watcher THEN "watching"
                             ELSE IF h = c.handler THEN "released"
                             ELSE c.view[h]]]

Reactions == [op : {"none", "send", "close"}] \cup [op : {"park"}, w : Watchers]

React(c, r) ==
  CASE r.op = "send" /\ c.state = "READY" /\ ~c.notified ->
         PostTask(AcquirePendingTask(c), [op |-> "send"])
    [] r.op = "close" /\ ~c.notified ->
         PostTask(AcquirePendingTask(c), [op |-> "close"])
    [] r.op = "park" -> Park(c, r.w)
    [] OTHER -> c

(* The reactions that differ in state c, within the bounds: a channel that *)
(* is closing calls back nobody who could react.                           *)
CanReact(c, r) ==
  /\ c.closing => r.op = "none"
  /\ r.op \in {"send", "close"} => c.tasks < MaxTasks
  /\ r.op = "send" => c.send < MaxSends
  /\ r.op = "park" => c.view[r.w] \in {"none", "released"}

EnterReady(c, r) ==
  LET up == [SetState(c, "READY") EXCEPT !.timer = FALSE]
  IN  IF up.handler = NULL THEN up
      ELSE React(Callback(up, "ready", up.handler), r)

(* Mutant: data of a parked channel goes to its watcher. *)
OnRecvDataWhileParked(c, r) ==
  IF c.handler = NULL \/ c.state # "READY"
  THEN c
  ELSE React(Callback(c, "data", c.handler), r)

OnRecvDataFromSSL(c, r) ==
  CASE c.parked -> [c EXCEPT !.poisoned = TRUE]
    [] ~c.parked /\ (c.handler = NULL \/ c.state # "READY") -> c
    [] OTHER -> React(Callback(c, "data", c.handler), r)

-----------------------------------------------------------------------------
(* TLS.  SslReentryGuard keeps _MaybeFinishClose from freeing the SSLayer  *)
(* that is on the stack; its destructor runs the postponed close.  `o' is  *)
(* what BoringSSL does in this call.                                       *)

Outcomes ==
  [write : 0..1, writeBad : BOOLEAN, conn : {"want", "done", "error"},
   spkiOk : BOOLEAN, data : BOOLEAN, read : {"more", "error", "finished"},
   recvBad : BOOLEAN]

SyncBad(call) == IF call \in SyncErrors THEN BOOLEAN ELSE {FALSE}

(* The outcomes that differ in state c, within MaxSends and this build: a  *)
(* plain channel has only recvBad, an established SSLayer does not         *)
(* handshake, and a closing channel neither writes nor advances.  `reads'  *)
(* says whether the call decrypts received bytes.                          *)
OutcomesIn(c, reads) ==
  LET shakes == c.cfg.tls /\ c.sslState = "CONNECTING" /\ ~c.closing
  IN  [write    : IF shakes /\ c.send < MaxSends THEN 0..1 ELSE {0},
       writeBad : IF shakes THEN SyncBad("send") ELSE {FALSE},
       conn     : IF shakes THEN {"want", "done", "error"} ELSE {"want"},
       spkiOk   : IF shakes /\ c.cfg.spki THEN BOOLEAN ELSE {TRUE},
       data     : IF reads THEN BOOLEAN ELSE {FALSE},
       read     : IF reads THEN {"more", "error", "finished"} ELSE {"more"},
       recvBad  : SyncBad("recv")]

GuardEnter(c) ==
  [c EXCEPT !.sslDepth = @ + 1, !.uaf = @ \/ ~c.sslLayer]

GuardExit(c) ==
  LET left == [c EXCEPT !.sslDepth = @ - 1, !.uaf = @ \/ ~c.sslLayer]
  IN  IF left.sslDepth = 0 THEN MaybeFinishClose(left) ELSE left

VerifySpkiPin(c, o) ==
  IF c.cfg.spki /\ ~o.spkiOk THEN Fail(c, "verify") ELSE c

OnSSLReady(c, o, r) ==
  LET verified == VerifySpkiPin(c, o)
  IN  CASE c.closing \/ c.state # "TLS_HANDSHAKE" -> c
        [] ~c.closing /\ c.state = "TLS_HANDSHAKE" /\ verified.closing -> verified
        [] OTHER -> EnterReady(verified, r)

OnSSLFinished(c) == OnPeerClosed([c EXCEPT !.tlsClean = TRUE])

ConnectSSL(c, o, r) ==
  IF c.sslState # "CONNECTING"
  THEN c
  ELSE LET w == SendRaw(c, o.write, o.writeBad)
       IN  CASE o.conn = "done"  -> OnSSLReady([w EXCEPT !.sslState = "RW"], o, r)
             [] o.conn = "error" -> Fail(w, "tls")
             [] o.conn = "want"  -> w

(* Decrypted blocks are handed on after an SSL_read error too; a block     *)
(* that arrives once the channel is CLOSING is dropped.                    *)
ReadFromSSL(c, o, r) ==
  LET conn == ConnectSSL(c, o, r)
      read == IF o.read = "error" THEN Fail(conn, "tls") ELSE conn
      data == IF o.data THEN OnRecvDataFromSSL(read, r) ELSE read
  IN  IF conn.sslState # "RW" THEN conn
      ELSE IF o.read = "finished" THEN OnSSLFinished(data) ELSE data

(* An error in SSL_write is not reported to the channel. *)
WriteToSSL(c, n, bad) == SendRaw(c, n, bad)

-----------------------------------------------------------------------------
(* Pinning: the route check, then the pin, then connect.  `p' is what the  *)
(* system says: whether TLS and the socket could be set up, the route      *)
(* through the bound interface, the verdict of tt_vpn_pin_recheck, whether *)
(* the pin took, whether connect failed at once.                           *)

(* The answers that differ in state c. *)
PinningsIn(c) ==
  [tlsOk : IF c.cfg.tls THEN BOOLEAN ELSE {TRUE},
   socketOk : BOOLEAN,
   route : IF c.bound THEN {"unknown", "bound", "other"} ELSE {"unknown"},
   keep  : IF c.bound THEN BOOLEAN ELSE {TRUE},
   pinOk : IF c.bound THEN BOOLEAN ELSE {TRUE},
   connectBad : SyncBad("connect")]

DecidePinBeforeConnect(c, p) ==
  CASE ~c.bound -> c
    [] c.bound /\ c.cfg.policy = "force" ->
         IF p.route = "other" THEN Fail(c, "route") ELSE c
    [] c.bound /\ c.cfg.policy # "force" ->
         IF p.keep THEN c ELSE [c EXCEPT !.bound = FALSE, !.pinned = FALSE]

PinSocket(c, p) ==
  CASE ~c.bound -> c
    [] c.bound /\ p.pinOk -> [c EXCEPT !.pinned = TRUE]
    [] c.bound /\ ~p.pinOk ->
         IF c.cfg.policy = "force" THEN Fail(c, "pin")
         ELSE [c EXCEPT !.bound = FALSE, !.pinned = FALSE]

SetupTls(c, p) ==
  IF p.tlsOk THEN [c EXCEPT !.sslLayer = TRUE] ELSE Fail(c, "tls")

StartConnect(c, p) ==
  LET go == SetState(c, "CONNECTING")
  IN  IF p.connectBad THEN Fail(go, "connect")
      ELSE [go EXCEPT !.connect = @ + 1]

EnterPinning(c, p) ==
  LET c0 == SetState(c, "PINNING")
      c1 == IF c.cfg.tls THEN SetupTls(c0, p) ELSE c0
      c2 == IF p.socketOk
            THEN DecidePinBeforeConnect([c1 EXCEPT !.socket = TRUE], p)
            ELSE Fail(c1, "socket")
      c3 == PinSocket(c2, p)
  IN  IF c1.closing THEN c1
      ELSE IF c2.closing THEN c2
      ELSE IF c3.closing THEN c3
      ELSE StartConnect(c3, p)

OnResolveDone(c, ok, p) ==
  LET c1 == [c EXCEPT !.dns = IF @ > 0 THEN @ - 1 ELSE 0, !.dnsRequest = FALSE]
  IN  CASE c1.closing \/ c1.state # "RESOLVING" -> MaybeFinishClose(c1)
        [] ~c1.closing /\ c1.state = "RESOLVING" /\ ~ok -> Fail(c1, "dns")
        [] OTHER -> EnterPinning(c1, p)

-----------------------------------------------------------------------------
(* Open runs on the caller's thread, in three steps, because HttpConnector *)
(* publishes the connection before it opens it: from OpenCreate on the     *)
(* queue exists and takes a Close; OpenArm stores the handler and arms the *)
(* connect timer, if ScheduleTask can; OpenFinish stores RESOLVING and     *)
(* starts the lookup.  A call that Open refuses (no handler, a channel     *)
(* already opened, force-physical with no interface) leaves the channel    *)
(* IDLE and is not an action.                                              *)

OpenCreate(cfg) ==
  /\ ch.state = "IDLE" /\ ch.opening = "no"
  /\ cfg.policy = "force" => cfg.nic
  /\ ch' = [ch EXCEPT !.opening = "created", !.cfg = cfg,
                      !.bound = cfg.policy # "os" /\ cfg.nic]
  /\ UNCHANGED <<worker, caller>>

(* Nobody looks at what ScheduleTask returns; it fails without memory for  *)
(* the timer, and on a queue that was detached already.                    *)
OpenArm(h, armed) ==
  /\ ch.opening = "created"
  /\ armed => ~ch.notified
  /\ ch' = [ch EXCEPT !.opening = "begun", !.handler = h, !.timer = armed,
                      !.view[h] = "opening"]
  /\ UNCHANGED <<worker, caller>>

(* A _Fail that ran meanwhile does not stop Open: the lookup is started on *)
(* a channel that is closing or closed.  It may have run before or after   *)
(* RESOLVING was stored, and before or after dns_request_ was.             *)
OpenFinish ==
  /\ ch.opening = "begun"
  /\ \E s \in {"RESOLVING"} \cup (IF ch.closing THEN {ch.state} ELSE {}) :
       LET c == SetState([ch EXCEPT !.opening = IF ch.closing THEN "overtaken"
                                                ELSE "done"], s)
       IN  IF c.cfg.literal
           THEN /\ ch' = PostTask(IF c.notified THEN c ELSE AcquirePendingTask(c),
                                  [op |-> "resolved", ok |-> TRUE])
                /\ UNCHANGED worker
           ELSE \/ \E lost \in BOOLEAN :
                     /\ lost => ch.closing
                     /\ ch' = [c EXCEPT !.dnsRequest = ~lost, !.abandoned = lost,
                                        !.dns = @ + 1]
                     /\ worker' = "queued"
                \/ (* no DnsExecutor: the failure is posted *)
                   /\ ch' = PostTask(IF c.notified THEN c ELSE AcquirePendingTask(c),
                                     [op |-> "noDns"])
                   /\ UNCHANGED worker
  /\ UNCHANGED caller

(* _RunDnsRequest: before the lookup, under req->lock. *)
WorkerStart ==
  /\ worker = "queued"
  /\ worker' = IF ch.abandoned THEN "done" ELSE "resolving"
  /\ UNCHANGED <<ch, caller>>

(* _RunDnsRequest: after the lookup; one critical section of req->lock. *)
WorkerDone ==
  /\ worker = "resolving"
  /\ worker' = "done"
  /\ IF ch.abandoned \/ ch.notified
     THEN UNCHANGED ch
     ELSE \E ok \in BOOLEAN :
            ch' = PostTask(AcquirePendingTask(ch), [op |-> "resolved", ok |-> ok])
  /\ UNCHANGED caller

-----------------------------------------------------------------------------
(* Caller threads: Send, Close, Adopt.                                     *)

CallBegin(t, op, h) ==
  /\ caller[t].pc = "idle" /\ caller[t].calls < MaxCalls
  /\ ch.opening # "no"
  /\ op = "send"  => ch.state = "READY"
  /\ (op = "adopt") = (h # NULL)
  /\ op = "adopt" => /\ IsParkedAndUsable(ch)
                     /\ ch.view[h] \in {"none", "released"}
                     /\ \A u \in Callers : caller[u].pc # "idle" => caller[u].h # h
  /\ caller' = [caller EXCEPT ![t] = [pc |-> "checked", op |-> op, h |-> h,
                                      calls |-> @.calls + 1]]
  /\ UNCHANGED <<ch, worker>>

CallAcquire(t) ==
  /\ caller[t].pc = "checked"
  /\ IF ch.notified
     THEN /\ caller' = [caller EXCEPT ![t].pc = "idle"]
          /\ UNCHANGED ch
     ELSE /\ caller' = [caller EXCEPT ![t].pc = "acquired"]
          /\ ch' = IF caller[t].op = "adopt"
                   THEN [AcquirePendingTask(ch) EXCEPT !.view[caller[t].h] = "asked"]
                   ELSE AcquirePendingTask(ch)
  /\ UNCHANGED worker

CallPost(t) ==
  /\ caller[t].pc = "acquired"
  /\ ch' = PostTask(ch, IF caller[t].op = "adopt"
                        THEN [op |-> "adopt", h |-> caller[t].h]
                        ELSE [op |-> caller[t].op])
  /\ caller' = [caller EXCEPT ![t].pc = "idle"]
  /\ UNCHANGED worker

-----------------------------------------------------------------------------
(* Posted tasks.                                                           *)

(* Mutant: a send that comes too late does not resume the close. *)
RunSendDropped(c, n, bad) ==
  CASE c.state # "READY" -> c
    [] c.state = "READY" /\ c.sslLayer ->
         GuardExit(WriteToSSL(GuardEnter(c), n, bad))
    [] OTHER -> SendRaw(c, n, bad)

RunSend(c, n, bad) ==
  IF c.state # "READY"
  THEN MaybeFinishClose(c)
  ELSE IF c.sslLayer
       THEN GuardExit(WriteToSSL(GuardEnter(c), n, bad))
       ELSE SendRaw(c, n, bad)

HandOver(c, h, r) ==
  LET freed == IF c.handler = NULL THEN c ELSE Callback(c, "detached", c.handler)
  IN  React(Callback([freed EXCEPT !.parked = FALSE, !.handler = h], "ready", h), r)

(* Mutant: the watcher is not told it was detached. *)
RunAdoptSilently(c, h, r) ==
  IF ~IsParkedAndUsable(c)
  THEN Fail(Callback(c, "adoptFailed", h), "success")
  ELSE React(Callback([c EXCEPT !.parked = FALSE, !.handler = h], "ready", h), r)

RunAdopt(c, h, r) ==
  IF ~IsParkedAndUsable(c)
  THEN Fail(Callback(c, "adoptFailed", h), "success")
  ELSE HandOver(c, h, r)

(* The queue runs a task only while it is attached to its BCTask. *)
RunTask ==
  /\ ch.events # <<>> /\ ~ch.notified
  /\ LET task == Head(ch.events)
         c    == ReleasePendingTask([ch EXCEPT !.events = Tail(@)])
     IN  \/ /\ task.op = "send"
            /\ \E n \in 0..1, bad \in SyncBad("send") :
                 /\ n = 0 => bad \/ c.cfg.tls
                 /\ ch' = RunSend(c, n, bad)
         \/ /\ task.op = "close"
            /\ ch' = Fail(c, "success")
         \/ /\ task.op = "noDns"
            /\ ch' = Fail(c, "dns")
         \/ /\ task.op = "adopt"
            /\ \E r \in Reactions :
                 /\ r.op # "park" /\ CanReact(c, r)
                 /\ ch' = RunAdopt(c, task.h, r)
         \/ /\ task.op = "resolved"
            /\ \E p \in PinningsIn(c) :
                 ch' = OnResolveDone(c, task.ok, p)
  /\ UNCHANGED <<worker, caller>>

-----------------------------------------------------------------------------
(* Completions and the connect timer.  Only a cancelled operation ends     *)
(* with CANCELED, and operations are cancelled by _Fail.                   *)

Ends(c) == {"ok", "error"} \cup (IF c.closing THEN {"canceled"} ELSE {})

OnConnectDone(c, end, o, r) ==
  CASE end # "ok" -> Fail(c, "connect")
    [] end = "ok" /\ (c.closing \/ c.state # "CONNECTING") -> c
    [] end = "ok" /\ ~c.closing /\ c.state = "CONNECTING" /\ c.sslLayer ->
         LET reading == TcpRecv(SetState(c, "TLS_HANDSHAKE"), o.recvBad)
         IN  GuardExit(ConnectSSL(GuardEnter(reading), o, r))
    [] OTHER -> TcpRecv(EnterReady(c, r), o.recvBad)

ConnectDone ==
  /\ ch.connect > 0
  /\ \E end \in Ends(ch), o \in OutcomesIn(ch, FALSE), r \in Reactions :
       /\ CanReact(ch, r) /\ r.op # "park"
       /\ ch' = MaybeFinishClose(
                  OnConnectDone([ch EXCEPT !.connect = @ - 1], end, o, r))
  /\ UNCHANGED <<worker, caller>>

OnRecvDone(c, o, r) ==
  IF c.sslLayer
  THEN GuardExit(ReadFromSSL(GuardEnter(c), o, r))
  ELSE OnRecvDataFromSSL(c, r)

RecvDone ==
  /\ ch.recv > 0
  /\ LET c == [ch EXCEPT !.recv = @ - 1]
     IN  \/ \E o \in OutcomesIn(c, c.cfg.tls), r \in Reactions :
              /\ CanReact(c, r)
              /\ r.op = "park" => c.state = "READY"
              /\ ch' = MaybeFinishClose(TcpRecv(OnRecvDone(c, o, r), o.recvBad))
         \/ ch' = MaybeFinishClose(OnPeerClosed(c))
         \/ ch' = MaybeFinishClose(Fail(c, "recv"))
         \/ ch.closing /\ ch' = MaybeFinishClose(c)
  /\ UNCHANGED <<worker, caller>>

OnSendDone(c, o, r) ==
  IF c.sslLayer /\ c.state = "TLS_HANDSHAKE"
  THEN GuardExit(ConnectSSL(GuardEnter(c), o, r))
  ELSE c

SendDone ==
  /\ ch.send > 0
  /\ LET c == [ch EXCEPT !.send = @ - 1]
     IN  \/ \E o \in OutcomesIn(c, FALSE), r \in Reactions :
              /\ CanReact(c, r) /\ r.op # "park"
              /\ ch' = MaybeFinishClose(OnSendDone(c, o, r))
         \/ ch' = MaybeFinishClose(Fail(c, "send"))
         \/ ch.closing /\ ch' = MaybeFinishClose(c)
  /\ UNCHANGED <<worker, caller>>

(* Mutant: a timer that fires during the handshake is taken for stale. *)
ConnectTimeoutBeforeTls ==
  /\ ch.timer
  /\ ch' = IF ch.state = "TLS_HANDSHAKE" THEN [ch EXCEPT !.timer = FALSE]
           ELSE Fail([ch EXCEPT !.timer = FALSE], "timeout")
  /\ UNCHANGED <<worker, caller>>

ConnectTimeout ==
  /\ ch.timer
  /\ ch' = Fail([ch EXCEPT !.timer = FALSE], "timeout")
  /\ UNCHANGED <<worker, caller>>

(* The shutdown event is the last the queue runs. *)
OnEventProcShutdown ==
  /\ ch.notified /\ ~ch.shutdown
  /\ LET c == [ch EXCEPT !.shutdown = TRUE, !.handler = NULL]
     IN  ch' = IF ch.handler = NULL THEN c ELSE Callback(c, "closed", ch.handler)
  /\ UNCHANGED <<worker, caller>>

-----------------------------------------------------------------------------
Open ==
  \/ \E cfg \in Configs : OpenCreate(cfg)
  \/ \E h \in Users, armed \in BOOLEAN : OpenArm(h, armed)
  \/ OpenFinish

Call(t) ==
  \/ \E op \in {"send", "close", "adopt"}, h \in Users \cup {NULL} :
       CallBegin(t, op, h)
  \/ CallAcquire(t)
  \/ CallPost(t)

Queue ==
  RunTask \/ ConnectDone \/ RecvDone \/ SendDone \/ ConnectTimeout
  \/ OnEventProcShutdown

Next == Open \/ WorkerStart \/ WorkerDone \/ (\E t \in Callers : Call(t)) \/ Queue

Spec == Init /\ [][Next]_vars

(***************************************************************************)
(* Fairness.  The queue runs what is in it; a cancelled operation          *)
(* completes; an armed timer fires; a thread inside a call finishes it.    *)
(* No progress is assumed of the network, of the name lookup, or of        *)
(* anyone calling.                                                         *)
(***************************************************************************)
CancelledIoEnds == ch.closing /\ (ConnectDone \/ RecvDone \/ SendDone)

Fairness ==
  /\ WF_vars(Open /\ ch.opening # "no")
  /\ WF_vars(RunTask)
  /\ WF_vars(CancelledIoEnds)
  /\ WF_vars(ConnectTimeout)
  /\ WF_vars(OnEventProcShutdown)
  /\ \A t \in Callers : WF_vars(CallAcquire(t)) /\ WF_vars(CallPost(t))

FairSpec == Spec /\ Fairness

-----------------------------------------------------------------------------
(***************************************************************************)
(* Type correctness of the channel record, the worker and the callers.     *)
(***************************************************************************)
Channel ==
  [state : States, cfg : ConfigType,
   opening : {"no", "created", "begun", "done", "overtaken"},
   handler : Handlers \cup {NULL}, parked : BOOLEAN, poisoned : BOOLEAN,
   socket : BOOLEAN, sslLayer : BOOLEAN, sslState : {"CONNECTING", "RW"},
   bound : BOOLEAN, pinned : BOOLEAN, timer : BOOLEAN, tlsClean : BOOLEAN,
   dnsRequest : BOOLEAN, abandoned : BOOLEAN,
   dns : Nat, connect : Nat, recv : Nat, send : Nat, sslDepth : Nat,
   tasks : Nat, events : Seq(TaskType), closing : BOOLEAN,
   notified : BOOLEAN, result : Results, shutdown : BOOLEAN,
   view : [Handlers -> Views], uaf : BOOLEAN]

CallerType ==
  [pc : {"idle", "checked", "acquired"}, op : {"none", "send", "close", "adopt"},
   h : Users \cup {NULL}, calls : Nat]

TypeOK ==
  /\ ch \in Channel
  /\ worker \in {"none", "queued", "resolving", "done"}
  /\ caller \in [Callers -> CallerType]

(* A close ran while Open was still at work: the timer of its own channel, *)
(* or a Close of HttpConnector::Close, which finds the connection in the   *)
(* table before Open is called on it.                                      *)
Overtaken == ch.closing /\ ch.opening # "done"

(***************************************************************************)
(* Once closed_notified_ is set nothing can reach the channel any more: no *)
(* task is queued or about to be posted by a thread past the token check,  *)
(* no I/O or timer is pending, the socket and TLS objects are gone, and a  *)
(* DNS worker still running will not touch it.  This is what makes it safe *)
(* to delete the channel after OnChannelClosed (TcpChannel::~TcpChannel).  *)
(* It is said of every channel but one closed before its Open returned:    *)
(* there Open goes on to start a lookup on a closed channel.               *)
(***************************************************************************)
QuietAfterClosed ==
  ch.notified /\ ~Overtaken =>
    /\ ch.events = <<>> /\ ch.tasks = 0
    /\ \A t \in Callers : caller[t].pc # "acquired"
    /\ ~HasPendingIo(ch) /\ ~ch.timer /\ ~ch.dnsRequest
    /\ ~ch.socket /\ ~ch.sslLayer
    /\ worker \in {"queued", "resolving"} => ch.abandoned

(***************************************************************************)
(* When the channel is over, nobody is left waiting: whoever opened it,    *)
(* uses it, watches it or asked to adopt it has had its last callback.     *)
(* (An Open overtaken by a close may store handler_ after the callback.)   *)
(***************************************************************************)
NobodyForgotten ==
  ch.shutdown /\ ~Overtaken =>
    \A h \in Handlers : ch.view[h] \in {"none", "released", "closed"}

(***************************************************************************)
(* No handler is called back out of turn, whatever Adopt, Park, data and   *)
(* close race for the channel: ready only to one that opened it or asked   *)
(* for it, data only to its user, detached only to its watcher, and one    *)
(* answer to each Adopt.                                                   *)
(***************************************************************************)
CallbacksInTurn == \A h \in Handlers : ch.view[h] # "broken"

(***************************************************************************)
(* No SSLayer method is entered, or returned into, after _Cleanup has      *)
(* freed the SSLayer (SslReentryGuard).                                    *)
(***************************************************************************)
NoSslUseAfterFree == ~ch.uaf

(***************************************************************************)
(* A channel that started to close reports it: OnEventProcShutdown runs,   *)
(* whatever Close, Send and Adopt calls race with it.  (An Open overtaken  *)
(* by the close may leave it waiting for a lookup nobody will answer.)     *)
(***************************************************************************)
CloseCompletes == ch.closing /\ ~Overtaken ~> ch.shutdown

(***************************************************************************)
(* Whoever opened a channel whose connect timer could be armed hears of    *)
(* it, ready or closed, though the network, the peer's TLS and the name    *)
(* lookup may never answer.                                                *)
(***************************************************************************)
OpenSettles ==
  \A h \in Users :
    ch.view[h] = "opening" /\ ch.timer ~> ch.view[h] # "opening" \/ Overtaken
=============================================================================
