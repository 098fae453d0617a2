---------------------------- MODULE WSConnector ----------------------------
(***************************************************************************)
(* WSConnector and WSConnection (src/src/cpp/WSConnector.cpp): a WebSocket *)
(* client's connections from CreateConnection to OnClosed, and the         *)
(* connector's Close and draining destructor.                              *)
(*                                                                         *)
(* Per connection two threads matter, the one inside Connect and the       *)
(* event queue of its TcpChannel; they meet the Runtime queue, the         *)
(* callers of Close and the destructor in WSConnectorState.  A critical    *)
(* section of state->lock is one action; a thread inside an application    *)
(* callback is in `inFlight'.                                              *)
(*                                                                         *)
(* The TcpChannel is what module TcpChannel shows of it: Close posts a     *)
(* task, so a channel asked to close may still become ready or deliver     *)
(* data; Close before Open does nothing; after OnChannelClosed it calls    *)
(* nobody.  (A close that overtakes Open itself is left to that module.)   *)
(***************************************************************************)
EXTENDS Integers, FiniteSets

CONSTANTS
  Conns,      \* WSConnection objects
  Untimed,    \* those whose channel could not arm its connect timer
  NULL,
  MaxClose,   \* bound on the application's calls of WSConnector::Close
  Destroys    \* whether the connector may be destroyed

ASSUME WSAssumption ==
  /\ NULL \notin Conns /\ Untimed \subseteq Conns
  /\ MaxClose \in Nat /\ Destroys \in BOOLEAN

VARIABLES
  c,         \* the connections
  conns,     \* state->conns: the connections the connector knows
  st,        \* the flags of WSConnectorState
  posted,    \* connections whose removal is posted to the Runtime
  inFlight,  \* threads inside an application callback
  closer,    \* the application thread that calls WSConnector::Close
  dtor       \* ~WSConnector

vars == <<c, conns, st, posted, inFlight, closer, dtor>>

Threads == Conns \cup {"runtime", "user", "dtor"}

(* `phase' is the channel's; `q' what its queue thread has to do once it   *)
(* is out of a callback.  Two fields are not in the code: `view', what     *)
(* the handler has been told, and `outside', that the channel was opened   *)
(* when the connector no longer knew the connection.                       *)
NewConnection ==
  [life |-> "none", pc |-> "idle", connectCalled |-> FALSE,
   channelOpened |-> FALSE, channel |-> FALSE, phase |-> "idle",
   asked |-> FALSE, hsTimer |-> FALSE, hsBad |-> FALSE, upgraded |-> FALSE,
   checkTimer |-> FALSE, notified |-> FALSE, connectedOk |-> FALSE, handler |-> FALSE,
   q |-> "idle", view |-> "nothing", outside |-> FALSE]

NewState ==
  [closing |-> FALSE, notified |-> FALSE, abandoned |-> FALSE, handler |-> TRUE]

(* After WSConnector::Create. *)
Init ==
  /\ c = [x \in Conns |-> NewConnection]
  /\ conns = {}
  /\ st = NewState
  /\ posted = {}
  /\ inFlight = {}
  /\ closer = [pc |-> "idle", calls |-> 0]
  /\ dtor = [pc |-> "none", on |-> NULL]

-----------------------------------------------------------------------------
(* Operators on a connection record, one per method.                       *)

ChannelClose(r) ==
  IF r.channel /\ r.phase \in {"opening", "up"}
  THEN [r EXCEPT !.asked = TRUE] ELSE r

(* _Fail records the first reason and closes; reasons are not told apart.  *)
Fail(r) == ChannelClose(r)

(* What a handler has been told; anything out of order breaks its contract.*)
Tell(view, event) ==
  CASE view = "nothing" /\ event = "connected" -> "connected"
    [] view = "nothing" /\ event = "failed" -> "failed"
    [] view = "connected" /\ event \in {"message", "exception"} -> "connected"
    [] view = "connected" /\ event = "closed" -> "closed"
    [] OTHER -> "broken"

(* DispatchGuard: on x's queue thread, with record r of x, call the        *)
(* handler and go on with `next'; a handler that was cut off is not called.*)
Dispatch(x, r, event, next) ==
  IF r.handler
  THEN /\ c' = [c EXCEPT ![x] = [r EXCEPT !.view = Tell(r.view, event), !.q = next]]
       /\ inFlight' = inFlight \cup {x}
  ELSE /\ c' = [c EXCEPT ![x] = [r EXCEPT !.q = next]]
       /\ UNCHANGED inFlight

CallbackReturns(t) ==
  /\ t \in inFlight
  /\ dtor.on = t => dtor.pc = "done"
  /\ inFlight' = inFlight \ {t}
  /\ UNCHANGED <<c, conns, st, posted, closer, dtor>>

(* The end of a critical section that leaves `left' connections, on        *)
(* thread t: the last one out of a closing connector tells OnClosed.       *)
NotifyIfDrained(t, left) ==
  IF /\ ~st.abandoned /\ st.closing /\ ~st.notified
     /\ left = {} /\ st.handler
  THEN /\ st' = [st EXCEPT !.notified = TRUE]
       /\ inFlight' = inFlight \cup {t}
  ELSE UNCHANGED <<st, inFlight>>

-----------------------------------------------------------------------------
(* The application: creating and connecting.                               *)

CreateConnection(x) ==
  /\ c[x].life = "none" /\ ~st.closing /\ dtor.pc = "none"
  /\ c' = [c EXCEPT ![x].life = "live", ![x].handler = TRUE, ![x].channel = TRUE]
  /\ conns' = conns \cup {x}
  /\ UNCHANGED <<st, posted, inFlight, closer, dtor>>

(* Connect wins connect_called_ ... *)
ConnectBegin(x) ==
  /\ c[x].life = "live" /\ c[x].pc = "idle" /\ ~c[x].connectCalled
  /\ c' = [c EXCEPT ![x].pc = "called", ![x].connectCalled = TRUE]
  /\ UNCHANGED <<conns, st, posted, inFlight, closer, dtor>>

(* What ParseUrl and BuildHandshakeRequest make of the arguments. *)
Targets == {"good", "badUrl", "badHeader"}

(* ... and gives it back when there is nothing to connect to. *)
ConnectBuild(x) ==
  /\ c[x].pc = "called"
  /\ \E target \in Targets :
       c' = [c EXCEPT ![x].pc = IF target = "good" THEN "built" ELSE "idle",
                      ![x].connectCalled = target = "good"]
  /\ UNCHANGED <<conns, st, posted, inFlight, closer, dtor>>

ConnectMark(x) ==
  /\ c[x].pc = "built"
  /\ c' = [c EXCEPT ![x].pc = "marked", ![x].channelOpened = TRUE]
  /\ UNCHANGED <<conns, st, posted, inFlight, closer, dtor>>

(* Open fails at once, and the connection may be connected again, *)
ConnectRefused(x) ==
  /\ c[x].pc = "marked"
  /\ c' = [c EXCEPT ![x].pc = "idle", ![x].channelOpened = FALSE,
                    ![x].connectCalled = FALSE]
  /\ UNCHANGED <<conns, st, posted, inFlight, closer, dtor>>

(* or it is on its way. *)
ConnectOpen(x) ==
  /\ c[x].pc = "marked"
  /\ c' = [c EXCEPT ![x].pc = "recheck", ![x].phase = "opening",
                    ![x].outside = x \notin conns]
  /\ UNCHANGED <<conns, st, posted, inFlight, closer, dtor>>

(* Mutant: a Close that came before Open is not looked for. *)
ConnectRecheckMissing(x) ==
  /\ c[x].pc = "recheck"
  /\ c' = [c EXCEPT ![x].pc = "idle"]
  /\ UNCHANGED <<conns, st, posted, inFlight, closer, dtor>>

ConnectRecheck(x) ==
  /\ c[x].pc = "recheck"
  /\ c' = [c EXCEPT ![x] = [(IF st.closing THEN ChannelClose(@) ELSE @)
                               EXCEPT !.pc = "idle"]]
  /\ UNCHANGED <<conns, st, posted, inFlight, closer, dtor>>

(* WSConnection::Close, from any thread: a close frame where there is a    *)
(* handshake to follow it up, then the channel.                            *)
Close(x) ==
  /\ c[x].life = "live" /\ ~c[x].asked
  /\ c' = [c EXCEPT ![x] = ChannelClose(@)]
  /\ UNCHANGED <<conns, st, posted, inFlight, closer, dtor>>

-----------------------------------------------------------------------------
(* The channel's queue thread.                                             *)

QueueFree(x) == x \notin inFlight /\ c[x].q = "idle"

(* Mutant: a handshake timer that cannot be armed is shrugged off. *)
OnChannelReadyUnarmed(x) ==
  /\ QueueFree(x) /\ c[x].phase = "opening"
  /\ \E armed \in BOOLEAN :
       c' = [c EXCEPT ![x].phase = "up", ![x].hsTimer = armed]
  /\ UNCHANGED <<conns, st, posted, inFlight, closer, dtor>>

(* The request is sent and the rest of the time limit armed, or it fails.  *)
OnChannelReady(x) ==
  /\ QueueFree(x) /\ c[x].phase = "opening"
  /\ \/ c' = [c EXCEPT ![x].phase = "up", ![x].hsTimer = TRUE]
     \/ c' = [c EXCEPT ![x] = Fail([@ EXCEPT !.phase = "up"])]
  /\ UNCHANGED <<conns, st, posted, inFlight, closer, dtor>>

HandshakeTimeout(x) ==
  /\ QueueFree(x) /\ c[x].phase = "up" /\ c[x].hsTimer
  /\ c' = [c EXCEPT ![x] = Fail([@ EXCEPT !.hsTimer = FALSE])]
  /\ UNCHANGED <<conns, st, posted, inFlight, closer, dtor>>

(* A response, by what the client looks at: whether its headers keep the   *)
(* limits (64 KB, 16 KB each, 200 of them), and the four things that make  *)
(* it the answer to this handshake.                                        *)
Responses ==
  [fits : BOOLEAN, status : {101, 200}, upgrade : {"websocket", "other"},
   connection : {"upgrade", "other"}, accept : {"match", "other", "none"}]

CheckHandshakeResponse(resp) ==
  /\ resp.status = 101
  /\ resp.upgrade = "websocket"
  /\ resp.connection = "upgrade"
  /\ resp.accept = "match"

Accepted(resp) == resp.fits /\ CheckHandshakeResponse(resp)

(* OnChannelData before the upgrade: the response is complete and good,    *)
(* or it fails the handshake for good.                                     *)
OnHandshakeResponse(x) ==
  /\ QueueFree(x) /\ c[x].phase = "up" /\ ~c[x].upgraded
  /\ \E ok \in {Accepted(resp) : resp \in Responses} :
       IF ok /\ ~c[x].hsBad
       THEN Dispatch(x, [c[x] EXCEPT !.hsTimer = FALSE, !.upgraded = TRUE,
                                     !.notified = TRUE, !.connectedOk = TRUE],
                     "connected", "armCheck")
       ELSE /\ c' = [c EXCEPT ![x] = Fail([@ EXCEPT !.hsBad = TRUE])]
            /\ UNCHANGED inFlight
  /\ UNCHANGED <<conns, st, posted, closer, dtor>>

(* After OnConnectResult: the keep-alive timer, where it is configured and *)
(* can be armed.                                                           *)
ArmCheckTimer(x) ==
  /\ x \notin inFlight /\ c[x].q = "armCheck"
  /\ \E armed \in BOOLEAN :
       c' = [c EXCEPT ![x].q = "idle", ![x].checkTimer = armed]
  /\ UNCHANGED <<conns, st, posted, inFlight, closer, dtor>>

(* A text or binary frame; pings and pongs change nothing here. *)
OnMessageFrame(x) ==
  /\ QueueFree(x) /\ c[x].phase = "up" /\ c[x].upgraded
  /\ Dispatch(x, c[x], "message", "idle")
  /\ UNCHANGED <<conns, st, posted, closer, dtor>>

OnCloseFrame(x) ==
  /\ QueueFree(x) /\ c[x].phase = "up" /\ c[x].upgraded
  /\ c' = [c EXCEPT ![x] = ChannelClose(@)]
  /\ UNCHANGED <<conns, st, posted, inFlight, closer, dtor>>

(* _FeedFrames: bytes that are no frame are reported, then answered with a *)
(* close frame and the end of the connection.                              *)
OnBadFrame(x) ==
  /\ QueueFree(x) /\ c[x].phase = "up" /\ c[x].upgraded
  /\ Dispatch(x, c[x], "exception", "giveUp")
  /\ UNCHANGED <<conns, st, posted, closer, dtor>>

GiveUp(x) ==
  /\ x \notin inFlight /\ c[x].q = "giveUp"
  /\ c' = [c EXCEPT ![x] = Fail([@ EXCEPT !.q = "idle"])]
  /\ UNCHANGED <<conns, st, posted, inFlight, closer, dtor>>

(* _OnActiveCheck finds the connection idle for too long. *)
IdleTimeout(x) ==
  /\ QueueFree(x) /\ c[x].phase = "up" /\ c[x].checkTimer
  /\ ~c[x].asked
  /\ c' = [c EXCEPT ![x] = ChannelClose(@)]
  /\ UNCHANGED <<conns, st, posted, inFlight, closer, dtor>>

(* Mutant: a connection that never was is reported as closed, too. *)
DeliverOnceClosed(x, r) == Dispatch(x, r, "closed", "detach")

(* _DeliverOnce: a connection that never was is told so by its connect     *)
(* result, any other by OnClosed.                                          *)
DeliverOnce(x, r) ==
  IF r.connectedOk THEN Dispatch(x, r, "closed", "detach")
  ELSE IF r.notified THEN /\ c' = [c EXCEPT ![x] = [r EXCEPT !.q = "detach"]]
                          /\ UNCHANGED inFlight
  ELSE Dispatch(x, [r EXCEPT !.notified = TRUE], "failed", "detach")

(* OnChannelClosed: asked for, or because the channel failed or ended.     *)
OnChannelClosed(x) ==
  /\ QueueFree(x) /\ c[x].phase \in {"opening", "up"}
  /\ DeliverOnce(x, [c[x] EXCEPT !.phase = "over", !.hsTimer = FALSE,
                                 !.checkTimer = FALSE])
  /\ UNCHANGED <<conns, st, posted, closer, dtor>>

(* Its second half: the channel is let go of, its deletion and the removal *)
(* of the connection are posted.                                           *)
Detach(x) ==
  /\ x \notin inFlight /\ c[x].q = "detach"
  /\ c' = [c EXCEPT ![x].q = "over", ![x].channel = FALSE]
  /\ posted' = posted \cup {x}
  /\ UNCHANGED <<conns, st, inFlight, closer, dtor>>

-----------------------------------------------------------------------------
(* The Runtime and the connector.                                          *)

RemoveConnAndMaybeNotify(x) ==
  /\ x \in posted /\ "runtime" \notin inFlight
  /\ posted' = posted \ {x}
  /\ conns' = conns \ {x}
  /\ NotifyIfDrained("runtime", conns \ {x})
  /\ UNCHANGED <<c, closer, dtor>>

(* The critical section of Close: connections never opened are dropped,    *)
(* the others asked to close (_CancelLocked).                              *)
CloseLocked ==
  /\ st' = [st EXCEPT !.closing = TRUE]
  /\ conns' = {x \in conns : c[x].channelOpened}
  /\ c' = [x \in Conns |-> IF x \in conns /\ c[x].channelOpened
                           THEN ChannelClose(c[x]) ELSE c[x]]

UserClose ==
  /\ closer.pc = "idle" /\ closer.calls < MaxClose /\ dtor.pc = "none"
  /\ "user" \notin inFlight
  /\ closer' = [pc |-> "notify", calls |-> closer.calls + 1]
  /\ CloseLocked
  /\ UNCHANGED <<posted, inFlight, dtor>>

UserNotify ==
  /\ closer.pc = "notify"
  /\ closer' = [closer EXCEPT !.pc = "idle"]
  /\ NotifyIfDrained("user", conns)
  /\ UNCHANGED <<c, conns, posted, dtor>>

(* ~WSConnector begins with Close; `on' is the thread whose callback it    *)
(* was called in, if any.                                                  *)
DtorBegin(on) ==
  /\ Destroys /\ dtor.pc = "none"
  /\ closer.pc = "idle" /\ ("user" \in inFlight => on = "user")
  /\ on = NULL \/ on \in inFlight
  /\ dtor' = [pc |-> "notify", on |-> on]
  /\ CloseLocked
  /\ UNCHANGED <<posted, inFlight, closer>>

DtorNotify ==
  /\ dtor.pc = "notify"
  /\ dtor' = [dtor EXCEPT !.pc = "wait"]
  /\ NotifyIfDrained("dtor", conns)
  /\ UNCHANGED <<c, conns, posted, closer>>

NobodyElseInCallback == inFlight \subseteq {dtor.on}

DtorDrained ==
  /\ dtor.pc = "wait" /\ conns = {} /\ NobodyElseInCallback
  /\ dtor' = [dtor EXCEPT !.pc = "done"]
  /\ UNCHANGED <<c, conns, st, posted, inFlight, closer>>

(* Mutant: the connections left keep their handlers. *)
DtorAbandonKeeps ==
  /\ dtor.pc = "wait" /\ "dtor" \notin inFlight
  /\ ~(conns = {} /\ NobodyElseInCallback)
  /\ dtor' = [dtor EXCEPT !.pc = "abandoned"]
  /\ st' = [st EXCEPT !.abandoned = TRUE, !.handler = FALSE]
  /\ UNCHANGED <<c, conns, posted, inFlight, closer>>

(* drainTimeoutMs passed, at once when called in a callback: whoever is    *)
(* left is cut off.                                                        *)
DtorAbandon ==
  /\ dtor.pc = "wait" /\ "dtor" \notin inFlight
  /\ ~(conns = {} /\ NobodyElseInCallback)
  /\ dtor' = [dtor EXCEPT !.pc = "abandoned"]
  /\ st' = [st EXCEPT !.abandoned = TRUE, !.handler = FALSE]
  /\ c' = [x \in Conns |-> [c[x] EXCEPT !.handler = @ /\ x \notin conns]]
  /\ UNCHANGED <<conns, posted, inFlight, closer>>

DtorAbandoned ==
  /\ dtor.pc = "abandoned" /\ NobodyElseInCallback
  /\ dtor' = [dtor EXCEPT !.pc = "done"]
  /\ UNCHANGED <<c, conns, st, posted, inFlight, closer>>

-----------------------------------------------------------------------------
ConnectStep(x) ==
  \/ ConnectBuild(x) \/ ConnectMark(x) \/ ConnectRefused(x) \/ ConnectOpen(x)
  \/ ConnectRecheck(x)

QueueStep(x) == ArmCheckTimer(x) \/ GiveUp(x) \/ Detach(x)

DtorStep == DtorNotify \/ DtorDrained \/ DtorAbandoned

Next ==
  \/ \E x \in Conns :
       \/ CreateConnection(x) \/ ConnectBegin(x) \/ ConnectStep(x) \/ Close(x)
       \/ OnChannelReady(x) \/ HandshakeTimeout(x) \/ OnHandshakeResponse(x)
       \/ OnMessageFrame(x) \/ OnCloseFrame(x) \/ OnBadFrame(x) \/ IdleTimeout(x)
       \/ OnChannelClosed(x) \/ QueueStep(x) \/ RemoveConnAndMaybeNotify(x)
  \/ UserClose \/ UserNotify
  \/ \E on \in Threads \cup {NULL} : DtorBegin(on)
  \/ DtorStep \/ DtorAbandon
  \/ \E t \in Threads : CallbackReturns(t)

Spec == Init /\ [][Next]_vars

(***************************************************************************)
(* Fairness: threads inside a call go on, callbacks return, the Runtime    *)
(* runs, a channel asked to close, or stuck in opening with its connect    *)
(* timer armed, ends (TcpChannel's CloseCompletes and OpenSettles), the    *)
(* handshake timer and the destructor's wait run out.  Nothing is assumed  *)
(* of servers, or of a channel that opens without a timer.                 *)
(***************************************************************************)
Fairness ==
  /\ \A x \in Conns :
       /\ WF_vars(ConnectStep(x))
       /\ WF_vars(QueueStep(x))
       /\ WF_vars(RemoveConnAndMaybeNotify(x))
       /\ WF_vars(HandshakeTimeout(x))
       /\ SF_vars(/\ c[x].asked \/ (x \notin Untimed /\ c[x].phase = "opening")
                  /\ OnChannelClosed(x))
  /\ WF_vars(UserNotify)
  /\ WF_vars(DtorStep)
  /\ WF_vars(DtorAbandon)
  /\ \A t \in Threads : WF_vars(CallbackReturns(t))

FairSpec == Spec /\ Fairness

-----------------------------------------------------------------------------
(***************************************************************************)
(* What the handler of a connection relies on (IWSConnectionHandler): one  *)
(* connect result; messages, exceptions and one OnClosed only after a      *)
(* successful one; nothing after OnClosed or after a failed one.           *)
(***************************************************************************)
HandlerContractKept == \A x \in Conns : c[x].view # "broken"

(***************************************************************************)
(* After ~WSConnector no handler of a connection it knew is in a callback, *)
(* except the one it was called from, or will be called again, and neither *)
(* is the connector's own handler.                                         *)
(***************************************************************************)
NoCallbackAfterDestruction ==
  dtor.pc = "done" =>
    /\ inFlight \subseteq {dtor.on} \cup {x \in Conns : c[x].outside}
    /\ \A x \in Conns :
         \/ c[x].outside \/ ~c[x].handler \/ x = dtor.on
         \/ c[x].phase = "idle" \/ c[x].q \in {"detach", "over"}

(***************************************************************************)
(* A Connect that was accepted is answered, whatever the server does: by   *)
(* the connect timer, the handshake timer or the end of the channel,       *)
(* unless the destructor cut the handler off.  A channel that opens        *)
(* without a connect timer and is not asked to close may hang.             *)
(***************************************************************************)
ConnectAnswered ==
  \A x \in Conns :
    c[x].pc = "recheck" ~>
      \/ c[x].view # "nothing" \/ ~c[x].handler
      \/ x \in Untimed /\ [](c[x].phase = "opening" /\ ~c[x].asked)

(***************************************************************************)
(* WSConnector::Close leads to OnClosed, unless the destructor gave up, or *)
(* a connection is left whose Open failed after Close had counted it as    *)
(* opened: only another Close removes it.                                  *)
(***************************************************************************)
CloseSettles ==
  st.closing ~> \/ st.notified \/ st.abandoned
                \/ \E x \in conns : ~c[x].channelOpened
=============================================================================
