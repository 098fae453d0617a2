----------------------------- MODULE NodeBinding -----------------------------
(***************************************************************************)
(* The Node binding of HttpConnector and WSConnector: JsHttpConnectorWrap, *)
(* JsWSConnectorWrap, the connection wraps and sinks, and the exchanger    *)
(* that carries events from the library's threads to the JavaScript thread *)
(* (JsExchanger over UVEventFactory).                                      *)
(*                                                                         *)
(* The JavaScript thread drains the exchanger's list, one handler call at  *)
(* a time.  The application's code runs on the same thread, between events *)
(* and inside the callbacks an event makes.  Wraps are garbage collected   *)
(* when nothing refers to them and no Ref() holds them, from the event     *)
(* loop and never inside a callback.  The connectors themselves are        *)
(* HttpConnector.tla and WSConnector.tla; here they answer what they were  *)
(* asked, in any order, and call OnClosed once everything has ended.       *)
(***************************************************************************)
EXTENDS Integers, FiniteSets, Sequences

CONSTANTS
  Tasks,        \* HTTP requests
  Conns,        \* WebSocket connections
  MaxCloses,    \* bound on calls of a connector's close
  MaxMessages   \* bound on messages per connection

ASSUME BindingAssumption == MaxCloses \in Nat /\ MaxMessages \in Nat

VARIABLES
  ex,    \* the exchanger
  js,    \* the JavaScript thread
  wrap,  \* JsHttpConnectorWrap and JsWSConnectorWrap
  task,  \* the requests
  conn   \* the connection wraps, their sinks and connections

vars == <<ex, js, wrap, task, conn>>

Wraps == {"http", "ws"}

Event(h, kind, id) == [h |-> h, kind |-> kind, id |-> id]

-----------------------------------------------------------------------------
(* The exchanger.                                                          *)

(* QueueEvent: the loop is woken only if no wake-up is under way and it is *)
(* not running.                                                            *)
QueueEvent(x, e) ==
  [x EXCEPT !.list = Append(@, e),
            !.ctrls = IF @ = 0 /\ ~x.running THEN 1 ELSE @]

(* Mutant: the events of a handler stay behind. *)
RemoveNoEvents(x, h) == x

(* The places in a list of the events of other handlers, and the j-th. *)
Kept(l, h) == {i \in DOMAIN l : l[i].h # h}
Rank(K, i) == Cardinality({k \in K : k <= i})
Nth(K, j) == CHOOSE i \in K : Rank(K, i) = j

RemoveEventByHandler(x, h) ==
  LET K == Kept(x.list, h)
  IN [x EXCEPT !.list = [j \in 1..Cardinality(K) |-> x.list[Nth(K, j)]]]

(* ExchangeEvent of a handler that is not shut down. *)
Post(e) == ex' = QueueEvent(ex, e)

(* _EventCallback: the loop wakes up, takes an event, or ends. *)
Wake ==
  /\ js.pc = "idle" /\ ex.ctrls = 1
  /\ ex' = [ex EXCEPT !.ctrls = 0, !.running = TRUE]
  /\ js' = [js EXCEPT !.pc = "loop"]
  /\ UNCHANGED <<wrap, task, conn>>

LoopEnds ==
  /\ js.pc = "loop" /\ ex.list = <<>>
  /\ ex' = [ex EXCEPT !.running = FALSE]
  /\ js' = [js EXCEPT !.pc = "idle"]
  /\ UNCHANGED <<wrap, task, conn>>

(* OnEventProcess of the first event, if it is of this kind. *)
Pop(h, kind) ==
  /\ js.pc = "loop" /\ ex.list # <<>>
  /\ Head(ex.list).h = h /\ Head(ex.list).kind = kind
  /\ ex' = [ex EXCEPT !.list = Tail(@)]

-----------------------------------------------------------------------------
(* `native' is the connector: "open", "closing" after Close, "drained"     *)
(* after OnClosed, "gone" when the wrap has deleted it.  `refs' counts     *)
(* Ref(), `closeRefs' is m_nPendingCloseRefs, `waiting' the callbacks in   *)
(* m_vecCloseCallbacks.  Of the callbacks of close, `asked' and `told'     *)
(* count those given and those called.                                     *)
NewWrap ==
  [alive |-> TRUE, held |-> TRUE, native |-> "open", pending |-> FALSE,
   refs |-> 0, closeRefs |-> 0, waiting |-> 0, asked |-> 0, told |-> 0]

NewTask == [st |-> "none", told |-> 0]

(* A connection: its wrap's place in m_mapConnWraps and flags, whether its *)
(* sink is attached, the state of the native connection, and what the      *)
(* application has been told.                                              *)
NewConn ==
  [wrap |-> "none", held |-> FALSE, called |-> FALSE, callback |-> FALSE,
   settled |-> FALSE, upgraded |-> FALSE, closedSeen |-> FALSE, pinned |-> FALSE,
   sink |-> FALSE, native |-> "none", says |-> "none", messages |-> 0, sent |-> 0]

Init ==
  /\ ex = [list |-> <<>>, ctrls |-> 0, running |-> FALSE]
  /\ js = [pc |-> "idle", todo |-> {}]
  /\ wrap = [h \in Wraps |-> NewWrap]
  /\ task = [t \in Tasks |-> NewTask]
  /\ conn = [c \in Conns |-> NewConn]

(* The application's code may run: between events, and in the callbacks    *)
(* made while a connector's end is reported.                               *)
AppRuns(h) == wrap[h].alive /\ wrap[h].held

InMap(t) == task[t].st \in {"inflight", "posted"}

-----------------------------------------------------------------------------
(* HttpConnector: requests.                                                *)

(* __request__: the task is entered and referenced first; a request that   *)
(* cannot be made is answered through the exchanger too.                   *)
Request(t) ==
  /\ AppRuns("http") /\ task[t].st = "none"
  /\ wrap' = [wrap EXCEPT !["http"].refs = @ + 1]
  /\ \/ /\ wrap["http"].native = "open"
        /\ task' = [task EXCEPT ![t].st = "inflight"]
        /\ UNCHANGED ex
     \/ /\ task' = [task EXCEPT ![t].st = "posted"]
        /\ Post(Event("http", "RESULT", t))
  /\ UNCHANGED <<js, conn>>

(* OnHttpResponse, OnHttpError on a thread of the connector. *)
OnHttpResult(t) ==
  /\ task[t].st = "inflight" /\ wrap["http"].native \in {"open", "closing"}
  /\ task' = [task EXCEPT ![t].st = "posted"]
  /\ Post(Event("http", "RESULT", t))
  /\ UNCHANGED <<js, wrap, conn>>

(* The callback of a task that is taken out of the map, then Unref. *)
Answer(t) ==
  /\ task' = [task EXCEPT ![t].st = "done", ![t].told = @ + 1]
  /\ wrap' = [wrap EXCEPT !["http"].refs = @ - 1]

(* A result whose task was settled before is ignored. *)
OnJsResult(t) ==
  /\ Pop("http", "RESULT") /\ Head(ex.list).id = t
  /\ IF InMap(t) THEN Answer(t) ELSE UNCHANGED <<task, wrap>>
  /\ UNCHANGED <<js, conn>>

-----------------------------------------------------------------------------
(* The end of a connector.                                                 *)

(* The first close() closes the connector. *)
NeedsClose(w) == w.native # "gone" /\ ~w.pending

(* __close__ with a callback. *)
Close(h) ==
  LET w == [wrap[h] EXCEPT !.asked = @ + 1, !.waiting = @ + 1] IN
  /\ AppRuns(h) /\ w.asked <= MaxCloses
  /\ \/ /\ NeedsClose(w)
        /\ wrap' = [wrap EXCEPT ![h] = [w EXCEPT !.pending = TRUE, !.refs = @ + 1,
                                                 !.native = "closing",
                                                 !.closeRefs = IF h = "ws" THEN @ + 1 ELSE @]]
        /\ UNCHANGED ex
     \/ /\ w.native # "gone" /\ w.pending
        /\ wrap' = [wrap EXCEPT ![h] = w] /\ UNCHANGED ex
     \/ /\ w.native = "gone"
        /\ wrap' = [wrap EXCEPT ![h] = IF h = "ws" THEN [w EXCEPT !.refs = @ + 1, !.closeRefs = @ + 1]
                                       ELSE w]
        /\ Post(Event(h, "CLOSE", "none"))
  /\ UNCHANGED <<js, task, conn>>

(* OnClosed of the connector, when everything of it has ended. *)
OnClosed(h) ==
  /\ wrap[h].native = "closing"
  /\ IF h = "http" THEN \A t \in Tasks : task[t].st # "inflight"
     ELSE \A c \in Conns : conn[c].native \in {"none", "closed"}
  /\ wrap' = [wrap EXCEPT ![h].native = "drained"]
  /\ Post(Event(h, "CLOSE", "none"))
  /\ UNCHANGED <<js, task, conn>>

(* JHM_CLOSE: _SettlePendingTasks, one callback after the other; requests  *)
(* made in them are settled as well.                                       *)
OnJsClosedHttp ==
  /\ Pop("http", "CLOSE")
  /\ js' = [js EXCEPT !.pc = "settle"]
  /\ UNCHANGED <<wrap, task, conn>>

SettlePendingTask(t) ==
  /\ js.pc = "settle" /\ InMap(t)
  /\ Answer(t)
  /\ UNCHANGED <<ex, js, conn>>

(* Then the connector is deleted and the callbacks of close are called. *)
CallCloseCallbacks(h) ==
  wrap' = [wrap EXCEPT ![h].native = "gone", ![h].told = @ + wrap[h].waiting, ![h].waiting = 0]

Settled ==
  /\ js.pc = "settle" /\ \A t \in Tasks : ~InMap(t)
  /\ CallCloseCallbacks("http")
  /\ js' = [js EXCEPT !.pc = "http"]
  /\ UNCHANGED <<ex, task, conn>>

(* Last, the reference close() took. *)
ClosedHttp ==
  /\ js.pc = "http"
  /\ wrap' = [wrap EXCEPT !["http"].pending = FALSE,
                          !["http"].refs = IF wrap["http"].pending THEN @ - 1 ELSE @]
  /\ js' = [js EXCEPT !.pc = "loop"]
  /\ UNCHANGED <<ex, task, conn>>

-----------------------------------------------------------------------------
(* WSConnector: connections.                                               *)

CreateConnection(c) ==
  /\ AppRuns("ws") /\ conn[c].wrap = "none" /\ wrap["ws"].native = "open"
  /\ conn' = [conn EXCEPT ![c].wrap = "live", ![c].held = TRUE, ![c].sink = TRUE, ![c].native = "none"]
  /\ UNCHANGED <<ex, js, wrap, task>>

(* __connect__: pinned first; a connect that is refused is answered        *)
(* through the exchanger.                                                  *)
Connect(c) ==
  LET k == [conn[c] EXCEPT !.called = TRUE, !.callback = TRUE, !.pinned = TRUE, !.says = "pending"] IN
  /\ conn[c].wrap = "live" /\ conn[c].held /\ ~conn[c].called
  /\ conn[c].sink  \* m_pConn is reset with the sink
  /\ \/ /\ wrap["ws"].native = "open"
        /\ conn' = [conn EXCEPT ![c] = [k EXCEPT !.native = "connecting"]]
        /\ UNCHANGED ex
     \/ /\ conn' = [conn EXCEPT ![c] = k]
        /\ Post(Event("ws", "REJECT", c))
  /\ UNCHANGED <<js, wrap, task>>

(* The sink's callbacks on a thread of the connector: OnConnectResult,     *)
(* OnRecvText and OnRecvData, OnClosed.                                    *)
Sink(c, from, to, kind) ==
  /\ conn[c].native = from /\ conn[c].sink
  /\ conn' = [conn EXCEPT ![c].native = to, ![c].sent = IF kind = "DATA" THEN @ + 1 ELSE @]
  /\ Post(Event("ws", kind, c))
  /\ UNCHANGED <<js, wrap, task>>

OnConnectResult(c) ==
  Sink(c, "connecting", "open", "RESOLVE") \/ Sink(c, "connecting", "closed", "REJECT")
OnRecvData(c) == conn[c].sent < MaxMessages /\ Sink(c, "open", "open", "DATA")
OnConnClosed(c) == Sink(c, "open", "closed", "CLOSED")

(* _SettleConnect: the connect callback, once; a failure also unpins. *)
SettleConnect(k, ok) ==
  [k EXCEPT !.settled = TRUE, !.upgraded = @ \/ ok, !.callback = FALSE,
            !.says = IF ~k.callback THEN @ ELSE IF ok THEN "open" ELSE "rejected",
            !.closedSeen = @ \/ ~ok, !.pinned = @ /\ ok]

(* Mutant: a connection that was never up is reported as closed. *)
OnJsEventClosedAlways(k, kind) ==
  CASE kind \in {"RESOLVE", "REJECT"} -> IF k.settled THEN k ELSE SettleConnect(k, kind = "RESOLVE")
    [] kind = "DATA" -> [k EXCEPT !.messages = @ + 1]
    [] kind = "CLOSED" -> [k EXCEPT !.closedSeen = TRUE, !.says = "closed", !.pinned = FALSE]

(* OnJsEvent of a connection wrap. *)
OnJsEvent(k, kind) ==
  CASE kind \in {"RESOLVE", "REJECT"} -> IF k.settled THEN k ELSE SettleConnect(k, kind = "RESOLVE")
    [] kind = "DATA" -> [k EXCEPT !.messages = @ + 1]
    [] kind = "CLOSED" ->
         IF k.closedSeen THEN k
         ELSE IF k.upgraded THEN [k EXCEPT !.closedSeen = TRUE, !.says = "closed", !.pinned = FALSE]
         ELSE IF k.callback THEN SettleConnect([k EXCEPT !.closedSeen = TRUE], FALSE)
         ELSE [k EXCEPT !.closedSeen = TRUE, !.pinned = FALSE]

(* OnJsConnEvent: an event of a wrap that is gone is dropped. *)
OnJsConnEvent(c) ==
  /\ \E kind \in {"RESOLVE", "REJECT", "DATA", "CLOSED"} :
       /\ Pop("ws", kind) /\ Head(ex.list).id = c
       /\ conn' = [conn EXCEPT ![c] = IF @.wrap = "live" THEN OnJsEvent(@, kind) ELSE @]
  /\ UNCHANGED <<js, wrap, task>>

(* JWM_CLOSE: the connector is deleted, the sinks are detached, and every  *)
(* wrap in the map is told, one after the other.                           *)
OnJsClosedWs ==
  /\ Pop("ws", "CLOSE")
  /\ wrap' = [wrap EXCEPT !["ws"].native = "gone"]
  /\ conn' = [c \in Conns |-> [conn[c] EXCEPT !.sink = FALSE]]
  /\ js' = [pc |-> "wraps", todo |-> {c \in Conns : conn[c].wrap = "live"}]
  /\ UNCHANGED task

TellWrap(c) ==
  /\ js.pc = "wraps" /\ c \in js.todo
  /\ conn' = [conn EXCEPT ![c] = OnJsEvent(@, "CLOSED")]
  /\ js' = [js EXCEPT !.todo = @ \ {c}]
  /\ UNCHANGED <<ex, wrap, task>>

WrapsTold ==
  /\ js.pc = "wraps" /\ js.todo = {}
  /\ CallCloseCallbacks("ws")
  /\ js' = [js EXCEPT !.pc = "ws"]
  /\ UNCHANGED <<ex, task, conn>>

ClosedWs ==
  LET w == wrap["ws"] IN
  /\ js.pc = "ws"
  /\ wrap' = [wrap EXCEPT !["ws"] = [w EXCEPT !.pending = FALSE,
                !.closeRefs = IF @ > 0 THEN @ - 1 ELSE @,
                !.refs = IF w.closeRefs > 0 THEN @ - 1 ELSE @]]
  /\ js' = [js EXCEPT !.pc = "loop"]
  /\ UNCHANGED <<ex, task, conn>>

-----------------------------------------------------------------------------
(* Garbage collection.                                                     *)

(* The application lets go of an object. *)
Drop ==
  /\ \/ \E h \in Wraps : wrap[h].held /\ wrap' = [wrap EXCEPT ![h].held = FALSE] /\ UNCHANGED conn
     \/ \E c \in Conns : conn[c].held /\ conn' = [conn EXCEPT ![c].held = FALSE] /\ UNCHANGED wrap
  /\ UNCHANGED <<ex, js, task>>

(* ~JsWSConnectionWrap *)
CollectConn(c) ==
  /\ js.pc = "idle"
  /\ conn[c].wrap = "live" /\ ~conn[c].held /\ ~conn[c].pinned
  /\ conn' = [conn EXCEPT ![c].wrap = "gone", ![c].callback = FALSE]
  /\ UNCHANGED <<ex, js, wrap, task>>

(* ~JsHttpConnectorWrap, ~JsWSConnectorWrap: _Cleanup.  A live connection  *)
(* wrap holds its connector.                                               *)
Collect(h) ==
  /\ js.pc = "idle"
  /\ wrap[h].alive /\ ~wrap[h].held /\ wrap[h].refs = 0
  /\ h = "ws" => \A c \in Conns : conn[c].wrap # "live"
  /\ wrap' = [wrap EXCEPT ![h].alive = FALSE, ![h].native = "gone", ![h].waiting = 0]
  /\ ex' = RemoveEventByHandler(ex, h)
  /\ task' = [t \in Tasks |-> IF h = "http" /\ InMap(t) THEN [task[t] EXCEPT !.st = "done"] ELSE task[t]]
  /\ conn' = IF h = "ws" THEN [c \in Conns |-> [conn[c] EXCEPT !.sink = FALSE]] ELSE conn
  /\ UNCHANGED js

Next ==
  \/ Wake \/ LoopEnds \/ Drop
  \/ \E t \in Tasks : Request(t) \/ OnHttpResult(t) \/ OnJsResult(t) \/ SettlePendingTask(t)
  \/ \E h \in Wraps : Close(h) \/ OnClosed(h) \/ Collect(h)
  \/ OnJsClosedHttp \/ Settled \/ ClosedHttp
  \/ \E c \in Conns :
       \/ CreateConnection(c) \/ Connect(c) \/ OnConnectResult(c) \/ OnRecvData(c) \/ OnConnClosed(c)
       \/ OnJsConnEvent(c) \/ TellWrap(c) \/ CollectConn(c)
  \/ OnJsClosedWs \/ WrapsTold \/ ClosedWs

(* The JavaScript thread runs; the connectors answer what they were asked, *)
(* which HttpConnector.tla and WSConnector.tla check of them, and end      *)
(* their connections when they are closed.                                 *)
Fairness ==
  /\ WF_vars(Wake) /\ WF_vars(LoopEnds)
  /\ WF_vars(OnJsClosedHttp) /\ WF_vars(Settled) /\ WF_vars(ClosedHttp)
  /\ WF_vars(OnJsClosedWs) /\ WF_vars(WrapsTold) /\ WF_vars(ClosedWs)
  /\ \A h \in Wraps : WF_vars(OnClosed(h))
  /\ \A t \in Tasks : WF_vars(OnHttpResult(t)) /\ WF_vars(OnJsResult(t)) /\ WF_vars(SettlePendingTask(t))
  /\ \A c \in Conns :
       /\ WF_vars(OnConnectResult(c)) /\ WF_vars(OnJsConnEvent(c)) /\ WF_vars(TellWrap(c))
       /\ WF_vars(wrap["ws"].native = "closing" /\ OnConnClosed(c))

Spec == Init /\ [][Next]_vars /\ Fairness

-----------------------------------------------------------------------------
(* The binding keeps what index.js promises: see JsContract.               *)
Contract ==
  INSTANCE JsContract WITH
    request <- [t \in Tasks |->
                 CASE task[t].told = 1 -> "settled"
                   [] task[t].told = 0 -> IF task[t].st = "none" THEN "none" ELSE "pending"
                   [] OTHER -> "again"],
    connect <- [c \in Conns |-> conn[c].says],
    messages <- [c \in Conns |-> conn[c].messages]

(* Every request and connect of the application is answered exactly once,  *)
(* messages come only while the connection is reported open, and closed    *)
(* comes after them, once: whatever the order in which events, close and   *)
(* garbage collection happen.                                              *)
ImplementsContract == Contract!CSpec

(* The JavaScript thread never handles an event of a wrap that was         *)
(* collected, and no thread of a connector can still post one.             *)
NoEventForDeadWrap ==
  /\ \A i \in DOMAIN ex.list : wrap[ex.list[i].h].alive
  /\ \A t \in Tasks : task[t].st = "inflight" => wrap["http"].alive
  /\ \A c \in Conns : conn[c].sink => wrap["ws"].alive
=============================================================================
