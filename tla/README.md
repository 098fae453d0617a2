# A TLA+ verification of ttsignal's connection core

ttsignal is a C++ networking core with bindings for Node, Java and Swift: a QUIC
client and server that carry the SMP message protocol, an HTTP client and a
WebSocket client, all able to keep their traffic on a physical network interface
when a VPN is up. This project models the parts of it whose correctness depends
on the order in which threads, timers, socket completions and callers meet
(connection life cycles, their shutdown, what each side is told), and the
parts that cut bytes into messages and choose addresses and interfaces.

Paths below are relative to `src/src/cpp/` unless they begin with `src/`.

## 1. Inventory

Everything runs on **serial event queues** (`BCEventQueue`, in
`src/deps/env/src/BC`): a queue owns a list of posted tasks and timers and runs
them one at a time on one thread of a pool; `Detach` lets what is queued run,
then calls `OnEventProcShutdown` once; what is posted after it never runs.
Objects live on a queue of their own, the application calls them from its
threads, and a global queue, the `Runtime`, deletes objects and runs the
connectors' own tasks.

| Component | State it keeps | Operations | Who it talks to | What is hard | What makes it correct |
|---|---|---|---|---|---|
| `TcpChannel` + `SSLayer` | connection state, counters of pending I/O, task tokens, TLS engine, connect timer, DNS request, handler | Open, Send, Close, Park, Adopt; completions; timer; shutdown | `DnsResolver` workers, socket layer; used by `HttpConnector`, `WSConnector` | callers test, take a token and post in three steps while the queue closes; TLS callbacks re-enter; DNS answers outlive the channel | one `OnChannelClosed`, nothing after it, no lost close, no TLS use after free |
| `HttpConnector` | requests in progress, keep-alive pool, objects being destroyed, callbacks in flight, closing flags | Request, Close, destructor, retry of a stale channel | `TcpChannel`, `Runtime`, application callbacks | pool hand-over races Close; destructor inside a callback; retry after Close | each request is told once; Close ends; no callback after destruction; nothing leaks |
| `HttpConnection` with `LLHTTPParser` | the message being collected, limits, what was delivered | ParseUrl, BuildRequestText, parser callbacks, Cancel, timeout | `TcpChannel`, llhttp | 1xx messages and kept connections leave state behind; five limits in different callbacks | a request is framed once, a response is its own |
| `WSConnector`, `WSConnection` | connections, closing flags, callbacks in flight; handshake, close frame, keep-alive | CreateConnection, Connect, Send*, Close, destructor | `TcpChannel`, `WSParser`, `Runtime` | a connection never opened, or whose Open fails while the connector closes | one connect result, one close, drain ends |
| `WSParser` | bytes not parsed yet, stage, fragments | ParseWSFrame, BuildFrame | `WSConnection` | a frame cut at any byte, three length forms, limits over fragments | result independent of how bytes arrive |
| `SMPConnector` | connection map, QUIC engine, closing state, path-change cooldown | CreateConnection, Close, OnPathChange | `SMPConnection`, path monitor, `Runtime` | closing while connections appear and end on other threads | engine outlives its connections, close completes |
| `SMPConnection` | connection state and requested state, QUIC handle, sockets, pending Connect, timers, streams, tunnel | Connect, Close, Restart, SendPacket, QUIC callbacks | QUIC library, `UDPSenderGroup`, connector, application | answer, timeout, QUIC close, socket loss and Close in any order | one answer per Connect, close ends, addresses follow restarts |
| `SMPParser`, `SMPacket`, streams | send list, parse stage | SendPacket, write notification, Parse, Close | QUIC library, JavaScript events | flow control takes a part of a packet | packets arrive whole, once, in order |
| MASQUE (`MasqueFraming`, tunnel connections) | two connections with raw pointers to each other, datagram size | tunnel set-up, datagrams, both shutdowns | proxy, QUIC library | either end first; unsigned size arithmetic | no dangling peer, packets fit |
| `UDPSender`, `UDPSenderGroup` | socket, pending counters, pending restart, pin; winner of the group | StartRecv, Send, Connect, Restart, Close, Destroy; completions | kernel, `SMPConnection`, `SMPServer` | restarts wait for old completions; events dropped while they do; destroy from another thread | completions belong to the socket they are counted for, deletion is safe |
| `SMPServer`, `SMPServerConnection` | connection map by connection id, handlers, engine; connection state | OnRecvData, CreateConnection, Accept, SendPacket, UpdateCID, Close | `UDPSender`, QUIC library, application | duplicated Initial packets, ids that change, close by drain | socket and engine end last, close ends |
| `LinuxNetlinkMonitor` (and the Apple and Windows monitors) | last signature of the default path | start, stop, callback on change | `SMPConnector::OnPathChange` | callback thread against API calls | restarts follow the last change |
| `DnsResolver` | cache per host, policy and interface | Resolve, ClearCache | DNS servers, `getaddrinfo` | late, bad and missing answers; a cache shared by policies; pins that Linux ignores | force-physical gets only what its own pinned queries found |
| `VpnPolicy`, `SocketPinner`, route lookup | none | pin decision, pinning, queries | operating system | interfaces change between decision and use | unless force-physical says so, an address only the VPN reaches is not pinned |
| Node bindings (`napi`, `src/src/js`) | wraps and references, tasks, sinks, the event list | request, connect, close, settle, collect | JavaScript thread, connectors' threads | events, application code in callbacks and garbage collection in any order | the contract of `index.js`, no event for a dead wrap |
| `TlsContext`, `Utils`, Java, Swift and C bindings | none of their own | certificate checks, conversions, marshalling | | | |

The hazards, each at the line where it bites, are listed in `PROJECT.json`.

## 2. Modules

| Module | Models | Checked in |
|---|---|---|
| `TcpChannel` | `TcpChannel.cpp`, `SSLayer.cpp` | `MCTcpChannel`; proofs in `TcpChannelProofs` |
| `HttpConnector` | `HttpConnector.cpp`: requests, pool, drain | `MCHttpConnector`; proofs in `HttpConnectorProofs` |
| `HttpExchange` | `HttpConnector.cpp`: request text, response parsing; `LLHTTPParser.cpp` | `MCExchanges`; request text proved in `TransportProofs` |
| `WSConnector` | `WSConnector.cpp`: life cycles | `MCWSConnector`; proofs in `WSConnectorProofs` |
| `WSParser` | `WSParser.cpp`, frame traffic of `WSConnector.cpp` | `MCExchanges` |
| `SMPConnector` | `SMPConnector.cpp` (raw QUIC), `linux/LinuxNetlinkMonitor.cpp` | `MCSMPConnector`; proofs in `SMPConnectorProofs` |
| `SMPStream` | `SMPParser.cpp`, streams of `SMPConnector.cpp` and `SMPServer.cpp`, stream events of `index.js` | `MCSMPServer`; proofs in `TransportProofs` |
| `MasqueTunnel`, `MasqueFraming` | `SMPConnector.cpp` (MASQUE), `MasqueFraming.cpp` | `MCMasqueTunnel`; proofs in `TransportProofs` |
| `UDPSenderGroup` | `UDPSender.cpp`, `UDPSenderGroup.cpp` | `MCUDPSenderGroup`; proofs in `UDPSenderGroupProofs` |
| `SMPServer` | `SMPServer.cpp`, `napi/JsSMPServerWrap.cpp` | `MCSMPServer`; proofs in `SMPServerProofs` |
| `PhysicalPath` | `DnsResolver.cpp`, `VpnPolicy.cpp`, `SocketPinner.cpp`, interface and route lookup | `MCExchanges`; proofs in `TransportProofs` |
| `NodeBinding` | `napi/JsHttpConnectorWrap.cpp`, `napi/JsWSConnectorWrap.cpp`, `napi/JsExchanger.cpp`, `napi/UVExchanger.cpp` | `MCNodeBinding`; proofs in `NodeBindingProofs` |
| `JsContract` | what `src/src/js/index.js` promises; abstract specification of `NodeBinding` | `MCNodeBinding` |

The modules are layered like the code and meet at stated interfaces.
`HttpConnector` and `WSConnector` see a channel as `TcpChannel` shows it: it
opens, fails at the latest with its connect timer if that could be armed
(`OpenSettles`), may be parked and adopted, once down runs what was posted, reports
its end (`CloseCompletes`) and calls nobody afterwards (`ClosedIsQuiet`).
`SMPConnector` sees the sockets as `UDPSenderGroup` shows them: a restart drains,
then succeeds or leaves no socket, what is asked for meanwhile is dropped, and a
close completes unless it was dropped so (`StopIsCarriedOut`). `NodeBinding` sees the connectors as `HttpConnector`
and `WSConnector` show them: each request and connect is answered once
(`ToldOnce`, `HandlerContractKept`, `RequestSettles`, `ConnectAnswered`) and
OnClosed comes last. Where an operator has a second version whose comment says
"Mutant", that version is the same operator with a bug; the specifications never
use it, and replacing the first by it breaks the property `PROJECT.json` names.

### TcpChannel

The channel is one record, `ch`, with a field per member the control depends on
(`state`, `handler`, the pending counters `dns`, `connect`, `recv`, `send`, the
task tokens `tasks`, the posted `events`, `sslLayer`, `sslDepth` for the re-entry
guard, `closing`, `notified`). A handler that runs on the queue is one action,
written as a composition of operators on the record, one operator per C++ method
and in the order of its calls (`Fail`, `AbandonDns`, `CancelIo`,
`MaybeFinishClose`, `SetupTls`, `ReadFromSSL`, ...). Callbacks to the application
are followed by its possible reactions on the same stack (`React`: send, close,
park). `Send`, `Close` and `Adopt` from other threads take three actions each,
`CallBegin`, `CallAcquire`, `CallPost`: the test, the token under the guard lock,
the post. The DNS worker is two actions. Two history fields are not in the code:
`view`, what each handler has been told, and `uaf`, a call into a freed `SSLayer`.
BoringSSL, the socket layer and the route lookup are nondeterministic outcomes;
bytes are not modelled.

`Open` takes three actions on its caller's thread, as the queue it creates may run
at once: `OpenCreate` (the choice of the interface and the queue), `OpenArm` (the
connect timer, which `ScheduleTask` may refuse unnoticed), `OpenFinish` (RESOLVING
and the first task). A Close or the timer may come between them; `Overtaken` is the
state in which the close began before `Open` was done (observation 1), and the
properties say what still holds in it.

### HttpConnector

One pool key, whose requests share `MaxIdle` slots. `req` is the thread inside
`Request`, `conn` the `HttpConnection`, `pool` the `PooledChannel`s, `chan` the
channels with what their queue thread is in the middle of, `st` the shared
`HttpConnectorState`, `posted` the Runtime's tasks, `inFlight` the threads inside
an application callback. A critical section of `state->lock` is one action and
everything between two of them interleaves. `Close` may be called at any time,
`~HttpConnector` from any thread, one inside a callback included (`DtorBegin`).
Response parsing is one outcome: complete and reusable, complete, or failed.
`Untimed` are the channels whose connect timer could not be armed.

### HttpExchange

Requests that follow each other on one kept connection. `ParseUrl` and
`BuildRequestText` are operators over the choices that matter (scheme, userinfo,
host, port, target; a method that is a token or not; for each header name and
spelling, whether the caller gave it and with an empty, a usable or an unusable
value; body, keep-alive): the text is the sequence of its header lines, with the
value of the Host line. The server's bytes are the items llhttp makes callbacks of
(status line pieces, header fields and values, the end of the headers, body bytes,
the end of the message), so that a response can be cut between any two of them, and
may have garbage or another response behind it. `Execute` is what `llhttp_execute`
does with one read: `llhttp_pause` inside `on_message_complete` sets the parser's
error, but the callback returns 0 and the state machine goes on with the rest of the
read, as `src/deps/llhttp/src/llhttp.c` does. The callbacks count the limits per
piece as the code does. `asked` remembers what the server really sent, for the
reference definitions `Expected` and `TooMuch`.

### WSConnector

The same shape as `HttpConnector`, for connections that live long: `c` holds per
connection the thread inside `Connect` (`pc`), the channel's `phase` and what its
queue is doing (`q`), the handshake, the close that was asked for, and `view`,
the history of what the handler was told. `outside` marks a connection opened by
a Connect that Close overtook, which the connector no longer knows; `Untimed` are
the connections whose channel could not arm its connect timer.

### WSParser

Bytes on the wire carry the frame and position they come from; the stages of
`ParseWSFrame` (first two bytes, extended length, mask, payload) consume them
from whatever piece the channel delivers, one stage per step. The constants
scale the format down: lengths from `Small` (126) take the two-byte form, from
`Big` (2^16) the eight-byte one. The XOR with the mask is modelled by which mask
byte meets which payload byte. `ParsedAsSent` compares with a reference that says
what RFC 6455 makes of a sequence of frames, without any parser state.

### SMPConnector

`conn` holds the connections: `state` and `new` are `state_` and `new_state_` with
the code's numbers, since `_CloseCheck` compares them; `lib` is what the QUIC
library does with each connection ever started (it may be more than one, see
observation 5), `quic` the one `conn_` points to; `rpc` the pending Connect, `ans`
every answer given. A task posted to the worker is one action and includes its
trailing `_CloseCheck`. API calls are atomic: the test of `keep_working_` and the
post, since a post after `Detach` never runs and so equals a refused call. The
outcomes of starting a handshake are `ok`, `bad` (bad address, or a QUIC
connection that was refused or closed within the call), `notimer` and `nophys`.
`net` is the system's default path, `mon` the monitor and the connector's
cooldown; a path change goes through the connections one at a time, on the
monitor's thread, and the application may call `Restart` as well. A connection's
sockets are `udp`, `sock` (the interface the socket was made for), `up` (whether
there is one) and the sender's own queue `work`: a restart that finds its turn
drains, then succeeds or fails, and RESTART and STOPWORK that come meanwhile are
dropped, as `UDPSender.cpp:1123` does (`missed`, `StopLost`). `OnRestart` of an
earlier success may be handled after a later failure and then leaves the address
alone (`UDPSender.cpp:499-508`). `OnConnClosingNotify` is the answer of a server
that refuses the connection while QUIC closes it.

### SMPStream

One stream, seen from the client (with its list of blocks that QUIC did not take)
or from the server (which drops them). QUIC has room for `Window` bytes until the
peer reads. The parser (`parser`) collects a header, then a payload, from pieces of
any size.
`js` is the stream's object in `index.js`, which drops the second close report.

### MasqueTunnel

`inner` is the connection the application sees, `tun` the HTTP/3 connection to the
proxy, each with its task queue on the one worker; `net` holds the datagrams on
their way (`dgrams`), which may be lost and repeated. A task is taken from the head
of a queue and dispatched on its kind, one kind after the other as in the code's
switch. `MasqueFraming` has the varint and datagram formats as operators on byte
sequences; stream ids have 62 bits, as QUIC's do (`TunnelAssumption`). Differences
of `size_t` wrap at `SizeMod`, a smaller number than 2^64 in the run.

### SMPServer

`srv` is the server (state, map by connection id, socket, deleted or not), `conn`
the connections with the QUIC connections the library holds for them, `rq` the
Runtime's tasks, `jsq` the events exchanged to the JavaScript thread, which
answers OnNewConn, closes and in the end deletes the server; `sent` counts the
Initial packets of a client.

### UDPSenderGroup

A sender's fields follow `UDPSender`'s members: state and requested state,
`m_nPendingRecv/Send/Restart`, the socket as a generation number (`gen`, 0 when
opening it failed), `bound` for the pin, the event list of its queue and the task
queue of completions, each completion stamped with the generation that started
it. The thread drains the event list before it does anything else; events are
processed one per action, since the kernel runs meanwhile. `Restart` is modelled
as the group calls it; its availability check has no caller.

### PhysicalPath

A caller is a `TcpChannel`: it takes the interface the application gave or one that
is found (`OpenChannel`), resolves a name under its policy and then decides on the
pin of its socket: literal (a `resolvedIp` too, of any kind), cache, own query
through the interface (servers, the pair of A and AAAA answers, the grace period,
the deadline in ticks), the system's resolver as a fallback; then the route lookup,
`tt_vpn_pin_recheck` and `tt_socket_pin`. Interface 2 is a VPN's TUN whose resolver
gives fake addresses; interfaces come and go between any two steps, and the cache is
shared. `links.os` is the platform: Linux ignores the scope of a route lookup, may
bind to the device under force-physical or else sets an option that an older kernel
ignores on a connected UDP socket (`LeavesBy`); Apple's systems look up the scoped
route. A dump of the routes that ends early, or has no device, may leave
prefer-physical with the TUN (`QueryDefaultIfIndex`). An address carries how it was
found, for the properties only.

### NodeBinding and JsContract

`ex` is the exchanger's list with its wake-up, `wrap` the two connector wraps,
`task` the requests, `conn` the connections with wrap, sink and pin. Library
threads post, the JavaScript thread runs one handler at a time, application code
runs between and inside callbacks, and the collector takes what nothing refers
to. `JsContract` is the abstract machine of the documented API: a request is
`none`, `pending`, `settled`; a connection `none`, `pending`, then `rejected` or
`open` and in the end `closed`; messages only while it is open; and nobody waits
for ever. The refinement mapping reads both off what the application was told
(`Contract` in `NodeBinding`), and the run checks `Spec => Contract!CSpec`, its
fairness included.

## 3. Runs

| Run | Question | Bounds |
|---|---|---|
| `tcp_safety` | does a channel close cleanly, call each handler in turn, leave nobody without its last callback and never free TLS under itself, whatever races? | 2 handlers and a pool watcher, 2 caller threads with 1 call each, 2 queued tasks, TLS and plain, each policy |
| `tcp_live` | does a close that began end, and an Open whose timer is armed settle? | 1 handler and watcher, 1 caller with 2 calls |
| `http` | are outcomes told once and always, does Close end, is nothing used after it is deleted, is everything deleted? | 2 requests, 2 channels, 2 pool objects, 1 slot, Close and destruction; a destroyed connector has met no stray bytes |
| `ws_connector` | are handlers told in order and always, and nothing after destruction? | 2 connections; 1 when the connector is destroyed; 1 Close by the application besides |
| `smp` | does the engine end last, is the map clean, is each Connect answered once and in the end, do addresses follow restarts? | 2 connections, or 2 Connects on one, or path changes and Restarts over 2 interfaces (2 of these and of closes together), each with every outcome; `MCSMPConnector` states which do not come together |
| `udp_sender` | are the counters exact, does the sender go on listening, does close end unless it is dropped? | 1 sender, 1 send in progress, 2 restarts, reopening may fail |
| `udp_group` | is the group deleted only when nothing can call a sender? | 2 senders, 1 restart |
| `smp_server` | do socket and engine end last, does the server's close end; do packets on a stream arrive once, in order and in the end? | 1 client with 2 Initial packets, 2 objects, 1 send, 2 closes; a client that repeats its Initial opens no stream; 3 packets of 0 to 2 bytes, window 4 |
| `node_binding` | does the binding implement the contract of `index.js`? | 1 request, 1 connection, 2 closes of each connector, 1 message |
| `masque` | can the connection and its tunnel end in any order, do packets fit? | 2 packets, stream ids on both sides of a varint boundary, datagram sizes that leave no room and a little |
| `exchanges` | do frames, requests, responses and lookups mean at the receiver what they mean at the sender? | 3 frames out of 13, in pieces of 1, 2, 4 or all bytes; 2 requests on a channel, 9 responses that meet or pass each limit, cut anywhere, with nothing, garbage, an interim or another response behind; 2 lookups in turn, 3 policies, 2 platforms, 1 change of the interfaces |
| `http_cancel_truncated` | are requests in flight rejected when the connector closes? (finding) | as in `exchanges` |

`MCExchanges` holds three modules that share no state, `MCSMPServer` two: a behaviour
belongs to one of them (`part`), and the others do not move. The constants of
`MCExchanges` are scaled so that each length form, limit and boundary is met exactly
and passed.

Why these bounds: a channel has one queue, so a third caller thread repeats what
two do to it, a token taken between the test and the close; the same caller
cannot race itself. Two requests are the least that can share, hand over and
contend for a pool slot. Two connections are the least for which one may be
created or freed while the connector walks over the other. Two restarts are the
least for which one is asked for while another drains, and three socket
generations follow. Two Connects on one connection are the least that let one be
queued behind an `_error`, two Initial packets the least that can race. Three
frames are a message in two fragments with a control frame between them. Two
exchanges on one channel are the least for which one can leave something behind.

Deadlock is not checked: every one of these systems ends, in a state where the
application calls nothing more and every object is closed. That what must happen
does happen is checked by the liveness properties instead.

### Fairness

Weak fairness is assumed of what the process itself schedules: queues run what
was posted, armed timers fire, a thread inside a call goes on, callbacks return,
the `Runtime`, the monitor and the JavaScript loop run. Of the environment only
this is assumed: an operation that was cancelled completes (`CancelledIoEnds`: the
socket layer posts a completion for it), and the QUIC library reports the close it
was asked for and asks for data when it has room. For a server connection that close
rests on the library's draining, linger and idle timers, which `on_timer_set` runs on
the worker in any state; the tick that `jqc_conn_close` asks for does nothing, since
`_CloseCheck` of a closing connection cuts `on_timer_next_tick` off
(`SMPServer.cpp:661`).

A timer is not taken for armed where the code does not look: `TcpChannel::Open`
ignores what `ScheduleTask` returns (`TcpChannel.cpp:469`). `OpenSettles` is about
channels whose timer is armed; `HttpConnector` and `WSConnector` assume the end of an
opening channel only for those outside `Untimed`, and `RequestSettles` and
`ConnectAnswered` leave out a request whose untimed channel stays opening for ever.
`WSConnector` assumes strong fairness of one action, the end of a channel that was
asked to close or, with its timer armed, is still opening: the channel may be handed
data again and again meanwhile, and `tcp_live` shows that the end comes all the same
(`CloseCompletes`, `OpenSettles`). In `SMPConnector` a socket carries out the events
of its queue that are not dropped; a STOPWORK that is dropped is never repeated, so
nothing is assumed of that socket's close and `TakenIsAnswered` and `ConnectorCloses`
name the case (`StopLost`). Nothing is assumed of peers, of the kernel delivering or
sending anything, of name servers, of the application or of the network path.

## 4. What is proved

Each module with proofs extends the module or modules it is about, defines an
inductive invariant (`IInv`, or one named below), proves that `Init` implies it and
that every action keeps it, and derives the properties below from it. They hold for
every value of the constants: any number of requests, connections, callers, closes,
restarts and path changes. Each invariant was checked with TLC, on the instance of the component's run, before
it was proved (for `HttpConnector` also in simulated behaviours of three requests).

| Module | Theorems | Property of the runs | Assumes, beyond the `ASSUME` of the model |
|---|---|---|---|
| `TcpChannelProofs` | `TypeCorrect`, `ClosedIsQuiet`, `SslOutlivesItsCalls`, `EveryHandlerIsTold`, `CallbacksKeepTheirOrder` | `QuietAfterClosed`, `NoSslUseAfterFree`, `NobodyForgotten`, `CallbacksInTurn`; `TypeCorrect` is about `TypeOK`, a part of `IInv` | nothing; `SslOutlivesItsCalls` alone `RecvIsAsync`: `BCSocket::Recv2` reports the errors of an open socket in its completion, not at once |
| `HttpConnectorProofs` | `OutcomeToldOnce`, `PointersLive`, `SilentAfterDestruction` | `ToldOnce`, `NoDangling`, `NoCallbackAfterDestruction` | nothing |
| `WSConnectorProofs` | `ContractKept`, `SilentAfterDestruction` | `HandlerContractKept`, `NoCallbackAfterDestruction` | nothing |
| `SMPConnectorProofs` | `Registered`, `EngineLast`, `AtMostOneAnswer`, `AddressFollows` | `RegisteredAreLive`, `EngineOutlivesConnections`, `AnsweredOnce`, `AddressSettles` | nothing |
| `UDPSenderGroupProofs` | `CompletionsMatch`, `SafeDelete` | `CompletionsMatchSocket`, `DeleteIsSafe` | nothing (the model has finitely many senders) |
| `SMPServerProofs` | `Orphans`, `SocketLast` | `SocketOutlivesWriters`; `Orphans` is about `OrphanQuicOnlyAfterRepeat`, which no run checks | nothing |
| `NodeBindingProofs` | `DeadWrapsAreQuiet`, `KeepsContract` | `NoEventForDeadWrap`; the safety part of `ImplementsContract` | nothing |
| `TransportProofs`: lookups | `ForceAnswers`, `FakePins` | `ForceAnswersAreOwn`, `FakeIsUnpinned` | nothing |
| `TransportProofs`: SMP streams | `PacketsArriveInOrder` | `PacketsInOrder` | nothing |
| `TransportProofs`: MASQUE | `PeersOutliveTheirPointers`, `DatagramsAreSound` | `NoDanglingPeer`, `DatagramsFit` | nothing (stream ids have 62 bits, an `ASSUME` of the model) |
| `TransportProofs`: HTTP requests | `RequestsAreFramed` | `RequestTextFramed` | nothing (a call is a URL, headers by name and a body, an `ASSUME` of the model) |

None of the properties is inductive as it stands. What each invariant adds, and
why:

**TcpChannel.** `_MaybeFinishClose` tests only the counter of tokens,
`pending_tasks_`, and closes when it is zero, while `QuietAfterClosed` speaks of
callers and queue contents. The missing fact is *token conservation*:
`pending_tasks_` equals the number of queued tasks plus the number of callers
between token and post. `IInv` adds it, together with: a worker that may still
post has a request that is not abandoned, and is itself counted; a closing
channel has no timer and no request; a notified one has no I/O, socket or TLS
engine. `Good(c)` is what every method keeps of the channel record and
`Follows(c, d)` what any method may do to it: closing is never undone, an
abandoned request stays abandoned, the difference between tokens and queued
tasks does not change, and an `SSLayer` is not freed while one of its methods is on
the stack. A channel whose close overtook `Open` leaves `IInv`; it is in `DInv` instead, for
good: nothing was started on it but a lookup (`Fresh`), and what is queued or being
posted is that close or the end of the lookup. `RecvIsAsync` is needed because `_OnConnectDone` calls `_TcpRecv` before
it takes the guard (`TcpChannel.cpp:1374`): a failure there would free the `SSLayer`
that the next line enters. There is one lemma per C++ method, `FollowsTrans` chains
them, one lemma per action turns the chain into `IInv'`.

That every handler gets its last callback, and all in turn, is about who is being
talked to, which no field of the code says. `TalkInv` adds it on top of `IInv`, in two
parts. `Told`: what `handler_` was told follows from `state_` and `parked_` (opening,
using, watching), and no other handler is in the middle of anything. `Asking`: each
handler that asked to adopt the channel has exactly one Adopt, which is a task in the
queue or a caller past its token, and no two have the same (`Distinct`). Both hold a
token, so by token conservation the close waits for the answer, and a channel that is
over owes nobody anything. `Keeps`, `Adopts` and `Answers` are the three things a
method may do to this: leave the conversation as it is, hand it over, refuse.

**HttpConnector.** That nobody reaches a deleted object depends on who owns each
channel. The invariant says: a channel belongs to one connection or to one pooled
object, and to both only while a Request takes it over or gives it back
(`ChannelsOwned`, `SharedGood`); what each queue thread is in the middle of fits the object it works
for (`StepsGood`); the Runtime's queue holds an object at most once, and only one
that nobody else still refers to (`PostedGood`); after the destructor gave up, no
connection in the map has a handler, and after it returned the connector has
drained or has been abandoned (`DtorGood`). It is stated over *views*, one operator
per field of the state (`Pc(r)`, `Ch(r)`, ...), which the provers need not expand:
each action has one lemma that says what it does to the views and one that derives
the invariant from that.

**WSConnector.** The callbacks are guarded by flags of the connection
(`notified`, `connectedOk`, `upgraded`), the property speaks of what the handler
saw. The invariant ties the two together, says that a connection's channel is
opened once, that a connection with work to do is in the map (unless Close
overtook its Connect), and what the destructor may rely on in each of its phases.

**SMPConnector.** `_CloseCheck` compares states as numbers and acts on what is left.
`Good(b)` says what each state implies: from which one on there is no timer, no QUIC
connection, no pending Connect, no task (`Ending`); that a Connect which waits in
the queue or is pending has no answer yet, and waits once (`Answering`); that the
object knows its only QUIC connection, unless a Connect failed before another one
(`Slots`); and that the interface asked for, the socket and QUIC agree, along the sender's queue
and its drain, unless a restart is on its way, failed or was dropped (`Addressed`). A connection is in `conns_map_` exactly from its creation
to its notification.

**UDPSenderGroup.** `_ExitCheck` waits for two counters. The invariant says that
they are exact: each counts the operations the kernel still has plus the
completions in the task queue, and all of them belong to the socket that is open,
since a restart waits for them. The group's counter of closed senders is the number
of senders whose queue has shut down.

**SMPServer.** A live object is in the map until `NotifyConnClosed`; the socket is
closed only by a server that has drained; and an object that took in one Initial
packet at most knows every QUIC connection that points to it.

**NodeBinding.** A message is contract-conforming only if the connection is open
when its event is handled, long after it was posted. The invariant follows the
events of a connection through the list: what the library can have posted in each
of its states and in which order (`Queued`), what the wrap's flags say about what
the application was told (`Told`), that a message in the list has the connection
open or a RESOLVE in front of it (`Ready`), and that nothing is posted behind the
WSConnector's last event (`EndInv`). `KeepsContract` is the safety part of the
refinement, `Spec => Contract!CSafe`: `Init` maps to the initial state of
`JsContract`, and under `IInv` every action maps to a step of it or to a stutter.

**PhysicalPath** (`PathInv`). A force-physical caller never turns to the system's
resolver, its query goes through the interface of its connection, which is physical
or the application's, and waits for an answer only on a socket that was pinned; so
what it finds, and what the cache holds under that policy and interface, was found by
such a query (`Pinned`). A VPN's address is among it only if the option did not hold
or the interface is the TUN. A finished caller under another policy that is bound to
the device towards a fake address did not see the VPN up.

**SMPStream** (`StreamInv`). The parser's state says nothing of packets to come. The
invariant speaks of the bytes ahead of it: what is unread in its buffer, then what is
in the network, then what waits in the client's list, is, up to the first packet that
was dropped, the framing of the packets from the next one on, less what was read of
the current one. Each operation moves bytes between these three without changing their
concatenation, or takes a header or a payload off the front.

**MasqueTunnel** (`TunnelInv`). For the pointers: the inner connection holds its
tunnel exactly as long as that one lives, and detaches, reports its end and is deleted
only after it let go (`Linked`); there is one tunnel at most, since Connect is called
once (`Once`). For the datagrams: what the proxy grants is set before the inner
connection measures it and stays (`Staged`, `Measured`), so every datagram queued or on
its way is the largest packet of the inner connection, encoded for the stream the proxy
granted (`Encoded`); the rest is about the codec, that decoding inverts encoding for
each of the four lengths of a varint. An attempt at
this proof found the dispatch of tasks (`RunInner`, `RunTunnel`) written as a CASE with
overlapping guards, which leaves the choice between them open; the code has an order,
and the model now has it too.

**HttpExchange** needs no more than that the last call is one of `Calls`. What is
proved is about the text: each of its parts is said to lack a name, to have it
once, or to show a value under it, and these are closed under concatenation; the value
of the Host line is the caller's, which was checked not to be empty, or the URL's. The order
of the caller's own headers is open (`SetToSeq`), so the theorem holds for each.

Only model-checked:

- liveness, the fairness part of `ImplementsContract` included: it needs reasoning
  about fairness and `ENABLED` that the prover does not offer;
- `ParsedAsSent` and `ResponseIsOwn`: both compare what a parser made of an input
  with a reference that folds over the whole input (frames, or the items and headers
  of a response), so they need induction over data, which is out of the prover's
  reach too.

## 5. Findings and observations

One run shows the code doing what the repository says it does not; `PROJECT.json`
quotes it. `http_cancel_truncated`: `Close` cancels a request in flight without
recording a failure, so a response without a length, which ends with its
connection, counts as complete when the channel then closes, and the request is
resolved with a part of the body; `src/src/js/index.js:1372` says that requests in
flight are rejected.

Observations made while modelling. They are part of the models unless it is said
otherwise, and the properties state how far the code's promises go in spite of
them.

1. **Close during Open.** `HttpConnector` publishes a connection in the map
   (`HttpConnector.cpp:2308`) before it calls `Open`; `Close` or the connect timer
   may bring the channel to CLOSED before `Open`, on the other thread, stores
   RESOLVING (`TcpChannel.cpp:454-477`) and posts its first task. The end may then
   not be reported and the lookup not be abandoned: `QuietAfterClosed`,
   `NobodyForgotten` and `CloseCompletes` leave that channel out (`Overtaken`), while
   `CallbacksInTurn` and `NoSslUseAfterFree` cover it. `HttpConnector` and
   `WSConnector` see a channel from the return of `Open` on. A connect timer that
   cannot be armed goes unnoticed as well (469).
2. **Destroy may wait for ever.** `UDPSender::Destroy` posts STOPWORK, then locks
   and waits without a predicate (`UDPSender.cpp:515-528`); a shutdown between the
   two has signalled already. The group's creator calls it after a failed start.
3. **Close during a restart is dropped.** While a restart drains, `OnEventProcess`
   drops events, STOPWORK included (`UDPSender.cpp:1123`), and nobody repeats it:
   the sender stays open. `StopIsCarriedOut` shows that nothing else keeps a close
   from its end. Above it, the `SMPConnection` stays in CLOSING_SOCK with its
   connect timer cancelled (`SMPConnector.cpp:2350-2371`), so a pending Connect is
   never answered and the connector never closes (`StopLost` in `TakenIsAnswered`
   and `ConnectorCloses`). A second RESTART is dropped in the same way; the
   connection then stays on the earlier interface, and `AddressSettles` asks only
   that QUIC knows the address of the socket in use. After a failed restart there is
   no socket, and the connection works on without one.
4. **Force-physical and failed sends.** `_SendDoneCallback` unpins the socket on
   NETUNREACH whatever the policy (`UDPSender.cpp:1091`), while `_OnConnectDone`
   (1308) and `Connect` (393) keep the pin under force-physical.
5. **SMPConnection.** `_CloseCheck` has no branch for `CONN_STATE_INIT`
   (`SMPConnector.cpp:2342`): a Close in that state is recorded and never acted
   on, and the connector then waits for the connection; `ConnectorCloses` leaves
   this case out. A Connect queued behind a Close is dropped without an answer
   (1017). A Close during the handshake answers the pending Connect with the
   close's own status, SUCCESS (2392). `_error` resets the state to INIT (1404), so
   a Connect queued behind it starts a second QUIC connection while the first one
   lives; the first one's OnClose then clears the pointer to the second, which
   outlives its `SMPConnection` and the engine (`StartedAgain` in
   `EngineOutlivesConnections`). `OnPathChange` drops changes within 3 s of the
   last one it accepted (2838) and swallows the first report, while
   `src/src/js/index.js:1004-1006` says the connector restarts whenever the default
   interface differs; `AddressSettles` is about the ones it accepted. It also uses raw
   pointers after releasing the lock (2854-2866) while the owner of a closed
   connection may delete it (`napi/JsSMPConnectorWrap.cpp:661`).
6. **HttpConnector.** A channel that is being returned to the pool while `Close`
   runs is closed, but until its `OnChannelClosed` it is in none of the lists that
   `_AllDrainedLocked` looks at (`HttpConnector.cpp:1119`): OnClosed may be called
   while it is still open. It is deleted in the end (`NothingLeaks`).
7. **HTTP messages.** `http_on_message_complete` calls `llhttp_pause` and returns 0
   (`HttpConnector.cpp:1305-1311`), which `src/deps/llhttp/include/llhttp.h:311` says
   not to do: the pause only sets `error`, which the parser does not look at before
   the end of the read (`src/deps/llhttp/src/llhttp.c:894-936`). So of what is behind
   a complete message in the same read, garbage ends the parser without harm to the
   response, while another response overwrites its status and is added to its headers
   and body (`Llhttp` does this; `over` in `ResponseIsOwn`); the channel is pooled all
   the same. Bytes still on their way when it is reused are taken for the next
   response (`dirty`). A Host header of the caller replaces the URL's host and port
   (`HttpConnector.cpp:1781-1786`), whatever the channel is connected to. A cancelled
   request with an incomplete response is reported as "peer disconnected".
8. **WSConnector.** A connection whose Open fails after Close counted it as opened
   stays in the map until another Close (`WSConnector.cpp:972`); `CloseSettles`
   leaves this case out.
9. **WSParser.** After a protocol error the channel is asked to close, but bytes
   that arrive before it does are parsed on, and `ASSERT(require_data_size_ >= 2)`
   (`WSParser.cpp:172`) does not hold for them; after an error in the eight-byte
   length the next bytes produce an empty message. Frames behind a Close frame, and
   data after this side's own one, are still delivered and sent.
10. **SMP streams.** `OnStreamClosed` is reported twice (`SMPConnector.cpp:269` and
    3619); `index.js` absorbs it. `SMPServerStream::Send` drops the bytes that QUIC
    does not take, so `EverythingArrives` is about the client. `SMPParser::Cleanup`
    does not reset `require_data_size_`; it has no caller.
11. **SMPServer.** A repeated Initial packet makes a second QUIC connection and a
    second OnAccept for one client. A connection that changes its id keeps its old
    key in the map, and the server's Close then waits for ever. `create` and `close`
    tasks that JavaScript posts after OnClosed run on a deleted server; a socket
    that ends by itself leaves the connections with a dangling pointer.
    `stream_map_` is never erased, so SendPacket after the end of a stream uses a
    deleted one. Each of these is left out of the property it would break:
    `OrphanQuicOnlyAfterRepeat`, `ServerCloses` and
    `SocketOutlivesWriters` name these exceptions.
12. **MASQUE.** A tunnel is an HTTP/3 connection, for which `conn_` stays NULL: the
    library's timers do nothing for it and `_CloseCheck` never closes it, so it is
    left to the engine. It is not in `conns_map_`, so path changes do not restart
    its sockets.
13. **Lookups.** Where SO_BINDTODEVICE needs a privilege the process lacks,
    force-physical falls back on IP_UNICAST_IF, which kernels before 6.0.16 ignore on
    connected UDP sockets, the DNS query's among them (`SocketPinner.cpp:193-199`,
    `DnsResolver.cpp:593`, `src/src/js/index.js:1039-1045`): the VPN may then answer,
    and `ForceAnswersAreOwn` says how far the policy goes. Force-physical keeps the
    pin towards a fake address that the application gave, as `VpnPolicy.cpp:237-240`
    and its test intend, so `FakeIsUnpinned` is about the other policies. An
    interface that the application gives is not tested for being physical. A cached list keeps the order of the lookup that stored it,
    whatever `preferIpv6` says later. `ParseResponse` does not compare the type of
    a record with the question.
14. **Node binding.** A `close()` of an `HttpConnector` that has closed already
    posts its answer without a reference to the wrap
    (`napi/JsHttpConnectorWrap.cpp:483`): if the application lets go of it, wrap and
    event are collected and the promise stays pending, while
    `src/src/js/index.js:1370` says that every one settles. The WebSocket wrap takes
    a reference. `_FlushEvents` with
    a handler loses the events of other handlers (`napi/UVExchanger.cpp:162-170`);
    it has no caller. `_SettlePendingTasks` goes on for as long as callbacks make
    new requests. Finalizers are assumed to run from the event loop, not inside a
    callback.

## 6. Not modelled, and what is left

Left out, with the reason:

- certificates and pinning of keys (`TlsContext`), BoringSSL and xquic: their outcomes
  are nondeterministic; of llhttp, what it does with a read, not the grammar;
- `http-parser/`: vendored code;
- the Java, Swift and C bindings and the Node bindings of SMP beyond what
  `SMPConnector` and `SMPServer` take from them: marshalling over the same core;
- the platform monitors and route lookups of Windows and Apple beyond the shared
  outcomes: the same interface on other platforms;
- HTTP/3 on an `SMPConnection` without a tunnel, the WebTransport prefix of a
  stream and an HTTP upgrade (101): modes no part of the modelled life cycles
  depends on;
- configuration texts, logging, statistics, URL and header characters: no
  property is about them;
- `Runtime::Shutdown` and `BCEventQueue::SendTask`, which run at the end of the
  process.

Every invariant of the runs but the two at the end of section 4 is proved. Those, and
the liveness properties, stay with TLC.
