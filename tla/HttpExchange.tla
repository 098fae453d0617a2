---------------------------- MODULE HttpExchange ----------------------------
(***************************************************************************)
(* What an HttpConnection (src/src/cpp/HttpConnector.cpp) writes and       *)
(* reads: ParseUrl and BuildRequestText, and the llhttp callbacks that     *)
(* collect the response, over requests that follow each other on one       *)
(* keep-alive channel.  The pool itself is module HttpConnector.           *)
(*                                                                         *)
(* The bytes of a server are the items llhttp (src/deps/llhttp) makes      *)
(* callbacks of.  An item counts as one byte.                              *)
(***************************************************************************)
EXTENDS Integers, FiniteSets, SequencesExt

CONSTANTS
  kMaxHeaderTotalBytes, kMaxSingleHeaderBytes, kMaxHeaderCount,
  kMaxReasonBytes, kMaxInterimResponses,
  max_response_bytes,
  Calls,          \* arguments the callers of Request use
  Finals,         \* final responses of the server
  MaxInterims,    \* bound on the 1xx responses before one
  MaxRequests     \* bound on the requests

VARIABLES
  call,      \* the arguments of the last call of Request
  conn,      \* the HttpConnection of the current request
  channel,   \* its channel: "none", "up", "asked" to close, "parked", "poisoned"
  incoming,  \* items of the server that have not arrived on it
  asked,     \* the requests so far, and what the server had for them
  results    \* what their handlers were told

exVars == <<call, conn, channel, incoming, asked, results>>

-----------------------------------------------------------------------------
(* Requests.  A URL by its parts; ports below 0 are none, empty and text.  *)

NoPort == -1
EmptyPort == -2
TextPort == -3

Hosts == {"name", "[v6]", "v6", "none", "unsafe"}

Urls ==
  [scheme : {"http", "https", "other"}, userinfo : BOOLEAN, host : Hosts,
   port : {NoPort, EmptyPort, TextPort, 0, 80, 443, 65535, 65536},
   rest : {"none", "/path", "?query", "#fragment", "unsafe"}]

Ports == 1 .. 65535

DefaultPort(scheme) == IF scheme = "http" THEN 80 ELSE 443

ParseUrl(u) ==
  LET port == IF u.port \in {NoPort, EmptyPort} THEN DefaultPort(u.scheme) ELSE u.port
  IN [ok |-> /\ u.scheme \in {"http", "https"} /\ ~u.userinfo
             /\ u.host \in {"name", "[v6]"} /\ port \in Ports
             /\ u.rest # "unsafe",
      tls |-> u.scheme = "https", port |-> port,
      hostHeader |-> IF port = DefaultPort(u.scheme) THEN NoPort ELSE port,
      target |-> CASE u.rest \in {"none", "#fragment"} -> <<"/">>
                   [] u.rest = "?query" -> <<"/", "?query">>
                   [] OTHER -> <<u.rest>>]

(* The caller's headers, each given with a value or absent: two spellings  *)
(* of Host, the first of them in the order of the map, and a name or value *)
(* that is not fit to be sent.  A method may be left out, be written in    *)
(* small letters, or be no token.                                          *)
HeaderNames == {"host", "HOST", "content-length", "connection", "transfer-encoding",
                "user-agent", "other", "unfit"}

HeaderValues == {"given", "other", "empty"}

Methods == {"none", "GET", "HEAD", "head", "POST", "post", "PUT", "PATCH", "no token"}

(* The lengths and counts are numbers; a caller gives a method, a URL,     *)
(* headers and a body of so many bytes.                                    *)
ASSUME HttpExchangeAssumption ==
  /\ {kMaxHeaderTotalBytes, kMaxSingleHeaderBytes, kMaxHeaderCount,
      kMaxReasonBytes, kMaxInterimResponses, max_response_bytes, MaxInterims, MaxRequests} \subseteq Nat
  /\ Calls \subseteq [method : Methods, url : Urls,
                       headers : [HeaderNames -> HeaderValues \cup {"absent"}],
                       body : Nat, keepAlive : BOOLEAN]

UpperMethod(c) ==
  CASE c.method = "none" -> "GET"
    [] c.method = "head" -> "HEAD"
    [] c.method = "post" -> "POST"
    [] OTHER -> c.method

Own == {"host", "HOST", "content-length", "connection", "transfer-encoding"}

NeedsLength(c) == c.body > 0 \/ UpperMethod(c) \in {"POST", "PUT", "PATCH"}

Given(c) == {h \in HeaderNames : c.headers[h] # "absent"}

(* A line is a name, a text, and the number the code puts into it: the     *)
(* port the Host header shows, or the length of the body.  The Host is the *)
(* caller's, if there is one, or else the authority of the URL.            *)
HostLine(c) ==
  IF "HOST" \in Given(c) THEN <<"host", c.headers["HOST"], NoPort>>
  ELSE IF "host" \in Given(c) THEN <<"host", c.headers["host"], NoPort>>
  ELSE <<"host", c.url.host, ParseUrl(c.url).hostHeader>>

(* The caller's headers follow, but for the ones named in `own'. *)
Lines(c, own) ==
  <<HostLine(c)>>
    \o (IF "user-agent" \in Given(c) THEN <<>> ELSE <<<<"user-agent", "own", 0>>>>)
    \o (IF NeedsLength(c) THEN <<<<"content-length", "own", c.body>>>> ELSE <<>>)
    \o (IF c.keepAlive THEN <<>> ELSE <<<<"connection", "own", 0>>>>)
    \o SetToSeq({<<h, c.headers[h], 0>> : h \in Given(c) \ own})

Fit(c) ==
  /\ ParseUrl(c.url).ok
  /\ c.method # "no token" /\ "unfit" \notin Given(c)
  /\ HostLine(c)[2] # "empty"

(* Mutant: a Transfer-Encoding of the caller's is passed on. *)
BuildRequestTextRaw(c) ==
  [ok |-> Fit(c), lines |-> Lines(c, Own \ {"transfer-encoding"})]

BuildRequestText(c) == [ok |-> Fit(c), lines |-> Lines(c, Own)]

-----------------------------------------------------------------------------
(* Responses: [status, reason, headers, delim, body, keep], with a reason  *)
(* of so many bytes, a header as <<name, bytes of value>>, and delim how   *)
(* the end of the body is told.                                            *)

Interim == [status |-> 100, reason |-> 1, headers |-> <<<<"h", 1>>>>, delim |-> "none",
            body |-> 0, keep |-> TRUE]

(* What a server may send behind a response: nothing, bytes that are no    *)
(* HTTP, another response (that it gives up waiting), or a late 1xx.       *)
Extras == {"none", "garbage", "response", "interim"}

GivesUp == [status |-> 408, reason |-> 1, headers |-> <<<<"h", 1>>>>, delim |-> "length",
            body |-> 0, keep |-> FALSE]

Item(kind, m, i, j) == [kind |-> kind, m |-> m, i |-> i, j |-> j]

Bodyless(r, head) == head \/ r.status < 200 \/ r.status \in {204, 304}

HeaderItems(m, i) ==
  <<Item("field", m, i, 0)>> \o [j \in 1 .. m.headers[i][2] |-> Item("value", m, i, j)]

(* The items of response m to a request.  The parser knows the end of the  *)
(* message by the last of them, except where the body ends with the        *)
(* connection.                                                             *)
ItemsOf(m, head) ==
  [j \in 1 .. m.reason |-> Item("status", m, 0, j)]
    \o FlattenSeq([i \in 1 .. Len(m.headers) |-> HeaderItems(m, i)])
    \o <<Item("headers", m, 0, 0)>>
    \o (IF Bodyless(m, head) THEN <<>> ELSE [j \in 1 .. m.body |-> Item("body", m, 0, j)])
    \o (IF Bodyless(m, head) \/ m.delim # "chunked" THEN <<>> ELSE <<Item("last", m, 0, 0)>>)

ExtraItems(extra, head) ==
  CASE extra = "none" -> <<>>
    [] extra = "garbage" -> <<Item("stray", Interim, 0, 0)>>
    [] extra = "response" -> ItemsOf(GivesUp, head)
    [] extra = "interim" -> ItemsOf(Interim, head)

-----------------------------------------------------------------------------
(* The callbacks, on the state of an HttpConnection.  `stop' is that a     *)
(* callback or the parser found an error; `paused' is what llhttp_pause    *)
(* leaves for the next llhttp_execute; `over' is that there were callbacks *)
(* behind the end of the message.                                          *)

NewConnection(head, pool) ==
  [head |-> head, pool |-> pool, field |-> "", value |-> <<>>, lastWasValue |-> FALSE,
   headers |-> <<>>, body |-> <<>>, status |-> 0, reason |-> 0, headerBytes |-> 0,
   skip |-> FALSE, done |-> FALSE, keepAlive |-> FALSE, interim |-> FALSE, interimCount |-> 0,
   failed |-> FALSE, delivered |-> FALSE, stop |-> "", paused |-> FALSE, over |-> FALSE]

Fail(c) == [c EXCEPT !.failed = TRUE, !.stop = "error"]

(* headers_, in the order of first appearance; a name that comes again is  *)
(* joined to its first value.                                              *)
Names(headers) == {headers[i][1] : i \in DOMAIN headers}

Joined(headers, name, value) ==
  IF name \in Names(headers)
  THEN [i \in DOMAIN headers |->
          IF headers[i][1] = name THEN <<name, headers[i][2] \o value>> ELSE headers[i]]
  ELSE Append(headers, <<name, value>>)

CommitHeader(c) ==
  IF c.field = "" THEN [c EXCEPT !.value = <<>>, !.lastWasValue = FALSE]
  ELSE IF c.field \notin Names(c.headers) /\ Len(c.headers) >= kMaxHeaderCount THEN Fail(c)
  ELSE [c EXCEPT !.headers = Joined(@, c.field, c.value), !.field = "", !.value = <<>>,
                 !.lastWasValue = FALSE]

ChargeHeaderBytes(c) ==
  IF c.stop = "error" \/ c.headerBytes + 1 > kMaxHeaderTotalBytes
  THEN Fail(c) ELSE [c EXCEPT !.headerBytes = @ + 1]

CheckSingleHeaderSize(c) ==
  IF c.stop = "error" THEN c
  ELSE IF Cardinality({c.field} \ {""}) + Len(c.value) + 1 > kMaxSingleHeaderBytes
  THEN Fail(c) ELSE c

OnStatus(c) ==
  LET r == ChargeHeaderBytes(c)
  IN IF r.stop = "error" THEN r
     ELSE IF c.reason + 1 > kMaxReasonBytes THEN Fail(r) ELSE [r EXCEPT !.reason = @ + 1]

OnHeaderField(c, name) ==
  LET r == CheckSingleHeaderSize(ChargeHeaderBytes(
             IF c.lastWasValue THEN CommitHeader(c) ELSE c))
  IN IF r.stop = "error" THEN r ELSE [r EXCEPT !.field = name]

OnHeaderValue(c, b) ==
  LET r == CheckSingleHeaderSize(ChargeHeaderBytes([c EXCEPT !.lastWasValue = TRUE]))
  IN IF r.stop = "error" THEN r ELSE [r EXCEPT !.value = Append(@, b)]

(* Mutant: an interim response leaves its headers behind. *)
ResetMessageStateNot(c) == [c EXCEPT !.status = 0, !.reason = 0, !.headerBytes = 0]

ResetMessageState(c) ==
  [c EXCEPT !.field = "", !.value = <<>>, !.lastWasValue = FALSE, !.headers = <<>>,
            !.body = <<>>, !.status = 0, !.reason = 0, !.headerBytes = 0]

OnHeadersComplete(c, status) ==
  LET r == [CommitHeader(c) EXCEPT !.status = status]
      n == c.interimCount + 1
  IN IF r.stop = "error" THEN r
     ELSE IF status >= 200 THEN [r EXCEPT !.skip = c.head \/ status \in {204, 304}]
     ELSE IF n > kMaxInterimResponses THEN Fail([r EXCEPT !.interimCount = n])
     ELSE ResetMessageState([r EXCEPT !.interimCount = n, !.interim = TRUE])

OnBody(c, b) ==
  IF Len(c.body) + 1 > max_response_bytes THEN Fail(c)
  ELSE [c EXCEPT !.body = Append(@, b)]

OnMessageComplete(c, keep, status) ==
  IF c.interim THEN [c EXCEPT !.interim = FALSE]
  ELSE LET r == CommitHeader(c)
       IN IF r.stop = "error" THEN r
          ELSE [r EXCEPT !.done = TRUE, !.keepAlive = keep, !.paused = TRUE,
                         !.status = IF @ = 0 THEN status ELSE @]

(* llhttp calls back for an item, and says that the message is complete    *)
(* with the item that ends it.  A pause asked for in a callback does not   *)
(* stop it: what follows in the same read is the next message to it.       *)
Ends(r, it) ==
  \/ it.kind = "headers" /\ \/ r.skip \/ Bodyless(it.m, FALSE)
                            \/ it.m.delim = "length" /\ it.m.body = 0
  \/ it.kind = "body" /\ it.m.delim = "length" /\ it.j = it.m.body
  \/ it.kind = "last"

Llhttp(c, it) ==
  LET r == CASE it.kind = "status" -> OnStatus(c)
             [] it.kind = "field" -> OnHeaderField(c, it.m.headers[it.i][1])
             [] it.kind = "value" -> OnHeaderValue(c, <<it.i, it.j>>)
             [] it.kind = "headers" -> OnHeadersComplete(c, it.m.status)
             [] it.kind = "body" -> OnBody(c, it.j)
             [] it.kind = "last" -> c
             [] it.kind = "stray" -> [c EXCEPT !.stop = "error"]
      e == IF r.stop = "" /\ Ends(r, it) THEN OnMessageComplete(r, it.m.keep, it.m.status)
           ELSE r
  IN IF c.stop = "error" THEN c ELSE [e EXCEPT !.over = @ \/ (c.done /\ it.kind # "stray")]

(* llhttp_execute on a read: an error or a pause of before is all it       *)
(* returns.                                                                *)
Execute(c, items) ==
  IF c.stop = "error" \/ c.paused THEN c ELSE FoldLeft(Llhttp, c, items)

(* llhttp_finish completes a message that ends with its connection. *)
LlhttpFinish(c, m) ==
  IF c.stop = "" /\ ~c.paused /\ c.status # 0 /\ m.delim = "close"
  THEN OnMessageComplete(c, FALSE, m.status) ELSE c

-----------------------------------------------------------------------------
(* One exchange after the other.                                           *)

ExInit ==
  /\ call \in Calls
  /\ conn = [NewConnection(FALSE, TRUE) EXCEPT !.delivered = TRUE]
  /\ channel = "none"
  /\ incoming = <<>>
  /\ asked = <<>>
  /\ results = <<>>

Response(c) == [kind |-> "response", status |-> c.status, reason |-> c.reason,
                headers |-> c.headers, body |-> c.body]
Error == [kind |-> "error", status |-> 0, reason |-> 0, headers |-> <<>>, body |-> <<>>]

(* A request on a parked channel, or a new one; the server answers it with *)
(* some 1xx and a final response, perhaps with something behind it,        *)
(* perhaps only a part: `cut' items of it, and then the end of the         *)
(* connection.  `dirty' is that items of before were still on their way.   *)
Request(c, interims, final, extra, cut) ==
  LET head == UpperMethod(c) = "HEAD"
      items == FlattenSeq([i \in 1 .. interims |-> ItemsOf(Interim, head)])
                 \o ItemsOf(final, head)
      reuse == channel = "parked"
  IN /\ conn.delivered /\ channel \in {"none", "parked", "poisoned"}
     /\ BuildRequestText(c).ok
     /\ Len(asked) < MaxRequests
     /\ cut <= Len(items) /\ (extra # "none" => cut = Len(items) /\ final.delim # "close")
     /\ call' = c
     /\ conn' = NewConnection(head, c.keepAlive)
     /\ channel' = "up"
     /\ incoming' = (IF reuse THEN incoming ELSE <<>>) \o SubSeq(items, 1, cut)
                  \o ExtraItems(extra, head)
     /\ asked' = Append(asked, [head |-> head, interims |-> interims, final |-> final,
                                whole |-> cut = Len(items), broken |-> FALSE,
                                cancelled |-> FALSE, over |-> FALSE,
                                dirty |-> reuse /\ incoming # <<>>])
     /\ UNCHANGED results

(* Request returns BC_R_INVALIDARG. *)
Reject(c) ==
  /\ ~BuildRequestText(c).ok
  /\ call' = c
  /\ UNCHANGED <<conn, channel, incoming, asked, results>>

Current == Len(asked)

(* OnChannelData: a response that is complete goes back to the pool with   *)
(* its channel, or waits for the channel's end.                            *)
Deliver(c) == results' = Append(results, IF c.done THEN Response(c) ELSE Error)

OnChannelData(n) ==
  /\ channel \in {"up", "asked"} /\ n <= Len(incoming)
  /\ incoming' = SubSeq(incoming, n + 1, Len(incoming))
  /\ LET c == Execute(conn, SubSeq(incoming, 1, n))
     IN /\ \/ /\ c.stop = ""
              /\ c.pool /\ c.keepAlive /\ c.done /\ ~c.failed
              /\ conn' = [c EXCEPT !.delivered = TRUE]
              /\ Deliver(c)
              /\ channel' = IF channel = "asked" THEN "none" ELSE "parked"
           \/ /\ c.stop = "" => ~(c.pool /\ c.keepAlive /\ c.done /\ ~c.failed)
              /\ conn' = IF c.stop = "error" THEN Fail(c) ELSE c
              /\ channel' = IF c.stop = "" /\ ~c.done THEN channel ELSE "asked"
              /\ UNCHANGED results
        /\ asked' = [asked EXCEPT ![Current].over = c.over]
  /\ UNCHANGED call

(* What arrives on a parked channel makes it unusable. *)
OnParkedData ==
  /\ channel = "parked" /\ incoming # <<>>
  /\ channel' = "poisoned"
  /\ incoming' = <<>>
  /\ UNCHANGED <<call, conn, asked, results>>

(* The response timer. *)
OnTimeout ==
  /\ channel = "up"
  /\ conn' = [conn EXCEPT !.failed = TRUE]
  /\ channel' = "asked"
  /\ asked' = [asked EXCEPT ![Current].broken = TRUE]
  /\ UNCHANGED <<call, incoming, results>>

(* HttpConnector::Close: Cancel records no failure. *)
Cancel ==
  /\ channel = "up"
  /\ channel' = "asked"
  /\ asked' = [asked EXCEPT ![Current].cancelled = TRUE]
  /\ UNCHANGED <<call, conn, incoming, results>>

(* _DeliverOnce, with a close result that is a success or not. *)
DeliverOnce(ok) ==
  LET c == IF ~conn.done /\ ~conn.failed /\ ok
           THEN LlhttpFinish(conn, asked[Current].final) ELSE conn
  IN /\ conn' = [c EXCEPT !.delivered = TRUE]
     /\ Deliver(c)

(* OnChannelClosed: as asked; or the server's end of the stream, behind    *)
(* all it sent; or the connection breaks.                                  *)
OnChannelClosed(ok) ==
  /\ channel \in {"up", "asked"}
  /\ (channel = "up" /\ ok) => incoming = <<>>
  /\ channel = "asked" => ok
  /\ DeliverOnce(ok)
  /\ channel' = "none"
  /\ incoming' = <<>>
  /\ asked' = [asked EXCEPT ![Current].broken = @ \/ ~ok]
  /\ UNCHANGED call

Lengths(interims, final, head) ==
  0 .. Len(ItemsOf(final, head)) + interims * Len(ItemsOf(Interim, head))

ExNext ==
  \/ \E c \in Calls :
       \/ Reject(c)
       \/ \E interims \in 0 .. MaxInterims, final \in Finals, extra \in Extras :
            \E cut \in Lengths(interims, final, UpperMethod(c) = "HEAD") :
              Request(c, interims, final, extra, cut)
  \/ \E n \in 1 .. Len(incoming) : OnChannelData(n)
  \/ OnParkedData \/ OnTimeout \/ Cancel
  \/ \E ok \in BOOLEAN : OnChannelClosed(ok)

ExSpec == ExInit /\ [][ExNext]_exVars

-----------------------------------------------------------------------------
(***************************************************************************)
(* Whatever URL, method, headers and body the caller gives, a request that *)
(* is accepted names one host: the Host the caller gave, which is not      *)
(* empty, or the host of the URL and the port it is connected to, left out *)
(* only where it is the default.  It says exactly once how long its body   *)
(* is, and carries no second framing header.                               *)
(***************************************************************************)
RequestTextFramed ==
  LET parts == ParseUrl(call.url)
      text == BuildRequestText(call)
      hosts == Given(call) \cap {"host", "HOST"}
      named(n) == {i \in DOMAIN text.lines : text.lines[i][1] = n}
  IN text.ok =>
       /\ parts.port \in Ports /\ parts.target[1] \in {"/", "/path"}
       /\ Cardinality(named("host")) = 1
       /\ \A i \in named("host") :
            \/ hosts # {} /\ text.lines[i][2] \in {call.headers[h] : h \in hosts} \ {"empty"}
            \/ /\ hosts = {} /\ text.lines[i][2] = call.url.host
               /\ \/ text.lines[i][3] = parts.port
                  \/ text.lines[i][3] = NoPort /\ parts.port = (IF parts.tls THEN 443 ELSE 80)
       /\ named("HOST") \cup named("transfer-encoding") = {}
       /\ \A i \in named("content-length") : text.lines[i][3] = call.body
       /\ Cardinality(named("content-length")) = (IF NeedsLength(call) THEN 1 ELSE 0)
       /\ Cardinality(named("connection")) = (IF call.keepAlive THEN 0 ELSE 1)

(* A reference: the response a caller should see of `a', and the reasons   *)
(* not to see it.                                                          *)
Expected(a) ==
  LET value(i) == [j \in 1 .. a.final.headers[i][2] |-> <<i, j>>]
  IN [kind |-> "response", status |-> a.final.status, reason |-> a.final.reason,
      headers |-> FoldLeft(LAMBDA h, i : Joined(h, a.final.headers[i][1], value(i)),
                           <<>>, [i \in 1 .. Len(a.final.headers) |-> i]),
      body |-> IF Bodyless(a.final, a.head) THEN <<>> ELSE [j \in 1 .. a.final.body |-> j]]

HeaderCost(m) == m.reason + FoldLeft(LAMBDA n, h : n + 1 + h[2], 0, m.headers)

TooMuch(a) ==
  \/ a.interims > kMaxInterimResponses
  \/ \E m \in {a.final} :
       \/ m.reason > kMaxReasonBytes \/ HeaderCost(m) > kMaxHeaderTotalBytes
       \/ \E i \in DOMAIN m.headers : 1 + m.headers[i][2] > kMaxSingleHeaderBytes
       \/ Cardinality(Names(m.headers)) > kMaxHeaderCount
       \/ ~Bodyless(m, a.head) /\ m.body > max_response_bytes

EndsWithConnection(a) == a.final.delim = "close" /\ ~Bodyless(a.final, a.head)

(***************************************************************************)
(* A request is answered with its own response, whole and with its own     *)
(* headers and body (nothing of a 1xx before it, of the response before it *)
(* on the channel or of a byte that came while the channel was parked), or *)
(* with an error, and with an error only for a reason: a limit, a timeout, *)
(* a broken or early end.  Garbage behind the response does not harm it.   *)
(* Not covered are a response that ends with its connection, which nobody  *)
(* can tell from a part of it; bytes of an earlier exchange that were      *)
(* still on their way when the channel was reused; and, but for the limit  *)
(* of its body, a response with another one behind it in the same read,    *)
(* which llhttp reads into it behind the pause.                            *)
(***************************************************************************)
ResponseIsOwn ==
  \A k \in DOMAIN results :
    LET a == asked[k]
    IN ~a.dirty =>
         /\ results[k].kind = "response" =>
              /\ EndsWithConnection(a) \/ (a.whole /\ ~TooMuch(a))
              /\ EndsWithConnection(a) \/ a.over \/ results[k] = Expected(a)
              /\ a.over \/ results[k].status = a.final.status
              /\ Len(results[k].body) <= max_response_bytes
         /\ results[k].kind = "error" =>
              TooMuch(a) \/ a.broken \/ a.cancelled \/ ~a.whole

(***************************************************************************)
(* Close of the connector rejects the requests in flight                   *)
(* (src/src/js/index.js, HttpConnector.close): none of them is answered    *)
(* with a part of its response.                                            *)
(***************************************************************************)
CancelledAreRejected ==
  \A k \in DOMAIN results :
    asked[k].cancelled /\ ~asked[k].over /\ results[k].kind = "response" =>
      results[k] = Expected(asked[k])
=============================================================================
