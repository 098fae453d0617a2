---------------------------- MODULE MCExchanges ----------------------------
(***************************************************************************)
(* What goes over the wire, for TLC: WebSocket frames, HTTP messages, and  *)
(* lookups with the choice of the interface.  The three share no state: a  *)
(* behaviour is one of one `part', the others stay as they begin.  Parts   *)
(* says which of them a run checks.                                        *)
(***************************************************************************)
EXTENDS WSParser, HttpExchange, PhysicalPath

CONSTANT Parts

VARIABLE part

allVars == <<wsVars, exVars, vars, part>>

-----------------------------------------------------------------------------
(* WebSocket.                                                              *)

Foreign(fin, op, mask, code, ext) ==
  [fin |-> fin, rsv |-> FALSE, op |-> op, mask |-> mask, code |-> code, ext |-> ext,
   n |-> IF code < Small THEN code ELSE ext]

(* With lengths 3 (126) and 4 (2^16) and a limit of 4 bytes: whole messages *)
(* in all three length forms, fragments that fit and that do not, control   *)
(* frames between them, a length in a longer form than it needs, and every  *)
(* kind of illegal frame.                                                   *)
Illegal ==
  {Foreign(TRUE, 3, FALSE, 1, 0), Foreign(FALSE, Ping, FALSE, 0, 0),
   Foreign(TRUE, CloseOp, FALSE, 1, 0),
   [Foreign(TRUE, Text, FALSE, 0, 0) EXCEPT !.rsv = TRUE]}

MCPeerFrames ==
  Illegal \cup
  {BuildFrame(Text, 0, FALSE), BuildFrame(Binary, 3, TRUE), BuildFrame(Text, 5, FALSE),
   BuildFrame(Ping, 1, FALSE), BuildFrame(CloseOp, 2, FALSE),
   Foreign(FALSE, Text, TRUE, 2, 0), Foreign(FALSE, Continue, FALSE, Small, 1),
   Foreign(TRUE, Continue, TRUE, Small + 1, 3), Foreign(TRUE, Continue, FALSE, 0, 0)}

(* Bound: which frames follow an illegal one is immaterial. *)
IllegalLast ==
  \A i \in 2 .. MaxFrames : sent[i - 1] \in Illegal => sent[i] = BuildFrame(Text, 0, FALSE)

(* Bound: bytes arrive by one, two or four, or all that are left; what the  *)
(* application writes is a frame or two before any of the peer's arrive,    *)
(* and nothing arrives after application data.                              *)
MCWSNext ==
  \/ /\ \A k \in DOMAIN wrote : Control(wrote[k].op)
     /\ \/ \E n \in {1, 2, 4, Len(wire)} \cap 1 .. Len(wire) : ParseWSFrame(n)
        \/ ParseStep
  \/ /\ Len(wrote) < 2 /\ told = <<>> /\ p = Parser
     /\ \A i \in 2 .. MaxFrames : sent[i] = sent[1]
     /\ \/ \E op \in {Text, Binary, Ping}, n \in SendSizes : Send(op, n)
        \/ CloseLocally

-----------------------------------------------------------------------------
(* HTTP.                                                                   *)

Url(scheme, port) == [scheme |-> scheme, userinfo |-> FALSE, host |-> "name",
                      port |-> port, rest |-> "/path"]

Call(method, url, headers, body, keepAlive) ==
  [method |-> method, url |-> url, headers |-> headers, body |-> body,
   keepAlive |-> keepAlive]

(* The headers named in S, with the values v and, for the second Host, w. *)
With(S, v, w) == [h \in HeaderNames |-> IF h \notin S THEN "absent" ELSE IF h = "host" THEN w ELSE v]

Bare == With({}, "given", "other")

Plain == {Call(method, Url("https", NoPort), Bare, 0, TRUE) : method \in {"GET", "HEAD"}}

MCCalls ==
  Plain
  \cup {Call("GET", u, Bare, 0, TRUE) : u \in Urls}
  \cup {Call(method, Url("https", NoPort), Bare, body, TRUE) : method \in Methods, body \in {0, 3}}
  \cup {Call("GET", Url("http", 443), With(S, v, w), 0, TRUE) :
          S \in SUBSET {"host", "HOST", "other"}, v \in HeaderValues, w \in HeaderValues}
  \cup {Call(method, Url("http", 443), With(S, "given", "other"), body, keepAlive) :
          method \in {"GET", "post"}, S \in SUBSET HeaderNames, body \in {0, 3},
          keepAlive \in BOOLEAN}

Final(status, reason, headers, delim, body, keep) ==
  [status |-> status, reason |-> reason, headers |-> headers, delim |-> delim,
   body |-> body, keep |-> keep]

(* Limits: 2 headers of 3 bytes, 8 bytes of them, a reason of 2, 2 bytes of *)
(* body, one 1xx.  Each limit is met exactly by one response and passed by  *)
(* another.                                                                 *)
MCFinals ==
  {Final(200, 1, <<<<"h", 1>>, <<"x", 1>>, <<"h", 2>>>>, "length", 2, TRUE),
   Final(200, 1, <<<<"x", 1>>>>, "chunked", 2, FALSE),
   Final(200, 1, <<>>, "close", 2, FALSE), Final(304, 1, <<>>, "length", 2, TRUE),
   Final(200, 1, <<>>, "length", 3, TRUE), Final(200, 3, <<>>, "length", 0, TRUE),
   Final(200, 1, <<<<"x", 3>>>>, "length", 0, TRUE),
   Final(200, 1, <<<<"h", 1>>, <<"x", 1>>, <<"y", 1>>>>, "length", 0, TRUE),
   Final(200, 2, <<<<"h", 2>>, <<"x", 2>>, <<"h", 1>>>>, "length", 0, TRUE)}

(* Bound: the first call only asks what is sent, or it is a plain one;     *)
(* responses are cut short or followed by something in the first exchange, *)
(* and the second is a GET, answered properly or cut off by the end of the *)
(* channel.                                                                *)
HttpNext ==
  \/ /\ asked = <<>> /\ call \in Plain
     /\ \E c \in MCCalls \ Plain :
          \/ Reject(c)
          \/ Request(c, 0, CHOOSE f \in MCFinals : f.body = 0, "none", 0)
  \/ /\ call \in Plain /\ asked = <<>>
     /\ \E c \in Plain, final \in Finals, extra \in Extras, interims \in 0 .. MaxInterims :
          \E cut \in Lengths(interims, final, c.method = "HEAD") :
            Request(c, interims, final, extra, cut)
  \/ /\ call \in Plain /\ asked # <<>>
     /\ \E c \in Plain, final \in Finals :
          /\ c.method = "GET"
          /\ Request(c, 0, final, "none", Len(ItemsOf(final, FALSE)))
  \/ /\ call \in Plain
     /\ \/ \E n \in 1 .. Len(incoming) : OnChannelData(n)
        \/ OnParkedData
        \/ Len(asked) = 1 /\ (OnTimeout \/ Cancel)
        \/ \E ok \in BOOLEAN : OnChannelClosed(ok)

-----------------------------------------------------------------------------
(* Lookups.                                                                *)

Cfg(e, b, v6, i) == [explicit |-> e, bypass |-> b, v6 |-> v6, ifIndex |-> i]

(* Each policy, named or by the older option, one of them misspelt; and    *)
(* the application choosing the interface, the TUN among them.             *)
MCConfigs == {Cfg("", "yes", TRUE, 0), Cfg("phys", "no", FALSE, 0), Cfg("force", "yes", FALSE, 0),
              Cfg("force", "none", FALSE, 2), Cfg("prefer", "none", FALSE, 1)}

(* The name of the TUN does not give it away. *)
MCIfaces == <<[device |-> TRUE, entry |-> TRUE, looksVirtual |-> FALSE],
              [device |-> FALSE, entry |-> TRUE, looksVirtual |-> FALSE]>>

(* Bound: the callers, which are alike and meet in the cache only, come    *)
(* one after the other; the second instead of the first's connecting, and  *)
(* only to find something in the cache: else it is like a first.           *)
InTurn ==
  \A c, d \in Callers : d < c /\ caller'[c].pc # "idle" =>
    /\ caller'[d].pc = "resolved" /\ caller'[c].pc \notin {"system", "server"}
    /\ caller[c].pc = "idle" => \E k \in Keys : CacheLookup(k)

-----------------------------------------------------------------------------
MCInit ==
  /\ part \in Parts \cap {"ws", "http", "dns"}
  /\ ExInit /\ call \in Plain /\ (part # "http" => call.method = "GET")
  /\ Init /\ (part # "dns" => links.up = {})
  /\ WSInit /\ IllegalLast
  /\ part # "ws" => \A i \in 1 .. MaxFrames : sent[i] = BuildFrame(Text, 0, FALSE)

MCNext ==
  \/ part = "ws" /\ MCWSNext /\ UNCHANGED <<exVars, vars, part>>
  \/ part = "http" /\ HttpNext /\ UNCHANGED <<wsVars, vars, part>>
  \/ part = "dns" /\ Next /\ InTurn /\ UNCHANGED <<wsVars, exVars, part>>

MCSpec == MCInit /\ [][MCNext]_allVars
=============================================================================
