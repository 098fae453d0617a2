----------------------------- MODULE JsContract -----------------------------
(***************************************************************************)
(* What index.js promises to the users of HttpConnector and WsConnector:   *)
(* a request is answered once; connect is answered once and, if it failed, *)
(* nothing follows; messages come between its success and `closed', which  *)
(* comes once; and nobody waits for ever.                                  *)
(***************************************************************************)
EXTENDS Naturals

CONSTANTS Tasks, Conns

VARIABLES
  request,  \* "none", "pending" or "settled"
  connect,  \* "none", "pending", "rejected", "open" or "closed"
  messages  \* messages delivered so far, per connection

cvars == <<request, connect, messages>>

CInit ==
  /\ request = [t \in Tasks |-> "none"]
  /\ connect = [c \in Conns |-> "none"]
  /\ messages = [c \in Conns |-> 0]

Move(t, from, to) ==
  request[t] = from /\ request' = [request EXCEPT ![t] = to] /\ UNCHANGED <<connect, messages>>

Turn(c, from, to) ==
  connect[c] = from /\ connect' = [connect EXCEPT ![c] = to] /\ UNCHANGED <<request, messages>>

Request(t) == Move(t, "none", "pending")
Settle(t) == Move(t, "pending", "settled")

Connect(c) == Turn(c, "none", "pending")
Answer(c) == Turn(c, "pending", "open") \/ Turn(c, "pending", "rejected")
Closed(c) == Turn(c, "open", "closed")
Message(c) ==
  connect[c] = "open" /\ messages' = [messages EXCEPT ![c] = @ + 1] /\ UNCHANGED <<request, connect>>

CNext ==
  \/ \E t \in Tasks : Request(t) \/ Settle(t)
  \/ \E c \in Conns : Connect(c) \/ Answer(c) \/ Closed(c) \/ Message(c)

(* What may happen ... *)
CSafe == CInit /\ [][CNext]_cvars

(* ... and that it does. *)
CSpec ==
  /\ CSafe
  /\ \A t \in Tasks : WF_cvars(Settle(t))
  /\ \A c \in Conns : WF_cvars(Answer(c))
=============================================================================
