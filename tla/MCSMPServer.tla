---------------------------- MODULE MCSMPServer ----------------------------
(***************************************************************************)
(* The server and a stream of one of its connections, for TLC.  The two    *)
(* share no state: a behaviour is one of one `part', the other stays as it *)
(* begins.                                                                 *)
(***************************************************************************)
EXTENDS SMPServer, SMPStream

VARIABLE part

allVars == <<vars, smpVars, part>>

InServer(A) == part = "server" /\ A /\ UNCHANGED <<smpVars, part>>

OnStream(A) == part = "stream" /\ A /\ UNCHANGED <<vars, part>>

(* Bound: a client that repeats its Initial packet opens no stream. *)
Bounded ==
  \A o \in Objs : conn[o].stream # "none" => sent[conn[o].key] <= 1

MCInit ==
  /\ part \in {"server", "stream"}
  /\ Init
  /\ StreamInit /\ (part = "server" => side = "client")

MCNext == InServer(Next /\ Bounded') \/ OnStream(StreamNext)

(* Fairness of the one part, and StreamFairness of the other. *)
MCFairness ==
  /\ WF_allVars(InServer(RuntimeTask)) /\ WF_allVars(InServer(OnExchangeEvent))
  /\ WF_allVars(InServer(srv.udp = "closing" /\ OnUdpClosed))
  /\ \A o \in Objs :
       /\ WF_allVars(InServer(WorkerTask(o))) /\ WF_allVars(InServer(LibraryCloses(o)))
       /\ WF_allVars(InServer(NotifyConnClosed(o))) /\ WF_allVars(InServer(OnClosed(o)))
  /\ WF_allVars(OnStream(OnWriteNotify)) /\ WF_allVars(OnStream(ParseRound))
  /\ WF_allVars(OnStream(\E n \in 1 .. Len(net) : Parse(n)))

MCSpec == MCInit /\ [][MCNext]_allVars /\ MCFairness
=============================================================================
