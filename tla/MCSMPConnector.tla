-------------------------- MODULE MCSMPConnector --------------------------
(* SMPConnector on small instances. *)
EXTENDS SMPConnector

CONSTANTS c1, c2, s2, i2   \* members of Conns, Stubs and Ifaces

(* Bounds: the second connection is created after the first has connected; *)
(* two connections, two Connects on one connection, and restarts do not    *)
(* come together; of two connections the application closes at most one    *)
(* itself; the first restart comes while a connection is being made or     *)
(* used, and there are two restarts, or one and a close of the connection  *)
(* or the connector; and the path there is at first is not i2, which is    *)
(* like any other.                                                         *)
Two == conn[c2].life # "none"
Again == \E c \in Conns : s2 \in conn[c].posted
Moved == net.changes > 0 \/ \E c \in Conns : conn[c].restarts > 0

Bounds ==
  /\ Two => \E s \in Stubs : conn[c1].ans[s] = <<"SUCCESS">>
  /\ ~(Two /\ Again) /\ ~(Two /\ Moved) /\ ~(Again /\ Moved)
  /\ Two => conn[c1].closes + conn[c2].closes <= 1
  /\ Moved => net.changes + conn[c1].restarts + conn[c1].closes + ctor.closes <= 2
  /\ Two \/ Again => net.iface # NULL

MCInit == Init /\ net.iface # i2

MCNext ==
  /\ Next /\ Bounds'
  /\ Moved' /\ ~Moved => conn[c1].state >= HANDSHAKE

MCSpec == MCInit /\ [][MCNext]_vars /\ Fairness
=============================================================================
