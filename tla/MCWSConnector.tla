--------------------------- MODULE MCWSConnector ---------------------------
(***************************************************************************)
(* WSConnector on small instances: up to all of Conns while the connector  *)
(* lives, and one connection when it is destroyed.                         *)
(***************************************************************************)
EXTENDS WSConnector

Created == {x \in Conns : c[x].life = "live"}

MCNext == Next /\ (dtor'.pc # "none" => Cardinality(Created') <= 1)

MCSpec == Init /\ [][MCNext]_vars /\ Fairness
=============================================================================
