-------------------------- MODULE MCHttpConnector --------------------------
(* HttpConnector on small instances. *)
EXTENDS HttpConnector

(* Bound: a connector that is destroyed has met no stray bytes on a parked *)
(* channel.                                                                *)
MCNext == Next /\ (dtor'.pc # "none" => \A c \in Chans : ~chan'[c].spoiled)

MCSpec == Init /\ [][MCNext]_vars /\ Fairness
=============================================================================
