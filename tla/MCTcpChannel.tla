---------------------------- MODULE MCTcpChannel ----------------------------
(* Instances of TcpChannel for TLC.                                        *)
EXTENDS TcpChannel, TLC

Cfg(tls, spki, policy, literal) ==
  [tls |-> tls, spki |-> spki, policy |-> policy, literal |-> literal, nic |-> TRUE]

(* TLS with a public-key pin, under each policy, and plain TCP. *)
OpenConfigs == {Cfg(TRUE, TRUE, "force", FALSE), Cfg(TRUE, FALSE, "prefer", TRUE),
                Cfg(FALSE, FALSE, "os", FALSE)}

(* TLS through a name lookup, and plain TCP: every wait there is. *)
LiveConfigs == {Cfg(TRUE, FALSE, "os", FALSE), Cfg(FALSE, FALSE, "os", TRUE)}
=============================================================================
