-------------------------- MODULE MCMasqueTunnel --------------------------
EXTENDS MasqueTunnel

(* Stream ids whose quarters lie on a varint boundary; datagrams that     *)
(* leave no room, and room for a few bytes.                                *)
MCGrants == {[id |-> 252, mss |-> 65], [id |-> 256, mss |-> 71]}

(* One of another stream, of another context, empty, and cut short. *)
MCForeign == {[ok |-> TRUE, head |-> <<5, 0>>, size |-> 9],
              [ok |-> TRUE, head |-> <<0, 1>>, size |-> 9],
              [ok |-> TRUE, head |-> <<0, 0>>, size |-> 0],
              [ok |-> TRUE, head |-> <<64>>, size |-> 0]}
=============================================================================
