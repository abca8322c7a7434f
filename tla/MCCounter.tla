------------------------------ MODULE MCCounter ------------------------------
(* Two overlapping quorums of three keys. *)
EXTENDS CounterChain

MCKeys == {1, 2, 3}
MCQuorums == {<<1, 2>>, <<2, 3>>}
=============================================================================
