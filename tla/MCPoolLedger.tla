---------------------------- MODULE MCPoolLedger ----------------------------
(***************************************************************************)
(* PoolLedger with three pools on two slots: two pools share a host, two a *)
(* port.                                                                   *)
(***************************************************************************)
EXTENDS PoolLedger

MCPools == {[host |-> 1, port |-> 1], [host |-> 1, port |-> 2], [host |-> 2, port |-> 1]}
MCGrain == <<{"host", "port"}, {"shares", "blocks", "seen"}>>
=============================================================================
