---------------------------- MODULE MCStratumRpc ----------------------------
(***************************************************************************)
(* StratumRpc with a ring of two slots and shares of two difficulties.   *)
(***************************************************************************)
EXTENDS StratumRpc
=============================================================================
