-------------------------- MODULE MCStratumSession --------------------------
(* TLC instances of StratumSession: two endpoints are model values. *)
EXTENDS StratumSession

CONSTANTS p1, p2
=============================================================================
