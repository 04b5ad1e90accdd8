----------------------------- MODULE MCSettings -----------------------------
(* TLC instances of Settings: accounts and host names are model values. *)
EXTENDS Settings

CONSTANTS p1, p2, n1, n2
=============================================================================
