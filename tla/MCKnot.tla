------------------------------- MODULE MCKnot -------------------------------
(* TLC instance of Knot: boards and host names are model values. *)
EXTENDS Knot

CONSTANTS p1, p2, h1
=============================================================================
