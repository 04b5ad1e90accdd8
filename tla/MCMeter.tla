------------------------------ MODULE MCMeter ------------------------------
(* TLC instance of Meter: one chip, short windows and a narrow counter. *)
EXTENDS Meter

CONSTANT chip1
=============================================================================
