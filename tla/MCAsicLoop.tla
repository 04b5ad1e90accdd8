----------------------------- MODULE MCAsicLoop -----------------------------
(* TLC instance of AsicLoop: one caller, who pauses again and again. *)
EXTENDS AsicLoop

CONSTANT c1
=============================================================================
