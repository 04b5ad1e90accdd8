----------------------------- MODULE MCWorkFlow -----------------------------
(* TLC instance of WorkFlow: four job ids on two of sixteen slots, as the   *)
(* code's sixteen ids fall on slots 0 and 8.                                *)
EXTENDS WorkFlow
=============================================================================
