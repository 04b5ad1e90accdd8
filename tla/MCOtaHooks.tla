----------------------------- MODULE MCOtaHooks -----------------------------
(* TLC instances of OtaHooks: two transfers and an update check when no     *)
(* wait expires, a transfer and an update check when all of them may.       *)
EXTENDS OtaHooks

CONSTANTS push, pull, check
=============================================================================
