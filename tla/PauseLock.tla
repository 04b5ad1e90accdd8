----------------------------- MODULE PauseLock -----------------------------
(***************************************************************************)
(* What the pause interface of components/mining promises its callers: a   *)
(* lock on the mining task.  At most one caller owns the pause, a caller   *)
(* owns it only while the miner is parked, and the miner leaves its park   *)
(* only when nobody owns the pause.                                        *)
(*                                                                         *)
(* MiningPause implements this specification when neither of its two       *)
(* handshake timeouts fires (theorem PauseProofs!Implements).              *)
(***************************************************************************)
CONSTANTS Callers, None

VARIABLES owner,    \* the caller whose mining_pause() returned true, or None
          parked    \* whether the mining task is blocked in its park

vars == <<owner, parked>>

Init == /\ owner = None
        /\ parked = FALSE

Park == /\ ~parked
        /\ parked' = TRUE
        /\ UNCHANGED owner

Acquire(c) == /\ owner = None
              /\ parked
              /\ owner' = c
              /\ UNCHANGED parked

Release(c) == /\ owner = c
              /\ owner' = None
              /\ UNCHANGED parked

Unpark == /\ owner = None
          /\ parked
          /\ parked' = FALSE
          /\ UNCHANGED owner

Next == \/ Park
        \/ Unpark
        \/ \E c \in Callers : Acquire(c) \/ Release(c)

Spec == Init /\ [][Next]_vars
=============================================================================
