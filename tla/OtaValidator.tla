---------------------------- MODULE OtaValidator ----------------------------
(***************************************************************************)
(* The validator of a freshly flashed image, components/ota_validator: the *)
(* image stays pending until a share is accepted or until 15 minutes have  *)
(* passed since a pool authorised the board.  Two tasks drive it, the      *)
(* stratum task and the task of the one-shot timer, without a lock; each   *)
(* reads bb_ota_is_pending(), steps ota_validator_state.c and only then    *)
(* calls bb_ota_mark_valid().                                              *)
(***************************************************************************)
EXTENDS Integers

VARIABLES
  otaPending,  \* bb_ota_is_pending()
  otaArmed,    \* s_state.timer_armed
  otaTimer,    \* whether the one-shot timer is running
  otaMarking,  \* reasons of the calls of bb_ota_mark_valid() about to be made
  otaMarks     \* reasons of those made since boot

otaVars == <<otaPending, otaArmed, otaTimer, otaMarking, otaMarks>>

Reasons == {"first share", "sustained stratum"}

OtaTypeOK ==
  /\ otaPending \in BOOLEAN
  /\ otaArmed \in BOOLEAN
  /\ otaTimer \in BOOLEAN
  /\ otaMarking \subseteq Reasons
  /\ otaMarks \subseteq Reasons

OtaInit ==
  /\ otaPending \in BOOLEAN
  /\ otaArmed = FALSE
  /\ otaTimer = FALSE
  /\ otaMarking = {}
  /\ otaMarks = {}

\* ota_validator_on_stratum_authorized().  A timer that cannot be created or
\* started leaves the state armed.
OnAuthorized ==
  /\ IF otaPending /\ ~otaArmed
     THEN otaArmed' = TRUE /\ otaTimer' \in {TRUE, otaTimer}
     ELSE UNCHANGED <<otaArmed, otaTimer>>
  /\ UNCHANGED <<otaPending, otaMarking, otaMarks>>

\* Mutant of OnShareAccepted: the timer is stopped and the image is not marked.
OnShareAcceptedStopsOnly ==
  /\ otaArmed' = (otaArmed /\ ~otaPending)
  /\ otaTimer' = (otaTimer /\ ~(otaPending /\ otaArmed))
  /\ otaMarking' = IF otaPending /\ ~otaArmed THEN otaMarking \cup {"first share"} ELSE otaMarking
  /\ UNCHANGED <<otaPending, otaMarks>>

\* ota_validator_on_share_accepted(), up to its call of mark_valid.
OnShareAccepted ==
  /\ otaArmed' = (otaArmed /\ ~otaPending)
  /\ otaTimer' = (otaTimer /\ ~(otaPending /\ otaArmed))
  /\ otaMarking' = IF otaPending THEN otaMarking \cup {"first share"} ELSE otaMarking
  /\ UNCHANGED <<otaPending, otaMarks>>

\* timer_fired_cb(), up to its call of mark_valid.
TimerFires ==
  /\ otaTimer
  /\ otaTimer' = FALSE
  /\ otaArmed' = (otaArmed /\ ~otaPending)
  /\ otaMarking' = IF otaPending THEN otaMarking \cup {"sustained stratum"} ELSE otaMarking
  /\ UNCHANGED <<otaPending, otaMarks>>

MarkValid(reason) ==
  /\ reason \in otaMarking
  /\ otaMarking' = otaMarking \ {reason}
  /\ otaMarks' = otaMarks \cup {reason}
  /\ otaPending' = FALSE
  /\ UNCHANGED <<otaArmed, otaTimer>>
=============================================================================
