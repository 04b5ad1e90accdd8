------------------------------ MODULE OtaHooks ------------------------------
(***************************************************************************)
(* What an update switches off besides mining: the hooks of src/main.c     *)
(* that the OTA library calls around a transfer (tm_ota_pause(),           *)
(* tm_ota_resume()) and, on boards without an ASIC, around an update check *)
(* (tm_update_pause(), tm_update_resume()).                                *)
(*                                                                         *)
(* A hook is mining_pause() or mining_resume() and a few switches in a     *)
(* fixed order, shared by all and protected by nothing but the pause.  The *)
(* library calls the resume hook only if the pause hook returned true.     *)
(***************************************************************************)
EXTENDS MiningPause, Sequences

CONSTANT Updaters   \* callers that transfer an image; the others look for a new version

ASSUME HooksAssumption == Updaters \subseteq Callers

VARIABLES
  on,     \* what is switched on
  hook    \* by caller: the switches left in the hook it is in

hooksVars == <<pauseVars, on, hook>>

\* Two switches: telemetry (bb_pub and the mqtt connection) and the display
\* (s_display_quiesced and the panel, which a disabled display keeps dark).
Things == {"telemetry", "display"}

Silenced(c) == IF c \in Updaters THEN Things ELSE {"telemetry"}

Off(x) == [what |-> x, to |-> FALSE]
On(x) == [what |-> x, to |-> TRUE]
Resume == On("mining")

\* The switches of a pause hook and of a resume hook in their order.
OffOrder(c) == IF c \in Updaters THEN <<Off("telemetry"), Off("display")>> ELSE <<Off("telemetry")>>
OnOrder(c) == IF c \in Updaters THEN <<On("display"), On("telemetry")>> ELSE <<On("telemetry")>>

Steps == [what : Things \cup {"mining"}, to : BOOLEAN]

HooksTypeOK ==
  /\ on \subseteq Things
  /\ DOMAIN hook = Callers
  /\ \A c \in Callers : \A i \in DOMAIN hook[c] : hook[c][i] \in Steps

HooksInit == PauseInit /\ on = Things /\ hook = [c \in Callers |-> <<>>]

\* The pause hook: mining_pause() first, the switches whatever it returns.
EnterPause(c) ==
  /\ hook[c] = <<>>
  /\ PauseCall(c)
  /\ hook' = [hook EXCEPT ![c] = OffOrder(c)]
  /\ UNCHANGED on

Switch(c) ==
  /\ pc[c] \in {"holding", "idle"}
  /\ hook[c] # <<>> /\ Head(hook[c]) # Resume
  /\ LET s == Head(hook[c]) IN
       on' = IF s.to THEN on \cup {s.what} ELSE on \ {s.what}
  /\ hook' = [hook EXCEPT ![c] = Tail(@)]
  /\ UNCHANGED pauseVars

\* Mutant of EnterResume: mining resumes before the switches.
EnterResumeFirst(c) ==
  /\ pc[c] = "holding" /\ hook[c] = <<>>
  /\ hook' = [hook EXCEPT ![c] = <<Resume>> \o OnOrder(c)]
  /\ UNCHANGED <<pauseVars, on>>

\* The resume hook, if the pause hook returned true.
EnterResume(c) ==
  /\ pc[c] = "holding" /\ hook[c] = <<>>
  /\ hook' = [hook EXCEPT ![c] = OnOrder(c) \o <<Resume>>]
  /\ UNCHANGED <<pauseVars, on>>

ResumeMining(c) ==
  /\ hook[c] # <<>> /\ Head(hook[c]) = Resume
  /\ ResumeCall(c)
  /\ hook' = [hook EXCEPT ![c] = Tail(@)]
  /\ UNCHANGED on

\* The rest of mining_pause() and mining_resume().
Inside(c) == CallerProgress(c) /\ UNCHANGED <<on, hook>>

HookNext(c) == EnterPause(c) \/ Switch(c) \/ EnterResume(c) \/ ResumeMining(c) \/ Inside(c)

Miner == (OnCheck \/ MinerInside) /\ UNCHANGED <<on, hook>>

HooksNext == (\E c \in Callers : HookNext(c)) \/ Miner

HooksSpec == HooksInit /\ [][HooksNext]_hooksVars

(***************************************************************************)
(* Fairness.  A hook that has begun runs to its end, the handshake inside  *)
(* it too.  The miner polls its check site on every Tier-1 pass.  Nothing  *)
(* makes a caller begin a hook: a download may hold the pause for ever.    *)
(***************************************************************************)
HooksFairness ==
  /\ \A c \in Callers : WF_hooksVars(Inside(c) \/ Switch(c) \/ ResumeMining(c))
  /\ WF_hooksVars(Miner)

FairHooksSpec == HooksSpec /\ HooksFairness

\* The library calls the resume hook on every outcome of an update.
OwnersReturn == \A c \in Callers : WF_hooksVars(EnterResume(c))

FairReturningSpec == FairHooksSpec /\ OwnersReturn

-----------------------------------------------------------------------------
\* B1-281: from the end of a pause hook that returned true to its resume hook
\* the heap that telemetry needs is free and, in a transfer, the display is
\* dark, whatever the hooks of the other callers, granted or refused, do.
QuietWhileHeld ==
  \A c \in Callers :
    pc[c] = "holding" /\ hook[c] = <<>> => on \cap Silenced(c) = {}
-----------------------------------------------------------------------------
(* The inductive invariant behind it: what a hook still has to do tells     *)
(* which hook it is, and what it has switched off already.                  *)

\* What can be left of a pause hook and of a resume hook.
OffLeft(c) == {OffOrder(c), <<>>} \cup (IF c \in Updaters THEN {<<Off("display")>>} ELSE {})
OnLeft(c) == {OnOrder(c) \o <<Resume>>, <<On("telemetry"), Resume>>, <<Resume>>}

HookInv(c) ==
  /\ hook[c] \in OffLeft(c) \/ (pc[c] = "holding" /\ hook[c] \in OnLeft(c))
  /\ pc[c] \in {"taking", "requesting", "awaiting"} => hook[c] = OffOrder(c)
  /\ pc[c] = "holding" /\ hook[c] = <<Off("display")>> => "telemetry" \notin on
  /\ pc[c] = "holding" /\ hook[c] = <<>> => on \cap Silenced(c) = {}

HooksInv == \A c \in Callers : HookInv(c)
=============================================================================
