------------------------------ MODULE AsicLoop ------------------------------
(***************************************************************************)
(* The mining task of the Bitaxe boards: asic_mining_task() in             *)
(* components/asic/src/asic_task.c, with the pause coalescing of           *)
(* asic_pause_coalesce.c and the two places where the loop calls           *)
(* mining_pause_check().  The handshake itself is MiningPause; this module *)
(* says when the loop polls it and what the ASIC chips are doing meanwhile.*)
(*                                                                         *)
(* The nonces are AsicJobs' subject; here a nonce either sends the loop    *)
(* back to its top (every `continue' of the receive path) or not.          *)
(***************************************************************************)
EXTENDS MiningPause

CONSTANTS
  VcoreWatchdog,   \* CONFIG_TM_VCORE_WATCHDOG: a collapsed core rail is recovered in place
  PoolMayDrop,     \* whether the pool session can be lost
  PollRegs         \* length of s_poll_regs

ASSUME AsicAssumption ==
  /\ VcoreWatchdog \in BOOLEAN
  /\ PoolMayDrop \in BOOLEAN
  /\ PollRegs \in Nat \ {0}

VARIABLES
  loop,      \* where asic_mining_task() is
  quiesced,  \* s_chip_quiesced
  chip,      \* "inactive" (CMD_INACTIVE sent), or hashing: started by the loop
             \* ("hashing") or by a recovery while s_chip_quiesced was up ("recovered")
  resumeOk,  \* the result of the last chip_resume() of the loop, which ignores it
  chipJob,   \* whether a job was sent to the chips since they were last started
  queue,     \* work_queue: "empty", "fresh" (work_seq # s_current_work_seq) or "current"
  regsLeft,  \* registers still to read in this 5 s poll
  vcoreLow   \* whether the core rail has collapsed

chipVars == <<quiesced, chip, resumeOk, chipJob>>
asicVars == <<loop, quiesced, chip, resumeOk, chipJob, queue, regsLeft, vcoreLow>>
vars == <<pauseRequested, pauseActive, mutex, ack, done, pc, wasActive, miner,
          loop, quiesced, chip, resumeOk, chipJob, queue, regsLeft, vcoreLow>>

\* "top" coalescing decision; "quiesce" chip_quiesce(); "check" and "poll"
\* mining_pause_check() calls; "ramp" chip_resume(); "peek" work; "nonce" UART;
\* "tick" 5 s temperature, fan and power step
Sites == {"check", "poll"}
LoopLabels == {"top", "quiesce", "ramp", "peek", "nonce", "tick"} \cup Sites

AsicTypeOK ==
  /\ loop \in LoopLabels
  /\ quiesced \in BOOLEAN
  /\ chip \in {"hashing", "inactive", "recovered"}
  /\ resumeOk \in BOOLEAN
  /\ chipJob \in BOOLEAN
  /\ queue \in {"empty", "fresh", "current"}
  /\ regsLeft \in 0..PollRegs
  /\ vcoreLow \in BOOLEAN
  /\ loop = "poll" <=> regsLeft > 0

Init ==
  /\ PauseInit
  /\ loop = "top"
  /\ quiesced = FALSE
  /\ chip = "hashing"
  /\ resumeOk = TRUE
  /\ chipJob = FALSE
  /\ queue = "empty"
  /\ regsLeft = 0
  /\ vcoreLow = FALSE

LoopGoto(from, to) == /\ miner = "out"
                      /\ loop = from
                      /\ loop' = to

-----------------------------------------------------------------------------
(* The top of the loop: asic_pause_coalesce_next() *)

\* Mutant of Coalesce: the flag is not raised when the chips are quiesced.
CoalesceForgets ==
  \/ /\ pauseRequested /\ ~quiesced
     /\ LoopGoto("top", "quiesce")
     /\ UNCHANGED quiesced
  \/ /\ pauseRequested /\ quiesced
     /\ LoopGoto("top", "check")
     /\ UNCHANGED quiesced
  \/ /\ ~pauseRequested /\ quiesced
     /\ LoopGoto("top", "ramp")
     /\ quiesced' = FALSE
  \/ /\ ~pauseRequested /\ ~quiesced
     /\ LoopGoto("top", "peek")
     /\ UNCHANGED quiesced

\* Mutant of Coalesce: a pending pause is acked before the chips are quiesced.
CoalesceAcksFirst ==
  \/ /\ pauseRequested
     /\ LoopGoto("top", "check")
     /\ UNCHANGED quiesced
  \/ /\ ~pauseRequested /\ quiesced
     /\ LoopGoto("top", "ramp")
     /\ quiesced' = FALSE
  \/ /\ ~pauseRequested /\ ~quiesced
     /\ LoopGoto("top", "peek")
     /\ UNCHANGED quiesced

Coalesce ==
  \/ /\ pauseRequested /\ ~quiesced
     /\ LoopGoto("top", "quiesce")
     /\ quiesced' = TRUE
  \/ /\ pauseRequested /\ quiesced
     /\ LoopGoto("top", "check")
     /\ UNCHANGED quiesced
  \/ /\ ~pauseRequested /\ quiesced
     /\ LoopGoto("top", "ramp")
     /\ quiesced' = FALSE
  \/ /\ ~pauseRequested /\ ~quiesced
     /\ LoopGoto("top", "peek")
     /\ UNCHANGED quiesced

Top == /\ Coalesce
       /\ UNCHANGED <<pauseVars, chip, resumeOk, chipJob, queue, regsLeft, vcoreLow>>

\* chip_quiesce(): CMD_INACTIVE to the chain.
Quiesce ==
  /\ LoopGoto("quiesce", "check")
  /\ chip' = "inactive"
  /\ UNCHANGED <<pauseVars, quiesced, resumeOk, chipJob, queue, regsLeft, vcoreLow>>

\* chip_resume() re-runs the chip init; its result is not looked at.
Ramp ==
  /\ LoopGoto("ramp", "peek")
  /\ \/ resumeOk' = TRUE /\ chip' = "hashing"
     \/ resumeOk' = FALSE /\ UNCHANGED chip   \* no chip answered
  /\ chipJob' = FALSE
  /\ UNCHANGED <<pauseVars, quiesced, queue, regsLeft, vcoreLow>>

-----------------------------------------------------------------------------
(* mining_pause_check() at its two call sites *)

\* Where the loop goes on after the call it is in.
AfterCheck ==
  IF loop = "check" THEN loop' = "peek" /\ UNCHANGED regsLeft
  ELSE /\ regsLeft' = regsLeft - 1
       /\ loop' = IF regsLeft = 1 THEN "top" ELSE "poll"

\* The request was withdrawn between the decision and the call.
CheckReturns ==
  /\ loop \in Sites
  /\ miner = "out"
  /\ ~pauseRequested
  /\ AfterCheck
  /\ UNCHANGED <<pauseVars, chipVars, queue, vcoreLow>>

CheckStep ==
  /\ loop \in Sites
  /\ OnCheck \/ MinerInside
  /\ IF miner \in {"woken", "expiring"} THEN AfterCheck ELSE UNCHANGED <<loop, regsLeft>>
  /\ UNCHANGED <<chipVars, queue, vcoreLow>>

-----------------------------------------------------------------------------
(* Work, nonces and the periodic steps *)

\* A new work_seq: the job is written to the UART.  A chain that is inactive
\* does not take it.
Dispatch ==
  IF queue = "fresh" THEN /\ queue' = "current"
                          /\ chipJob' = (chipJob \/ chip # "inactive")
  ELSE UNCHANGED <<queue, chipJob>>

\* The 100 ms peek of work_queue; an empty queue goes back to the top.  (So would
\* a work with an invalid target, but build_work() makes none.)
Peek ==
  /\ \/ /\ queue = "empty"
        /\ LoopGoto("peek", "top")
        /\ UNCHANGED <<queue, chipJob>>
     \/ /\ queue # "empty"
        /\ LoopGoto("peek", "nonce")
        /\ Dispatch
  /\ UNCHANGED <<pauseVars, quiesced, chip, resumeOk, regsLeft, vcoreLow>>

\* A bad, stale, duplicate or register response is a `continue'.
NonceContinue ==
  /\ LoopGoto("nonce", "top")
  /\ UNCHANGED <<pauseVars, chipVars, queue, regsLeft, vcoreLow>>

NonceDone ==
  /\ LoopGoto("nonce", "tick")
  /\ UNCHANGED <<pauseVars, chipVars, queue, regsLeft, vcoreLow>>

\* The 5 s step: temperature, fan, power.  asic_vcore_recover_inplace() cycles
\* the rail, restarts the chips and resets the dispatch gate.  A recovery that
\* fails restarts the board, that is, goes to Init.
Tick ==
  /\ LoopGoto("tick", "poll")
  /\ regsLeft' = PollRegs
  /\ \/ /\ VcoreWatchdog /\ vcoreLow
        /\ vcoreLow' = FALSE
        /\ chip' = IF quiesced THEN "recovered" ELSE "hashing"
        /\ chipJob' = FALSE
        /\ queue' = IF queue = "empty" THEN "empty" ELSE "fresh"
     \/ UNCHANGED <<chip, chipJob, queue, vcoreLow>>
  /\ UNCHANGED <<pauseVars, quiesced, resumeOk>>

\* Less than 5 s since the last one.
TickNotDue ==
  /\ LoopGoto("tick", "top")
  /\ UNCHANGED <<pauseVars, chipVars, queue, regsLeft, vcoreLow>>

-----------------------------------------------------------------------------
(* The other tasks and the hardware *)

CallerStep(c) == CallerNext(c) /\ UNCHANGED asicVars

\* Mutant of NewWork: work_seq is not incremented.
NewWorkSameSeq ==
  /\ queue' = IF queue = "empty" THEN "fresh" ELSE queue
  /\ UNCHANGED <<pauseVars, loop, chipVars, regsLeft, vcoreLow>>

\* stratum: xQueueOverwrite of a work item with a new work_seq.
NewWork ==
  /\ queue' = "fresh"
  /\ UNCHANGED <<pauseVars, loop, chipVars, regsLeft, vcoreLow>>

\* stratum: xQueueReset on its way to reconnect.
LoseWork ==
  /\ PoolMayDrop
  /\ queue' = "empty"
  /\ UNCHANGED <<pauseVars, loop, chipVars, regsLeft, vcoreLow>>

VcoreCollapse ==
  /\ VcoreWatchdog
  /\ vcoreLow' = TRUE
  /\ UNCHANGED <<pauseVars, loop, chipVars, queue, regsLeft>>

LoopNext ==
  \/ Top \/ Quiesce \/ Ramp \/ CheckReturns \/ CheckStep
  \/ Peek \/ NonceContinue \/ NonceDone \/ Tick \/ TickNotDue

Next ==
  \/ LoopNext
  \/ \E c \in Callers : CallerStep(c)
  \/ NewWork \/ LoseWork \/ VcoreCollapse

Spec == Init /\ [][Next]_vars

(***************************************************************************)
(* Fairness: the task runs; callers run and owners resume; a connected     *)
(* stratum task rolls the extranonce of its job several times a second.    *)
(***************************************************************************)
FairSpec ==
  /\ Spec
  /\ WF_vars(LoopNext)
  /\ \A c \in Callers : /\ WF_vars(CallerProgress(c) /\ UNCHANGED asicVars)
                        /\ WF_vars(ResumeCall(c) /\ UNCHANGED asicVars)
  /\ WF_vars(NewWork)

-----------------------------------------------------------------------------
\* The loop uses the handshake as MiningPause says a miner does.
ImplementsPause == PauseSpec

\* asic_pause_coalesce.h:8, ACK_ONLY: "already quiesced".  The pause that is
\* acked at the top of the loop is not acked over chips that the loop itself
\* has running: this pass or an earlier one quiesced them, and the one thing
\* that can have started them since is the recovery of the core rail.
AckSiteQuiesced == loop = "check" => chip # "hashing"

\* Inactive chips are never forgotten: the flag that makes the loop restart
\* them is up, or it is about to restart them, or it has tried and failed.
InactiveIsFlagged == chip = "inactive" => quiesced \/ loop = "ramp" \/ ~resumeOk

\* A caller that pauses again before the loop is back at its top keeps the
\* chips inactive (that is what coalescing is for); callers that stop do not.
CallersStop == \A c \in Callers : <>[](pc[c] = "idle")

\* Chips that were quiesced for a pause hash again.
ChipRestarts ==
  CallersStop /\ <>[]resumeOk => ((chip = "inactive") ~> (chip # "inactive"))

\* Chips that lost their job to a re-init get one: neither a job written to
\* inactive chips nor a work item that was dispatched before the re-init keeps
\* them idle, as the gate on work_seq opens with the next roll of the
\* extranonce (asic_task.c:326-329).
ChipGetsWork ==
  CallersStop /\ <>[]resumeOk /\ <>[](queue # "empty")
    => ((chip # "inactive" /\ ~chipJob) ~> chipJob)
=============================================================================
