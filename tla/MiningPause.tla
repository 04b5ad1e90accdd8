---------------------------- MODULE MiningPause ----------------------------
(***************************************************************************)
(* The cooperative mining pause: components/mining/src/mining_pause.c, its *)
(* state helpers (mining_pause_state.c) and its semaphores                 *)
(* (mining_pause_espidf.c).                                                *)
(*                                                                         *)
(* Several tasks may pause mining (the OTA workers, the update check, the  *)
(* benchmark handler of the web server): each calls mining_pause(), works, *)
(* then calls mining_resume().  One mining task polls                      *)
(* mining_pause_check().  They share two unprotected flags, a mutex and    *)
(* two binary semaphores that nothing ever drains.  Both handshake waits   *)
(* have a timeout.  One step here is one access to the shared state.       *)
(***************************************************************************)
EXTENDS Naturals

CONSTANTS
  Callers,         \* tasks that call mining_pause() and mining_resume()
  None,            \* no caller
  AckMayTimeOut,   \* whether the 15 s wait for the miner's ack can expire
  DoneMayTimeOut   \* whether the 5 min park of the miner can expire

ASSUME NoneAssumption == None \notin Callers
ASSUME TimeoutAssumption == AckMayTimeOut \in BOOLEAN /\ DoneMayTimeOut \in BOOLEAN

VARIABLES
  pauseRequested,  \* s_pause_state.pause_requested
  pauseActive,     \* s_pause_state.pause_active
  mutex,           \* holder of s_pause_mutex, or None
  ack,             \* tokens in s_pause_ack, a binary semaphore
  done,            \* tokens in s_pause_done, a binary semaphore
  pc,              \* where each caller is in mining_pause()/mining_resume()
  wasActive,       \* was_active, the local of mining_pause_state_on_resume()
  miner            \* where the mining task is in mining_pause_check()

flags == <<pauseRequested, pauseActive>>
sems == <<mutex, ack, done>>
callerVars == <<pc, wasActive>>
pauseVars == <<pauseRequested, pauseActive, mutex, ack, done, pc, wasActive, miner>>

\* "idle"       outside        "taking"     in mutex_take
\* "requesting" mutex taken    "awaiting"   in ack_take
\* "abandoning" ack timed out  "holding"    mining_pause() returned true
\* "clearing"   resume: active read, request not yet cleared
\* "signalling" resume: about to done_give    "releasing" about to mutex_give
CallerLabels == {"idle", "taking", "requesting", "awaiting", "abandoning",
                 "holding", "clearing", "signalling", "releasing"}

\* "out"       outside (hashing)  "entering" request seen, active not yet set
\* "acking"    about to ack_give  "parked"   in bb_wdt_park_wait
\* "woken"     done taken         "expired"  park timed out
\* "expiring"  timed out, request cleared, active not yet
MinerLabels == {"out", "entering", "acking", "parked", "woken", "expired", "expiring"}

TypeOK ==
  /\ pauseRequested \in BOOLEAN
  /\ pauseActive \in BOOLEAN
  /\ mutex \in Callers \cup {None}
  /\ ack \in {0, 1}
  /\ done \in {0, 1}
  /\ pc \in [Callers -> CallerLabels]
  /\ wasActive \in [Callers -> BOOLEAN]
  /\ miner \in MinerLabels

PauseInit ==
  /\ pauseRequested = FALSE
  /\ pauseActive = FALSE
  /\ mutex = None
  /\ ack = 0
  /\ done = 0
  /\ pc = [c \in Callers |-> "idle"]
  /\ wasActive = [c \in Callers |-> FALSE]
  /\ miner = "out"

Goto(c, from, to) == /\ pc[c] = from
                     /\ pc' = [pc EXCEPT ![c] = to]

MinerGoto(from, to) == /\ miner = from
                       /\ miner' = to

-----------------------------------------------------------------------------
(* mining_pause() *)

PauseCall(c) ==
  /\ Goto(c, "idle", "taking")
  /\ UNCHANGED <<flags, sems, wasActive, miner>>

MutexTake(c) ==
  /\ Goto(c, "taking", "requesting")
  /\ mutex = None
  /\ mutex' = c
  /\ UNCHANGED <<flags, ack, done, wasActive, miner>>

\* Mutant of MutexTimeout: the wait for the mutex has no limit.
MutexTimeoutNever(c) ==
  /\ FALSE
  /\ UNCHANGED pauseVars

\* Another caller held the pause for the whole 30 s: return false.
MutexTimeout(c) ==
  /\ Goto(c, "taking", "idle")
  /\ mutex # None
  /\ UNCHANGED <<flags, sems, wasActive, miner>>

\* mining_pause_state_request()
Request(c) ==
  /\ Goto(c, "requesting", "awaiting")
  /\ pauseRequested' = TRUE
  /\ UNCHANGED <<pauseActive, sems, wasActive, miner>>

\* Mutant of AckTake: the caller does not wait for the token.
AckTakeBlind(c) ==
  /\ Goto(c, "awaiting", "holding")
  /\ ack' = 0
  /\ UNCHANGED <<flags, mutex, done, wasActive, miner>>

\* ack_take() got a token: return true, the mutex still held.
AckTake(c) ==
  /\ Goto(c, "awaiting", "holding")
  /\ ack = 1
  /\ ack' = 0
  /\ UNCHANGED <<flags, mutex, done, wasActive, miner>>

\* 15 s passed without a token.
AckTimeout(c) ==
  /\ AckMayTimeOut
  /\ Goto(c, "awaiting", "abandoning")
  /\ ack = 0
  /\ UNCHANGED <<flags, sems, wasActive, miner>>

\* Mutant of OnAckTimeout: the request stays up.
OnAckTimeoutKeeps(c) ==
  /\ Goto(c, "abandoning", "releasing")
  /\ UNCHANGED <<flags, sems, wasActive, miner>>

\* mining_pause_state_on_ack_timeout(); mining_pause() then gives the mutex
\* and returns false.
OnAckTimeout(c) ==
  /\ Goto(c, "abandoning", "releasing")
  /\ pauseRequested' = FALSE
  /\ UNCHANGED <<pauseActive, sems, wasActive, miner>>

(* mining_resume(), called by a caller whose mining_pause() returned true *)

\* mining_pause_state_on_resume() reads pause_active ...
ResumeCall(c) ==
  /\ Goto(c, "holding", "clearing")
  /\ wasActive' = [wasActive EXCEPT ![c] = pauseActive]
  /\ UNCHANGED <<flags, sems, miner>>

\* ... and clears the request.
OnResume(c) ==
  /\ Goto(c, "clearing", IF wasActive[c] THEN "signalling" ELSE "releasing")
  /\ pauseRequested' = FALSE
  /\ UNCHANGED <<pauseActive, sems, wasActive, miner>>

\* Mutant of DoneGive: the token is not given.
DoneGiveLost(c) ==
  /\ Goto(c, "signalling", "releasing")
  /\ UNCHANGED <<flags, sems, wasActive, miner>>

DoneGive(c) ==
  /\ Goto(c, "signalling", "releasing")
  /\ done' = 1
  /\ UNCHANGED <<flags, mutex, ack, wasActive, miner>>

MutexGive(c) ==
  /\ Goto(c, "releasing", "idle")
  /\ mutex' = None
  /\ UNCHANGED <<flags, ack, done, wasActive, miner>>

-----------------------------------------------------------------------------
(* mining_pause_check(), called by the mining task *)

\* mining_pause_state_on_check() reads the request ...
OnCheck ==
  /\ MinerGoto("out", "entering")
  /\ pauseRequested
  /\ UNCHANGED <<flags, sems, callerVars>>

\* ... and sets pause_active.
OnCheckActive ==
  /\ MinerGoto("entering", "acking")
  /\ pauseActive' = TRUE
  /\ UNCHANGED <<pauseRequested, sems, callerVars>>

AckGive ==
  /\ MinerGoto("acking", "parked")
  /\ ack' = 1
  /\ UNCHANGED <<flags, mutex, done, callerVars>>

\* Mutant of DoneTake: the token stays in the semaphore.
DoneTakePeeks ==
  /\ MinerGoto("parked", "woken")
  /\ done = 1
  /\ UNCHANGED <<flags, sems, callerVars>>

\* Mutant of DoneTake: the miner leaves its park without a token.
DoneTakeEarly ==
  /\ MinerGoto("parked", "woken")
  /\ done' = 0
  /\ UNCHANGED <<flags, mutex, ack, callerVars>>

\* bb_wdt_park_wait() got the done token within 5 min.
DoneTake ==
  /\ MinerGoto("parked", "woken")
  /\ done = 1
  /\ done' = 0
  /\ UNCHANGED <<flags, mutex, ack, callerVars>>

\* mining_pause_state_on_resumed()
OnResumed ==
  /\ MinerGoto("woken", "out")
  /\ pauseActive' = FALSE
  /\ UNCHANGED <<pauseRequested, sems, callerVars>>

\* Mutant of DoneTimeout: the park has no limit.
DoneTimeoutNever ==
  /\ FALSE
  /\ UNCHANGED pauseVars

\* 5 min passed without a token.  A caller that has its ack runs long before.
DoneTimeout ==
  /\ DoneMayTimeOut
  /\ MinerGoto("parked", "expired")
  /\ done = 0
  /\ ~\E c \in Callers : pc[c] = "awaiting" /\ ack = 1
  /\ UNCHANGED <<flags, sems, callerVars>>

\* Mutant of OnDoneTimeout: TA-277, only pause_active is cleared.
OnDoneTimeoutKeeps ==
  /\ MinerGoto("expired", "expiring")
  /\ UNCHANGED <<flags, sems, callerVars>>

\* mining_pause_state_on_done_timeout() clears the request ...
OnDoneTimeout ==
  /\ MinerGoto("expired", "expiring")
  /\ pauseRequested' = FALSE
  /\ UNCHANGED <<pauseActive, sems, callerVars>>

\* ... then pause_active.
OnDoneTimeoutActive ==
  /\ MinerGoto("expiring", "out")
  /\ pauseActive' = FALSE
  /\ UNCHANGED <<pauseRequested, sems, callerVars>>

-----------------------------------------------------------------------------
CallerNext(c) ==
  \/ PauseCall(c) \/ MutexTake(c) \/ MutexTimeout(c) \/ Request(c)
  \/ AckTake(c) \/ AckTimeout(c) \/ OnAckTimeout(c)
  \/ ResumeCall(c) \/ OnResume(c) \/ DoneGive(c) \/ MutexGive(c)

\* What the miner does once it has seen a request.
MinerInside ==
  \/ OnCheckActive \/ AckGive \/ DoneTake \/ OnResumed
  \/ DoneTimeout \/ OnDoneTimeout \/ OnDoneTimeoutActive

PauseNext == \/ \E c \in Callers : CallerNext(c)
             \/ OnCheck
             \/ MinerInside

PauseSpec == PauseInit /\ [][PauseNext]_pauseVars

\* What a caller does inside the handshake: FreeRTOS runs it when its wait
\* ends, and its waits end, with a token or a timeout.  Nothing makes a caller
\* call mining_pause() or mining_resume().
CallerProgress(c) ==
  \/ MutexTake(c) \/ MutexTimeout(c) \/ Request(c)
  \/ AckTake(c) \/ AckTimeout(c) \/ OnAckTimeout(c)
  \/ OnResume(c) \/ DoneGive(c) \/ MutexGive(c)

-----------------------------------------------------------------------------
(* Safety, with any timeouts *)

Section == CallerLabels \ {"idle", "taking"}

\* The mutex serialises the whole pause, from the request to the end of the
\* resume, although it is taken in one call and given in another, and on a
\* failure path in between (mining_pause.c:26-41, 44-49).
SectionOwnsMutex ==
  \A c \in Callers : pc[c] \in Section <=> mutex = c

\* A request is never left behind: whenever pause_requested is up, the mutex
\* holder is between its request and the clearing of that request.  An orphan
\* request would park the miner with nobody to resume it (TA-277).
RequestOwned ==
  pauseRequested => /\ mutex # None
                    /\ pc[mutex] \in {"awaiting", "abandoning", "holding", "clearing"}

(* Safety, when no handshake wait expires *)

\* mining_pause() returned true => the miner is parked, until the owner
\* resumes (main.c:606-609, routes.c:2156).
PausedMeansParked ==
  \A c \in Callers : pc[c] = "holding" => miner = "parked"

\* No token outlives its handshake: an ack token is for the caller that
\* waits for it, a done token for the miner that is parked.  A token left in
\* one of the undrained semaphores would satisfy the next wait at once.
NoStaleToken ==
  /\ ack = 1 => /\ miner = "parked"
                /\ \E c \in Callers : pc[c] = "awaiting"
  /\ done = 1 => miner = "parked"

(* Liveness *)

\* The miner always gets out of the pause, even if nobody resumes it.
MinerReturns == (miner # "out") ~> (miner = "out")

\* mining_pause() returns, with one verdict or the other.
PauseReturns ==
  \A c \in Callers : (pc[c] = "taking") ~> (pc[c] \in {"holding", "idle"})

\* TA-277: one owner that never resumes costs one park, not a cycle of parks:
\* the miner ends up hashing for good (mining_pause.c:69-73).
NoParkCycle ==
  \A c \in Callers : ([]<>(pc[c] # "holding")) \/ <>[](miner = "out")

\* A request that does not time out is granted.
RequestGranted ==
  \A c \in Callers : (pc[c] = "awaiting") ~> (pc[c] = "holding")

-----------------------------------------------------------------------------
(* The inductive invariant behind the timely properties: how the miner's    *)
(* position, the tokens and the mutex holder's position go together.        *)

Timely == ~AckMayTimeOut /\ ~DoneMayTimeOut

HolderIn(labels) == mutex # None /\ pc[mutex] \in labels

\* Nobody owns the pause or is about to end one.
Quiet == mutex # None => pc[mutex] \in {"requesting", "awaiting", "releasing"}

HandshakeInv ==
  /\ \A c \in Callers : pc[c] # "abandoning"
  /\ \A c \in Callers : pc[c] \in {"clearing", "signalling"} => wasActive[c]
  /\ pauseRequested <=> HolderIn({"awaiting", "holding", "clearing"})
  /\ pauseActive <=> miner \in {"acking", "parked", "woken"}
  /\ \/ /\ miner \in {"out", "woken"}
        /\ ack = 0 /\ done = 0 /\ Quiet
     \/ /\ miner \in {"entering", "acking"}
        /\ ack = 0 /\ done = 0 /\ HolderIn({"awaiting"})
     \/ /\ miner = "parked"
        /\ \/ ack = 1 /\ done = 0 /\ HolderIn({"awaiting"})
           \/ ack = 0 /\ done = 0 /\ HolderIn({"holding", "clearing", "signalling"})
           \/ ack = 0 /\ done = 1 /\ Quiet

-----------------------------------------------------------------------------
(* The abstract lock this protocol implements when no wait expires. *)

Owner == IF mutex # None /\ pc[mutex] = "holding" THEN mutex ELSE None

Lock == INSTANCE PauseLock WITH owner <- Owner, parked <- (miner = "parked")

\* The handshake implements PauseLock: the owner is the caller whose
\* mining_pause() returned true and has not called mining_resume().
ImplementsLock == Lock!Spec

-----------------------------------------------------------------------------
(* What the repository says, and the timeouts refute *)

\* main.c:608-609: tm_ota_pause() "Returns mining_pause()'s result so
\* bb_ota_push only resumes if we actually paused".  So the token that lets
\* mining_pause() return true is there only while the miner is parked.
GrantMeansParked ==
  \A c \in Callers : (pc[c] = "awaiting" /\ ack = 1) => miner = "parked"
=============================================================================
