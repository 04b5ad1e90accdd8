----------------------------- MODULE PauseProofs -----------------------------
(***************************************************************************)
(* Theorems about the pause handshake and the two that run it: MiningPause, *)
(* the loop of the ASIC boards (AsicLoop) and the OTA hooks (OtaHooks), for *)
(* any set of callers, any timeouts and any poll length.                   *)
(***************************************************************************)
EXTENDS AsicLoop, OtaHooks, SequenceTheorems, TLAPS

USE DEF flags, sems, callerVars, Goto, MinerGoto

\* Every variable keeps its type.
THEOREM TypeCorrect == PauseSpec => []TypeOK
<1>1. PauseInit => TypeOK
  BY DEF PauseInit, TypeOK, CallerLabels, MinerLabels
<1>2. TypeOK /\ [PauseNext]_pauseVars => TypeOK'
  <2> SUFFICES ASSUME TypeOK, [PauseNext]_pauseVars PROVE TypeOK'
    OBVIOUS
  <2> USE DEF TypeOK, CallerLabels, MinerLabels
  <2>1. ASSUME NEW c \in Callers, CallerNext(c) PROVE TypeOK'
    <3>1. CASE PauseCall(c) BY <3>1 DEF PauseCall
    <3>2. CASE MutexTake(c) BY <3>2 DEF MutexTake
    <3>3. CASE MutexTimeout(c) BY <3>3 DEF MutexTimeout
    <3>4. CASE Request(c) BY <3>4 DEF Request
    <3>5. CASE AckTake(c) BY <3>5 DEF AckTake
    <3>6. CASE AckTimeout(c) BY <3>6 DEF AckTimeout
    <3>7. CASE OnAckTimeout(c) BY <3>7 DEF OnAckTimeout
    <3>8. CASE ResumeCall(c) BY <3>8 DEF ResumeCall
    <3>9. CASE OnResume(c) BY <3>9 DEF OnResume
    <3>10. CASE DoneGive(c) BY <3>10 DEF DoneGive
    <3>11. CASE MutexGive(c) BY <3>11 DEF MutexGive
    <3> QED BY <2>1, <3>1, <3>2, <3>3, <3>4, <3>5, <3>6, <3>7, <3>8, <3>9,
               <3>10, <3>11 DEF CallerNext
  <2>2. CASE OnCheck BY <2>2 DEF OnCheck
  <2>3. CASE MinerInside
    BY <2>3 DEF MinerInside, OnCheckActive, AckGive, DoneTake, OnResumed,
                DoneTimeout, OnDoneTimeout, OnDoneTimeoutActive
  <2>4. CASE UNCHANGED pauseVars BY <2>4 DEF pauseVars
  <2> QED BY <2>1, <2>2, <2>3, <2>4 DEF PauseNext
<1> QED BY <1>1, <1>2, PTL DEF PauseSpec

-----------------------------------------------------------------------------
(* Ownership of the mutex and of the request, whatever times out.          *)

OwnInv == TypeOK /\ SectionOwnsMutex /\ RequestOwned

LEMMA OwnInvInit == PauseInit => OwnInv
  BY NoneAssumption DEF PauseInit, OwnInv, TypeOK, SectionOwnsMutex, RequestOwned,
     Section, CallerLabels, MinerLabels

LEMMA OwnInvNext == OwnInv /\ TypeOK' /\ [PauseNext]_pauseVars => OwnInv'
<1> SUFFICES ASSUME OwnInv, TypeOK', [PauseNext]_pauseVars PROVE OwnInv'
  OBVIOUS
<1> USE NoneAssumption DEF OwnInv, TypeOK, SectionOwnsMutex, RequestOwned, Section,
        CallerLabels
<1>1. ASSUME NEW c \in Callers, CallerNext(c) PROVE OwnInv'
  <2>1. CASE PauseCall(c) BY <2>1 DEF PauseCall
  <2>2. CASE MutexTake(c) BY <2>2 DEF MutexTake
  <2>3. CASE MutexTimeout(c) BY <2>3 DEF MutexTimeout
  <2>4. CASE Request(c) BY <2>4 DEF Request
  <2>5. CASE AckTake(c) BY <2>5 DEF AckTake
  <2>6. CASE AckTimeout(c) BY <2>6 DEF AckTimeout
  <2>7. CASE OnAckTimeout(c) BY <2>7 DEF OnAckTimeout
  <2>8. CASE ResumeCall(c) BY <2>8 DEF ResumeCall
  <2>9. CASE OnResume(c) BY <2>9 DEF OnResume
  <2>10. CASE DoneGive(c) BY <2>10 DEF DoneGive
  <2>11. CASE MutexGive(c) BY <2>11 DEF MutexGive
  <2> QED BY <1>1, <2>1, <2>2, <2>3, <2>4, <2>5, <2>6, <2>7, <2>8, <2>9,
             <2>10, <2>11 DEF CallerNext
<1>2. CASE OnCheck BY <1>2 DEF OnCheck
<1>3. CASE MinerInside
  BY <1>3 DEF MinerInside, OnCheckActive, AckGive, DoneTake, OnResumed,
              DoneTimeout, OnDoneTimeout, OnDoneTimeoutActive
<1>4. CASE UNCHANGED pauseVars BY <1>4 DEF pauseVars
<1> QED BY <1>1, <1>2, <1>3, <1>4 DEF PauseNext

\* The mutex holder, and only it, is inside mining_pause()/mining_resume(),
\* whichever waits expire.
THEOREM MutexOwnership == PauseSpec => []SectionOwnsMutex
<1>1. OwnInv => SectionOwnsMutex BY DEF OwnInv
<1> QED BY OwnInvInit, OwnInvNext, TypeCorrect, <1>1, PTL DEF PauseSpec

\* No request is orphaned, whichever waits expire.
THEOREM RequestOwnership == PauseSpec => []RequestOwned
<1>1. OwnInv => RequestOwned BY DEF OwnInv
<1> QED BY OwnInvInit, OwnInvNext, TypeCorrect, <1>1, PTL DEF PauseSpec

-----------------------------------------------------------------------------
(* The handshake itself, when no wait expires.                             *)

TimelyInv == OwnInv /\ HandshakeInv

LEMMA TimelyInvInit == PauseInit => TimelyInv
<1> SUFFICES ASSUME PauseInit PROVE TimelyInv
  OBVIOUS
<1>1. OwnInv BY OwnInvInit
<1>2. HandshakeInv
  BY NoneAssumption DEF PauseInit, HandshakeInv, HolderIn, Quiet
<1> QED BY <1>1, <1>2 DEF TimelyInv

LEMMA TimelyInvNext ==
  ASSUME Timely
  PROVE  TimelyInv /\ OwnInv' /\ [PauseNext]_pauseVars => TimelyInv'
<1> SUFFICES ASSUME TimelyInv, OwnInv', [PauseNext]_pauseVars PROVE HandshakeInv'
  BY DEF TimelyInv
<1> USE NoneAssumption DEF TimelyInv, OwnInv, TypeOK, SectionOwnsMutex, Section,
        CallerLabels, HandshakeInv, HolderIn, Quiet
<1>1. ASSUME NEW c \in Callers, CallerNext(c) PROVE HandshakeInv'
  <2>1. CASE PauseCall(c) BY <2>1 DEF PauseCall
  <2>2. CASE MutexTake(c) BY <2>2 DEF MutexTake
  <2>3. CASE MutexTimeout(c) BY <2>3 DEF MutexTimeout
  <2>4. CASE Request(c) BY <2>4 DEF Request
  <2>5. CASE AckTake(c) BY <2>5 DEF AckTake
  <2>6. CASE AckTimeout(c) BY <2>6, Timely DEF AckTimeout, Timely
  <2>7. CASE OnAckTimeout(c) BY <2>7 DEF OnAckTimeout
  <2>8. CASE ResumeCall(c) BY <2>8 DEF ResumeCall
  <2>9. CASE OnResume(c) BY <2>9 DEF OnResume
  <2>10. CASE DoneGive(c) BY <2>10 DEF DoneGive
  <2>11. CASE MutexGive(c) BY <2>11 DEF MutexGive
  <2> QED BY <1>1, <2>1, <2>2, <2>3, <2>4, <2>5, <2>6, <2>7, <2>8, <2>9,
             <2>10, <2>11 DEF CallerNext
<1>2. CASE OnCheck BY <1>2 DEF OnCheck
<1>3. CASE MinerInside
  <2>1. CASE OnCheckActive BY <2>1 DEF OnCheckActive
  <2>2. CASE AckGive BY <2>2 DEF AckGive
  <2>3. CASE DoneTake BY <2>3 DEF DoneTake
  <2>4. CASE OnResumed BY <2>4 DEF OnResumed
  <2>5. CASE DoneTimeout BY <2>5, Timely DEF DoneTimeout, Timely
  <2>6. CASE OnDoneTimeout BY <2>6 DEF OnDoneTimeout
  <2>7. CASE OnDoneTimeoutActive BY <2>7 DEF OnDoneTimeoutActive
  <2> QED BY <1>3, <2>1, <2>2, <2>3, <2>4, <2>5, <2>6, <2>7 DEF MinerInside
<1>4. CASE UNCHANGED pauseVars BY <1>4 DEF pauseVars
<1> QED BY <1>1, <1>2, <1>3, <1>4 DEF PauseNext

THEOREM TimelyInvariant == ASSUME Timely PROVE PauseSpec => []TimelyInv
<1>1. TimelyInv /\ OwnInv' /\ [PauseNext]_pauseVars => TimelyInv'
  BY TimelyInvNext
<1>2. PauseSpec => []OwnInv
  BY OwnInvInit, OwnInvNext, TypeCorrect, PTL DEF PauseSpec
<1> QED BY <1>1, <1>2, TimelyInvInit, PTL DEF PauseSpec

\* A caller whose mining_pause() returned true has a parked miner until it
\* resumes, provided no handshake wait expires.
THEOREM PausedParked == ASSUME Timely PROVE PauseSpec => []PausedMeansParked
<1>1. TimelyInv => PausedMeansParked
  BY NoneAssumption DEF TimelyInv, OwnInv, HandshakeInv, HolderIn, Quiet,
     SectionOwnsMutex, Section, CallerLabels, PausedMeansParked, TypeOK
<1> QED BY TimelyInvariant, <1>1, PTL

\* No semaphore keeps a token from one handshake to the next, provided no
\* handshake wait expires.
THEOREM TokensFresh == ASSUME Timely PROVE PauseSpec => []NoStaleToken
<1>1. TimelyInv => NoStaleToken
  BY DEF TimelyInv, OwnInv, HandshakeInv, HolderIn, NoStaleToken, TypeOK
<1> QED BY TimelyInvariant, <1>1, PTL

-----------------------------------------------------------------------------
(* Refinement                                                              *)

LEMMA LockInit == PauseInit => Lock!Init
  BY DEF PauseInit, Lock!Init, Owner

LEMMA LockNext ==
  TimelyInv /\ TimelyInv' /\ [PauseNext]_pauseVars => [Lock!Next]_(Lock!vars)
<1> SUFFICES ASSUME TimelyInv, TimelyInv', [PauseNext]_pauseVars
             PROVE  [Lock!Next]_(Lock!vars)
  OBVIOUS
<1> USE NoneAssumption DEF TimelyInv, OwnInv, TypeOK, SectionOwnsMutex, Section,
        CallerLabels, HandshakeInv, HolderIn, Quiet, Owner, Lock!vars
<1>1. ASSUME NEW c \in Callers, CallerNext(c) PROVE [Lock!Next]_(Lock!vars)
  <2>1. CASE PauseCall(c) BY <2>1 DEF PauseCall
  <2>2. CASE MutexTake(c) BY <2>2 DEF MutexTake
  <2>3. CASE MutexTimeout(c) BY <2>3 DEF MutexTimeout
  <2>4. CASE Request(c) BY <2>4 DEF Request
  <2>5. CASE AckTake(c)
    <3>1. Lock!Acquire(c) BY <2>5 DEF AckTake, Lock!Acquire
    <3> QED BY <3>1 DEF Lock!Next
  <2>6. CASE AckTimeout(c) BY <2>6 DEF AckTimeout
  <2>7. CASE OnAckTimeout(c) BY <2>7 DEF OnAckTimeout
  <2>8. CASE ResumeCall(c)
    <3>1. Lock!Release(c) BY <2>8 DEF ResumeCall, Lock!Release
    <3> QED BY <3>1 DEF Lock!Next
  <2>9. CASE OnResume(c) BY <2>9 DEF OnResume
  <2>10. CASE DoneGive(c) BY <2>10 DEF DoneGive
  <2>11. CASE MutexGive(c) BY <2>11 DEF MutexGive
  <2> QED BY <1>1, <2>1, <2>2, <2>3, <2>4, <2>5, <2>6, <2>7, <2>8, <2>9,
             <2>10, <2>11 DEF CallerNext
<1>2. CASE OnCheck BY <1>2 DEF OnCheck
<1>3. CASE MinerInside
  <2>1. CASE OnCheckActive BY <2>1 DEF OnCheckActive
  <2>2. CASE AckGive
    <3>1. Lock!Park BY <2>2 DEF AckGive, Lock!Park
    <3> QED BY <3>1 DEF Lock!Next
  <2>3. CASE DoneTake
    <3>1. Lock!Unpark BY <2>3 DEF DoneTake, Lock!Unpark
    <3> QED BY <3>1 DEF Lock!Next
  <2>4. CASE OnResumed BY <2>4 DEF OnResumed
  <2>5. CASE DoneTimeout BY <2>5 DEF DoneTimeout
  <2>6. CASE OnDoneTimeout BY <2>6 DEF OnDoneTimeout
  <2>7. CASE OnDoneTimeoutActive BY <2>7 DEF OnDoneTimeoutActive
  <2> QED BY <1>3, <2>1, <2>2, <2>3, <2>4, <2>5, <2>6, <2>7 DEF MinerInside
<1>4. CASE UNCHANGED pauseVars BY <1>4 DEF pauseVars
<1> QED BY <1>1, <1>2, <1>3, <1>4 DEF PauseNext

\* The pause handshake implements the abstract lock PauseLock, provided no
\* handshake wait expires.
THEOREM Implements == ASSUME Timely PROVE PauseSpec => ImplementsLock
<1>1. PauseSpec => [](TimelyInv)
  BY TimelyInvariant
<1> QED BY <1>1, LockInit, LockNext, PTL DEF PauseSpec, ImplementsLock, Lock!Spec
-----------------------------------------------------------------------------
(* Every step of the loop is a step of the handshake or leaves it alone, so *)
(* the theorems on MiningPause hold of the loop.                             *)

\* The ASIC loop runs the pause handshake of mining_pause.c unchanged: what is
\* proved of MiningPause holds whatever the loop, the pool and the rail do.
THEOREM LoopImplementsPause == Spec => ImplementsPause
<1>1. Init => PauseInit
  BY DEF Init
<1>2. [Next]_vars => [PauseNext]_pauseVars
  <2> SUFFICES ASSUME [Next]_vars PROVE [PauseNext]_pauseVars
    OBVIOUS
  <2> USE DEF LoopGoto, chipVars, asicVars
  <2>1. ASSUME NEW c \in Callers, CallerStep(c) PROVE PauseNext
    BY <2>1 DEF CallerStep, PauseNext
  <2>2. CASE CheckStep
    BY <2>2 DEF CheckStep, PauseNext
  <2>3. CASE Top \/ Quiesce \/ Ramp \/ CheckReturns
    BY <2>3 DEF Top, Coalesce, Quiesce, Ramp, CheckReturns, AfterCheck
  <2>4. CASE Peek \/ NonceContinue \/ NonceDone \/ Tick \/ TickNotDue
    BY <2>4 DEF Peek, Dispatch, NonceContinue, NonceDone, Tick, TickNotDue
  <2>5. CASE NewWork \/ LoseWork \/ VcoreCollapse
    BY <2>5 DEF NewWork, LoseWork, VcoreCollapse
  <2>6. CASE UNCHANGED vars
    BY <2>6 DEF vars, pauseVars, flags, sems, callerVars
  <2> QED
    BY <2>1, <2>2, <2>3, <2>4, <2>5, <2>6 DEF Next, LoopNext
<1> QED
  BY <1>1, <1>2, PTL DEF Spec, ImplementsPause, PauseSpec

\* On the Bitaxe loop too, the mutex brackets the whole pause.
THEOREM LoopMutexOwnership == Spec => []SectionOwnsMutex
  BY LoopImplementsPause, MutexOwnership, PTL DEF ImplementsPause

\* Every variable of the loop keeps its type, and the register poll counts down
\* to the top of the loop.
THEOREM LoopTypeCorrect == Spec => [](TypeOK /\ AsicTypeOK)
<1>1. Init => AsicTypeOK
  <2>1. Init => regsLeft \in 0..PollRegs /\ ~(regsLeft > 0)
    BY AsicAssumption DEF Init
  <2> QED
    BY <2>1 DEF Init, AsicTypeOK, LoopLabels, Sites
<1>2. AsicTypeOK /\ [Next]_vars => AsicTypeOK'
  <2> SUFFICES ASSUME AsicTypeOK, [Next]_vars PROVE AsicTypeOK'
    OBVIOUS
  <2> USE AsicAssumption DEF AsicTypeOK, LoopLabels, Sites, LoopGoto, chipVars
  <2>1. CASE Top
    BY <2>1 DEF Top, Coalesce
  <2>2. CASE Quiesce \/ Ramp
    BY <2>2 DEF Quiesce, Ramp
  <2>3. CASE CheckReturns \/ CheckStep
    BY <2>3 DEF CheckReturns, CheckStep, AfterCheck
  <2>4. CASE Peek
    BY <2>4 DEF Peek, Dispatch
  <2>5. CASE NonceContinue \/ NonceDone \/ TickNotDue
    BY <2>5 DEF NonceContinue, NonceDone, TickNotDue
  <2>6. CASE Tick
    <3>1. regsLeft' \in 0..PollRegs /\ regsLeft' > 0
      BY <2>6 DEF Tick
    <3> QED
      BY <2>6, <3>1 DEF Tick
  <2>7. ASSUME NEW c \in Callers, CallerStep(c) PROVE AsicTypeOK'
    BY <2>7 DEF CallerStep, asicVars
  <2>8. CASE NewWork \/ LoseWork \/ VcoreCollapse
    BY <2>8 DEF NewWork, LoseWork, VcoreCollapse
  <2>9. CASE UNCHANGED vars
    BY <2>9 DEF vars
  <2> QED
    BY <2>1, <2>2, <2>3, <2>4, <2>5, <2>6, <2>7, <2>8, <2>9 DEF Next, LoopNext
<1>3. Spec => []TypeOK
  BY LoopImplementsPause, TypeCorrect, PTL DEF ImplementsPause
<1> QED
  BY <1>1, <1>2, <1>3, PTL DEF Spec

-----------------------------------------------------------------------------
(* The chips and the flag that remembers they are inactive.  The flag moves  *)
(* at the top of the loop, the chips one step later.                         *)

FlagInv ==
  /\ loop = "quiesce" => quiesced
  /\ chip = "inactive" => quiesced \/ loop = "ramp" \/ ~resumeOk

QuiesceInv ==
  /\ loop = "quiesce" => quiesced
  /\ loop = "ramp" => ~quiesced
  /\ quiesced => chip # "hashing" \/ loop = "quiesce"
  /\ loop = "check" => chip # "hashing"

LEMMA LoopUntouched ==
  ASSUME \/ NewWork \/ LoseWork \/ VcoreCollapse \/ UNCHANGED vars
         \/ \E c \in Callers : CallerStep(c)
  PROVE UNCHANGED <<loop, quiesced, chip, resumeOk>>
  BY DEF NewWork, LoseWork, VcoreCollapse, vars, CallerStep, asicVars, chipVars

\* Inactive chips have s_chip_quiesced up, or are being restarted, or the last
\* chip_resume() failed: no pause and no recovery leaves them forgotten.
THEOREM InactiveFlagged == Spec => []InactiveIsFlagged
<1>1. Init => FlagInv
  BY DEF Init, FlagInv
<1>2. FlagInv /\ [Next]_vars => FlagInv'
  <2> SUFFICES ASSUME FlagInv, [Next]_vars PROVE FlagInv'
    OBVIOUS
  <2> USE DEF FlagInv, LoopGoto, chipVars
  <2>1. CASE Top
    BY <2>1 DEF Top, Coalesce
  <2>2. CASE Quiesce
    BY <2>2 DEF Quiesce
  <2>3. CASE Ramp
    BY <2>3 DEF Ramp
  <2>4. CASE CheckReturns \/ CheckStep
    BY <2>4 DEF CheckReturns, CheckStep, AfterCheck, Sites
  <2>5. CASE Peek
    BY <2>5 DEF Peek
  <2>6. CASE NonceContinue \/ NonceDone \/ TickNotDue
    BY <2>6 DEF NonceContinue, NonceDone, TickNotDue
  <2>7. CASE Tick
    BY <2>7 DEF Tick
  <2>8. CASE UNCHANGED <<loop, quiesced, chip, resumeOk>>
    BY <2>8
  <2> QED
    BY <2>1, <2>2, <2>3, <2>4, <2>5, <2>6, <2>7, <2>8, LoopUntouched
    DEF Next, LoopNext
<1>3. FlagInv => InactiveIsFlagged
  BY DEF FlagInv, InactiveIsFlagged
<1> QED
  BY <1>1, <1>2, <1>3, PTL DEF Spec

\* The pause that is acked at the top of the loop finds no chips that the loop
\* started: they are inactive, or a recovery of the core rail started them.
THEOREM AckQuiesced == Spec => []AckSiteQuiesced
<1>1. Init => QuiesceInv
  BY DEF Init, QuiesceInv
<1>2. QuiesceInv /\ [Next]_vars => QuiesceInv'
  <2> SUFFICES ASSUME QuiesceInv, [Next]_vars PROVE QuiesceInv'
    OBVIOUS
  <2> USE DEF QuiesceInv, LoopGoto, chipVars
  <2>1. CASE Top
    BY <2>1 DEF Top, Coalesce
  <2>2. CASE Quiesce
    BY <2>2 DEF Quiesce
  <2>3. CASE Ramp
    BY <2>3 DEF Ramp
  <2>4. CASE CheckReturns \/ CheckStep
    BY <2>4 DEF CheckReturns, CheckStep, AfterCheck, Sites
  <2>5. CASE Peek
    BY <2>5 DEF Peek
  <2>6. CASE NonceContinue \/ NonceDone \/ TickNotDue
    BY <2>6 DEF NonceContinue, NonceDone, TickNotDue
  <2>7. CASE Tick
    BY <2>7 DEF Tick
  <2>8. CASE UNCHANGED <<loop, quiesced, chip, resumeOk>>
    BY <2>8
  <2> QED
    BY <2>1, <2>2, <2>3, <2>4, <2>5, <2>6, <2>7, <2>8, LoopUntouched
    DEF Next, LoopNext
<1>3. QuiesceInv => AckSiteQuiesced
  BY DEF QuiesceInv, AckSiteQuiesced
<1> QED
  BY <1>1, <1>2, <1>3, PTL DEF Spec

-----------------------------------------------------------------------------
(* The OTA hooks.  Theorems of the handshake carry over; HooksInv follows   *)
(* every caller through its hook.                                           *)

\* The hooks run the pause handshake of mining_pause.c unchanged: what is proved
\* of MiningPause holds whatever the hooks switch and in which order.
THEOREM HooksImplementPause == HooksSpec => PauseSpec
<1>1. HooksInit => PauseInit
  BY DEF HooksInit
<1>2. [HooksNext]_hooksVars => [PauseNext]_pauseVars
  <2> SUFFICES ASSUME [HooksNext]_hooksVars PROVE [PauseNext]_pauseVars
    OBVIOUS
  <2>1. ASSUME NEW c \in Callers, HookNext(c) PROVE [PauseNext]_pauseVars
    BY <2>1 DEF HookNext, EnterPause, Switch, EnterResume, ResumeMining, Inside,
                CallerProgress, CallerNext, PauseNext
  <2>2. CASE Miner
    BY <2>2 DEF Miner, PauseNext
  <2>3. CASE UNCHANGED hooksVars
    BY <2>3 DEF hooksVars
  <2> QED
    BY <2>1, <2>2, <2>3 DEF HooksNext
<1> QED
  BY <1>1, <1>2, PTL DEF HooksSpec, PauseSpec

\* The transfers and checks that run the handshake keep what it promises: no
\* orphaned request, and, while no handshake wait expires, a parked miner under
\* a granted caller, fresh tokens and the abstract lock.
THEOREM HooksKeepPromise ==
  /\ HooksSpec => []RequestOwned
  /\ Timely => (HooksSpec => [](PausedMeansParked /\ NoStaleToken) /\ ImplementsLock)
<1>1. HooksSpec => []RequestOwned
  BY HooksImplementPause, RequestOwnership, PTL
<1>2. ASSUME Timely PROVE HooksSpec => [](PausedMeansParked /\ NoStaleToken) /\ ImplementsLock
  <2>1. PauseSpec => []PausedMeansParked
    BY <1>2, PausedParked
  <2>2. PauseSpec => []NoStaleToken
    BY <1>2, TokensFresh
  <2>3. PauseSpec => ImplementsLock
    BY <1>2, Implements
  <2> QED
    BY <2>1, <2>2, <2>3, HooksImplementPause, PTL
<1> QED
  BY <1>1, <1>2

LEMMA HooksOwn == HooksSpec => []OwnInv
  BY HooksImplementPause, TypeCorrect, OwnInvInit, OwnInvNext, PTL DEF PauseSpec

\* Concatenation of two short lists, element by element.
LEMMA ConcatTwoOne ==
  ASSUME NEW a, NEW b, NEW c
  PROVE  <<a, b>> \o <<c>> = <<a, b, c>>
<1> DEFINE S == {a, b, c}
           s == <<a, b>> \o <<c>>
           t == <<a, b, c>>
<1>1. s \in Seq(S) /\ t \in Seq(S)
  OBVIOUS
<1>2. Len(s) = Len(t)
  OBVIOUS
<1>3. \A i \in 1..Len(s) : s[i] = t[i]
  OBVIOUS
<1> HIDE DEF S, s, t
<1>4. s = t
  BY <1>1, <1>2, <1>3, SeqEqual
<1> QED
  BY <1>4 DEF s, t

LEMMA ConcatOneOne ==
  ASSUME NEW a, NEW b
  PROVE  <<a>> \o <<b>> = <<a, b>>
<1> DEFINE S == {a, b}
           s == <<a>> \o <<b>>
           t == <<a, b>>
<1>1. s \in Seq(S) /\ t \in Seq(S)
  OBVIOUS
<1>2. Len(s) = Len(t)
  OBVIOUS
<1>3. \A i \in 1..Len(s) : s[i] = t[i]
  OBVIOUS
<1> HIDE DEF S, s, t
<1>4. s = t
  BY <1>1, <1>2, <1>3, SeqEqual
<1> QED
  BY <1>4 DEF s, t

\* The lists a hook goes through, written out.
LEMMA ResumeHook ==
  ASSUME NEW c \in Callers
  PROVE  OnOrder(c) \o <<Resume>> = IF c \in Updaters
                                    THEN <<On("display"), On("telemetry"), Resume>>
                                    ELSE <<On("telemetry"), Resume>>
  BY ConcatTwoOne, ConcatOneOne DEF OnOrder

SwitchedInv == on \subseteq Things /\ DOMAIN hook = Callers /\ HooksInv

\* A switch of one caller: the thing it is about goes on or off, the rest of its
\* hook stays.
LEMMA SwitchEffect ==
  ASSUME NEW c \in Callers, SwitchedInv, Switch(c)
  PROVE  \/ /\ hook[c] = <<Off("telemetry"), Off("display")>> /\ c \in Updaters
            /\ hook'[c] = <<Off("display")>> /\ on' = on \ {"telemetry"}
         \/ /\ hook[c] = <<Off("telemetry")>> /\ c \notin Updaters
            /\ hook'[c] = <<>> /\ on' = on \ {"telemetry"}
         \/ /\ hook[c] = <<Off("display")>> /\ c \in Updaters
            /\ hook'[c] = <<>> /\ on' = on \ {"display"}
         \/ /\ pc[c] = "holding" /\ hook'[c] \in {<<On("telemetry"), Resume>>, <<Resume>>}
            /\ on' \subseteq Things
<1> DEFINE h == hook[c]
           s == Head(h)
<1>1. /\ hook'[c] = Tail(h)
      /\ h # <<>> /\ s # Resume
      /\ on' = IF s.to THEN on \cup {s.what} ELSE on \ {s.what}
      /\ on \subseteq Things
  BY DEF SwitchedInv, Switch
<1>2. h \in OffLeft(c) \/ (pc[c] = "holding" /\ h \in OnLeft(c))
  BY DEF SwitchedInv, HooksInv, HookInv
<1> HIDE DEF h
<1>3. CASE h = <<Off("telemetry"), Off("display")>> /\ c \in Updaters
  <2>1. s = Off("telemetry") /\ Tail(h) = <<Off("display")>>
    BY <1>3
  <2> QED
    BY <1>1, <1>3, <2>1 DEF Off, h
<1>4. CASE h = <<Off("telemetry")>> /\ c \notin Updaters
  <2>1. s = Off("telemetry") /\ Tail(h) = <<>>
    BY <1>4
  <2> QED
    BY <1>1, <1>4, <2>1 DEF Off, h
<1>5. CASE h = <<Off("display")>> /\ c \in Updaters
  <2>1. s = Off("display") /\ Tail(h) = <<>>
    BY <1>5
  <2> QED
    BY <1>1, <1>5, <2>1 DEF Off, h
<1>6. CASE pc[c] = "holding" /\ h \in OnLeft(c)
  <2>1. \/ h = <<On("display"), On("telemetry"), Resume>>
        \/ h = <<On("telemetry"), Resume>>
        \/ h = <<Resume>>
    BY <1>6, ResumeHook DEF OnLeft
  <2>2. CASE h = <<On("display"), On("telemetry"), Resume>>
    <3>1. s = On("display") /\ Tail(h) = <<On("telemetry"), Resume>>
      BY <2>2
    <3>2. s.to /\ s.what \in Things
      BY <3>1 DEF On, Things
    <3>3. on' \subseteq Things
      BY <1>1, <3>2
    <3> QED
      BY <1>1, <3>1, <3>3, <1>6 DEF h
  <2>3. CASE h = <<On("telemetry"), Resume>>
    <3>1. s = On("telemetry") /\ Tail(h) = <<Resume>>
      BY <2>3
    <3>2. s.to /\ s.what \in Things
      BY <3>1 DEF On, Things
    <3>3. on' \subseteq Things
      BY <1>1, <3>2
    <3> QED
      BY <1>1, <3>1, <3>3, <1>6 DEF h
  <2>4. h # <<Resume>>
    BY <1>1
  <2> QED
    BY <2>1, <2>2, <2>3, <2>4
<1> QED
  BY <1>1, <1>2, <1>3, <1>4, <1>5, <1>6 DEF OffLeft, OffOrder

LEMMA SwitchedInit == HooksInit => SwitchedInv
  BY DEF HooksInit, PauseInit, SwitchedInv, HooksInv, HookInv, OffLeft, Things

\* A list tells which hook it is from.
LEMMA WhichHook ==
  ASSUME NEW c \in Callers
  PROVE  /\ OffOrder(c) \notin {<<>>, <<Off("display")>>}
         /\ \A l \in OnLeft(c) : l \notin {<<>>, <<Off("display")>>}
         /\ \A l \in OffLeft(c) : l = <<>> \/ Head(l) # Resume
         /\ \A l \in OnLeft(c) : Head(l) = Resume => Tail(l) = <<>>
<1>1. On("display") # Off("display") /\ On("telemetry") # Off("display") /\ Resume # Off("display")
      /\ Off("telemetry") # Off("display")
      /\ Resume \notin {Off("telemetry"), Off("display"), On("telemetry"), On("display")}
  BY DEF On, Off, Resume
<1>2. OffOrder(c) \in {<<Off("telemetry"), Off("display")>>, <<Off("telemetry")>>}
  BY DEF OffOrder
<1>3. OffLeft(c) \subseteq {OffOrder(c), <<>>, <<Off("display")>>}
  BY DEF OffLeft
<1>4. OnLeft(c) \subseteq {<<On("display"), On("telemetry"), Resume>>,
                         <<On("telemetry"), Resume>>, <<Resume>>}
  BY ResumeHook DEF OnLeft
<1>5. OffOrder(c) \notin {<<>>, <<Off("display")>>}
  BY <1>1, <1>2
<1>6. \A l \in OffLeft(c) : l = <<>> \/ Head(l) # Resume
  BY <1>1, <1>2, <1>3
<1>7. ASSUME NEW l \in OnLeft(c)
      PROVE  l \notin {<<>>, <<Off("display")>>} /\ (Head(l) = Resume => Tail(l) = <<>>)
  <2>1. CASE l = <<On("display"), On("telemetry"), Resume>>
    BY <1>1, <2>1
  <2>2. CASE l = <<On("telemetry"), Resume>>
    BY <1>1, <2>2
  <2>3. CASE l = <<Resume>>
    BY <1>1, <2>3
  <2> QED
    BY <1>4, <2>1, <2>2, <2>3
<1> QED
  BY <1>5, <1>6, <1>7

\* Only a switch that puts something on concerns a caller that stays where it is.
LEMMA HookKept ==
  ASSUME NEW d \in Callers, HookInv(d),
         hook'[d] = hook[d], pc'[d] = pc[d],
         on' \subseteq on \/ pc[d] # "holding"
  PROVE  HookInv(d)'
  BY DEF HookInv, OffLeft, OnLeft, OffOrder, OnOrder, Silenced

\* The holder is alone: a switch of another caller is one of a pause hook, so
\* what is off under the holder stays off.
LEMMA SwitchedNext == SwitchedInv /\ OwnInv /\ [HooksNext]_hooksVars => SwitchedInv'
<1> SUFFICES ASSUME SwitchedInv, OwnInv, [HooksNext]_hooksVars PROVE SwitchedInv'
  OBVIOUS
<1> USE DEF SwitchedInv, OwnInv, TypeOK
<1>1. ASSUME NEW c \in Callers, HookNext(c) PROVE SwitchedInv'
  <2>1. /\ DOMAIN hook' = Callers
        /\ \A d \in Callers \ {c} : hook'[d] = hook[d] /\ pc'[d] = pc[d]
    BY <1>1 DEF HookNext, EnterPause, PauseCall, Switch, EnterResume, ResumeMining,
                ResumeCall, Inside, CallerProgress, MutexTake, MutexTimeout, Request,
                AckTake, AckTimeout, OnAckTimeout, OnResume, DoneGive, MutexGive, pauseVars
  <2> SUFFICES /\ on' \subseteq Things
               /\ HookInv(c)'
               /\ on' \subseteq on \/ \A d \in Callers \ {c} : pc[d] # "holding"
    BY <2>1, HookKept DEF HooksInv
  <2>2. HookInv(c)
    BY DEF HooksInv
  <2>3. CASE EnterPause(c)
    BY <2>2, <2>3 DEF EnterPause, PauseCall, HookInv, OffLeft, OffOrder
  <2>4. CASE Switch(c)
    <3>1. UNCHANGED pc /\ pc[c] \in {"holding", "idle"}
      BY <2>4 DEF Switch, pauseVars
    <3>2. pc[c] = "holding" => \A d \in Callers \ {c} : pc[d] # "holding"
      BY DEF SectionOwnsMutex, Section, CallerLabels
    <3>3. CASE hook[c] = <<Off("telemetry"), Off("display")>> /\ c \in Updaters
               /\ hook'[c] = <<Off("display")>> /\ on' = on \ {"telemetry"}
      <4>1. hook'[c] \in OffLeft(c) /\ hook'[c] # <<>>
        BY <3>3 DEF OffLeft
      <4> QED
        BY <3>1, <3>3, <4>1 DEF HookInv, OffLeft, OnLeft, OffOrder, OnOrder
    <3>4. CASE hook[c] = <<Off("telemetry")>> /\ c \notin Updaters
               /\ hook'[c] = <<>> /\ on' = on \ {"telemetry"}
      BY <3>1, <3>4 DEF HookInv, OffLeft, Silenced
    <3>5. CASE hook[c] = <<Off("display")>> /\ c \in Updaters
               /\ hook'[c] = <<>> /\ on' = on \ {"display"}
      BY <2>2, <3>1, <3>5 DEF HookInv, OffLeft, Silenced, Things
    <3>6. CASE pc[c] = "holding" /\ hook'[c] \in {<<On("telemetry"), Resume>>, <<Resume>>}
               /\ on' \subseteq Things
      <4>1. hook'[c] \in OnLeft(c)
        BY <3>6 DEF OnLeft
      <4> QED
        BY <3>1, <3>2, <3>6, <4>1, WhichHook DEF HookInv, OnLeft, OnOrder, OffLeft, OffOrder
    <3> QED
      BY <2>4, <3>3, <3>4, <3>5, <3>6, SwitchEffect
  <2>5. CASE EnterResume(c)
    <3>1. hook'[c] \in OnLeft(c) /\ pc'[c] = "holding" /\ UNCHANGED on
      BY <2>5 DEF EnterResume, pauseVars, OnLeft
    <3> QED
      BY <3>1, WhichHook DEF HookInv, OnLeft, OnOrder, OffLeft, OffOrder
  <2>6. CASE ResumeMining(c)
    <3>1. hook'[c] = <<>> /\ pc'[c] = "clearing" /\ UNCHANGED on
      BY <2>2, <2>6, WhichHook DEF ResumeMining, ResumeCall, HookInv
    <3> QED
      BY <3>1 DEF HookInv, OffLeft
  <2>7. CASE Inside(c)
    <3>1. hook'[c] = hook[c] /\ UNCHANGED on
      BY <2>7 DEF Inside
    <3>2. /\ pc'[c] \in {"taking", "requesting", "awaiting"} => pc[c] \in {"taking", "requesting", "awaiting"}
          /\ pc'[c] = "holding" => pc[c] = "awaiting"
          /\ pc[c] # "holding"
      BY <2>7 DEF Inside, CallerProgress, MutexTake, MutexTimeout, Request, AckTake,
                  AckTimeout, OnAckTimeout, OnResume, DoneGive, MutexGive
    <3> QED
      BY <2>2, <3>1, <3>2, WhichHook DEF HookInv, OffLeft, OnLeft, OffOrder, OnOrder
  <2> QED
    BY <1>1, <2>3, <2>4, <2>5, <2>6, <2>7 DEF HookNext
<1>2. CASE Miner
  <2>1. UNCHANGED <<pc, hook, on>>
    BY <1>2 DEF Miner, OnCheck, MinerInside, OnCheckActive, AckGive, DoneTake, OnResumed,
                DoneTimeout, OnDoneTimeout, OnDoneTimeoutActive
  <2> QED
    BY <2>1, HookKept DEF HooksInv
<1>3. CASE UNCHANGED hooksVars
  BY <1>3, HookKept DEF hooksVars, pauseVars, HooksInv
<1> QED
  BY <1>1, <1>2, <1>3 DEF HooksNext

LEMMA HooksSwitched == HooksSpec => [](SwitchedInv /\ OwnInv)
  BY SwitchedInit, SwitchedNext, HooksOwn, PTL DEF HooksSpec

\* Telemetry and, in a transfer, the display stay off from the end of a pause
\* hook that was granted to its resume hook, whatever waits expire and whatever
\* the hooks of the other callers do.
THEOREM QuietHeld == HooksSpec => []QuietWhileHeld
<1>1. SwitchedInv => QuietWhileHeld
  BY DEF SwitchedInv, HooksInv, HookInv, QuietWhileHeld
<1> QED
  BY HooksSwitched, <1>1, PTL

\* What is left of a hook is always switches, and only known things are switched.
THEOREM HooksTypeCorrect == HooksSpec => []HooksTypeOK
<1>1. SwitchedInv => HooksTypeOK
  <2> SUFFICES ASSUME SwitchedInv, NEW c \in Callers, NEW i \in DOMAIN hook[c]
               PROVE  hook[c][i] \in Steps
    BY DEF HooksTypeOK, SwitchedInv
  <2>1. {Off("telemetry"), Off("display"), On("telemetry"), On("display"), Resume} \subseteq Steps
    BY DEF Off, On, Resume, Steps, Things
  <2>2. hook[c] \in OffLeft(c) \cup OnLeft(c)
    BY DEF SwitchedInv, HooksInv, HookInv
  <2>3. CASE hook[c] \in OffLeft(c)
    BY <2>1, <2>3 DEF OffLeft, OffOrder
  <2>4. CASE hook[c] \in OnLeft(c)
    BY <2>1, <2>4, ResumeHook DEF OnLeft
  <2> QED
    BY <2>2, <2>3, <2>4
<1> QED
  BY HooksSwitched, <1>1, PTL
=============================================================================
