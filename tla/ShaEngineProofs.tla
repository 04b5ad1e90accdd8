-------------------------- MODULE ShaEngineProofs --------------------------
(***************************************************************************)
(* Every nonce the miner hashes hashes to what software computes, whatever *)
(* the compression function, the masks and the number of jobs, unless the  *)
(* boot probes warned or another task had the peripheral at a yield.       *)
(***************************************************************************)
EXTENDS ShaEngine, TLAPS

\* The words the hot loops do not write before they trigger.
AhbPrimed(t) == /\ t.w4 = Pad4 /\ t.w8 = Zero /\ t.w9 = Zero
                /\ t.w10 = Zero /\ t.w15 = Len640
DportPrimed(t, j) == t.w10 = HeadOf(j) /\ t.w15 = HeadOf(j)

LEMMA ImageWords ==
  ASSUME NEW a, NEW b, NEW c, NEW d, NEW e, NEW f
  PROVE  LET t == Image(a, b, c, d, e, f)
         IN /\ t.w0 = a /\ t.w4 = b /\ t.w8 = c
            /\ t.w9 = d /\ t.w10 = e /\ t.w15 = f
  BY DEF Image

LEMMA RunFields ==
  ASSUME NEW r, NEW d, NEW t, r = [digest |-> d, text |-> t]
  PROVE  r.digest = d /\ r.text = t
  OBVIOUS

\* A primed AHB hot loop hashes right.
LEMMA AhbRight ==
  ASSUME NEW t, NEW j, NEW n, AhbPrimed(t)
  PROVE  AhbMineNonce(TRUE, t, SwPrepareJob(j), j, n).digest = SwHashNonce(j, n)
<1> DEFINE first == Sha(SwPrepareJob(j), Block2(j, n))
           end2  == Image(Lo(first), Pad4, Zero, t.w9, t.w10, Len640)
<1>1. Image(TailOf(j, n), t.w4, t.w8, t.w9, t.w10, t.w15) = Block2(j, n)
  BY DEF AhbPrimed, Block2
<1>2. Image(Lo(first), Hi(first), Pad8, t.w9, t.w10, Len256) = Block3(first)
  BY Zenon DEF AhbPrimed, Block3
<1>3. AhbMineNonce(TRUE, t, SwPrepareJob(j), j, n)
        = [digest |-> Sha(H0, Block3(first)), text |-> end2]
  BY <1>1, <1>2, Zenon DEF AhbMineNonce, Message
<1> QED
  BY <1>3, RunFields, Zenon DEF SwHashNonce

LEMMA AhbStaysPrimed ==
  ASSUME NEW s, NEW t, NEW mid, NEW j, NEW n, AhbPrimed(t)
  PROVE  AhbPrimed(AhbMineNonce(s, t, mid, j, n).text)
  BY ImageWords DEF AhbMineNonce, AhbPrimed

\* The same of the DPORT kernel, which loads the digest into words 0-7.
LEMMA DportRight ==
  ASSUME NEW t, NEW j, NEW n, DportPrimed(t, j)
  PROVE  DportKernel(TRUE, t, j, n).digest = SwHashNonce(j, n)
<1>1. Image(HeadOf(j), HeadOf(j), HeadOf(j), HeadOf(j), t.w10, t.w15) = Block1(j)
  BY DEF DportPrimed, Block1
<1> QED
  BY <1>1 DEF DportKernel, Message, SwHashNonce, SwPrepareJob

LEMMA DportStaysPrimed ==
  ASSUME NEW s, NEW t, NEW j, NEW n
  PROVE  DportPrimed(DportKernel(s, t, j, n).text, j)
  BY ImageWords DEF DportKernel, DportPrimed

LEMMA PrepPrimes ==
  ASSUME NEW t, NEW j
  PROVE  AhbPrimed(AhbPipelinePrep(t)) /\ DportPrimed(DportKernelInit(t, j), j)
  BY ImageWords DEF AhbPipelinePrep, DportKernelInit, AhbPrimed, DportPrimed

\* What the lockstep test finds does not depend on what the registers held.
LEMMA LockstepForgets ==
  ASSUME NEW t
  PROVE  AhbLockstep(FALSE, t, Test) <=> AhbLockstep(FALSE, Garbage, Test)
<1> DEFINE one(u) == AhbMineNonce(FALSE, AhbPipelinePrep(u), SwPrepareJob(Test), Test, 0)
<1>1. one(t) = one(Garbage)
  BY ImageWords, PrepPrimes DEF AhbMineNonce, AhbPrimed
<1> QED
  BY <1>1 DEF AhbLockstep

-----------------------------------------------------------------------------
PrimedLabels == {"hash", "hashed", "tier1", "recheck", "recheckheld", "pausing",
                 "back", "tier2", "delay"}

LockInv ==
  /\ lock = "miner" <=> pc \in HeldLabels
  /\ \A u \in Users : lock = u <=> user[u] = "hold"
  /\ lock = "main" <=> boot \in {"testing", "probing"}
  /\ pc # "off" => boot = "done"

ClearedInv == Cleared => snapshots

Primed == IF bus = "ahb" THEN midstate = SwPrepareJob(job) /\ AhbPrimed(text)
                         ELSE DportPrimed(text, job)

PrimedInv == (pc \in PrimedLabels /\ ~touched) => Primed

IInv == TypeOK /\ LockInv /\ ClearedInv /\ PrimedInv /\ HashesTrue

LEMMA Ranges ==
  /\ 0 \in 0..(Nonces - 1) /\ 0 \in 0..MaxJobs /\ 0 \in 0..MaxRestarts
  /\ \A r \in 0..MaxRestarts : r < MaxRestarts => r + 1 \in 0..MaxRestarts
<1>1. MaxJobs \in Nat /\ Nonces \in Nat /\ Nonces # 0 /\ MaxRestarts \in Nat
  BY Zenon, MasksAssumption
<1> QED
  BY <1>1

LEMMA InitIInv == Init => IInv
<1> SUFFICES ASSUME Init PROVE IInv
  OBVIOUS
<1>1. TypeOK
  BY Ranges DEF Init, Reset, TypeOK, BootLabels, MinerLabels, Users, Free, Test
<1>2. LockInv
  BY DEF Init, Reset, LockInv, Free, HeldLabels, Users
<1>3. ClearedInv /\ PrimedInv /\ HashesTrue
  BY DEF Init, Reset, ClearedInv, Cleared, PrimedInv, PrimedLabels, HashesTrue
<1> QED
  BY <1>1, <1>2, <1>3 DEF IInv

-----------------------------------------------------------------------------
(* Types *)

\* What the miner's loop does with the nonce.
LEMMA NonceTyped ==
  ASSUME TypeOK, NEW from, NextNonce(from)
  PROVE  nonce' \in 0..(Nonces - 1) /\ pc' \in MinerLabels
  BY MasksAssumption DEF NextNonce, TypeOK, MinerLabels

LEMMA TypeNext == TypeOK /\ [Next]_vars => TypeOK'
<1> SUFFICES ASSUME TypeOK, [Next]_vars PROVE TypeOK'
  OBVIOUS
<1> USE DEF TypeOK
<1>1. CASE BootStep
  <2>1. CASE TestAcquire
    BY <2>1 DEF TestAcquire, Acquire, BootLabels, silicon, miner
  <2>2. CASE TestVector
    BY <2>2 DEF TestVector, TestPassed, Release, BootLabels, silicon, miner
  <2>3. CASE ProbeAcquire
    BY <2>3 DEF ProbeAcquire, Acquire, BootLabels, silicon, miner
  <2>4. CASE Probe
    BY <2>4 DEF Probe, Release, BootLabels, silicon, miner
  <2>5. CASE MinerStart
    BY <2>5 DEF MinerStart, MinerLabels, silicon, probes
  <2> QED
    BY <1>1, <2>1, <2>2, <2>3, <2>4, <2>5 DEF BootStep
<1>2. CASE MinerStep
  <2> USE DEF Go, MinerKeeps, NonceKept, silicon, probes, MinerLabels
  <2>1. ASSUME NEW from, NEW to \in MinerLabels, Take(from, to) PROVE TypeOK'
    BY <2>1 DEF Take, Acquire
  <2>2. ASSUME NEW from, NEW to \in MinerLabels, Give(from, to) PROVE TypeOK'
    BY <2>2 DEF Give, Release
  <2>3. CASE Peek
    BY <2>3 DEF Peek
  <2>4. CASE PrepareJob
    BY <2>4, Ranges DEF PrepareJob
  <2>5. CASE MineNonce
    BY <2>5 DEF MineNonce
  <2>6. CASE Advance
    BY <2>6, NonceTyped DEF Advance, NextNonce
  <2>7. CASE Tier1
    BY <2>2, <2>7 DEF Tier1
  <2>8. CASE Swap \/ Tier1Same \/ PauseCheck \/ Unpark
    BY <2>8 DEF Swap, Tier1Same, PauseCheck, Unpark
  <2>9. CASE Resume
    <3>1. CASE YieldsAt(nonce, LogEvery)
      BY <2>9, <3>1 DEF Resume, Acquire
    <3>2. CASE ~YieldsAt(nonce, LogEvery)
      BY <2>9, <3>2, NonceTyped DEF Resume, Acquire, NextNonce
    <3> QED
      BY <3>1, <3>2
  <2>10. CASE DelayEnd
    BY <2>10, NonceTyped DEF DelayEnd, Acquire, NextNonce
  <2> QED
    BY <1>2, <2>1, <2>2, <2>3, <2>4, <2>5, <2>6, <2>7, <2>8, <2>9, <2>10 DEF MinerStep
<1>3. CASE Publish
  BY <1>3, MasksAssumption DEF Publish, silicon, probes, miner
<1>4. CASE Restart
  BY <1>4, Ranges DEF Restart, silicon, BootLabels, MinerLabels, Test
<1>5. ASSUME NEW u \in Users, UserCall(u) \/ UserStep(u) PROVE TypeOK'
  <2> USE DEF UserKeeps, silicon, probes, miner
  <2>1. CASE UserCall(u)
    BY <2>1 DEF UserCall
  <2>2. CASE UserAcquire(u)
    BY <2>2, <1>5 DEF UserAcquire, Acquire
  <2>3. CASE TlsHash
    BY <2>3 DEF TlsHash, Release, Touch, Users
  <2>4. CASE Bench
    BY <2>4 DEF Bench, Release, Touch, Users
  <2> QED
    BY <1>5, <2>1, <2>2, <2>3, <2>4 DEF UserStep
<1>6. CASE UNCHANGED vars
  BY <1>6 DEF vars
<1> QED
  BY <1>1, <1>2, <1>3, <1>4, <1>5, <1>6 DEF Next
-----------------------------------------------------------------------------
(* Who holds the lock *)

LEMMA LockNext == TypeOK /\ LockInv /\ [Next]_vars => LockInv'
<1> SUFFICES ASSUME TypeOK, LockInv, [Next]_vars PROVE LockInv'
  OBVIOUS
<1> USE DEF LockInv, HeldLabels, Free, Users
<1>1. CASE BootStep
  <2>1. CASE TestAcquire \/ ProbeAcquire
    BY <2>1 DEF TestAcquire, ProbeAcquire, Acquire, miner
  <2>2. CASE TestVector \/ Probe
    BY <2>2 DEF TestVector, TestPassed, Probe, Release, miner
  <2>3. CASE MinerStart
    BY <2>3 DEF MinerStart, probes
  <2> QED
    BY <1>1, <2>1, <2>2, <2>3 DEF BootStep
<1>2. CASE MinerStep
  <2> USE DEF Go, MinerKeeps, probes
  <2>1. ASSUME NEW from, NEW to \in HeldLabels,
               from \notin HeldLabels \cup {"off"}, Take(from, to)
        PROVE  LockInv'
    BY <2>1 DEF Take, Acquire
  <2>2. ASSUME NEW from \in HeldLabels, NEW to, to \notin HeldLabels,
               Give(from, to)
        PROVE  LockInv'
    BY <2>2 DEF Give, Release
  <2>3. CASE Peek \/ Swap \/ Tier1Same \/ PauseCheck \/ Unpark
    BY <2>3 DEF Peek, Swap, Tier1Same, PauseCheck, Unpark
  <2>4. CASE PrepareJob \/ MineNonce
    BY <2>4 DEF PrepareJob, MineNonce
  <2>5. CASE Advance
    BY <2>5 DEF Advance, NextNonce
  <2>6. CASE Tier1
    BY <2>2, <2>6 DEF Tier1
  <2>7. CASE Resume \/ DelayEnd
    BY <2>7 DEF Resume, DelayEnd, Acquire, NextNonce
  <2> QED
    BY <1>2, <2>1, <2>2, <2>3, <2>4, <2>5, <2>6, <2>7 DEF MinerStep
<1>3. CASE Publish
  BY <1>3 DEF Publish, probes, miner
<1>4. CASE Restart
  BY <1>4 DEF Restart
<1>5. ASSUME NEW u \in Users, UserCall(u) \/ UserStep(u) PROVE LockInv'
  <2> USE DEF UserKeeps, probes, miner, TypeOK
  <2>1. CASE UserCall(u)
    BY <2>1 DEF UserCall
  <2>2. CASE UserAcquire(u)
    BY <2>2, <1>5 DEF UserAcquire, Acquire
  <2>3. CASE TlsHash \/ Bench
    BY <2>3 DEF TlsHash, Bench, Release
  <2> QED
    BY <1>5, <2>1, <2>2, <2>3 DEF UserStep
<1>6. CASE UNCHANGED vars
  BY <1>6 DEF vars
<1> QED
  BY <1>1, <1>2, <1>3, <1>4, <1>5, <1>6 DEF Next

-----------------------------------------------------------------------------
(* What the probes establish *)

LEMMA ClearedNext == TypeOK /\ ClearedInv /\ [Next]_vars => ClearedInv'
<1> SUFFICES ASSUME TypeOK, ClearedInv, [Next]_vars PROVE ClearedInv'
  OBVIOUS
<1> USE DEF ClearedInv, Cleared
<1>1. CASE Probe
  <2>1. snapshots' = snapshots /\ bus' = bus
    BY <1>1 DEF Probe, silicon
  <2>2. CASE snapshots
    BY <2>1, <2>2
  <2>3. CASE ~snapshots
    <3>1. snapshots = FALSE
      BY <2>3 DEF TypeOK
    <3>2. overlap' = "unsafe"
      BY <1>1, <3>1, VectorsAssumption DEF Probe, Test
    <3>3. ASSUME bus = "ahb" PROVE lockstep' = "fail"
      <4>1. ~AhbLockstep(FALSE, text, Test)
        BY VectorsAssumption, LockstepForgets DEF Test
      <4> QED
        BY <1>1, <3>1, <3>3, <4>1, Zenon DEF Probe
    <3> QED
      BY <2>1, <3>2, <3>3
  <2> QED
    BY <2>2, <2>3
<1>2. CASE Restart
  BY <1>2 DEF Restart
<1>3. CASE (BootStep /\ ~Probe) \/ Publish \/ UNCHANGED vars
  BY <1>3 DEF BootStep, TestAcquire, TestVector, TestPassed, ProbeAcquire, MinerStart,
              Publish, silicon, probes, vars
<1>4. CASE MinerStep
  <2>1. MinerKeeps
    BY <1>4 DEF MinerStep, Take, Give, Peek, PrepareJob, MineNonce, Advance, Tier1,
                Swap, Tier1Same, PauseCheck, Unpark, Resume, DelayEnd, NextNonce
  <2> QED
    BY <2>1 DEF MinerKeeps, silicon, probes
<1>5. ASSUME NEW u \in Users, UserCall(u) \/ UserStep(u) PROVE ClearedInv'
  BY <1>5 DEF UserCall, UserStep, UserAcquire, TlsHash, Bench, UserKeeps, silicon, probes
<1> QED
  BY <1>1, <1>2, <1>3, <1>4, <1>5 DEF Next
-----------------------------------------------------------------------------
(* The words a hot loop counts on *)

\* The registers keep their contents, or nobody counts on them.
LEMMA PrimedFrame ==
  ASSUME PrimedInv, bus' = bus,
         (pc' \in PrimedLabels /\ ~touched') =>
           /\ pc \in PrimedLabels /\ ~touched
           /\ text' = text /\ job' = job /\ midstate' = midstate
  PROVE  PrimedInv'
  BY DEF PrimedInv, Primed, AhbPrimed, DportPrimed

LEMMA HashedFrame ==
  ASSUME HashesTrue,
         (pc' = "hashed" /\ Cleared' /\ ~touched') =>
           /\ pc = "hashed" /\ Cleared /\ ~touched
           /\ digest' = digest /\ job' = job /\ nonce' = nonce
  PROVE  HashesTrue'
  BY DEF HashesTrue, HashedRight

LEMMA PrimedNext == IInv /\ [Next]_vars => PrimedInv' /\ HashesTrue'
<1> SUFFICES ASSUME IInv, [Next]_vars PROVE PrimedInv' /\ HashesTrue'
  OBVIOUS
<1>a. /\ PrimedInv /\ HashesTrue /\ ClearedInv /\ LockInv
      /\ touched \in BOOLEAN /\ snapshots \in BOOLEAN /\ bus \in {"ahb", "dport"}
  BY DEF IInv, TypeOK
<1>1. CASE BootStep
  <2>1. bus' = bus /\ (pc' = "off" \/ pc' = "init")
    BY <1>1, <1>a DEF BootStep, TestAcquire, TestVector, TestPassed, ProbeAcquire, Probe,
                      MinerStart, silicon, miner, LockInv
  <2> QED
    BY <2>1, <1>a, PrimedFrame, HashedFrame DEF PrimedLabels
<1>2. CASE MinerStep
  <2> USE DEF Go, MinerKeeps, NonceKept, silicon, probes, Cleared
  <2>1. ASSUME NEW from, NEW to, to \notin PrimedLabels \/ from \in PrimedLabels,
               to # "hashed", Take(from, to)
        PROVE  PrimedInv' /\ HashesTrue'
    BY <2>1, <1>a, PrimedFrame, HashedFrame DEF Take, PrimedLabels
  <2>2. ASSUME NEW from, NEW to, to \notin PrimedLabels \/ from \in PrimedLabels,
               to # "hashed", Give(from, to)
        PROVE  PrimedInv' /\ HashesTrue'
    BY <2>2, <1>a, PrimedFrame, HashedFrame DEF Give, PrimedLabels
  <2>3. CASE Peek \/ Swap \/ Tier1Same \/ PauseCheck \/ Unpark
    BY <2>3, <1>a, PrimedFrame, HashedFrame
       DEF Peek, Swap, Tier1Same, PauseCheck, Unpark, PrimedLabels
  <2>4. CASE PrepareJob
    <3>1. HashesTrue'
      BY <2>4 DEF PrepareJob, HashesTrue
    <3>2. PrimedInv'
      <4>1. CASE bus = "ahb"
        BY <2>4, <4>1, PrepPrimes DEF PrepareJob, PrimedInv, Primed, SwPrepareJob, AhbPrimed
      <4>2. CASE bus # "ahb"
        BY <2>4, <4>2, PrepPrimes DEF PrepareJob, PrimedInv, Primed, DportPrimed
      <4> QED
        BY <4>1, <4>2
    <3> QED
      BY <3>1, <3>2
  <2>5. CASE MineNonce
    <3>1. CASE touched
      BY <2>5, <3>1 DEF MineNonce, PrimedInv, HashesTrue
    <3>2. CASE ~touched
      <4>1. Primed
        BY <2>5, <3>2, <1>a DEF MineNonce, PrimedInv, PrimedLabels
      <4>2. Cleared' => snapshots = TRUE
        BY <2>5, <1>a DEF MineNonce, ClearedInv
      <4>3. bus' = bus /\ job' = job /\ midstate' = midstate /\ nonce' = nonce
        BY <2>5 DEF MineNonce
      <4>4. CASE bus = "ahb"
        <5> DEFINE run == AhbMineNonce(snapshots, text, midstate, job, nonce)
        <5>1. midstate = SwPrepareJob(job) /\ AhbPrimed(text)
          BY <4>1, <4>4 DEF Primed
        <5>2. text' = run.text /\ digest' = run.digest
          BY <2>5, <4>4 DEF MineNonce
        <5>3. AhbPrimed(run.text)
          BY <5>1, AhbStaysPrimed
        <5>4. snapshots = TRUE => run.digest = SwHashNonce(job, nonce)
          BY <5>1, AhbRight
        <5> HIDE DEF run
        <5> QED
          BY <4>2, <4>3, <4>4, <5>1, <5>2, <5>3, <5>4
             DEF PrimedInv, Primed, AhbPrimed, HashesTrue, HashedRight
      <4>5. CASE bus # "ahb"
        <5> DEFINE run == DportKernel(snapshots, text, job, nonce)
        <5>1. DportPrimed(text, job)
          BY <4>1, <4>5 DEF Primed
        <5>2. text' = run.text /\ digest' = run.digest
          BY <2>5, <4>5 DEF MineNonce
        <5>3. DportPrimed(run.text, job)
          BY DportStaysPrimed
        <5>4. snapshots = TRUE => run.digest = SwHashNonce(job, nonce)
          BY <5>1, DportRight
        <5> HIDE DEF run
        <5> QED
          BY <4>2, <4>3, <4>5, <5>2, <5>3, <5>4
             DEF PrimedInv, Primed, DportPrimed, HashesTrue, HashedRight
      <4> QED
        BY <4>4, <4>5
    <3> QED
      BY <3>1, <3>2
  <2>6. CASE Advance
    BY <2>6, <1>a, PrimedFrame, HashedFrame DEF Advance, NextNonce, PrimedLabels
  <2>7. CASE Tier1
    BY <2>2, <2>7 DEF Tier1, PrimedLabels
  <2>8. CASE Resume \/ DelayEnd
    BY <2>8, <1>a, PrimedFrame, HashedFrame DEF Resume, DelayEnd, NextNonce, PrimedLabels
  <2> QED
    BY <1>2, <2>1, <2>2, <2>3, <2>4, <2>5, <2>6, <2>7, <2>8
       DEF MinerStep, PrimedLabels
<1>3. CASE Publish \/ UNCHANGED vars
  BY <1>3, <1>a, PrimedFrame, HashedFrame DEF Publish, silicon, probes, miner, vars, Cleared
<1>4. CASE Restart
  BY <1>4 DEF Restart, PrimedInv, PrimedLabels, HashesTrue
<1>5. ASSUME NEW u \in Users, UserCall(u) \/ UserStep(u)
      PROVE  PrimedInv' /\ HashesTrue'
  BY <1>5, <1>a, PrimedFrame, HashedFrame
     DEF UserCall, UserStep, UserAcquire, TlsHash, Bench, Touch, UserKeeps,
         silicon, probes, miner, Cleared, PrimedLabels
<1> QED
  BY <1>1, <1>2, <1>3, <1>4, <1>5 DEF Next
-----------------------------------------------------------------------------
\* The invariant behind the theorems: who holds the lock at which label, that
\* the probes are silent only on silicon that takes its message at the
\* trigger, and which words are primed at which label.
THEOREM Invariance == Spec => []IInv
<1>1. IInv /\ [Next]_vars => IInv'
  BY TypeNext, LockNext, ClearedNext, PrimedNext DEF IInv
<1> QED
  BY InitIInv, <1>1, PTL DEF Spec

\* Types, for every compression function and every choice of masks.
THEOREM TypeCorrect == Spec => []TypeOK
<1>1. IInv => TypeOK
  BY DEF IInv
<1> QED
  BY Invariance, <1>1, PTL

\* Every nonce hashes to what software computes on a board whose probes did
\* not warn, for every compression function, every number of jobs and nonces
\* and every pair of masks, unless another task had the peripheral at a yield
\* (mine_nonce_range(), sha256_hw_mine_nonce(), sha256_hw_dport_kernel()).
THEOREM HashesAreTrue == Spec => []HashesTrue
<1>1. IInv => HashesTrue
  BY DEF IInv
<1> QED
  BY Invariance, <1>1, PTL
=============================================================================
