----------------------------- MODULE ShaEngine -----------------------------
(***************************************************************************)
(* Who uses the SHA peripheral, and in what state each finds it: the       *)
(* boot-time self tests and probes, the hashing miner of boards without an *)
(* ASIC (mining.c, sha256_hw_ahb.c, sha256_hw_dport.c), the benchmark      *)
(* handler of the web server, and mbedTLS on behalf of any other task.     *)
(*                                                                         *)
(* They share one lock, esp_crypto_sha_aes_lock.  The miner holds it while *)
(* it hashes and gives it up at its yields, when it waits for work and     *)
(* while it is paused; the peripheral's clock is on exactly while the lock *)
(* is held.  A soft restart drops the lock but not the registers.          *)
(*                                                                         *)
(* A nonce is one step: nobody else touches the registers during it.       *)
(* Whether the peripheral takes its message at the trigger is a property   *)
(* of the silicon, chosen at the start and never known to the program.     *)
(***************************************************************************)
EXTENDS ShaKernel

CONSTANTS
  MaxJobs,      \* jobs published
  Nonces,       \* nonces of a range
  YieldEvery,   \* yield_mask + 1: nonces between two Tier-1 yields
  LogEvery,     \* log_mask + 1: nonces between two Tier-2 yields
  MaxRestarts   \* soft restarts

\* The vectors of the probes show an overwritten message in the digest.
ASSUME VectorsAssumption ==
  /\ ~Canary(FALSE, Block1(0))
  /\ ~AhbLockstep(FALSE, Garbage, 0)

ASSUME MasksAssumption ==
  /\ {MaxJobs, Nonces, YieldEvery, LogEvery} \subseteq Nat \ {0}
  /\ MaxRestarts \in Nat
  /\ LogEvery % YieldEvery = 0

VARIABLES
  bus,        \* which driver the board has
  snapshots,  \* whether its silicon takes the message at the trigger
  lock,       \* holder of esp_crypto_sha_aes_lock
  busy,       \* SHA_BUSY, left over by a restart
  text,       \* the message registers
  boot,       \* where mining_run_self_tests() is
  failed,     \* s_sha_self_test_failed
  overlap,    \* s_sha_overlap_state
  lockstep,   \* what the lockstep self test logged
  pc,         \* where the mining task is
  queue,      \* sequence number of the work in work_queue, 0 for none
  job,        \* the miner's work
  midstate,   \* hw_backend_ctx_t's midstate_hw, the AHB driver's
  nonce,
  digest,     \* of the nonce just hashed
  touched,    \* whether another user had the peripheral since prepare_job(),
              \* at a yield without a pause
  user,       \* where the other users are
  restarts

silicon == <<bus, snapshots>>
probes == <<boot, failed, overlap, lockstep>>
miner == <<pc, job, midstate, nonce, digest>>
vars == <<bus, snapshots, lock, busy, text, boot, failed, overlap, lockstep,
          pc, queue, job, midstate, nonce, digest, touched, user, restarts>>

Users == {"tls", "bench"}
Test == 0   \* the synthetic header of tests and benchmarks
Free == "free"

\* "off"  not started      "init"  backend.init() done, lock not yet taken
\* "top"  outer loop, lock held         "peek"  waiting for work
\* "retake" no work        "taken" work in hand, lock not yet taken
\* "prep" about to prepare the job      "hash"  about to hash
\* "hashed" a nonce hashed "tier1" at a yield, lock given up
\* "recheck" lock to take and give again   "pausing" at the pause check
\* "parked" paused         "back"  lock to take after the pause check
\* "tier2" at the full yield            "delay" in its 5 ms
MinerLabels == {"off", "init", "top", "peek", "retake", "taken", "prep", "hash",
                "hashed", "tier1", "recheck", "recheckheld", "pausing",
                "parked", "back", "tier2", "delay"}
HeldLabels == {"top", "prep", "hash", "hashed", "recheckheld", "tier2"}
BootLabels == {"test", "testing", "probe", "probing", "done"}
NoDigest == <<"none">>
NoMid == <<"nomid">>

Reset ==
  /\ lock = Free
  /\ boot = "test" /\ failed = FALSE
  /\ overlap = "unknown" /\ lockstep = "unknown"
  /\ pc = "off" /\ queue = 0 /\ job = Test /\ midstate = NoMid
  /\ nonce = 0 /\ digest = NoDigest /\ touched = FALSE
  /\ user = [u \in Users |-> "idle"]

Init ==
  /\ bus \in {"ahb", "dport"}
  /\ snapshots \in BOOLEAN
  /\ busy = FALSE /\ text = Garbage /\ restarts = 0
  /\ Reset

-----------------------------------------------------------------------------
(* The lock *)

\* sha256_hw_acquire() waits for BUSY to go, which is taken to happen within
\* its 100000 polls; sha256_hw_dport_acquire() resets the peripheral at its
\* first call.
Acquire(who) == lock = Free /\ lock' = who /\ busy' = FALSE

Release(who) == lock = who /\ lock' = Free /\ UNCHANGED busy

\* While BUSY is set a driver spins.
Ready(who) == lock = who /\ ~busy

-----------------------------------------------------------------------------
(* app_main: mining_run_self_tests() *)

TestAcquire ==
  /\ boot = "test" /\ Acquire("main") /\ boot' = "testing"
  /\ UNCHANGED <<silicon, text, failed, overlap, lockstep, miner, queue, touched, user, restarts>>

\* The AHB test gives the lock back and the probes take it again; around the DPORT
\* test and probes mining_run_self_tests() holds it throughout.
TestPassed == \/ bus = "ahb" /\ boot' = "probe" /\ Release("main")
              \/ bus = "dport" /\ boot' = "probing" /\ UNCHANGED <<lock, busy>>

\* Mutant of TestVector: the test is repeated until it passes.
TestVectorRetries ==
  /\ boot = "testing" /\ Ready("main")
  /\ text' = Block1(Test)
  /\ \/ TestPassed
     \/ boot' = "test" /\ Release("main")
  /\ UNCHANGED <<silicon, failed, overlap, lockstep, miner, queue, touched, user, restarts>>

\* The known vector: right, or not.  A failure is final and keeps the miner
\* from being started.
TestVector ==
  /\ boot = "testing" /\ Ready("main")
  /\ text' = Block1(Test)
  /\ \/ TestPassed /\ UNCHANGED failed
     \/ boot' = "done" /\ failed' = TRUE /\ Release("main")
  /\ UNCHANGED <<silicon, overlap, lockstep, miner, queue, touched, user, restarts>>

ProbeAcquire ==
  /\ boot = "probe" /\ Acquire("main") /\ boot' = "probing"
  /\ UNCHANGED <<silicon, text, failed, overlap, lockstep, miner, queue, touched, user, restarts>>

\* What a benchmark or a probe leaves in the registers.
AfterBench(t) ==
  IF bus = "ahb"
    THEN AhbMineNonce(snapshots, AhbPipelinePrep(t), SwPrepareJob(Test), Test, 0).text
    ELSE DportKernel(snapshots, DportKernelInit(t, Test), Test, 0).text

\* sha256_hw_ahb_boot_probes(), sha256_hw_dport_boot_probes(): the verdicts
\* are kept or logged; nothing acts on them.
Probe ==
  /\ boot = "probing" /\ Ready("main") /\ Release("main") /\ boot' = "done"
  /\ overlap' = IF Canary(snapshots, Block1(Test)) THEN "safe" ELSE "unsafe"
  /\ lockstep' = IF (IF bus = "ahb" THEN AhbLockstep(snapshots, text, Test)
                                    ELSE DportLockstep(Test))
                   THEN "pass" ELSE "fail"
  /\ text' = AfterBench(text)
  /\ UNCHANGED <<silicon, failed, miner, queue, touched, user, restarts>>

\* start_mining(): no task when a self test failed.  The backend's init
\* takes and gives the lock.
MinerStart ==
  /\ boot = "done" /\ ~failed /\ pc = "off" /\ pc' = "init"
  /\ UNCHANGED <<silicon, lock, busy, text, probes, queue, job, midstate, nonce,
                 digest, touched, user, restarts>>

-----------------------------------------------------------------------------
(* mining_task() *)

Go(from, to) == pc = from /\ pc' = to

MinerKeeps == UNCHANGED <<silicon, probes, user, restarts, queue>>
NonceKept == UNCHANGED <<job, midstate, nonce, digest>>

\* The lock is taken to go from one label to another.
Take(from, to) ==
  /\ Go(from, to) /\ Acquire("miner")
  /\ NonceKept /\ MinerKeeps /\ UNCHANGED <<text, touched>>

Give(from, to) ==
  /\ Go(from, to) /\ Release("miner")
  /\ NonceKept /\ MinerKeeps /\ UNCHANGED <<text, touched>>

\* Whoever waits for the lock is served while the miner is away for long: the
\* 5 s of an empty queue, the length of a pause, the 5 ms of a full yield.
NobodyWaits == \A u \in Users : user[u] # "wait"

\* xQueuePeek() finds work, or gives up after 5 s.
Peek ==
  /\ \/ queue # 0 /\ Go("peek", "taken") /\ job' = queue
     \/ queue = 0 /\ NobodyWaits /\ Go("peek", "retake") /\ UNCHANGED job
  /\ MinerKeeps /\ UNCHANGED <<lock, busy, text, midstate, nonce, digest, touched>>

\* hw_prepare_job(): the AHB driver computes the midstate with the
\* peripheral, then primes the words its hot loop leaves alone.
PrepareJob ==
  /\ Go("prep", "hash") /\ Ready("miner")
  /\ IF bus = "ahb"
       THEN /\ midstate' = Sha(H0, Block1(job))
            /\ text' = AhbPipelinePrep(Block1(job))
       ELSE /\ text' = DportKernelInit(text, job)
            /\ UNCHANGED midstate
  /\ nonce' = 0 /\ touched' = FALSE
  /\ MinerKeeps /\ UNCHANGED <<lock, busy, job, digest>>

\* One pass of mine_nonce_range()'s loop.
MineNonce ==
  /\ Go("hash", "hashed") /\ Ready("miner")
  /\ LET run == IF bus = "ahb" THEN AhbMineNonce(snapshots, text, midstate, job, nonce)
                               ELSE DportKernel(snapshots, text, job, nonce)
     IN text' = run.text /\ digest' = run.digest
  /\ MinerKeeps /\ UNCHANGED <<lock, busy, job, midstate, nonce, touched>>

YieldsAt(n, every) == (n + 1) % every = 0

\* The next nonce, or the end of the range: the next version of the job, or
\* back to the queue.
NextNonce(from) ==
  /\ pc = from
  /\ IF nonce + 1 < Nonces THEN nonce' = nonce + 1 /\ pc' = "hash"
                           ELSE pc' \in {"prep", "top"} /\ UNCHANGED nonce
  /\ MinerKeeps /\ UNCHANGED <<text, job, midstate, digest, touched>>

\* Between two yields.
Advance ==
  /\ ~YieldsAt(nonce, YieldEvery) /\ NextNonce("hashed") /\ UNCHANGED <<lock, busy>>

Tier1 == YieldsAt(nonce, YieldEvery) /\ Give("hashed", "tier1")

\* Newer work in the queue: the job is swapped.
Swap ==
  /\ queue # job /\ Go("tier1", "taken") /\ job' = queue
  /\ MinerKeeps /\ UNCHANGED <<lock, busy, text, midstate, nonce, digest, touched>>

Tier1Same ==
  /\ queue \in {0, job} /\ Go("tier1", "recheck")
  /\ NonceKept /\ MinerKeeps /\ UNCHANGED <<lock, busy, text, touched>>

\* mining_pause_check(): nothing pending, or the miner parks (MiningPause).
PauseCheck ==
  /\ \/ Go("pausing", "back") \/ Go("pausing", "parked")
  /\ NonceKept /\ MinerKeeps /\ UNCHANGED <<lock, busy, text, touched>>

\* Mutant of Unpark: the job is not prepared again after a pause.
UnparkUnprepared ==
  /\ Go("parked", "back") /\ NobodyWaits
  /\ NonceKept /\ MinerKeeps /\ UNCHANGED <<lock, busy, text, touched>>

\* The pause is over: the job is prepared again, from the first nonce.
Unpark ==
  /\ Go("parked", "taken") /\ NobodyWaits
  /\ NonceKept /\ MinerKeeps /\ UNCHANGED <<lock, busy, text, touched>>

\* Mutant of Resume: no full yield.
ResumeAlways ==
  pc = "back" /\ Acquire("miner") /\ NextNonce("back")

\* The lock is back: a full yield, or on with the range.
Resume ==
  /\ pc = "back" /\ Acquire("miner")
  /\ IF YieldsAt(nonce, LogEvery)
       THEN pc' = "tier2" /\ NonceKept /\ MinerKeeps /\ UNCHANGED <<text, touched>>
       ELSE NextNonce("back")

\* vTaskDelay(5 ms)
DelayEnd ==
  /\ NobodyWaits /\ Acquire("miner") /\ NextNonce("delay")

MinerStep ==
  \/ Take("init", "top") \/ Give("top", "peek") \/ Peek
  \/ Take("retake", "top") \/ Take("taken", "prep")
  \/ PrepareJob \/ MineNonce \/ Advance \/ Tier1 \/ Swap \/ Tier1Same
  \/ Take("recheck", "recheckheld") \/ Give("recheckheld", "pausing")
  \/ PauseCheck \/ Unpark \/ Resume
  \/ Give("tier2", "delay") \/ DelayEnd

-----------------------------------------------------------------------------
(* The others *)

\* Stratum publishes work (WorkFeed); it is not started either after a failure.
Publish ==
  /\ boot = "done" /\ ~failed /\ queue < MaxJobs /\ queue' = queue + 1
  /\ UNCHANGED <<silicon, lock, busy, text, probes, miner, touched, user, restarts>>

UserKeeps == UNCHANGED <<silicon, probes, miner, queue, restarts>>

\* A handshake, a digest; a benchmark request, whether or not its
\* mining_pause() was granted.
UserCall(u) ==
  /\ user[u] = "idle" /\ user' = [user EXCEPT ![u] = "wait"]
  /\ UNCHANGED <<lock, busy, text, touched>> /\ UserKeeps

UserAcquire(u) ==
  /\ user[u] = "wait" /\ user' = [user EXCEPT ![u] = "hold"]
  /\ Acquire(u)
  /\ UNCHANGED <<text, touched>> /\ UserKeeps

\* The registers are another's, and the miner is not paused.
Touch == touched' = (touched \/ pc # "parked")

\* mbedTLS hashes messages of its own.
TlsHash ==
  /\ user["tls"] = "hold" /\ user' = [user EXCEPT !["tls"] = "idle"]
  /\ Release("tls")
  /\ text' = Garbage /\ Touch /\ UserKeeps

\* sha256_hw_bench_pass2(), sha256_hw_dport_bench_pass2()
Bench ==
  /\ user["bench"] = "hold" /\ user' = [user EXCEPT !["bench"] = "idle"]
  /\ Ready("bench") /\ Release("bench")
  /\ text' = AfterBench(text) /\ Touch /\ UserKeeps

\* esp_restart(): lock and RAM are gone, the registers stay, and an
\* operation that was running may leave BUSY set.
Restart ==
  /\ restarts < MaxRestarts /\ restarts' = restarts + 1
  /\ lock' = Free /\ busy' \in {FALSE, lock # Free}
  /\ boot' = "test" /\ failed' = FALSE
  /\ overlap' = "unknown" /\ lockstep' = "unknown"
  /\ pc' = "off" /\ queue' = 0 /\ job' = Test /\ midstate' = NoMid
  /\ nonce' = 0 /\ digest' = NoDigest /\ touched' = FALSE
  /\ user' = [u \in Users |-> "idle"]
  /\ UNCHANGED <<silicon, text>>

BootStep == TestAcquire \/ TestVector \/ ProbeAcquire \/ Probe \/ MinerStart
UserStep(u) == UserAcquire(u) \/ (u = "tls" /\ TlsHash) \/ (u = "bench" /\ Bench)

Next ==
  \/ BootStep \/ MinerStep \/ Publish \/ Restart
  \/ \E u \in Users : UserCall(u) \/ UserStep(u)

Spec == Init /\ [][Next]_vars

(***************************************************************************)
(* Fairness: a task that can run does.  The lock is not fair: the miner    *)
(* takes it again within microseconds of giving it at a Tier-1 yield, and  *)
(* a waiting task may find it taken every time.  Only the gaps that last   *)
(* are caught: the miner and app_main catch those between two uses by      *)
(* other tasks, and these the milliseconds or more of an empty queue, a    *)
(* pause or a full yield.                                                  *)
(***************************************************************************)
MinerAway == pc \in {"off", "peek", "parked", "delay"}

Fairness ==
  /\ WF_vars(BootStep) /\ SF_vars(TestAcquire) /\ SF_vars(ProbeAcquire)
  /\ SF_vars(MinerStep)
  /\ \A u \in Users : WF_vars(UserStep(u)) /\ SF_vars(MinerAway /\ UserAcquire(u))

FairSpec == Spec /\ Fairness

-----------------------------------------------------------------------------
TypeOK ==
  /\ bus \in {"ahb", "dport"}
  /\ {snapshots, busy, failed, touched} \subseteq BOOLEAN
  /\ lock \in {Free, "main", "miner"} \cup Users
  /\ boot \in BootLabels
  /\ overlap \in {"unknown", "safe", "unsafe"}
  /\ lockstep \in {"unknown", "pass", "fail"}
  /\ pc \in MinerLabels
  /\ {queue, job} \subseteq 0..MaxJobs
  /\ nonce \in 0..(Nonces - 1)
  /\ user \in [Users -> {"idle", "wait", "hold"}]
  /\ restarts \in 0..MaxRestarts

\* What the boot probes found lets the miner trust its hot loop.
Cleared == overlap = "safe" \/ (bus = "ahb" /\ lockstep = "pass")

HashedRight == digest = SwHashNonce(job, nonce)

\* On a board whose canary says that overlapped writes are safe (or whose hot
\* loop passed the lockstep test), every nonce hashes to what software
\* computes, from the first after prepare_job() to the last, across job swaps
\* and pauses, unless another task used the peripheral at one of the yields
\* (sha256_hw_ahb.h:84-158, sha256_hw_dport_kernel.h).
HashesTrue == (pc = "hashed" /\ Cleared /\ ~touched) => HashedRight

\* sha256_hw_ahb.h:45-47: SHA_TEXT keeps its contents, "so writes to these
\* slots only need to happen once per job rather than per-nonce".
PrimedOncePerJob == (pc = "hashed" /\ Cleared) => HashedRight

\* TA-271: BUSY left by a soft restart in the middle of somebody's operation
\* does not hang the boot in a spin (sha256_hw_ahb.c:43-54).
BootCompletes == (boot # "done") ~> (boot = "done")

\* A task that waits for the peripheral gets it, although the miner takes the
\* lock again right after each Tier-1 yield (mining.c:974-978).
TlsServed == \A u \in Users : (user[u] = "wait") ~> (user[u] # "wait")
=============================================================================
