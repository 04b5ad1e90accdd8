# TaipanMiner: a verification project

TaipanMiner is the firmware of a Bitcoin miner on ESP32 boards. One FreeRTOS
task talks stratum to a pool, another one mines: on Bitaxe boards it drives a
BM1368/BM1370 ASIC over a UART, on the others it hashes on the SHA peripheral or
in software. Around them are HTTP handlers, over-the-air update workers, a
validator of freshly flashed images, timers, a peer table and a display.

This directory holds TLA+ models of the parts where tasks, timeouts and lost
messages meet, TLC configurations that check them on small instances, and
proofs that TLAPS checks for every value of the constants. `PROJECT.json` maps
each definition to the lines it models and lists the hazards and the runs.

## 1. Inventory

| Component | State | Operations | Talks to |
|---|---|---|---|
| Mining pause (`mining_pause*.c`) | `pause_requested`, `pause_active`, a mutex, the ack and done semaphores | `mining_pause`, `mining_resume`, `mining_pause_check` | OTA workers, update check, benchmark handler; the miner task |
| ASIC mining loop (`asic_task.c`, `asic_pause_coalesce.c`) | `s_chip_quiesced`, dispatch gate, core rail, poll timers | coalesce, quiesce, ramp, dispatch, nonce, 5 s step, register poll, in-place recovery | pause, work queue, chip, voltage regulator |
| ASIC jobs (`asic_task.c`, `asic_proto.h`, `asic_nonce_dedup.c`) | job table, ids seen, next id, dedup ring | dispatch, invalidate, look up, validate, package | both queues, chip |
| Hashing miner (`mining.c`, `share_validate.c`) | work, version roll, nonce range | peek, roll, hash, reverify, swap in range, exhaust | both queues, pause |
| Work and result queues (`main.c`, `stratum_io.c`, `work.h`) | one work item (overwritten), 16 results | notify, set_difficulty, extranonce roll, reset, drain, send, receive | stratum task and miner task |
| Stratum session (`stratum_io.c`, `stratum_backoff.c`) | socket, connected flag, active slot, failure counts, backoff, reconnect flag | connect, handshake, main loop, failover, reconnect, WiFi kick | pool, HTTP handlers, WiFi, statistics |
| Stratum requests (`stratum_io.c`, `stratum_machine.c`) | message ids, remembered ids, in-flight ring, extranonce status | request, submit, answer dispatch, keepalive, extranonce timeout | pool, statistics, validator |
| OTA validator (`ota_validator*.c`) | timer armed, pending image | authorised, share accepted, timer fired | stratum task, timer task, boot loader |
| Pool HTTP handlers (`routes.c`) | the two configured pools | PUT, switch, DELETE fallback, DELETE primary | configuration, session |
| Pool statistics (`mining_pool_stats.c`) | 8 slots with LRU eviction, lifetime blocks, NVS | find or allocate, record, save, load, reset | stratum task, miner task, timer, HTTP |
| Configuration (`config.c`, settings handlers of `routes.c`) | settings in RAM and NVS, key by key | load, set field, set pools; POST, PATCH, the provisioning form, the deferred restart | everything |
| Core voltage watchdog (`asic_task.c`) | burst count, fault hold, NVS | evaluate, recover, back off, hold, clear | ASIC loop, HTTP |
| SHA peripheral (`sha256_hw_ahb.*`, `sha256_hw_dport*`, `mining.c`) | message and chaining registers, SHA_BUSY, the lock | per-job and per-nonce kernels, self tests, probes, benchmark; yields of the miner | miner, mbedTLS, HTTP |
| Knot (`knot*.c`) | 32 peers under a mutex, own row | discovered, removed, walk, set self, init, deinit | mDNS, HTTP, boot |
| Boot and provisioning (`main.c`, `boot_fallback_decision.h`) | boot count, provisioned flag, login | fall back to access point, adopt a login, restart, start tasks | everything |
| OTA hooks (`main.c`) | bb_pub, mqtt, `s_display_quiesced`, the panel | pause and resume hooks of transfer and check | pause, OTA library, display |
| Telemetry (`asic_task.c`, `mining_avg.c`, `mining.c`) | last counter readings, three ring buffers per value, credited difficulty | read a counter, poll, timer tick, session reset | ASIC, pool answers, HTTP |
| The rest | chip initialisation, PLL, PID, LED, drawing, routes_json | | |
| Tools | web interfaces, flasher, fleet scripts, host tests | | HTTP interface |

**Where it is hard.**
*Concurrency*: the pause flags are plain variables shared by tasks on two cores;
HTTP handlers write the active pool and the reconnect flag while the stratum task
reads them; a one-shot timer races the task that stops it.
*Ordering*: the work queue holds one item, so what a work says can be lost
between two looks of the miner; answers arrive in any order or never; the chip
answers for jobs whose id was given away.
*Timeouts and retries*: ack and park of the pause, extranonce subscription,
keepalive, backoff, failover, drought watchdogs.
*Restarts*: the statistics are written to NVS one key at a time, by four tasks,
the pools one key at a time by whichever handler saves them; provisioning and
the fallback to the access point are three writes each. A soft restart leaves
SHA_BUSY of an interrupted hash set.
*Failure*: pool and WiFi loss at every stage, core voltage collapse, full queues,
failing restarts of the chip.

**What makes each part correct.**
- Pause: an owner told "paused" has a parked miner; the mutex brackets a
  pause; no request is orphaned; nobody waits for ever; a lost owner costs one
  park, not a cycle.
- ASIC loop: chips are inactive when the pause is acked, are restarted after it,
  and then get a job.
- Queues and miners: a share says what was hashed; clean work retires older
  jobs; the miner does not stay behind the queue.
- Session: nothing of a session outlives it; it always comes back; requested
  reconnects happen; failover moves and never leaves a lone pool.
- Requests: an answer is taken for what it answers; a share is booked once, with
  its own difficulty; pending states resolve.
- Validator: an image is marked valid for the reason it is logged with, and a
  pending one is decided.
- SHA peripheral: what the miner hashes is what software would compute, although
  words of the registers are left from earlier nonces and other tasks; the boot
  ends; mbedTLS gets its turn.
- Settings: what was acknowledged survives; a login is not thrown away before it
  failed often enough, and a board that cannot join opens its access point.
- Knot: the own row stays; what was turned off stays off.
- OTA hooks: telemetry does not come back under a caller that holds the pause.
- Telemetry: a published rate is work that was done; an average forgets; difficulty is
  credited once, or once more for each poll that missed the mutex.
- Statistics: what a recorder counted reaches NVS, at the latest with the
  periodic save; a pool has one slot; the pool just left is not forgotten.

## 2. Modules and how they correspond to the code

| Module | Models | Extends |
|---|---|---|
| `PauseLock` | what a pause promises: an owner, and a parked miner while there is one | |
| `MiningPause` | the handshake, one step per access to shared state | |
| `AsicLoop` | the loop of `asic_mining_task()` around the pause | `MiningPause` |
| `StratumSession` | `stratum_task()` from attempt to attempt, four HTTP handlers | |
| `StratumSessionProofs` | its proofs | `StratumSession` |
| `OtaValidator` | both entry points and the timer callback | |
| `StratumRpc` | requests, answers, ring, share accounting | `OtaValidator` |
| `StratumRpcProofs` | its proofs | `StratumRpc` |
| `WorkFeed` | the queues as the stratum task feeds them | |
| `AsicJobs` | dispatch, job table, nonce path | `WorkFeed` |
| `SwMiner` | version rolling and the range loop | `WorkFeed` |
| `WorkFlow` | the composition, for either board | `AsicJobs`, `SwMiner` |
| `WorkFlowProofs` | its proofs | `WorkFlow` |
| `PoolLedger` | the per-pool statistics, their recorders, savers and reload | |
| `PoolLedgerProofs` | its proofs | `PoolLedger` |
| `ShaKernel` | the registers and the kernels of both hardware drivers and of software | |
| `ShaEngine` | the lock, boot tests, mining loop with its yields, other users of the peripheral | `ShaKernel` |
| `ShaEngineProofs` | its proofs | `ShaEngine` |
| `Settings` | the persistent settings, their handlers, boot and provisioning | |
| `Knot` | the peer table, mDNS, and the requests that switch them | |
| `AckedStore` | what settings promise: answers that can be relied on | |
| `SettingsProofs` | proofs of both: what the settings handlers save, what they switch | `Settings`, `Knot` |
| `Meter` | counter readings, rolling averages, the pool-effective rate | |
| `MeterProofs` | its proofs | `Meter` |
| `OtaHooks` | the OTA hooks over the pause handshake | `MiningPause` |
| `PauseProofs` | proofs of the handshake and of the two modules built on it | `AsicLoop`, `OtaHooks` |
| `MC...` | instances for TLC | |

**MiningPause.** `pc[c]` is the place of a caller in `mining_pause()` or
`mining_resume()`, `miner` the place of the miner in `mining_pause_check()`. The
accesses to the flags are separate steps, because no lock protects them; a
binary semaphore is a token count of 0 or 1, and only a take removes a token.
Each wait with a timeout has two actions. `AckMayTimeOut` and `DoneMayTimeOut`
say whether the two handshake waits may expire; the 30 s wait for the mutex
always may. `PauseLock` is the abstract specification; the refinement maps its
owner to the mutex holder that was told "paused".

**AsicLoop** adds the loop: `loop` is the next stage, the coalescing decision is
the action `Coalesce`, `check` and `poll` are the two places that call
`mining_pause_check()`. The chip is hashing, inactive or recovered; `chip_resume()`
may fail, and its result is remembered in a history variable because the code
ignores it. A nonce is here only whether its path ends in `continue`.

**StratumSession** has one action per stage of the task; the handshake waits are
one action with a success and failure outcomes. An HTTP handler that reads,
saves and then acts on what it read is two or three actions, so the task runs in
between. Pools are model values; `sock` and `slot` say which pool the socket
and the statistics slot belong to, so a disagreement can be seen.

**StratumRpc** keeps the ids the task remembers, the ring of difficulties and
`wire`, the open requests with what they really are (the task does not see that:
it sees the id). `pool` is what the pool has decided, the truth the books are
compared with. `OtaValidator` splits each entry point at the gap between reading
`bb_ota_is_pending()` and calling `bb_ota_mark_valid()`.

**WorkFeed, AsicJobs, SwMiner, WorkFlow.** A work item is its `work_seq`, job,
extranonce, difficulty, mask and clean mark; the header is what identifies it
(`HashOf`). Both queues, the connected flag and the two halves of
`build_work()` (publish, refuse) are in `WorkFeed`. The chip is external: it finds
nonces for the job it has, with any version roll, as late as it likes. `SwMiner`
has the range loop, whose version roll lives partly in the header and partly in
`params`. A share carries in `hash` what it was found on.

**PoolLedger.** `table` and `life` are the table in RAM, `nv` and `nvLife` the keys
in NVS. `job[t]` is what a task is in the middle of: an increment that has read
its counter and not yet written it, or a save that has reached a certain key. The
recorders save one slot from the live table but carry the block count they
were called with; the periodic save and the reset write a snapshot of
everything. `Restart` may come between any two steps and loads what the keys
hold. A write that NVS refuses (`Refuse`) goes unnoticed, as in the code. `behind` is a history variable: the cells NVS is excused for.

**ShaKernel, ShaEngine.** A message block is a sequence of words; the compression
function is a constant, so a hash is told apart from another by the words it was
computed over. `ShaKernel` says which words each kernel writes for a nonce and
which it relies on being there. `ShaEngine` holds the registers, the owner of the
lock (kept from the self test through the probes on the classic ESP32, given back in between
on the AHB boards) and `pc`, the place of the miner; `board` says which driver and what the boot probes found. The wait for
SHA_BUSY in `sha256_hw_acquire()` is taken to end within its 100 000 polls;
after that the code goes on into spins that have no limit, although the comment at
`sha256_hw_ahb.c:43` says "rather than a hang". The clock gate is taken not to
clear registers.

**Settings.** `nvs`, `cache` and `acked` are functions over the same fields: what is
in flash, what the program works with, what the user was told. A pool is three fields
(where, as whom, how; host and port, and wallet, worker and password, are written side by
side and counted as one write each), and the host name stands for every setting with a key
of its own. `job` is the save the HTTP task is in; `WriteKey` is one
`bb_nv_set_*()`, and a failing write, a power loss or the deferred restart of an
earlier request may come before any of them. The write of the last key updates the cache as
well; the answer comes after it, so a POST may still be refused by a later field with the
pools saved and cached. `torn` is a history variable: the
fields that an unacknowledged save has written. `phase` is the place of
`app_main()`. External, modelled from its use: the join that times out, counts and
restarts, the login that the form stores, validation and update of the image. Seen
from outside this is `AckedStore`, a store that says "saved" only of what its flash holds.

**Knot.** `todo` is what is left of the request the HTTP task is in (at boot, of the
main task), `call` the callback the mDNS task is in. What runs under the mutex is one
action, but the walk, which sends each row while it holds the mutex, has a
beginning and an end, and callbacks time out in between. Nobody else announces
the own instance name: mDNS resolves such conflicts.

**Meter.** One period is one poll or timer tick. `chip` is what an ASIC does, with what it
did since its last answer as history; `answer` is in the UART until the task reads
it, `meas` what the task remembers. `avg` holds for each entry of the three buffers the
age of the oldest sample with a weight in it: the numbers of `mining_avg_update()` are
weighted means, so this is what a wrong index or weight would change. Every set of
buffers runs alike; one stands for all. `sum` is the mutex-guarded difficulty of the session,
`credited` what the samples of a period have taken from it, and `blind` counts the
ASIC polls that missed the mutex.

**OtaHooks** composes the hooks with `MiningPause`: `hook[c]` is the list of switches
left in the hook of a caller. The library calls the resume hook exactly if the
pause hook returned true, as the comment at `main.c:608` says.

## 3. Runs

| Run | Instance | Shows |
|---|---|---|
| `hooks` | a transfer and an update check through their hooks, all waits may expire | no orphan request, the miner returns, callers get a verdict, no park cycle; no telemetry, and in a transfer no display, under a granted caller |
| `pause_timely` | two transfers and an update check through their hooks, handshake waits do not expire | paused means parked, no stale token, refinement of `PauseLock`, requests granted |
| `asic` | 1 caller pausing again and again, rail collapses, pool drops, 2 poll registers | acks at the top of the loop over quiesced chips, restart, job after restart |
| `session` | 2 endpoints, all four handlers, thresholds 2, delays 5..7 | session scope, failover, reconnects, return to service, WiFi kick |
| `session_slot` | the same without handlers | **violated**: after a failover the primary is dialled and the fallback credited |
| `rpc` | ring of 2, window 2, 6 requests a session, 2 shares, any number of sessions | books, validator, extranonce status |
| `work` | both boards, 3 works, 2 difficulties, 1 version roll, queue of 1 | shares recompute, clean work retires jobs, the miner catches up |
| `ledger` | 3 pools on 2 slots, 4 events, 2 tasks busy at a time, a slot's keys in 2 steps | what may be missing from NVS at rest, no twin slots, the pool just left is kept, the periodic save heals NVS |
| `sha` | all boards and probe outcomes, 2 jobs of 4 nonces, yields every 2 | every nonce hashes to what software computes unless another task had the peripheral at a yield, boot completes, mbedTLS is served |
| `settings` | 2 accounts, 2 host names, threshold 2, 2 saves, 1 fault | acknowledged settings survive, logins are kept, ASIC before tasks, the access point opens again |
| `meter` | 1 chip, counter modulo 6, windows of 2, 4 and 8 periods, 2 shares, 1 missed mutex | rates are real work, averages forget, each difficulty is credited, and at most once more than ASIC polls missed the mutex |
| `knot` | 2 other boards, one with the own host name, 2 rows, 1 fault | the own row stays, an ended knot stays off |

**Bounds, and why they are enough.** Two callers are one that holds the pause and one that
is refused or takes what the first left behind; in `pause_timely` three are an owner, one that waits
for the mutex and one that comes later; the handshake only ever involves the
holder. Thresholds of 2 make "not yet" and "reached" different states; delays 5
and 7 make the cap bite in the middle of a doubling. A ring of 2 with a window
of 2 is the tightest one for which requests a ring apart are never open
together, so an off-by-one in either shows. Ids up to 7 allow a full handshake, a
keepalive and shares in each of any number of sessions. Three works are a job, its
replacement and one more: enough to overwrite a work not seen and to meet a
recycled slot or, after a recovery, a recycled id. Four ids at a step of 24 on sixteen slots fall, as the
code's sixteen do, on slots 0 and 8 only. One result slot makes the queue full
at once. Two slots for three pools make eviction happen with the third connection,
and four events are enough to come back to a pool before it; two busy tasks are a
newer and an older writer. A slot's keys are written in two steps (its name,
its numbers), so a save can be overtaken inside a slot and between slots; the grain
is a constant, and the theorems hold for single keys. Two saves are one that is cut short and one after it, one fault cuts it
short; a second fault inside the fallback can lose a login that was set in
between (section 5). A counter modulo 6 wraps every few
readings, and a restart can set it back by more than the sanity limit of one or two
periods; windows of two slots let every ring of the averages wrap, blend and drop. A table of two rows is full with the own row and one other.
The proofs have none of these bounds.

**Fairness.** Tasks that can run do run: the miner task has the highest
priority of its core and feeds its watchdog in every pass, the stratum task has
its own core and only bounded waits. Callers make progress and, where a property
needs it, owners resume (the OTA hooks run on every outcome). `NewWork` is
fair in `asic` because a connected task rolls the extranonce every 500 ms or so.
Strong fairness is used for steps that keep becoming possible: `SwSwap` is tested every
2^18 nonces, whatever is found in between; a session reads again and again
between pauses, which are bounded by the park; the extranonce roll with usable
difficulties does not skip the rest of the loop for ever. That pools answer is
never part of a specification: properties that need it say so on the left of the
implication (`SessionAgain`, `FailoverMoves`, `ChipGetsWork`).

In `settings` `app_main()` goes on, and a join succeeds or times out. In `sha` the
miner steps, a holder of the lock gives it back, and the 5 ms full yield is long
enough for a task that waits for the lock; a Tier-1 yield is not. In
`hooks` a hook that has begun goes on, but nothing makes an owner resume.

In `ledger` it is only assumed that some task goes on as long as one can: even
so the save timer gets its turn, because everything else is finite.

Deadlock is checked in every run: no bound and no wait ever stops the whole system.

## 4. Proofs

TLAPS proves these for all values of the constants, under the ASSUMEs the
modules declare (positive capacities, thresholds and moduli; `None` is no
caller). Each rests on an inductive invariant.

- **Pause.** `SectionOwnsMutex` is inductive once types and `RequestOwned` are
  added: the mutex says who may be between request and release, and the request
  flag is tied to that owner (`OwnInv`). The timely theorems need more, since what the miner does
  depends on tokens in flight: `HandshakeInv` lists the four phases of
  a handshake (miner out or leaving, entering, parked with ack given, parked with done
  given) and what flags, tokens and the holder's position are in each. From it
  follow `PausedParked`, `TokensFresh` and the refinement `Implements`.
- **ASIC loop.** `LoopImplementsPause` shows that every step of the loop is a step
  of the handshake or leaves it alone, so everything above carries over.
  `QuiesceInv` adds the window in which `s_chip_quiesced` is up and the chips are not
  yet inactive.
- **OTA hooks.** `HooksImplementPause`: every step of a hook, of the pull worker and
  of the push handler is a step of the handshake, so a request has an owner there
  too and, when no wait expires, the miner is parked under a granted caller
  (`HooksKeepPromise`). `HookInv` ties what a caller has still to switch to the hook
  it is in and to its place in the handshake; with the mutex, which is held from
  request to release, at most one caller is past its request, and `QuietHeld`
  follows.
- **Session.** `SessionScoped` is inductive with the types; `ActiveStaysConfigured` is
  conditional on pools that are not edited. `SlotIsSocketAlone` delimits the finding
  of section 5: while there is no fallback (which keeps the active slot at 0,
  `NoFallbackStays`) and no handler puts or promotes a pool, the pool
  credited is the pool dialled. `TypeCorrect` bounds the delay by its cap and the
  two failure counts by their thresholds.
- **Requests.** `RpcInv`: open requests have different ids within a window
  (`Span`), an id is remembered exactly for the request of its kind (`Owned`),
  and the ring holds the difficulty of each open share. `SlotsDiffer` shows that ids
  closer than the ring have different slots. Routing, ring, books and the first share
  follow.
- **Work.** `ShareInv`: the hashing loop never rolls a work without a mask and the
  header checked is the header packaged. `CleanInv`: as long as the latest clean work was not
  lost in the queue it either waits there unseen, or was taken and the table
  holds nothing older, or the table is empty. The theorems hold for any id step,
  modulus and table size, although ids and slots are reused.
- **Statistics.** `BookInv` says of every cell that NVS holds it, is excused, or
  that a recorder has still to write it from the live table (`PendingKey`) or with the
  present block count (`PendingLife`); at rest nothing is pending and
  `SavedAtRest` is left. `RecentInv` orders the times of the slots looked up since
  the restart, from which `JustLeftKept` follows; it needs two slots. `NoNewTwins` needs
  only types and what a lookup changes. `NoCountLost` (`CountsKept`): a value that was
  read for an increment is never below its counter when it is used
  (`CountInv`), because each counter has one task that raises it and eviction and
  reset only lower it. It is about slots in use: a restart in the middle of a slot's
  keys can load counters without a time of last use, and the next lookup
  zero-fills those.
- **SHA peripheral.** The invariant says what each word of the registers holds at each
  place of the miner (`pc`), by driver: which words of the next nonce are in place
  already and which are still those of the job. `HashesTrue` follows for any
  compression function, range and yield mask.
- **Settings.** `AckedInv`: each field of the running save's target is still to be
  written, or is in the flash and counted torn; every other field is in the flash
  as it was acknowledged unless torn. `LoginInv`: the boot count of an unprovisioned
  board is zero, unless the one fault came between the calls that clear the
  login, so no count survives into the next login. It needs `MaxFaults` <= 1; with two
  faults the property is false (section 5). `StoreImplemented` is the refinement:
  `Settings` implements `AckedStore` with its flash, copies and torn fields as they are
  and `up` once `config_init()` has run. A write of a key opens its field; the answer is
  a step of the abstract store because `AckedInv` puts the whole target into the flash
  by then; refusals and failed writes stutter.
- **Peer table.** `OffInv`: a request that will answer "off" still has both the
  stopping and the saving among its steps, or has done them, contains nothing that
  starts the protocol, and answers last; so nobody else's step between the
  two can make the answer untrue (`OffStaysOff`). `OwnInv`: the row of the
  device itself is known as its own and the table has a place for it, also between
  its eviction and its re-entry; the capacity is counted with the library's
  theorems on cardinalities (`OwnRowStays`).
- **Telemetry.** Modular arithmetic carries `RatesAreTrue`: the true advance since the
  last reading is below the modulus, so the difference of two readings modulo 2^w
  is that advance (`RateInv`, with an answer in flight between chip and task).
  `CreditBounded` counts with `Pending` what the next sample will add, and says that no more is
ever credited than `earned * (blind + 1)`, and no less than was earned until the statistics
are reset: a poll that missed the mutex sets the reading back to zero and so can credit
everything once more, but only once (`BoundGrows`, which multiplies the bound out). `CreditInv`
adds that the sum is what was earned. `WindowInv`
  bounds the age of each entry of each ring by the distance of its slot from the
  cursor, for the three rings that feed one another (`SlotsAgo`).

Only model-checked: the liveness properties (liveness under fairness and ENABLED are
outside the prover's reach) and what the violated run shows. Every safety invariant
and action property of the passing runs is proved. Only proved: `InactiveIsFlagged`,
`DiffKept` and `AnswersRouted`, which no run lists because `ChipRestarts` and
`BooksAgree` show their consequences; `ActiveConfigured` and `NoFallbackNoFailover`,
which are conditional; the type invariants no run lists; and
`CountsKept` and `ImplementsStore`, which TLC confirms on the instances of `ledger` and `settings`.

## 5. Where the code and its texts disagree

Kept as a violated run (`PROJECT.json`, findings): after a failover the primary is
dialled under the fallback's slot.

Stated in the modules and refuted by TLC, but not kept as runs:
- `Meter!CreditedOnceBlind`. On ASIC boards a poll that cannot get the mutex within
  2 ms takes the session's difficulty for zero (`asic_task.c:1094-1101`): that sample is
  zero, and the next one counts the whole session as earned in 5 s, which the averages
  show for an hour. `CreditBounded`, checked and proved, is what remains true. The timer of the other boards skips the sample. `mining_avg.h:28`
  "Computes the per-tick rate as (accepted_diff_sum - *prev_sum) * 2^32 / period_s".
- `MiningPause!GrantMeansParked` (waits may expire). An ack timeout withdraws the
  request without draining the semaphores (`mining_pause.c:35`), so the ack of a
  miner that had seen it stays behind, and a later `mining_pause()` takes it and
  returns true over a hashing miner. `main.c:608`: "Returns mining_pause()'s
  result so bb_ota_push only resumes if we actually paused".
- `StratumRpc!FirstShareIsShare` with late answers. After 5 s the id of
  `mining.extranonce.subscribe` is forgotten (`stratum_io.c:900`): a late `true`
  is booked as an accepted share and marks a pending image valid, although
  `ota_validator.h:9` says "Notify validator that a share was accepted."
- `WorkFlow!CleanAlwaysAbandons`. The clean mark is part of the one queue item; the
  next work overwrites it before the ASIC task looked, and stale jobs stay
  (`stratum_io.c:464` "mark clean to invalidate").
- `WorkFlow!ReverifyAgrees`. After a version roll the in-range swap takes over a new
  job but keeps the roll of the range (`mining.c:839`): the recompute is of another
  header, and every later share is dropped as corrupt. A roll needs a range of 2^32 nonces
  to be exhausted, hours during which no pool answers.
- `ShaEngine!PrimedOncePerJob`. After a yield at which another task used the
  peripheral, the words the per-job preparation put there are gone
  (`mining.c:829`); on AHB boards until the next job, on the classic ESP32 for the
  first nonce.
- `Settings!KeptToggles`. DELETE /api/pool/fallback, to "clear fallback slot"
  (`routes.c:771`), builds the primary anew without its toggles (784-789): it switches
  the primary's `decode_coinbase` off. The promotion by DELETE /api/pool/primary
  and the provisioning form ("Preserve any existing fallback config", 152) drop the
  toggles of the other slot.

Seen while modelling and not stated, because no text promises the opposite
or the effect is small:

*Pause and ASIC loop.* The register poll (`asic_task.c:1070`) acks a pause with the chips
hashing, without the quiesce of the loop's top. The `continue` on an empty queue
(565) skips the 5 s step of line 888, with fan control and voltage watchdog.
An in-place recovery leaves `s_chip_quiesced` up over running chips.
The result of `chip_resume()` is ignored (557). An ack that comes as the wait for it
expires leaves the miner parked for 5 minutes without an owner.

*Session.* PUT /api/pool during the handshake asks for no reconnect (`routes.c:668`).
DELETE primary is a no-op switch when slot 0 is active already; DELETE
fallback between sessions leaves the deleted slot active. A session that was
paused for 5 minutes reconnects as soon as it resumes. "with IP up"
(`stratum_io.c:693`) also counts failures without. `stratum.h:27` names a WiFi
event handler that does not call the function.

*Requests and validator.* A keepalive answered after the next one was sent is booked as a
share. `result: false` without an error books nothing. A failed
authorisation is only logged. The validator's timer keeps running across a
disconnect, and may be armed twice. A difficulty without a valid target makes the roll
`continue` (883) past the extranonce timeout and the keepalive.

*Work.* `set_extranonce` relies on the periodic roll (comment at 437), which non-ASIC
boards do not have: they keep the old extranonce until the next notify.
`set_difficulty` sends the same header again and resets the dedup ring, so the same
nonces are found and submitted twice; on the hashing boards a pause restarts the range
with the same effect. A share found on the previous session's work
can be submitted to the next session. The chip rolls versions
even if the pool granted no mask. Of 16 table slots 2 are in use; the
generation counter is written and never read.

*Statistics.* "Persists immediately" (`mining_pool_stats.h:49`, 65) and "the durable
'real solo wins ever' count" (`mining.h`, 205) hold only while nobody else is
saving: a share being saved carries the block count it was called with, and the
periodic save a snapshot, so a block recorded and persisted meanwhile is
overwritten, and lost if a restart comes before the next save. "The mutex from mining_stats
still guards all access" (`mining_pool_stats.c:47`), but lookup and recorders do
not take it. A lookup is persisted only with the first share, so after
evictions NVS may hold one pool in two slots, and a restart loads both. A reset during a session
clears the slot the session keeps counting in: its shares go to a slot without a name,
which a restart or the next connection drops. A miner that read the slot pointer before a
reconnect may credit its block to the next pool. `last_seen_us` counts from boot
and is persisted, so after a restart old slots look newer than new ones and
the pool just left may be evicted. `best_diff` is raised by the stratum task
without the mutex and by the miner under it, so the lower of two may stay.

*SHA peripheral.* The canary's verdict UNSAFE is only reported: mining goes on
with the overlapping kernel. A failed AHB lockstep test is only logged. The lockstep test
of the classic ESP32 tests `sha256_hw_dport_per_nonce()`, not the kernel the hot
loop runs. The benchmark runs also when its pause failed (`routes.c:2157`).

*Settings and boot.* "Set pools atomically" (`routes.c:670`), but key by key: a save cut
short leaves a pool of old and new fields, which the next boot takes as it is (the
`torn` fields of the model). A POST that is refused at `display_en` or `ota_skip_check` has saved
and cached the pools, and asks for no restart; an empty host name in a PATCH is answered "saved"
with a restart, and not saved (`routes.c:1376`). A PATCH that is refused at a later field has
saved the host name, and asks for no restart. Two failures, one while the fallback resets
the count and one after the next login was adopted, throw a fresh login away;
nothing in the repository resets the count after a successful join. The
autofan callback (`routes.c:915`) ignores failing saves. The routes are live before
`start_mining()` calls `mining_pause_init()` (`main.c:667`): a pause in that
window would use `s_ops` before it is set; the model has one phase for both.

*Telemetry.* "Let responses settle before aggregating" (`asic_task.c:1072`): the task that
waits is the one that would read them, so the sums are of the poll before. A
chip that stops answering keeps its last rate in the sum. `s_chip_meas` outlives a
restart of the chips, so the first rate after one may be too low. A rate uses
the time at which an answer is read: if the task was parked in between, one
rate is too low and the next may be too high. "pool reconnect resets sum"
(`mining_avg.c:69`), but only the reset of the statistics does. The log of dropped readings is
read by HTTP while the task writes it, so the newest entry may appear as the oldest.

*Knot.* If saving `mdns_en` = false fails, mDNS is down with the setting on
(`routes.c:1483`), and a later `knot_en` starts the browse over it. The comment at
1453 names an "mdns_en false->true && knot configured on" path that does not exist:
knot stays off until the next boot, where it starts. If the browse does not start,
a request goes on to take a mutex that is NULL. `knot_table_prune()` has no
caller, and a table filled before the own row is set never shows it.

*OTA hooks, display and LED.* If `mining_pause()` fails, the pause hook has switched
telemetry and the display off and no resume hook follows: they stay off until
another update is granted. The resume of an update check switches telemetry on
under a transfer whose pause failed. The display task tests
`s_display_quiesced` and then draws, so one frame may follow the switch; a display
disabled just after the resume hook looked at the setting, twice in a row, stays lit
(`s_was_off`). "heartbeat resumes on the next led_set_mining() call" (`main.c:650`), which
nobody makes after a block was found.

## 6. Abstractions and what is not modelled

- A hash is ideal: only the header it was found on recomputes to it. Merkle
  trees, targets and frame encodings are left to the host tests. `ShaKernel` has the words
  the kernels hash, not the rounds, the byte orders or the early reject.
- The dedup ring may drop any nonce; the ASIC answers are otherwise free.
- Sequence numbers do not wrap (32 bits, one step per work).
- A pool grants version rolling on hashing boards or not; ASIC boards
  always roll under their own mask, as the code does.
- An extranonce roll that `build_work()` refuses is left out: it only skips a value.
- An endpoint is one value to the session: host, port and credentials change together. In the
  settings a pool is three values: a save cut short between host and port, or between wallet,
  worker and password, would leave one more kind of mixture in fields that count as torn.
- `build_work()` refuses works without a valid target (`stratum_machine.c:315`), so the check of
  the ASIC task for one (`asic_task.c:569`) never holds and is left out.
- `knot_deinit()` always gets its mutex in 1 s: it and `knot_walk()`, which holds the mutex while it sends,
  are only called from requests, and these come one after the other; a callback holds it for a
  few comparisons and has 50 ms to end.
- The statistics leave out hashes (saved periodically only), best difficulty, wall-clock stamps and
  the sanitizer of corrupt values (`mining_pool_stats.c:122`, 152). The two words of a 64-bit time are
  one key: a time with an old high and a new low word is not seen (the high word is 0 for the
  first 71 minutes). A lookup and a snapshot are one step each, although nothing protects the
  one from the other.
- Corrupt reads of the SHA peripheral (dropped by the code) and the write canary of
  its chaining registers are not modelled.
- Settings leave out the clamping of values, the host name derived at boot (TA-405) and
  the boot-mode update; the early start of WiFi is taken not to restart before the
  fallback decision, or that decision could never be reached.
- A row of the peer table is its instance and host name; TXT fields and ages are left out.
- `Meter` has one counter of a chip for all six, no rounding, and reads every answer in the
  period of its poll; the published copies, the accessors and the drop log are left out.
- The display task and the LED are left out: nothing waits for them.
- Not modelled: the decision of the voltage watchdog (external library) and its persistence,
  chip initialisation, PLL, PID, drawing, LED,
  registration of library services, formatting handlers, and the tools outside the firmware.
  `PROJECT.json` gives the reason for each.

## 7. Plan

Done: pause, ASIC loop, session, requests with validator, work flow, statistics,
SHA peripheral, settings with boot, peer table, OTA hooks, telemetry.

1. In `PoolLedger`: `best_diff` with its two writers, hashes, the lookup in two
   steps. An abstract `Ledger` (books per pool; a restart may lose the end) as the
   specification it implements while no image is overtaken.
2. Core voltage watchdog persistence (burst count and fault hold) in `AsicLoop`;
   the dedup ring in `AsicJobs`.
3. The session of `StratumSession` over the fields of `Settings`: host, port and
   credentials read from two different edits.
4. The display task over `OtaHooks`.
5. Proofs: the refinement of the ledger; what a reload finds after a crash, key by key.
