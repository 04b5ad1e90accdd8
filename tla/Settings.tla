------------------------------ MODULE Settings ------------------------------
(***************************************************************************)
(* The persistent settings and the boot sequence that depends on them:     *)
(* components/config/src/config.c (the store), the handlers of             *)
(* components/webui/src/routes.c that save settings, app_main() in         *)
(* src/main.c with boot_fallback_decision.h.                               *)
(*                                                                         *)
(* Every key is written on its own: a write may fail, and power may fail   *)
(* between two.  HTTP handlers run one at a time, in the HTTP task; the    *)
(* save it is in is `job'.  The keys of a pool are grouped by what they    *)
(* say: where ("host": host and port), as whom ("acct": wallet, worker and *)
(* password), how ("dcd": the two toggles; of these decode_coinbase is the *)
(* one whose default is not zero).  The host name stands for every setting *)
(* that is a single key.                                                   *)
(***************************************************************************)
EXTENDS Integers, Sequences

CONSTANTS
  Accounts,   \* pools a user may configure, each with an account
  Blank,      \* the empty string
  Names,      \* host names
  Derived,    \* the host name made from the worker name
  FailLimit,  \* BB_NV_CONFIG_BOOT_FAIL_THRESHOLD
  MaxFaults,  \* bound: power losses and failed flash writes in a behaviour
  MaxSaves    \* bound: requests to a running board that save something

ASSUME SettingsAssumption ==
  /\ Blank \notin Accounts \cup Names \cup {"right", "wrong"}
  /\ Derived \in Names
  /\ FailLimit \in Nat \ {0} /\ MaxFaults \in Nat /\ MaxSaves \in Nat

VARIABLES
  nvs,        \* the flash, by field
  cache,      \* s_config and the library's copies, by field
  acked,      \* what the user was last told is saved, by field
  torn,       \* fields that a save wrote and did not (yet) acknowledge
  job,        \* the save the HTTP task is in
  restartDue, \* deferred_restart_task() has been created
  phase,      \* where app_main() is
  asicReady,  \* asic_init() has run in this boot
  wifi,       \* the stored WiFi login: Blank, or whether it is right
  prov,       \* bb_nv_config_is_provisioned()
  count,      \* bb_nv_config_boot_count()
  validated,  \* bb_ota_is_validated()
  misses,     \* failed joins since the login was set
  faults,
  saves

store == <<nvs, cache, acked, torn>>
login == <<wifi, prov, count, misses>>
vars == <<nvs, cache, acked, torn, job, restartDue, phase, asicReady,
          wifi, prov, count, validated, misses, faults, saves>>

Slots == {0, 1}
PoolFields == Slots \X {"host", "acct", "dcd"}
HostName == <<2, "name">>
Fields == PoolFields \cup {HostName}

PoolCfg == [host : Accounts \cup {Blank}, acct : Accounts \cup {Blank}, dcd : BOOLEAN]
NoPool == [host |-> Blank, acct |-> Blank, dcd |-> TRUE]   \* a cleared slot
Cfg(p, d) == [host |-> p, acct |-> p, dcd |-> d]

\* Both slots as fields.
PoolsOf(first, second) == [k \in PoolFields |-> (IF k[1] = 0 THEN first ELSE second)[k[2]]]

Cached(i) == [f \in {"host", "acct", "dcd"} |-> cache[<<i, f>>]]

\* config_pool_configured()
Configured(i) == Cached(i).host # Blank /\ Cached(i).acct # Blank

NoJob == [todo |-> <<>>, target |-> <<>>, named |-> FALSE, good |-> TRUE, reboot |-> FALSE]
Idle == job = NoJob

\* "init" config_init() and the decision between network and access point
\* "forget", "unprovision", "recount" the three calls of that fallback
\* "asic" asic_init()               "ap" access point, its form is served
\* "formed" form saved              "adopt", "zero" set_provisioned, reset count
\* "reboot" bb_system_restart()     "join" joining the WiFi network
\* "mining" routes registered, start_mining() done
Phases == {"init", "forget", "unprovision", "recount", "asic", "ap", "formed",
           "adopt", "zero", "reboot", "join", "mining"}

TypeOK ==
  /\ \A rec \in {nvs, cache, acked} :
       /\ DOMAIN rec = Fields
       /\ \A i \in Slots : [f \in {"host", "acct", "dcd"} |-> rec[<<i, f>>]] \in PoolCfg
       /\ rec[HostName] \in Names \cup {Blank}
  /\ torn \subseteq Fields
  /\ restartDue \in BOOLEAN /\ phase \in Phases /\ asicReady \in BOOLEAN
  /\ wifi \in {Blank, "right", "wrong"} /\ prov \in BOOLEAN
  /\ count \in 0..FailLimit /\ validated \in BOOLEAN
  /\ misses \in 0..FailLimit /\ faults \in 0..MaxFaults /\ saves \in 0..MaxSaves

\* A board out of the box, flashed with an image that is validated or not.
Init ==
  /\ nvs = [k \in Fields |-> IF k = HostName THEN Blank ELSE NoPool[k[2]]]
  /\ cache = nvs
  /\ acked = nvs
  /\ torn = {}
  /\ job = NoJob
  /\ restartDue = FALSE
  /\ phase = "init"
  /\ asicReady = FALSE
  /\ wifi = Blank
  /\ prov = FALSE
  /\ count = 0
  /\ validated \in BOOLEAN
  /\ misses = 0
  /\ faults = 0
  /\ saves = 0

Fault == faults < MaxFaults /\ faults' = faults + 1
Goto(from, to) == phase = from /\ phase' = to

-----------------------------------------------------------------------------
(* The store *)

\* save_pool_slot() for both slots: the order of config_set_pools().
PoolOrder == <<<<0, "host">>, <<0, "acct">>, <<0, "dcd">>,
               <<1, "host">>, <<1, "acct">>, <<1, "dcd">>>>

\* rec with the fields of target.
With(rec, target) == [k \in Fields |-> IF k \in DOMAIN target THEN target[k] ELSE rec[k]]

Start(todo, target, named, good, reboot) ==
  /\ Idle
  /\ job' = [todo |-> todo, target |-> target, named |-> named, good |-> good, reboot |-> reboot]
  /\ UNCHANGED <<store, restartDue, phase, asicReady, login, validated, faults>>

\* Mutant of WriteKey: s_config is updated with every key.
WriteKeyCaches ==
  /\ job.todo # <<>>
  /\ LET k == Head(job.todo) IN
       /\ nvs' = [nvs EXCEPT ![k] = job.target[k]]
       /\ cache' = With(cache, job.target)
       /\ torn' = torn \cup {k}
  /\ job' = [job EXCEPT !.todo = Tail(job.todo)]
  /\ UNCHANGED <<acked, restartDue, phase, asicReady, login, validated, faults, saves>>

\* One bb_nv_set_*().  The pools reach s_config with the last of their keys, before
\* the handler goes on; any other setting as soon as its key is written.
WriteKey ==
  /\ job.todo # <<>>
  /\ LET k == Head(job.todo) IN
       /\ nvs' = [nvs EXCEPT ![k] = job.target[k]]
       /\ cache' = IF Tail(job.todo) = <<>> THEN With(cache, job.target)
                   ELSE IF k = HostName THEN [cache EXCEPT ![k] = job.target[k]]
                   ELSE cache
       /\ torn' = torn \cup {k}
  /\ job' = [job EXCEPT !.todo = Tail(job.todo)]
  /\ UNCHANGED <<acked, restartDue, phase, asicReady, login, validated, faults, saves>>

\* The flash refused a key: the handler answers 500, what is written stays.
WriteFails ==
  /\ job.todo # <<>>
  /\ Fault
  /\ job' = NoJob
  /\ UNCHANGED <<store, restartDue, phase, asicReady, login, validated, saves>>

\* A later field of the same request is refused: 400 or 500, and no restart.  What
\* was written before stays, in the flash and in the copies.
Refuse ==
  /\ ~Idle /\ job.todo = <<>> /\ ~job.good
  /\ job' = NoJob
  /\ UNCHANGED <<store, restartDue, phase, asicReady, login, validated, faults, saves>>

\* The user is told, and a restart is scheduled if the change needs one.  The form
\* of the access point ends provisioning.
Acknowledge ==
  /\ ~Idle /\ job.todo = <<>> /\ job.good
  /\ acked' = With(acked, job.target)
  /\ torn' = torn \ DOMAIN job.target
  /\ job' = NoJob
  /\ restartDue' = (restartDue \/ job.reboot)
  /\ IF phase = "ap" THEN /\ phase' = "formed"
                          /\ wifi' \in {"right", "wrong"}
                          /\ misses' = 0
     ELSE UNCHANGED <<phase, wifi, misses>>
  /\ UNCHANGED <<nvs, cache, asicReady, prov, count, validated, faults, saves>>

-----------------------------------------------------------------------------
(* The handlers *)

\* A pool_cfg_t that starts as {0} and gets every field but the toggles.
Untoggled(c) == [c EXCEPT !.dcd = FALSE]

\* A fallback that is not configured is handed on as NULL, which clears it.
Kept(c) == IF Configured(1) THEN c ELSE NoPool

\* taipan_prov_save_cb(), the form of the access point.
ProvSave ==
  /\ phase = "ap"
  /\ \E p \in Accounts :
       LET pools == PoolsOf(Untoggled(Cfg(p, TRUE)), Kept(Untoggled(Cached(1)))) IN
       Start(<<HostName>> \o PoolOrder, [k \in Fields |-> IF k = HostName THEN Derived ELSE pools[k]],
             FALSE, TRUE, FALSE)
  /\ UNCHANGED saves

\* A request to the server of a running board.
Request == /\ phase = "mining"
           /\ saves < MaxSaves /\ saves' = saves + 1

SetPools(first, second, named, good, reboot) ==
  Start(PoolOrder, PoolsOf(first, second), named, good, reboot)

\* POST /api/settings: config_set_pool() keeps the toggles of slot 0; the new
\* pool needs a restart, which is left out if display_en or ota_skip_check, saved
\* after it, is refused.
PostSettings ==
  /\ Request
  /\ \E p \in Accounts, good \in BOOLEAN :
       LET new == Cfg(p, Cached(0).dcd) IN
       /\ new # Cached(0)
       /\ SetPools(new, Kept(Cached(1)), FALSE, good, TRUE)

\* PATCH /api/settings: a field that is refused after others were written
\* leaves them written; only some settings need the restart.  An empty host name
\* is not saved, but it is a change, answered with a restart.
PatchSettings ==
  /\ Request
  /\ \E good \in BOOLEAN :
       \/ \E n \in Names \ {cache[HostName]}, reboot \in BOOLEAN :
            Start(<<HostName>>, [k \in {HostName} |-> n], FALSE, good, reboot)
       \/ cache[HostName] # Blank /\ Start(<<>>, <<>>, FALSE, good, TRUE)

\* PUT /api/pool: toggles the request names are switched, the others kept.
PutPool ==
  /\ Request
  /\ \E p \in Accounts, q \in Accounts \cup {Blank}, named \in BOOLEAN :
       LET toggle(i) == IF named THEN ~Cached(i).dcd ELSE Cached(i).dcd IN
       SetPools(Cfg(p, toggle(0)), IF q = Blank THEN NoPool ELSE Cfg(q, toggle(1)), named, TRUE, FALSE)

\* DELETE /api/pool/fallback
DeleteFallback ==
  /\ Request /\ Configured(1)
  /\ SetPools(Untoggled(Cached(0)), NoPool, FALSE, TRUE, FALSE)

\* DELETE /api/pool/primary: the fallback becomes the primary.
DeletePrimary ==
  /\ Request /\ Configured(1)
  /\ SetPools(Untoggled(Cached(1)), NoPool, FALSE, TRUE, FALSE)

-----------------------------------------------------------------------------
(* Boot *)

\* What a restart leaves is the flash.
Restarted ==
  /\ phase' = "init"
  /\ job' = NoJob
  /\ restartDue' = FALSE
  /\ asicReady' = FALSE
  /\ UNCHANGED <<store, wifi, prov, saves>>

PowerLoss == Fault /\ Restarted /\ UNCHANGED <<count, misses, validated>>

\* deferred_restart_task(), half a second after its request was answered,
\* whatever the HTTP task is in by then.
DeferredRestart == restartDue /\ Restarted /\ UNCHANGED <<count, misses, validated, faults>>

\* Mutant of ShouldFallBack: the validated images are the ones that fall back.
ShouldFallBackValidated == count >= FailLimit /\ prov /\ validated

\* should_fall_back_to_ap()
ShouldFallBack == count >= FailLimit /\ prov /\ ~validated

\* config_init() reads every field back; then app_main() decides.
ConfigInit ==
  /\ Goto("init", IF ShouldFallBack THEN "forget" ELSE "asic")
  /\ cache' = nvs
  /\ UNCHANGED <<nvs, acked, torn, job, restartDue, asicReady, login, validated, faults, saves>>

\* bb_nv_config_clear_wifi(), _clear_provisioned(), _reset_boot_count(): the
\* results are not looked at.
Forget ==
  /\ Goto("forget", "unprovision")
  /\ \/ wifi' = Blank /\ misses' = 0 /\ UNCHANGED faults
     \/ Fault /\ UNCHANGED <<wifi, misses>>
  /\ UNCHANGED <<store, job, restartDue, asicReady, prov, count, validated, saves>>

Unprovision ==
  /\ Goto("unprovision", "recount")
  /\ \/ prov' = FALSE /\ UNCHANGED faults
     \/ Fault /\ UNCHANGED prov
  /\ UNCHANGED <<store, job, restartDue, asicReady, wifi, count, misses, validated, saves>>

\* Mutant of Recount: the count is left for provisioning to reset.
RecountNot ==
  /\ Goto("recount", "asic")
  /\ UNCHANGED <<store, job, restartDue, asicReady, login, validated, faults, saves>>

Recount ==
  /\ Goto("recount", "asic")
  /\ \/ count' = 0 /\ UNCHANGED faults
     \/ Fault /\ UNCHANGED count
  /\ UNCHANGED <<store, job, restartDue, asicReady, wifi, prov, misses, validated, saves>>

\* asic_init() runs before the network, if provisioned; then the mode is chosen.
InitAsic ==
  /\ Goto("asic", IF prov THEN "join" ELSE "ap")
  /\ asicReady' = prov
  /\ UNCHANGED <<store, job, restartDue, login, validated, faults, saves>>

\* bb_wifi_init_sta() with the login of the form; if it fails the access point
\* is opened again.
StaConnect ==
  /\ phase = "formed"
  /\ phase' \in IF wifi = "right" THEN {"adopt", "ap"} ELSE {"ap"}
  /\ UNCHANGED <<store, job, restartDue, asicReady, login, validated, faults, saves>>

Adopt ==
  /\ Goto("adopt", "zero")
  /\ \/ prov' = TRUE /\ UNCHANGED faults
     \/ Fault /\ UNCHANGED prov
  /\ UNCHANGED <<store, job, restartDue, asicReady, wifi, count, misses, validated, saves>>

Zero ==
  /\ Goto("zero", "reboot")
  /\ \/ count' = 0 /\ UNCHANGED faults
     \/ Fault /\ UNCHANGED count
  /\ UNCHANGED <<store, job, restartDue, asicReady, wifi, prov, misses, validated, saves>>

\* Mutant of Reboot: TA-225, provisioning goes on into mining.
RebootInProcess ==
  /\ Goto("reboot", "mining")
  /\ UNCHANGED <<store, job, restartDue, asicReady, login, validated, faults, saves>>

\* Mining begins with a boot of its own.
Reboot == phase = "reboot" /\ Restarted /\ UNCHANGED <<count, misses, validated, faults>>

\* The routes are registered and start_mining() starts the tasks.
Join ==
  /\ Goto("join", "mining")
  /\ wifi = "right"
  /\ UNCHANGED <<store, job, restartDue, asicReady, login, validated, faults, saves>>

\* The library's join times out: it counts and restarts.
JoinTimeout ==
  /\ phase = "join"
  /\ Restarted
  /\ count' = IF count < FailLimit THEN count + 1 ELSE count
  /\ misses' = IF misses < FailLimit THEN misses + 1 ELSE misses
  /\ UNCHANGED <<validated, faults>>

-----------------------------------------------------------------------------
(* The world: a first share validates the image, an update restarts into one *)
(* that is not, the network changes its password.                            *)

Validate ==
  /\ phase = "mining" /\ ~validated
  /\ validated' = TRUE
  /\ UNCHANGED <<store, job, restartDue, phase, asicReady, login, faults, saves>>

Update ==
  /\ phase = "mining" /\ validated
  /\ Restarted
  /\ validated' = FALSE
  /\ UNCHANGED <<count, misses, faults>>

NewPassword ==
  /\ wifi = "right"
  /\ wifi' = "wrong"
  /\ UNCHANGED <<store, job, restartDue, phase, asicReady, prov, count, misses, validated, faults, saves>>

BootNext == \/ ConfigInit \/ Forget \/ Unprovision \/ Recount \/ InitAsic
            \/ StaConnect \/ Adopt \/ Zero \/ Reboot \/ Join \/ JoinTimeout
HandlerNext == \/ ProvSave \/ PostSettings \/ PatchSettings \/ PutPool
               \/ DeleteFallback \/ DeletePrimary
JobNext == WriteKey \/ WriteFails \/ Refuse \/ Acknowledge

Next == \/ BootNext \/ HandlerNext \/ JobNext
        \/ PowerLoss \/ DeferredRestart
        \/ Validate \/ Update \/ NewPassword

Spec == Init /\ [][Next]_vars

\* app_main() runs and a join succeeds or times out.
FairSpec == Spec /\ WF_vars(BootNext)

-----------------------------------------------------------------------------
\* An acknowledged setting survives power losses, refused requests and the
\* failed writes of other saves: a field that no unacknowledged save has
\* written since is in the flash and in the copies the program works with.
AckedSurvives ==
  \A k \in Fields \ torn :
    /\ nvs[k] = acked[k]
    /\ phase # "init" => cache[k] = acked[k]

\* Seen from outside, the settings are a store whose answers can be relied on.
Promise == INSTANCE AckedStore WITH flash <- nvs, told <- acked, used <- cache,
                                    open <- torn, up <- (phase # "init")
ImplementsStore == Promise!Spec

\* A WiFi login is not thrown away before FailLimit joins with it have failed.
LoginKept == [][wifi # Blank /\ wifi' = Blank => misses >= FailLimit]_vars

\* TA-225: in every boot the tasks start over an initialised ASIC.
AsicBeforeTasks == phase = "mining" => asicReady

\* A board whose login does not work any more, with an image that has not
\* proved itself, opens its access point again.
ApAgain ==
  (phase = "join" /\ ~validated /\ [](wifi # "right")) ~> (phase = "ap")

\* routes.c:771: DELETE /api/pool/fallback is to "clear fallback slot", and
\* PUT preserves what its request does not name: a request that names no
\* toggles leaves those of a pool that stays in its slot.
KeptToggles ==
  [][\A i \in Slots :
       WriteKey /\ phase = "mining" /\ ~job.named /\ Configured(i)
         /\ Cached(i)'.host = Cached(i).host /\ Cached(i)'.acct = Cached(i).acct
       => Cached(i)'.dcd = Cached(i).dcd]_vars
=============================================================================
