--------------------------- MODULE StratumSession ---------------------------
(***************************************************************************)
(* The session life cycle of the stratum client: stratum_task() in         *)
(* components/stratum/src/stratum_io.c, from one connection attempt to the *)
(* next, with the backoff, the WiFi kick, the failover between the two     *)
(* pool slots, and the HTTP handlers of components/webui/src/routes.c that *)
(* edit the pools or ask for another one while the task runs.              *)
(*                                                                         *)
(* Messages are StratumRpc's subject, work items WorkFlow's: here a        *)
(* message is one that brings a job or not.  An endpoint is a model value: *)
(* the host, port and credentials of one pool.                             *)
(***************************************************************************)
EXTENDS Integers

CONSTANTS
  Pools,             \* endpoints a user may configure
  NoPool,            \* an unconfigured slot, no socket, no statistics slot
  HttpOps,           \* handlers in use: subset of {"put", "switch", "delFallback", "delPrimary"}
  FailoverThreshold, \* STRATUM_FAILOVER_THRESHOLD
  KickThreshold,     \* STRATUM_WIFI_KICK_THRESHOLD
  InitialDelay,      \* STRATUM_BACKOFF_INITIAL_MS
  DelayCap           \* STRATUM_BACKOFF_CAP_MS

ASSUME PoolAssumption == NoPool \notin Pools
ASSUME HttpAssumption == HttpOps \subseteq {"put", "switch", "delFallback", "delPrimary"}
ASSUME CountAssumption == /\ FailoverThreshold \in Nat \ {0}
                          /\ KickThreshold \in Nat \ {0}
                          /\ InitialDelay \in Nat \ {0}
                          /\ DelayCap \in Nat
                          /\ InitialDelay <= DelayCap

VARIABLES
  primary,    \* s_config.pools[0]
  fallback,   \* s_config.pools[1]
  pc,         \* where stratum_task() is
  answers,    \* whether that pool answers what it is sent
  sock,       \* the pool s_sock is connected to, or NoPool
  connected,  \* s_stratum_connected
  slot,       \* s_active_slot: the pool whose statistics this session feeds
  active,     \* s_active_pool_idx
  fails,      \* s_consecutive_fail_count, saturating at the threshold
  kicks,      \* s_wifi_kick_fail_count, saturating at the threshold
  reconnect,  \* s_reconnect_requested
  delay,      \* s_backoff.delay_ms
  hasIp,      \* bb_wifi_has_ip()
  paused,     \* mining_pause_pending()
  http        \* the handler the HTTP task is in

config == <<primary, fallback>>
session == <<answers, sock, connected, slot>>
env == <<hasIp, paused>>
vars == <<primary, fallback, pc, answers, sock, connected, slot, active, fails, kicks,
          reconnect, delay, hasIp, paused, http>>

Smaller(a, b) == IF a < b THEN a ELSE b

Idx == {0, 1}
SlotPool(i) == IF i = 0 THEN primary ELSE fallback
Configured(i) == SlotPool(i) # NoPool

\* "connect" stratum_connect()     "slot" connected, statistics slot not resolved
\* "subscribe", "authorize", "handshake" as the code's comments name them
\* "read" top of the main loop     "failover" third read error
\* "submit" result queue           "flag" reconnect flag
\* "watch" watchdogs, extranonce roll, keepalive
\* "close" label reconnect:        "clear" the rest of the cleanup
\* "sleep" the backoff delay
HandshakeLabels == {"slot", "subscribe", "authorize", "handshake"}
LoopLabels == {"read", "failover", "submit", "flag", "watch"}
Labels == {"connect", "close", "clear", "sleep"} \cup HandshakeLabels \cup LoopLabels

Idle == [op |-> "idle"]
HttpStates ==
  {Idle}
    \cup [op : {"put", "putSaved"}, active : {-1, 0, 1}]
    \cup [op : {"fallbackGone", "promoted"}]

TypeOK ==
  /\ primary \in Pools
  /\ fallback \in Pools \cup {NoPool}
  /\ pc \in Labels
  /\ answers \in BOOLEAN
  /\ sock \in Pools \cup {NoPool}
  /\ connected \in BOOLEAN
  /\ slot \in Pools \cup {NoPool}
  /\ active \in Idx
  /\ fails \in 0..FailoverThreshold
  /\ kicks \in 0..KickThreshold
  /\ reconnect \in BOOLEAN
  /\ delay \in InitialDelay..DelayCap
  /\ hasIp \in BOOLEAN
  /\ paused \in BOOLEAN
  /\ http \in HttpStates

Init ==
  /\ primary \in Pools
  /\ fallback \in Pools \cup {NoPool}
  /\ pc = "connect"
  /\ answers = FALSE
  /\ sock = NoPool
  /\ connected = FALSE
  /\ slot = NoPool
  /\ active = 0
  /\ fails = 0
  /\ kicks = 0
  /\ reconnect = FALSE
  /\ delay = InitialDelay
  /\ hasIp = TRUE
  /\ paused = FALSE
  /\ http = Idle

Goto(from, to) == pc = from /\ pc' = to

-----------------------------------------------------------------------------
(* Connecting *)

\* stratum_backoff_on_fail(): the task sleeps the old delay.
OnFail == delay' = IF delay < DelayCap THEN Smaller(2 * delay, DelayCap) ELSE delay

\* Mutant of ConnectFail: the count starts again at every failure.
ConnectFailForgets ==
  /\ Goto("connect", "sleep")
  /\ ~(kicks + 1 >= KickThreshold /\ hasIp)
  /\ kicks' = 0
  /\ OnFail
  /\ UNCHANGED <<config, session, active, fails, reconnect, env, http>>

\* No IP, no DNS answer, no socket, connection refused or timed out.
ConnectFail ==
  /\ Goto("connect", "sleep")
  /\ ~(kicks + 1 >= KickThreshold /\ hasIp)
  /\ kicks' = Smaller(kicks + 1, KickThreshold)
  /\ OnFail
  /\ UNCHANGED <<config, session, active, fails, reconnect, env, http>>

\* stratum_should_kick_wifi(): bb_wifi_force_reassociate() drops the
\* association, and with it the IP, for a while or not at all.
ConnectFailKick ==
  /\ Goto("connect", "sleep")
  /\ kicks + 1 >= KickThreshold /\ hasIp
  /\ kicks' = 0
  /\ hasIp' \in BOOLEAN
  /\ OnFail
  /\ UNCHANGED <<config, session, active, fails, reconnect, paused, http>>

\* The endpoint is config_pool_host(), config_pool_port(): the primary slot.
\* Something listens there; whether it talks is another matter.
ConnectOk ==
  /\ Goto("connect", "slot")
  /\ hasIp
  /\ sock' = primary
  /\ answers' \in BOOLEAN
  /\ kicks' = 0
  /\ delay' = InitialDelay
  /\ UNCHANGED <<config, connected, slot, active, fails, reconnect, env, http>>

ResolveSlot ==
  /\ Goto("slot", "subscribe")
  /\ slot' = SlotPool(active)
  /\ UNCHANGED <<config, answers, sock, connected, active, fails, kicks, reconnect, delay, env, http>>

-----------------------------------------------------------------------------
(* The handshake *)

\* configure, subscribe and its response with an extranonce1.
Subscribe ==
  /\ Goto("subscribe", "authorize")
  /\ answers
  /\ UNCHANGED <<config, session, active, fails, kicks, reconnect, delay, env, http>>

\* authorize, and extranonce.subscribe if slot `active' asks for it.
Authorize ==
  /\ Goto("authorize", "handshake")
  /\ UNCHANGED <<config, session, active, fails, kicks, reconnect, delay, env, http>>

\* Mutant of HandshakeFail: a timed-out subscribe waits for ever.
HandshakeFailStays ==
  /\ pc \in {"subscribe", "authorize", "handshake"}
  /\ pc' = IF pc = "subscribe" THEN "subscribe" ELSE "close"
  /\ UNCHANGED <<config, session, active, fails, kicks, reconnect, delay, env, http>>

\* Truncation, send error, read error, or no extranonce1 within 5 s.
HandshakeFail ==
  /\ pc \in {"subscribe", "authorize", "handshake"}
  /\ pc' = "close"
  /\ UNCHANGED <<config, session, active, fails, kicks, reconnect, delay, env, http>>

\* Mutant of HandshakeDone: a new session is taken for a recovered pool.
HandshakeDoneForgives ==
  /\ Goto("handshake", "read")
  /\ connected' = TRUE
  /\ delay' \in {delay, InitialDelay}
  /\ fails' = 0
  /\ UNCHANGED <<config, answers, sock, slot, active, kicks, reconnect, env, http>>

\* A job during the handshake resets the backoff, none is no obstacle.
HandshakeDone ==
  /\ Goto("handshake", "read")
  /\ connected' = TRUE
  /\ delay' \in {delay, InitialDelay}
  /\ UNCHANGED <<config, answers, sock, slot, active, fails, kicks, reconnect, env, http>>

-----------------------------------------------------------------------------
(* The main loop *)

\* A message (a job resets the backoff) or none within 100 ms.
Read ==
  /\ Goto("read", "submit")
  /\ ~paused
  /\ delay' \in {delay, InitialDelay}
  /\ UNCHANGED <<config, session, active, fails, kicks, reconnect, env, http>>

ReadError ==
  /\ pc = "read"
  /\ ~paused
  /\ pc' = IF fails + 1 >= FailoverThreshold THEN "failover" ELSE "close"
  /\ fails' = Smaller(fails + 1, FailoverThreshold)
  /\ UNCHANGED <<config, session, active, kicks, reconnect, delay, env, http>>

Failover ==
  /\ Goto("failover", "close")
  /\ IF Configured(1 - active) THEN active' = 1 - active /\ fails' = 0
     ELSE UNCHANGED <<active, fails>>
  /\ UNCHANGED <<config, session, kicks, reconnect, delay, env, http>>

Submit ==
  /\ pc = "submit"
  /\ pc' \in {"flag", "close"}   \* "close": the send of a share failed
  /\ UNCHANGED <<config, session, active, fails, kicks, reconnect, delay, env, http>>

\* Mutant of TestFlag: the flag is consumed without leaving the loop.
TestFlagSwallows ==
  /\ Goto("flag", "watch")
  /\ reconnect' = FALSE
  /\ UNCHANGED <<config, session, active, fails, kicks, delay, env, http>>

TestFlag ==
  /\ Goto("flag", IF reconnect THEN "close" ELSE "watch")
  /\ reconnect' = FALSE
  /\ UNCHANGED <<config, session, active, fails, kicks, delay, env, http>>

\* Job drought, share drought or a failed keepalive leave the loop.
Watch ==
  /\ pc = "watch"
  /\ pc' \in {"read", "close"}
  /\ UNCHANGED <<config, session, active, fails, kicks, reconnect, delay, env, http>>

-----------------------------------------------------------------------------
(* Label reconnect: *)

Close ==
  /\ Goto("close", "clear")
  /\ connected' = FALSE
  /\ UNCHANGED <<config, answers, sock, slot, active, fails, kicks, reconnect, delay, env, http>>

\* Mutant of Clear: the socket is not closed.
ClearLeaks ==
  /\ Goto("clear", "sleep")
  /\ slot' = NoPool
  /\ answers' = FALSE
  /\ OnFail
  /\ UNCHANGED <<config, sock, connected, active, fails, kicks, reconnect, env, http>>

Clear ==
  /\ Goto("clear", "sleep")
  /\ slot' = NoPool
  /\ sock' = NoPool
  /\ answers' = FALSE
  /\ OnFail
  /\ UNCHANGED <<config, connected, active, fails, kicks, reconnect, env, http>>

Sleep ==
  /\ Goto("sleep", "connect")
  /\ UNCHANGED <<config, session, active, fails, kicks, reconnect, delay, env, http>>

-----------------------------------------------------------------------------
(* The HTTP task: one handler at a time, interleaved with stratum_task() *)

ActiveIdx == IF connected THEN active ELSE -1   \* stratum_get_active_pool_idx()

\* stratum_request_switch_pool(i), for a caller that ignores its verdict.
RequestSwitch(i) ==
  IF Configured(i) /\ i # active
  THEN active' = i /\ fails' = 0 /\ reconnect' = TRUE
  ELSE UNCHANGED <<active, fails, reconnect>>

PutBegin ==
  /\ "put" \in HttpOps /\ http = Idle
  /\ http' = [op |-> "put", active |-> ActiveIdx]
  /\ UNCHANGED <<config, pc, session, active, fails, kicks, reconnect, delay, env>>

PutSave ==
  /\ http.op = "put"
  /\ \/ /\ primary' \in Pools
        /\ fallback' \in Pools \cup {NoPool}
        /\ http' = [op |-> "putSaved", active |-> http.active]
     \/ http' = Idle /\ UNCHANGED config   \* the flash write failed
  /\ UNCHANGED <<pc, session, active, fails, kicks, reconnect, delay, env>>

PutEnd ==
  /\ http.op = "putSaved"
  /\ IF http.active \in Idx THEN reconnect' = TRUE /\ kicks' = 0
     ELSE UNCHANGED <<reconnect, kicks>>
  /\ http' = Idle
  /\ UNCHANGED <<config, pc, session, active, fails, delay, env>>

Switch ==
  /\ "switch" \in HttpOps /\ http = Idle
  /\ \E i \in Idx : RequestSwitch(i)
  /\ UNCHANGED <<config, pc, session, kicks, delay, env, http>>

DeleteFallback ==
  /\ "delFallback" \in HttpOps /\ http = Idle
  /\ Configured(1)
  /\ fallback' = NoPool
  /\ http' = [op |-> "fallbackGone"]
  /\ UNCHANGED <<primary, pc, session, active, fails, kicks, reconnect, delay, env>>

DeleteFallbackEnd ==
  /\ http.op = "fallbackGone"
  /\ IF ActiveIdx = 1 THEN RequestSwitch(0)
     ELSE UNCHANGED <<active, fails, reconnect>>
  /\ http' = Idle
  /\ UNCHANGED <<config, pc, session, kicks, delay, env>>

DeletePrimary ==
  /\ "delPrimary" \in HttpOps /\ http = Idle
  /\ Configured(1)
  /\ primary' = fallback
  /\ fallback' = NoPool
  /\ http' = [op |-> "promoted"]
  /\ UNCHANGED <<pc, session, active, fails, kicks, reconnect, delay, env>>

DeletePrimaryEnd ==
  /\ http.op = "promoted"
  /\ RequestSwitch(0)
  /\ http' = Idle
  /\ UNCHANGED <<config, pc, session, kicks, delay, env>>

-----------------------------------------------------------------------------
(* The network and the mining pause *)

WifiUp == /\ hasIp' = TRUE
          /\ UNCHANGED <<config, pc, session, active, fails, kicks, reconnect, delay, paused, http>>

WifiDown == /\ hasIp' = FALSE
            /\ UNCHANGED <<config, pc, session, active, fails, kicks, reconnect, delay, paused, http>>

PauseBegin == /\ paused' = TRUE
              /\ UNCHANGED <<config, pc, session, active, fails, kicks, reconnect, delay, hasIp, http>>

PauseEnd == /\ paused' = FALSE
            /\ UNCHANGED <<config, pc, session, active, fails, kicks, reconnect, delay, hasIp, http>>

Handshaking == ResolveSlot \/ Subscribe \/ Authorize \/ HandshakeFail \/ HandshakeDone
InLoop == Read \/ ReadError \/ Failover \/ Submit \/ TestFlag \/ Watch
TaskNext == \/ ConnectOk \/ ConnectFail \/ ConnectFailKick
            \/ Handshaking \/ InLoop
            \/ Close \/ Clear \/ Sleep
HttpEnd == PutSave \/ PutEnd \/ DeleteFallbackEnd \/ DeletePrimaryEnd
HttpNext == PutBegin \/ Switch \/ DeleteFallback \/ DeletePrimary \/ HttpEnd
EnvNext == WifiUp \/ WifiDown \/ PauseBegin \/ PauseEnd

Next == TaskNext \/ HttpNext \/ EnvNext

Spec == Init /\ [][Next]_vars

(***************************************************************************)
(* Fairness: both tasks are scheduled, a handler that has begun ends, and  *)
(* the loop finds mining unpaused again and again (a pause ends, at the    *)
(* latest when the park of MiningPause expires, and the loop polls it      *)
(* every 500 ms).                                                          *)
(***************************************************************************)
Fairness == WF_vars(TaskNext) /\ WF_vars(HttpEnd) /\ SF_vars(Read \/ ReadError) /\ WF_vars(PauseEnd)

FairSpec == Spec /\ Fairness

-----------------------------------------------------------------------------
(* Safety *)

\* The socket, the connected flag and the statistics slot belong to a session:
\* every way out of one (ten gotos and breaks) passes the cleanup, so no
\* attempt starts with a socket or a slot of an earlier one.
SessionScoped ==
  /\ pc \in {"connect", "sleep"} => sock = NoPool /\ slot = NoPool
  /\ pc \in HandshakeLabels \cup LoopLabels => sock # NoPool
  /\ connected => pc \in LoopLabels \cup {"close"}

\* Without edits of the pools, neither a switch request nor a failover, racing
\* as they may, makes an unconfigured slot the active one.
ActiveConfigured == Configured(active)

\* A board without a fallback stays on slot 0, whatever fails.
NoFallbackNoFailover == [](fallback = NoPool) => [](active = 0)

(* Liveness *)

\* A reconnect asked for during a session ends that session.
ReconnectServed == (reconnect /\ connected) ~> ~connected

\* Whatever failed before, an IP that stays and a pool that accepts, answers
\* and hands out work every now and then are enough for another session.
PoolAnswersAgain == /\ SF_vars(ConnectOk /\ answers')
                    /\ SF_vars(Subscribe) /\ SF_vars(Authorize) /\ SF_vars(HandshakeDone)
SessionAgain == (<>[]hasIp /\ PoolAnswersAgain) => []<>connected

\* TA-440: connection attempts that keep failing with an IP get the WiFi
\* association rebuilt again and again.
ZombieKicked ==
  <>[](hasIp /\ pc \in {"connect", "sleep"}) => []<><<ConnectFailKick>>_vars

\* Pools that accept sessions and drop them are tried in turn: a pool that
\* drops every session does not stay the active slot for ever while another
\* one is configured.
FailoverMoves ==
  ([]<><<ReadError>>_vars /\ <>[](fallback # NoPool))
    => []<>(active = 0) /\ []<>(active = 1)

-----------------------------------------------------------------------------
(* What the repository says and the code does not do *)

\* stratum.h:77-78: stratum_active_pool_slot() is "the per-pool stats slot for
\* the current session": the pool that pays is the pool that is credited.
SlotIsSocket == connected => slot = sock
=============================================================================
