------------------------ MODULE StratumSessionProofs ------------------------
(***************************************************************************)
(* Proofs about StratumSession, for any endpoints, thresholds and delays.  *)
(***************************************************************************)
EXTENDS StratumSession, TLAPS

-----------------------------------------------------------------------------
(* The session's socket, flag and slot follow the task's position. *)

\* Each attempt starts with no socket and no slot, each session has a socket
\* and connected is up inside a session only, for every path to the cleanup.
THEOREM SessionScope == Spec => []SessionScoped
<1> DEFINE Inv == /\ SessionScoped
                  /\ primary # NoPool
                  /\ pc = "clear" => ~connected
<1>1. Init => Inv
  BY PoolAssumption
  DEF Init, SessionScoped, HandshakeLabels, LoopLabels, Idle
<1>2. Inv /\ [Next]_vars => Inv'
  <2> SUFFICES ASSUME Inv, [Next]_vars PROVE Inv'
    OBVIOUS
  <2> USE PoolAssumption
      DEF SessionScoped, HandshakeLabels, LoopLabels, Goto, config, session, env
  <2>1. CASE TaskNext
    <3>1. CASE ConnectOk
      BY <3>1 DEF ConnectOk
    <3>5. CASE ConnectFail \/ ConnectFailKick
      <4>1. pc = "connect" /\ pc' = "sleep" /\ UNCHANGED <<primary, sock, connected, slot, http>>
        BY <3>5 DEF ConnectFail, ConnectFailKick
      <4> QED
        BY <4>1
    <3>2. CASE Handshaking
      BY <3>2 DEF Handshaking, ResolveSlot, Subscribe, Authorize, HandshakeFail, HandshakeDone
    <3>3. CASE InLoop
      BY <3>3 DEF InLoop, Read, ReadError, Failover, Submit, TestFlag, Watch
    <3>4. CASE Close \/ Clear \/ Sleep
      BY <3>4 DEF Close, Clear, Sleep
    <3> QED
      BY <2>1, <3>1, <3>2, <3>3, <3>4, <3>5 DEF TaskNext
  <2>2. CASE HttpNext
    <3>1. CASE PutBegin
      BY <3>1 DEF PutBegin
    <3>2. CASE PutSave
      BY <3>2 DEF PutSave, Idle
    <3>3. CASE Switch \/ PutEnd
      BY <3>3 DEF Switch, PutEnd, Idle
    <3>4. CASE DeleteFallback \/ DeleteFallbackEnd \/ DeletePrimary \/ DeletePrimaryEnd
      BY <3>4 DEF DeleteFallback, DeleteFallbackEnd, DeletePrimary, DeletePrimaryEnd,
                  Configured, SlotPool, Idle
    <3> QED
      BY <2>2, <3>1, <3>2, <3>3, <3>4 DEF HttpNext, HttpEnd
  <2>3. CASE EnvNext
    BY <2>3 DEF EnvNext, WifiUp, WifiDown, PauseBegin, PauseEnd
  <2>4. CASE UNCHANGED vars
    BY <2>4 DEF vars
  <2> QED
    BY <2>1, <2>2, <2>3, <2>4 DEF Next
<1> QED
  BY <1>1, <1>2, PTL DEF Spec

-----------------------------------------------------------------------------
(* Switch requests against failovers. *)

\* When the pools are not edited, no race of switch requests and failovers
\* makes an unconfigured slot the active one: both look before they switch,
\* and what they look at does not change.
THEOREM ActiveStaysConfigured ==
  ASSUME HttpOps \subseteq {"switch"}
  PROVE Spec => []ActiveConfigured
<1> DEFINE Inv == /\ primary # NoPool
                  /\ http = Idle
                  /\ active \in Idx
                  /\ ActiveConfigured
<1> USE DEF ActiveConfigured, Configured, SlotPool, Idx, Idle
<1>1. Init => Inv
  BY PoolAssumption DEF Init
<1>2. Inv /\ [Next]_vars => Inv'
  <2> SUFFICES ASSUME Inv, [Next]_vars PROVE Inv'
    OBVIOUS
  <2> USE DEF Goto, config, session, env
  <2>1. CASE Failover
    BY <2>1 DEF Failover
  <2>2. CASE Switch
    BY <2>2 DEF Switch, RequestSwitch
  <2>3. CASE TaskNext /\ ~Failover
    <3>1. UNCHANGED <<primary, fallback, active, http>>
      BY <2>3 DEF TaskNext, ConnectOk, ConnectFail, ConnectFailKick,
         Handshaking, ResolveSlot, Subscribe, Authorize, HandshakeFail, HandshakeDone,
         InLoop, Read, ReadError, Submit, TestFlag, Watch, Close, Clear, Sleep
    <3> QED
      BY <3>1
  <2>4. CASE HttpNext /\ ~Switch
    BY <2>4, HttpAssumption
    DEF HttpNext, HttpEnd, PutBegin, PutSave, PutEnd, DeleteFallback, DeleteFallbackEnd,
        DeletePrimary, DeletePrimaryEnd
  <2>5. CASE EnvNext
    BY <2>5 DEF EnvNext, WifiUp, WifiDown, PauseBegin, PauseEnd
  <2>6. CASE UNCHANGED vars
    BY <2>6 DEF vars
  <2> QED
    BY <2>1, <2>2, <2>3, <2>4, <2>5, <2>6 DEF Next
<1> QED
  BY <1>1, <1>2, PTL DEF Spec

\* A board without a fallback stays on slot 0, whatever fails and whatever the
\* handlers ask for: every switch looks whether the other slot is configured.
THEOREM NoFallbackStays == Spec => NoFallbackNoFailover
<1> USE DEF Configured, SlotPool, Idx
<1>1. Init => active = 0
  BY DEF Init
<1>2. active = 0 /\ fallback = NoPool /\ [Next]_vars => (active = 0)'
  <2> SUFFICES ASSUME active = 0, fallback = NoPool, [Next]_vars PROVE active' = 0
    OBVIOUS
  <2> USE DEF Goto, config, session, env
  <2>1. CASE Failover
    BY <2>1 DEF Failover
  <2>2. CASE Switch \/ DeleteFallbackEnd \/ DeletePrimaryEnd
    BY <2>2 DEF Switch, DeleteFallbackEnd, DeletePrimaryEnd, RequestSwitch
  <2>3. CASE TaskNext /\ ~Failover
    BY <2>3 DEF TaskNext, ConnectOk, ConnectFail, ConnectFailKick,
       Handshaking, ResolveSlot, Subscribe, Authorize, HandshakeFail, HandshakeDone,
       InLoop, Read, ReadError, Submit, TestFlag, Watch, Close, Clear, Sleep
  <2>4. CASE PutBegin \/ PutSave \/ PutEnd \/ DeleteFallback \/ DeletePrimary
    BY <2>4 DEF PutBegin, PutSave, PutEnd, DeleteFallback, DeletePrimary
  <2>5. CASE EnvNext
    BY <2>5 DEF EnvNext, WifiUp, WifiDown, PauseBegin, PauseEnd
  <2>6. CASE UNCHANGED vars
    BY <2>6 DEF vars
  <2> QED
    BY <2>1, <2>2, <2>3, <2>4, <2>5, <2>6 DEF Next, HttpNext, HttpEnd
<1>3. Spec /\ [](fallback = NoPool) => [](active = 0)
  BY <1>1, <1>2, PTL DEF Spec
<1> QED
  BY <1>3, PTL DEF NoFallbackNoFailover

\* Where the pool that is credited is the pool that is dialled: on a board that
\* never has a fallback, while the primary is not edited.  With a fallback it is
\* not, which is what the run session_slot shows.
THEOREM SlotIsSocketAlone ==
  ASSUME HttpOps \cap {"put", "delPrimary"} = {}
  PROVE  Spec /\ [](fallback = NoPool) => []SlotIsSocket
<1> DEFINE Dialled == /\ http.op \notin {"put", "putSaved", "promoted"}
                      /\ pc \in {"subscribe", "authorize", "handshake"} \cup LoopLabels \cup {"close"}
                           => sock = primary /\ slot \in {primary, NoPool}
                      /\ pc \in {"subscribe", "authorize", "handshake"} \cup LoopLabels => slot = primary
                      /\ pc = "slot" => sock = primary
                      /\ connected => slot = primary /\ pc \in LoopLabels \cup {"close"}
<1>1. Init => Dialled
  BY DEF Init, LoopLabels, Idle
<1>2. Dialled /\ active = 0 /\ [Next]_vars => Dialled'
  <2> SUFFICES ASSUME Dialled, active = 0, [Next]_vars PROVE Dialled'
    OBVIOUS
  <2> USE DEF Goto, config, session, env, LoopLabels
  <2>1. CASE ConnectOk \/ ConnectFail \/ ConnectFailKick
    BY <2>1 DEF ConnectOk, ConnectFail, ConnectFailKick
  <2>2. CASE Handshaking
    BY <2>2 DEF Handshaking, ResolveSlot, Subscribe, Authorize, HandshakeFail, HandshakeDone, SlotPool
  <2>3. CASE InLoop
    BY <2>3 DEF InLoop, Read, ReadError, Failover, Submit, TestFlag, Watch
  <2>4. CASE Close \/ Clear \/ Sleep
    BY <2>4 DEF Close, Clear, Sleep
  <2>5. CASE Switch \/ DeleteFallback \/ DeleteFallbackEnd
    BY <2>5 DEF Switch, DeleteFallback, DeleteFallbackEnd, Idle
  <2>6. ~(PutBegin \/ PutSave \/ PutEnd \/ DeletePrimary \/ DeletePrimaryEnd)
    BY DEF PutBegin, PutSave, PutEnd, DeletePrimary, DeletePrimaryEnd
  <2>7. CASE EnvNext
    BY <2>7 DEF EnvNext, WifiUp, WifiDown, PauseBegin, PauseEnd
  <2>8. CASE UNCHANGED vars
    BY <2>8 DEF vars
  <2> QED
    BY <2>1, <2>2, <2>3, <2>4, <2>5, <2>6, <2>7, <2>8 DEF Next, TaskNext, HttpNext, HttpEnd
<1>3. Dialled => SlotIsSocket
  BY DEF SlotIsSocket, LoopLabels
<1>4. Spec /\ [](fallback = NoPool) => [](active = 0)
  BY NoFallbackStays, PTL DEF NoFallbackNoFailover
<1> HIDE DEF Dialled
<1>5. Spec /\ [](active = 0) => []SlotIsSocket
  BY <1>1, <1>2, <1>3, PTL DEF Spec
<1> QED
  BY <1>4, <1>5, PTL

-----------------------------------------------------------------------------
(* Types *)

\* stratum_backoff_on_fail() stays between the first delay and the cap.
LEMMA OnFailBounded ==
  ASSUME delay \in InitialDelay..DelayCap, OnFail
  PROVE  delay' \in InitialDelay..DelayCap
BY CountAssumption DEF OnFail, Smaller

\* Both counts saturate at their thresholds.
LEMMA CountSaturates ==
  ASSUME NEW n \in Nat, NEW top \in Nat
  PROVE  Smaller(n + 1, top) \in 0..top
BY DEF Smaller

\* What the HTTP task is in keeps its type.
LEMMA HttpTyped ==
  /\ Idle \in HttpStates
  /\ \A a \in {-1, 0, 1} : /\ [op |-> "put", active |-> a] \in HttpStates
                            /\ [op |-> "putSaved", active |-> a] \in HttpStates
  /\ [op |-> "fallbackGone"] \in HttpStates /\ [op |-> "promoted"] \in HttpStates
  /\ \A h \in HttpStates : h.op = "put" => h.active \in {-1, 0, 1}
BY DEF HttpStates, Idle

\* Every variable keeps its type: the delay stays under its cap, the two counts
\* under their thresholds, and the first slot is always configured.
THEOREM TypeCorrect == Spec => []TypeOK
<1>1. Init => TypeOK
  <2> SUFFICES ASSUME Init PROVE TypeOK
    OBVIOUS
  <2>1. http \in HttpStates
    BY HttpTyped DEF Init
  <2>2. /\ fails \in 0..FailoverThreshold /\ kicks \in 0..KickThreshold
        /\ delay \in InitialDelay..DelayCap
    BY CountAssumption DEF Init
  <2> QED
    BY <2>1, <2>2 DEF Init, TypeOK, Labels, Idx
<1>2. TypeOK /\ [Next]_vars => TypeOK'
  <2> SUFFICES ASSUME TypeOK, [Next]_vars PROVE TypeOK'
    OBVIOUS
  <2> USE DEF TypeOK, Labels, HandshakeLabels, LoopLabels, Goto, config, session, env
  <2>0. InitialDelay \in InitialDelay..DelayCap /\ 0 \in 0..FailoverThreshold /\ 0 \in 0..KickThreshold
    BY CountAssumption
  <2>1. CASE ConnectOk
    BY <2>0, <2>1 DEF ConnectOk
  <2>2. CASE ConnectFail \/ ConnectFailKick
    <3>1. delay' \in InitialDelay..DelayCap
      BY <2>2, OnFailBounded DEF ConnectFail, ConnectFailKick
    <3>2. kicks' \in 0..KickThreshold
      <4>1. kicks \in Nat /\ KickThreshold \in Nat
        BY CountAssumption
      <4>2. Smaller(kicks + 1, KickThreshold) \in 0..KickThreshold
        BY <4>1, CountSaturates
      <4> QED
        BY <2>0, <2>2, <4>2 DEF ConnectFail, ConnectFailKick
    <3> QED
      BY <2>2, <3>1, <3>2 DEF ConnectFail, ConnectFailKick
  <2>3. CASE Handshaking
    BY <2>0, <2>3 DEF Handshaking, ResolveSlot, Subscribe, Authorize, HandshakeFail, HandshakeDone, SlotPool
  <2>4. CASE Read \/ Submit \/ TestFlag \/ Watch
    BY <2>0, <2>4 DEF Read, Submit, TestFlag, Watch
  <2>5. CASE ReadError
    <3>1. fails \in Nat /\ FailoverThreshold \in Nat
      BY CountAssumption
    <3>2. Smaller(fails + 1, FailoverThreshold) \in 0..FailoverThreshold
      BY <3>1, CountSaturates
    <3> QED
      BY <2>5, <3>2 DEF ReadError
  <2>6. CASE Failover
    BY <2>0, <2>6 DEF Failover, Idx
  <2>7. CASE Close \/ Sleep
    BY <2>7 DEF Close, Sleep
  <2>8. CASE Clear
    BY <2>8, OnFailBounded DEF Clear
  <2>9. CASE PutBegin
    <3>1. ActiveIdx \in {-1, 0, 1}
      BY DEF ActiveIdx, Idx
    <3> QED
      BY <2>9, <3>1, HttpTyped DEF PutBegin
  <2>10. CASE PutSave
    BY <2>10, HttpTyped DEF PutSave
  <2>11. CASE PutEnd
    BY <2>0, <2>11, HttpTyped DEF PutEnd
  <2>12. CASE Switch \/ DeleteFallbackEnd \/ DeletePrimaryEnd
    <3>1. /\ active' \in Idx /\ fails' \in 0..FailoverThreshold /\ reconnect' \in BOOLEAN
      BY <2>0, <2>12 DEF Switch, DeleteFallbackEnd, DeletePrimaryEnd, RequestSwitch, Idx
    <3>2. http' \in HttpStates /\ UNCHANGED <<config, pc, session, kicks, delay, env>>
      BY <2>12, HttpTyped DEF Switch, DeleteFallbackEnd, DeletePrimaryEnd
    <3> QED
      BY <3>1, <3>2
  <2>13. CASE DeleteFallback \/ DeletePrimary
    BY <2>13, HttpTyped DEF DeleteFallback, DeletePrimary, Configured, SlotPool
  <2>14. CASE EnvNext
    BY <2>14 DEF EnvNext, WifiUp, WifiDown, PauseBegin, PauseEnd
  <2>15. CASE UNCHANGED vars
    BY <2>15 DEF vars
  <2> QED
    BY <2>1, <2>2, <2>3, <2>4, <2>5, <2>6, <2>7, <2>8, <2>9, <2>10, <2>11, <2>12, <2>13, <2>14, <2>15
    DEF Next, TaskNext, InLoop, HttpNext, HttpEnd
<1> QED
  BY <1>1, <1>2, PTL DEF Spec
=============================================================================
