--------------------------- MODULE SettingsProofs ---------------------------
(***************************************************************************)
(* Proofs about Settings, for any accounts and names and any number of     *)
(* requests, failed writes and power losses; and, after them, about Knot,  *)
(* the peer table that PATCH /api/settings starts and stops, for any       *)
(* boards, host names, number of slots and number of failures.             *)
(* The two modules share no variable: the theorems on Settings are about   *)
(* Spec, the ones on Knot about PeersSpec.                                 *)
(***************************************************************************)
EXTENDS Settings, Knot, FiniteSetTheorems, TLAPS

\* The three copies are functions of the fields.
StoreShape == DOMAIN nvs = Fields /\ DOMAIN cache = Fields /\ DOMAIN acked = Fields

\* What a save in progress has done: a field of its target is still to be
\* written, or it is in the flash and counted as torn; with nothing left to
\* write the program works with all of it.
JobInv ==
  job # NoJob =>
    /\ DOMAIN job = {"todo", "target", "named", "good", "reboot"}
    /\ DOMAIN job.target \subseteq Fields
    /\ job.todo \in Seq(Fields)
    /\ \A i \in 1..Len(job.todo) : job.todo[i] \in DOMAIN job.target
    /\ \A k \in DOMAIN job.target :
         \/ \E i \in 1..Len(job.todo) : job.todo[i] = k
         \/ k \in torn /\ nvs[k] = job.target[k]
    /\ job.todo = <<>> => \A k \in DOMAIN job.target : cache[k] = job.target[k]

\* The inductive invariant of AckedSurvives.
AckedInv == StoreShape /\ JobInv /\ AckedSurvives

LEMMA NoJobFacts == NoJob.todo = <<>> /\ NoJob.target = <<>>
BY DEF NoJob

\* With() changes what the target names and nothing else.
LEMMA WithFacts ==
  ASSUME NEW rec, NEW target, DOMAIN rec = Fields
  PROVE  /\ DOMAIN With(rec, target) = Fields
         /\ \A k \in Fields : With(rec, target)[k] = IF k \in DOMAIN target THEN target[k] ELSE rec[k]
BY DEF With

\* The list of config_set_pools() names every pool field.
LEMMA PoolOrderFacts ==
  /\ PoolOrder \in Seq(Fields)
  /\ \A i \in 1..Len(PoolOrder) : PoolOrder[i] \in PoolFields
  /\ \A k \in PoolFields : \E i \in 1..Len(PoolOrder) : PoolOrder[i] = k
<1>1. PoolFields = {<<0, "host">>, <<0, "acct">>, <<0, "dcd">>, <<1, "host">>, <<1, "acct">>, <<1, "dcd">>}
  BY DEF PoolFields, Slots
<1>2. Len(PoolOrder) = 6
  BY DEF PoolOrder
<1>3. /\ PoolOrder[1] = <<0, "host">> /\ PoolOrder[2] = <<0, "acct">> /\ PoolOrder[3] = <<0, "dcd">>
      /\ PoolOrder[4] = <<1, "host">> /\ PoolOrder[5] = <<1, "acct">> /\ PoolOrder[6] = <<1, "dcd">>
  BY DEF PoolOrder
<1>4. PoolOrder \in Seq(Fields)
  BY <1>1 DEF PoolOrder, Fields
<1>5. \A i \in 1..6 : PoolOrder[i] \in PoolFields
  <2>1. \A i \in 1..6 : i = 1 \/ i = 2 \/ i = 3 \/ i = 4 \/ i = 5 \/ i = 6
    OBVIOUS
  <2>2. /\ PoolOrder[1] \in PoolFields /\ PoolOrder[2] \in PoolFields /\ PoolOrder[3] \in PoolFields
        /\ PoolOrder[4] \in PoolFields /\ PoolOrder[5] \in PoolFields /\ PoolOrder[6] \in PoolFields
    BY <1>1, <1>3
  <2> QED
    BY <2>1, <2>2
<1>6. \A k \in PoolFields : \E i \in 1..6 : PoolOrder[i] = k
  BY <1>1, <1>3
<1> QED
  BY <1>2, <1>4, <1>5, <1>6

\* What a list holds whose tail is empty.
LEMMA OneLeft ==
  ASSUME NEW S, NEW s \in Seq(S), s # <<>>, Tail(s) = <<>>
  PROVE  \A i \in 1..Len(s) : s[i] = Head(s)
<1>1. Len(Tail(s)) = Len(s) - 1
  OBVIOUS
<1>2. Len(s) = 1
  <2> DEFINE t == Tail(s)
  <2>1. t = <<>> => Len(t) = 0
    <3> HIDE DEF t
    <3> QED
      OBVIOUS
  <2>2. Len(t) = 0
    BY ONLY Tail(s) = <<>>, <2>1
  <2>3. Len(s) \in Nat
    OBVIOUS
  <2> QED
    BY ONLY <1>1, <2>2, <2>3
<1>3. Head(s) = s[1]
  OBVIOUS
<1>4. \A i \in 1..Len(s) : i = 1
  BY <1>2
<1> QED
  BY <1>3, <1>4

\* A save that begins has all of its target before it.
LEMMA StartPreserves ==
  ASSUME NEW list, NEW target, NEW named, NEW good, NEW reboot,
         AckedInv, Start(list, target, named, good, reboot),
         DOMAIN target \subseteq Fields, list \in Seq(Fields),
         \A i \in 1..Len(list) : list[i] \in DOMAIN target,
         \A k \in DOMAIN target : \E i \in 1..Len(list) : list[i] = k
  PROVE  AckedInv'
<1>1. job' = [todo |-> list, target |-> target, named |-> named, good |-> good, reboot |-> reboot]
  BY DEF Start
<1>2. UNCHANGED <<nvs, cache, acked, torn, phase>>
  BY DEF Start, store
<1>3. list = <<>> => DOMAIN target = {}
  OBVIOUS
<1>4. JobInv'
  BY <1>1, <1>3 DEF JobInv
<1> QED
  BY <1>2, <1>4 DEF AckedInv, StoreShape, AckedSurvives

LEMMA WriteKeyPreserves ==
  ASSUME AckedInv, WriteKey
  PROVE  AckedInv'
<1> DEFINE k0 == Head(job.todo)
<1>1. job # NoJob /\ job.todo # <<>>
  BY NoJobFacts DEF WriteKey
<1>2. /\ DOMAIN job = {"todo", "target", "named", "good", "reboot"}
      /\ DOMAIN job.target \subseteq Fields /\ job.todo \in Seq(Fields)
      /\ \A i \in 1..Len(job.todo) : job.todo[i] \in DOMAIN job.target
  BY <1>1 DEF AckedInv, JobInv
<1>3. k0 = job.todo[1] /\ k0 \in DOMAIN job.target /\ k0 \in Fields
  BY <1>1, <1>2
<1>4. /\ nvs' = [nvs EXCEPT ![k0] = job.target[k0]]
      /\ cache' = IF Tail(job.todo) = <<>> THEN With(cache, job.target)
                  ELSE IF k0 = HostName THEN [cache EXCEPT ![k0] = job.target[k0]]
                  ELSE cache
      /\ torn' = torn \cup {k0}
      /\ job' = [job EXCEPT !.todo = Tail(job.todo)]
      /\ acked' = acked /\ phase' = phase
  BY DEF WriteKey
<1> HIDE DEF k0
<1>5. StoreShape'
  BY <1>3, <1>4, WithFacts DEF AckedInv, StoreShape
<1>9. Tail(job.todo) = <<>>
        => /\ \A k \in DOMAIN job.target : k = k0 \/ (k \in torn /\ nvs[k] = job.target[k])
           /\ \A k \in Fields : cache'[k] = IF k \in DOMAIN job.target THEN job.target[k] ELSE cache[k]
  <2> SUFFICES ASSUME Tail(job.todo) = <<>>
               PROVE  /\ \A k \in DOMAIN job.target : k = k0 \/ (k \in torn /\ nvs[k] = job.target[k])
                      /\ \A k \in Fields : cache'[k] = IF k \in DOMAIN job.target THEN job.target[k] ELSE cache[k]
    OBVIOUS
  <2>2. \A i \in 1..Len(job.todo) : job.todo[i] = k0
    BY <1>1, <1>2, OneLeft DEF k0
  <2> QED
    BY <2>2, <1>1, <1>4, WithFacts DEF AckedInv, JobInv, StoreShape
<1>6. AckedSurvives'
  <2> SUFFICES ASSUME NEW k \in Fields \ torn'
               PROVE  nvs'[k] = acked'[k] /\ (phase' # "init" => cache'[k] = acked'[k])
    BY DEF AckedSurvives
  <2>1. k \in Fields \ torn /\ k # k0
    BY <1>4
  <2>2. nvs'[k] = nvs[k] /\ cache'[k] = cache[k]
    BY <2>1, <1>3, <1>4, <1>9 DEF AckedInv, StoreShape
  <2> QED
    BY <2>1, <2>2, <1>4 DEF AckedInv, AckedSurvives
<1>7. JobInv'
  <2>1. job'.todo = Tail(job.todo) /\ job'.target = job.target /\ DOMAIN job' = DOMAIN job
    BY <1>2, <1>4
  <2>2. Tail(job.todo) \in Seq(Fields) /\ Len(Tail(job.todo)) = Len(job.todo) - 1
    BY <1>1, <1>2
  <2>3. \A i \in 1..Len(Tail(job.todo)) : Tail(job.todo)[i] = job.todo[i + 1] /\ i + 1 \in 1..Len(job.todo)
    BY <1>1, <1>2
  <2>4. \A i \in 2..Len(job.todo) : i - 1 \in 1..Len(Tail(job.todo)) /\ Tail(job.todo)[i - 1] = job.todo[i]
    BY <1>1, <1>2
  <2>5. ASSUME NEW k \in DOMAIN job.target
        PROVE  \/ \E i \in 1..Len(Tail(job.todo)) : Tail(job.todo)[i] = k
               \/ k \in torn' /\ nvs'[k] = job.target[k]
    <3>1. CASE k = k0
      BY <3>1, <1>3, <1>4 DEF AckedInv, StoreShape
    <3>2. CASE k # k0 /\ \E i \in 1..Len(job.todo) : job.todo[i] = k
      <4>1. PICK i \in 1..Len(job.todo) : job.todo[i] = k
        BY <3>2
      <4>2. i \in 2..Len(job.todo)
        BY <4>1, <3>2, <1>2, <1>3
      <4> QED
        BY <4>1, <4>2, <2>4
    <3>3. CASE k # k0 /\ k \in torn /\ nvs[k] = job.target[k]
      BY <3>3, <1>2, <1>4 DEF AckedInv, StoreShape
    <3> QED
      BY <3>1, <3>2, <3>3, <1>1 DEF AckedInv, JobInv
  <2>6. Tail(job.todo) = <<>> => \A k \in DOMAIN job.target : cache'[k] = job.target[k]
    BY <1>2, <1>9
  <2> QED
    BY <1>2, <2>1, <2>2, <2>3, <2>5, <2>6 DEF JobInv
<1> QED
  BY <1>5, <1>6, <1>7 DEF AckedInv

LEMMA AcknowledgePreserves ==
  ASSUME AckedInv, Acknowledge
  PROVE  AckedInv'
<1>1. job # NoJob /\ job.todo = <<>>
  BY DEF Acknowledge, Idle
<1>2. /\ cache' = cache /\ acked' = With(acked, job.target)
      /\ torn' = torn \ DOMAIN job.target /\ job' = NoJob /\ nvs' = nvs
      /\ phase' # "init" => phase # "init"
  BY DEF Acknowledge
<1>3. /\ DOMAIN acked' = Fields
      /\ \A k \in Fields : acked'[k] = IF k \in DOMAIN job.target THEN job.target[k] ELSE acked[k]
  BY <1>2, WithFacts DEF AckedInv, StoreShape
<1>4. \A k \in DOMAIN job.target : nvs[k] = job.target[k] /\ cache[k] = job.target[k]
  BY <1>1 DEF AckedInv, JobInv
<1>5. AckedSurvives'
  BY <1>2, <1>3, <1>4 DEF AckedInv, AckedSurvives
<1> QED
  BY <1>2, <1>3, <1>5 DEF AckedInv, StoreShape, JobInv

\* Every handler begins a save whose list of keys is its target.
LEMMA HandlerPreserves ==
  ASSUME AckedInv, HandlerNext
  PROVE  AckedInv'
<1>1. ASSUME NEW first, NEW second
      PROVE  DOMAIN PoolsOf(first, second) = PoolFields
  BY DEF PoolsOf
<1>2. PoolFields \subseteq Fields /\ HostName \in Fields
  BY DEF Fields
<1>3. ASSUME NEW first, NEW second, NEW named, NEW good, NEW reboot,
             SetPools(first, second, named, good, reboot)
      PROVE  AckedInv'
  BY <1>3, <1>1, <1>2, StartPreserves, PoolOrderFacts DEF SetPools
<1>4. ASSUME ProvSave PROVE AckedInv'
  <2> DEFINE list == <<HostName>> \o PoolOrder
  <2>1. PICK target : DOMAIN target = Fields /\ Start(list, target, FALSE, TRUE, FALSE)
    <3>1. PICK p \in Accounts :
            LET pools == PoolsOf(Untoggled(Cfg(p, TRUE)), Kept(Untoggled(Cached(1)))) IN
            Start(list, [k \in Fields |-> IF k = HostName THEN Derived ELSE pools[k]], FALSE, TRUE, FALSE)
      BY <1>4 DEF ProvSave
    <3> DEFINE pools == PoolsOf(Untoggled(Cfg(p, TRUE)), Kept(Untoggled(Cached(1))))
    <3> DEFINE target == [k \in Fields |-> IF k = HostName THEN Derived ELSE pools[k]]
    <3>2. DOMAIN target = Fields
      OBVIOUS
    <3>3. Start(list, target, FALSE, TRUE, FALSE)
      BY <3>1
    <3> QED
      BY <3>2, <3>3
  <2>2. <<HostName>> \in Seq(Fields) /\ Len(<<HostName>>) = 1 /\ <<HostName>>[1] = HostName
    BY <1>2
  <2>3. list \in Seq(Fields) /\ Len(list) = 1 + Len(PoolOrder)
    BY <2>2, PoolOrderFacts
  <2>4. list[1] = HostName
    BY <2>2, <2>3, PoolOrderFacts
  <2>5. \A i \in 1..Len(PoolOrder) : i + 1 \in 1..Len(list) /\ list[i + 1] = PoolOrder[i]
    BY <2>2, <2>3, PoolOrderFacts
  <2>6. \A k \in Fields : \E i \in 1..Len(list) : list[i] = k
    <3> SUFFICES ASSUME NEW k \in Fields PROVE \E i \in 1..Len(list) : list[i] = k
      OBVIOUS
    <3>1. CASE k = HostName
      <4>1. 1 \in 1..Len(list)
        BY <2>3, PoolOrderFacts
      <4> QED
        BY <4>1, <3>1, <2>4
    <3>2. CASE k \in PoolFields
      <4>1. PICK i \in 1..Len(PoolOrder) : PoolOrder[i] = k
        BY <3>2, PoolOrderFacts
      <4> QED
        BY <4>1, <2>5
    <3> QED
      BY <3>1, <3>2 DEF Fields
  <2>7. \A i \in 1..Len(list) : list[i] \in Fields
    BY <2>3
  <2> HIDE DEF list
  <2> QED
    BY <2>1, <2>3, <2>6, <2>7, StartPreserves
<1>10. ASSUME NEW good, NEW n, NEW reboot,
              Start(<<HostName>>, [k \in {HostName} |-> n], FALSE, good, reboot)
       PROVE  AckedInv'
  <2> DEFINE target == [k \in {HostName} |-> n]
  <2>2. <<HostName>> \in Seq(Fields) /\ Len(<<HostName>>) = 1 /\ <<HostName>>[1] = HostName
    BY <1>2
  <2>3. DOMAIN target = {HostName}
    OBVIOUS
  <2>4. \A i \in 1..Len(<<HostName>>) : <<HostName>>[i] \in DOMAIN target
    BY <2>2, <2>3
  <2>5. \A k \in DOMAIN target : \E i \in 1..Len(<<HostName>>) : <<HostName>>[i] = k
    BY <2>2, <2>3
  <2>6. Start(<<HostName>>, target, FALSE, good, reboot)
    BY <1>10
  <2> HIDE DEF target
  <2> QED
    BY <2>2, <2>3, <2>4, <2>5, <2>6, <1>2, StartPreserves
<1>11. ASSUME NEW good, Start(<<>>, <<>>, FALSE, good, TRUE) PROVE AckedInv'
  <2> DEFINE none == <<>>
  <2>1. none \in Seq(Fields) /\ Len(none) = 0 /\ DOMAIN none = {}
    OBVIOUS
  <2>2. Start(none, none, FALSE, good, TRUE)
    BY <1>11
  <2> HIDE DEF none
  <2>3. /\ DOMAIN none \subseteq Fields
        /\ \A i \in 1..Len(none) : none[i] \in DOMAIN none
        /\ \A k \in DOMAIN none : \E i \in 1..Len(none) : none[i] = k
    BY <2>1
  <2> QED
    BY <2>1, <2>2, <2>3, StartPreserves
<1>5. ASSUME PatchSettings PROVE AckedInv'
  BY <1>5, <1>10, <1>11 DEF PatchSettings
<1>6. ASSUME PostSettings PROVE AckedInv'
  BY <1>6, <1>3 DEF PostSettings
<1>7. ASSUME PutPool PROVE AckedInv'
  BY <1>7, <1>3 DEF PutPool
<1>8. ASSUME DeleteFallback PROVE AckedInv'
  BY <1>8, <1>3 DEF DeleteFallback
<1>9. ASSUME DeletePrimary PROVE AckedInv'
  BY <1>9, <1>3 DEF DeletePrimary
<1> QED
  BY <1>4, <1>5, <1>6, <1>7, <1>8, <1>9 DEF HandlerNext

\* A restart drops the save and leaves the flash.
LEMMA RestartPreserves ==
  ASSUME AckedInv, Restarted
  PROVE  AckedInv'
BY DEF AckedInv, StoreShape, JobInv, AckedSurvives, Restarted, store

\* Steps that touch neither the store nor a save and do not end "init".
LEMMA QuietPreserves ==
  ASSUME AckedInv, UNCHANGED store, job' = job \/ job' = NoJob, phase' = phase \/ phase # "init"
  PROVE  AckedInv'
<1>1. UNCHANGED <<nvs, cache, acked, torn>>
  BY DEF store
<1>2. JobInv'
  BY <1>1 DEF AckedInv, JobInv
<1>3. phase' # "init" => phase # "init"
  OBVIOUS
<1> QED
  BY <1>1, <1>2, <1>3 DEF AckedInv, StoreShape, AckedSurvives

LEMMA AckedInit == Init => AckedInv
BY DEF Init, AckedInv, StoreShape, JobInv, AckedSurvives

LEMMA AckedNext == AckedInv /\ [Next]_vars => AckedInv'
<1> SUFFICES ASSUME AckedInv, [Next]_vars PROVE AckedInv'
  OBVIOUS
<1>1. CASE WriteKey
  BY <1>1, WriteKeyPreserves
<1>2. CASE WriteFails \/ Refuse
  BY <1>2, QuietPreserves DEF WriteFails, Refuse
<1>3. CASE Acknowledge
  BY <1>3, AcknowledgePreserves
<1>4. CASE HandlerNext
  BY <1>4, HandlerPreserves
<1>5. CASE ConfigInit
  <2>1. cache' = nvs /\ UNCHANGED <<nvs, acked, torn, job>>
    BY <1>5 DEF ConfigInit
  <2> QED
    BY <2>1 DEF AckedInv, StoreShape, JobInv, AckedSurvives
<1>6. CASE Forget \/ Unprovision \/ Recount \/ InitAsic \/ StaConnect \/ Adopt \/ Zero \/ Join
  BY <1>6, QuietPreserves DEF Forget, Unprovision, Recount, InitAsic, StaConnect, Adopt, Zero, Join, Goto
<1>7. CASE Reboot \/ JoinTimeout \/ PowerLoss \/ DeferredRestart \/ Update
  BY <1>7, RestartPreserves DEF Reboot, JoinTimeout, PowerLoss, DeferredRestart, Update
<1>8. CASE Validate \/ NewPassword
  BY <1>8, QuietPreserves DEF Validate, NewPassword
<1>9. CASE UNCHANGED vars
  BY <1>9, QuietPreserves DEF vars, store
<1> QED
  BY <1>1, <1>2, <1>3, <1>4, <1>5, <1>6, <1>7, <1>8, <1>9 DEF Next, BootNext, JobNext

\* What the user was told is saved is in the flash, and in the copies the
\* program works with, unless a later save that was not acknowledged has
\* written that field: config_set_pools() and the handlers of routes.c.
THEOREM AckedKept == Spec => []AckedSurvives
<1>1. Init => AckedInv
  BY AckedInit
<1>2. AckedInv /\ [Next]_vars => AckedInv'
  BY AckedNext
<1>3. AckedInv => AckedSurvives
  BY DEF AckedInv
<1> QED
  BY <1>1, <1>2, <1>3, PTL DEF Spec

-----------------------------------------------------------------------------
(* The settings as a store whose answers can be relied on *)

\* A save runs in a program that has read its settings.
SaveIsUp == job # NoJob => phase # "init"

LEMMA SaveIsUpNext == SaveIsUp /\ [Next]_vars => SaveIsUp'
<1> SUFFICES ASSUME SaveIsUp, [Next]_vars PROVE SaveIsUp'
  OBVIOUS
<1>1. CASE JobNext
  BY <1>1, NoJobFacts DEF JobNext, WriteKey, WriteFails, Refuse, Acknowledge, SaveIsUp
<1>2. CASE HandlerNext
  BY <1>2 DEF HandlerNext, ProvSave, PostSettings, PatchSettings, PutPool, DeleteFallback,
     DeletePrimary, SetPools, Request, Start, SaveIsUp
<1>3. CASE BootNext /\ ~Reboot /\ ~JoinTimeout
  BY <1>3 DEF BootNext, ConfigInit, Forget, Unprovision, Recount, InitAsic, StaConnect, Adopt, Zero,
     Join, Goto, SaveIsUp
<1>4. CASE Reboot \/ JoinTimeout \/ PowerLoss \/ DeferredRestart \/ Update
  BY <1>4 DEF Reboot, JoinTimeout, PowerLoss, DeferredRestart, Update, Restarted, SaveIsUp
<1>5. CASE Validate \/ NewPassword \/ UNCHANGED vars
  BY <1>5 DEF Validate, NewPassword, vars, SaveIsUp
<1> QED
  BY <1>1, <1>2, <1>3, <1>4, <1>5 DEF Next

\* One bb_nv_set_*() opens its field and changes no other.
LEMMA WriteOpens ==
  ASSUME AckedInv, SaveIsUp, WriteKey
  PROVE  \E k \in Fields : Promise!Write(k)
<1> DEFINE k0 == Head(job.todo)
<1>1. job # NoJob /\ job.todo # <<>>
  BY NoJobFacts DEF WriteKey
<1>2. DOMAIN job.target \subseteq Fields /\ job.todo \in Seq(Fields)
  BY <1>1 DEF AckedInv, JobInv
<1>3. k0 \in Fields
  BY <1>1, <1>2
<1>4. /\ nvs' = [nvs EXCEPT ![k0] = job.target[k0]]
      /\ cache' = IF Tail(job.todo) = <<>> THEN With(cache, job.target)
                  ELSE IF k0 = HostName THEN [cache EXCEPT ![k0] = job.target[k0]]
                  ELSE cache
      /\ torn' = torn \cup {k0} /\ job' = [job EXCEPT !.todo = Tail(job.todo)]
      /\ acked' = acked /\ phase' = phase
  BY DEF WriteKey
<1>5. Promise!Same(nvs, nvs', {k0})
  BY <1>4 DEF Promise!Same, AckedInv, StoreShape
<1>6. ASSUME NEW j \in Fields
      PROVE  cache'[j] = cache[j] \/ (j \in torn' /\ cache'[j] = nvs'[j])
  <2>1. CASE Tail(job.todo) # <<>>
    BY <1>3, <1>4, <2>1 DEF AckedInv, StoreShape
  <2>2. CASE Tail(job.todo) = <<>>
    <3>1. cache'[j] = IF j \in DOMAIN job.target THEN job.target[j] ELSE cache[j]
      BY <1>4, <2>2, WithFacts DEF AckedInv, StoreShape
    <3>2. \A i \in 1..Len(job.todo) : job.todo[i] = k0
      BY <1>1, <1>2, <2>2, OneLeft
    <3>3. j \in DOMAIN job.target => j = k0 \/ (j \in torn /\ nvs[j] = job.target[j])
      BY <3>2, <1>1 DEF AckedInv, JobInv
    <3> HIDE DEF k0
    <3>4. j \in DOMAIN job.target => j \in torn' /\ nvs'[j] = job.target[j]
      BY <3>3, <1>3, <1>4 DEF AckedInv, StoreShape
    <3> QED
      BY <3>1, <3>4
  <2> QED
    BY <2>1, <2>2
<1>7. Promise!Write(k0)
  BY <1>1, <1>4, <1>5, <1>6 DEF Promise!Write, SaveIsUp
<1> QED
  BY <1>3, <1>7

\* The answer to a save speaks of what the save has written, all of it.
LEMMA AcknowledgeAnswers ==
  ASSUME AckedInv, SaveIsUp, Acknowledge
  PROVE  \E S \in SUBSET Fields : Promise!Answer(S)
<1>1. job # NoJob /\ job.todo = <<>> /\ phase # "init"
  BY DEF Acknowledge, Idle, SaveIsUp
<1>2. /\ cache' = cache /\ acked' = With(acked, job.target)
      /\ torn' = torn \ DOMAIN job.target /\ nvs' = nvs /\ phase' # "init"
  BY <1>1 DEF Acknowledge
<1>3. \A k \in Fields : acked'[k] = IF k \in DOMAIN job.target THEN job.target[k] ELSE acked[k]
  BY <1>2, WithFacts DEF AckedInv, StoreShape
<1>4. /\ DOMAIN job.target \subseteq Fields
      /\ \A k \in DOMAIN job.target : nvs[k] = job.target[k] /\ cache[k] = job.target[k]
  BY <1>1 DEF AckedInv, JobInv
<1>5. Promise!Answer(DOMAIN job.target)
  BY <1>1, <1>2, <1>3, <1>4 DEF Promise!Answer, Promise!Same
<1> QED
  BY <1>4, <1>5

LEMMA StoreStep ==
  ASSUME AckedInv, AckedInv', SaveIsUp, [Next]_vars
  PROVE  [Promise!Next]_(Promise!vars)
<1>1. Promise!Shaped'
  BY DEF Promise!Shaped, AckedInv, StoreShape
<1> USE <1>1 DEF Promise!Next, Promise!vars
<1>2. CASE WriteKey
  BY <1>2, WriteOpens
<1>3. CASE Acknowledge
  BY <1>3, AcknowledgeAnswers
<1>4. CASE WriteFails \/ Refuse
  BY <1>4 DEF WriteFails, Refuse, store
<1>5. CASE HandlerNext
  BY <1>5 DEF HandlerNext, ProvSave, PostSettings, PatchSettings, PutPool, DeleteFallback,
     DeletePrimary, SetPools, Start, store
<1>6. CASE ConfigInit
  BY <1>6 DEF ConfigInit, Goto, Promise!Boot
<1>7. CASE Forget \/ Unprovision \/ Recount \/ InitAsic \/ StaConnect \/ Adopt \/ Zero \/ Join
  BY <1>7 DEF Forget, Unprovision, Recount, InitAsic, StaConnect, Adopt, Zero, Join, Goto, store
<1>8. CASE Reboot \/ JoinTimeout \/ PowerLoss \/ DeferredRestart \/ Update
  <2>1. Restarted
    BY <1>8 DEF Reboot, JoinTimeout, PowerLoss, DeferredRestart, Update
  <2> QED
    BY <2>1 DEF Restarted, store, Promise!Down
<1>9. CASE Validate \/ NewPassword \/ UNCHANGED vars
  BY <1>9 DEF Validate, NewPassword, vars, store
<1> QED
  BY <1>2, <1>3, <1>4, <1>5, <1>6, <1>7, <1>8, <1>9 DEF Next, BootNext, JobNext

\* The handlers of routes.c over config.c implement AckedStore: whatever is
\* refused, fails or loses power, "saved" is said of what the flash holds, and
\* nothing but another save of a field makes that untrue.
THEOREM StoreImplemented == Spec => ImplementsStore
<1>1. Init => AckedInv /\ SaveIsUp /\ Promise!Init
  BY AckedInit DEF Init, SaveIsUp, AckedInv, StoreShape, Promise!Init, Promise!Shaped
<1>2. AckedInv /\ SaveIsUp /\ [Next]_vars
        => AckedInv' /\ SaveIsUp' /\ [Promise!Next]_(Promise!vars)
  BY AckedNext, SaveIsUpNext, StoreStep
<1> QED
  BY <1>1, <1>2, PTL DEF Spec, ImplementsStore, Promise!Spec

-----------------------------------------------------------------------------
(* The ASIC before the tasks *)

AsicInv == /\ prov \in BOOLEAN /\ asicReady \in BOOLEAN
           /\ phase \in {"join", "mining"} => asicReady

\* TA-225: app_main() starts the mining task only over an ASIC that asic_init()
\* has set up in the same boot, however provisioning and the fallback ended.
THEOREM AsicFirst == Spec => []AsicBeforeTasks
<1>1. Init => AsicInv
  BY DEF Init, AsicInv
<1>2. AsicInv /\ [Next]_vars => AsicInv'
  <2> SUFFICES ASSUME AsicInv, [Next]_vars PROVE AsicInv'
    OBVIOUS
  <2>1. CASE JobNext
    BY <2>1 DEF AsicInv, JobNext, WriteKey, WriteFails, Refuse, Acknowledge, login
  <2>2. CASE HandlerNext
    BY <2>2 DEF AsicInv, HandlerNext, ProvSave, PostSettings, PatchSettings, PutPool,
                DeleteFallback, DeletePrimary, SetPools, Start, login
  <2>3. CASE Unprovision \/ Adopt
    BY <2>3 DEF AsicInv, Unprovision, Adopt, Goto
  <2>4. CASE InitAsic
    BY <2>4 DEF AsicInv, InitAsic, Goto, login
  <2>5. CASE ConfigInit \/ Forget \/ Recount \/ StaConnect \/ Zero
    BY <2>5 DEF AsicInv, ConfigInit, Forget, Recount, StaConnect, Zero, Goto, login
  <2>6. CASE Join
    BY <2>6 DEF AsicInv, Join, Goto, login
  <2>7. CASE Reboot \/ JoinTimeout \/ PowerLoss \/ DeferredRestart \/ Update
    BY <2>7 DEF AsicInv, Reboot, JoinTimeout, PowerLoss, DeferredRestart, Update, Restarted
  <2>8. CASE Validate \/ NewPassword \/ UNCHANGED vars
    BY <2>8 DEF AsicInv, Validate, NewPassword, login, vars
  <2> QED
    BY <2>1, <2>2, <2>3, <2>4, <2>5, <2>6, <2>7, <2>8 DEF Next, BootNext
<1>3. AsicInv => AsicBeforeTasks
  BY DEF AsicInv, AsicBeforeTasks
<1> QED
  BY <1>1, <1>2, <1>3, PTL DEF Spec

-----------------------------------------------------------------------------
(* The login *)

LoginTypes == /\ phase \in Phases /\ prov \in BOOLEAN /\ restartDue \in BOOLEAN
              /\ count \in 0..FailLimit /\ misses \in 0..FailLimit /\ faults \in 0..MaxFaults

\* Only a request to a running board asks for a restart.
RestartInv ==
  /\ restartDue => phase = "mining"
  /\ job # NoJob => /\ DOMAIN job = {"todo", "target", "named", "good", "reboot"}
                    /\ job.reboot \in BOOLEAN
                    /\ phase \in {"ap", "mining"}
                    /\ job.reboot => phase = "mining"

\* Where the board counts as provisioned, and what the boot count may be: of
\* a board that is not provisioned it is zero, unless the one fault came
\* between the three calls of the fallback or of provisioning.
CountInv ==
  /\ phase \in {"ap", "formed", "adopt"} => ~prov
  /\ phase \in {"join", "mining"} => prov
  /\ phase = "forget" => prov /\ count = FailLimit
  /\ ~prov /\ phase # "recount" => count = 0 \/ faults = MaxFaults
  /\ phase = "zero" => count = 0 \/ faults = MaxFaults
  /\ phase = "reboot" => count = 0
  /\ prov /\ wifi # Blank /\ phase # "zero" => count <= misses

LoginInv == LoginTypes /\ RestartInv /\ CountInv

LEMMA LoginJob == LoginInv /\ JobNext => LoginInv'
<1> SUFFICES ASSUME LoginInv, JobNext PROVE LoginInv'
  OBVIOUS
<1> USE SettingsAssumption DEF LoginInv, LoginTypes, RestartInv, CountInv, Phases
<1>1. CASE WriteKey
  <2>1. job # NoJob
    BY <1>1, NoJobFacts DEF WriteKey
  <2>2. DOMAIN job' = DOMAIN job /\ job'.reboot = job.reboot
    BY <1>1, <2>1 DEF WriteKey
  <2>3. UNCHANGED <<restartDue, phase, wifi, prov, count, misses, faults>>
    BY <1>1 DEF WriteKey, login
  <2> QED
    BY <2>1, <2>2, <2>3
<1>2. CASE WriteFails
  <2>1. /\ job' = NoJob /\ faults < MaxFaults /\ faults' = faults + 1
        /\ UNCHANGED <<restartDue, phase, wifi, prov, count, misses>>
    BY <1>2 DEF WriteFails, Fault, login
  <2>2. job # NoJob /\ phase \in {"ap", "mining"}
    BY <1>2, NoJobFacts DEF WriteFails
  <2> QED
    BY <2>1, <2>2
<1>3. CASE Refuse
  BY <1>3 DEF Refuse, login
<1>4. CASE Acknowledge
  <2>1. job # NoJob /\ job' = NoJob
    BY <1>4 DEF Acknowledge, Idle
  <2>2. restartDue' = (restartDue \/ job.reboot) /\ UNCHANGED <<prov, count, faults>>
    BY <1>4 DEF Acknowledge
  <2>3. CASE phase = "ap"
    <3>1. phase' = "formed" /\ misses' = 0
      BY <1>4, <2>3 DEF Acknowledge
    <3> QED
      BY <2>1, <2>2, <2>3, <3>1
  <2>4. CASE phase = "mining"
    <3>1. UNCHANGED <<phase, wifi, misses>>
      BY <1>4, <2>4 DEF Acknowledge
    <3> QED
      BY <2>1, <2>2, <2>4, <3>1
  <2> QED
    BY <2>1, <2>3, <2>4
<1> QED
  BY <1>1, <1>2, <1>3, <1>4 DEF JobNext

LEMMA LoginHandler == LoginInv /\ HandlerNext => LoginInv'
<1> SUFFICES ASSUME LoginInv, HandlerNext PROVE LoginInv'
  OBVIOUS
<1>1. ASSUME NEW list, NEW target, NEW named, NEW good, NEW reboot \in BOOLEAN,
             Start(list, target, named, good, reboot), phase \in {"ap", "mining"},
             reboot => phase = "mining"
      PROVE  LoginInv'
  <2>1. job' = [todo |-> list, target |-> target, named |-> named, good |-> good, reboot |-> reboot]
    BY <1>1 DEF Start
  <2>2. UNCHANGED <<restartDue, phase, wifi, prov, count, misses, faults>>
    BY <1>1 DEF Start, login
  <2> QED
    BY <1>1, <2>1, <2>2 DEF LoginInv, LoginTypes, RestartInv, CountInv
<1>2. CASE ProvSave
  BY <1>1, <1>2 DEF ProvSave
<1>3. CASE PostSettings
  BY <1>1, <1>3 DEF PostSettings, Request, SetPools
<1>4. CASE PatchSettings
  BY <1>1, <1>4 DEF PatchSettings, Request
<1>5. CASE PutPool
  BY <1>1, <1>5 DEF PutPool, Request, SetPools
<1>6. CASE DeleteFallback
  BY <1>1, <1>6 DEF DeleteFallback, Request, SetPools
<1>7. CASE DeletePrimary
  BY <1>1, <1>7 DEF DeletePrimary, Request, SetPools
<1> QED
  BY <1>2, <1>3, <1>4, <1>5, <1>6, <1>7 DEF HandlerNext

\* Each of the calls of the fallback and of provisioning may be the one that
\* fails or is cut short.
LEMMA LoginBoot ==
  ASSUME MaxFaults <= 1
  PROVE  LoginInv /\ (BootNext \/ PowerLoss \/ DeferredRestart \/ Update) => LoginInv'
<1> SUFFICES ASSUME LoginInv, BootNext \/ PowerLoss \/ DeferredRestart \/ Update PROVE LoginInv'
  OBVIOUS
<1> USE SettingsAssumption DEF LoginInv, LoginTypes, RestartInv, CountInv, Phases
<1>1. CASE ConfigInit
  BY <1>1 DEF ConfigInit, Goto, ShouldFallBack, login
<1>2. CASE Forget
  BY <1>2 DEF Forget, Goto, Fault
<1>3. CASE Unprovision
  <2>1. /\ phase = "unprovision" /\ phase' = "recount"
        /\ UNCHANGED <<job, restartDue, wifi, count, misses>>
    BY <1>3 DEF Unprovision, Goto
  <2>2. job = NoJob /\ ~restartDue
    BY <2>1
  <2>3. CASE prov' = FALSE /\ UNCHANGED faults
    BY <2>1, <2>2, <2>3
  <2>4. CASE Fault /\ UNCHANGED prov
    BY <2>1, <2>2, <2>4 DEF Fault
  <2> QED
    BY <1>3, <2>3, <2>4 DEF Unprovision
<1>4. CASE Recount
  BY <1>4 DEF Recount, Goto, Fault
<1>5. CASE InitAsic
  BY <1>5 DEF InitAsic, Goto, login
<1>6. CASE StaConnect
  BY <1>6 DEF StaConnect, login
<1>7. CASE Adopt
  <2>1. /\ phase = "adopt" /\ phase' = "zero"
        /\ UNCHANGED <<job, restartDue, wifi, count, misses>>
    BY <1>7 DEF Adopt, Goto
  <2>2. job = NoJob /\ ~restartDue
    BY <2>1
  <2>3. CASE prov' = TRUE /\ UNCHANGED faults
    BY <2>1, <2>2, <2>3
  <2>4. CASE Fault /\ UNCHANGED prov
    BY <2>1, <2>2, <2>4 DEF Fault
  <2> QED
    BY <1>7, <2>3, <2>4 DEF Adopt
<1>8. CASE Zero
  BY <1>8 DEF Zero, Goto, Fault
<1>9. CASE Reboot
  BY <1>9 DEF Reboot, Restarted
<1>10. CASE Join
  BY <1>10 DEF Join, Goto, login
<1>11. CASE JoinTimeout
  <2>1. /\ phase = "join" /\ phase' = "init" /\ job' = NoJob /\ restartDue' = FALSE
        /\ UNCHANGED <<wifi, prov, faults>>
    BY <1>11 DEF JoinTimeout, Restarted
  <2>2. /\ count' = IF count < FailLimit THEN count + 1 ELSE count
        /\ misses' = IF misses < FailLimit THEN misses + 1 ELSE misses
    BY <1>11 DEF JoinTimeout
  <2>3. count' \in 0..FailLimit /\ misses' \in 0..FailLimit /\ (count <= misses => count' <= misses')
    BY <2>2
  <2> QED
    BY <2>1, <2>3
<1>12. CASE PowerLoss
  <2>1. /\ phase' = "init" /\ job' = NoJob /\ restartDue' = FALSE
        /\ UNCHANGED <<wifi, prov, count, misses>>
    BY <1>12 DEF PowerLoss, Restarted
  <2>2. faults = 0 /\ faults' = 1 /\ MaxFaults = 1
    BY <1>12 DEF PowerLoss, Fault
  <2>3. prov /\ wifi # Blank => count <= misses
    BY <2>2
  <2>4. ~prov => count = 0 \/ faults' = MaxFaults
    BY <2>2
  <2>5. LoginTypes'
    <3>1. faults' \in 0..MaxFaults
      BY <2>2
    <3>2. phase' \in Phases /\ restartDue' \in BOOLEAN
      BY <2>1
    <3> QED
      BY <2>1, <3>1, <3>2
  <2>6. CountInv'
    BY <2>1, <2>3, <2>4
  <2>7. RestartInv'
    BY <2>1
  <2> QED
    BY <2>5, <2>6, <2>7
<1>13. CASE DeferredRestart
  BY <1>13 DEF DeferredRestart, Restarted
<1>14. CASE Update
  BY <1>14 DEF Update, Restarted
<1> QED
  BY <1>1, <1>2, <1>3, <1>4, <1>5, <1>6, <1>7, <1>8, <1>9, <1>10, <1>11, <1>12, <1>13, <1>14 DEF BootNext

\* A login leaves the flash in one step only.
LEMMA ForgetOnly ==
  ASSUME LoginInv, [Next]_vars, wifi # Blank, wifi' = Blank
  PROVE  Forget
<1>1. ~JobNext
  BY SettingsAssumption DEF JobNext, WriteKey, WriteFails, Refuse, Acknowledge, login
<1>2. ~HandlerNext
  BY DEF HandlerNext, ProvSave, PostSettings, PatchSettings, PutPool, DeleteFallback,
         DeletePrimary, SetPools, Start, login
<1>3. ~(PowerLoss \/ DeferredRestart \/ Update \/ Reboot \/ JoinTimeout)
  BY DEF PowerLoss, DeferredRestart, Update, Reboot, JoinTimeout, Restarted
<1>4. ~(ConfigInit \/ Unprovision \/ Recount \/ InitAsic \/ StaConnect \/ Adopt \/ Zero \/ Join)
  BY DEF ConfigInit, Unprovision, Recount, InitAsic, StaConnect, Adopt, Zero, Join, login
<1>5. ~(Validate \/ NewPassword \/ UNCHANGED vars)
  BY SettingsAssumption DEF Validate, NewPassword, vars, login
<1> QED
  BY <1>1, <1>2, <1>3, <1>4, <1>5 DEF Next, BootNext

\* While at most one write fails or is cut short by a power loss, app_main()
\* clears a WiFi login only after FailLimit joins with that login failed, for
\* any threshold: no count survives from the login before.
THEOREM LoginStays ==
  ASSUME MaxFaults <= 1
  PROVE  Spec => LoginKept
<1>1. Init => LoginInv
  <2> SUFFICES ASSUME Init PROVE LoginInv
    OBVIOUS
  <2>1. /\ phase = "init" /\ job = NoJob /\ restartDue = FALSE /\ prov = FALSE
        /\ count = 0 /\ misses = 0 /\ faults = 0
    BY DEF Init
  <2>2. LoginTypes
    <3>1. phase \in Phases /\ restartDue \in BOOLEAN /\ prov \in BOOLEAN
      BY <2>1 DEF Phases
    <3>2. count \in 0..FailLimit /\ misses \in 0..FailLimit
      BY <2>1, SettingsAssumption
    <3>3. faults \in 0..MaxFaults
      BY <2>1, SettingsAssumption
    <3> QED
      BY <3>1, <3>2, <3>3 DEF LoginTypes
  <2>3. RestartInv /\ CountInv
    BY <2>1 DEF RestartInv, CountInv
  <2> QED
    BY <2>2, <2>3 DEF LoginInv
<1>2. LoginInv /\ [Next]_vars => LoginInv'
  <2>1. ASSUME LoginInv, Validate \/ NewPassword \/ UNCHANGED vars PROVE LoginInv'
    BY <2>1, SettingsAssumption
    DEF LoginInv, LoginTypes, RestartInv, CountInv, Validate, NewPassword, vars, login
  <2> QED
    BY <2>1, LoginJob, LoginHandler, LoginBoot DEF Next
<1>3. LoginInv /\ [Next]_vars => [wifi # Blank /\ wifi' = Blank => misses >= FailLimit]_vars
  <2> SUFFICES ASSUME LoginInv, [Next]_vars, wifi # Blank, wifi' = Blank PROVE misses >= FailLimit
    OBVIOUS
  <2>1. Forget
    BY ForgetOnly
  <2> QED
    BY <2>1, SettingsAssumption DEF Forget, Goto, LoginInv, LoginTypes, CountInv
<1> QED
  BY <1>1, <1>2, <1>3, PTL DEF Spec, LoginKept

-----------------------------------------------------------------------------
(* The types of Settings *)

Parts == {"host", "acct", "dcd"}

\* What a field may hold.
Typed(k, v) ==
  IF k = HostName THEN v \in Names \cup {Blank}
  ELSE IF k[2] = "dcd" THEN v \in BOOLEAN
  ELSE v \in Accounts \cup {Blank}

RecTyped(rec) == DOMAIN rec = Fields /\ \A k \in Fields : Typed(k, rec[k])

TargetTyped(t) == DOMAIN t \subseteq Fields /\ \A k \in DOMAIN t : Typed(k, t[k])

JobTyped(j) ==
  /\ DOMAIN j = {"todo", "target", "named", "good", "reboot"}
  /\ TargetTyped(j.target) /\ j.todo \in Seq(DOMAIN j.target) /\ j.reboot \in BOOLEAN

StoreTypes == RecTyped(nvs) /\ RecTyped(cache) /\ RecTyped(acked) /\ torn \subseteq Fields /\ JobTyped(job)

FlagTypes ==
  /\ restartDue \in BOOLEAN /\ phase \in Phases /\ asicReady \in BOOLEAN
  /\ wifi \in {Blank, "right", "wrong"} /\ prov \in BOOLEAN
  /\ count \in 0..FailLimit /\ validated \in BOOLEAN
  /\ misses \in 0..FailLimit /\ faults \in 0..MaxFaults /\ saves \in 0..MaxSaves

LEMMA FieldFacts ==
  /\ HostName \in Fields /\ HostName \notin PoolFields
  /\ \A i \in Slots, f \in Parts : <<i, f>> \in PoolFields /\ <<i, f>> # HostName /\ <<i, f>>[1] = i /\ <<i, f>>[2] = f
  /\ \A k \in PoolFields : k \in Fields /\ k # HostName /\ k[1] \in Slots /\ k[2] \in Parts /\ k = <<k[1], k[2]>>
BY DEF Fields, PoolFields, HostName, Slots, Parts

\* The three parts of a slot are a pool.
LEMMA SlotTyped ==
  ASSUME NEW rec, RecTyped(rec), NEW i \in Slots
  PROVE  [f \in Parts |-> rec[<<i, f>>]] \in PoolCfg
<1> DEFINE c == [f \in Parts |-> rec[<<i, f>>]]
<1>1. /\ rec[<<i, "host">>] \in Accounts \cup {Blank} /\ rec[<<i, "acct">>] \in Accounts \cup {Blank}
      /\ rec[<<i, "dcd">>] \in BOOLEAN
  BY FieldFacts DEF RecTyped, Typed, Parts
<1>2. c = [host |-> rec[<<i, "host">>], acct |-> rec[<<i, "acct">>], dcd |-> rec[<<i, "dcd">>]]
  BY DEF Parts
<1> HIDE DEF c
<1>3. c \in PoolCfg
  BY <1>1, <1>2 DEF PoolCfg
<1> QED
  BY <1>3 DEF c

LEMMA PartTyped == \A c \in PoolCfg, k \in PoolFields : Typed(k, c[k[2]])
BY FieldFacts DEF PoolCfg, Typed, Parts

LEMMA PoolsTyped ==
  ASSUME NEW first \in PoolCfg, NEW second \in PoolCfg
  PROVE  TargetTyped(PoolsOf(first, second)) /\ DOMAIN PoolsOf(first, second) = PoolFields
<1>1. \A k \in PoolFields : Typed(k, PoolsOf(first, second)[k])
  BY PartTyped DEF PoolsOf
<1> QED
  BY <1>1, FieldFacts DEF PoolsOf, TargetTyped

LEMMA CfgTyped ==
  /\ NoPool \in PoolCfg
  /\ \A p \in Accounts \cup {Blank}, d \in BOOLEAN : Cfg(p, d) \in PoolCfg
  /\ \A c \in PoolCfg : Untoggled(c) \in PoolCfg /\ Kept(c) \in PoolCfg /\ c.dcd \in BOOLEAN
<1>1. NoPool \in PoolCfg /\ \A p \in Accounts \cup {Blank}, d \in BOOLEAN : Cfg(p, d) \in PoolCfg
  BY DEF NoPool, Cfg, PoolCfg
<1>2. \A c \in PoolCfg : Untoggled(c) \in PoolCfg /\ c.dcd \in BOOLEAN
  BY DEF Untoggled, PoolCfg
<1> QED
  BY <1>1, <1>2 DEF Kept

LEMMA HeadTailTyped ==
  ASSUME NEW S, NEW s \in Seq(S), s # <<>>
  PROVE  Head(s) \in S /\ Tail(s) \in Seq(S)
OBVIOUS

LEMMA NoJobTyped == JobTyped(NoJob)
<1>1. DOMAIN NoJob.target = {} /\ NoJob.todo = <<>> /\ NoJob.reboot = FALSE
  BY DEF NoJob
<1>2. DOMAIN NoJob = {"todo", "target", "named", "good", "reboot"}
  BY DEF NoJob
<1>3. NoJob.todo \in Seq(DOMAIN NoJob.target)
  BY <1>1
<1> QED
  BY <1>1, <1>2, <1>3 DEF JobTyped, TargetTyped

\* A save that begins.
LEMMA StartTyped ==
  ASSUME StoreTypes, FlagTypes, NEW list, NEW target, NEW named, NEW good, NEW reboot \in BOOLEAN,
         Start(list, target, named, good, reboot), TargetTyped(target), list \in Seq(DOMAIN target),
         saves' \in 0..MaxSaves
  PROVE  StoreTypes' /\ FlagTypes'
<1>1. /\ job' = [todo |-> list, target |-> target, named |-> named, good |-> good, reboot |-> reboot]
      /\ UNCHANGED <<store, restartDue, phase, asicReady, login, validated, faults>>
  BY DEF Start
<1>2. JobTyped(job')
  BY <1>1 DEF JobTyped
<1>3. StoreTypes'
  BY <1>1, <1>2 DEF StoreTypes, store
<1>4. FlagTypes'
  BY <1>1 DEF FlagTypes, login
<1> QED
  BY <1>3, <1>4

LEMMA HandlerTyped ==
  ASSUME StoreTypes, FlagTypes, HandlerNext
  PROVE  StoreTypes' /\ FlagTypes'
<1>1. Cached(0) \in PoolCfg /\ Cached(1) \in PoolCfg
  BY SlotTyped DEF StoreTypes, Cached, Slots, Parts
<1>2. PoolOrder \in Seq(PoolFields)
  BY DEF PoolOrder, PoolFields, Slots
<1>3. Request => saves' \in 0..MaxSaves
  BY SettingsAssumption DEF Request, FlagTypes
<1>4. ASSUME NEW first \in PoolCfg, NEW second \in PoolCfg, NEW named, NEW good, NEW reboot \in BOOLEAN,
             Request, SetPools(first, second, named, good, reboot)
      PROVE  StoreTypes' /\ FlagTypes'
  <2>1. /\ TargetTyped(PoolsOf(first, second))
        /\ PoolOrder \in Seq(DOMAIN PoolsOf(first, second))
    BY <1>2, PoolsTyped
  <2>2. Start(PoolOrder, PoolsOf(first, second), named, good, reboot)
    BY <1>4 DEF SetPools
  <2> QED
    BY <1>3, <1>4, <2>1, <2>2, StartTyped
<1>5. CASE PostSettings
  <2>1. PICK p \in Accounts, good \in BOOLEAN :
          SetPools(Cfg(p, Cached(0).dcd), Kept(Cached(1)), FALSE, good, TRUE)
    BY <1>5 DEF PostSettings
  <2>2. Cfg(p, Cached(0).dcd) \in PoolCfg /\ Kept(Cached(1)) \in PoolCfg
    BY <1>1, CfgTyped
  <2> QED
    BY <1>4, <1>5, <2>1, <2>2 DEF PostSettings
<1>6. CASE PutPool
  <2>1. PICK p \in Accounts, q \in Accounts \cup {Blank}, named \in BOOLEAN :
          SetPools(Cfg(p, IF named THEN ~Cached(0).dcd ELSE Cached(0).dcd),
                   IF q = Blank THEN NoPool ELSE Cfg(q, IF named THEN ~Cached(1).dcd ELSE Cached(1).dcd),
                   named, TRUE, FALSE)
    BY <1>6 DEF PutPool
  <2>2. /\ (IF named THEN ~Cached(0).dcd ELSE Cached(0).dcd) \in BOOLEAN
        /\ (IF named THEN ~Cached(1).dcd ELSE Cached(1).dcd) \in BOOLEAN
    BY <1>1, CfgTyped
  <2>3. /\ Cfg(p, IF named THEN ~Cached(0).dcd ELSE Cached(0).dcd) \in PoolCfg
        /\ Cfg(q, IF named THEN ~Cached(1).dcd ELSE Cached(1).dcd) \in PoolCfg
    BY <2>2, CfgTyped
  <2> QED
    BY <1>4, <1>6, <2>1, <2>3, CfgTyped DEF PutPool
<1>7. CASE DeleteFallback
  BY <1>1, <1>4, <1>7, CfgTyped DEF DeleteFallback
<1>8. CASE DeletePrimary
  BY <1>1, <1>4, <1>8, CfgTyped DEF DeletePrimary
<1>11. ASSUME Request, NEW n \in Names, NEW good, NEW reboot \in BOOLEAN,
              Start(<<HostName>>, [k \in {HostName} |-> n], FALSE, good, reboot)
       PROVE  StoreTypes' /\ FlagTypes'
  <2> DEFINE target == [k \in {HostName} |-> n]
  <2>2. TargetTyped(target) /\ <<HostName>> \in Seq(DOMAIN target)
    BY FieldFacts DEF TargetTyped, Typed
  <2>3. Start(<<HostName>>, target, FALSE, good, reboot)
    BY <1>11
  <2> HIDE DEF target
  <2> QED
    BY <1>3, <1>11, <2>2, <2>3, StartTyped
<1>12. ASSUME Request, NEW good, Start(<<>>, <<>>, FALSE, good, TRUE)
       PROVE  StoreTypes' /\ FlagTypes'
  <2>1. TargetTyped(<<>>) /\ <<>> \in Seq(DOMAIN <<>>)
    BY DEF TargetTyped
  <2> QED
    BY <1>3, <1>12, <2>1, StartTyped
<1>9. CASE PatchSettings
  BY <1>9, <1>11, <1>12 DEF PatchSettings
<1>10. CASE ProvSave
  <2>1. PICK p \in Accounts :
          LET pools == PoolsOf(Untoggled(Cfg(p, TRUE)), Kept(Untoggled(Cached(1)))) IN
          Start(<<HostName>> \o PoolOrder, [k \in Fields |-> IF k = HostName THEN Derived ELSE pools[k]],
                FALSE, TRUE, FALSE)
    BY <1>10 DEF ProvSave
  <2> DEFINE first == Untoggled(Cfg(p, TRUE))
             second == Kept(Untoggled(Cached(1)))
             pools == PoolsOf(first, second)
             target == [k \in Fields |-> IF k = HostName THEN Derived ELSE pools[k]]
             list == <<HostName>> \o PoolOrder
  <2>2. first \in PoolCfg /\ second \in PoolCfg
    BY <1>1, CfgTyped
  <2> HIDE DEF first, second
  <2>3. TargetTyped(pools) /\ DOMAIN pools = PoolFields
    BY <2>2, PoolsTyped
  <2> HIDE DEF pools
  <2>4. \A k \in Fields : Typed(k, target[k])
    <3>1. Typed(HostName, Derived)
      BY SettingsAssumption DEF Typed
    <3>2. \A k \in PoolFields : Typed(k, pools[k])
      BY <2>3 DEF TargetTyped
    <3> QED
      BY <3>1, <3>2 DEF Fields
  <2>5. TargetTyped(target) /\ DOMAIN target = Fields
    BY <2>4 DEF TargetTyped
  <2>6. list \in Seq(Fields)
    <3>1. PoolOrder \in Seq(Fields) /\ <<HostName>> \in Seq(Fields)
      BY FieldFacts, PoolOrderFacts
    <3> QED
      BY <3>1
  <2>7. Start(list, target, FALSE, TRUE, FALSE)
    BY <2>1 DEF pools, first, second
  <2>8. saves' \in 0..MaxSaves
    BY <1>10 DEF ProvSave, FlagTypes
  <2> HIDE DEF target, list
  <2> QED
    BY <2>5, <2>6, <2>7, <2>8, StartTyped
<1> QED
  BY <1>5, <1>6, <1>7, <1>8, <1>9, <1>10 DEF HandlerNext

LEMMA JobStepTyped ==
  ASSUME StoreTypes, FlagTypes, JobNext
  PROVE  StoreTypes' /\ FlagTypes'
<1>1. CASE WriteKey
  <2> DEFINE k0 == Head(job.todo)
  <2>1. /\ job.todo # <<>> /\ nvs' = [nvs EXCEPT ![k0] = job.target[k0]]
        /\ cache' = IF Tail(job.todo) = <<>> THEN With(cache, job.target)
                    ELSE IF k0 = HostName THEN [cache EXCEPT ![k0] = job.target[k0]]
                    ELSE cache
        /\ torn' = torn \cup {k0} /\ acked' = acked
        /\ job' = [job EXCEPT !.todo = Tail(job.todo)]
        /\ UNCHANGED <<restartDue, phase, asicReady, wifi, prov, count, misses, validated, faults, saves>>
    BY <1>1 DEF WriteKey, login
  <2>2. JobTyped(job) /\ job.todo \in Seq(DOMAIN job.target) /\ DOMAIN job.target \subseteq Fields
    BY DEF StoreTypes, JobTyped, TargetTyped
  <2>3. k0 \in DOMAIN job.target /\ Tail(job.todo) \in Seq(DOMAIN job.target)
    BY <2>1, <2>2, HeadTailTyped
  <2>4. k0 \in Fields /\ Typed(k0, job.target[k0])
    BY <2>2, <2>3 DEF JobTyped, TargetTyped
  <2>5. JobTyped(job')
    BY <2>1, <2>2, <2>3 DEF JobTyped
  <2> HIDE DEF k0
  <2>9. RecTyped(With(cache, job.target))
    BY WithFacts DEF StoreTypes, JobTyped, TargetTyped, RecTyped
  <2>6. RecTyped(nvs') /\ RecTyped(cache')
    BY <2>1, <2>4, <2>9 DEF StoreTypes, RecTyped
  <2>7. StoreTypes'
    BY <2>1, <2>4, <2>5, <2>6 DEF StoreTypes
  <2>8. FlagTypes'
    BY <2>1 DEF FlagTypes
  <2> QED
    BY <2>7, <2>8
<1>2. CASE WriteFails \/ Refuse
  <2>1. job' = NoJob /\ UNCHANGED store
    BY <1>2 DEF WriteFails, Refuse
  <2>2. StoreTypes'
    BY <2>1, NoJobTyped DEF StoreTypes, store
  <2>3. faults' \in 0..MaxFaults
    BY <1>2, SettingsAssumption DEF WriteFails, Refuse, Fault, FlagTypes
  <2>4. UNCHANGED <<restartDue, phase, asicReady, wifi, prov, count, misses, validated, saves>>
    BY <1>2 DEF WriteFails, Refuse, login
  <2> QED
    BY <2>2, <2>3, <2>4 DEF FlagTypes
<1>3. CASE Acknowledge
  <2>1. /\ cache' = cache /\ acked' = With(acked, job.target)
        /\ torn' = torn \ DOMAIN job.target /\ job' = NoJob /\ nvs' = nvs
        /\ restartDue' = (restartDue \/ job.reboot)
        /\ UNCHANGED <<asicReady, prov, count, validated, faults, saves>>
        /\ \/ phase' = "formed" /\ wifi' \in {"right", "wrong"} /\ misses' = 0
           \/ UNCHANGED <<phase, wifi, misses>>
    BY <1>3 DEF Acknowledge
  <2>2. \A rec : RecTyped(rec) => RecTyped(With(rec, job.target))
    BY WithFacts DEF StoreTypes, JobTyped, TargetTyped, RecTyped
  <2>3. StoreTypes'
    BY <2>1, <2>2, NoJobTyped DEF StoreTypes
  <2>4. restartDue' \in BOOLEAN
    BY <2>1 DEF StoreTypes, JobTyped, FlagTypes
  <2>5. misses' \in 0..FailLimit /\ phase' \in Phases /\ wifi' \in {Blank, "right", "wrong"}
    BY <2>1, SettingsAssumption DEF FlagTypes, Phases
  <2> QED
    BY <2>1, <2>3, <2>4, <2>5 DEF FlagTypes
<1> QED
  BY <1>1, <1>2, <1>3 DEF JobNext

\* The steps that leave the saves and the copies alone, but for config_init().
LEMMA BootTyped ==
  ASSUME StoreTypes, FlagTypes,
         BootNext \/ PowerLoss \/ DeferredRestart \/ Validate \/ Update \/ NewPassword \/ UNCHANGED vars
  PROVE  StoreTypes' /\ FlagTypes'
<1>1. job' \in {job, NoJob} /\ UNCHANGED <<nvs, acked, torn>> /\ cache' \in {cache, nvs}
  BY DEF BootNext, ConfigInit, Forget, Unprovision, Recount, InitAsic, StaConnect, Adopt, Zero, Reboot,
         Join, JoinTimeout, Restarted, PowerLoss, DeferredRestart, Validate, Update, NewPassword, store, vars
<1>2. StoreTypes'
  BY <1>1, NoJobTyped DEF StoreTypes
<1>3. saves' = saves /\ validated' \in BOOLEAN /\ restartDue' \in BOOLEAN /\ asicReady' \in BOOLEAN /\ prov' \in BOOLEAN
  BY DEF BootNext, ConfigInit, Forget, Unprovision, Recount, InitAsic, StaConnect, Adopt, Zero, Reboot,
         Join, JoinTimeout, Restarted, PowerLoss, DeferredRestart, Validate, Update, NewPassword, login, vars,
         FlagTypes
<1>4. wifi' \in {Blank, "right", "wrong"}
  BY DEF BootNext, ConfigInit, Forget, Unprovision, Recount, InitAsic, StaConnect, Adopt, Zero, Reboot,
         Join, JoinTimeout, Restarted, PowerLoss, DeferredRestart, Validate, Update, NewPassword, login, vars,
         FlagTypes
<1>5. phase' \in Phases
  BY DEF BootNext, ConfigInit, Forget, Unprovision, Recount, InitAsic, StaConnect, Adopt, Zero, Reboot,
         Join, JoinTimeout, Restarted, PowerLoss, DeferredRestart, Validate, Update, NewPassword, Goto, vars,
         FlagTypes, Phases
<1>6. count' \in {count, 0} \/ (count < FailLimit /\ count' = count + 1)
  BY DEF BootNext, ConfigInit, Forget, Unprovision, Recount, InitAsic, StaConnect, Adopt, Zero, Reboot,
         Join, JoinTimeout, PowerLoss, DeferredRestart, Validate, Update, NewPassword, login, vars
<1>7. misses' \in {misses, 0} \/ (misses < FailLimit /\ misses' = misses + 1)
  BY DEF BootNext, ConfigInit, Forget, Unprovision, Recount, InitAsic, StaConnect, Adopt, Zero, Reboot,
         Join, JoinTimeout, PowerLoss, DeferredRestart, Validate, Update, NewPassword, login, vars
<1>8. faults' = faults \/ Fault
  BY DEF BootNext, ConfigInit, Forget, Unprovision, Recount, InitAsic, StaConnect, Adopt, Zero, Reboot,
         Join, JoinTimeout, PowerLoss, DeferredRestart, Validate, Update, NewPassword, vars
<1>9. count' \in 0..FailLimit /\ misses' \in 0..FailLimit
  BY <1>6, <1>7, SettingsAssumption DEF FlagTypes
<1>10. faults' \in 0..MaxFaults
  BY <1>8, SettingsAssumption DEF Fault, FlagTypes
<1>11. saves' \in 0..MaxSaves
  BY <1>3 DEF FlagTypes
<1> QED
  BY <1>2, <1>3, <1>4, <1>5, <1>9, <1>10, <1>11 DEF FlagTypes

\* Every variable of Settings keeps its type: in flash, in RAM and in what the
\* user was told, a field holds what that field may hold, whatever save was cut
\* short, and neither count passes the threshold.
THEOREM SettingsTypeCorrect == Spec => []TypeOK
<1>1. Init => StoreTypes /\ FlagTypes
  <2> SUFFICES ASSUME Init PROVE StoreTypes /\ FlagTypes
    OBVIOUS
  <2> DEFINE blank == [k \in Fields |-> IF k = HostName THEN Blank ELSE NoPool[k[2]]]
  <2>1. \A k \in PoolFields : Typed(k, NoPool[k[2]])
    BY PartTyped, CfgTyped
  <2>2. RecTyped(blank)
    BY <2>1 DEF RecTyped, Fields, Typed
  <2>3. nvs = blank /\ cache = blank /\ acked = blank /\ torn = {} /\ job = NoJob
    BY DEF Init
  <2> HIDE DEF blank
  <2>4. StoreTypes
    BY <2>2, <2>3, NoJobTyped DEF StoreTypes
  <2>5. count \in 0..FailLimit /\ misses \in 0..FailLimit /\ faults \in 0..MaxFaults /\ saves \in 0..MaxSaves
    BY SettingsAssumption DEF Init
  <2>6. phase \in Phases /\ wifi \in {Blank, "right", "wrong"}
    BY DEF Init, Phases
  <2>7. FlagTypes
    BY <2>5, <2>6 DEF Init, FlagTypes
  <2> QED
    BY <2>4, <2>7
<1>2. StoreTypes /\ FlagTypes /\ [Next]_vars => (StoreTypes /\ FlagTypes)'
  <2> SUFFICES ASSUME StoreTypes, FlagTypes, [Next]_vars PROVE StoreTypes' /\ FlagTypes'
    OBVIOUS
  <2> QED
    BY HandlerTyped, JobStepTyped, BootTyped DEF Next
<1>3. StoreTypes /\ FlagTypes => TypeOK
  <2> SUFFICES ASSUME StoreTypes, FlagTypes PROVE TypeOK
    OBVIOUS
  <2>1. ASSUME NEW rec \in {nvs, cache, acked}
        PROVE  /\ DOMAIN rec = Fields
               /\ \A i \in Slots : [f \in {"host", "acct", "dcd"} |-> rec[<<i, f>>]] \in PoolCfg
               /\ rec[HostName] \in Names \cup {Blank}
    <3>1. RecTyped(rec)
      BY DEF StoreTypes
    <3>2. \A i \in Slots : [f \in {"host", "acct", "dcd"} |-> rec[<<i, f>>]] \in PoolCfg
      BY <3>1, SlotTyped DEF Parts
    <3> QED
      BY <3>1, <3>2, FieldFacts DEF RecTyped, Typed
  <2> QED
    BY <2>1 DEF TypeOK, StoreTypes, FlagTypes
<1> QED
  BY <1>1, <1>2, <1>3, PTL DEF Spec

-----------------------------------------------------------------------------
(* Knot: the steps of a request *)

\* A program is a sequence of steps in which knot_deinit() is whole.
Programs == {s \in Seq(Steps) : Whole(s)}

LEMMA ProgramConcat ==
  ASSUME NEW s \in Programs, NEW t \in Programs
  PROVE  s \o t \in Programs /\ Items(s \o t) = Items(s) \cup Items(t)
<1> DEFINE u == s \o t
<1>1. /\ s \in Seq(Steps) /\ t \in Seq(Steps) /\ Whole(s) /\ Whole(t)
      /\ Len(s) \in Nat /\ Len(t) \in Nat
  BY DEF Programs
<1>2. /\ u \in Seq(Steps) /\ Len(u) = Len(s) + Len(t)
      /\ \A i \in 1..Len(u) : u[i] = IF i <= Len(s) THEN s[i] ELSE t[i - Len(s)]
  BY <1>1
<1> HIDE DEF u
<1>3. ASSUME NEW i \in 1..Len(u), u[i] = "stop"
      PROVE  i < Len(u) /\ u[i + 1] = "clear"
  <2>1. CASE i <= Len(s)
    <3>1. i \in 1..Len(s) /\ s[i] = "stop"
      BY <1>1, <1>2, <1>3, <2>1
    <3>2. i < Len(s) /\ s[i + 1] = "clear"
      BY <1>1, <3>1 DEF Whole
    <3>3. i + 1 \in 1..Len(u) /\ i + 1 <= Len(s)
      BY <1>1, <1>2, <3>2
    <3> QED
      BY <1>2, <3>2, <3>3
  <2>2. CASE i > Len(s)
    <3> DEFINE j == i - Len(s)
    <3>1. j \in 1..Len(t) /\ t[j] = "stop"
      BY <1>1, <1>2, <1>3, <2>2
    <3>2. j < Len(t) /\ t[j + 1] = "clear"
      BY <1>1, <3>1 DEF Whole
    <3>3. i + 1 \in 1..Len(u) /\ ~(i + 1 <= Len(s)) /\ (i + 1) - Len(s) = j + 1
      BY <1>1, <1>2, <2>2, <3>2
    <3>4. u[i + 1] = t[(i + 1) - Len(s)]
      BY <1>2, <3>3
    <3> QED
      BY <1>2, <3>2, <3>3, <3>4
  <2> QED
    BY <1>1, <2>1, <2>2
<1>4. Items(u) \subseteq Items(s) \cup Items(t)
  <2> SUFFICES ASSUME NEW i \in 1..Len(u) PROVE u[i] \in Items(s) \cup Items(t)
    BY DEF Items
  <2>1. CASE i <= Len(s)
    BY <1>1, <1>2, <2>1 DEF Items
  <2>2. CASE i > Len(s)
    <3>1. i - Len(s) \in 1..Len(t) /\ u[i] = t[i - Len(s)]
      BY <1>1, <1>2, <2>2
    <3> QED
      BY <3>1 DEF Items
  <2> QED
    BY <1>1, <2>1, <2>2
<1>5. Items(s) \subseteq Items(u)
  <2> SUFFICES ASSUME NEW i \in 1..Len(s) PROVE s[i] \in Items(u)
    BY DEF Items
  <2>1. i \in 1..Len(u) /\ u[i] = s[i]
    BY <1>1, <1>2
  <2> QED
    BY <2>1 DEF Items
<1>6. Items(t) \subseteq Items(u)
  <2> SUFFICES ASSUME NEW i \in 1..Len(t) PROVE t[i] \in Items(u)
    BY DEF Items
  <2>1. i + Len(s) \in 1..Len(u) /\ ~(i + Len(s) <= Len(s)) /\ (i + Len(s)) - Len(s) = i
    BY <1>1, <1>2
  <2>2. u[i + Len(s)] = t[(i + Len(s)) - Len(s)]
    BY <1>2, <2>1
  <2> QED
    BY <2>1, <2>2 DEF Items
<1> QED
  BY <1>2, <1>3, <1>4, <1>5, <1>6 DEF Programs, Whole, u

LEMMA ProgramTail ==
  ASSUME NEW s \in Programs, s # <<>>
  PROVE  /\ Tail(s) \in Programs
         /\ Items(Tail(s)) \subseteq Items(s)
         /\ Items(s) \subseteq Items(Tail(s)) \cup {Head(s)}
         /\ Head(s) = "stop" => Tail(s) # <<>> /\ Head(Tail(s)) = "clear"
<1> DEFINE t == Tail(s)
<1>1. s \in Seq(Steps) /\ Whole(s) /\ Len(s) \in Nat /\ Len(s) > 0 /\ Head(s) = s[1]
  BY DEF Programs
<1>2. /\ t \in Seq(Steps) /\ Len(t) = Len(s) - 1
      /\ \A i \in 1..Len(t) : t[i] = s[i + 1]
  BY <1>1
<1> HIDE DEF t
<1>3. ASSUME NEW i \in 1..Len(t), t[i] = "stop"
      PROVE  i < Len(t) /\ t[i + 1] = "clear"
  <2>1. i + 1 \in 1..Len(s) /\ s[i + 1] = "stop"
    BY <1>1, <1>2, <1>3
  <2>2. i + 1 < Len(s) /\ s[(i + 1) + 1] = "clear"
    BY <1>1, <2>1 DEF Whole
  <2>3. i < Len(t) /\ i + 1 \in 1..Len(t)
    BY <1>1, <1>2, <2>2
  <2> QED
    BY <1>2, <2>2, <2>3
<1>4. Items(t) \subseteq Items(s)
  <2> SUFFICES ASSUME NEW i \in 1..Len(t) PROVE t[i] \in Items(s)
    BY DEF Items
  <2>1. i + 1 \in 1..Len(s) /\ t[i] = s[i + 1]
    BY <1>1, <1>2
  <2> QED
    BY <2>1 DEF Items
<1>5. Items(s) \subseteq Items(t) \cup {Head(s)}
  <2> SUFFICES ASSUME NEW i \in 1..Len(s), i # 1 PROVE s[i] \in Items(t)
    BY <1>1 DEF Items
  <2>1. i - 1 \in 1..Len(t) /\ (i - 1) + 1 = i
    BY <1>1, <1>2
  <2>2. t[i - 1] = s[(i - 1) + 1]
    BY <1>2, <2>1
  <2> QED
    BY <2>1, <2>2 DEF Items
<1>6. Head(s) = "stop" => t # <<>> /\ Head(t) = "clear"
  <2> SUFFICES ASSUME Head(s) = "stop" PROVE t # <<>> /\ Head(t) = "clear"
    OBVIOUS
  <2>1. 1 < Len(s) /\ s[1 + 1] = "clear"
    BY <1>1 DEF Whole
  <2>2. 1 \in 1..Len(t) /\ t[1] = "clear"
    BY <1>1, <1>2, <2>1
  <2> QED
    BY <1>2, <2>2
<1> QED
  BY <1>2, <1>3, <1>4, <1>5, <1>6 DEF Programs, Whole, t

LEMMA HeadItem ==
  ASSUME NEW s \in Seq(Steps), s # <<>>
  PROVE  Head(s) \in Items(s)
<1>1. Len(s) \in Nat /\ Len(s) > 0 /\ Head(s) = s[1]
  OBVIOUS
<1> QED
  BY <1>1 DEF Items

LEMMA NoSteps == <<>> \in Programs /\ Items(<<>>) = {}
BY DEF Programs, Whole, Items

LEMMA OneStep ==
  ASSUME NEW a \in Steps, a # "stop"
  PROVE  <<a>> \in Programs /\ Items(<<a>>) = {a}
<1>1. <<a>> \in Seq(Steps) /\ 1..Len(<<a>>) = {1} /\ <<a>>[1] = a
  OBVIOUS
<1> QED
  BY <1>1 DEF Programs, Whole, Items

LEMMA TwoSteps ==
  ASSUME NEW a \in Steps, NEW b \in Steps, b # "stop", a = "stop" => b = "clear"
  PROVE  <<a, b>> \in Programs /\ Items(<<a, b>>) = {a, b}
<1> DEFINE s == <<a, b>>
<1>1. s \in Seq(Steps) /\ Len(s) = 2 /\ 1..Len(s) = {1, 2} /\ s[1] = a /\ s[2] = b
  OBVIOUS
<1> HIDE DEF s
<1>2. Items(s) = {a, b}
  BY <1>1 DEF Items
<1>3. Whole(s)
  BY <1>1 DEF Whole
<1> QED
  BY <1>1, <1>2, <1>3 DEF Programs, s

LEMMA DeinitProgram == KnotDeinit \in Programs /\ Items(KnotDeinit) = {"stop", "clear"}
BY TwoSteps DEF KnotDeinit, Steps

LEMMA RearmProgram == KnotRearm \in Programs /\ Items(KnotRearm) = {"init", "self"}
BY TwoSteps DEF KnotRearm, Steps

LEMMA BootProgram ==
  BootSteps \in Programs /\ Items(BootSteps) = {"mdns_at_boot", "knot_at_boot"}
BY TwoSteps DEF BootSteps, Steps

\* What a change of mdns_en adds.
LEMMA MdnsProgram ==
  ASSUME NEW m
  PROVE  /\ MdnsSteps(m) \in Programs
         /\ Items(MdnsSteps(m)) \cap {"init", "knot_on", "tell_off"} = {}
         /\ m = "off" /\ saved.mdns => "clear" \in Items(MdnsSteps(m))
<1>1. CASE m = "off" /\ saved.mdns
  <2> DEFINE down == <<"mdns_down", "mdns_off">>
  <2>1. down \in Programs /\ Items(down) = {"mdns_down", "mdns_off"}
    BY TwoSteps DEF Steps
  <2>2. MdnsSteps(m) = KnotDeinit \o down
    BY <1>1 DEF MdnsSteps
  <2> HIDE DEF down
  <2>3. /\ KnotDeinit \o down \in Programs
        /\ Items(KnotDeinit \o down) = {"stop", "clear"} \cup {"mdns_down", "mdns_off"}
    BY <2>1, DeinitProgram, ProgramConcat
  <2> QED
    BY <2>2, <2>3
<1>2. CASE m = "on" /\ ~saved.mdns
  <2>1. MdnsSteps(m) = <<"mdns_on", "mdns_up">>
    BY <1>2 DEF MdnsSteps
  <2>2. /\ <<"mdns_on", "mdns_up">> \in Programs
        /\ Items(<<"mdns_on", "mdns_up">>) = {"mdns_on", "mdns_up"}
    BY TwoSteps DEF Steps
  <2> QED
    BY <1>2, <2>1, <2>2
<1>3. CASE ~(m = "off" /\ saved.mdns) /\ ~(m = "on" /\ ~saved.mdns)
  <2>1. MdnsSteps(m) = <<>>
    BY <1>3 DEF MdnsSteps
  <2> QED
    BY <1>3, <2>1, NoSteps
<1> QED
  BY <1>1, <1>2, <1>3

\* What knot_en alone, and with mdns_en, adds when it turns knot off: it saves
\* that, and stops a knot that runs then.
LEMMA OffAlone ==
  /\ KnotAlone("off") \in Programs
  /\ Items(KnotAlone("off")) \subseteq {"stop", "clear", "knot_off"}
  /\ "knot_off" \in Items(KnotAlone("off"))
  /\ running => "clear" \in Items(KnotAlone("off"))
<1>1. <<"knot_off">> \in Programs /\ Items(<<"knot_off">>) = {"knot_off"}
  BY OneStep DEF Steps
<1>2. CASE running
  <2>1. KnotAlone("off") = KnotDeinit \o <<"knot_off">>
    BY <1>2 DEF KnotAlone
  <2>2. /\ KnotDeinit \o <<"knot_off">> \in Programs
        /\ Items(KnotDeinit \o <<"knot_off">>) = {"stop", "clear"} \cup {"knot_off"}
    BY <1>1, DeinitProgram, ProgramConcat
  <2> QED
    BY <2>1, <2>2
<1>3. CASE ~running
  <2>1. KnotAlone("off") = <<"knot_off">>
    BY <1>3 DEF KnotAlone
  <2> QED
    BY <1>1, <1>3, <2>1
<1> QED
  BY <1>2, <1>3

LEMMA OffBoth ==
  ASSUME NEW m
  PROVE  /\ KnotBoth(m, "off") \in Programs
         /\ Items(KnotBoth(m, "off")) \subseteq {"stop", "clear", "knot_off"}
         /\ "knot_off" \in Items(KnotBoth(m, "off"))
         /\ running => \/ "clear" \in Items(KnotBoth(m, "off"))
                       \/ m = "off" /\ saved.mdns
<1> DEFINE up == running /\ ~(m = "off" /\ saved.mdns)
<1>1. <<"knot_off">> \in Programs /\ Items(<<"knot_off">>) = {"knot_off"}
  BY OneStep DEF Steps
<1>2. CASE up
  <2>1. KnotBoth(m, "off") = <<"knot_off">> \o KnotDeinit
    BY <1>2 DEF KnotBoth
  <2>2. /\ <<"knot_off">> \o KnotDeinit \in Programs
        /\ Items(<<"knot_off">> \o KnotDeinit) = {"knot_off"} \cup {"stop", "clear"}
    BY <1>1, DeinitProgram, ProgramConcat
  <2> QED
    BY <2>1, <2>2
<1>3. CASE ~up
  <2>1. KnotBoth(m, "off") = <<"knot_off">>
    BY <1>3 DEF KnotBoth
  <2> QED
    BY <1>1, <1>3, <2>1
<1> QED
  BY <1>2, <1>3

\* Turning it on says nothing to the user yet.
OnItems == {"knot_on", "init", "self"}

LEMMA OnAlone ==
  KnotAlone("on") \in Programs /\ Items(KnotAlone("on")) \subseteq OnItems
<1>1. <<"knot_on">> \in Programs /\ Items(<<"knot_on">>) = {"knot_on"}
  BY OneStep DEF Steps
<1>2. CASE ~running /\ saved.mdns
  <2>1. KnotAlone("on") = <<"knot_on">> \o KnotRearm
    BY <1>2 DEF KnotAlone
  <2>2. /\ <<"knot_on">> \o KnotRearm \in Programs
        /\ Items(<<"knot_on">> \o KnotRearm) = {"knot_on"} \cup {"init", "self"}
    BY <1>1, RearmProgram, ProgramConcat
  <2> QED
    BY <2>1, <2>2 DEF OnItems
<1>3. CASE ~(~running /\ saved.mdns)
  <2>1. KnotAlone("on") = <<>>
    BY <1>3 DEF KnotAlone
  <2> QED
    BY <2>1, NoSteps
<1> QED
  BY <1>2, <1>3

LEMMA OnBoth ==
  ASSUME NEW m
  PROVE  KnotBoth(m, "on") \in Programs /\ Items(KnotBoth(m, "on")) \subseteq OnItems
<1> DEFINE up == running /\ ~(m = "off" /\ saved.mdns)
<1>1. <<"knot_on">> \in Programs /\ Items(<<"knot_on">>) = {"knot_on"}
  BY OneStep DEF Steps
<1>2. CASE up
  <2>1. KnotBoth(m, "on") = <<"knot_on">> \o <<>>
    BY <1>2 DEF KnotBoth
  <2>2. /\ <<"knot_on">> \o <<>> \in Programs
        /\ Items(<<"knot_on">> \o <<>>) = {"knot_on"} \cup {}
    BY <1>1, NoSteps, ProgramConcat
  <2> QED
    BY <2>1, <2>2 DEF OnItems
<1>3. CASE ~up
  <2>1. KnotBoth(m, "on") = <<"knot_on">> \o KnotRearm
    BY <1>3 DEF KnotBoth
  <2>2. /\ <<"knot_on">> \o KnotRearm \in Programs
        /\ Items(<<"knot_on">> \o KnotRearm) = {"knot_on"} \cup {"init", "self"}
    BY <1>1, RearmProgram, ProgramConcat
  <2> QED
    BY <2>1, <2>2 DEF OnItems
<1> QED
  BY <1>2, <1>3

\* The answer stays the last step as a request goes on.
LEMMA TellsLastTail ==
  ASSUME NEW s \in Programs, s # <<>>, TellsLast(s)
  PROVE  TellsLast(Tail(s)) /\ (Head(s) = "tell_off" => Items(s) = {"tell_off"})
<1> DEFINE t == Tail(s)
<1>1. s \in Seq(Steps) /\ Len(s) \in Nat /\ Len(s) > 0 /\ Head(s) = s[1]
  BY DEF Programs
<1>2. Len(t) = Len(s) - 1 /\ \A i \in 1..Len(t) : t[i] = s[i + 1]
  BY <1>1
<1> HIDE DEF t
<1>3. ASSUME NEW i \in 1..Len(t), t[i] = "tell_off"
      PROVE  i = Len(t)
  <2>1. i + 1 \in 1..Len(s) /\ s[i + 1] = "tell_off"
    BY <1>1, <1>2, <1>3
  <2>2. i + 1 = Len(s)
    BY <2>1 DEF TellsLast
  <2> QED
    BY <1>1, <1>2, <2>2
<1>4. ASSUME Head(s) = "tell_off"
      PROVE  Items(s) = {"tell_off"}
  <2>1. Len(s) = 1
    BY <1>1, <1>4 DEF TellsLast
  <2>2. 1..Len(s) = 1..1
    BY <2>1, Zenon
  <2>3. 1..1 = {1}
    OBVIOUS
  <2>4. s[1] = "tell_off"
    BY <1>1, <1>4
  <2> QED
    BY <2>2, <2>3, <2>4 DEF Items
<1>5. TellsLast(t)
  BY <1>3 DEF TellsLast
<1>6. t = Tail(s)
  BY DEF t
<1> QED
  BY <1>4, <1>5, <1>6, Zenon

LEMMA TellsLastConcat ==
  ASSUME NEW s \in Programs, NEW t \in Programs, "tell_off" \notin Items(s), TellsLast(t)
  PROVE  TellsLast(s \o t)
<1> DEFINE u == s \o t
<1>1. s \in Seq(Steps) /\ t \in Seq(Steps) /\ Len(s) \in Nat /\ Len(t) \in Nat
  BY DEF Programs
<1>2. /\ Len(u) = Len(s) + Len(t)
      /\ \A i \in 1..Len(u) : u[i] = IF i <= Len(s) THEN s[i] ELSE t[i - Len(s)]
  BY <1>1
<1> HIDE DEF u
<1>3. ASSUME NEW i \in 1..Len(u), u[i] = "tell_off"
      PROVE  i = Len(u)
  <2>1. ~(i <= Len(s))
    BY <1>1, <1>2, <1>3 DEF Items
  <2>2. i - Len(s) \in 1..Len(t) /\ t[i - Len(s)] = "tell_off"
    BY <1>1, <1>2, <1>3, <2>1
  <2>3. i - Len(s) = Len(t)
    BY <2>2 DEF TellsLast
  <2> QED
    BY <1>1, <1>2, <2>3
<1> QED
  BY <1>3 DEF TellsLast, u

LEMMA TellsNot ==
  ASSUME NEW s, "tell_off" \notin Items(s)
  PROVE  TellsLast(s)
BY DEF TellsLast, Items

LEMMA TellProgram ==
  /\ <<"tell_off">> \in Programs /\ Items(<<"tell_off">>) = {"tell_off"}
  /\ TellsLast(<<"tell_off">>)
<1>1. <<"tell_off">> \in Programs /\ Items(<<"tell_off">>) = {"tell_off"}
  BY OneStep DEF Steps
<1>2. TellsLast(<<"tell_off">>)
  <2>1. Len(<<"tell_off">>) = 1
    OBVIOUS
  <2> QED
    BY <2>1 DEF TellsLast
<1> QED
  BY <1>1, <1>2

-----------------------------------------------------------------------------
(* Knot: off stays off *)

LEMMA OffInit == PeersInit => OffInv
<1> SUFFICES ASSUME PeersInit PROVE OffInv
  OBVIOUS
<1>1. /\ todo = BootSteps /\ running = FALSE /\ off = ~saved.knot
      /\ saved \in [mdns : BOOLEAN, knot : BOOLEAN]
  BY DEF PeersInit
<1>2. todo \in Programs /\ Items(todo) = {"mdns_at_boot", "knot_at_boot"}
  BY <1>1, BootProgram
<1>3. TellsLast(todo)
  BY <1>2, TellsNot
<1> QED
  BY <1>1, <1>2, <1>3 DEF OffInv, Programs

\* A step that ends, of those that neither stop knot nor save that it is off.
LEMMA OffPassed ==
  ASSUME OffInv, todo # <<>>, todo' = Tail(todo), UNCHANGED <<running, off, saved>>,
         Head(todo) # "clear", Head(todo) # "knot_off"
  PROVE  OffInv'
<1>1. todo \in Programs /\ TellsLast(todo)
  BY DEF OffInv, Programs
<1>2. /\ todo' \in Programs /\ TellsLast(todo')
      /\ Items(todo') \subseteq Items(todo) /\ Items(todo) \subseteq Items(todo') \cup {Head(todo)}
  BY <1>1, ProgramTail, TellsLastTail
<1>3. /\ "clear" \in Items(todo) => "clear" \in Items(todo')
      /\ "knot_off" \in Items(todo) => "knot_off" \in Items(todo')
  BY <1>2
<1> QED
  BY <1>2, <1>3 DEF OffInv, Programs

\* A request that ends early.
LEMMA OffEmptied ==
  ASSUME OffInv, todo' = <<>>, UNCHANGED <<running, off, saved>>
  PROVE  OffInv'
<1>1. todo' \in Programs /\ Items(todo') = {}
  BY NoSteps
<1>2. TellsLast(todo')
  BY <1>1, TellsNot
<1> QED
  BY <1>1, <1>2 DEF OffInv, Programs

LEMMA OffRebooted == OffInv /\ Rebooted /\ UNCHANGED <<saved, off>> => OffInv'
<1> SUFFICES ASSUME OffInv, Rebooted, UNCHANGED <<saved, off>> PROVE OffInv'
  OBVIOUS
<1>1. todo' = BootSteps /\ running' = FALSE
  BY DEF Rebooted
<1>2. todo' \in Programs /\ Items(todo') = {"mdns_at_boot", "knot_at_boot"}
  BY <1>1, BootProgram
<1>3. TellsLast(todo')
  BY <1>2, TellsNot
<1> QED
  BY <1>1, <1>2, <1>3 DEF OffInv, Programs

LEMMA OffPatched ==
  ASSUME OffInv, running \in BOOLEAN, off \in BOOLEAN, saved \in [mdns : BOOLEAN, knot : BOOLEAN],
         NEW m \in {"absent", "on", "off"}, NEW k \in {"absent", "on", "off"}, Patch(m, k)
  PROVE  OffInv'
<1> DEFINE knotPart == IF k = "absent" THEN <<>> ELSE IF m = "absent" THEN KnotAlone(k) ELSE KnotBoth(m, k)
           tellPart == IF k = "off" THEN <<"tell_off">> ELSE <<>>
           head == MdnsSteps(m) \o knotPart
<1>1. /\ todo' = head \o tellPart
      /\ off' = (off /\ k # "on")
      /\ UNCHANGED <<running, saved>>
  BY DEF Patch, radio
<1>2. /\ MdnsSteps(m) \in Programs
      /\ Items(MdnsSteps(m)) \cap {"init", "knot_on", "tell_off"} = {}
      /\ m = "off" /\ saved.mdns => "clear" \in Items(MdnsSteps(m))
  BY MdnsProgram
<1>3. CASE k = "absent"
  <2>1. knotPart = <<>> /\ tellPart = <<>>
    BY <1>3
  <2> HIDE DEF knotPart, tellPart
  <2>2. head \in Programs /\ Items(head) = Items(MdnsSteps(m)) \cup {}
    BY <1>2, <2>1, NoSteps, ProgramConcat
  <2> HIDE DEF head
  <2>3. todo' \in Programs /\ Items(todo') = Items(head) \cup {}
    BY <1>1, <2>1, <2>2, NoSteps, ProgramConcat
  <2>4. Items(todo') \cap {"init", "knot_on", "tell_off"} = {}
    BY <1>2, <2>2, <2>3
  <2>5. TellsLast(todo')
    BY <2>4, TellsNot
  <2> QED
    BY <1>1, <1>3, <2>3, <2>4, <2>5 DEF OffInv, Programs
<1>4. CASE k = "off"
  <2>1. /\ knotPart \in Programs
        /\ Items(knotPart) \subseteq {"stop", "clear", "knot_off"}
        /\ "knot_off" \in Items(knotPart)
        /\ running => "clear" \in Items(knotPart) \/ (m = "off" /\ saved.mdns)
    <3>1. CASE m = "absent"
      BY <1>4, <3>1, OffAlone
    <3>2. CASE m # "absent"
      BY <1>4, <3>2, OffBoth
    <3> QED
      BY <3>1, <3>2
  <2>2. tellPart = <<"tell_off">>
    BY <1>4
  <2> HIDE DEF knotPart, tellPart
  <2>3. head \in Programs /\ Items(head) = Items(MdnsSteps(m)) \cup Items(knotPart)
    BY <1>2, <2>1, ProgramConcat
  <2> HIDE DEF head
  <2>4. "tell_off" \notin Items(head)
    BY <1>2, <2>1, <2>3
  <2>5. todo' \in Programs /\ Items(todo') = Items(head) \cup {"tell_off"} /\ TellsLast(todo')
    BY <1>1, <2>2, <2>3, <2>4, TellProgram, ProgramConcat, TellsLastConcat
  <2>6. /\ {"init", "knot_on"} \cap Items(todo') = {}
        /\ "knot_off" \in Items(todo')
        /\ running => "clear" \in Items(todo')
    BY <1>2, <2>1, <2>3, <2>5
  <2> QED
    BY <1>1, <1>4, <2>5, <2>6 DEF OffInv, Programs
<1>5. CASE k = "on"
  <2>1. knotPart \in Programs /\ Items(knotPart) \subseteq OnItems
    <3>1. CASE m = "absent"
      BY <1>5, <3>1, OnAlone
    <3>2. CASE m # "absent"
      BY <1>5, <3>2, OnBoth
    <3> QED
      BY <3>1, <3>2
  <2>2. tellPart = <<>>
    BY <1>5
  <2> HIDE DEF knotPart, tellPart
  <2>3. head \in Programs /\ Items(head) = Items(MdnsSteps(m)) \cup Items(knotPart)
    BY <1>2, <2>1, ProgramConcat
  <2> HIDE DEF head
  <2>4. todo' \in Programs /\ Items(todo') = Items(head) \cup {}
    BY <1>1, <2>2, <2>3, NoSteps, ProgramConcat
  <2>5. "tell_off" \notin Items(todo')
    BY <1>2, <2>1, <2>3, <2>4 DEF OnItems
  <2>6. TellsLast(todo')
    BY <2>5, TellsNot
  <2>7. off' = FALSE
    BY <1>1, <1>5
  <2> QED
    BY <2>4, <2>5, <2>6, <2>7 DEF OffInv, Programs
<1> QED
  BY <1>3, <1>4, <1>5

PeersFlags == {selfSet, running, browsing, mdns, off} \subseteq BOOLEAN /\ saved \in [mdns : BOOLEAN, knot : BOOLEAN]

LEMMA OffNext == ASSUME OffInv, PeersFlags, [PeersNext]_peersVars PROVE OffInv'
<1>0. running \in BOOLEAN /\ off \in BOOLEAN /\ saved \in [mdns : BOOLEAN, knot : BOOLEAN]
  BY DEF PeersFlags
<1>1. CASE UNCHANGED <<todo, running, off, saved>>
  BY <1>1 DEF OffInv
<1>2. ASSUME todo # <<>>, todo' = Tail(todo), UNCHANGED <<running, off, saved>>,
             Head(todo) # "clear", Head(todo) # "knot_off"
      PROVE  OffInv'
  BY <1>2, OffPassed
<1>3. CASE Browse \/ OnPeerDiscovered \/ OnPeerRemoved \/ MissCall
  BY <1>1, <1>3 DEF Browse, OnPeerDiscovered, OnPeerRemoved, MissCall, radio
<1>4. CASE MdnsAtBoot \/ KnotSetSelf \/ MdnsUp \/ MdnsDown
  BY <1>2, <1>4 DEF MdnsAtBoot, KnotSetSelf, MdnsUp, MdnsDown, Step, Done, radio
<1>5. CASE KnotAtBoot
  <2>1. CASE saved.knot /\ saved.mdns
    <3>1. todo' = KnotRearm /\ UNCHANGED <<running, off, saved>>
      BY <1>5, <2>1 DEF KnotAtBoot, KnotRearm, radio
    <3>2. todo' \in Programs /\ Items(todo') = {"init", "self"}
      BY <3>1, RearmProgram
    <3>3. TellsLast(todo')
      BY <3>2, TellsNot
    <3> QED
      BY <2>1, <3>1, <3>2, <3>3 DEF OffInv, Programs
  <2>2. CASE ~(saved.knot /\ saved.mdns)
    BY <1>5, <2>2, OffEmptied DEF KnotAtBoot, radio
  <2> QED
    BY <2>1, <2>2
<1>6. CASE KnotInit
  <2>1. /\ todo # <<>> /\ Head(todo) = "init" /\ todo' = Tail(todo) /\ running' = TRUE
        /\ UNCHANGED <<off, saved>>
    BY <1>6 DEF KnotInit, Step, Done
  <2>2. todo \in Programs /\ TellsLast(todo)
    BY DEF OffInv, Programs
  <2>3. Head(todo) \in Items(todo)
    BY <2>1, <2>2, HeadItem DEF Programs
  <2>4. ~off /\ "tell_off" \notin Items(todo)
    BY <2>1, <2>3 DEF OffInv
  <2>5. todo' \in Programs /\ Items(todo') \subseteq Items(todo) /\ TellsLast(todo')
    BY <2>1, <2>2, ProgramTail, TellsLastTail
  <2> QED
    BY <2>1, <2>4, <2>5 DEF OffInv, Programs
<1>7. CASE KnotInitFails \/ Restart
  BY <1>7, OffRebooted DEF KnotInitFails, Restart
<1>8. CASE BrowseStop
  <2>1. /\ todo # <<>> /\ Head(todo) = "stop" /\ UNCHANGED <<running, off, saved>>
        /\ todo' = IF running THEN Tail(todo) ELSE Tail(Tail(todo))
    BY <1>8 DEF BrowseStop, Step
  <2>2. CASE running
    BY <1>2, <2>1, <2>2
  <2>3. CASE ~running
    <3> DEFINE t == Tail(todo)
    <3>1. todo \in Programs /\ TellsLast(todo)
      BY DEF OffInv, Programs
    <3>2. /\ t \in Programs /\ TellsLast(t) /\ t # <<>> /\ Head(t) = "clear"
          /\ Items(t) \subseteq Items(todo) /\ Items(todo) \subseteq Items(t) \cup {"stop"}
      BY <2>1, <3>1, ProgramTail, TellsLastTail
    <3>3. todo' = Tail(t)
      BY <2>1, <2>3
    <3> HIDE DEF t
    <3>4. /\ todo' \in Programs /\ TellsLast(todo')
          /\ Items(todo') \subseteq Items(t) /\ Items(t) \subseteq Items(todo') \cup {"clear"}
      BY <3>2, <3>3, ProgramTail, TellsLastTail
    <3>5. "knot_off" \in Items(todo) => "knot_off" \in Items(todo')
      BY <3>2, <3>4
    <3>6. Items(todo') \subseteq Items(todo)
      BY <3>2, <3>4
    <3> QED
      BY <2>1, <2>3, <3>4, <3>5, <3>6 DEF OffInv, Programs
  <2> QED
    BY <2>2, <2>3
<1>9. ASSUME todo # <<>>, todo' = Tail(todo), UNCHANGED off, running' => running,
             saved'.knot => saved.knot,
             Head(todo) = "clear" => ~running', Head(todo) = "knot_off" => ~saved'.knot
      PROVE  OffInv'
  <2>1. todo \in Programs /\ TellsLast(todo)
    BY DEF OffInv, Programs
  <2>2. /\ todo' \in Programs /\ TellsLast(todo')
        /\ Items(todo') \subseteq Items(todo) /\ Items(todo) \subseteq Items(todo') \cup {Head(todo)}
    BY <1>9, <2>1, ProgramTail, TellsLastTail
  <2>3. /\ Head(todo) # "clear" /\ "clear" \in Items(todo) => "clear" \in Items(todo')
        /\ Head(todo) # "knot_off" /\ "knot_off" \in Items(todo) => "knot_off" \in Items(todo')
    BY <2>2
  <2> QED
    BY <1>9, <2>2, <2>3 DEF OffInv, Programs
<1>10. CASE Clear
  <2>1. /\ todo # <<>> /\ todo' = Tail(todo) /\ UNCHANGED <<off, saved>> /\ running' = FALSE
        /\ Head(todo) = "clear"
    BY <1>10 DEF Clear, Step, Done
  <2> QED
    BY <1>9, <2>1
<1>11. CASE Tell
  <2>1. /\ todo # <<>> /\ todo' = Tail(todo) /\ off' = TRUE /\ UNCHANGED <<running, saved>>
        /\ Head(todo) = "tell_off"
    BY <1>11 DEF Tell, Step, Done, radio
  <2>2. todo \in Programs /\ TellsLast(todo)
    BY DEF OffInv, Programs
  <2>3. /\ Items(todo) = {"tell_off"} /\ todo' \in Programs /\ TellsLast(todo')
        /\ Items(todo') \subseteq Items(todo)
    BY <2>1, <2>2, ProgramTail, TellsLastTail
  <2>4. ~running /\ ~saved.knot
    BY <2>3 DEF OffInv
  <2>5. {"init", "knot_on"} \cap Items(todo') = {}
    BY <2>3
  <2> QED
    BY <2>1, <2>3, <2>4, <2>5 DEF OffInv, Programs
<1>12. ASSUME NEW name, NEW key \in {"mdns", "knot"}, NEW value \in BOOLEAN, Save(name, key, value),
              key = "knot" /\ value => name = "knot_on", name = "knot_off" => key = "knot" /\ ~value,
              name # "clear"
       PROVE  OffInv'
  <2>1. /\ todo # <<>> /\ Head(todo) = name /\ UNCHANGED <<running, off>>
        /\ \/ saved' = [saved EXCEPT ![key] = value] /\ todo' = Tail(todo)
           \/ todo' = <<>> /\ UNCHANGED saved
    BY <1>12 DEF Save, Step, Done, radio
  <2>2. CASE todo' = <<>> /\ UNCHANGED saved
    BY <2>1, <2>2, OffEmptied
  <2>3. CASE saved' = [saved EXCEPT ![key] = value] /\ todo' = Tail(todo)
    <3>1. CASE key = "mdns"
      <4>1. saved'.knot = saved.knot
        BY <1>0, <2>3, <3>1
      <4> QED
        BY <1>9, <1>12, <2>1, <2>3, <3>1, <4>1
    <3>2. CASE key = "knot" /\ ~value
      <4>1. ~saved'.knot
        BY <1>0, <2>3, <3>2
      <4> QED
        BY <1>9, <1>12, <2>1, <2>3, <4>1
    <3>3. CASE key = "knot" /\ value
      <4>1. todo \in Programs /\ TellsLast(todo) /\ Head(todo) = "knot_on"
        BY <1>12, <2>1, <3>3 DEF OffInv, Programs
      <4>2. "knot_on" \in Items(todo)
        BY <2>1, <4>1, HeadItem DEF Programs
      <4>3. ~off /\ "tell_off" \notin Items(todo)
        BY <4>2 DEF OffInv
      <4>4. todo' \in Programs /\ Items(todo') \subseteq Items(todo) /\ TellsLast(todo')
        BY <2>1, <2>3, <4>1, ProgramTail, TellsLastTail
      <4> QED
        BY <2>1, <4>3, <4>4 DEF OffInv, Programs
    <3> QED
      BY <3>1, <3>2, <3>3
  <2> QED
    BY <2>1, <2>2, <2>3
<1>13. CASE SaveMdns \/ SaveKnot
  BY <1>12, <1>13 DEF SaveMdns, SaveKnot
<1>14. CASE Walk
  <2>1. todo' = <<"walk">> /\ UNCHANGED <<running, off, saved>>
    BY <1>14 DEF Walk, radio
  <2>2. "walk" \in Steps /\ "walk" # "stop"
    BY DEF Steps
  <2>3. <<"walk">> \in Programs /\ Items(<<"walk">>) = {"walk"}
    BY <2>2, OneStep, Zenon
  <2>4. TellsLast(<<"walk">>)
    BY <2>3, TellsNot
  <2>5. todo' \in Programs /\ Items(todo') = {"walk"} /\ TellsLast(todo')
    BY <2>1, <2>3, <2>4, Zenon
  <2> QED
    BY <2>1, <2>5 DEF OffInv, Programs
<1>15. CASE WalkEnd
  <2>1. /\ todo = <<"walk">> /\ todo' = Tail(todo) /\ UNCHANGED <<running, off, saved>>
    BY <1>15 DEF WalkEnd, Walking, Done, radio
  <2>2. todo # <<>> /\ Head(todo) = "walk"
    BY <2>1
  <2> QED
    BY <1>2, <2>1, <2>2
<1>16. ASSUME NEW m \in {"absent", "on", "off"}, NEW k \in {"absent", "on", "off"}, Patch(m, k)
       PROVE  OffInv'
  BY <1>0, <1>16, OffPatched
<1>17. CASE UNCHANGED peersVars
  BY <1>1, <1>17 DEF peersVars
<1> QED
  BY <1>3, <1>4, <1>5, <1>6, <1>7, <1>8, <1>10, <1>11, <1>13, <1>14, <1>15,
     <1>16, <1>17 DEF PeersNext, MdnsTask, HttpTask

-----------------------------------------------------------------------------
(* Knot: the own row stays *)

\* The rows that an announcement leaves, before its own is added.
KeptRows(t, row) == {r \in t : r.inst # row.inst /\ (row.host = NoHost \/ r.host # row.host)}

LEMMA UpsertRows ==
  ASSUME NEW t, NEW row
  PROVE  Upsert(t, row) = IF Cardinality(KeptRows(t, row)) < Cap
                          THEN KeptRows(t, row) \cup {row} ELSE KeptRows(t, row)
BY DEF Upsert, KeptRows

\* A row is in no other row's way if it has another host name, or none.
LEMMA UpsertKeeps ==
  ASSUME NEW t, NEW row, NEW r \in t, r.inst # row.inst, row.host = NoHost \/ r.host # row.host
  PROVE  r \in Upsert(t, row)
BY UpsertRows DEF KeptRows

LEMMA KeptBounded ==
  ASSUME NEW t, NEW row, IsFiniteSet(t), Cardinality(t) <= Cap
  PROVE  /\ IsFiniteSet(KeptRows(t, row))
         /\ Cardinality(KeptRows(t, row)) \in Nat
         /\ Cardinality(KeptRows(t, row)) <= Cap
<1>1. KeptRows(t, row) \in SUBSET t
  BY DEF KeptRows
<1>2. IsFiniteSet(KeptRows(t, row)) /\ Cardinality(KeptRows(t, row)) <= Cardinality(t)
  BY <1>1, FS_Subset
<1>3. Cardinality(KeptRows(t, row)) \in Nat /\ Cardinality(t) \in Nat
  BY <1>2, FS_CardinalityType
<1> QED
  BY <1>2, <1>3, KnotAssumption

LEMMA UpsertBounded ==
  ASSUME NEW t, NEW row, IsFiniteSet(t), Cardinality(t) <= Cap
  PROVE  IsFiniteSet(Upsert(t, row)) /\ Cardinality(Upsert(t, row)) <= Cap
<1> DEFINE kept == KeptRows(t, row)
<1>1. IsFiniteSet(kept) /\ Cardinality(kept) \in Nat /\ Cardinality(kept) <= Cap
  BY KeptBounded
<1>2. Upsert(t, row) = IF Cardinality(kept) < Cap THEN kept \cup {row} ELSE kept
  BY UpsertRows
<1> HIDE DEF kept
<1>3. /\ IsFiniteSet(kept \cup {row})
      /\ Cardinality(kept \cup {row}) = IF row \in kept THEN Cardinality(kept) ELSE Cardinality(kept) + 1
  BY <1>1, FS_AddElement
<1>4. CASE Cardinality(kept) < Cap
  <2>1. Cardinality(kept \cup {row}) <= Cap
    BY <1>1, <1>3, <1>4, KnotAssumption
  <2> QED
    BY <1>2, <1>3, <1>4, <2>1
<1>5. CASE ~(Cardinality(kept) < Cap)
  BY <1>1, <1>2, <1>5
<1> QED
  BY <1>4, <1>5

LEMMA RemoveBounded ==
  ASSUME NEW t, NEW inst, IsFiniteSet(t), Cardinality(t) <= Cap
  PROVE  IsFiniteSet(Remove(t, inst)) /\ Cardinality(Remove(t, inst)) <= Cap
<1>1. Remove(t, inst) \in SUBSET t
  BY DEF Remove
<1>2. IsFiniteSet(Remove(t, inst)) /\ Cardinality(Remove(t, inst)) <= Cardinality(t)
  BY <1>1, FS_Subset
<1>3. Cardinality(Remove(t, inst)) \in Nat /\ Cardinality(t) \in Nat
  BY <1>2, FS_CardinalityType
<1> QED
  BY <1>2, <1>3, KnotAssumption

\* A row that leaves another one fits into the table.
LEMMA UpsertFits ==
  ASSUME NEW t, NEW row, NEW gone \in t, gone \notin KeptRows(t, row),
         IsFiniteSet(t), Cardinality(t) <= Cap
  PROVE  row \in Upsert(t, row)
<1> DEFINE kept == KeptRows(t, row)
<1>1. kept \in SUBSET (t \ {gone})
  BY DEF KeptRows
<1>2. /\ IsFiniteSet(t \ {gone}) /\ Cardinality(t \ {gone}) = Cardinality(t) - 1
  BY FS_RemoveElement
<1>3. IsFiniteSet(kept) /\ Cardinality(kept) <= Cardinality(t \ {gone})
  BY <1>1, <1>2, FS_Subset
<1>4. Cardinality(kept) \in Nat /\ Cardinality(t) \in Nat
  BY <1>3, FS_CardinalityType
<1> HIDE DEF kept
<1>5. Cardinality(kept) < Cap
  BY <1>2, <1>3, <1>4, KnotAssumption
<1> QED
  BY <1>5, UpsertRows DEF kept

\* The own row evicts itself only to come back.
LEMMA OwnAgain ==
  ASSUME NEW t, OwnRow \in t, IsFiniteSet(t), Cardinality(t) <= Cap
  PROVE  OwnRow \in Upsert(t, OwnRow)
<1>1. OwnRow \notin KeptRows(t, OwnRow)
  BY DEF KeptRows, OwnRow
<1> QED
  BY <1>1, UpsertFits

\* The own row and an announcement of another board with the own host name.
LEMMA OwnPutBack ==
  ASSUME NEW t, NEW row, OwnRow \in t, row.inst # Own, row.host = Own,
         IsFiniteSet(t), Cardinality(t) <= Cap
  PROVE  OwnRow \in Upsert(Upsert(t, row), OwnRow)
<1> DEFINE u == Upsert(t, row)
<1>1. IsFiniteSet(u) /\ Cardinality(u) <= Cap
  BY UpsertBounded
<1>2. OwnRow.inst = Own /\ OwnRow.host = Own
  BY DEF OwnRow
<1>3. CASE Own = NoHost
  <2>1. OwnRow \in u
    BY <1>2, <1>3, UpsertKeeps
  <2> HIDE DEF u
  <2> QED
    BY <1>1, <2>1, OwnAgain DEF u
<1>4. CASE Own # NoHost
  <2>1. OwnRow \notin KeptRows(t, row)
    BY <1>2, <1>4 DEF KeptRows
  <2>2. row \in u
    BY <2>1, UpsertFits
  <2>3. row \notin KeptRows(u, OwnRow)
    BY <1>2, <1>4 DEF KeptRows
  <2> HIDE DEF u
  <2>4. OwnRow \in Upsert(u, OwnRow)
    BY <1>1, <2>2, <2>3, UpsertFits
  <2> QED
    BY <2>4 DEF u
<1> QED
  BY <1>3, <1>4

LEMMA CallFacts ==
  ASSUME call \in Calls, call # NoCall
  PROVE  \/ call.kind = "found" /\ call.row \in Rows /\ call.row.inst # Own
         \/ call.kind = "gone"
<1>1. NoCall.kind = "none"
  BY DEF NoCall
<1>2. CASE call \in [kind : {"gone"}, inst : Peers \cup {Own}]
  BY <1>2
<1>3. CASE call \in [kind : {"found"}, row : Rows \ [inst : {Own}, host : Hosts \cup {Own, NoHost}]]
  <2>1. call.kind = "found" /\ call.row \in Rows /\ call.row \notin [inst : {Own}, host : Hosts \cup {Own, NoHost}]
    BY <1>3
  <2>2. call.row = [inst |-> call.row.inst, host |-> call.row.host] /\ call.row.host \in Hosts \cup {Own, NoHost}
    BY <2>1 DEF Rows
  <2> QED
    BY <2>1, <2>2
<1> QED
  BY <1>2, <1>3 DEF Calls

LEMMA OwnNext ==
  ASSUME OwnInv, [PeersNext]_peersVars
  PROVE  OwnInv' /\ (running' /\ OwnRow \in table => OwnRow \in table')
<1>0. NoCall \in Calls
  BY DEF Calls
<1>1. OwnRow.inst = Own /\ OwnRow.host = Own
  BY DEF OwnRow
<1>2. CASE UNCHANGED <<table, selfSet, call>>
  BY <1>2 DEF OwnInv
<1>3. CASE Browse
  BY <1>3 DEF Browse, OwnInv
<1>4. CASE OnPeerDiscovered
  <2> DEFINE row == call.row
             t == Upsert(table, row)
  <2>1. /\ call.kind = "found" /\ call' = NoCall /\ UNCHANGED selfSet
        /\ table' = IF selfSet /\ row.host = Own THEN Upsert(t, OwnRow) ELSE t
    BY <1>4 DEF OnPeerDiscovered
  <2>2. row \in Rows /\ row.inst # Own
    BY <2>1, CallFacts DEF OwnInv, NoCall
  <2> HIDE DEF row
  <2>3. IsFiniteSet(t) /\ Cardinality(t) <= Cap
    BY UpsertBounded DEF OwnInv
  <2>4. OwnRow \in t => OwnRow \in table
    BY <1>1, <2>2, UpsertRows DEF KeptRows
  <2>5. OwnRow \in table /\ row.host # Own => OwnRow \in t
    BY <1>1, <2>2, UpsertKeeps
  <2>6. OwnRow \in table /\ row.host = Own => OwnRow \in Upsert(t, OwnRow)
    BY <2>2, OwnPutBack DEF OwnInv
  <2> HIDE DEF t
  <2>7. IsFiniteSet(table') /\ Cardinality(table') <= Cap
    BY <2>1, <2>3, UpsertBounded
  <2>8. OwnRow \in table => OwnRow \in table'
    BY <2>1, <2>5, <2>6 DEF OwnInv
  <2>9. OwnRow \in table' => selfSet'
    BY <2>1, <2>4 DEF OwnInv
  <2> QED
    BY <1>0, <2>1, <2>7, <2>8, <2>9 DEF OwnInv
<1>5. CASE OnPeerRemoved
  <2>1. /\ call' = NoCall /\ UNCHANGED selfSet
        /\ table' = IF selfSet /\ call.inst = Own THEN table ELSE Remove(table, call.inst)
    BY <1>5 DEF OnPeerRemoved
  <2>2. IsFiniteSet(table') /\ Cardinality(table') <= Cap
    BY <2>1, RemoveBounded DEF OwnInv
  <2>3. OwnRow \in table' <=> OwnRow \in table
    BY <1>1, <2>1 DEF Remove, OwnInv
  <2> QED
    BY <1>0, <2>1, <2>2, <2>3 DEF OwnInv
<1>6. CASE KnotSetSelf
  <2>1. table' = Upsert(table, OwnRow) /\ selfSet' = TRUE /\ UNCHANGED call
    BY <1>6 DEF KnotSetSelf
  <2>2. IsFiniteSet(table') /\ Cardinality(table') <= Cap
    BY <2>1, UpsertBounded DEF OwnInv
  <2>3. OwnRow \in table => OwnRow \in table'
    BY <2>1, OwnAgain DEF OwnInv
  <2> QED
    BY <2>1, <2>2, <2>3 DEF OwnInv
<1>7. CASE KnotInitFails \/ Restart \/ Clear
  <2>1. table' = {} /\ running' = FALSE
    BY <1>7 DEF KnotInitFails, Restart, Clear, Rebooted
  <2>2. call' = NoCall
    BY <1>7 DEF KnotInitFails, Restart, Clear, Rebooted
  <2>3. IsFiniteSet(table') /\ Cardinality(table') <= Cap
    BY <2>1, FS_EmptySet, KnotAssumption
  <2> QED
    BY <1>0, <2>1, <2>2, <2>3 DEF OwnInv
<1>8. CASE MissCall
  BY <1>0, <1>8 DEF MissCall, OwnInv
<1> QED
  BY <1>2, <1>3, <1>4, <1>5, <1>6, <1>7, <1>8
  DEF PeersNext, MdnsTask, HttpTask, MdnsAtBoot, KnotAtBoot, KnotInit, BrowseStop, MdnsUp, MdnsDown,
      SaveMdns, SaveKnot, Save, Tell, Walk, WalkEnd, Patch, peersVars

-----------------------------------------------------------------------------
(* Knot: the theorems *)

PeersInv == PeersTypeOK /\ OffInv /\ OwnInv

LEMMA PeersInvInit == PeersInit => PeersInv
<1> SUFFICES ASSUME PeersInit PROVE PeersInv
  OBVIOUS
<1>1. OffInv
  BY OffInit
<1>2. /\ table = {} /\ call = NoCall /\ failures = 0 /\ todo = BootSteps
      /\ selfSet = FALSE /\ running = FALSE /\ browsing = FALSE /\ mdns = FALSE
      /\ saved \in [mdns : BOOLEAN, knot : BOOLEAN] /\ off = ~saved.knot
  BY DEF PeersInit
<1>3. IsFiniteSet(table) /\ Cardinality(table) <= Cap
  BY <1>2, FS_EmptySet, KnotAssumption
<1>4. OwnInv
  BY <1>2, <1>3 DEF OwnInv, Calls
<1>5. failures \in 0..MaxFailures
  BY <1>2, KnotAssumption
<1>6. {selfSet, running, browsing, mdns, off} \subseteq BOOLEAN
  BY <1>2
<1> QED
  BY <1>1, <1>2, <1>4, <1>5, <1>6 DEF PeersInv, PeersTypeOK, OffInv, OwnInv

LEMMA RowsNext ==
  ASSUME table \subseteq Rows, call \in Calls, [PeersNext]_peersVars
  PROVE  table' \subseteq Rows
<1>1. OwnRow \in Rows
  BY DEF OwnRow, Rows
<1>2. ASSUME NEW t \in SUBSET Rows, NEW row \in Rows
      PROVE  Upsert(t, row) \subseteq Rows
  BY UpsertRows DEF KeptRows
<1>3. CASE OnPeerDiscovered
  <2> DEFINE t == Upsert(table, call.row)
  <2>1. call.kind = "found" /\ table' \in {t, Upsert(t, OwnRow)}
    BY <1>3 DEF OnPeerDiscovered
  <2>2. call.row \in Rows
    BY <2>1, CallFacts DEF NoCall
  <2>3. t \in SUBSET Rows
    BY <1>2, <2>2
  <2> HIDE DEF t
  <2> QED
    BY <1>1, <1>2, <2>1, <2>3
<1>4. CASE OnPeerRemoved
  BY <1>4 DEF OnPeerRemoved, Remove
<1>5. CASE KnotSetSelf
  BY <1>1, <1>2, <1>5 DEF KnotSetSelf
<1>6. table' \in {table, {}} \/ OnPeerDiscovered \/ OnPeerRemoved \/ KnotSetSelf
  BY DEF PeersNext, MdnsTask, HttpTask, Browse, MissCall, MdnsAtBoot, KnotAtBoot, KnotInit, KnotInitFails,
         BrowseStop, Clear, MdnsUp, MdnsDown, SaveMdns, SaveKnot, Save, Tell, Walk, WalkEnd, Patch,
         Restart, Rebooted, peersVars
<1> QED
  BY <1>3, <1>4, <1>5, <1>6

LEMMA FlagsNext ==
  ASSUME PeersFlags, failures \in 0..MaxFailures, [PeersNext]_peersVars
  PROVE  PeersFlags' /\ failures' \in 0..MaxFailures
<1> USE DEF PeersFlags
<1>1. MaxFailures \in Nat
  BY KnotAssumption
<1>2. CASE Browse \/ OnPeerDiscovered \/ OnPeerRemoved \/ MissCall
  BY <1>2 DEF Browse, OnPeerDiscovered, OnPeerRemoved, MissCall, radio
<1>3. CASE MdnsAtBoot \/ MdnsUp \/ MdnsDown
  BY <1>3 DEF MdnsAtBoot, MdnsUp, MdnsDown
<1>4. CASE KnotAtBoot \/ KnotInit \/ KnotSetSelf
  BY <1>4 DEF KnotAtBoot, KnotInit, KnotSetSelf, radio
<1>5. CASE KnotInitFails \/ Restart
  <2>1. Rebooted /\ UNCHANGED <<saved, off>> /\ (failures' = failures \/ Failure)
    BY <1>5 DEF KnotInitFails, Restart
  <2>2. PeersFlags'
    BY <2>1 DEF Rebooted
  <2>3. failures' \in 0..MaxFailures
    BY <1>1, <2>1 DEF Failure
  <2> QED
    BY <2>2, <2>3
<1>6. CASE BrowseStop \/ Clear
  BY <1>6 DEF BrowseStop, Clear
<1>7. ASSUME NEW name, NEW key \in {"mdns", "knot"}, NEW value \in BOOLEAN, Save(name, key, value)
      PROVE  PeersFlags' /\ failures' \in 0..MaxFailures
  BY <1>1, <1>7 DEF Save, Failure, radio
<1>8. CASE SaveMdns \/ SaveKnot
  BY <1>7, <1>8 DEF SaveMdns, SaveKnot
<1>9. CASE Tell \/ Walk \/ WalkEnd
  BY <1>9 DEF Tell, Walk, WalkEnd, radio
<1>10. CASE \E m, k \in {"absent", "on", "off"} : Patch(m, k)
  BY <1>10 DEF Patch, radio
<1>11. CASE UNCHANGED peersVars
  BY <1>11 DEF peersVars
<1> QED
  BY <1>2, <1>3, <1>4, <1>5, <1>6, <1>8, <1>9, <1>10, <1>11 DEF PeersNext, MdnsTask, HttpTask

LEMMA PeersInvNext == PeersInv /\ [PeersNext]_peersVars => PeersInv'
<1> SUFFICES ASSUME PeersInv, [PeersNext]_peersVars PROVE PeersInv'
  OBVIOUS
<1>1. PeersFlags /\ failures \in 0..MaxFailures /\ table \subseteq Rows /\ call \in Calls /\ OffInv /\ OwnInv
  BY DEF PeersInv, PeersTypeOK, PeersFlags
<1>2. OffInv'
  BY <1>1, OffNext
<1>3. OwnInv'
  BY <1>1, OwnNext
<1>4. table' \subseteq Rows
  BY <1>1, RowsNext
<1>5. PeersFlags' /\ failures' \in 0..MaxFailures
  BY <1>1, FlagsNext
<1>6. PeersTypeOK'
  BY <1>2, <1>3, <1>4, <1>5 DEF PeersTypeOK, PeersFlags, OffInv, OwnInv
<1> QED
  BY <1>2, <1>3, <1>6 DEF PeersInv

\* Every variable of Knot keeps its type, and the table never holds more rows
\* than g_peer_table has slots.
THEOREM PeersTypeCorrect == PeersSpec => []PeersTypeOK
<1>1. PeersInv => PeersTypeOK
  BY DEF PeersInv
<1> QED
  BY <1>1, PeersInvInit, PeersInvNext, PTL DEF PeersSpec

\* A knot the user was told is off does not run (routes.c, PATCH
\* /api/settings), whatever fails or restarts in between.
THEOREM OffStaysOff == PeersSpec => []StaysOff
<1>1. PeersInv => StaysOff
  BY DEF PeersInv, OffInv, StaysOff
<1> QED
  BY <1>1, PeersInvInit, PeersInvNext, PTL DEF PeersSpec

\* The own row stays in the table while knot runs, whatever the network
\* announces (knot.c, g_self).
THEOREM OwnRowStays == PeersSpec => SelfStays
<1>1. PeersInv /\ [PeersNext]_peersVars => [running' /\ OwnRow \in table => OwnRow \in table']_peersVars
  BY OwnNext DEF PeersInv
<1> QED
  BY <1>1, PeersInvInit, PeersInvNext, PTL DEF PeersSpec, SelfStays
=============================================================================
