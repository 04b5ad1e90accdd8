----------------------------- MODULE StratumRpc -----------------------------
(***************************************************************************)
(* The requests of a stratum session and what becomes of their answers:    *)
(* stratum_request(), submit_share() and process_message() of              *)
(* components/stratum/src/stratum_io.c, with the handshake and the main    *)
(* loop that call them, the accounting of shares and the OTA validator.    *)
(*                                                                         *)
(* Answers carry an id and a verdict, nothing else: what an answer means   *)
(* depends on which of the remembered ids it is compared with.  A pool     *)
(* answers a request once or never, in any order; a lost connection loses  *)
(* its answers.  When sessions begin and end is StratumSession's subject.  *)
(***************************************************************************)
EXTENDS OtaValidator

CONSTANTS
  Diffs,       \* difficulties of shares
  Ring,        \* STRATUM_INFLIGHT_MAX
  Window,      \* a request is answered before Window later ones are sent, or never
  LateAnswers, \* whether an answer can come after the task has given it up
  MaxId,       \* bound: requests of one session
  MaxSubmits   \* bound: shares submitted in all sessions

ASSUME DiffAssumption == Diffs \subseteq Nat \ {0}
ASSUME RingAssumption == Ring \in Nat \ {0} /\ Window \in Nat \ {0}
ASSUME LateAssumption == LateAnswers \in BOOLEAN
ASSUME BoundAssumption == MaxId \in Nat /\ MaxSubmits \in Nat

VARIABLES
  pc,           \* where stratum_task() is
  nextId,       \* s_state.next_msg_id
  ids,          \* the ids remembered in s_state, 0 when there is none
  en1,          \* s_state.extranonce1_len > 0
  status,       \* s_extranonce_sub_status
  ring,         \* s_inflight_diff
  wire,         \* requests of this connection the pool may still answer
  session,      \* mining_stats.session: shares, rejected, accepted_diff_sum
  slot,         \* *s_active_slot: shares, best_diff
  submits,      \* shares submitted so far
  pool          \* what the pool has answered about shares: the truth to account for

rpcVars == <<pc, nextId, ids, en1, status, ring, wire, session, slot, submits, pool>>
vars == <<pc, nextId, ids, en1, status, ring, wire, session, slot, submits, pool,
          otaPending, otaArmed, otaTimer, otaMarking, otaMarks>>

books == <<session, slot, pool>>

Handshake == {"configure", "subscribe", "await", "authorize", "extranonce", "job"}
Loop == {"read", "submit", "roll", "tidy", "keepalive"}
Kinds == {"configure", "subscribe", "authorize", "extranonce", "keepalive", "submit"}
Remembered == Kinds \ {"submit"}
NoIds == [k \in Remembered |-> 0]
Larger(a, b) == IF a > b THEN a ELSE b

TypeOK ==
  /\ OtaTypeOK
  /\ pc \in {"down"} \cup Handshake \cup Loop
  /\ nextId \in Nat \ {0}
  /\ ids \in [Remembered -> 0..(nextId - 1)]
  /\ en1 \in BOOLEAN
  /\ status \in {"off", "pending", "active", "rejected"}
  /\ ring \in [0..(Ring - 1) -> Diffs \cup {0}]
  /\ wire \subseteq [id : 1..(nextId - 1), kind : Kinds, diff : Diffs \cup {0}]
  /\ session \in [shares : Nat, rejected : Nat, diffSum : Nat]
  /\ slot \in [shares : Nat, best : Diffs \cup {0}]
  /\ submits \in Nat
  /\ pool \in [accepted : Nat, rejected : Nat, diffSum : Nat, best : Diffs \cup {0}]

Init ==
  /\ OtaInit
  /\ pc = "down"
  /\ nextId = 1
  /\ ids = NoIds
  /\ en1 = FALSE
  /\ status = "off"
  /\ ring = [i \in 0..(Ring - 1) |-> 0]
  /\ wire = {}
  /\ session = [shares |-> 0, rejected |-> 0, diffSum |-> 0]
  /\ slot = [shares |-> 0, best |-> 0]
  /\ submits = 0
  /\ pool = [accepted |-> 0, rejected |-> 0, diffSum |-> 0, best |-> 0]

\* The stratum task is inside ota_validator_on_share_accepted().
Marking == "first share" \in otaMarking

At(label) == pc = label /\ ~Marking

-----------------------------------------------------------------------------
(* Sending *)

\* stratum_request(): the id is spent whether the send succeeds or not.
Spend == nextId <= MaxId /\ nextId' = nextId + 1

Send(kind, diff, others) ==
  /\ Spend
  /\ \A m \in others : m.id + Window > nextId
  /\ wire' = others \cup {[id |-> nextId, kind |-> kind, diff |-> diff]}

\* stratum_connect(): a new connection starts with nothing in flight.
Connect ==
  /\ At("down")
  /\ pc' = "configure"
  /\ nextId' = 1
  /\ ring' = [i \in 0..(Ring - 1) |-> 0]
  /\ UNCHANGED <<ids, en1, status, wire, books, submits, otaVars>>

\* mining.configure is not fatal.
Configure ==
  /\ At("configure")
  /\ pc' = "subscribe"
  /\ \/ Send("configure", 0, wire) /\ ids' = [ids EXCEPT !["configure"] = nextId]
     \/ Spend /\ UNCHANGED <<wire, ids>>
  /\ UNCHANGED <<en1, status, ring, books, submits, otaVars>>

Subscribe ==
  /\ At("subscribe")
  /\ pc' = "await"
  /\ Send("subscribe", 0, wire)
  /\ ids' = [ids EXCEPT !["subscribe"] = nextId]
  /\ UNCHANGED <<en1, status, ring, books, submits, otaVars>>

Authorize ==
  /\ At("authorize")
  /\ pc' \in {"extranonce", "job"}   \* whether the slot asks for set_extranonce
  /\ Send("authorize", 0, wire)
  /\ ids' = [ids EXCEPT !["authorize"] = nextId]
  /\ UNCHANGED <<en1, status, ring, books, submits, otaVars>>

ExtranonceSubscribe ==
  /\ At("extranonce")
  /\ pc' = "job"
  /\ \/ /\ Send("extranonce", 0, wire)
        /\ ids' = [ids EXCEPT !["extranonce"] = nextId]
        /\ status' = "pending"
     \/ /\ Spend
        /\ status' = "rejected"
        /\ UNCHANGED <<wire, ids>>
  /\ UNCHANGED <<en1, ring, books, submits, otaVars>>

\* The 5 s wait for a job ends.
HandshakeDone ==
  /\ At("job")
  /\ pc' = "read"
  /\ UNCHANGED <<nextId, ids, en1, status, ring, wire, books, submits, otaVars>>

\* submit_share(): one share out of result_queue.
SubmitShare(d) ==
  /\ At("submit")
  /\ submits < MaxSubmits
  /\ submits' = submits + 1
  /\ Send("submit", d, wire)
  /\ ring' = [ring EXCEPT ![nextId % Ring] = d]
  /\ UNCHANGED <<pc, ids, en1, status, books, otaVars>>

-----------------------------------------------------------------------------
(* process_message(): an answer *)

\* Where the task goes on after a message.
AfterMessage(subscribed) ==
  pc' = CASE pc = "read" -> "submit"
          [] pc = "await" /\ subscribed -> "authorize"
          [] OTHER -> pc

Receive(m) ==
  /\ pc \in {"await", "job", "read"} /\ ~Marking
  /\ wire' = wire \ {m}

IsFor(m, kind) == m.id = ids[kind]

\* Mutant of IsShare: the answer to a keepalive is not told apart.
IsShareOrKeepalive(m) == \A kind \in Remembered \ {"keepalive"} : ~IsFor(m, kind)

IsShare(m) == \A kind \in Remembered : ~IsFor(m, kind)

SubscribeAnswer(m) ==
  /\ IsFor(m, "subscribe")
  /\ Receive(m)
  /\ en1' \in {TRUE, en1}   \* a valid result, or none
  /\ AfterMessage(en1')
  /\ UNCHANGED <<nextId, ids, status, ring, books, submits, otaVars>>

AuthorizeAnswer(m) ==
  /\ IsFor(m, "authorize")
  /\ Receive(m)
  /\ AfterMessage(FALSE)
  /\ OnAuthorized \/ UNCHANGED otaVars   \* a refusal is only logged
  /\ UNCHANGED <<nextId, ids, en1, status, ring, books, submits>>

\* A keepalive that is answered, or the pool's version mask.
QuietAnswer(m) ==
  /\ IsFor(m, "configure") \/ IsFor(m, "keepalive")
  /\ Receive(m)
  /\ AfterMessage(FALSE)
  /\ UNCHANGED <<nextId, ids, en1, status, ring, books, submits, otaVars>>

ExtranonceAnswer(m) ==
  /\ IsFor(m, "extranonce")
  /\ Receive(m)
  /\ AfterMessage(FALSE)
  /\ ids' = [ids EXCEPT !["extranonce"] = 0]
  /\ status' \in {"active", "rejected"}
  /\ UNCHANGED <<nextId, en1, ring, books, submits, otaVars>>

Credit(m) == ring[m.id % Ring]

\* What the pool itself books: the verdict on a share.
PoolAccepts(m) ==
  IF m.kind = "submit"
  THEN pool' = [pool EXCEPT !.accepted = @ + 1, !.diffSum = @ + m.diff, !.best = Larger(@, m.diff)]
  ELSE UNCHANGED pool
PoolRejects(m) ==
  IF m.kind = "submit" THEN pool' = [pool EXCEPT !.rejected = @ + 1] ELSE UNCHANGED pool

\* Mutant of ShareAccepted: the difficulty is that of the latest request.
ShareAcceptedLatest(m) ==
  /\ IsShare(m)
  /\ Receive(m)
  /\ AfterMessage(FALSE)
  /\ LET credit == ring[(nextId - 1) % Ring] IN
     /\ ring' = [ring EXCEPT ![m.id % Ring] = 0]
     /\ session' \in {session, [session EXCEPT !.shares = @ + 1, !.diffSum = @ + credit]}
     /\ slot' = [slot EXCEPT !.shares = @ + 1, !.best = Larger(@, credit)]
  /\ OnShareAccepted
  /\ PoolAccepts(m)
  /\ UNCHANGED <<nextId, ids, en1, status, submits>>

\* "Submit response or other", true.  The session counters are skipped when
\* mining_stats.mutex is not free within 10 ms.
ShareAccepted(m) ==
  /\ IsShare(m)
  /\ Receive(m)
  /\ AfterMessage(FALSE)
  /\ ring' = [ring EXCEPT ![m.id % Ring] = 0]
  /\ session' \in {session, [session EXCEPT !.shares = @ + 1, !.diffSum = @ + Credit(m)]}
  /\ slot' = [slot EXCEPT !.shares = @ + 1, !.best = Larger(@, Credit(m))]
  /\ OnShareAccepted
  /\ PoolAccepts(m)
  /\ UNCHANGED <<nextId, ids, en1, status, submits>>

\* "Submit response or other", an error.
ShareRejected(m) ==
  /\ IsShare(m)
  /\ Receive(m)
  /\ AfterMessage(FALSE)
  /\ ring' = [ring EXCEPT ![m.id % Ring] = 0]
  /\ session' \in {session, [session EXCEPT !.rejected = @ + 1]}
  /\ PoolRejects(m)
  /\ UNCHANGED <<nextId, ids, en1, status, slot, submits, otaVars>>

\* "Submit response or other", neither true nor an error.
ShareIgnored(m) ==
  /\ IsShare(m)
  /\ Receive(m)
  /\ AfterMessage(FALSE)
  /\ UNCHANGED <<nextId, ids, en1, status, ring, books, submits, otaVars>>

Answer ==
  \E m \in wire :
    \/ SubscribeAnswer(m) \/ AuthorizeAnswer(m) \/ QuietAnswer(m) \/ ExtranonceAnswer(m)
    \/ ShareAccepted(m) \/ ShareRejected(m) \/ ShareIgnored(m)

-----------------------------------------------------------------------------
(* The rest of the main loop, in its order *)

\* A notification, or nothing, within 100 ms.
ReadOther ==
  /\ At("read")
  /\ pc' = "submit"
  /\ UNCHANGED <<nextId, ids, en1, status, ring, wire, books, submits, otaVars>>

\* mining.set_extranonce before the answer to mining.subscribe ends the wait too.
SetExtranonce ==
  /\ At("await")
  /\ en1' = TRUE
  /\ pc' = "authorize"
  /\ UNCHANGED <<nextId, ids, status, ring, wire, books, submits, otaVars>>

\* result_queue is empty.
SubmitDone ==
  /\ At("submit")
  /\ pc' = "roll"
  /\ UNCHANGED <<nextId, ids, en1, status, ring, wire, books, submits, otaVars>>

\* The extranonce roll.  build_work() refuses a difficulty whose target is
\* out of range, and `continue' goes back to the top of the loop.
Roll ==
  /\ At("roll")
  /\ pc' \in {"tidy", "read"}
  /\ UNCHANGED <<nextId, ids, en1, status, ring, wire, books, submits, otaVars>>

\* A request of this kind is given up: unless LateAnswers, the pool does not
\* answer it any more either.
GivenUp(kind) == IF LateAnswers THEN wire ELSE {m \in wire : ~IsFor(m, kind)}

\* Mutant of ExtranonceTimeout: the id is forgotten, the status stays.
ExtranonceTimeoutKeepsPending ==
  /\ At("tidy")
  /\ pc' = "keepalive"
  /\ ids["extranonce"] # 0
  /\ ids' = [ids EXCEPT !["extranonce"] = 0]
  /\ wire' = GivenUp("extranonce")
  /\ UNCHANGED <<nextId, en1, status, ring, books, submits, otaVars>>

\* 5 s without an answer to mining.extranonce.subscribe.
ExtranonceTimeout ==
  /\ At("tidy")
  /\ pc' = "keepalive"
  /\ ids["extranonce"] # 0
  /\ ids' = [ids EXCEPT !["extranonce"] = 0]
  /\ status' = "rejected"
  /\ wire' = GivenUp("extranonce")
  /\ UNCHANGED <<nextId, en1, ring, books, submits, otaVars>>

NoTimeout ==
  /\ At("tidy")
  /\ pc' = "keepalive"
  /\ UNCHANGED <<nextId, ids, en1, status, ring, wire, books, submits, otaVars>>

\* 90 s without a send: mining.suggest_difficulty.
Keepalive ==
  /\ At("keepalive")
  /\ pc' = "read"
  /\ Send("keepalive", 0, GivenUp("keepalive"))
  /\ ids' = [ids EXCEPT !["keepalive"] = nextId]
  /\ UNCHANGED <<en1, status, ring, books, submits, otaVars>>

NoKeepalive ==
  /\ At("keepalive")
  /\ pc' = "read"
  /\ UNCHANGED <<nextId, ids, en1, status, ring, wire, books, submits, otaVars>>

\* Label reconnect:, from a failed send, a read error, a timeout, a request.
Reconnect ==
  /\ pc # "down" /\ ~Marking
  /\ pc' = "down"
  /\ en1' = FALSE
  /\ ids' = NoIds
  /\ status' = "off"
  /\ wire' = {}
  /\ UNCHANGED <<nextId, ring, books, submits, otaVars>>

\* The pool never answers a request.
PoolForgets ==
  /\ \E m \in wire : wire' = wire \ {m}
  /\ UNCHANGED <<pc, nextId, ids, en1, status, ring, books, submits, otaVars>>

Sending == \/ Configure \/ Subscribe \/ Authorize \/ ExtranonceSubscribe
           \/ \E d \in Diffs : SubmitShare(d)
LoopStep == \/ HandshakeDone \/ ReadOther \/ SubmitDone \/ Roll
            \/ ExtranonceTimeout \/ NoTimeout \/ Keepalive \/ NoKeepalive
TaskNext == Connect \/ Sending \/ Answer \/ SetExtranonce \/ LoopStep \/ Reconnect
Mark(reason) == MarkValid(reason) /\ UNCHANGED rpcVars
TimerTask == TimerFires /\ UNCHANGED rpcVars

Next == \/ TaskNext \/ PoolForgets \/ TimerTask
        \/ \E reason \in Reasons : Mark(reason)

Spec == Init /\ [][Next]_vars

(***************************************************************************)
(* Fairness: both tasks run, the timer fires, the loop does not stay at    *)
(* one stage, 5 s pass, and a session whose difficulties are usable does   *)
(* not take the `continue' of the roll for ever.                           *)
(***************************************************************************)
FairSpec ==
  /\ Spec
  /\ WF_vars(LoopStep) /\ SF_vars(Roll /\ pc' = "tidy") /\ SF_vars(ExtranonceTimeout)
  /\ WF_vars(TimerTask)
  /\ \A reason \in Reasons : WF_vars(Mark(reason))

-----------------------------------------------------------------------------
\* The difficulty a share was sent with waits in its slot of the ring until
\* the answer comes.
DiffKept == \A m \in wire : m.kind = "submit" => Credit(m) = m.diff

\* An answer is taken for what it answers: only those to shares reach the
\* share accounting, whatever ids the session before has used.
AnswersRouted == \A m \in wire : (m.kind = "submit") <=> IsShare(m)

\* The books agree with the pool: the statistics of the pool slot exactly, the
\* session counters but for updates skipped on a busy mutex.
BooksAgree ==
  /\ slot.shares = pool.accepted
  /\ slot.best = pool.best
  /\ session.shares <= pool.accepted
  /\ session.diffSum <= pool.diffSum
  /\ session.rejected <= pool.rejected

\* ota_validator.h:9-10: "Notify validator that a share was accepted."  An
\* image that is marked valid for its first share has had one accepted.
FirstShareIsShare == "first share" \in otaMarking \cup otaMarks => pool.accepted > 0

\* A pending image whose 15 minutes have begun is marked valid, by a share or
\* by the timer, whichever of the two tasks comes first.
ImageSettles == otaTimer ~> ~otaPending

\* stratum_io.c:890-892: the extranonce status does not stay on PENDING.
PendingResolves == (status = "pending") ~> (status # "pending")
=============================================================================
