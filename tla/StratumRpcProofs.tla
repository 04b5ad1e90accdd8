-------------------------- MODULE StratumRpcProofs --------------------------
(***************************************************************************)
(* What holds of the requests of StratumRpc for every ring, every set of   *)
(* difficulties and any number of sessions, as long as no answer comes     *)
(* after it was given up and the pool does not fall a whole ring behind.   *)
(***************************************************************************)
EXTENDS StratumRpc, TLAPS

\* What is assumed of the pool.
Timely == LateAnswers = FALSE /\ Window <= Ring

(***************************************************************************)
(* The strengthening: the ids of a connection are distinct, no two open    *)
(* requests are a ring apart, an id is remembered exactly for the request  *)
(* of its kind, and there is none before that request is sent.             *)
(***************************************************************************)
Distinct == \A m, n \in wire : m.id = n.id => m = n

Span == \A m, n \in wire : m.id < n.id => n.id < m.id + Window

Owned == \A m \in wire :
           /\ m.kind # "submit" => ids[m.kind] = m.id
           /\ \A k \in Remembered : ids[k] = m.id => k = m.kind

Stages ==
  /\ pc \in {"down", "configure"} => wire = {} /\ ids = NoIds
  /\ pc = "subscribe" => ids["subscribe"] = 0
  /\ pc \in {"subscribe", "await", "authorize"} => ids["authorize"] = 0
  /\ pc \in {"subscribe", "await", "authorize", "extranonce"} => ids["extranonce"] = 0

WireOK ==
  /\ nextId \in Nat \ {0}
  /\ ids \in [Remembered -> 0..(nextId - 1)]
  /\ ring \in [0..(Ring - 1) -> Diffs \cup {0}]
  /\ wire \subseteq [id : 1..(nextId - 1), kind : Kinds, diff : Diffs \cup {0}]
  /\ Distinct /\ Span /\ Owned /\ DiffKept

RestOK ==
  /\ OtaTypeOK
  /\ pc \in {"down"} \cup Handshake \cup Loop
  /\ en1 \in BOOLEAN
  /\ status \in {"off", "pending", "active", "rejected"}
  /\ session \in [shares : Nat, rejected : Nat, diffSum : Nat]
  /\ slot \in [shares : Nat, best : Diffs \cup {0}]
  /\ submits \in Nat
  /\ pool \in [accepted : Nat, rejected : Nat, diffSum : Nat, best : Diffs \cup {0}]

RpcInv == WireOK /\ RestOK /\ Stages /\ BooksAgree /\ FirstShareIsShare

-----------------------------------------------------------------------------
\* A multiple of R strictly between 0 and R does not exist.
LEMMA NoMultiple ==
  ASSUME NEW R \in Nat \ {0}, NEW k \in Int, 0 < R * k
  PROVE  R <= R * k
<1>1. CASE k <= 0
  <2>1. R * k <= 0
    BY <1>1, Z3
  <2> QED
    BY <2>1, SMT
<1>2. CASE k >= 1
  BY <1>2, Z3
<1> QED
  BY <1>1, <1>2, SMT

\* Ids less than a ring apart have slots of their own.
LEMMA SlotsDiffer ==
  ASSUME NEW R \in Nat \ {0}, NEW a \in Nat, NEW b \in Nat, a < b, b < a + R
  PROVE  a % R # b % R
<1> DEFINE qa == a \div R
           qb == b \div R
<1>1. /\ qa \in Int /\ qb \in Int
      /\ a = R * qa + (a % R) /\ b = R * qb + (b % R)
      /\ a % R \in 0..(R - 1) /\ b % R \in 0..(R - 1)
  BY SMT
<1> SUFFICES ASSUME a % R = b % R PROVE FALSE
  OBVIOUS
<1> HIDE DEF qa, qb
<1>2. R * (qb - qa) = R * qb - R * qa
  BY <1>1, Z3
<1>3. R * (qb - qa) = b - a
  BY <1>1, <1>2, SMT
<1> QED
  BY <1>1, <1>3, NoMultiple, SMT

-----------------------------------------------------------------------------
(* What sending, answering and forgetting do to the open requests *)

LEMMA SlotInRange == ASSUME NEW i \in Nat PROVE i % Ring \in 0..(Ring - 1)
  BY RingAssumption, SMT

\* Two open requests have slots of their own.
LEMMA OpenSlots ==
  ASSUME Timely, WireOK, NEW m \in wire, NEW n \in wire, m # n
  PROVE  m.id % Ring # n.id % Ring
<1>1. m.id \in Nat /\ n.id \in Nat /\ m.id # n.id
  BY DEF WireOK, Distinct
<1>2. CASE m.id < n.id
  <2>1. n.id < m.id + Ring
    BY <1>1, <1>2, RingAssumption, SMT DEF Timely, WireOK, Span
  <2> QED
    BY <1>1, <1>2, <2>1, RingAssumption, SlotsDiffer
<1>3. CASE n.id < m.id
  <2>1. m.id < n.id + Ring
    BY <1>1, <1>3, RingAssumption, SMT DEF Timely, WireOK, Span
  <2> QED
    BY <1>1, <1>3, <2>1, RingAssumption, SlotsDiffer
<1> QED
  BY <1>1, <1>2, <1>3, SMT

LEMMA Forgotten ==
  ASSUME WireOK, wire' \subseteq wire, UNCHANGED <<nextId, ids, ring>>
  PROVE  WireOK'
  BY DEF WireOK, Distinct, Span, Owned, DiffKept, Credit

LEMMA IdForgotten ==
  ASSUME WireOK, NEW k \in Remembered, wire' \subseteq wire,
         \A m \in wire' : m.kind # k,
         ids' = [ids EXCEPT ![k] = 0], UNCHANGED <<nextId, ring>>
  PROVE  WireOK'
<1>1. ids' \in [Remembered -> 0..(nextId' - 1)]
  BY SMT DEF WireOK
<1>2. Owned'
  BY SMT DEF WireOK, Owned, Remembered
<1> QED
  BY <1>1, <1>2 DEF WireOK, Distinct, Span, DiffKept, Credit

LEMMA SlotCleared ==
  ASSUME Timely, WireOK, NEW m \in wire, wire' = wire \ {m},
         ring' = [ring EXCEPT ![m.id % Ring] = 0], UNCHANGED <<nextId, ids>>
  PROVE  WireOK'
<1>1. ring' \in [0..(Ring - 1) -> Diffs \cup {0}]
  BY DEF WireOK
<1>2. DiffKept'
  <2> SUFFICES ASSUME NEW n \in wire', n.kind = "submit" PROVE ring'[n.id % Ring] = n.diff
    BY DEF DiffKept, Credit
  <2>1. n \in wire /\ n # m /\ n.id \in Nat
    BY DEF WireOK
  <2>2. n.id % Ring # m.id % Ring
    BY <2>1, OpenSlots
  <2>3. n.id % Ring \in 0..(Ring - 1)
    BY <2>1, SlotInRange
  <2> QED
    BY <2>1, <2>2, <2>3 DEF WireOK, DiffKept, Credit
<1> QED
  BY <1>1, <1>2 DEF WireOK, Distinct, Span, Owned

LEMMA Spent ==
  ASSUME WireOK, nextId' = nextId + 1, UNCHANGED <<wire, ids, ring>>
  PROVE  WireOK'
<1>1. ids' \in [Remembered -> 0..(nextId' - 1)]
  BY SMT DEF WireOK
<1>2. wire' \subseteq [id : 1..(nextId' - 1), kind : Kinds, diff : Diffs \cup {0}]
  BY SMT DEF WireOK
<1> QED
  BY <1>1, <1>2, SMT DEF WireOK, Distinct, Span, Owned, DiffKept, Credit

LEMMA Sent ==
  ASSUME Timely, WireOK, NEW kind \in Kinds, NEW d \in Diffs \cup {0}, NEW others \in SUBSET wire,
         Send(kind, d, others),
         ring' = IF kind = "submit" THEN [ring EXCEPT ![nextId % Ring] = d] ELSE ring,
         ids' = IF kind = "submit" THEN ids ELSE [ids EXCEPT ![kind] = nextId],
         kind # "submit" => \A m \in others : m.kind # kind
  PROVE  WireOK'
<1> DEFINE new == [id |-> nextId, kind |-> kind, diff |-> d]
<1>1. /\ nextId \in Nat \ {0} /\ nextId' = nextId + 1
      /\ wire' = others \cup {new}
      /\ \A m \in others : m.id \in 1..(nextId - 1) /\ nextId < m.id + Window
  <2>1. \A m \in others : m.id \in 1..(nextId - 1)
    BY DEF WireOK
  <2> QED
    BY <2>1, RingAssumption, SMT DEF WireOK, Send, Spend
<1>2. wire' \subseteq [id : 1..(nextId' - 1), kind : Kinds, diff : Diffs \cup {0}]
  BY <1>1, SMT DEF WireOK
<1>3. ids' \in [Remembered -> 0..(nextId' - 1)]
  BY <1>1, SMT DEF WireOK, Remembered
<1>4. ring' \in [0..(Ring - 1) -> Diffs \cup {0}]
  BY <1>1, SlotInRange DEF WireOK
<1>5. Distinct'
  BY <1>1, SMT DEF WireOK, Distinct
<1>6. Span'
  BY <1>1, SMT DEF WireOK, Span
<1>7. Owned'
  <2>1. \A k \in Remembered : ids[k] \in 0..(nextId - 1)
    BY DEF WireOK
  <2>2. \A m \in others : /\ m.kind # "submit" => ids'[m.kind] = m.id
                          /\ \A k \in Remembered : ids'[k] = m.id => k = m.kind
    BY <1>1, <2>1, SMT DEF WireOK, Owned, Remembered
  <2>3. /\ new.kind # "submit" => ids'[new.kind] = new.id
        /\ \A k \in Remembered : ids'[k] = new.id => k = new.kind
    BY <1>1, <2>1, SMT DEF WireOK, Remembered
  <2> QED
    BY <1>1, <2>2, <2>3 DEF Owned
<1>8. DiffKept'
  <2> SUFFICES ASSUME NEW m \in wire', m.kind = "submit" PROVE ring'[m.id % Ring] = m.diff
    BY DEF DiffKept, Credit
  <2>1. CASE m = new
    <3>1. nextId % Ring \in 0..(Ring - 1)
      BY <1>1, SlotInRange
    <3> QED
      BY <2>1, <3>1 DEF WireOK
  <2>2. CASE m \in others
    <3>1. m.id \in Nat /\ m.id < nextId /\ nextId < m.id + Ring
      BY <1>1, <2>2, RingAssumption, SMT DEF Timely
    <3>2. m.id % Ring # nextId % Ring
      BY <1>1, <3>1, RingAssumption, SlotsDiffer
    <3>3. m.id % Ring \in 0..(Ring - 1)
      BY <3>1, SlotInRange
    <3> QED
      BY <2>2, <3>2, <3>3 DEF WireOK, DiffKept, Credit
  <2> QED
    BY <1>1, <2>1, <2>2
<1> QED
  BY <1>1, <1>2, <1>3, <1>4, <1>5, <1>6, <1>7, <1>8 DEF WireOK

-----------------------------------------------------------------------------
(* The invariant *)

LEMMA NoneOpen ==
  ASSUME WireOK, NEW k \in Remembered, ids[k] = 0
  PROVE  \A m \in wire : m.kind # k
  BY SMT DEF WireOK, Owned, Remembered

\* All but the request that is remembered are of another kind.
LEMMA OtherKinds ==
  ASSUME WireOK, NEW k \in Remembered, NEW m \in wire, m.id # ids[k]
  PROVE  m.kind # k
  BY SMT DEF WireOK, Owned, Remembered

LEMMA Routed == WireOK => AnswersRouted
  BY DEF WireOK, AnswersRouted, Owned, IsShare, IsFor, Remembered, Kinds

LEMMA LargerDiff == ASSUME NEW a \in Diffs \cup {0}, NEW b \in Diffs \cup {0}
                    PROVE  Larger(a, b) \in Diffs \cup {0}
  BY DEF Larger

LEMMA InvInit == Init => RpcInv
<1> SUFFICES ASSUME Init PROVE RpcInv
  OBVIOUS
<1>1. WireOK
  BY RingAssumption, SMT DEF Init, WireOK, NoIds, Distinct, Span, Owned, DiffKept
<1>2. RestOK
  BY DEF Init, OtaInit, RestOK, OtaTypeOK
<1>3. Stages /\ BooksAgree /\ FirstShareIsShare
  BY SMT DEF Init, OtaInit, Stages, BooksAgree, FirstShareIsShare
<1> QED
  BY <1>1, <1>2, <1>3 DEF RpcInv

\* One more accepted share in the books of the session, the slot and the pool.
LEMMA SessionBooks ==
  ASSUME NEW s \in [shares : Nat, rejected : Nat, diffSum : Nat], NEW d \in Nat,
         NEW t, t = [s EXCEPT !.shares = @ + 1, !.diffSum = @ + d]
  PROVE  /\ t \in [shares : Nat, rejected : Nat, diffSum : Nat]
         /\ t.shares = s.shares + 1 /\ t.diffSum = s.diffSum + d /\ t.rejected = s.rejected
<1>1. s.shares \in Nat /\ s.diffSum \in Nat /\ s.rejected \in Nat
  OBVIOUS
<1>2. t = [shares |-> s.shares + 1, rejected |-> s.rejected, diffSum |-> s.diffSum + d]
  OBVIOUS
<1> QED
  BY <1>1, <1>2

LEMMA SlotBooks ==
  ASSUME NEW s \in [shares : Nat, best : Diffs \cup {0}], NEW d \in Diffs \cup {0},
         NEW t, t = [s EXCEPT !.shares = @ + 1, !.best = Larger(@, d)]
  PROVE  /\ t \in [shares : Nat, best : Diffs \cup {0}]
         /\ t.shares = s.shares + 1 /\ t.best = Larger(s.best, d)
<1>1. s.shares \in Nat /\ Larger(s.best, d) \in Diffs \cup {0}
  BY LargerDiff
<1>2. t = [shares |-> s.shares + 1, best |-> Larger(s.best, d)]
  OBVIOUS
<1> QED
  BY <1>1, <1>2

LEMMA PoolBooks ==
  ASSUME NEW s \in [accepted : Nat, rejected : Nat, diffSum : Nat, best : Diffs \cup {0}],
         NEW d \in Diffs \cup {0}, d \in Nat,
         NEW t, t = [s EXCEPT !.accepted = @ + 1, !.diffSum = @ + d, !.best = Larger(@, d)]
  PROVE  /\ t \in [accepted : Nat, rejected : Nat, diffSum : Nat, best : Diffs \cup {0}]
         /\ t.accepted = s.accepted + 1 /\ t.diffSum = s.diffSum + d
         /\ t.rejected = s.rejected /\ t.best = Larger(s.best, d)
<1>1. /\ s.accepted \in Nat /\ s.diffSum \in Nat /\ s.rejected \in Nat
      /\ Larger(s.best, d) \in Diffs \cup {0}
  BY LargerDiff
<1>2. t = [accepted |-> s.accepted + 1, rejected |-> s.rejected,
           diffSum |-> s.diffSum + d, best |-> Larger(s.best, d)]
  OBVIOUS
<1> QED
  BY <1>1, <1>2

LEMMA MessageMoves ==
  ASSUME NEW b, pc \in {"await", "job", "read"}, AfterMessage(b)
  PROVE  pc' \in {"await", "authorize", "job", "submit"} /\ (pc' \in {"await", "authorize"} => pc = "await")
  BY DEF AfterMessage

USE DEF books

\* Answers, the heart of it.
LEMMA AnswerKeeps ==
  ASSUME Timely, RpcInv, NEW m \in wire, Receive(m),
         \/ SubscribeAnswer(m) \/ AuthorizeAnswer(m) \/ QuietAnswer(m) \/ ExtranonceAnswer(m)
         \/ ShareAccepted(m) \/ ShareRejected(m) \/ ShareIgnored(m)
  PROVE  RpcInv'
<1> USE DEF RpcInv
<1>0. wire' = wire \ {m} /\ pc \in {"await", "job", "read"}
  BY DEF Receive
<1>1. CASE SubscribeAnswer(m)
  <2>1. WireOK'
    BY <1>0, <1>1, Forgotten DEF SubscribeAnswer
  <2>a. pc' \in {"await", "authorize", "job", "submit"} /\ (pc' \in {"await", "authorize"} => pc = "await")
    BY <1>0, <1>1, MessageMoves DEF SubscribeAnswer
  <2>2. RestOK' /\ Stages'
    BY <1>1, <2>a DEF SubscribeAnswer, RestOK, Stages, OtaTypeOK, otaVars, Handshake, Loop
  <2>3. BooksAgree' /\ FirstShareIsShare'
    BY <1>1 DEF SubscribeAnswer, BooksAgree, FirstShareIsShare, otaVars
  <2> QED
    BY <2>1, <2>2, <2>3
<1>2. CASE AuthorizeAnswer(m)
  <2>1. WireOK'
    BY <1>0, <1>2, Forgotten DEF AuthorizeAnswer
  <2>a. pc' \in {"await", "authorize", "job", "submit"} /\ (pc' \in {"await", "authorize"} => pc = "await")
    <3>1. AfterMessage(FALSE)
      BY <1>2 DEF AuthorizeAnswer
    <3> QED
      BY <1>0, <3>1 DEF AfterMessage
  <2>b. OtaTypeOK'
    <3>1. CASE UNCHANGED otaVars
      BY <3>1 DEF RestOK, OtaTypeOK, otaVars
    <3>2. CASE OnAuthorized
      <4>1. otaArmed' \in BOOLEAN /\ otaTimer' \in BOOLEAN
        BY <3>2, Zenon DEF OnAuthorized, RestOK, OtaTypeOK
      <4> QED
        BY <3>2, <4>1 DEF OnAuthorized, RestOK, OtaTypeOK
    <3> QED
      BY <1>2, <3>1, <3>2 DEF AuthorizeAnswer
  <2>2. RestOK' /\ Stages'
    BY <1>2, <2>a, <2>b DEF AuthorizeAnswer, RestOK, Stages, Handshake, Loop
  <2>3. BooksAgree' /\ FirstShareIsShare'
    BY <1>2 DEF AuthorizeAnswer, OnAuthorized, BooksAgree, FirstShareIsShare, otaVars
  <2> QED
    BY <2>1, <2>2, <2>3
<1>3. CASE QuietAnswer(m) \/ ShareIgnored(m)
  <2>1. WireOK'
    BY <1>0, <1>3, Forgotten DEF QuietAnswer, ShareIgnored
  <2>2. RestOK' /\ Stages'
    BY <1>0, <1>3 DEF QuietAnswer, ShareIgnored, AfterMessage, RestOK, Stages, OtaTypeOK, otaVars, Handshake, Loop
  <2>3. BooksAgree' /\ FirstShareIsShare'
    BY <1>3 DEF QuietAnswer, ShareIgnored, BooksAgree, FirstShareIsShare, otaVars
  <2> QED
    BY <2>1, <2>2, <2>3
<1>4. CASE ExtranonceAnswer(m)
  <2>1. \A n \in wire' : n.kind # "extranonce"
    <3> SUFFICES ASSUME NEW n \in wire, n # m PROVE n.kind # "extranonce"
      BY <1>0
    <3>1. n.id # ids["extranonce"]
      BY <1>4 DEF ExtranonceAnswer, IsFor, WireOK, Distinct
    <3> QED
      BY <3>1, OtherKinds DEF Remembered, Kinds
  <2>2. WireOK'
    BY <1>0, <1>4, <2>1, IdForgotten DEF ExtranonceAnswer, Remembered, Kinds
  <2>3. RestOK'
    BY <1>0, <1>4 DEF ExtranonceAnswer, AfterMessage, RestOK, OtaTypeOK, otaVars, Handshake, Loop
  <2>4. Stages'
    BY <1>0, <1>4 DEF ExtranonceAnswer, AfterMessage, Stages, WireOK, Remembered, Kinds
  <2>5. BooksAgree' /\ FirstShareIsShare'
    BY <1>4 DEF ExtranonceAnswer, BooksAgree, FirstShareIsShare, otaVars
  <2> QED
    BY <2>2, <2>3, <2>4, <2>5
<1>5. CASE ShareAccepted(m)
  <2>1. m.kind = "submit" /\ Credit(m) = m.diff /\ m.diff \in Diffs \cup {0} /\ m.diff \in Nat
    BY <1>5, Routed, DiffAssumption DEF ShareAccepted, AnswersRouted, WireOK, DiffKept
  <2>2. WireOK'
    BY <1>0, <1>5, SlotCleared DEF ShareAccepted
  <2>3. /\ pool' = [pool EXCEPT !.accepted = @ + 1, !.diffSum = @ + m.diff,
                                !.best = Larger(@, m.diff)]
        /\ session' \in {session, [session EXCEPT !.shares = @ + 1, !.diffSum = @ + m.diff]}
        /\ slot' = [slot EXCEPT !.shares = @ + 1, !.best = Larger(@, m.diff)]
    BY <1>5, <2>1 DEF ShareAccepted, PoolAccepts
  <2>a. /\ session' \in [shares : Nat, rejected : Nat, diffSum : Nat]
        /\ session'.shares <= session.shares + 1
        /\ session'.diffSum <= session.diffSum + m.diff
        /\ session'.rejected = session.rejected
    <3>1. CASE session' = session
      BY <2>1, <3>1 DEF RestOK
    <3>2. CASE session' = [session EXCEPT !.shares = @ + 1, !.diffSum = @ + m.diff]
      <4>1. session \in [shares : Nat, rejected : Nat, diffSum : Nat]
        BY DEF RestOK
      <4>2. /\ session' \in [shares : Nat, rejected : Nat, diffSum : Nat]
            /\ session'.shares = session.shares + 1
            /\ session'.diffSum = session.diffSum + m.diff
            /\ session'.rejected = session.rejected
        BY <2>1, <3>2, <4>1, SessionBooks
      <4>3. session.shares + 1 \in Nat /\ session.diffSum + m.diff \in Nat
        BY <2>1, <4>1
      <4> QED
        BY <4>2, <4>3
    <3> QED
      BY <2>3, <3>1, <3>2
  <2>b. /\ slot' \in [shares : Nat, best : Diffs \cup {0}]
        /\ slot'.shares = slot.shares + 1 /\ slot'.best = Larger(slot.best, m.diff)
    BY <2>1, <2>3, SlotBooks DEF RestOK
  <2>c. /\ pool' \in [accepted : Nat, rejected : Nat, diffSum : Nat, best : Diffs \cup {0}]
        /\ pool'.accepted = pool.accepted + 1 /\ pool'.diffSum = pool.diffSum + m.diff
        /\ pool'.rejected = pool.rejected /\ pool'.best = Larger(pool.best, m.diff)
    BY <2>1, <2>3, PoolBooks DEF RestOK
  <2>6. OtaTypeOK'
    BY <1>5 DEF ShareAccepted, OnShareAccepted, RestOK, OtaTypeOK, Reasons
  <2>7. RestOK' /\ Stages'
    BY <1>0, <1>5, <2>a, <2>b, <2>c, <2>6 DEF ShareAccepted, AfterMessage, RestOK, Stages, Handshake, Loop
  <2>8. BooksAgree'
    BY <2>1, <2>a, <2>b, <2>c DEF RestOK, BooksAgree
  <2>9. pool'.accepted > 0
    BY <2>c DEF RestOK
  <2> QED
    BY <2>2, <2>7, <2>8, <2>9 DEF FirstShareIsShare
<1>6. CASE ShareRejected(m)
  <2>1. m.kind = "submit"
    BY <1>6, Routed DEF ShareRejected, AnswersRouted
  <2>2. WireOK'
    BY <1>0, <1>6, SlotCleared DEF ShareRejected
  <2>3. /\ pool' = [pool EXCEPT !.rejected = @ + 1]
        /\ session' \in {session, [session EXCEPT !.rejected = @ + 1]}
        /\ slot' = slot
    BY <1>6, <2>1 DEF ShareRejected, PoolRejects
  <2>4. RestOK'
    BY <1>0, <1>6, <2>3 DEF ShareRejected, AfterMessage, RestOK, OtaTypeOK, otaVars, Handshake, Loop
  <2>5. Stages'
    BY <1>0, <1>6 DEF ShareRejected, AfterMessage, Stages
  <2>6. BooksAgree'
    BY <2>3, SMT DEF RestOK, BooksAgree
  <2>7. FirstShareIsShare'
    BY <1>6, <2>3 DEF ShareRejected, FirstShareIsShare, otaVars, RestOK
  <2> QED
    BY <2>2, <2>4, <2>5, <2>6, <2>7
<1> QED
  BY <1>1, <1>2, <1>3, <1>4, <1>5, <1>6

LEMMA SendingKeeps == ASSUME Timely, RpcInv, Sending PROVE RpcInv'
<1> USE DEF RpcInv
<1>a. Remembered = {"configure", "subscribe", "authorize", "extranonce", "keepalive"}
  BY DEF Remembered, Kinds
<1>b. Kinds = {"configure", "subscribe", "authorize", "extranonce", "keepalive", "submit"}
  BY DEF Kinds
<1>1. CASE Configure
  <2>1. wire = {} /\ ids = NoIds
    BY <1>1 DEF Configure, At, Stages
  <2>2. WireOK'
    <3>1. CASE Send("configure", 0, wire) /\ ids' = [ids EXCEPT !["configure"] = nextId]
      BY <1>1, <1>b, <2>1, <3>1, Sent DEF Configure
    <3>2. CASE Spend /\ UNCHANGED <<wire, ids>>
      BY <1>1, <3>2, Spent DEF Configure, Spend
    <3> QED
      BY <1>1, <3>1, <3>2 DEF Configure
  <2>3. RestOK' /\ BooksAgree' /\ FirstShareIsShare'
    BY <1>1 DEF Configure, RestOK, OtaTypeOK, BooksAgree, FirstShareIsShare, otaVars, Handshake
  <2>4. Stages'
    BY <1>1, <1>a, <2>1 DEF Configure, Stages, NoIds, WireOK
  <2> QED
    BY <2>2, <2>3, <2>4
<1>2. CASE Subscribe
  <2>1. \A m \in wire : m.kind # "subscribe"
    BY <1>2, <1>a, NoneOpen DEF Subscribe, At, Stages
  <2>2. WireOK'
    BY <1>2, <1>b, <2>1, Sent DEF Subscribe
  <2>3. RestOK' /\ BooksAgree' /\ FirstShareIsShare'
    BY <1>2 DEF Subscribe, RestOK, OtaTypeOK, BooksAgree, FirstShareIsShare, otaVars, Handshake
  <2>4. Stages'
    BY <1>2, <1>a DEF Subscribe, At, Stages, WireOK
  <2> QED
    BY <2>2, <2>3, <2>4
<1>3. CASE Authorize
  <2>1. \A m \in wire : m.kind # "authorize"
    BY <1>3, <1>a, NoneOpen DEF Authorize, At, Stages
  <2>2. WireOK'
    BY <1>3, <1>b, <2>1, Sent DEF Authorize
  <2>3. RestOK' /\ BooksAgree' /\ FirstShareIsShare'
    BY <1>3 DEF Authorize, RestOK, OtaTypeOK, BooksAgree, FirstShareIsShare, otaVars, Handshake
  <2>4. Stages'
    BY <1>3, <1>a DEF Authorize, At, Stages, WireOK
  <2> QED
    BY <2>2, <2>3, <2>4
<1>4. CASE ExtranonceSubscribe
  <2>1. \A m \in wire : m.kind # "extranonce"
    BY <1>4, <1>a, NoneOpen DEF ExtranonceSubscribe, At, Stages
  <2>2. WireOK'
    <3>1. CASE Send("extranonce", 0, wire) /\ ids' = [ids EXCEPT !["extranonce"] = nextId]
      BY <1>4, <1>b, <2>1, <3>1, Sent DEF ExtranonceSubscribe
    <3>2. CASE Spend /\ UNCHANGED <<wire, ids>>
      BY <1>4, <3>2, Spent DEF ExtranonceSubscribe, Spend
    <3> QED
      BY <1>4, <3>1, <3>2 DEF ExtranonceSubscribe
  <2>3. RestOK' /\ BooksAgree' /\ FirstShareIsShare'
    BY <1>4 DEF ExtranonceSubscribe, RestOK, OtaTypeOK, BooksAgree, FirstShareIsShare, otaVars, Handshake
  <2>4. Stages'
    BY <1>4 DEF ExtranonceSubscribe, Stages
  <2> QED
    BY <2>2, <2>3, <2>4
<1>5. ASSUME NEW d \in Diffs, SubmitShare(d) PROVE RpcInv'
  <2>1. WireOK'
    <3>1. /\ Send("submit", d, wire) /\ ids' = ids
          /\ ring' = [ring EXCEPT ![nextId % Ring] = d]
      BY <1>5 DEF SubmitShare
    <3> QED
      BY <1>b, <3>1, Sent
  <2>0. submits' \in Nat /\ UNCHANGED <<pc, en1, status, session, slot, pool, otaVars>>
    BY <1>5 DEF SubmitShare, RestOK
  <2>2. RestOK' /\ BooksAgree' /\ FirstShareIsShare'
    BY <2>0 DEF RestOK, OtaTypeOK, BooksAgree, FirstShareIsShare, otaVars
  <2>3. Stages'
    BY <1>5 DEF SubmitShare, At, Stages
  <2> QED
    BY <2>1, <2>2, <2>3
<1> QED
  BY <1>1, <1>2, <1>3, <1>4, <1>5 DEF Sending

LEMMA LoopKeeps == ASSUME Timely, RpcInv, LoopStep \/ SetExtranonce \/ Connect \/ Reconnect PROVE RpcInv'
<1> USE DEF RpcInv
<1>a. Remembered = {"configure", "subscribe", "authorize", "extranonce", "keepalive"}
  BY DEF Remembered, Kinds
<1>1. CASE Connect
  <2>1. wire = {} /\ ids = NoIds
    BY <1>1 DEF Connect, At, Stages
  <2>2. WireOK'
    BY <1>1, <1>a, <2>1, RingAssumption, SMT DEF Connect, WireOK, NoIds, Distinct, Span, Owned, DiffKept
  <2>3. RestOK' /\ BooksAgree' /\ FirstShareIsShare' /\ Stages'
    BY <1>1, <2>1 DEF Connect, RestOK, OtaTypeOK, BooksAgree, FirstShareIsShare, otaVars, Handshake, Stages
  <2> QED
    BY <2>2, <2>3
<1>2. CASE Reconnect
  <2>1. WireOK'
    BY <1>2, <1>a, SMT DEF Reconnect, WireOK, NoIds, Distinct, Span, Owned, DiffKept
  <2>2. RestOK' /\ BooksAgree' /\ FirstShareIsShare' /\ Stages'
    BY <1>2 DEF Reconnect, RestOK, OtaTypeOK, BooksAgree, FirstShareIsShare, otaVars, Stages
  <2> QED
    BY <2>1, <2>2
<1>3. CASE HandshakeDone \/ ReadOther \/ SubmitDone \/ Roll \/ NoTimeout \/ NoKeepalive \/ SetExtranonce
  <2>1. WireOK'
    BY <1>3, Forgotten DEF HandshakeDone, ReadOther, SubmitDone, Roll, NoTimeout, NoKeepalive, SetExtranonce
  <2>2. /\ pc' \in {"read", "submit", "roll", "tidy", "keepalive"} \/ (pc' = "authorize" /\ pc = "await")
        /\ UNCHANGED <<ids, status, wire, session, slot, pool, submits, otaVars>>
    <3>1. CASE SetExtranonce
      BY <3>1 DEF SetExtranonce, At
    <3>2. CASE HandshakeDone \/ ReadOther \/ SubmitDone
      BY <3>2 DEF HandshakeDone, ReadOther, SubmitDone
    <3>3. CASE Roll \/ NoTimeout \/ NoKeepalive
      BY <3>3 DEF Roll, NoTimeout, NoKeepalive
    <3> QED
      BY <1>3, <3>1, <3>2, <3>3
  <2>0. en1' \in BOOLEAN
    <3>1. CASE SetExtranonce
      BY <3>1, Zenon DEF SetExtranonce
    <3>2. CASE ~SetExtranonce
      <4>1. UNCHANGED en1
        BY <1>3, <3>2 DEF HandshakeDone, ReadOther, SubmitDone, Roll, NoTimeout, NoKeepalive
      <4> QED
        BY <4>1, Zenon DEF RestOK
    <3> QED
      BY <3>1, <3>2
  <2>3. RestOK' /\ BooksAgree' /\ FirstShareIsShare' /\ Stages'
    <3>1. OtaTypeOK' /\ BooksAgree' /\ FirstShareIsShare'
      BY <2>2 DEF RestOK, OtaTypeOK, BooksAgree, FirstShareIsShare, otaVars
    <3>2. RestOK'
      BY <2>0, <2>2, <3>1 DEF RestOK, Handshake, Loop
    <3>3. Stages'
      BY <2>2 DEF Stages
    <3> QED
      BY <3>1, <3>2, <3>3
  <2> QED
    BY <2>1, <2>3
<1>4. CASE ExtranonceTimeout
  <2>1. wire' \subseteq wire /\ \A m \in wire' : m.kind # "extranonce"
    BY <1>4, <1>a, OtherKinds DEF Timely, ExtranonceTimeout, GivenUp, IsFor
  <2>2. WireOK'
    BY <1>4, <1>a, <2>1, IdForgotten DEF ExtranonceTimeout
  <2>3. RestOK' /\ BooksAgree' /\ FirstShareIsShare' /\ Stages'
    BY <1>4 DEF ExtranonceTimeout, RestOK, OtaTypeOK, BooksAgree, FirstShareIsShare, otaVars, Loop, Stages
  <2> QED
    BY <2>2, <2>3
<1>5. CASE Keepalive
  <2>1. GivenUp("keepalive") \in SUBSET wire /\ \A m \in GivenUp("keepalive") : m.kind # "keepalive"
    BY <1>a, OtherKinds DEF Timely, GivenUp, IsFor
  <2>2. "keepalive" \in Kinds
    BY DEF Kinds
  <2>3. WireOK'
    BY <1>5, <2>1, <2>2, Sent DEF Keepalive
  <2>4. RestOK' /\ BooksAgree' /\ FirstShareIsShare' /\ Stages'
    BY <1>5 DEF Keepalive, RestOK, OtaTypeOK, BooksAgree, FirstShareIsShare, otaVars, Loop, Stages
  <2> QED
    BY <2>3, <2>4
<1> QED
  BY <1>1, <1>2, <1>3, <1>4, <1>5 DEF LoopStep

\* The timer task and the marking touch the validator only.
LEMMA OtaKeeps ==
  ASSUME RpcInv, TimerTask \/ \E reason \in Reasons : Mark(reason)
  PROVE  RpcInv'
<1> USE DEF RpcInv
<1>1. UNCHANGED rpcVars
  BY DEF TimerTask, Mark
<1>2. WireOK'
  BY <1>1, Forgotten DEF rpcVars
<1>3. OtaTypeOK' /\ ("first share" \in otaMarking' \cup otaMarks' => "first share" \in otaMarking \cup otaMarks)
  BY DEF TimerTask, TimerFires, Mark, MarkValid, Reasons, RestOK, OtaTypeOK
<1>4. RestOK' /\ Stages' /\ BooksAgree' /\ FirstShareIsShare'
  BY <1>1, <1>3 DEF rpcVars, RestOK, Stages, BooksAgree, FirstShareIsShare
<1> QED
  BY <1>2, <1>4

LEMMA InvStep == ASSUME Timely PROVE RpcInv /\ [Next]_vars => RpcInv'
<1> SUFFICES ASSUME RpcInv, [Next]_vars PROVE RpcInv'
  OBVIOUS
<1>1. CASE Answer
  <2> PICK m \in wire :
        \/ SubscribeAnswer(m) \/ AuthorizeAnswer(m) \/ QuietAnswer(m) \/ ExtranonceAnswer(m)
        \/ ShareAccepted(m) \/ ShareRejected(m) \/ ShareIgnored(m)
    BY <1>1 DEF Answer
  <2>1. Receive(m)
    BY DEF SubscribeAnswer, AuthorizeAnswer, QuietAnswer, ExtranonceAnswer,
           ShareAccepted, ShareRejected, ShareIgnored
  <2> QED
    BY <2>1, AnswerKeeps
<1>2. CASE PoolForgets
  <2>1. wire' \subseteq wire /\ UNCHANGED <<nextId, ids, ring>>
    BY <1>2 DEF PoolForgets
  <2>2. WireOK'
    <3>1. WireOK
      BY DEF RpcInv
    <3> QED
      BY <2>1, <3>1, Forgotten
  <2>3. RestOK' /\ Stages' /\ BooksAgree' /\ FirstShareIsShare'
    <3>1. UNCHANGED <<pc, en1, status, ids, session, slot, submits, pool, otaVars>>
      BY <1>2 DEF PoolForgets
    <3>2. RestOK' /\ BooksAgree' /\ FirstShareIsShare'
      BY <3>1 DEF RpcInv, RestOK, OtaTypeOK, BooksAgree, FirstShareIsShare, otaVars
    <3>3. Stages'
      BY <2>1, <3>1 DEF RpcInv, Stages
    <3> QED
      BY <3>2, <3>3
  <2> QED
    BY <2>2, <2>3 DEF RpcInv
<1>3. CASE UNCHANGED vars
  <2>1. WireOK'
    BY <1>3, Forgotten DEF RpcInv, vars
  <2>2. RestOK' /\ Stages' /\ BooksAgree' /\ FirstShareIsShare'
    <3>1. RestOK' /\ BooksAgree' /\ FirstShareIsShare'
      BY <1>3 DEF vars, RpcInv, RestOK, OtaTypeOK, BooksAgree, FirstShareIsShare
    <3>2. Stages'
      BY <1>3 DEF vars, RpcInv, Stages
    <3> QED
      BY <3>1, <3>2
  <2> QED
    BY <2>1, <2>2 DEF RpcInv
<1> QED
  BY <1>1, <1>2, <1>3, SendingKeeps, LoopKeeps, OtaKeeps DEF Next, TaskNext

THEOREM RpcInvariant == ASSUME Timely PROVE Spec => []RpcInv
<1> QED
  BY InvInit, InvStep, PTL DEF Spec

-----------------------------------------------------------------------------
(* What follows from it *)

\* Every variable of the requests and of the validator keeps its type.
THEOREM TypeCorrect == ASSUME Timely PROVE Spec => []TypeOK
<1>1. RpcInv => TypeOK
  BY DEF RpcInv, WireOK, RestOK, TypeOK
<1> QED
  BY <1>1, RpcInvariant, PTL

\* process_message() takes every answer for what it answers.
THEOREM AnswersAreRouted == ASSUME Timely PROVE Spec => []AnswersRouted
<1>1. RpcInv => AnswersRouted
  BY Routed DEF RpcInv
<1> QED
  BY <1>1, RpcInvariant, PTL

\* s_inflight_diff keeps the difficulty of every share that is still open.
THEOREM DiffsAreKept == ASSUME Timely PROVE Spec => []DiffKept
<1>1. RpcInv => DiffKept
  BY DEF RpcInv, WireOK
<1> QED
  BY <1>1, RpcInvariant, PTL

\* The statistics are those of the shares the pool accepted and rejected.
THEOREM BooksAreRight == ASSUME Timely PROVE Spec => []BooksAgree
<1>1. RpcInv => BooksAgree
  BY DEF RpcInv
<1> QED
  BY <1>1, RpcInvariant, PTL

\* No image is marked valid for a first share that no pool accepted.
THEOREM FirstShareCounts == ASSUME Timely PROVE Spec => []FirstShareIsShare
<1>1. RpcInv => FirstShareIsShare
  BY DEF RpcInv
<1> QED
  BY <1>1, RpcInvariant, PTL
=============================================================================
