--------------------------- MODULE WorkFlowProofs ---------------------------
(***************************************************************************)
(* Proofs about WorkFlow, for every set of difficulties, job-id step,      *)
(* modulus and table size, queue capacity and bound on work_seq.           *)
(***************************************************************************)
EXTENDS WorkFlow, TLAPS

USE FeedAssumption, JobAssumption

\* Sequence numbers only grow: nothing refers to a work not yet built, and
\* the queue holds the latest or nothing.
Ordered ==
  /\ en2 <= seq /\ taken <= seq /\ cleanSeq <= seq
  /\ queue # NoWork => queue.seq = seq

TypeInv == TypeOK /\ Ordered

\* A job id falls on one of the table's slots, and the next one is a job id.
LEMMA JobIdTyped ==
  /\ \A id \in JobIds : Slot(id) \in Slots
  /\ \A id \in JobIds : (id + JobIdStep) % JobIdMod \in JobIds
BY DEF JobIds, Slot, Slots

\* Publishing never moves work_seq back.
LEMMA SeqGrows ==
  ASSUME TypeInv, Publish(TRUE) \/ Publish(FALSE)
  PROVE  seq' \in Nat /\ seq' >= seq
BY DEF Publish, Overwrite, TypeInv, TypeOK, FeedTypeOK

\* A step of the stratum task that publishes, or is refused, keeps the types
\* and the order.
LEMMA PublishTyped ==
  ASSUME TypeInv, Publish(TRUE) \/ Publish(FALSE),
         job' \in 1..MaxSeq, en2' \in Nat, en2' <= seq',
         diff' \in Diffs \cup {NoTarget},
         UNCHANGED <<board, link, mask, results, miner>>
  PROVE  FeedTypeOK' /\ Ordered'
<1>. USE DEF TypeInv, TypeOK, FeedTypeOK
<1>1. CASE diff' = NoTarget /\ UNCHANGED <<seq, queue, cleanSeq, lostClean>>
  BY <1>1 DEF Ordered, miner
<1>2. ASSUME NEW c \in BOOLEAN, diff' # NoTarget, Overwrite(c)
      PROVE  FeedTypeOK' /\ Ordered'
  <2>1. /\ seq' = seq + 1 /\ seq' \in 1..MaxSeq
        /\ queue' = [seq |-> seq', job |-> job', en2 |-> en2', diff |-> diff',
                     mask |-> mask, clean |-> c]
    BY <1>2 DEF Overwrite
  <2>2. en2' \in 0..MaxSeq /\ diff' \in Diffs
    BY <1>2, <2>1
  <2>3. queue' \in Works /\ queue'.seq = seq'
    BY <2>1, <2>2 DEF Works
  <2>4. cleanSeq' \in 0..seq'
    BY <1>2, <2>1 DEF Overwrite, Ordered
  <2>5. lostClean' \in BOOLEAN
    BY <1>2, Zenon DEF Overwrite
  <2>6. taken' <= seq'
    BY <2>1 DEF Ordered, miner
  <2>. QED
    BY <2>1, <2>2, <2>3, <2>4, <2>5, <2>6 DEF Ordered, miner
<1>. QED
  BY <1>1, <1>2 DEF Publish

\* The stratum task keeps the types and the order.
LEMMA FeedTyped ==
  ASSUME TypeInv, FeedNext
  PROVE  FeedTypeOK' /\ Ordered'
<1>. USE DEF TypeInv, TypeOK, FeedTypeOK
<1>1. CASE Notify
  <2>1. (Publish(TRUE) \/ Publish(FALSE)) /\ diff' = diff
    BY <1>1, Zenon DEF Notify
  <2>2. job' \in 1..MaxSeq /\ en2' = 0 /\ diff' \in Diffs \cup {NoTarget}
    BY <1>1, <2>1 DEF Notify
  <2>4. en2' <= seq'
    <3>1. seq' \in Nat
      BY <2>1, SeqGrows
    <3>. QED
      BY <2>2, <3>1
  <2>3. UNCHANGED <<board, link, mask, results, miner>>
    BY <1>1 DEF Notify
  <2>. QED
    BY <2>1, <2>2, <2>3, <2>4, PublishTyped
<1>2. CASE SetDifficulty
  <2>1. CASE job = 0 /\ UNCHANGED <<seq, queue, cleanSeq, lostClean>>
    BY <1>2, <2>1 DEF SetDifficulty, Ordered, miner
  <2>2. CASE job # 0 /\ Publish(TRUE)
    BY <1>2, <2>2, PublishTyped, SeqGrows DEF SetDifficulty, Ordered
  <2>. QED
    BY <1>2, <2>1, <2>2 DEF SetDifficulty
<1>3. CASE Roll
  <2>1. seq' = seq + 1
    BY <1>3 DEF Roll, Publish, Overwrite
  <2>. QED
    BY <1>3, <2>1, PublishTyped DEF Roll, Ordered
<1>4. CASE Open \/ Connected \/ Configured
  BY <1>4 DEF Open, Connected, Configured, Ordered, miner
<1>5. CASE Submit
  BY <1>5 DEF Submit, Ordered, feed, miner
<1>6. CASE Close
  <2>1. lostClean' \in BOOLEAN
    BY <1>6, Zenon DEF Close
  <2>. QED
    BY <1>6, <2>1 DEF Close, Ordered, miner
<1>7. CASE Clear
  <2>1. mask' \in BOOLEAN
    BY <1>7, Zenon DEF Clear
  <2>2. job' = 0 /\ results' = 0 /\ link' = "down"
    BY <1>7 DEF Clear
  <2>3. UNCHANGED <<board, en2, diff, seq, queue, miner, cleanSeq, lostClean>>
    BY <1>7 DEF Clear
  <2>. QED
    BY <2>1, <2>2, <2>3 DEF Ordered, miner
<1>. QED
  BY <1>1, <1>2, <1>3, <1>4, <1>5, <1>6, <1>7 DEF FeedNext

\* The miner's end of the result queue keeps the types and the order.
LEMMA QueueEndTyped ==
  ASSUME TypeInv, NEW next, CheckConnected(next) \/ PutShare(next)
  PROVE  FeedTypeOK' /\ Ordered' /\ pc' \in {"put", next} /\ UNCHANGED board
<1>. USE DEF TypeInv, TypeOK, FeedTypeOK, Ordered, feed
<1>1. CASE CheckConnected(next)
  <2>1. (UNCHANGED share \/ share' = NoShare) /\ pc' \in {"put", next}
    BY <1>1, Zenon DEF CheckConnected
  <2>2. UNCHANGED <<feed, results, taken>>
    BY <1>1 DEF CheckConnected
  <2>. QED
    BY <2>1, <2>2
<1>2. CASE PutShare(next)
  BY <1>2 DEF PutShare
<1>. QED
  BY <1>1, <1>2

\* A share packaged from a typed work is typed.
LEMMA PackageTyped ==
  ASSUME NEW w \in Works, NEW v \in 0..Rolls, NEW h \in Hashes
  PROVE  Package(w, v, h) \in Shares
BY DEF Package, Shares, Works

\* The hash of a typed work is typed.
LEMMA HashTyped ==
  ASSUME NEW w \in Works, NEW r \in 0..Rolls, NEW q \in Diffs
  PROVE  HashOf(w, r, q) \in Hashes
BY DEF HashOf, Hashes, Works

\* A typed entry is the empty one, or holds a work.
LEMMA EntryTyped ==
  /\ Empty \in Entries
  /\ \A e \in Entries : e # Empty => e.id \in JobIds /\ e.work \in Works
  /\ Empty.id = 0 /\ Empty.work = NoWork /\ NoWork.job = 0 /\ NoWork.seq = 0
BY DEF Entries, Empty, NoWork

\* The ASIC task and its chip keep the types and the order.
LEMMA AsicTyped ==
  ASSUME TypeInv, board = "asic", AsicStep \/ Recover \/ ChipFinds, UNCHANGED sw
  PROVE  TypeInv'
<1>. USE DEF TypeInv
<1>0. SwTypeOK'
  BY DEF TypeOK, SwTypeOK, sw
<1>1. CASE AsicPeek
  <2>1. UNCHANGED <<feed, results, share, wire>> /\ pc' = "read"
        /\ queue # NoWork /\ queue \in Works
    BY <1>1 DEF AsicPeek, TypeOK, FeedTypeOK
  <2>2. CASE Dispatch
    <3>1. nextId' \in JobIds /\ Slot(nextId') \in Slots
      BY <2>2, JobIdTyped DEF Dispatch, TypeOK, AsicTypeOK
    <3>2. chip' \in Entries
      BY <2>1, <2>2, <3>1 DEF Dispatch, Entries
    <3>3. Abandon(queue.clean) \in [Slots -> Entries]
      BY EntryTyped DEF Abandon, TypeOK, AsicTypeOK
    <3>4. table' \in [Slots -> Entries]
      BY <2>2, <3>1, <3>2, <3>3 DEF Dispatch
    <3>5. taken' \in 0..MaxSeq /\ taken' <= seq
      BY <2>1, <2>2 DEF Dispatch, TypeOK, FeedTypeOK, Ordered, Works
    <3>. QED
      BY <1>0, <2>1, <3>1, <3>2, <3>4, <3>5
         DEF TypeOK, FeedTypeOK, AsicTypeOK, Ordered, Labels, feed
  <2>3. CASE UNCHANGED <<chip, nextId, table, taken>>
    BY <1>0, <2>1, <2>3 DEF TypeOK, FeedTypeOK, AsicTypeOK, Ordered, Labels, feed
  <2>. QED
    BY <1>1, <2>2, <2>3 DEF AsicPeek
<1>2. CASE NoResponse
  BY <1>0, <1>2 DEF NoResponse, TypeOK, FeedTypeOK, AsicTypeOK, Ordered, Labels, feed, asic
<1>3. CASE BadPreamble \/ ResponseDropped
  <2>0. wire' = <<>> \/ (wire # <<>> /\ wire' = Tail(wire))
    BY <1>3 DEF BadPreamble, ResponseDropped
  <2>1. wire' \in Seq(Responses) /\ Len(wire') <= WireCap
    <3>1. CASE wire' = <<>>
      BY <3>1
    <3>2. CASE wire # <<>> /\ wire' = Tail(wire)
      BY <3>2 DEF TypeOK, AsicTypeOK
    <3>. QED
      BY <2>0, <3>1, <3>2
  <2>. QED
    BY <1>0, <1>3, <2>1
       DEF BadPreamble, ResponseDropped, TypeOK, FeedTypeOK, AsicTypeOK, Ordered, Labels, feed
<1>4. CASE NonceChecked
  <2>. DEFINE r == Head(wire)
              entry == table[Slot(r.id)]
  <2>1. r \in Responses /\ wire' \in Seq(Responses) /\ Len(wire') <= WireCap
    BY <1>4 DEF NonceChecked, TypeOK, AsicTypeOK
  <2>2. entry \in Entries /\ entry # Empty
    BY <1>4, <2>1, JobIdTyped, EntryTyped DEF NonceChecked, Stale, Responses, TypeOK, AsicTypeOK
  <2>3. Package(entry.work, r.hash.roll, r.hash) \in Shares
    BY <2>1, <2>2, EntryTyped, PackageTyped DEF Responses, Hashes
  <2>4. share' \in Shares \cup {NoShare} /\ pc' \in {"top", "found"}
    BY <1>4, <2>3 DEF NonceChecked, TypeOK, FeedTypeOK
  <2>5. UNCHANGED <<feed, results, taken, chip, nextId, table>>
    BY <1>4 DEF NonceChecked
  <2>. QED
    BY <1>0, <2>1, <2>4, <2>5 DEF TypeOK, FeedTypeOK, AsicTypeOK, Ordered, Labels, feed
<1>5. CASE (CheckConnected("top") \/ PutShare("top")) /\ UNCHANGED asic
  BY <1>0, <1>5, QueueEndTyped DEF TypeOK, AsicTypeOK, Labels, asic
<1>6. CASE Recover
  BY <1>0, <1>6, EntryTyped
     DEF Recover, TypeOK, FeedTypeOK, AsicTypeOK, Ordered, Labels, feed, JobIds
<1>7. CASE ChipFinds
  <2>1. PICK q \in Diffs, r \in 0..Rolls :
          wire' = Append(wire, [id |-> chip.id, hash |-> HashOf(chip.work, r, q)])
    BY <1>7 DEF ChipFinds
  <2>2. [id |-> chip.id, hash |-> HashOf(chip.work, r, q)] \in Responses
    BY <1>7, EntryTyped, HashTyped DEF ChipFinds, Responses, TypeOK, AsicTypeOK
  <2>3. wire' \in Seq(Responses) /\ Len(wire') <= WireCap
    BY <1>7, <2>1, <2>2 DEF ChipFinds, TypeOK, AsicTypeOK
  <2>. QED
    BY <1>0, <1>7, <2>3
       DEF ChipFinds, TypeOK, FeedTypeOK, AsicTypeOK, Ordered, Labels, feed, miner
<1>. QED
  BY <1>1, <1>2, <1>3, <1>4, <1>5, <1>6, <1>7 DEF AsicStep

\* The hashing loop keeps the types and the order.
LEMMA SwTyped ==
  ASSUME TypeInv, board = "sw", pc = "top" \/ cur \in Works, SwStep, UNCHANGED asic
  PROVE  TypeInv'
<1>. USE DEF TypeInv
<1>0. AsicTypeOK'
  BY DEF TypeOK, AsicTypeOK, asic
<1>1. CASE SwPeek \/ SwSwap
  BY <1>0, <1>1 DEF SwPeek, SwSwap, TypeOK, FeedTypeOK, SwTypeOK, Ordered, Labels, feed, Works
<1>2. CASE SwHit
  <2>1. PICK q \in Diffs : share' = Package(cur, verBits, HashOf(cur, roll, q))
    BY <1>2 DEF SwHit
  <2>2. share' \in Shares
    BY <1>2, <2>1, PackageTyped, HashTyped DEF SwHit, TypeOK, SwTypeOK
  <2>. QED
    BY <1>0, <1>2, <2>2 DEF SwHit, TypeOK, FeedTypeOK, SwTypeOK, Ordered, Labels, feed, sw
<1>3. CASE SwExhaust
  BY <1>0, <1>3
     DEF SwExhaust, NextRoll, TypeOK, FeedTypeOK, SwTypeOK, Ordered, Labels, feed
<1>4. CASE (CheckConnected("range") \/ PutShare("range")) /\ UNCHANGED sw
  BY <1>0, <1>4, QueueEndTyped DEF TypeOK, SwTypeOK, Labels, sw
<1>. QED
  BY <1>1, <1>2, <1>3, <1>4 DEF SwStep

\* The loop runs on a work, and one without a version mask is not rolled.
SwInv == board = "sw" => /\ pc # "top" => cur # NoWork
                         /\ ~cur.mask => roll = 0

\* A share on its way to the queue recomputes.
ShareInv == TypeInv /\ SwInv /\ SharesRecompute

\* The initial states satisfy the invariant.
LEMMA InitShare == Init => ShareInv
<1>. SUFFICES ASSUME Init PROVE ShareInv
  OBVIOUS
<1>1. FeedTypeOK /\ Ordered
  <2>1. mask \in BOOLEAN /\ lostClean \in BOOLEAN
    BY Zenon DEF Init, FeedInit
  <2>. QED
    BY <2>1 DEF Init, FeedInit, FeedTypeOK, Ordered
<1>2. AsicTypeOK
  BY EntryTyped DEF Init, AsicInit, AsicTypeOK, JobIds
<1>3. SwTypeOK /\ cur = NoWork /\ roll = 0
  BY DEF Init, SwInit, SwTypeOK
<1>4. pc \in Labels /\ pc = "top" /\ share = NoShare
  BY DEF Init, FeedInit, Labels
<1>. QED
  BY <1>1, <1>2, <1>3, <1>4 DEF ShareInv, TypeInv, TypeOK, SwInv, SharesRecompute

\* What the ASIC task takes for a share recomputes: the target was met by the
\* header of the work found in the table.
LEMMA AsicShare ==
  ASSUME ShareInv, board = "asic", AsicStep \/ Recover \/ ChipFinds, UNCHANGED sw
  PROVE  SharesRecompute' /\ SwInv' /\ UNCHANGED board
<1>1. UNCHANGED board
  BY DEF AsicStep, Recover, ChipFinds, AsicPeek, NoResponse, BadPreamble, ResponseDropped,
         NonceChecked, CheckConnected, PutShare, feed
<1>2. SwInv'
  BY <1>1 DEF SwInv
<1>3. UNCHANGED share \/ share' = NoShare \/ NonceChecked
  BY DEF AsicStep, Recover, ChipFinds, AsicPeek, NoResponse, BadPreamble, ResponseDropped,
         CheckConnected, PutShare, miner
<1>4. CASE UNCHANGED share \/ share' = NoShare
  BY <1>1, <1>2, <1>4 DEF ShareInv, SharesRecompute, Recomputes
<1>5. CASE NonceChecked /\ ~UNCHANGED share
  <2>. DEFINE h == Head(wire).hash
              w == table[Slot(Head(wire).id)].work
  <2>1. MeetsTarget(w, h) /\ share' = Package(w, h.roll, h)
    BY <1>5 DEF NonceChecked
  <2>2. /\ h.job = w.job /\ h.en2 = w.en2 /\ w.diff <= h.q
    BY <2>1 DEF MeetsTarget, HashOf
  <2>. QED
    BY <1>1, <1>2, <2>1, <2>2 DEF SharesRecompute, Recomputes, Package
<1>. QED
  BY <1>1, <1>2, <1>3, <1>4, <1>5

\* What the hashing loop takes for a share recomputes: share_reverify() found
\* the range's version bits in the header.
LEMMA SwShare ==
  ASSUME ShareInv, board = "sw", SwStep, UNCHANGED asic
  PROVE  SharesRecompute' /\ SwInv' /\ UNCHANGED board
<1>. USE DEF ShareInv
<1>1. UNCHANGED board
  BY DEF SwStep, SwPeek, SwHit, SwSwap, SwExhaust, CheckConnected, PutShare, feed
<1>2. CASE SwHit
  <2>1. PICK q \in Diffs : /\ q >= cur.diff /\ Reverified
                           /\ share' = Package(cur, verBits, HashOf(cur, roll, q))
    BY <1>2 DEF SwHit
  <2>2. roll = IF cur.mask THEN verBits ELSE 0
    BY <2>1 DEF SwInv, Reverified
  <2>3. SharesRecompute'
    BY <1>1, <2>1, <2>2 DEF SharesRecompute, Recomputes, Package, HashOf
  <2>. QED
    BY <1>1, <1>2, <2>3 DEF SwHit, SwInv, sw, TypeInv, TypeOK, Labels
<1>3. CASE SwPeek \/ SwSwap \/ SwExhaust
  <2>1. SwInv'
    BY <1>1, <1>3 DEF SwPeek, SwSwap, SwExhaust, SwInv
  <2>. QED
    BY <1>1, <1>3, <2>1 DEF SwPeek, SwSwap, SwExhaust, SharesRecompute, Recomputes
<1>4. CASE (CheckConnected("range") \/ PutShare("range")) /\ UNCHANGED sw
  <2>1. UNCHANGED share \/ share' = NoShare
    BY <1>4 DEF CheckConnected, PutShare
  <2>2. SwInv'
    BY <1>1, <1>4 DEF SwInv, CheckConnected, PutShare, sw
  <2>. QED
    BY <1>1, <2>1, <2>2 DEF SharesRecompute, Recomputes
<1>. QED
  BY <1>1, <1>2, <1>3, <1>4 DEF SwStep

\* Every step keeps the invariant.
LEMMA NextShare == ShareInv /\ [Next]_vars => ShareInv'
<1>. SUFFICES ASSUME ShareInv, [Next]_vars PROVE ShareInv'
  OBVIOUS
<1>1. CASE FeedNext /\ UNCHANGED <<asic, sw>>
  <2>1. UNCHANGED <<board, pc, share>>
    BY <1>1 DEF FeedNext, Notify, SetDifficulty, Roll, Open, Configured, Connected, Submit,
                Close, Clear, feed, miner
  <2>2. FeedTypeOK' /\ Ordered'
    BY <1>1, FeedTyped DEF ShareInv
  <2>. QED
    BY <1>1, <2>1, <2>2
       DEF ShareInv, TypeInv, TypeOK, AsicTypeOK, SwTypeOK, Labels, SwInv, SharesRecompute,
           Recomputes, asic, sw
<1>2. CASE board = "asic" /\ (AsicStep \/ Recover \/ ChipFinds) /\ UNCHANGED sw
  BY <1>2, AsicTyped, AsicShare DEF ShareInv
<1>3. CASE board = "sw" /\ SwStep /\ UNCHANGED asic
  <2>1. pc = "top" \/ cur \in Works
    BY <1>3 DEF ShareInv, SwInv, TypeInv, TypeOK, SwTypeOK
  <2>. QED
    BY <1>3, <2>1, SwTyped, SwShare DEF ShareInv
<1>4. CASE UNCHANGED vars
  BY <1>4 DEF ShareInv, TypeInv, TypeOK, FeedTypeOK, AsicTypeOK, SwTypeOK, Ordered, Labels,
              SwInv, SharesRecompute, Recomputes, vars, feed, miner, asic, sw
<1>. QED
  BY <1>1, <1>2, <1>3, <1>4 DEF Next

\* The invariant holds in every behaviour.
LEMMA ShareInvariant == Spec => []ShareInv
BY InitShare, NextShare, PTL DEF Spec

\* Every variable keeps its type.
THEOREM TypeCorrect == Spec => []TypeOK
<1>1. ShareInv => TypeOK
  BY DEF ShareInv, TypeInv
<1>. QED
  BY <1>1, ShareInvariant, PTL

\* Whatever work the queue loses and whatever job id the chip echoes, a share
\* about to be queued recomputes to the hash it was found on.
THEOREM SharesAreRight == Spec => []SharesRecompute
<1>1. ShareInv => SharesRecompute
  BY DEF ShareInv
<1>. QED
  BY <1>1, ShareInvariant, PTL

\* While the latest clean work was not lost: it, or later work, was taken and
\* the table holds nothing older; or it still waits in the queue; or there is
\* nothing in the table.
AllEmpty == \A s \in Slots : table[s] = Empty
NoOlder == \A s \in Slots : table[s] # Empty => table[s].work.seq >= cleanSeq
Waits == queue # NoWork /\ queue.clean /\ queue.seq = cleanSeq
CleanInv ==
  /\ board = "sw" => AllEmpty
  /\ ~lostClean => \/ taken >= cleanSeq /\ NoOlder
                   \/ taken < cleanSeq /\ Waits
                   \/ AllEmpty

\* Publishing work keeps the clean invariant: work not seen is marked lost
\* when something takes its place.
LEMMA PublishClean ==
  ASSUME TypeInv, CleanInv, Publish(TRUE) \/ Publish(FALSE), UNCHANGED <<board, taken, table>>
  PROVE  CleanInv'
<1>0. CASE UNCHANGED <<queue, cleanSeq, lostClean>>
  BY <1>0 DEF CleanInv, Waits, NoOlder, AllEmpty
<1>1. CASE Overwrite(TRUE)
  <2>1. queue' # NoWork /\ queue'.clean /\ queue'.seq = seq + 1 /\ cleanSeq' = seq + 1
    BY <1>1 DEF Overwrite, NoWork, TypeInv, TypeOK, FeedTypeOK
  <2>2. taken' < cleanSeq'
    BY <2>1 DEF TypeInv, TypeOK, FeedTypeOK, Ordered
  <2>. QED
    BY <2>1, <2>2 DEF CleanInv, Waits, AllEmpty
<1>2. CASE Overwrite(FALSE)
  <2>1. cleanSeq' = cleanSeq /\ (~lostClean' => ~lostClean /\ ~Unseen)
    BY <1>2, Zenon DEF Overwrite
  <2>2. ~Unseen => ~(taken < cleanSeq /\ Waits)
    BY DEF Unseen, Waits, TypeInv, TypeOK, FeedTypeOK
  <2>3. (AllEmpty => AllEmpty') /\ (NoOlder => NoOlder')
    BY <2>1 DEF AllEmpty, NoOlder
  <2>. QED
    BY <2>1, <2>2, <2>3 DEF CleanInv
<1>. QED
  BY <1>0, <1>1, <1>2 DEF Publish

\* The stratum task keeps the clean invariant.
LEMMA FeedClean ==
  ASSUME TypeInv, CleanInv, FeedNext, UNCHANGED asic
  PROVE  CleanInv'
<1>1. UNCHANGED <<board, taken, table>>
  BY DEF FeedNext, Notify, SetDifficulty, Roll, Open, Configured, Connected, Submit, Close,
         Clear, feed, miner, asic
<1>2. CASE Publish(TRUE) \/ Publish(FALSE)
  BY <1>1, <1>2, PublishClean
<1>3. CASE UNCHANGED <<queue, cleanSeq, lostClean>>
  BY <1>1, <1>3 DEF CleanInv, Waits, NoOlder, AllEmpty
<1>4. CASE Close
  <2>1. cleanSeq' = cleanSeq /\ (~lostClean' => ~lostClean /\ ~Unseen)
    BY <1>4, Zenon DEF Close
  <2>2. ~Unseen => ~(taken < cleanSeq /\ Waits)
    BY DEF Unseen, Waits, TypeInv, TypeOK, FeedTypeOK
  <2>3. (AllEmpty => AllEmpty') /\ (NoOlder => NoOlder')
    BY <1>1, <2>1 DEF AllEmpty, NoOlder
  <2>. QED
    BY <1>1, <2>1, <2>2, <2>3 DEF CleanInv
<1>5. Notify => Publish(TRUE) \/ Publish(FALSE)
  BY Zenon DEF Notify
<1>. QED
  BY <1>2, <1>3, <1>4, <1>5
     DEF FeedNext, SetDifficulty, Roll, Open, Configured, Connected, Submit, Clear, feed

\* Dispatching clean work empties the rest of the table.
LEMMA DispatchClean ==
  ASSUME TypeInv, CleanInv, board = "asic", queue # NoWork, Dispatch, UNCHANGED feed
  PROVE  CleanInv'
<1>1. UNCHANGED <<board, queue, cleanSeq, lostClean>>
  BY DEF feed
<1>2. taken' = seq /\ taken' >= cleanSeq
  BY DEF Dispatch, TypeInv, Ordered, TypeOK, FeedTypeOK
<1>3. chip'.work.seq >= cleanSeq
  BY <1>2 DEF Dispatch
<1>4. nextId' \in JobIds /\ Slot(nextId') \in Slots
  BY JobIdTyped DEF Dispatch, TypeInv, TypeOK, AsicTypeOK
<1>5. ASSUME ~lostClean', NEW s \in Slots, table'[s] # Empty
      PROVE  table'[s].work.seq >= cleanSeq
  <2>1. CASE s = Slot(nextId')
    BY <1>3, <1>4, <2>1 DEF Dispatch, Abandon, TypeInv, TypeOK, AsicTypeOK
  <2>2. CASE s # Slot(nextId')
    <3>1. table'[s] = Abandon(queue.clean)[s]
      BY <2>2 DEF Dispatch, Abandon, TypeInv, TypeOK, AsicTypeOK
    <3>2. ~queue.clean /\ table'[s] = table[s]
      BY <1>5, <3>1 DEF Abandon
    <3>3. ~AllEmpty /\ ~Waits /\ ~lostClean
      BY <1>1, <1>5, <3>2 DEF AllEmpty, Waits
    <3>4. NoOlder
      BY <3>3 DEF CleanInv
    <3>. QED
      BY <1>5, <3>2, <3>4 DEF NoOlder
  <2>. QED
    BY <2>1, <2>2
<1>6. ~lostClean' => NoOlder'
  BY <1>1, <1>5 DEF NoOlder
<1>. QED
  BY <1>1, <1>2, <1>6 DEF CleanInv

\* Every step keeps the clean invariant.
LEMMA NextClean == TypeInv /\ CleanInv /\ [Next]_vars => CleanInv'
<1>. SUFFICES ASSUME TypeInv, CleanInv, [Next]_vars PROVE CleanInv'
  OBVIOUS
<1>1. CASE FeedNext /\ UNCHANGED <<asic, sw>>
  BY <1>1, FeedClean
<1>2. CASE board = "asic" /\ (AsicStep \/ Recover \/ ChipFinds) /\ UNCHANGED sw
  <2>1. CASE AsicPeek /\ Dispatch
    BY <1>2, <2>1, DispatchClean DEF AsicPeek
  <2>2. CASE Recover
    BY <2>2 DEF Recover, CleanInv, AllEmpty, feed
  <2>3. CASE UNCHANGED <<board, queue, cleanSeq, lostClean, taken, table>>
    BY <2>3 DEF CleanInv, Waits, NoOlder, AllEmpty
  <2>4. AsicPeek => (AsicPeek /\ Dispatch) \/ UNCHANGED <<board, queue, cleanSeq, lostClean, taken, table>>
    BY DEF AsicPeek, feed
  <2>5. NoResponse \/ BadPreamble \/ ResponseDropped \/ NonceChecked
          => UNCHANGED <<board, queue, cleanSeq, lostClean, taken, table>>
    BY DEF NoResponse, BadPreamble, ResponseDropped, NonceChecked, feed, asic
  <2>6. ChipFinds => UNCHANGED <<board, queue, cleanSeq, lostClean, taken, table>>
    BY DEF ChipFinds, feed, miner
  <2>7. (CheckConnected("top") \/ PutShare("top")) /\ UNCHANGED asic
          => UNCHANGED <<board, queue, cleanSeq, lostClean, taken, table>>
    BY DEF CheckConnected, PutShare, feed, asic
  <2>. QED
    BY <1>2, <2>1, <2>2, <2>3, <2>4, <2>5, <2>6, <2>7 DEF AsicStep
<1>3. CASE board = "sw" /\ SwStep /\ UNCHANGED asic
  <2>1. UNCHANGED <<board, table>>
    BY <1>3 DEF SwStep, SwPeek, SwHit, SwSwap, SwExhaust, CheckConnected, PutShare, feed, asic
  <2>. QED
    BY <1>3, <2>1 DEF CleanInv, AllEmpty
<1>4. CASE UNCHANGED vars
  <2>1. UNCHANGED <<board, queue, cleanSeq, lostClean, taken, table>>
    BY <1>4 DEF vars, feed, miner, asic
  <2>. QED
    BY <2>1 DEF CleanInv, Waits, NoOlder, AllEmpty
<1>. QED
  BY <1>1, <1>2, <1>3, <1>4 DEF Next

\* Clean work that was not lost in the queue leaves nothing older in the job
\* table once it, or later work, is taken.
THEOREM CleanJobsAbandon == Spec => []CleanAbandons
<1>1. Init => CleanInv
  BY DEF Init, AsicInit, CleanInv, AllEmpty
<1>2. TypeInv /\ CleanInv => CleanAbandons
  BY DEF TypeInv, TypeOK, FeedTypeOK, CleanInv, CleanAbandons, NoOlder, AllEmpty
<1>3. ShareInv => TypeInv
  BY DEF ShareInv
<1>4. Spec => []CleanInv
  BY <1>1, <1>3, NextClean, ShareInvariant, PTL DEF Spec
<1>. QED
  BY <1>2, <1>3, <1>4, ShareInvariant, PTL
=============================================================================
