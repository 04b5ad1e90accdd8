------------------------------ MODULE WorkFlow ------------------------------
(***************************************************************************)
(* From a pool's job to the share in the result queue: the stratum task's  *)
(* work items (WorkFeed) and the miner the board has, the ASIC task        *)
(* (AsicJobs) or the hashing loop (SwMiner).                               *)
(***************************************************************************)
EXTENDS AsicJobs, SwMiner

vars == <<feed, results, miner, asic, sw>>

Init == FeedInit /\ AsicInit /\ SwInit

Next ==
  \/ FeedNext /\ UNCHANGED <<asic, sw>>
  \/ board = "asic" /\ (AsicStep \/ Recover \/ ChipFinds) /\ UNCHANGED sw
  \/ board = "sw" /\ SwStep /\ UNCHANGED asic

Spec == Init /\ [][Next]_vars

\* The miner task has the highest priority of the tasks on its core and
\* keeps looping; the hashing loop looks at the queue every 2^18 nonces,
\* whatever it finds in between.
FairSpec ==
  /\ Spec
  /\ WF_vars(board = "asic" /\ AsicStep /\ UNCHANGED sw)
  /\ WF_vars(board = "sw" /\ SwStep /\ UNCHANGED asic)
  /\ SF_vars(board = "sw" /\ SwSwap /\ UNCHANGED asic)

-----------------------------------------------------------------------------
Labels == IF board = "asic" THEN {"top", "read", "found", "put"}
                            ELSE {"top", "range", "found", "put"}

\* Every variable has its type.
TypeOK == FeedTypeOK /\ AsicTypeOK /\ SwTypeOK /\ pc \in Labels

\* What the pool recomputes from a submitted share is what was hashed: it
\* names the job, the extranonce and the version of the header the nonce was
\* found on, and claims no more difficulty than that hash reaches.  (A job id
\* the chip echoes may have been given to another work since; the loop may
\* have swapped jobs since the range began.)
Recomputes(s) ==
  /\ s.job = s.hash.job /\ s.en2 = s.hash.en2
  /\ board = "asic" => s.hash.roll = s.ver
  /\ board = "sw" => s.hash.roll = IF s.hash.mask THEN s.ver ELSE 0
  /\ s.diff <= s.hash.q

SharesRecompute == share # NoShare => Recomputes(share)

\* Every work marked clean that reached the ASIC task emptied the job table:
\* while the latest one was not lost in the queue, no job of before it can
\* still yield a share once that work, or a later one, was taken.
CleanAbandons ==
  (~lostClean /\ taken >= cleanSeq) =>
     \A s \in Slots : table[s] # Empty => table[s].work.seq >= cleanSeq

\* "mark clean to invalidate stale job table entries that carry the old
\* (easier) target" (stratum_io.c:464): once work published clean, or work
\* after it, was taken, the job table holds nothing older.
CleanAlwaysAbandons ==
  taken >= cleanSeq => \A s \in Slots : table[s] # Empty => table[s].work.seq >= cleanSeq

\* "HW hash passed target but the SW recompute disagrees" means the read was
\* corrupt (mining.c:737): share_reverify() rebuilds the header the loop is
\* hashing.
ReverifyAgrees == (board = "sw" /\ pc = "range") => Reverified

\* The miner does not stay behind the queue for ever: it gets to work on what
\* is in it, or the queue is emptied.
Held == IF board = "asic" THEN chip.work ELSE cur
MinerCatchesUp == []<>(queue = NoWork \/ Held = queue)
=============================================================================
