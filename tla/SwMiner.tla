------------------------------- MODULE SwMiner -------------------------------
(***************************************************************************)
(* mining_task() and mine_nonce_range() of components/mining/src/mining.c, *)
(* the miner of boards without an ASIC: version rolling around one nonce   *)
(* range, and the range loop that swaps jobs on the fly.                   *)
(*                                                                         *)
(* A hash that was read corrupt is dropped without trace and not modelled; *)
(* nor is a pause, after which the range starts over (MiningPause).        *)
(***************************************************************************)
EXTENDS WorkFeed

VARIABLES
  cur,      \* work in mining_task()
  roll,     \* the version roll in work.header
  verBits   \* ver_bits of the outer loop, and of the range's params

sw == <<cur, roll, verBits>>

SwTypeOK ==
  /\ cur \in Works \cup {NoWork}
  /\ roll \in 0..Rolls
  /\ verBits \in 0..Rolls

SwInit == cur = NoWork /\ roll = 0 /\ verBits = 0

\* next_version_roll(): 0 starts over, and means exhausted when returned.
NextRoll(v) == IF v = Rolls THEN 0 ELSE v + 1

\* A job from the queue, at its own version.
SwPeek ==
  /\ pc = "top" /\ queue # NoWork /\ pc' = "range"
  /\ cur' = queue /\ taken' = queue.seq
  /\ roll' = 0 /\ verBits' = 0
  /\ UNCHANGED <<feed, results, share>>

\* share_reverify(): the header is rebuilt with the range's version bits.
Reverified == cur.mask => roll = verBits

\* A hash of the range reaches q: a share if that meets the target and the
\* software recomputes it.
SwHit ==
  /\ pc = "range"
  /\ \E q \in Diffs :
       /\ q >= cur.diff /\ Reverified
       /\ share' = Package(cur, verBits, HashOf(cur, roll, q))
  /\ pc' = "found"
  /\ UNCHANGED <<feed, results, taken, sw>>

\* Mutant of SwSwap: only another job interrupts the range.
SwSwapJobOnly ==
  /\ pc = "range" /\ queue # NoWork /\ queue.job # cur.job
  /\ cur' = queue /\ taken' = queue.seq
  /\ roll' = 0
  /\ UNCHANGED <<feed, results, pc, share, verBits>>

\* Every 2^18 nonces: work of another sequence number restarts the range.
SwSwap ==
  /\ pc = "range" /\ queue # NoWork /\ queue.seq # cur.seq
  /\ cur' = queue /\ taken' = queue.seq
  /\ roll' = 0
  /\ UNCHANGED <<feed, results, pc, share, verBits>>

\* The range is exhausted: the next version, or back to the queue.  2^32
\* hashes take hours and a session without a job for five minutes is closed
\* (stratum_io.c:855): it happens only while the queue is empty.
SwExhaust ==
  /\ pc = "range" /\ queue = NoWork
  /\ LET next == NextRoll(verBits)
     IN \/ /\ cur.mask /\ next # 0
           /\ verBits' = next /\ roll' = next
           /\ UNCHANGED pc
        \/ /\ ~cur.mask \/ next = 0
           /\ pc' = "top"
           /\ UNCHANGED <<roll, verBits>>
  /\ UNCHANGED <<feed, results, taken, share, cur>>

SwStep ==
  \/ SwPeek \/ SwHit \/ SwSwap \/ SwExhaust
  \/ (CheckConnected("range") /\ UNCHANGED sw)
  \/ (PutShare("range") /\ UNCHANGED sw)
=============================================================================
