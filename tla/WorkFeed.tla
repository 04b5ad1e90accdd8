------------------------------ MODULE WorkFeed ------------------------------
(***************************************************************************)
(* The work queue and the result queue between the stratum task and the    *)
(* miner task, seen from the stratum task: jobs, retargets and extranonce  *)
(* rolls of components/stratum become work items, shares come back.        *)
(*                                                                         *)
(* work_queue holds one item and is overwritten (main.c:660); the miner    *)
(* peeks at it and never removes it.  A job id is the work_seq of the      *)
(* first work built for the job: distinct jobs have distinct ids.  Every   *)
(* job carries the same base version, with no bit under the version mask.  *)
(* A result in the queue is a share no one changes: only their number is   *)
(* kept.                                                                   *)
(* work_seq is 32 bits wide; MaxSeq keeps it far from its wrap.            *)
(***************************************************************************)
EXTENDS Integers

CONSTANTS
  Diffs,       \* share difficulties the pool may set
  DefaultDiff, \* s_state.difficulty before any mining.set_difficulty
  Rolls,       \* number of non-zero values the version mask admits
  ResultCap,   \* capacity of result_queue
  MaxSeq       \* bound on work_seq

ASSUME FeedAssumption == /\ Diffs \subseteq Nat \ {0}
                         /\ DefaultDiff \in Diffs
                         /\ Rolls \in Nat \ {0}
                         /\ ResultCap \in Nat \ {0}
                         /\ MaxSeq \in Nat

VARIABLES
  board,      \* which miner the firmware is built for: "asic" or "sw"
  link,       \* the session: "down", "handshake", "up" (s_stratum_connected), "closing"
  job,        \* s_state.job.job_id, 0 when empty
  en2,        \* s_state.extranonce2
  diff,       \* s_state.difficulty, NoTarget if its target is not valid
  mask,       \* s_state.version_mask # 0
  seq,        \* s_state.work_seq
  queue,      \* work_queue
  results,    \* how many wait in result_queue
  pc,         \* where the miner task is
  taken,      \* work_seq of the work the miner took last, 0 for none
  share,      \* the share the miner is about to queue
  cleanSeq,   \* history: the latest work published clean
  lostClean   \* history: no miner ever saw that work in the queue

feed == <<board, link, job, en2, diff, mask, seq, queue, cleanSeq, lostClean>>
miner == <<pc, taken, share>>

NoTarget == 0
NoWork == [seq |-> 0, job |-> 0, en2 |-> 0, diff |-> 0, mask |-> FALSE, clean |-> FALSE]
Works == [seq : 1..MaxSeq, job : 1..MaxSeq, en2 : 0..MaxSeq, diff : Diffs,
          mask : BOOLEAN, clean : BOOLEAN]

\* What was hashed: the header of a work at one version roll, and the
\* difficulty q its hash reaches, which also names the nonce.
Hashes == [job : 1..MaxSeq, en2 : 0..MaxSeq, mask : BOOLEAN, roll : 0..Rolls, q : Diffs]
HashOf(w, r, q) == [job |-> w.job, en2 |-> w.en2, mask |-> w.mask, roll |-> r, q |-> q]

\* What is submitted, and (hash) what it was found on.
Shares == [job : 1..MaxSeq, en2 : 0..MaxSeq, ver : 0..Rolls, diff : Diffs, hash : Hashes]
NoShare == [job |-> 0]

\* package_result(), with the difficulty stamped on the result next to it.
Package(w, v, h) == [job |-> w.job, en2 |-> w.en2, ver |-> v, diff |-> w.diff, hash |-> h]

FeedTypeOK ==
  /\ board \in {"asic", "sw"}
  /\ link \in {"down", "handshake", "up", "closing"}
  /\ job \in 0..MaxSeq
  /\ en2 \in 0..MaxSeq
  /\ diff \in Diffs \cup {NoTarget}
  /\ mask \in BOOLEAN
  /\ seq \in 0..MaxSeq
  /\ queue \in Works \cup {NoWork}
  /\ results \in 0..ResultCap
  /\ taken \in 0..MaxSeq
  /\ share \in Shares \cup {NoShare}
  /\ cleanSeq \in 0..MaxSeq
  /\ lostClean \in BOOLEAN

FeedInit ==
  /\ board \in {"asic", "sw"}
  /\ link = "down"
  /\ job = 0 /\ en2 = 0 /\ diff = DefaultDiff /\ mask = FALSE /\ seq = 0
  /\ queue = NoWork
  /\ results = 0
  /\ pc = "top" /\ taken = 0 /\ share = NoShare
  /\ cleanSeq = 0 /\ lostClean = FALSE

-----------------------------------------------------------------------------
(* Publishing work *)

Unseen == queue.clean /\ queue.seq # taken

\* build_work() and xQueueOverwrite(), on the state the message left.
Overwrite(clean) ==
  /\ seq < MaxSeq
  /\ seq' = seq + 1
  /\ queue' = [seq |-> seq + 1, job |-> job', en2 |-> en2', diff |-> diff',
               mask |-> mask, clean |-> clean]
  /\ cleanSeq' = IF clean THEN seq + 1 ELSE cleanSeq
  /\ lostClean' = (~clean /\ (lostClean \/ Unseen))

\* build_work() refuses a difficulty without a valid target: what the miner
\* has, and what waits in the queue, stays.
Publish(clean) ==
  \/ diff' # NoTarget /\ Overwrite(clean)
  \/ diff' = NoTarget /\ UNCHANGED <<seq, queue, cleanSeq, lostClean>>

InSession == link \in {"handshake", "up"}

\* mining.notify: a new job, from the first extranonce2 on.
Notify ==
  /\ InSession /\ seq < MaxSeq
  /\ job' = seq + 1
  /\ en2' = 0
  /\ \E clean \in BOOLEAN : diff' = diff /\ Publish(clean)
  /\ UNCHANGED <<board, link, mask, results, miner>>

\* mining.set_difficulty: the current job again, at the new target, marked
\* clean; nothing is published before the first job of a session.
SetDifficulty ==
  /\ InSession
  /\ diff' \in Diffs \cup {NoTarget}
  /\ UNCHANGED <<job, en2>>
  /\ \/ job = 0 /\ UNCHANGED <<seq, queue, cleanSeq, lostClean>>
     \/ job # 0 /\ Publish(TRUE)
  /\ UNCHANGED <<board, link, mask, results, miner>>

\* The periodic extranonce2 roll, on boards that need it.  One that build_work()
\* refuses only skips a value of extranonce2, which is left out.
Roll ==
  /\ link = "up" /\ board = "asic" /\ job # 0 /\ diff # NoTarget
  /\ en2' = en2 + 1
  /\ UNCHANGED <<job, diff>>
  /\ Publish(FALSE)
  /\ UNCHANGED <<board, link, mask, results, miner>>

-----------------------------------------------------------------------------
(* The session *)

Open ==
  /\ link = "down" /\ link' = "handshake"
  /\ UNCHANGED <<board, job, en2, diff, mask, seq, queue, results, miner, cleanSeq, lostClean>>

\* The answer to mining.configure grants version rolling.  The ASIC task
\* rolls under its own fixed mask, granted or not: the grant is left out there.
Configured ==
  /\ InSession /\ board = "sw" /\ ~mask /\ mask' = TRUE
  /\ UNCHANGED <<board, link, job, en2, diff, seq, queue, results, miner, cleanSeq, lostClean>>

Connected ==
  /\ link = "handshake" /\ link' = "up"
  /\ UNCHANGED <<board, job, en2, diff, mask, seq, queue, results, miner, cleanSeq, lostClean>>

Submit ==
  /\ link = "up" /\ results > 0
  /\ results' = results - 1
  /\ UNCHANGED <<feed, miner>>

\* Label reconnect: the flag falls and the queue is reset...
Close ==
  /\ InSession /\ link' = "closing"
  /\ queue' = NoWork
  /\ lostClean' = (lostClean \/ Unseen)
  /\ UNCHANGED <<board, job, en2, diff, mask, seq, results, miner, cleanSeq>>

\* ...then the job and the mask are cleared and the results drained.
Clear ==
  /\ link = "closing" /\ link' = "down"
  /\ job' = 0 /\ mask' = FALSE /\ results' = 0
  /\ UNCHANGED <<board, en2, diff, seq, queue, miner, cleanSeq, lostClean>>

FeedNext == \/ Notify \/ SetDifficulty \/ Roll
            \/ Open \/ Configured \/ Connected \/ Submit \/ Close \/ Clear

-----------------------------------------------------------------------------
(* The miner's end of the result queue, the same code in both miners *)

\* stratum_is_connected(): a share found outside a session is discarded.
CheckConnected(next) ==
  /\ pc = "found"
  /\ \/ link = "up" /\ pc' = "put" /\ UNCHANGED share
     \/ link # "up" /\ pc' = next /\ share' = NoShare
  /\ UNCHANGED <<feed, results, taken>>

\* xQueueSend() without waiting: a full queue drops the share.
PutShare(next) ==
  /\ pc = "put" /\ pc' = next
  /\ share' = NoShare
  /\ results' = IF results < ResultCap THEN results + 1 ELSE results
  /\ UNCHANGED <<feed, taken>>
=============================================================================
