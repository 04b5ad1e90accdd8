------------------------------ MODULE AsicJobs ------------------------------
(***************************************************************************)
(* Jobs and nonces of asic_mining_task() in components/asic/src/           *)
(* asic_task.c: dispatching the queued work to the chip under a cycling    *)
(* job id, the job table that remembers what each id was, and the nonce    *)
(* path from the UART to the result queue.  Pausing, the chip's power and  *)
(* the periodic steps of the same loop are AsicLoop's.                     *)
(*                                                                         *)
(* A hash of anything but the header it was found on meets no target.      *)
(* The boards' mask is fixed: the chip rolls versions whatever the pool    *)
(* granted, and the task falls back to the same mask.  The dedup ring      *)
(* (asic_nonce_dedup.c) is abstracted: any nonce may be one it knows.      *)
(***************************************************************************)
EXTENDS WorkFeed, Sequences

CONSTANTS
  JobIdStep,  \* ASIC_JOB_ID_STEP
  JobIdMod,   \* ASIC_JOB_ID_MOD
  TableSize,  \* ASIC_JOB_TABLE_SIZE
  WireCap     \* bound on the responses waiting in the UART

ASSUME JobAssumption == /\ JobIdStep \in Nat \ {0}
                        /\ JobIdMod \in Nat \ {0}
                        /\ TableSize \in Nat \ {0}
                        /\ WireCap \in Nat

VARIABLES
  chip,    \* the job the chip hashes: [id, work]
  nextId,  \* s_next_job_id
  table,   \* s_job_table with s_job_id_seen: slot -> [id, work]
  wire     \* nonce responses in the UART

asic == <<chip, nextId, table, wire>>

JobIds == 0..(JobIdMod - 1)
Slots == 0..(TableSize - 1)
Slot(id) == id % TableSize

Empty == [id |-> 0, work |-> NoWork]
Entries == [id : JobIds, work : Works] \cup {Empty}
Responses == [id : JobIds, hash : Hashes]

AsicTypeOK ==
  /\ chip \in Entries
  /\ nextId \in JobIds
  /\ table \in [Slots -> Entries]
  /\ wire \in Seq(Responses) /\ Len(wire) <= WireCap

AsicInit ==
  /\ chip = Empty
  /\ nextId = 0
  /\ table = [s \in Slots |-> Empty]
  /\ wire = <<>>

\* Mutant of Abandon: a clean job only clears the dedup ring.
AbandonNothing(clean) == table

\* asic_invalidate_jobs() on a clean job.
Abandon(clean) == IF clean THEN [s \in Slots |-> Empty] ELSE table

Dispatch ==
  /\ nextId' = (nextId + JobIdStep) % JobIdMod
  /\ chip' = [id |-> nextId', work |-> queue]
  /\ table' = [Abandon(queue.clean) EXCEPT ![Slot(nextId')] = chip']
  /\ taken' = queue.seq

\* xQueuePeek() and the dispatch of work not seen before.
AsicPeek ==
  /\ pc = "top" /\ queue # NoWork /\ pc' = "read"
  /\ \/ queue.seq # taken /\ Dispatch
     \/ queue.seq = taken /\ UNCHANGED <<chip, nextId, table, taken>>
  /\ UNCHANGED <<feed, results, share, wire>>

\* asic_uart_read() times out.
NoResponse ==
  /\ pc = "read" /\ wire = <<>> /\ pc' = "top"
  /\ UNCHANGED <<feed, results, taken, share, asic>>

\* A bad preamble flushes the UART.
BadPreamble ==
  /\ pc = "read" /\ wire # <<>> /\ pc' = "top"
  /\ wire' = <<>>
  /\ UNCHANGED <<feed, results, taken, share, chip, nextId, table>>

\* One response is passed over: a bad checksum, a job no longer in the table,
\* or a nonce the dedup ring knows.
ResponseDropped ==
  /\ pc = "read" /\ wire # <<>> /\ pc' = "top"
  /\ wire' = Tail(wire)
  /\ UNCHANGED <<feed, results, taken, share, chip, nextId, table>>

\* asic_job_slot_stale()
Stale(entry, id) == entry.id # id \/ entry.work.job = 0

\* Mutant of MeetsTarget: the chip's nonce is trusted for the job its id names.
TrustsChip(w, h) == h.q >= w.diff

\* The header rebuilt from the job table, hashed again and compared with the
\* target of the work: share_validate().
MeetsTarget(w, h) == HashOf(w, h.roll, h.q) = h /\ h.q >= w.diff

\* A nonce of a job in the table, checked against that job.
NonceChecked ==
  /\ pc = "read" /\ wire # <<>>
  /\ LET r == Head(wire)
         entry == table[Slot(r.id)]
     IN /\ ~Stale(entry, r.id)
        /\ \/ ~MeetsTarget(entry.work, r.hash) /\ pc' = "top" /\ UNCHANGED share
           \/ /\ MeetsTarget(entry.work, r.hash) /\ pc' = "found"
              /\ share' = Package(entry.work, r.hash.roll, r.hash)
  /\ wire' = Tail(wire)
  /\ UNCHANGED <<feed, results, taken, chip, nextId, table>>

\* asic_reset_work_state() by the core-voltage watchdog; the UART keeps what
\* it has, the restarted chip has no job.
Recover ==
  /\ pc = "top"
  /\ chip' = Empty /\ nextId' = 0 /\ taken' = 0
  /\ table' = [s \in Slots |-> Empty]
  /\ UNCHANGED <<feed, results, pc, share, wire>>

\* The chip: finds a nonce for its job, perhaps one it already reported.
ChipFinds ==
  /\ chip # Empty /\ Len(wire) < WireCap
  /\ \E q \in Diffs, r \in 0..Rolls :
       wire' = Append(wire, [id |-> chip.id, hash |-> HashOf(chip.work, r, q)])
  /\ UNCHANGED <<feed, results, miner, chip, nextId, table>>

AsicStep ==
  \/ AsicPeek \/ NoResponse \/ BadPreamble \/ ResponseDropped \/ NonceChecked
  \/ (CheckConnected("top") /\ UNCHANGED asic)
  \/ (PutShare("top") /\ UNCHANGED asic)
=============================================================================
