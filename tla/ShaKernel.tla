----------------------------- MODULE ShaKernel -----------------------------
(***************************************************************************)
(* The double SHA-256 of a block header, as the drivers of the two SHA     *)
(* peripherals compute it: the AHB driver (components/mining: ahb files)   *)
(* of the S2, S3 and C3, and the DPORT driver of the classic ESP32.        *)
(*                                                                         *)
(* A driver does not write all sixteen message words for every nonce.  It  *)
(* leaves words where the previous computation put them, and writes words  *)
(* of the next computation while one is running.  So what a nonce hashes   *)
(* to depends on what the registers held before, and on whether the        *)
(* peripheral takes the message when it is triggered.                      *)
(*                                                                         *)
(* Message words are grouped by who writes them: words 0-3, 4-7, 8, 9,     *)
(* 10-14 and 15.  A word's content is a token; the compression function is *)
(* a parameter.                                                            *)
(***************************************************************************)
EXTENDS Naturals

CONSTANT Sha(_, _)   \* the compression function: chaining value, message

Image(a, b, c, d, e, f) ==
  [w0 |-> a, w4 |-> b, w8 |-> c, w9 |-> d, w10 |-> e, w15 |-> f]

H0     == <<"H0">>       \* the initial chaining value
Zero   == <<"zero">>
Pad4   == <<"pad4">>     \* words 4-7 after the header: the end bit, zeros
Pad8   == <<"pad8">>     \* word 8 after a digest: the end bit
Len640 == <<"len640">>   \* word 15: length of a header
Len256 == <<"len256">>   \* word 15: length of a digest
Junk   == <<"junk">>     \* words of somebody else's message
HeadOf(j) == <<"head", j>>            \* words of the first block of job j
TailOf(j, n) == <<"tail", j, n>>      \* words 0-3 of its second block
Lo(d) == <<"lo", d>>                  \* words 0-3 and 4-7 of a digest
Hi(d) == <<"hi", d>>

\* The three messages of a header: its first block, build_block2(), and the
\* padded digest of both.
Block1(j) == Image(HeadOf(j), HeadOf(j), HeadOf(j), HeadOf(j), HeadOf(j), HeadOf(j))
Block2(j, n) == Image(TailOf(j, n), Pad4, Zero, Zero, Zero, Len640)
Block3(d) == Image(Lo(d), Hi(d), Pad8, Zero, Zero, Len256)

Garbage == Image(Junk, Junk, Junk, Junk, Junk, Junk)

-----------------------------------------------------------------------------
(* The software backend, the reference *)

SwPrepareJob(j) == Sha(H0, Block1(j))

SwHashNonce(j, n) == Sha(H0, Block3(Sha(SwPrepareJob(j), Block2(j, n))))

-----------------------------------------------------------------------------
(* What the peripheral computes on: the message registers as they were at   *)
(* the trigger, or as they are by its end.                                  *)
Message(snapshots, atTrigger, atEnd) == IF snapshots THEN atTrigger ELSE atEnd

(* The AHB driver *)

\* sha256_hw_pipeline_prep()
AhbPipelinePrep(t) == Image(t.w0, Pad4, Zero, Zero, Zero, Len640)

\* sha256_hw_mine_nonce().  Pass 2's padding is written while pass 1 runs,
\* the next pass 1's while pass 2 runs; words 9-14 are never written.
AhbMineNonce(snapshots, t, mid, j, n) ==
  LET start1 == Image(TailOf(j, n), t.w4, t.w8, t.w9, t.w10, t.w15)
      end1   == Image(TailOf(j, n), t.w4, Pad8, t.w9, t.w10, Len256)
      first  == Sha(mid, Message(snapshots, start1, end1))
      start2 == Image(Lo(first), Hi(first), Pad8, t.w9, t.w10, Len256)
      end2   == Image(Lo(first), Pad4, Zero, t.w9, t.w10, Len640)
  IN [digest |-> Sha(H0, Message(snapshots, start2, end2)), text |-> end2]

(* The DPORT driver *)

\* sha256_hw_dport_kernel_init()
DportKernelInit(t, j) == Image(t.w0, t.w4, t.w8, t.w9, HeadOf(j), HeadOf(j))

\* sha256_hw_dport_kernel().  Words 10-15 of the first block are there
\* already; the second block is written while the first is computed, and
\* words 10-15 of the next nonce's first block while the third is.  A digest
\* is loaded into words 0-7; the third block keeps the second's zeros.
DportKernel(snapshots, t, j, n) ==
  LET h      == HeadOf(j)
      mid    == Sha(H0, Message(snapshots, Image(h, h, h, h, t.w10, t.w15), Block2(j, n)))
      first  == Sha(mid, Block2(j, n))
      end3   == Image(Lo(first), Hi(first), Pad8, Zero, h, h)
      second == Sha(H0, Message(snapshots, Block3(first), end3))
  IN [digest |-> second,
      text   |-> Image(Lo(second), Hi(second), Pad8, Zero, h, h)]

\* sha256_hw_dport_per_nonce(): every word of every block, nothing overlaps.
DportPerNonce(j, n) == Sha(H0, Block3(Sha(Sha(H0, Block1(j)), Block2(j, n))))

-----------------------------------------------------------------------------
(* Boot probes *)

\* sha256_hw_overlap_canary(), the same on both buses: words 0-3 are
\* overwritten while a message is computed, and the digest compared.
Canary(snapshots, m) ==
  LET end == Image(Junk, m.w4, m.w8, m.w9, m.w10, m.w15)
  IN Sha(H0, Message(snapshots, m, end)) = Sha(H0, m)

\* sha256_hw_ahb_self_test_lockstep(): the hot loop against software, from
\* one pipeline_prep.
AhbLockstep(snapshots, t, j) ==
  LET one == AhbMineNonce(snapshots, AhbPipelinePrep(t), SwPrepareJob(j), j, 0)
      two == AhbMineNonce(snapshots, one.text, SwPrepareJob(j), j, 1)
  IN one.digest = SwHashNonce(j, 0) /\ two.digest = SwHashNonce(j, 1)

\* sha256_hw_dport_self_test_lockstep(): not the hot loop, the plain path.
DportLockstep(j) == \A n \in {0, 1} : DportPerNonce(j, n) = SwHashNonce(j, n)
=============================================================================
