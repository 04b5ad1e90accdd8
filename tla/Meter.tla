------------------------------- MODULE Meter -------------------------------
(***************************************************************************)
(* What the miner says of its speed: the counters of the ASICs as          *)
(* asic_mining_task() reads them (components/asic/src/asic_task.c,         *)
(* asic_drop_detect.c), the difficulty credited by the pool, and the       *)
(* rolling averages of both (components/mining/src/mining_avg.c), which    *)
(* boards with an ASIC feed from its task and the others from a timer      *)
(* (components/mining/src/mining.c).                                       *)
(*                                                                         *)
(* Time is counted in poll periods of 5 s.  An average is modelled by the  *)
(* age of the oldest sample that still has a weight in it, and every set   *)
(* of three buffers alike by `avg'.  The published copies are left out.    *)
(***************************************************************************)
EXTENDS Integers, FiniteSetsExt

CONSTANTS
  Chips,      \* the ASICs
  W,          \* modulus of a counter register, 2^32
  Rate,       \* hashes a chip can do in a period, in units of its counter
  Limit,      \* ASIC_CHIP_GHS_SANITY_MAX in the same unit
  Size1m, Size10m, Size1h,   \* lengths of the three buffers
  NaN,        \* an entry without a value
  MaxGap,     \* bound: periods between two readings of a chip
  MaxEarned,  \* bound: difficulty accepted in a behaviour
  MaxBlind    \* bound: polls that do not get the mutex

Readings == [count : 0..(W - 1), did : 0..(Rate * MaxGap), restarted : BOOLEAN]

ASSUME MeterAssumption ==
  /\ {W, Limit, Rate} \subseteq Nat \ {0} /\ Limit > Rate /\ W > Limit * MaxGap
  /\ {Size1m, Size10m, Size1h, MaxGap} \subseteq Nat \ {0}
  /\ NaN \notin Nat \cup Readings /\ MaxEarned \in Nat /\ MaxBlind \in Nat

VARIABLES
  asic,      \* whether this is a board with an ASIC
  chip,      \* by chip: its counter, what it did and whether it was restarted
             \* since its last answer
  answer,    \* by chip: its answer in the UART, or NaN
  meas,      \* s_chip_meas
  sum,       \* mining_stats.session.accepted_diff_sum
  earned,    \* the difficulty ever added to it
  wasReset,  \* whether it has been reset
  prev,      \* s_pool_eff_prev_sum
  credited,  \* the sum of the samples of the pool-effective rate
  blind,     \* how many samples were taken without reading the sum
  avg        \* the buffers, with the poll counter

chipVars == <<chip, answer, meas>>
poolVars == <<sum, earned, wasReset>>
effVars == <<prev, credited, blind>>
vars == <<asic, chip, answer, meas, sum, earned, wasReset, prev, credited, blind, avg>>

Fresh(n) == [count |-> n, did |-> 0, restarted |-> FALSE]
NoRate == [delta |-> 0, gap |-> 0, did |-> 0, restarted |-> FALSE]

\* "val", "samples", "gap" the last reading, how many there were (up to 3) and
\* the periods since; "rate" the hash rate, with what the chip had really done.
Unread == [val |-> 0, samples |-> 0, gap |-> 0, rate |-> NoRate]

Div10m == Size1m
Div1h == Size10m * Div10m
Slots(size) == 0..(size - 1)
Empty(size) == [i \in Slots(size) |-> NaN]

\* init_avg_buffers(), mining_stats_init()
NoAverages == [n |-> 0, b1m |-> Empty(Size1m), b10m |-> Empty(Size10m), b1h |-> Empty(Size1h),
               prev10m |-> NaN, prev1h |-> NaN]

Rates == [delta : Nat, gap : 0..MaxGap, did : Nat, restarted : BOOLEAN]
Ages == Nat \cup {NaN}

ChipTypes ==
  /\ chip \in [Chips -> Readings]
  /\ answer \in [Chips -> Readings \cup {NaN}]
  /\ meas \in [Chips -> [val : 0..(W - 1), samples : 0..3, gap : 0..MaxGap, rate : Rates]]

PoolTypes ==
  /\ earned \in 0..MaxEarned /\ sum \in 0..earned /\ prev \in 0..earned
  /\ credited \in Nat /\ wasReset \in BOOLEAN /\ blind \in 0..MaxBlind

AvgTypes ==
  /\ avg.n \in Slots(Size1h * Div1h)
  /\ avg.b1m \in [Slots(Size1m) -> Ages]
  /\ avg.b10m \in [Slots(Size10m) -> Ages]
  /\ avg.b1h \in [Slots(Size1h) -> Ages]
  /\ avg.prev10m \in Ages /\ avg.prev1h \in Ages

TypeOK == asic \in BOOLEAN /\ ChipTypes /\ PoolTypes /\ AvgTypes

\* The chips have counted while their clock was ramped up.
Init ==
  /\ asic \in BOOLEAN
  /\ chip \in [Chips -> {Fresh(n) : n \in 0..(W - 1)}]
  /\ answer = [c \in Chips |-> NaN]
  /\ meas = [c \in Chips |-> Unread]
  /\ sum = 0 /\ earned = 0 /\ wasReset = FALSE
  /\ prev = 0 /\ credited = 0 /\ blind = 0
  /\ avg = NoAverages

-----------------------------------------------------------------------------
(* The averages *)

\* The age of the oldest of some samples.
Oldest(ages) == IF ages \subseteq {NaN} THEN NaN ELSE Max(ages \ {NaN})
Mean(buf) == Oldest({buf[i] : i \in DOMAIN buf})

Older(a) == IF a = NaN THEN NaN ELSE a + 1
AllOlder(buf) == [i \in DOMAIN buf |-> Older(buf[i])]

\* Mutant of Blend: the share of the old value never reaches zero.
BlendOffByOne(new, old, step, div) == Oldest({new} \cup (IF step < div THEN {old} ELSE {}))

\* The new value has the weight (step + 1) / div, the old one the rest.
Blend(new, old, step, div) == Oldest({new} \cup (IF step + 1 < div THEN {old} ELSE {}))

\* mining_avg_update() with a sample of age 0.
Averaged(a) ==
  LET b1m  == [AllOlder(a.b1m) EXCEPT ![a.n % Size1m] = 0]
      s10m == (a.n \div Div10m) % Size10m
      p10m == Older(IF a.n % Size1m = 0 THEN a.b10m[s10m] ELSE a.prev10m)
      b10m == [AllOlder(a.b10m) EXCEPT ![s10m] = Blend(Mean(b1m), p10m, a.n % Size1m, Size1m)]
      s1h  == (a.n \div Div1h) % Size1h
      p1h  == Older(IF a.n % Div1h = 0 THEN a.b1h[s1h] ELSE a.prev1h)
      b1h  == [AllOlder(a.b1h) EXCEPT ![s1h] = Blend(Mean(b10m), p1h, a.n % Div1h, Div1h)]
  IN [n |-> (a.n + 1) % (Size1h * Div1h), b1m |-> b1m, b10m |-> b10m, b1h |-> b1h,
      prev10m |-> p10m, prev1h |-> p1h]

\* mining_pool_eff_tick() with the sum that was read.
PoolEff(read) ==
  /\ credited' = credited + Max({read - prev, 0})
  /\ prev' = read

-----------------------------------------------------------------------------
(* The pool and the user *)

\* A share is accepted and added under the mutex.
Accept ==
  /\ earned < MaxEarned
  /\ sum' = sum + 1 /\ earned' = earned + 1
  /\ UNCHANGED <<asic, chipVars, wasReset, effVars, avg>>

\* mining_stats_session_reset()
Reset ==
  /\ sum' = 0 /\ wasReset' = TRUE
  /\ UNCHANGED <<asic, chipVars, earned, effVars, avg>>

-----------------------------------------------------------------------------
(* Boards without an ASIC *)

\* Mutant of HashTick: a timer tick that missed the mutex goes on without the sum.
HashTickBlind ==
  /\ ~asic
  /\ \E read \in {sum, 0} : PoolEff(read)
  /\ avg' = Averaged(avg)
  /\ UNCHANGED <<asic, chipVars, poolVars, blind>>

\* hw_avg_timer_cb(): without the mutex there is no sample.
HashTick ==
  /\ ~asic
  /\ PoolEff(sum)
  /\ avg' = Averaged(avg)
  /\ UNCHANGED <<asic, chipVars, poolVars, blind>>

-----------------------------------------------------------------------------
(* Boards with an ASIC *)

\* The register poll: the chips are asked and some answer; their answers are
\* read later, by this same task, all before the next poll.  Then the averages
\* take what is known so far, and zero for the sum if the mutex was not to be
\* had in 2 ms.
Poll ==
  /\ asic
  /\ \A c \in Chips : answer[c] = NaN /\ meas[c].gap < MaxGap
  /\ \E work \in [Chips -> 0..Rate], heard \in SUBSET Chips :
       LET now == [c \in Chips |-> [chip[c] EXCEPT !.count = (@ + work[c]) % W, !.did = @ + work[c]]] IN
       /\ chip' = [c \in Chips |-> IF c \in heard THEN Fresh(now[c].count) ELSE now[c]]
       /\ answer' = [c \in Chips |-> IF c \in heard THEN now[c] ELSE NaN]
  /\ meas' = [c \in Chips |-> [meas[c] EXCEPT !.gap = @ + 1]]
  /\ \/ PoolEff(sum) /\ UNCHANGED blind
     \/ blind < MaxBlind /\ PoolEff(0) /\ blind' = blind + 1
  /\ avg' = Averaged(avg)
  /\ UNCHANGED <<asic, poolVars>>

\* Mutant of Sane: no sanity check.
SaneAlways(delta, gap) == delta < W

\* asic_drop_detect_evaluate()
Sane(delta, gap) == delta < Limit * gap

\* An answer of chip c for REG_TOTAL_COUNT; REG_ERROR_COUNT and the counters of the
\* domains go the same way.  The first two readings only set a baseline.
Read(c) ==
  /\ answer[c] # NaN
  /\ LET m == meas[c]
         delta == (answer[c].count - m.val) % W IN
       meas' = [meas EXCEPT ![c] =
         [val |-> answer[c].count, samples |-> Min({m.samples + 1, 3}), gap |-> 0,
          rate |-> IF m.samples >= 2 /\ Sane(delta, m.gap)
                   THEN [delta |-> delta, gap |-> m.gap, did |-> answer[c].did,
                         restarted |-> answer[c].restarted]
                   ELSE m.rate]]
  /\ answer' = [answer EXCEPT ![c] = NaN]
  /\ UNCHANGED <<asic, chip, poolVars, effVars, avg>>

\* A resume or an in-place recovery resets the chip and its counter.
Restart(c) ==
  /\ asic
  /\ chip' = [chip EXCEPT ![c].count = 0, ![c].restarted = TRUE]
  /\ UNCHANGED <<asic, answer, meas, poolVars, effVars, avg>>

Next == \/ Accept \/ Reset \/ HashTick \/ Poll
        \/ \E c \in Chips : Read(c) \/ Restart(c)

Spec == Init /\ [][Next]_vars

-----------------------------------------------------------------------------
\* A published hash rate is the work the chip really did between two of its
\* answers, also over lost answers and a counter that wraps; after a restart of
\* the chip it may be wrong once, by less than the sanity limit (TA-221).
RateIsTrue ==
  \A c \in Chips :
    LET r == meas[c].rate IN
    r.delta = r.did \/ (r.restarted /\ r.delta < Limit * r.gap)

\* The rolling averages forget: no sample has a weight in an average for longer
\* than the window and the one slot that is being blended in.
WindowForgets ==
  \A w \in {<<avg.b1m, Size1m>>, <<avg.b10m, Div10m * (Size10m + 1)>>, <<avg.b1h, Div1h * (Size1h + 1)>>} :
    Mean(w[1]) # NaN => Mean(w[1]) < w[2]

\* What the next sample of the pool-effective rate will add if it can read the sum.
Pending == IF sum > prev THEN sum - prev ELSE 0

\* The pool-effective rate counts accepted difficulty once, and once more for each
\* poll of an ASIC board that went on without the sum and so forgot what had been
\* counted; a timer board that misses the mutex, a reset of the statistics and a
\* new session never count any twice.  Until a reset none is left out,
\* whatever was missed on the way.  Without missed polls the two bounds meet.
CreditBounded ==
  /\ credited + Pending <= earned * (blind + 1)
  /\ ~wasReset => credited + Pending >= earned

\* Once, on every board: false, a poll that missed the mutex takes the sum for zero,
\* and the next one counts the whole session as earned in 5 s (asic_task.c:1094).
\* mining_avg.h:28 "Computes the per-tick rate as (accepted_diff_sum - *prev_sum) * 2^32 /
\* period_s".
CreditedOnceBlind == credited <= earned

-----------------------------------------------------------------------------
(* The inductive invariants behind them *)

\* Reading r of a chip goes on from a last reading m.
GoesOn(r, m) ==
  /\ r.did <= Rate * m.gap
  /\ m.samples > 0 /\ ~r.restarted => r.count = (m.val + r.did) % W

\* With an answer on its way it is the answer that goes on from the last
\* reading, and the chip from the answer.
RateInv ==
  /\ \A c \in Chips :
       IF answer[c] = NaN THEN GoesOn(chip[c], meas[c])
       ELSE /\ GoesOn(answer[c], meas[c])
            /\ chip[c].did = 0
            /\ ~chip[c].restarted => chip[c].count = answer[c].count
  /\ RateIsTrue

\* A sum that was never reset is all that was earned, and the next sample counts
\* on from the last.
CreditInv ==
  /\ CreditBounded
  /\ ~wasReset => sum = earned

\* How many slots ago slot i of a buffer of this size was last the current one,
\* q being the current one and i = q the one that is to be replaced.
SlotsAgo(q, i, size) == IF i < q THEN q - i ELSE q - i + size

\* No sample in slot i of a buffer is older than its slot, slots being div ticks
\* long and the current one step ticks old.
FitsWindow(buf, q, step, div, size) ==
  \A i \in Slots(size) : buf[i] # NaN => buf[i] < div * SlotsAgo(q, i, size) + step

WindowInv ==
  LET n == avg.n
      q10m == (n \div Div10m) % Size10m
      q1h == (n \div Div1h) % Size1h
  IN /\ FitsWindow(avg.b1m, n % Size1m, 0, 1, Size1m)
     /\ FitsWindow(avg.b10m, q10m, n % Div10m, Div10m, Size10m)
     /\ n % Div10m > 0 /\ avg.prev10m # NaN => avg.prev10m < Div10m * Size10m + (n % Div10m)
     /\ FitsWindow(avg.b1h, q1h, n % Div1h, Div1h, Size1h)
     /\ n % Div1h > 0 /\ avg.prev1h # NaN => avg.prev1h < Div1h * Size1h + (n % Div1h)
=============================================================================
