----------------------------- MODULE MeterProofs -----------------------------
(***************************************************************************)
(* Theorems about Meter, for any chips, counter width, rates and sizes of  *)
(* the averages.                                                           *)
(***************************************************************************)
EXTENDS Meter, WellFoundedInduction, TLAPS

-----------------------------------------------------------------------------
(* Largest and smallest of two numbers. *)

LEMMA MaxOfTwo ==
  ASSUME NEW x \in Int, NEW y \in Int
  PROVE  Max({x, y}) = IF x >= y THEN x ELSE y
<1>1. \E m \in {x, y} : \A z \in {x, y} : m >= z
  OBVIOUS
<1>2. Max({x, y}) \in {x, y} /\ \A z \in {x, y} : Max({x, y}) >= z
  BY <1>1 DEF Max
<1> QED
  BY <1>2

LEMMA MinOfTwo ==
  ASSUME NEW x \in Int, NEW y \in Int
  PROVE  Min({x, y}) = IF x <= y THEN x ELSE y
<1>1. \E m \in {x, y} : \A z \in {x, y} : m <= z
  OBVIOUS
<1>2. Min({x, y}) \in {x, y} /\ \A z \in {x, y} : Min({x, y}) <= z
  BY <1>1 DEF Min
<1> QED
  BY <1>2

\* What a counter that wraps has counted: less than W further on.
LEMMA Wrap ==
  ASSUME NEW w \in Nat \ {0}, NEW a \in 0..(w - 1), NEW d \in 0..(w - 1)
  PROVE  /\ (a + d) % w = IF a + d < w THEN a + d ELSE a + d - w
         /\ (((a + d) % w) - a) % w = d
  OBVIOUS

\* Counting on, in two parts that together are less than W.
LEMMA WrapOn ==
  ASSUME NEW w \in Nat \ {0}, NEW a \in 0..(w - 1), NEW d \in Nat, NEW e \in Nat, d + e < w
  PROVE  (((a + d) % w) + e) % w = (a + (d + e)) % w
<1> DEFINE b == (a + d) % w
<1>0. d \in 0..(w - 1) /\ e \in 0..(w - 1) /\ d + e \in 0..(w - 1)
  OBVIOUS
<1>1. b = IF a + d < w THEN a + d ELSE a + d - w
  BY <1>0, Wrap
<1> HIDE DEF b
<1>2. b \in 0..(w - 1)
  BY <1>0, <1>1
<1>3. (b + e) % w = IF b + e < w THEN b + e ELSE b + e - w
  BY <1>0, <1>2, Wrap
<1>4. (a + (d + e)) % w = IF a + (d + e) < w THEN a + (d + e) ELSE a + (d + e) - w
  BY <1>0, Wrap
<1>5. (b + e) % w = (a + (d + e)) % w
  BY <1>0, <1>1, <1>2, <1>3, <1>4
<1> QED
  BY <1>5 DEF b

\* A bounded set of numbers has a largest one: the one that is least far from
\* the bound.
LEMMA MaxOfBounded ==
  ASSUME NEW S \in SUBSET Nat, S # {}, NEW b \in Nat, \A x \in S : x <= b
  PROVE  Max(S) \in S /\ \A y \in S : Max(S) >= y
<1> DEFINE T == {b - x : x \in S}
<1>1. T \subseteq Nat /\ T # {}
  <2>1. \A x \in S : b - x \in Nat
    OBVIOUS
  <2>2. PICK x \in S : TRUE
    OBVIOUS
  <2>3. b - x \in T
    BY <2>2
  <2> QED
    BY <2>1, <2>3
<1>2. PICK d \in T : \A e \in T : ~(<<e, d>> \in OpToRel(<, Nat))
  <2> HIDE DEF T
  <2> QED
    BY <1>1, NatLessThanWellFounded, WFMin
<1>3. \A e \in T : ~(e < d)
  <2> HIDE DEF T
  <2>1. ASSUME NEW e \in T, e < d PROVE FALSE
    <3>1. e \in Nat /\ d \in Nat
      BY <1>1, <1>2
    <3>2. <<e, d>> \in OpToRel(<, Nat)
      BY <2>1, <3>1 DEF OpToRel
    <3> QED
      BY <1>2, <2>1, <3>2
  <2> QED
    BY <2>1
<1>4. PICK m \in S : d = b - m
  BY <1>2
<1>5. ASSUME NEW y \in S PROVE m >= y
  <2>1. b - y \in T
    OBVIOUS
  <2>2. ~(b - y < b - m)
    BY <1>3, <1>4, <2>1
  <2> QED
    BY <2>2
<1> QED
  BY <1>5 DEF Max

-----------------------------------------------------------------------------
(* The pool-effective rate *)

\* What a tick with the sum that was read adds to the samples.
LEMMA PoolEffAdds ==
  ASSUME NEW read \in Nat, PoolTypes, PoolEff(read)
  PROVE  /\ prev' = read
         /\ credited' = credited + (IF read > prev THEN read - prev ELSE 0)
<1>1. read - prev \in Int
  BY DEF PoolTypes
<1>2. Max({read - prev, 0}) = IF read - prev >= 0 THEN read - prev ELSE 0
  BY <1>1, MaxOfTwo
<1> QED
  BY <1>2 DEF PoolEff, PoolTypes

CreditedInv == PoolTypes /\ CreditInv

LEMMA CreditedInit == Init => CreditedInv
<1> SUFFICES ASSUME Init PROVE CreditedInv
  OBVIOUS
<1>1. MaxEarned \in Nat /\ MaxBlind \in Nat
  BY MeterAssumption
<1>2. sum = 0 /\ earned = 0 /\ prev = 0 /\ credited = 0 /\ blind = 0 /\ wasReset = FALSE
  BY DEF Init
<1>3. PoolTypes
  <2>1. wasReset \in BOOLEAN
    BY <1>2
  <2> QED
    BY <1>1, <1>2, <2>1 DEF PoolTypes
<1>4. CreditInv
  BY <1>2 DEF CreditInv, CreditBounded, Pending
<1> QED
  BY <1>3, <1>4 DEF CreditedInv

\* The bound grows with what is earned and with each poll that missed the mutex.
LEMMA BoundGrows ==
  ASSUME NEW e \in Nat, NEW b \in Nat
  PROVE  /\ e * (b + 1) \in Nat
         /\ (e + 1) * (b + 1) >= e * (b + 1) + 1
         /\ e * ((b + 1) + 1) = e * (b + 1) + e
  OBVIOUS

LEMMA CreditedNext == CreditedInv /\ [Next]_vars => CreditedInv'
<1> SUFFICES ASSUME CreditedInv, [Next]_vars PROVE CreditedInv'
  OBVIOUS
<1> USE DEF CreditedInv, PoolTypes, CreditInv, CreditBounded, Pending
<1> DEFINE bound == earned * (blind + 1)
<1>0. /\ MaxEarned \in Nat /\ MaxBlind \in Nat
      /\ earned \in Nat /\ blind \in Nat /\ bound \in Nat
      /\ (earned + 1) * (blind + 1) >= bound + 1
      /\ earned * ((blind + 1) + 1) = bound + earned
  BY MeterAssumption, BoundGrows
<1>1. CASE Accept
  <2>1. /\ sum' = sum + 1 /\ earned' = earned + 1 /\ earned < MaxEarned
        /\ UNCHANGED <<wasReset, prev, credited, blind>>
    BY <1>1 DEF Accept, effVars
  <2>2. bound' >= bound + 1
    BY <1>0, <2>1
  <2>3. PoolTypes' /\ (~wasReset' => sum' = earned')
    BY <1>0, <2>1
  <2>4. Pending' <= Pending + 1 /\ Pending' \in Nat /\ Pending' >= Pending
    BY <2>1
  <2>5. credited' + Pending' <= bound'
    <3> HIDE DEF bound, Pending
    <3> QED
      BY <1>0, <2>1, <2>2, <2>4 DEF Pending, bound
  <2>6. ~wasReset' => credited' + Pending' >= earned'
    BY <2>1
  <2> QED
    BY <2>3, <2>5, <2>6
<1>2. CASE Reset
  <2>1. sum' = 0 /\ wasReset' = TRUE /\ UNCHANGED <<earned, prev, credited, blind>>
    BY <1>2 DEF Reset, effVars
  <2>2. credited' + Pending' <= bound'
    BY <1>0, <2>1
  <2> QED
    BY <1>0, <2>1, <2>2
<1>3. ASSUME PoolEff(sum), UNCHANGED <<poolVars, blind>> PROVE CreditedInv'
  <2>1. prev' = sum /\ credited' = credited + Pending /\ UNCHANGED <<sum, earned, wasReset, blind>>
    BY <1>3, PoolEffAdds DEF poolVars
  <2>2. Pending' = 0
    BY <2>1
  <2>3. credited' + Pending' <= bound'
    BY <1>0, <2>1, <2>2
  <2> QED
    BY <1>0, <2>1, <2>2, <2>3
<1>4. CASE HashTick
  BY <1>3, <1>4 DEF HashTick
<1>5. CASE Poll
  <2>1. CASE PoolEff(sum) /\ UNCHANGED blind
    BY <1>3, <1>5, <2>1 DEF Poll
  <2>2. CASE blind < MaxBlind /\ PoolEff(0) /\ blind' = blind + 1
    <3>1. UNCHANGED <<sum, earned, wasReset>>
      BY <1>5 DEF Poll, poolVars
    <3>2. prev' = 0 /\ credited' = credited
      BY <2>2, PoolEffAdds
    <3>3. Pending' = sum
      BY <3>1, <3>2
    <3>4. bound' = bound + earned
      BY <1>0, <2>2, <3>1
    <3>5. credited' + Pending' <= bound'
      BY <1>0, <3>2, <3>3, <3>4
    <3>6. PoolTypes'
      BY <1>0, <2>2, <3>1, <3>2
    <3>7. ~wasReset' => sum' = earned' /\ credited' + Pending' >= earned'
      BY <3>1, <3>2, <3>3
    <3> QED
      BY <3>5, <3>6, <3>7
  <2> QED
    BY <1>5, <2>1, <2>2 DEF Poll
<1>6. ASSUME NEW c \in Chips, Read(c) \/ Restart(c) PROVE CreditedInv'
  BY <1>6 DEF Read, Restart, poolVars, effVars
<1>7. CASE UNCHANGED vars
  BY <1>7 DEF vars
<1> QED
  BY <1>1, <1>2, <1>4, <1>5, <1>6, <1>7 DEF Next

\* The samples of the pool-effective rate add up to at most what was earned, and as
\* much again for each poll of an ASIC board that missed the mutex, and with what the
\* next sample will add to no less than that until a reset: for any number of
\* shares, resets and missed polls.
THEOREM CreditIsBounded == Spec => []CreditBounded
<1>1. CreditedInv => CreditBounded
  BY DEF CreditedInv, CreditInv
<1> QED
  BY CreditedInit, CreditedNext, <1>1, PTL DEF Spec

-----------------------------------------------------------------------------
(* The hash rate *)

ReadingInv == ChipTypes /\ RateInv

\* No chip wraps its counter between two answers.
LEMMA RateBelowW == Rate * MaxGap \in Nat /\ Rate * MaxGap < W
<1>1. W \in Nat /\ Rate \in Nat /\ MaxGap \in Nat /\ Limit \in Nat /\ Limit > Rate /\ W > Limit * MaxGap
  BY MeterAssumption
<1>2. Rate * MaxGap <= Limit * MaxGap
  BY <1>1
<1> QED
  BY <1>1, <1>2

LEMMA FreshReading ==
  ASSUME NEW n \in 0..(W - 1)
  PROVE  Fresh(n) \in Readings
  BY RateBelowW DEF Fresh, Readings

LEMMA ReadingInit == Init => ReadingInv
<1> SUFFICES ASSUME Init PROVE ReadingInv
  OBVIOUS
<1>1. W \in Nat \ {0} /\ MaxGap \in Nat /\ Rate \in Nat
  BY MeterAssumption
<1>2. chip \in [Chips -> {Fresh(n) : n \in 0..(W - 1)}]
  BY DEF Init
<1>3. \A c \in Chips : \E n \in 0..(W - 1) : chip[c] = Fresh(n)
  BY <1>2
<1>4. chip \in [Chips -> Readings]
  BY <1>2, <1>3, FreshReading
<1>5. Unread \in [val : 0..(W - 1), samples : 0..3, gap : 0..MaxGap, rate : Rates]
  BY <1>1 DEF Unread, NoRate, Rates
<1>6. ChipTypes
  BY <1>4, <1>5 DEF Init, ChipTypes
<1>7. \A c \in Chips : GoesOn(chip[c], meas[c])
  BY <1>1, <1>3 DEF Init, GoesOn, Fresh, Unread
<1>8. RateIsTrue
  BY DEF Init, RateIsTrue, Unread, NoRate
<1> QED
  BY <1>6, <1>7, <1>8 DEF Init, ReadingInv, RateInv

LEMMA ReadingUntouched == ReadingInv /\ UNCHANGED chipVars => ReadingInv'
  BY DEF ReadingInv, ChipTypes, RateInv, RateIsTrue, GoesOn, chipVars

\* The answer that is read went on from the last reading, so the difference of the
\* counters is what the chip did, unless it was restarted.
LEMMA DeltaIsWork ==
  ASSUME NEW r \in Readings, NEW v \in 0..(W - 1), NEW g \in 0..MaxGap,
         r.did <= Rate * g, ~r.restarted => r.count = (v + r.did) % W
  PROVE  /\ (r.count - v) % W \in Nat
         /\ ~r.restarted => (r.count - v) % W = r.did
<1>1. W \in Nat \ {0} /\ Rate \in Nat /\ MaxGap \in Nat /\ Limit \in Nat
  BY MeterAssumption
<1>2. r.count \in 0..(W - 1) /\ r.did \in Nat
  BY <1>1 DEF Readings
<1>3. Rate * g <= Rate * MaxGap
  BY <1>1
<1>4. r.did \in 0..(W - 1)
  BY <1>1, <1>2, <1>3, RateBelowW
<1>5. (r.count - v) % W \in Nat
  BY <1>1, <1>2
<1>6. (((v + r.did) % W) - v) % W = r.did
  BY <1>1, <1>4, Wrap
<1>7. ASSUME ~r.restarted PROVE (r.count - v) % W = r.did
  <2>1. r.count = (v + r.did) % W
    BY <1>7
  <2> QED
    BY <1>6, <2>1
<1> QED
  BY <1>5, <1>7

LEMMA PollReading == ReadingInv /\ Poll => ReadingInv'
<1> SUFFICES ASSUME ReadingInv, Poll PROVE ReadingInv'
  OBVIOUS
<1>1. PICK work \in [Chips -> 0..Rate], heard \in SUBSET Chips :
        LET now == [c \in Chips |-> [chip[c] EXCEPT !.count = (@ + work[c]) % W, !.did = @ + work[c]]] IN
        /\ chip' = [c \in Chips |-> IF c \in heard THEN Fresh(now[c].count) ELSE now[c]]
        /\ answer' = [c \in Chips |-> IF c \in heard THEN now[c] ELSE NaN]
  BY DEF Poll
<1> DEFINE now == [c \in Chips |-> [chip[c] EXCEPT !.count = (@ + work[c]) % W, !.did = @ + work[c]]]
<1>2. meas' = [c \in Chips |-> [meas[c] EXCEPT !.gap = @ + 1]]
  BY DEF Poll
<1>3. ASSUME NEW c \in Chips
      PROVE  /\ now[c] \in Readings
             /\ GoesOn(now[c], meas'[c])
             /\ meas'[c] \in [val : 0..(W - 1), samples : 0..3, gap : 0..MaxGap, rate : Rates]
             /\ meas'[c].rate = meas[c].rate
  <2> DEFINE k == chip[c]
             m == meas[c]
             w == work[c]
  <2>1. /\ k \in Readings /\ GoesOn(k, m) /\ answer[c] = NaN
        /\ m \in [val : 0..(W - 1), samples : 0..3, gap : 0..MaxGap, rate : Rates]
        /\ m.gap < MaxGap /\ w \in 0..Rate
    BY <1>1 DEF ReadingInv, ChipTypes, RateInv, Poll
  <2>2. W \in Nat \ {0} /\ Rate \in Nat /\ MaxGap \in Nat /\ Rate * MaxGap \in Nat
    BY MeterAssumption
  <2>3. /\ meas'[c] = [m EXCEPT !.gap = @ + 1]
        /\ now[c] = [k EXCEPT !.count = (@ + w) % W, !.did = @ + w]
    BY <1>2
  <2> HIDE DEF now, k, m, w
  <2>4. k.count \in 0..(W - 1) /\ k.did \in Nat /\ m.gap \in Nat /\ m.val \in 0..(W - 1)
    BY <2>1, <2>2 DEF Readings
  <2>5. k.did + w <= Rate * (m.gap + 1) /\ Rate * (m.gap + 1) <= Rate * MaxGap
    BY <2>1, <2>2, <2>4 DEF GoesOn
  <2>6. (k.count + w) % W \in 0..(W - 1)
    BY <2>1, <2>2, <2>4
  <2>7. k.count = (m.val + k.did) % W => (k.count + w) % W = (m.val + (k.did + w)) % W
    <3>1. k.did + w < W
      BY <2>1, <2>2, <2>4, <2>5, RateBelowW
    <3>2. w \in Nat
      BY <2>1, <2>2
    <3>3. (((m.val + k.did) % W) + w) % W = (m.val + (k.did + w)) % W
      BY <2>2, <2>4, <3>1, <3>2, WrapOn
    <3> QED
      BY <3>3
  <2>8. /\ now[c].count = (k.count + w) % W /\ now[c].did = k.did + w
        /\ now[c].restarted = k.restarted
        /\ now[c] \in Readings
    <3>1. k \in [count : 0..(W - 1), did : 0..(Rate * MaxGap), restarted : BOOLEAN]
      BY <2>1 DEF Readings
    <3>2. k.did + w \in 0..(Rate * MaxGap)
      BY <2>1, <2>2, <2>4, <2>5
    <3> QED
      BY <2>3, <2>6, <3>1, <3>2 DEF Readings
  <2>9. /\ meas'[c].gap = m.gap + 1 /\ meas'[c].val = m.val /\ meas'[c].samples = m.samples
        /\ meas'[c].rate = m.rate
        /\ meas'[c] \in [val : 0..(W - 1), samples : 0..3, gap : 0..MaxGap, rate : Rates]
    BY <2>1, <2>2, <2>3, <2>4
  <2>10. GoesOn(now[c], meas'[c])
    BY <2>1, <2>5, <2>7, <2>8, <2>9 DEF GoesOn
  <2> QED
    BY <2>8, <2>9, <2>10 DEF m
<1>4. /\ chip' = [c \in Chips |-> IF c \in heard THEN Fresh(now[c].count) ELSE now[c]]
      /\ answer' = [c \in Chips |-> IF c \in heard THEN now[c] ELSE NaN]
  BY <1>1
<1> HIDE DEF now
<1>5. ASSUME NEW c \in Chips
      PROVE  /\ Fresh(now[c].count) \in Readings
             /\ Fresh(now[c].count) = [count |-> now[c].count, did |-> 0, restarted |-> FALSE]
             /\ now[c] # NaN
  BY <1>3, FreshReading, MeterAssumption DEF Fresh, Readings
<1>6. ChipTypes'
  <2>1. chip' \in [Chips -> Readings] /\ answer' \in [Chips -> Readings \cup {NaN}]
    BY <1>3, <1>4, <1>5
  <2>2. meas' \in [Chips -> [val : 0..(W - 1), samples : 0..3, gap : 0..MaxGap, rate : Rates]]
    BY <1>2, <1>3
  <2> QED
    BY <2>1, <2>2 DEF ChipTypes
<1>7. RateIsTrue'
  BY <1>3 DEF ReadingInv, RateInv, RateIsTrue
<1>8. ASSUME NEW c \in Chips
      PROVE  IF answer'[c] = NaN THEN GoesOn(chip'[c], meas'[c])
             ELSE /\ GoesOn(answer'[c], meas'[c])
                  /\ chip'[c].did = 0
                  /\ ~chip'[c].restarted => chip'[c].count = answer'[c].count
  <2>1. CASE c \in heard
    <3>1. answer'[c] = now[c] /\ chip'[c] = Fresh(now[c].count)
      BY <1>4, <2>1
    <3>2. chip'[c] = [count |-> now[c].count, did |-> 0, restarted |-> FALSE]
      BY <1>5, <3>1
    <3>4. chip'[c].did = 0 /\ chip'[c].count = answer'[c].count
      BY <3>1, <3>2
    <3>3. GoesOn(answer'[c], meas'[c]) /\ answer'[c] # NaN
      BY <1>3, <1>5, <3>1
    <3> QED
      BY <3>3, <3>4
  <2>2. CASE c \notin heard
    <3>1. answer'[c] = NaN /\ chip'[c] = now[c]
      BY <1>4, <2>2
    <3> QED
      BY <1>3, <3>1
  <2> QED
    BY <2>1, <2>2
<1> QED
  BY <1>6, <1>7, <1>8 DEF ReadingInv, RateInv, GoesOn

LEMMA ReadReading == ASSUME NEW c \in Chips, ReadingInv, Read(c) PROVE ReadingInv'
<1> DEFINE m == meas[c]
           a == answer[c]
           delta == (a.count - m.val) % W
           rate == IF m.samples >= 2 /\ Sane(delta, m.gap)
                   THEN [delta |-> delta, gap |-> m.gap, did |-> a.did, restarted |-> a.restarted]
                   ELSE m.rate
<1>1. /\ a \in Readings /\ GoesOn(a, m)
      /\ chip[c].did = 0 /\ (~chip[c].restarted => chip[c].count = a.count)
      /\ m \in [val : 0..(W - 1), samples : 0..3, gap : 0..MaxGap, rate : Rates]
      /\ m.rate.delta = m.rate.did \/ (m.rate.restarted /\ m.rate.delta < Limit * m.rate.gap)
  BY DEF ReadingInv, ChipTypes, RateInv, RateIsTrue, Read
<1>2. /\ meas' = [meas EXCEPT ![c] = [val |-> a.count, samples |-> Min({m.samples + 1, 3}), gap |-> 0,
                                      rate |-> rate]]
      /\ answer' = [answer EXCEPT ![c] = NaN]
      /\ UNCHANGED chip
  BY DEF Read
<1> HIDE DEF m, a
<1>3. /\ W \in Nat \ {0} /\ MaxGap \in Nat /\ Rate \in Nat
      /\ a.count \in 0..(W - 1) /\ a.did \in Nat /\ a.restarted \in BOOLEAN
      /\ m.val \in 0..(W - 1) /\ m.gap \in 0..MaxGap /\ m.samples \in 0..3 /\ m.rate \in Rates
  BY <1>1, MeterAssumption, RateBelowW DEF Readings
<1>4. Min({m.samples + 1, 3}) \in 1..3
  BY <1>3, MinOfTwo
<1>5. m.samples >= 2 => delta \in Nat /\ (~a.restarted => delta = a.did)
  <2> SUFFICES ASSUME m.samples >= 2 PROVE delta \in Nat /\ (~a.restarted => delta = a.did)
    OBVIOUS
  <2>1. a.did <= Rate * m.gap /\ (~a.restarted => a.count = (m.val + a.did) % W)
    BY <1>1, <1>3 DEF GoesOn
  <2> QED
    BY <1>1, <1>3, <2>1, DeltaIsWork
<1>6. rate \in Rates /\ (rate.delta = rate.did \/ (rate.restarted /\ rate.delta < Limit * rate.gap))
  <2>1. CASE m.samples >= 2 /\ Sane(delta, m.gap)
    <3> HIDE DEF delta
    <3>1. rate = [delta |-> delta, gap |-> m.gap, did |-> a.did, restarted |-> a.restarted]
      BY <2>1
    <3> HIDE DEF rate
    <3>2. rate \in Rates
      BY <1>3, <1>5, <2>1, <3>1 DEF Rates
    <3> QED
      BY <1>3, <1>5, <2>1, <3>1, <3>2 DEF Sane
  <2>2. CASE ~(m.samples >= 2 /\ Sane(delta, m.gap))
    <3>1. rate = m.rate
      BY <2>2
    <3> QED
      BY <1>1, <1>3, <3>1
  <2> QED
    BY <2>1, <2>2
<1> HIDE DEF rate
<1>7. ChipTypes'
  BY <1>2, <1>3, <1>4, <1>6 DEF ReadingInv, ChipTypes
<1>8. RateIsTrue'
  BY <1>2, <1>6 DEF ReadingInv, ChipTypes, RateInv, RateIsTrue
<1>9. GoesOn(chip[c], meas'[c])
  <2>1. meas'[c].gap = 0 /\ meas'[c].val = a.count
    BY <1>2 DEF ReadingInv, ChipTypes
  <2>2. Rate * 0 = 0 /\ a.count % W = a.count /\ a.count + 0 = a.count
    BY <1>3
  <2> QED
    BY <1>1, <2>1, <2>2 DEF GoesOn
<1>10. ASSUME NEW d \in Chips \ {c}
       PROVE  answer'[d] = answer[d] /\ meas'[d] = meas[d]
  BY <1>2 DEF ReadingInv, ChipTypes
<1>11. answer'[c] = NaN
  BY <1>2 DEF ReadingInv, ChipTypes
<1> QED
  BY <1>2, <1>7, <1>8, <1>9, <1>10, <1>11 DEF ReadingInv, RateInv, GoesOn

LEMMA RestartReading == ASSUME NEW c \in Chips, ReadingInv, Restart(c) PROVE ReadingInv'
<1>1. /\ chip' = [chip EXCEPT ![c].count = 0, ![c].restarted = TRUE]
      /\ UNCHANGED <<answer, meas>>
  BY DEF Restart
<1>2. W \in Nat \ {0} /\ chip \in [Chips -> Readings]
  BY MeterAssumption DEF ReadingInv, ChipTypes
<1>3. /\ chip'[c] = [chip[c] EXCEPT !.count = 0, !.restarted = TRUE]
      /\ \A d \in Chips \ {c} : chip'[d] = chip[d]
  BY <1>1, <1>2
<1>4. chip[c] \in [count : 0..(W - 1), did : 0..(Rate * MaxGap), restarted : BOOLEAN]
  BY <1>2 DEF Readings
<1>5. chip'[c] \in Readings /\ chip'[c].restarted /\ chip'[c].did = chip[c].did
  <2>1. 0 \in 0..(W - 1)
    BY <1>2
  <2>2. chip'[c] \in [count : 0..(W - 1), did : 0..(Rate * MaxGap), restarted : BOOLEAN]
    BY <1>3, <1>4, <2>1
  <2>3. chip'[c].restarted = TRUE /\ chip'[c].did = chip[c].did
    BY <1>3, <1>4
  <2> QED
    BY <2>2, <2>3 DEF Readings
<1>6. ChipTypes'
  BY <1>1, <1>2, <1>3, <1>5 DEF ReadingInv, ChipTypes
<1>7. RateIsTrue'
  BY <1>1 DEF ReadingInv, RateInv, RateIsTrue
<1>8. ASSUME NEW d \in Chips
      PROVE  IF answer[d] = NaN THEN GoesOn(chip'[d], meas[d])
             ELSE /\ GoesOn(answer[d], meas[d])
                  /\ chip'[d].did = 0
                  /\ ~chip'[d].restarted => chip'[d].count = answer[d].count
  <2>1. IF answer[d] = NaN THEN GoesOn(chip[d], meas[d])
        ELSE /\ GoesOn(answer[d], meas[d])
             /\ chip[d].did = 0
             /\ ~chip[d].restarted => chip[d].count = answer[d].count
    BY DEF ReadingInv, RateInv
  <2>2. CASE d = c
    BY <1>5, <2>1, <2>2 DEF GoesOn
  <2>3. CASE d # c
    BY <1>3, <2>1, <2>3
  <2> QED
    BY <2>2, <2>3
<1> QED
  BY <1>1, <1>6, <1>7, <1>8 DEF ReadingInv, RateInv, GoesOn

LEMMA ReadingNext == ReadingInv /\ [Next]_vars => ReadingInv'
<1> SUFFICES ASSUME ReadingInv, [Next]_vars PROVE ReadingInv'
  OBVIOUS
<1>1. CASE Accept \/ Reset \/ HashTick
  BY <1>1, ReadingUntouched DEF Accept, Reset, HashTick
<1>2. CASE Poll
  BY <1>2, PollReading
<1>3. ASSUME NEW c \in Chips, Read(c) \/ Restart(c) PROVE ReadingInv'
  BY <1>3, ReadReading, RestartReading
<1>4. CASE UNCHANGED vars
  BY <1>4, ReadingUntouched DEF vars, chipVars
<1> QED
  BY <1>1, <1>2, <1>3, <1>4 DEF Next

\* A published hash rate is the work the chip did between two of its answers, for
\* any width of the counter that the chips do not fill between two readings and
\* however many answers are lost; after a restart of the chip the sanity limit bounds it.
THEOREM RatesAreTrue == Spec => []RateIsTrue
<1>1. ReadingInv => RateIsTrue
  BY DEF ReadingInv, RateInv
<1> QED
  BY ReadingInit, ReadingNext, <1>1, PTL DEF Spec

-----------------------------------------------------------------------------
(* Quotients and remainders *)

\* Quotient and remainder.
LEMMA QuotientRemainder ==
  ASSUME NEW d \in Nat \ {0}, NEW n \in Nat
  PROVE  /\ n % d \in 0..(d - 1) /\ n \div d \in Nat
         /\ n = d * (n \div d) + (n % d)
  OBVIOUS

\* They are the only ones.
LEMMA SameQuotient ==
  ASSUME NEW d \in Nat \ {0}, NEW q \in Nat, NEW r \in 0..(d - 1), NEW p \in Nat, NEW s \in 0..(d-1),
     d * q + r = d * p + s
  PROVE q = p /\ r = s
<1>1. CASE q < p
  <2>1. d * (q + 1) <= d * p
    BY <1>1
  <2> QED
    BY <2>1
<1>2. CASE q > p
  <2>1. d * (p + 1) <= d * q
    BY <1>2
  <2> QED
    BY <2>1
<1>3. CASE q = p
  BY <1>3
<1> QED
    BY <1>1, <1>2, <1>3

LEMMA QuotientOf ==
  ASSUME NEW d \in Nat \ {0}, NEW q \in Nat, NEW r \in 0..(d - 1)
  PROVE  (d * q + r) \div d = q /\ (d * q + r) % d = r
<1> DEFINE n == d * q + r
<1>1. n \in Nat
  OBVIOUS
<1>2. n % d \in 0..(d - 1) /\ n \div d \in Nat /\ n = d * (n \div d) + (n % d)
  BY <1>1, QuotientRemainder
<1>3. n \div d = q /\ n % d = r
  <2>1. d * q + r = d * (n \div d) + (n % d)
    BY <1>2
  <2> HIDE DEF n
  <2> QED
    BY <1>2, <2>1, SameQuotient
<1> QED
  BY <1>3

\* A counter that wraps at k * d: what the next number does to remainder and quotient.
LEMMA NextTick ==
  ASSUME NEW d \in Nat \ {0}, NEW k \in Nat \ {0}, NEW n \in 0..(k * d - 1)
  PROVE  LET m == (n + 1) % (k * d) IN
         /\ n \div d \in 0..(k - 1) /\ n % d \in 0..(d - 1)
         /\ m % d = IF (n % d) + 1 = d THEN 0 ELSE (n % d) + 1
         /\ m \div d = IF (n % d) + 1 = d THEN ((n \div d) + 1) % k ELSE n \div d
         /\ m \in 0..(k * d - 1)
<1> DEFINE q == n \div d
           r == n % d
           m == (n + 1) % (k * d)
<1>1. k * d \in Nat \ {0} /\ n \in Nat
  OBVIOUS
<1>2. r \in 0..(d - 1) /\ q \in Nat /\ n = d * q + r
  BY <1>1, QuotientRemainder
<1>3. m = IF n + 1 = k * d THEN 0 ELSE n + 1
  BY <1>1
<1> HIDE DEF q, r, m
<1>4. q < k
  <2>1. ASSUME q >= k PROVE FALSE
    <3>1. d * q >= d * k /\ d * q \in Nat /\ d * k = k * d
      BY <1>2, <2>1
    <3> QED
      BY <1>1, <1>2, <3>1
  <2> QED
    BY <1>2, <2>1
<1>5. CASE r + 1 < d
  <2>1. n + 1 = d * q + (r + 1) /\ r + 1 \in 0..(d - 1)
    BY <1>2, <1>5
  <2>2. n + 1 # k * d
    <3>1. d * (q + 1) <= d * k
      BY <1>2, <1>4
    <3> QED
      BY <1>2, <1>5, <2>1, <3>1
  <2>3. m = d * q + (r + 1)
    BY <1>3, <2>1, <2>2
  <2>4. m \div d = q /\ m % d = r + 1
    BY <1>2, <2>1, <2>3, QuotientOf
  <2> QED
    BY <1>1, <1>2, <1>3, <1>4, <1>5, <2>4 DEF q, r, m
<1>6. CASE r + 1 = d
  <2>1. n + 1 = d * (q + 1) /\ 0 \in 0..(d - 1)
    BY <1>2, <1>6
  <2>2. CASE q + 1 = k
    <3>1. m = d * 0 + 0
      BY <1>3, <2>1, <2>2
    <3>2. m \div d = 0 /\ m % d = 0
      BY <2>1, <3>1, QuotientOf
    <3>3. (q + 1) % k = 0
      BY <2>2
    <3> QED
      BY <1>1, <1>2, <1>3, <1>4, <1>6, <3>2, <3>3 DEF q, r, m
  <2>3. CASE q + 1 < k
    <3>1. n + 1 # k * d
      <4>1. d * (q + 2) <= d * k
        BY <1>2, <2>3
      <4> QED
        BY <1>2, <2>1, <4>1
    <3>2. m = d * (q + 1) + 0
      BY <1>3, <2>1, <3>1
    <3>3. m \div d = q + 1 /\ m % d = 0
      BY <1>2, <2>1, <3>2, QuotientOf
    <3>4. (q + 1) % k = q + 1
      BY <1>2, <2>3
    <3> QED
      BY <1>1, <1>2, <1>3, <1>4, <1>6, <3>3, <3>4 DEF q, r, m
  <2> QED
    BY <1>2, <1>4, <2>2, <2>3
<1> QED
  BY <1>2, <1>5, <1>6

-----------------------------------------------------------------------------
(* The windows of the averages *)

\* The oldest of some samples is younger than any bound on all of them.
LEMMA OldestBound ==
  ASSUME NEW S \in SUBSET Ages, NEW b \in Nat, \A x \in S : x # NaN => x < b
  PROVE  Oldest(S) \in Ages /\ (Oldest(S) # NaN => Oldest(S) < b)
<1>1. CASE S \subseteq {NaN}
  BY <1>1 DEF Oldest, Ages
<1>2. CASE ~(S \subseteq {NaN})
  <2> DEFINE T == S \ {NaN}
  <2>1. T # {} /\ T \in SUBSET Nat /\ \A x \in T : x <= b
    <3>1. T # {}
      BY <1>2
    <3>2. ASSUME NEW x \in T PROVE x \in Nat /\ x <= b
      <4>1. x \in Nat
        BY DEF Ages
      <4>2. x < b
        OBVIOUS
      <4> QED
        BY <4>1, <4>2
    <3> QED
      BY <3>1, <3>2
  <2>2. Max(T) \in T
    <3> HIDE DEF T
    <3> QED
      BY <2>1, MaxOfBounded
  <2>3. Oldest(S) = Max(T)
    BY <1>2 DEF Oldest
  <2> QED
    BY <2>2, <2>3 DEF Ages
<1> QED
  BY <1>1, <1>2

LEMMA MeanBound ==
  ASSUME NEW D, NEW buf \in [D -> Ages], NEW b \in Nat, \A i \in D : buf[i] # NaN => buf[i] < b
  PROVE  Mean(buf) \in Ages /\ (Mean(buf) # NaN => Mean(buf) < b)
<1> DEFINE S == {buf[i] : i \in DOMAIN buf}
<1>1. S \in SUBSET Ages /\ \A x \in S : x # NaN => x < b
  OBVIOUS
<1> HIDE DEF S
<1>2. Oldest(S) \in Ages /\ (Oldest(S) # NaN => Oldest(S) < b)
  BY <1>1, OldestBound
<1> QED
  BY <1>2 DEF Mean, S

\* The last blend of a slot leaves nothing of the slot's old value.
LEMMA BlendBound ==
  ASSUME NEW new \in Ages, NEW old \in Ages, NEW step \in Nat, NEW div \in Nat, NEW b \in Nat,
         new # NaN => new < b,
         step + 1 < div /\ old # NaN => old < b
  PROVE  LET v == Blend(new, old, step, div) IN v \in Ages /\ (v # NaN => v < b)
<1> DEFINE S == {new} \cup (IF step + 1 < div THEN {old} ELSE {})
<1>1. S \in SUBSET Ages /\ \A x \in S : x # NaN => x < b
  OBVIOUS
<1> HIDE DEF S
<1>2. Oldest(S) \in Ages /\ (Oldest(S) # NaN => Oldest(S) < b)
  BY <1>1, OldestBound
<1> QED
  BY <1>2 DEF Blend, S

LEMMA OlderAge ==
  ASSUME NaN \notin Nat, NEW a \in Ages
  PROVE  Older(a) \in Ages /\ (Older(a) = NaN <=> a = NaN) /\ (a # NaN => Older(a) = a + 1)
  BY DEF Ages, Older

\* One tick of a buffer: everything ages, the current slot takes a new value, and
\* the next slot is the current one when this one is complete.
LEMMA WindowStep ==
  ASSUME NEW size \in Nat \ {0}, NEW div \in Nat \ {0},
         NEW q \in Slots(size), NEW step \in 0..(div - 1),
         NEW buf \in [Slots(size) -> Ages], FitsWindow(buf, q, step, div, size),
         NEW v \in Ages, v # NaN => v < div * size + (step + 1),
         v # NaN /\ step + 1 = div => v < div,
         NaN \notin Nat,
         NEW q2, q2 = (IF step + 1 = div THEN (q + 1) % size ELSE q),
         NEW step2, step2 = (IF step + 1 = div THEN 0 ELSE step + 1)
  PROVE  LET after == [AllOlder(buf) EXCEPT ![q] = v] IN
         after \in [Slots(size) -> Ages] /\ FitsWindow(after, q2, step2, div, size)
<1> DEFINE after == [AllOlder(buf) EXCEPT ![q] = v]
<1>1. AllOlder(buf) = [i \in Slots(size) |-> Older(buf[i])]
  BY DEF AllOlder
<1>2. after[q] = v /\ \A i \in Slots(size) \ {q} : after[i] = Older(buf[i])
  BY <1>1
<1>3. after \in [Slots(size) -> Ages]
  BY <1>1, OlderAge
<1> HIDE DEF after
<1>4. (q + 1) % size = IF q + 1 = size THEN 0 ELSE q + 1
  BY DEF Slots
<1>5. ASSUME NEW i \in Slots(size), after[i] # NaN
      PROVE  after[i] < div * SlotsAgo(q2, i, size) + step2
  <2>1. SlotsAgo(q, q, size) = size
    BY DEF SlotsAgo, Slots
  <2>2. CASE i = q /\ step + 1 # div
    BY <1>2, <1>5, <2>1, <2>2
  <2>3. CASE i = q /\ step + 1 = div
    <3>1. SlotsAgo(q2, i, size) = 1
      BY <1>4, <2>3 DEF SlotsAgo, Slots
    <3>2. after[i] < div /\ step2 = 0 /\ after[i] \in Nat
      BY <1>2, <1>5, <2>3 DEF Ages
    <3> QED
      BY <3>1, <3>2
  <2>4. CASE i # q
    <3>1. buf[i] \in Nat /\ buf[i] # NaN /\ after[i] = buf[i] + 1
      BY <1>2, <1>5, <2>4, OlderAge DEF Ages
    <3>2. buf[i] < div * SlotsAgo(q, i, size) + step
      BY <3>1 DEF FitsWindow
    <3>3. SlotsAgo(q, i, size) \in Nat
      BY DEF SlotsAgo, Slots
    <3>4. CASE step + 1 # div
      BY <3>1, <3>2, <3>3, <3>4
    <3>5. CASE step + 1 = div
      <4>1. SlotsAgo(q2, i, size) = SlotsAgo(q, i, size) + 1
        BY <1>4, <2>4, <3>5 DEF SlotsAgo, Slots
      <4>2. div * (SlotsAgo(q, i, size) + 1) = div * SlotsAgo(q, i, size) + div
        BY <3>3
      <4> QED
        BY <3>1, <3>2, <3>3, <3>5, <4>1, <4>2
    <3> QED
      BY <3>4, <3>5
  <2> QED
    BY <2>2, <2>3, <2>4
<1> QED
  BY <1>3, <1>5 DEF after, FitsWindow

AveragesInv == AvgTypes /\ WindowInv

LEMMA Sizes ==
  /\ Size1m \in Nat \ {0} /\ Size10m \in Nat \ {0} /\ Size1h \in Nat \ {0}
  /\ Div10m \in Nat \ {0} /\ Div10m = Size1m
  /\ Div1h \in Nat \ {0} /\ Div1h = Size10m * Div10m
  /\ NaN \notin Nat
<1>1. Size1m \in Nat \ {0} /\ Size10m \in Nat \ {0} /\ Size1h \in Nat \ {0} /\ NaN \notin Nat
  BY MeterAssumption
<1>2. \A x, y \in Nat \ {0} : x * y \in Nat \ {0}
  OBVIOUS
<1> QED
  BY <1>1, <1>2 DEF Div10m, Div1h

\* What a tick does to the three slots and their ages.
LEMMA SlotsNext ==
  ASSUME NEW n \in Slots(Size1h * Div1h)
  PROVE  LET m == (n + 1) % (Size1h * Div1h) IN
         /\ m \in Slots(Size1h * Div1h)
         /\ n % Div10m \in 0..(Div10m - 1) /\ n % Div1h \in 0..(Div1h - 1)
         /\ m % Div10m = IF (n % Div10m) + 1 = Div10m THEN 0 ELSE (n % Div10m) + 1
         /\ m % Div1h = IF (n % Div1h) + 1 = Div1h THEN 0 ELSE (n % Div1h) + 1
         /\ (n \div Div10m) % Size10m \in Slots(Size10m)
         /\ (n \div Div1h) % Size1h \in Slots(Size1h)
         /\ (m \div Div10m) % Size10m =
              IF (n % Div10m) + 1 = Div10m THEN (((n \div Div10m) % Size10m) + 1) % Size10m
                                           ELSE (n \div Div10m) % Size10m
         /\ (m \div Div1h) % Size1h =
              IF (n % Div1h) + 1 = Div1h THEN (((n \div Div1h) % Size1h) + 1) % Size1h
                                         ELSE (n \div Div1h) % Size1h
         /\ (n % Div1h) + 1 = Div1h => (n % Div10m) + 1 = Div10m
         /\ n % Div10m <= n % Div1h
<1> DEFINE K == Size1h * Size10m
           m == (n + 1) % (Size1h * Div1h)
<1>1. /\ Size10m \in Nat \ {0} /\ Size1h \in Nat \ {0} /\ Div10m \in Nat \ {0}
      /\ Div1h \in Nat \ {0} /\ Div1h = Size10m * Div10m
  BY Sizes
<1>2. K \in Nat \ {0} /\ Size1h * Div1h = K * Div10m
  BY <1>1
<1>3. /\ n \in 0..(K * Div10m - 1) /\ n \in 0..(Size1h * Div1h - 1)
  <2> HIDE DEF K
  <2> QED
    BY <1>2 DEF Slots
<1> DEFINE m1 == (n + 1) % (K * Div10m)
<1>4. /\ n \div Div10m \in 0..(K - 1) /\ n % Div10m \in 0..(Div10m - 1)
      /\ m1 % Div10m = IF (n % Div10m) + 1 = Div10m THEN 0 ELSE (n % Div10m) + 1
      /\ m1 \div Div10m = IF (n % Div10m) + 1 = Div10m THEN ((n \div Div10m) + 1) % K ELSE n \div Div10m
  <2>1. K \in Nat \ {0} /\ Div10m \in Nat \ {0} /\ n \in 0..(K * Div10m - 1)
    BY <1>1, <1>2, <1>3
  <2> HIDE DEF K
  <2> QED
    BY <2>1, NextTick
<1>5. /\ n \div Div1h \in 0..(Size1h - 1) /\ n % Div1h \in 0..(Div1h - 1)
      /\ m % Div1h = IF (n % Div1h) + 1 = Div1h THEN 0 ELSE (n % Div1h) + 1
      /\ m \div Div1h = IF (n % Div1h) + 1 = Div1h THEN ((n \div Div1h) + 1) % Size1h ELSE n \div Div1h
      /\ m \in 0..(Size1h * Div1h - 1)
  <2>1. Size1h \in Nat \ {0} /\ Div1h \in Nat \ {0} /\ n \in 0..(Size1h * Div1h - 1)
    BY <1>1, <1>3
  <2> QED
    BY <2>1, NextTick
<1> DEFINE x == n \div Div10m
           y == n \div Div1h
           r == n % Div10m
           s == n % Div1h
<1>6. /\ x % Size10m \in 0..(Size10m - 1)
      /\ ((x + 1) % K) % Size10m = ((x % Size10m) + 1) % Size10m
      /\ y % Size1h = y
  <2>1. x \in 0..(Size1h * Size10m - 1)
    BY <1>4
  <2>2. y % Size1h = y
    BY <1>1, <1>5
  <2> HIDE DEF x, y
  <2>3. /\ x % Size10m \in 0..(Size10m - 1)
        /\ ((x + 1) % (Size1h * Size10m)) % Size10m
             = IF (x % Size10m) + 1 = Size10m THEN 0 ELSE (x % Size10m) + 1
    BY <1>1, <2>1, NextTick
  <2>4. ((x % Size10m) + 1) % Size10m = IF (x % Size10m) + 1 = Size10m THEN 0 ELSE (x % Size10m) + 1
    BY <1>1, <2>3
  <2> QED
    BY <2>2, <2>3, <2>4
<1>7. (s + 1 = Div1h => r + 1 = Div10m) /\ r <= s
  <2>1. s \in Nat /\ r \in 0..(Div10m - 1) /\ n \in Nat /\ x \in Nat /\ y \in Nat
    BY <1>1, <1>3, <1>4, <1>5
  <2>2. n = Div10m * x + r /\ n = Div1h * y + s
    BY <1>1, <2>1, QuotientRemainder
  <2>3. s % Div10m \in 0..(Div10m - 1) /\ s \div Div10m \in Nat /\ s = Div10m * (s \div Div10m) + (s % Div10m)
    BY <1>1, <2>1, QuotientRemainder
  <2> DEFINE z == s \div Div10m
             t == s % Div10m
             u == Size10m * y + z
  <2> HIDE DEF x, y, r, s, z, t
  <2>4. Div10m * u + t = Div10m * x + r
    <3>1. Div1h * y = Div10m * (Size10m * y)
      BY <1>1, <2>1
    <3>2. z \in Nat /\ s = Div10m * z + t
      BY <2>3 DEF z, t
    <3>3. Div10m * u = Div10m * (Size10m * y) + Div10m * z
      BY <1>1, <2>1, <3>2
    <3>4. n = (Div10m * (Size10m * y) + Div10m * z) + t
      <4>1. Size10m * y \in Nat /\ t \in Nat
        BY <1>1, <2>1, <2>3 DEF t
      <4> QED
        BY <1>1, <2>2, <3>1, <3>2, <4>1
    <3>5. n = Div10m * u + t
      BY <3>3, <3>4
    <3> QED
      BY <2>2, <3>5
  <2>5. u \in Nat /\ t \in 0..(Div10m - 1)
    BY <1>1, <2>1, <2>3 DEF z, t
  <2> HIDE DEF u
  <2>6. t = r
    BY <1>1, <2>1, <2>4, <2>5, SameQuotient
  <2>7. r <= s
    BY <1>1, <2>1, <2>3, <2>6 DEF z, t
  <2>8. ASSUME s + 1 = Div1h PROVE r + 1 = Div10m
    <3>1. s = Div10m * (Size10m - 1) + (Div10m - 1)
      BY <1>1, <2>1, <2>8
    <3>2. s % Div10m = Div10m - 1
      <4>1. Size10m - 1 \in Nat /\ Div10m - 1 \in 0..(Div10m - 1)
        BY <1>1
      <4> QED
        BY <1>1, <3>1, <4>1, QuotientOf
    <3> QED
      BY <1>1, <2>6, <3>2 DEF t
  <2> QED
    BY <2>7, <2>8
<1>8. (y + 1) % Size1h \in 0..(Size1h - 1) /\ ((y + 1) % Size1h) % Size1h = (y + 1) % Size1h
  BY <1>1, <1>5
<1>9. m1 = m
  BY <1>2
<1> HIDE DEF K, m1, m
<1> QED
  BY <1>4, <1>5, <1>6, <1>7, <1>8, <1>9 DEF Slots, m

LEMMA AveragesInit == Init => AveragesInv
<1> SUFFICES ASSUME Init PROVE AveragesInv
  OBVIOUS
<1>1. avg = NoAverages
  BY DEF Init
<1>2. Size1h * Div1h \in Nat \ {0}
  BY Sizes
<1>3. /\ avg.n = 0 /\ avg.prev10m = NaN /\ avg.prev1h = NaN
      /\ avg.b1m = Empty(Size1m) /\ avg.b10m = Empty(Size10m) /\ avg.b1h = Empty(Size1h)
  BY <1>1 DEF NoAverages
<1>4. AvgTypes
  BY <1>2, <1>3 DEF AvgTypes, Ages, Empty, Slots
<1>5. WindowInv
  BY <1>3 DEF WindowInv, FitsWindow, Empty
<1> QED
  BY <1>4, <1>5 DEF AveragesInv

\* The value a slot of 10 min or 1 h takes, if the means it is made of fit.
LEMMA SlotValue ==
  ASSUME NEW size \in Nat \ {0}, NEW div \in Nat \ {0}, NEW step \in 0..(div - 1),
         NEW new \in Ages, new # NaN => new < div * size + (step + 1),
         new # NaN /\ step + 1 = div => new < div,
         NEW old \in Ages, old # NaN => old < div * size + (step + 1)
  PROVE  LET v == Blend(new, old, step, div) IN
         /\ v \in Ages /\ (v # NaN => v < div * size + (step + 1))
         /\ v # NaN /\ step + 1 = div => v < div
<1>1. div * size + (step + 1) \in Nat /\ step \in Nat /\ div \in Nat
  OBVIOUS
<1>2. /\ Blend(new, old, step, div) \in Ages
      /\ Blend(new, old, step, div) # NaN => Blend(new, old, step, div) < div * size + (step + 1)
  <2> DEFINE b == div * size + (step + 1)
  <2>1. b \in Nat /\ (new # NaN => new < b) /\ (step + 1 < div /\ old # NaN => old < b)
    BY <1>1
  <2> HIDE DEF b
  <2>2. LET v == Blend(new, old, step, div) IN v \in Ages /\ (v # NaN => v < b)
    BY <1>1, <2>1, BlendBound
  <2> QED
    BY <2>2 DEF b
<1>3. ASSUME step + 1 = div, Blend(new, old, step, div) # NaN
      PROVE  Blend(new, old, step, div) < div
  <2>1. (new # NaN => new < div) /\ ~(step + 1 < div)
    BY <1>3
  <2> QED
    BY <1>1, <1>3, <2>1, BlendBound
<1> QED
  BY <1>2, <1>3

LEMMA AveragesUpdate == ASSUME AveragesInv, avg' = Averaged(avg) PROVE AveragesInv'
<1> DEFINE n == avg.n
           m == (n + 1) % (Size1h * Div1h)
           r10m == n % Div10m
           r1h == n % Div1h
           s10m == (n \div Div10m) % Size10m
           s1h == (n \div Div1h) % Size1h
           b1m == [AllOlder(avg.b1m) EXCEPT ![n % Size1m] = 0]
           p10m == Older(IF n % Size1m = 0 THEN avg.b10m[s10m] ELSE avg.prev10m)
           v10m == Blend(Mean(b1m), p10m, n % Size1m, Size1m)
           b10m == [AllOlder(avg.b10m) EXCEPT ![s10m] = v10m]
           p1h == Older(IF n % Div1h = 0 THEN avg.b1h[s1h] ELSE avg.prev1h)
           v1h == Blend(Mean(b10m), p1h, n % Div1h, Div1h)
           b1h == [AllOlder(avg.b1h) EXCEPT ![s1h] = v1h]
<1>1. /\ avg'.n = m /\ avg'.b1m = b1m /\ avg'.b10m = b10m /\ avg'.b1h = b1h
      /\ avg'.prev10m = p10m /\ avg'.prev1h = p1h
  BY DEF Averaged
<1>2. /\ Size1m \in Nat \ {0} /\ Size10m \in Nat \ {0} /\ Size1h \in Nat \ {0}
      /\ Div10m = Size1m /\ Div1h \in Nat \ {0} /\ Div1h = Div10m * Size10m /\ NaN \notin Nat
  <2>1. Div10m * Size10m = Size10m * Div10m
    BY Sizes
  <2> QED
    BY <2>1, Sizes
<1>3. /\ n \in Slots(Size1h * Div1h)
      /\ avg.b1m \in [Slots(Size1m) -> Ages] /\ avg.b10m \in [Slots(Size10m) -> Ages]
      /\ avg.b1h \in [Slots(Size1h) -> Ages] /\ avg.prev10m \in Ages /\ avg.prev1h \in Ages
  BY DEF AveragesInv, AvgTypes
<1>4. /\ FitsWindow(avg.b1m, n % Size1m, 0, 1, Size1m)
      /\ FitsWindow(avg.b10m, s10m, r10m, Div10m, Size10m)
      /\ r10m > 0 /\ avg.prev10m # NaN => avg.prev10m < Div10m * Size10m + r10m
      /\ FitsWindow(avg.b1h, s1h, r1h, Div1h, Size1h)
      /\ r1h > 0 /\ avg.prev1h # NaN => avg.prev1h < Div1h * Size1h + r1h
  BY DEF AveragesInv, WindowInv
<1>5. /\ m \in Slots(Size1h * Div1h)
      /\ r10m \in 0..(Div10m - 1) /\ r1h \in 0..(Div1h - 1)
      /\ m % Div10m = IF r10m + 1 = Div10m THEN 0 ELSE r10m + 1
      /\ m % Div1h = IF r1h + 1 = Div1h THEN 0 ELSE r1h + 1
      /\ s10m \in Slots(Size10m) /\ s1h \in Slots(Size1h)
      /\ (m \div Div10m) % Size10m = IF r10m + 1 = Div10m THEN (s10m + 1) % Size10m ELSE s10m
      /\ (m \div Div1h) % Size1h = IF r1h + 1 = Div1h THEN (s1h + 1) % Size1h ELSE s1h
      /\ r1h + 1 = Div1h => r10m + 1 = Div10m
      /\ r10m <= r1h
  BY <1>3, SlotsNext
<1> DEFINE q10m == (m \div Div10m) % Size10m
           q1h == (m \div Div1h) % Size1h
           t10m == m % Div10m
           t1h == m % Div1h
<1>6. p10m = Older(IF r10m = 0 THEN avg.b10m[s10m] ELSE avg.prev10m)
      /\ v10m = Blend(Mean(b1m), p10m, r10m, Div10m)
      /\ n % Size1m = r10m /\ m % Size1m = t10m
  BY <1>2
<1> HIDE DEF n, m, r10m, r1h, s10m, s1h, b1m, p10m, v10m, b10m, p1h, v1h, b1h, q10m, q1h, t10m, t1h
<1>10. b1m \in [Slots(Size1m) -> Ages] /\ FitsWindow(b1m, t10m, 0, 1, Size1m)
  <2>1. /\ r10m \in Slots(Size1m) /\ 0 \in 0..(1 - 1) /\ 1 \in Nat \ {0} /\ 0 \in Ages
        /\ t10m = (r10m + 1) % Size1m /\ 0 < 1 * Size1m + (0 + 1)
    BY <1>2, <1>5 DEF Slots, Ages, t10m
  <2>2. FitsWindow(avg.b1m, r10m, 0, 1, Size1m) /\ b1m = [AllOlder(avg.b1m) EXCEPT ![r10m] = 0]
    BY <1>4, <1>6 DEF b1m
  <2>3. t10m = (IF 0 + 1 = 1 THEN (r10m + 1) % Size1m ELSE r10m) /\ 0 = (IF 0 + 1 = 1 THEN 0 ELSE 0 + 1)
    BY <2>1
  <2> HIDE DEF Ages
  <2> QED
    BY <1>2, <1>3, <2>1, <2>2, <2>3, WindowStep
<1>11. Mean(b1m) \in Ages /\ (Mean(b1m) # NaN => Mean(b1m) < Div10m)
  <2>1. ASSUME NEW i \in Slots(Size1m), b1m[i] # NaN PROVE b1m[i] < Div10m
    <3>1. b1m[i] < 1 * SlotsAgo(t10m, i, Size1m) + 0
      BY <1>10, <2>1 DEF FitsWindow
    <3>2. t10m \in 0..(Size1m - 1)
      BY <1>2, <1>5 DEF t10m
    <3>3. SlotsAgo(t10m, i, Size1m) \in 1..Size1m
      BY <1>2, <3>2 DEF SlotsAgo, Slots
    <3>4. b1m[i] \in Nat
      BY <1>10, <2>1 DEF Ages
    <3> QED
      BY <1>2, <3>1, <3>3, <3>4
  <2> QED
    BY <1>2, <1>10, <2>1, MeanBound
<1>12. p10m \in Ages /\ (p10m # NaN => p10m < Div10m * Size10m + (r10m + 1))
  <2> DEFINE old == IF r10m = 0 THEN avg.b10m[s10m] ELSE avg.prev10m
  <2>1. old \in Ages
    BY <1>3, <1>5
  <2>2. old # NaN => old < Div10m * Size10m + r10m
    <3>1. CASE r10m = 0
      <4>1. SlotsAgo(s10m, s10m, Size10m) = Size10m
        BY <1>2, <1>5 DEF SlotsAgo, Slots
      <4>2. avg.b10m[s10m] # NaN => avg.b10m[s10m] < Div10m * SlotsAgo(s10m, s10m, Size10m) + r10m
        BY <1>4, <1>5 DEF FitsWindow
      <4> QED
        BY <3>1, <4>1, <4>2
    <3>2. CASE r10m # 0
      <4>1. r10m > 0
        BY <1>2, <1>5, <3>2
      <4> QED
        BY <1>4, <3>2, <4>1
    <3> QED
      BY <3>1, <3>2
  <2>3. p10m = Older(old)
    BY <1>6
  <2> HIDE DEF old
  <2> QED
    BY <1>2, <1>5, <2>1, <2>2, <2>3, OlderAge DEF Ages
<1>13. /\ v10m \in Ages /\ (v10m # NaN => v10m < Div10m * Size10m + (r10m + 1))
       /\ v10m # NaN /\ r10m + 1 = Div10m => v10m < Div10m
  <2>1. Div10m \in Nat \ {0} /\ r10m \in 0..(Div10m - 1)
    BY <1>2, <1>5
  <2>2. Mean(b1m) # NaN => Mean(b1m) < Div10m * Size10m + (r10m + 1)
    <3>1. Div10m <= Div10m * Size10m
      BY <1>2
    <3> QED
      BY <1>2, <1>11, <2>1, <3>1 DEF Ages
  <2> QED
    BY <1>2, <1>6, <1>11, <1>12, <2>1, <2>2, SlotValue
<1>14. b10m \in [Slots(Size10m) -> Ages] /\ FitsWindow(b10m, q10m, t10m, Div10m, Size10m)
  <2>1. Div10m \in Nat \ {0}
    BY <1>2
  <2>2. /\ q10m = IF r10m + 1 = Div10m THEN (s10m + 1) % Size10m ELSE s10m
        /\ t10m = IF r10m + 1 = Div10m THEN 0 ELSE r10m + 1
    BY <1>5 DEF q10m, t10m
  <2>3. b10m = [AllOlder(avg.b10m) EXCEPT ![s10m] = v10m]
    BY DEF b10m
  <2> QED
    BY <1>2, <1>3, <1>4, <1>5, <1>13, <2>1, <2>2, <2>3, WindowStep
<1>15. /\ Mean(b10m) \in Ages /\ (Mean(b10m) # NaN => Mean(b10m) < Div1h * Size1h + (r1h + 1))
       /\ Mean(b10m) # NaN /\ r1h + 1 = Div1h => Mean(b10m) < Div1h
  <2>1. t10m \in Nat /\ t10m <= r1h + 1 /\ (r1h + 1 = Div1h => t10m = 0) /\ r1h \in Nat
    BY <1>2, <1>5 DEF t10m
  <2>2. ASSUME NEW i \in Slots(Size10m), b10m[i] # NaN PROVE b10m[i] < Div1h + t10m
    <3>1. b10m[i] < Div10m * SlotsAgo(q10m, i, Size10m) + t10m
      BY <1>14, <2>2 DEF FitsWindow
    <3>2. q10m \in 0..(Size10m - 1)
      BY <1>2, <1>5 DEF Slots, q10m
    <3>3. SlotsAgo(q10m, i, Size10m) \in 1..Size10m
      BY <1>2, <3>2 DEF SlotsAgo, Slots
    <3>4. Div10m * SlotsAgo(q10m, i, Size10m) <= Div10m * Size10m
      BY <1>2, <3>3
    <3>5. b10m[i] \in Nat /\ Div10m * SlotsAgo(q10m, i, Size10m) \in Nat
      BY <1>2, <1>14, <2>2, <3>3 DEF Ages
    <3> QED
      BY <1>2, <2>1, <3>1, <3>4, <3>5
  <2>3. Mean(b10m) \in Ages /\ (Mean(b10m) # NaN => Mean(b10m) < Div1h + t10m)
    <3> DEFINE b == Div1h + t10m
    <3>1. b \in Nat
      BY <1>2, <2>1
    <3>2. \A i \in Slots(Size10m) : b10m[i] # NaN => b10m[i] < b
      BY <2>2
    <3> HIDE DEF b
    <3>3. Mean(b10m) \in Ages /\ (Mean(b10m) # NaN => Mean(b10m) < b)
      BY <1>14, <3>1, <3>2, MeanBound
    <3> QED
      BY <3>3 DEF b
  <2>4. Div1h <= Div1h * Size1h
    BY <1>2
  <2> QED
    BY <1>2, <2>1, <2>3, <2>4 DEF Ages
<1>16. p1h \in Ages /\ (p1h # NaN => p1h < Div1h * Size1h + (r1h + 1))
  <2> DEFINE old == IF r1h = 0 THEN avg.b1h[s1h] ELSE avg.prev1h
  <2>1. old \in Ages
    BY <1>3, <1>5
  <2>2. old # NaN => old < Div1h * Size1h + r1h
    <3>1. CASE r1h = 0
      <4>1. SlotsAgo(s1h, s1h, Size1h) = Size1h
        BY <1>2, <1>5 DEF SlotsAgo, Slots
      <4>2. avg.b1h[s1h] # NaN => avg.b1h[s1h] < Div1h * SlotsAgo(s1h, s1h, Size1h) + r1h
        BY <1>4, <1>5 DEF FitsWindow
      <4> QED
        BY <3>1, <4>1, <4>2
    <3>2. CASE r1h # 0
      <4>1. r1h > 0
        BY <1>2, <1>5, <3>2
      <4> QED
        BY <1>4, <3>2, <4>1
    <3> QED
      BY <3>1, <3>2
  <2>3. p1h = Older(old)
    BY DEF p1h, r1h
  <2> HIDE DEF old
  <2> QED
    BY <1>2, <1>5, <2>1, <2>2, <2>3, OlderAge DEF Ages
<1>17. /\ v1h \in Ages /\ (v1h # NaN => v1h < Div1h * Size1h + (r1h + 1))
       /\ v1h # NaN /\ r1h + 1 = Div1h => v1h < Div1h
  <2>1. v1h = Blend(Mean(b10m), p1h, r1h, Div1h)
    BY DEF v1h, r1h
  <2> QED
    BY <1>2, <1>5, <1>15, <1>16, <2>1, SlotValue
<1>18. b1h \in [Slots(Size1h) -> Ages] /\ FitsWindow(b1h, q1h, t1h, Div1h, Size1h)
  <2>1. /\ q1h = IF r1h + 1 = Div1h THEN (s1h + 1) % Size1h ELSE s1h
        /\ t1h = IF r1h + 1 = Div1h THEN 0 ELSE r1h + 1
    BY <1>5 DEF q1h, t1h
  <2>2. b1h = [AllOlder(avg.b1h) EXCEPT ![s1h] = v1h]
    BY DEF b1h
  <2> QED
    BY <1>2, <1>3, <1>4, <1>5, <1>17, <2>1, <2>2, WindowStep
<1>19. AvgTypes'
  BY <1>1, <1>5, <1>10, <1>12, <1>14, <1>16, <1>18 DEF AvgTypes
<1>20. /\ t10m > 0 /\ p10m # NaN => p10m < Div10m * Size10m + t10m
       /\ t1h > 0 /\ p1h # NaN => p1h < Div1h * Size1h + t1h
  <2>1. t10m > 0 => t10m = r10m + 1
    BY <1>5 DEF t10m
  <2>2. t1h > 0 => t1h = r1h + 1
    BY <1>5 DEF t1h
  <2> QED
    BY <1>12, <1>16, <2>1, <2>2
<1>21. WindowInv'
  <2>1. FitsWindow(avg'.b1m, avg'.n % Size1m, 0, 1, Size1m)
    BY <1>1, <1>6, <1>10
  <2>2. /\ FitsWindow(avg'.b10m, (avg'.n \div Div10m) % Size10m, avg'.n % Div10m, Div10m, Size10m)
        /\ avg'.n % Div10m > 0 /\ avg'.prev10m # NaN
             => avg'.prev10m < Div10m * Size10m + (avg'.n % Div10m)
    BY <1>1, <1>14, <1>20 DEF q10m, t10m
  <2>3. /\ FitsWindow(avg'.b1h, (avg'.n \div Div1h) % Size1h, avg'.n % Div1h, Div1h, Size1h)
        /\ avg'.n % Div1h > 0 /\ avg'.prev1h # NaN
             => avg'.prev1h < Div1h * Size1h + (avg'.n % Div1h)
    BY <1>1, <1>18, <1>20 DEF q1h, t1h
  <2> QED
    BY <2>1, <2>2, <2>3 DEF WindowInv, FitsWindow
<1> QED
  BY <1>19, <1>21 DEF AveragesInv

LEMMA AveragesNext == AveragesInv /\ [Next]_vars => AveragesInv'
<1> SUFFICES ASSUME AveragesInv, [Next]_vars PROVE AveragesInv'
  OBVIOUS
<1>1. CASE avg' = Averaged(avg)
  BY <1>1, AveragesUpdate
<1>2. CASE UNCHANGED avg
  BY <1>2 DEF AveragesInv, AvgTypes, WindowInv, FitsWindow
<1>3. avg' = Averaged(avg) \/ UNCHANGED avg
  BY DEF Next, Accept, Reset, HashTick, Poll, Read, Restart, vars
<1> QED
  BY <1>1, <1>2, <1>3

LEMMA WindowsForget == AveragesInv => WindowForgets
<1> SUFFICES ASSUME AveragesInv PROVE WindowForgets
  OBVIOUS
<1> DEFINE n == avg.n
<1>1. /\ Size1m \in Nat \ {0} /\ Size10m \in Nat \ {0} /\ Size1h \in Nat \ {0}
      /\ Div10m \in Nat \ {0} /\ Div10m = Size1m /\ Div1h \in Nat \ {0} /\ NaN \notin Nat
  BY Sizes
<1>2. /\ n % Div10m \in 0..(Div10m - 1) /\ n % Div1h \in 0..(Div1h - 1) /\ n % Size1m \in Slots(Size1m)
      /\ (n \div Div10m) % Size10m \in Slots(Size10m)
      /\ (n \div Div1h) % Size1h \in Slots(Size1h)
  <2>1. n \in Slots(Size1h * Div1h)
    BY DEF AveragesInv, AvgTypes
  <2> HIDE DEF n
  <2> QED
    BY <1>1, <2>1, SlotsNext DEF Slots
<1>3. ASSUME NEW size \in Nat \ {0}, NEW div \in Nat \ {0}, NEW q \in Slots(size), NEW step \in 0..(div - 1),
             NEW buf \in [Slots(size) -> Ages], FitsWindow(buf, q, step, div, size)
      PROVE  Mean(buf) \in Ages /\ (Mean(buf) # NaN => Mean(buf) < div * size + step)
  <2> DEFINE b == div * size + step
  <2>1. b \in Nat
    OBVIOUS
  <2>2. ASSUME NEW i \in Slots(size), buf[i] # NaN PROVE buf[i] < b
    <3>1. buf[i] < div * SlotsAgo(q, i, size) + step
      BY <1>3, <2>2 DEF FitsWindow
    <3>2. SlotsAgo(q, i, size) \in 1..size
      BY DEF SlotsAgo, Slots
    <3>3. div * SlotsAgo(q, i, size) <= div * size
      BY <3>2
    <3>4. buf[i] \in Nat /\ div * SlotsAgo(q, i, size) \in Nat
      BY <2>2, <3>2 DEF Ages
    <3> QED
      BY <3>1, <3>3, <3>4
  <2> HIDE DEF b
  <2>3. Mean(buf) \in Ages /\ (Mean(buf) # NaN => Mean(buf) < b)
    BY <2>1, <2>2, MeanBound
  <2> QED
    BY <2>3 DEF b
<1>4. Mean(avg.b1m) # NaN => Mean(avg.b1m) < Size1m
  <2>1. Mean(avg.b1m) # NaN => Mean(avg.b1m) < 1 * Size1m + 0
    <3>1. /\ avg.b1m \in [Slots(Size1m) -> Ages] /\ FitsWindow(avg.b1m, n % Size1m, 0, 1, Size1m)
          /\ 0 \in 0..(1 - 1) /\ 1 \in Nat \ {0}
      BY DEF AveragesInv, AvgTypes, WindowInv
    <3> HIDE DEF n
    <3> QED
      BY <1>1, <1>2, <1>3, <3>1
  <2> QED
    BY <1>1, <2>1
<1>5. ASSUME NEW size \in Nat \ {0}, NEW div \in Nat \ {0}, NEW q \in Slots(size), NEW step \in 0..(div - 1),
             NEW buf \in [Slots(size) -> Ages], FitsWindow(buf, q, step, div, size)
      PROVE  Mean(buf) # NaN => Mean(buf) < div * (size + 1)
  <2>1. div * (size + 1) = div * size + div /\ div * size \in Nat
    OBVIOUS
  <2>2. Mean(buf) \in Ages /\ (Mean(buf) # NaN => Mean(buf) < div * size + step)
    BY <1>3, <1>5
  <2> QED
    BY <1>1, <2>1, <2>2 DEF Ages
<1>6. Mean(avg.b10m) # NaN => Mean(avg.b10m) < Div10m * (Size10m + 1)
  <2>1. /\ avg.b10m \in [Slots(Size10m) -> Ages]
        /\ FitsWindow(avg.b10m, (n \div Div10m) % Size10m, n % Div10m, Div10m, Size10m)
    BY DEF AveragesInv, AvgTypes, WindowInv
  <2> HIDE DEF n
  <2> QED
    BY <1>1, <1>2, <1>5, <2>1
<1>7. Mean(avg.b1h) # NaN => Mean(avg.b1h) < Div1h * (Size1h + 1)
  <2>1. /\ avg.b1h \in [Slots(Size1h) -> Ages]
        /\ FitsWindow(avg.b1h, (n \div Div1h) % Size1h, n % Div1h, Div1h, Size1h)
    BY DEF AveragesInv, AvgTypes, WindowInv
  <2> HIDE DEF n
  <2> QED
    BY <1>1, <1>2, <1>5, <2>1
<1> QED
  BY <1>4, <1>6, <1>7 DEF WindowForgets

\* No sample has a weight in a rolling average for longer than its window and the
\* slot that is being blended in, whatever the sizes of the buffers.
THEOREM AveragesForget == Spec => []WindowForgets
  BY AveragesInit, AveragesNext, WindowsForget, PTL DEF Spec

-----------------------------------------------------------------------------

LEMMA BoardNext == asic \in BOOLEAN /\ [Next]_vars => (asic \in BOOLEAN)'
  BY DEF Next, Accept, Reset, HashTick, Poll, Read, Restart, vars

\* The types of all variables, with the ranges of the counters, the sums and the ages.
THEOREM MeterTypeCorrect == Spec => []TypeOK
<1>1. Init => asic \in BOOLEAN
  BY DEF Init
<1>2. asic \in BOOLEAN /\ CreditedInv /\ ReadingInv /\ AveragesInv => TypeOK
  BY DEF CreditedInv, ReadingInv, AveragesInv, TypeOK
<1> QED
  BY CreditedInit, CreditedNext, ReadingInit, ReadingNext, AveragesInit, AveragesNext, BoardNext,
     <1>1, <1>2, PTL DEF Spec
==============================================================================
