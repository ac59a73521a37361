------------------------- MODULE MlfqClassifyProofs ------------------------
(***************************************************************************)
(* Proofs about MlfqClassify, for every value of its constants: the gauge  *)
(* and the eight-bit counters keep their ranges, and the counters never    *)
(* claim more than happened, from which earned demotions and promotions    *)
(* follow.                                                                 *)
(***************************************************************************)
EXTENDS MlfqClassify, FiniteSetTheorems, TLAPS

-----------------------------------------------------------------------------
(* The fixed-point arithmetic of MlfqMath.                                 *)

(* A power of two is positive: it counts the subsets of a finite set.      *)
LEMMA PowerPositive ==
  ASSUME NEW k \in Nat
  PROVE  2 ^ k \in Nat \ {0}
<1> DEFINE S == SUBSET (1..k)
<1>1. IsFiniteSet(1..k) /\ Cardinality(1..k) = k
  BY FS_Interval
<1>2. IsFiniteSet(S) /\ Cardinality(S) = 2 ^ k
  BY <1>1, FS_SUBSET
<1>3. S # {}
  OBVIOUS
<1>4. Cardinality(S) \in Nat /\ Cardinality(S) # 0
  BY <1>2, <1>3, FS_CardinalityType, FS_EmptySet
<1> QED
  BY <1>2, <1>4

(* A quotient by a positive number does not exceed the dividend.           *)
LEMMA QuotientBound ==
  ASSUME NEW a \in Nat, NEW b \in Nat \ {0}
  PROVE  a \div b \in 0..a
  BY SMT

(* A product by a factor of at most one does not exceed the multiplicand.  *)
LEMMA ScaleBound ==
  ASSUME NEW a \in Nat, NEW f \in 0..256
  PROVE  (a * f) \div 256 \in 0..a
<1>1. a * f \in Nat /\ a * f <= a * 256
  BY SMT
<1> QED
  BY <1>1, SMT

(* The residual of a part of a half-life is a factor of at most one.       *)
LEMMA FactorBound ==
  ASSUME NEW h \in Nat \ {0}, NEW sub \in 0..(h - 1)
  PROVE  DecayFactor(sub, h) \in 0..256
<1> DEFINE x == (sub * FpOne) \div h
           a == (x * 177) \div FpOne
<1>1. h \in Nat \ {0} /\ sub \in Nat /\ sub < h
  OBVIOUS
<1>2. x \in 0..255
  <2>1. sub * 256 \in Nat /\ sub * 256 < 256 * h
    BY <1>1, SMT
  <2> QED
    BY <1>1, <2>1, SMT DEF FpOne
<1> HIDE DEF x
<1>3. a \in 0..176
  BY <1>2, SMT DEF FpOne
<1> HIDE DEF a
<1>4. a * a \in 0..(176 * a)
  BY <1>3, SMT
<1>5. (256 - a) + (a * a) \div 512 \in 0..256
  BY <1>3, <1>4, SMT
<1>6. DecayFactor(sub, h) = (256 - a) + (a * a) \div 512
  BY SMT DEF DecayFactor, FpOne, a, x
<1> QED
  BY <1>5, <1>6

(* mlfq_ema_decay never raises the value.                                  *)
LEMMA DecayRange ==
  ASSUME NEW ema \in Nat, NEW sleep \in Nat, NEW h \in Nat \ {0}
  PROVE  Decay(ema, sleep, h) \in 0..ema
<1> DEFINE k == sleep \div h
           decayed == ema \div (2 ^ k)
           sub == sleep % h
<1>1. h \in Nat \ {0}
  OBVIOUS
<1>2. k \in Nat /\ sub \in 0..(h - 1)
  BY <1>1, SMT
<1>3. 2 ^ k \in Nat \ {0}
  BY <1>2, PowerPositive
<1>4. decayed \in 0..ema
  BY <1>3, QuotientBound
<1>5. (decayed * DecayFactor(sub, h)) \div 256 \in 0..decayed
  <2>1. DecayFactor(sub, h) \in 0..256
    BY <1>2, FactorBound
  <2>2. decayed \in Nat
    BY <1>4
  <2> HIDE DEF decayed
  <2> QED
    BY <2>1, <2>2, ScaleBound
<1>6. Decay(ema, sleep, h) \in {0, decayed, (decayed * DecayFactor(sub, h)) \div 256}
  BY DEF Decay, FpOne
<1> HIDE DEF decayed, sub
<1> QED
  BY <1>4, <1>5, <1>6, SMT

-----------------------------------------------------------------------------
(* Arithmetic.                                                             *)

(* mlfq_ema_decay never raises the gauge.                                  *)
LEMMA DecayBound ==
  ASSUME ClassifyAssumption, NEW ema \in Nat, NEW sleep \in Nat
  PROVE  EmaDecay(ema, sleep) \in 0..ema
  BY DecayRange DEF EmaDecay, ClassifyAssumption

(* mlfq_ema_climb never lowers the gauge and never leaves the budget.      *)
LEMMA ClimbBound ==
  ASSUME ClassifyAssumption, NEW ema \in 0..BudgetMax, NEW delta \in Nat
  PROVE  EmaClimb(ema, delta) \in ema..BudgetMax
<1> DEFINE gap == BudgetMax - ema
           d == Capped(delta, BudgetMax)
           step == (gap * d * Alpha) \div (BudgetMax * FpOne)
<1>1. BudgetMax \in Nat \ {0} /\ Alpha \in Nat /\ gap \in Nat /\ d \in Nat
  BY SMT DEF ClassifyAssumption, Capped
<1>2. gap * d * Alpha \in Nat /\ BudgetMax * FpOne \in Nat \ {0}
  <2> HIDE DEF gap, d
  <2>1. gap * d \in Nat
    BY <1>1, SMT
  <2>2. (gap * d) * Alpha \in Nat
    BY <1>1, <2>1, SMT
  <2> QED
    BY <1>1, <2>2, SMT DEF FpOne
<1>3. step \in Nat
  BY <1>2, QuotientBound
<1> HIDE DEF step
<1>4. EmaClimb(ema, delta) = ema + Capped(step, gap)
  BY DEF EmaClimb, step
<1>5. Capped(step, gap) \in 0..gap
  BY <1>1, <1>3, SMT DEF Capped
<1> QED
  BY <1>1, <1>4, <1>5, SMT

-----------------------------------------------------------------------------
(* What each rule does to a task context: it keeps the type, and the       *)
(* fields the invariants relate change only as stated.                     *)

(* A rule leaves what a demotion depends on and the captured sleep alone.  *)
Frame(t, u) ==
  /\ u.gpu = t.gpu /\ u.prev_burst = t.prev_burst /\ u.idle = t.idle
  /\ u.feat_sleep = t.feat_sleep

(* Time that passes changes only the saturating stamps, and a spent boost  *)
(* budget stays refilling.                                                 *)
LEMMA ElapseRule ==
  ASSUME ClassifyAssumption, NEW t \in TaskCtx, NEW d \in Nat
  PROVE  /\ Elapse(t, d) \in TaskCtx /\ Frame(t, Elapse(t, d))
         /\ Elapse(t, d).queue = t.queue
         /\ Elapse(t, d).reenq_cnt = t.reenq_cnt
         /\ Elapse(t, d).wake_cnt = t.wake_cnt
         /\ Elapse(t, d).ema = t.ema
         /\ t.boost > 0 => Elapse(t, d).boost > 0
<1> DEFINE boost == Capped(t.boost + d, RateLimit + 1)
           stay == IF t.stay = NoStay THEN NoStay ELSE Capped(t.stay + d, AgingPeriod)
<1>1. Elapse(t, d) = [t EXCEPT !.boost = boost, !.stay = stay]
  BY DEF Elapse
<1>2. boost \in 0..(RateLimit + 1) /\ (t.boost > 0 => boost > 0)
  BY SMT DEF ClassifyAssumption, TaskCtx, Capped
<1>3. stay \in NoStay..AgingPeriod
  BY SMT DEF ClassifyAssumption, TaskCtx, Capped, NoStay
<1> HIDE DEF boost, stay
<1> QED
  BY <1>1, <1>2, <1>3 DEF TaskCtx, Frame

(* The decay at the top of mlfq_wakeup_classify lowers the gauge within    *)
(* its range and clears the run-out count.                                 *)
LEMMA WakeDecayRule ==
  ASSUME ClassifyAssumption, NEW t \in TaskCtx, NEW sleep \in Nat
  PROVE  LET u == WakeDecay(t, sleep) IN
         /\ u \in TaskCtx /\ Frame(t, u) /\ u.queue = t.queue
         /\ u.reenq_cnt = 0 /\ u.wake_cnt = t.wake_cnt /\ u.boost = t.boost
<1>1. BudgetMax \in Nat /\ CntMod \in Nat /\ CntMod > 8
  BY DEF ClassifyAssumption, Exhaustions
<1>2. t.ema \in 0..BudgetMax
  BY DEF TaskCtx
<1>3. t.ema \in Nat
  BY <1>1, <1>2
<1>4. EmaDecay(t.ema, sleep) \in 0..t.ema
  BY <1>3, DecayBound
<1>5. EmaDecay(t.ema, sleep) \in 0..BudgetMax
  BY <1>1, <1>2, <1>4
<1>6. 0 \in 0..(CntMod - 1)
  BY <1>1
<1> QED
  BY <1>5, <1>6 DEF WakeDecay, TaskCtx, Frame

(* mlfq_tree_map_queue never lowers the class of a task, and leaves it     *)
(* alone without a prediction.                                             *)
LEMMA TreeRule ==
  ASSUME NEW t \in TaskCtx, NEW pred
  PROVE  LET u == TreeMapQueue(t, pred) IN
         /\ u \in TaskCtx /\ Frame(t, u) /\ u.queue <= t.queue
         /\ u.reenq_cnt = t.reenq_cnt /\ u.wake_cnt = t.wake_cnt
         /\ u.boost = t.boost
         /\ pred = 0 => u.queue = t.queue
  BY DEF TreeMapQueue, TaskCtx, Frame

(* The boost either does nothing or puts a normal task in Q1 and charges   *)
(* the rate limit.                                                         *)
LEMMA BoostRule ==
  ASSUME ClassifyAssumption, NEW t \in TaskCtx, NEW sleep \in Nat, NEW io \in BOOLEAN
  PROVE  LET u == IpcBoost(t, sleep, io) IN
         /\ u \in TaskCtx /\ Frame(t, u) /\ u.queue <= t.queue
         /\ u.reenq_cnt = t.reenq_cnt /\ u.wake_cnt = t.wake_cnt
         /\ \/ u = t
            \/ /\ u.queue = 1 /\ u.boost = 0 /\ ~t.idle
               /\ io \/ sleep <= ShortSleep
<1>1. t.queue \in 1..3 /\ 0 \in 0..(RateLimit + 1) /\ ShortSleep \in Nat
  BY DEF TaskCtx, ClassifyAssumption
<1>2. CASE ~t.idle /\ BoostPending(t, sleep, io)
  <2>1. IpcBoost(t, sleep, io) = [t EXCEPT !.queue = 1, !.boost = 0]
    BY <1>2 DEF IpcBoost
  <2>2. io \/ sleep <= ShortSleep
    BY <1>1, <1>2 DEF BoostPending
  <2>3. [t EXCEPT !.queue = 1, !.boost = 0] \in TaskCtx
    <3> DEFINE v == [t EXCEPT !.queue = 1]
    <3>1. v \in TaskCtx
      BY DEF TaskCtx
    <3>2. [v EXCEPT !.boost = 0] \in TaskCtx
      <4> HIDE DEF v
      <4> QED
        BY <1>1, <3>1 DEF TaskCtx
    <3>3. [v EXCEPT !.boost = 0] = [t EXCEPT !.queue = 1, !.boost = 0]
      OBVIOUS
    <3> QED
      BY <3>2, <3>3
  <2> QED
    BY <1>1, <1>2, <2>1, <2>2, <2>3 DEF TaskCtx, Frame
<1>3. CASE ~(~t.idle /\ BoostPending(t, sleep, io))
  BY <1>1, <1>3 DEF IpcBoost, Frame
<1> QED
  BY <1>2, <1>3

(* mlfq_promote_on_wakeup raises only at the second short sleep in a row   *)
(* and leaves the run-out count alone.                                     *)
LEMMA PromoteRule ==
  ASSUME ClassifyAssumption, NEW t \in TaskCtx, NEW sleep \in Nat
  PROVE  LET u == PromoteOnWakeup(t, sleep) IN
         /\ u \in TaskCtx /\ Frame(t, u) /\ u.queue <= t.queue
         /\ u.reenq_cnt = t.reenq_cnt /\ u.boost = t.boost
         /\ u.wake_cnt <= (IF sleep <= HystSleep THEN t.wake_cnt + 1 ELSE 0)
         /\ u.queue < t.queue => sleep <= HystSleep /\ t.wake_cnt + 1 >= 2
<1> DEFINE cnt == IF sleep <= HystSleep THEN (t.wake_cnt + 1) % CntMod ELSE 0
           rise == /\ cnt >= 2
                   /\ \/ t.queue = 2 /\ t.ema < bands.t_l \div 2
                      \/ t.queue = 3 /\ t.ema < bands.t_h \div 2
<1>1. CntMod \in Nat /\ CntMod > 8 /\ HystSleep \in Nat
  BY DEF ClassifyAssumption, Exhaustions
<1>2. t.wake_cnt \in 0..(CntMod - 1) /\ t.queue \in 1..3
  BY DEF TaskCtx
<1>3. /\ cnt \in 0..(CntMod - 1)
      /\ cnt <= (IF sleep <= HystSleep THEN t.wake_cnt + 1 ELSE 0)
  <2>1. (t.wake_cnt + 1) % CntMod \in 0..(t.wake_cnt + 1)
    BY <1>1, <1>2, SMT
  <2>2. (t.wake_cnt + 1) % CntMod \in 0..(CntMod - 1)
    BY <1>1, <1>2, SMT
  <2> QED
    BY <1>1, <1>2, <2>1, <2>2
<1>4. PromoteOnWakeup(t, sleep) =
        IF rise THEN [t EXCEPT !.queue = @ - 1, !.wake_cnt = 0]
                ELSE [t EXCEPT !.wake_cnt = cnt]
  BY DEF PromoteOnWakeup
<1>5. rise => cnt >= 2 /\ t.queue \in {2, 3}
  BY <1>2
<1> HIDE DEF cnt, rise
<1>6. CASE rise
  <2>1. t.queue - 1 \in 1..3 /\ 0 \in 0..(CntMod - 1)
    BY <1>1, <1>5, <1>6
  <2>2. PromoteOnWakeup(t, sleep) = [t EXCEPT !.queue = t.queue - 1, !.wake_cnt = 0]
    BY <1>4, <1>6
  <2>3. sleep <= HystSleep /\ t.wake_cnt + 1 >= 2
    BY <1>1, <1>2, <1>3, <1>5, <1>6
  <2>4. [t EXCEPT !.queue = t.queue - 1, !.wake_cnt = 0] \in TaskCtx
    BY <2>1 DEF TaskCtx
  <2>5. t.queue - 1 < t.queue /\ 0 <= t.wake_cnt + 1
    BY <1>1, <1>2
  <2>6. LET u == PromoteOnWakeup(t, sleep) IN
          /\ u \in TaskCtx /\ Frame(t, u) /\ u.reenq_cnt = t.reenq_cnt
          /\ u.boost = t.boost /\ u.queue = t.queue - 1 /\ u.wake_cnt = 0
    BY <2>2, <2>4 DEF TaskCtx, Frame
  <2> QED
    BY <1>1, <1>2, <2>3, <2>5, <2>6
<1>7. CASE ~rise
  BY <1>2, <1>3, <1>4, <1>7 DEF TaskCtx, Frame
<1> QED
  BY <1>6, <1>7

(* The remap after a sleep raises only when the sleep was long.            *)
LEMMA RemapRule ==
  ASSUME NEW t \in TaskCtx, NEW sleep, NEW pred
  PROVE  LET u == LongSleepRemap(t, sleep, pred) IN
         /\ u \in TaskCtx /\ Frame(t, u) /\ u.queue <= t.queue
         /\ u.reenq_cnt = t.reenq_cnt /\ u.wake_cnt = t.wake_cnt
         /\ u.boost = t.boost
         /\ u.queue < t.queue => sleep > LongSleep
<1>1. QueueFromEma(t.ema) \in 1..3
  BY DEF QueueFromEma
<1> QED
  BY <1>1 DEF LongSleepRemap, TaskCtx, Frame

(* The wakeup seed moves a task to Q3 only after a long burst, without GPU *)
(* work, I/O or a short sleep.                                             *)
LEMMA WakeSeedRule ==
  ASSUME NEW t \in TaskCtx, NEW sleep, NEW io
  PROVE  LET u == WakeSeed(t, sleep, io) IN
         /\ u \in TaskCtx /\ Frame(t, u) /\ u.queue \in {t.queue, 3}
         /\ u.reenq_cnt = t.reenq_cnt /\ u.wake_cnt = t.wake_cnt
         /\ u.boost = t.boost
         /\ \/ u = t
            \/ t.gpu = 0 /\ t.prev_burst > bands.t_h /\ ~io /\ sleep > ShortSleep
<1> DEFINE seeds == ~io /\ t.gpu = 0 /\ t.prev_burst > bands.t_h /\ sleep > ShortSleep
<1>1. [t EXCEPT !.queue = 3] \in TaskCtx
  BY DEF TaskCtx
<1>2. WakeSeed(t, sleep, io) = IF seeds THEN [t EXCEPT !.queue = 3] ELSE t
  BY DEF WakeSeed
<1>3. CASE seeds
  <2> HIDE DEF seeds
  <2>1. WakeSeed(t, sleep, io) = [t EXCEPT !.queue = 3]
    BY <1>2, <1>3
  <2>2. t.gpu = 0 /\ t.prev_burst > bands.t_h /\ ~io /\ sleep > ShortSleep
    BY <1>3 DEF seeds
  <2> QED
    BY <1>1, <2>1, <2>2 DEF TaskCtx, Frame
<1>4. CASE ~seeds
  <2>1. WakeSeed(t, sleep, io) = t
    BY <1>2, <1>4
  <2>2. Frame(t, t)
    BY DEF Frame
  <2> QED
    BY <2>1, <2>2
<1> QED
  BY <1>3, <1>4

(* mlfq_demote_on_reenq lowers only when eight run-outs have been counted, *)
(* and then clears the count.                                              *)
LEMMA DemoteRule ==
  ASSUME ClassifyAssumption, NEW t \in TaskCtx, NEW pred
  PROVE  LET u == DemoteOnReenq(t, pred) IN
         /\ u \in TaskCtx /\ Frame(t, u) /\ u.wake_cnt = t.wake_cnt
         /\ \/ u.queue = t.queue /\ u.reenq_cnt <= t.reenq_cnt + 1
            \/ u.queue > t.queue /\ u.reenq_cnt = 0 /\ t.reenq_cnt + 1 >= 8
<1> DEFINE cnt == (t.reenq_cnt + 1) % CntMod
           cpuBound == IF pred # 0 THEN pred >= bands.t_bnd ELSE t.ema > bands.t_h
           falls == t.queue \in {1, 2} /\ cpuBound /\ cnt >= Exhaustions
<1>1. CntMod \in Nat /\ CntMod > 8
  BY DEF ClassifyAssumption, Exhaustions
<1>2. t.reenq_cnt \in 0..(CntMod - 1) /\ t.queue \in 1..3
  BY DEF TaskCtx
<1>3. cnt \in 0..(CntMod - 1) /\ cnt <= t.reenq_cnt + 1
  BY <1>1, <1>2, SMT
<1>4. DemoteOnReenq(t, pred) =
        IF falls THEN [t EXCEPT !.queue = @ + 1, !.reenq_cnt = 0]
                 ELSE [t EXCEPT !.reenq_cnt = cnt]
  BY DEF DemoteOnReenq
<1>5. falls => t.queue \in {1, 2} /\ cnt >= 8
  BY DEF Exhaustions
<1> HIDE DEF cnt, falls
<1>6. CASE falls
  <2>1. t.queue + 1 \in 1..3 /\ 0 \in 0..(CntMod - 1)
    BY <1>1, <1>5, <1>6
  <2>2. DemoteOnReenq(t, pred) = [t EXCEPT !.queue = t.queue + 1, !.reenq_cnt = 0]
    BY <1>4, <1>6
  <2>3. t.reenq_cnt + 1 >= 8
    BY <1>1, <1>2, <1>3, <1>5, <1>6
  <2>4. [t EXCEPT !.queue = t.queue + 1, !.reenq_cnt = 0] \in TaskCtx
    BY <2>1 DEF TaskCtx
  <2>5. LET u == DemoteOnReenq(t, pred) IN
          /\ u \in TaskCtx /\ Frame(t, u) /\ u.wake_cnt = t.wake_cnt
          /\ u.queue = t.queue + 1 /\ u.reenq_cnt = 0
    BY <2>2, <2>4 DEF TaskCtx, Frame
  <2> QED
    BY <1>2, <2>3, <2>5
<1>7. CASE ~falls
  BY <1>2, <1>3, <1>4, <1>7 DEF TaskCtx, Frame
<1> QED
  BY <1>6, <1>7

(* The tail of an enqueue lowers a queue only for SCHED_IDLE, and keeps    *)
(* the counters or clears them.                                            *)
LEMMA SettleRule ==
  ASSUME ClassifyAssumption, NEW t \in TaskCtx, NEW old \in 1..3,
         NEW rearm \in BOOLEAN
  PROVE  LET u == Settle(t, old, rearm) IN
         /\ u \in TaskCtx /\ Frame(t, u) /\ u.wake_cnt = t.wake_cnt
         /\ u.boost = t.boost
         /\ ~t.idle => u.queue <= t.queue
         /\ u.reenq_cnt \in {0, t.reenq_cnt}
         /\ u.queue # old => u.reenq_cnt = 0
         /\ rearm /\ ~t.idle => u.queue = t.queue
         /\ t.idle => u.queue = 3
<1> DEFINE q == IF t.idle THEN 3 ELSE t.queue
           moved == q # old
           stay == IF moved \/ rearm THEN StayOf(q) ELSE t.stay
           aged == q >= 2 /\ ~t.idle /\ stay >= AgingPeriod
           cnt == IF moved \/ aged THEN 0 ELSE t.reenq_cnt
           u == Settle(t, old, rearm)
<1>1. /\ AgingPeriod \in Nat \ {0} /\ CntMod \in Nat /\ CntMod > 8
      /\ t.stay \in NoStay..AgingPeriod /\ t.queue \in 1..3
      /\ t.reenq_cnt \in 0..(CntMod - 1)
  BY DEF ClassifyAssumption, TaskCtx, Exhaustions
<1>2. q \in 1..3
  BY <1>1
<1>3. StayOf(q) \in {0, -1}
  BY DEF StayOf, NoStay
<1>4. stay \in NoStay..AgingPeriod
  BY <1>1, <1>3 DEF NoStay
<1>5. rearm => ~aged
  BY <1>1, <1>3
<1>6. cnt \in 0..(CntMod - 1) /\ cnt \in {0, t.reenq_cnt}
  BY <1>1
<1>7. u = [t EXCEPT !.queue = IF aged THEN 1 ELSE q, !.stay = stay, !.reenq_cnt = cnt]
  BY DEF Settle
<1>8. /\ aged => cnt = 0 /\ ~t.idle
      /\ moved => cnt = 0
  OBVIOUS
<1> HIDE DEF stay, aged, cnt, u
<1>9. /\ u \in TaskCtx /\ Frame(t, u) /\ u.wake_cnt = t.wake_cnt /\ u.boost = t.boost
      /\ u.queue = IF aged THEN 1 ELSE q
      /\ u.reenq_cnt = cnt
  <2> DEFINE to == IF aged THEN 1 ELSE q
  <2>1. to \in 1..3
    BY <1>2
  <2>2. u = [t EXCEPT !.queue = to, !.stay = stay, !.reenq_cnt = cnt]
    BY <1>7
  <2> HIDE DEF to
  <2>3. [t EXCEPT !.queue = to, !.stay = stay, !.reenq_cnt = cnt] \in TaskCtx
    BY <1>4, <1>6, <2>1 DEF TaskCtx
  <2>4. /\ u \in TaskCtx /\ Frame(t, u) /\ u.wake_cnt = t.wake_cnt
        /\ u.boost = t.boost /\ u.queue = to /\ u.reenq_cnt = cnt
    BY <2>2, <2>3 DEF TaskCtx, Frame
  <2> QED
    BY <2>4 DEF to
<1>10. /\ ~t.idle => u.queue <= t.queue
       /\ u.queue # old => u.reenq_cnt = 0
       /\ rearm /\ ~t.idle => u.queue = t.queue
       /\ t.idle => u.queue = 3
  BY <1>1, <1>2, <1>5, <1>8, <1>9
<1> QED
  BY <1>6, <1>9, <1>10 DEF u

-----------------------------------------------------------------------------
(* What the two classifications do.                                        *)

(* A wakeup clears the exhaustions, counts at most one more short sleep,   *)
(* lowers a queue only by the seed, and a spent boost ends in Q1.  With no *)
(* prediction and no boost a rise is by count or by a long sleep.          *)
LEMMA WakeupRule ==
  ASSUME ClassifyAssumption, bands \in Bands, NEW t \in TaskCtx,
         NEW sleep \in Nat, NEW io \in BOOLEAN, NEW pred
  PROVE  LET u == WakeupClassify(t, sleep, io, pred) IN
         /\ u \in TaskCtx /\ u.reenq_cnt = 0
         /\ u.gpu = t.gpu /\ u.prev_burst = t.prev_burst /\ u.idle = t.idle
         /\ u.wake_cnt <= (IF sleep <= HystSleep THEN t.wake_cnt + 1 ELSE 0)
         /\ \/ u.queue <= t.queue
            \/ t.gpu = 0 /\ t.prev_burst > bands.t_h
         /\ u.boost # t.boost => u.boost = 0 /\ u.queue = 1 /\ ~u.idle
         /\ ~t.idle => u.feat_sleep = sleep
         /\ pred = 0 /\ u.queue < t.queue /\ u.boost = t.boost
            => \/ sleep <= HystSleep /\ t.wake_cnt + 1 >= 2
               \/ sleep > LongSleep
               \/ u.boost = 0
<1> DEFINE p == WakePred(t, sleep, pred)
           a == WakeDecay(t, sleep)
           b == IF t.idle THEN a ELSE [a EXCEPT !.feat_sleep = sleep]
           b2 == TreeMapQueue(b, p)
           c == IpcBoost(b2, sleep, io)
           c2 == PromoteOnWakeup(c, sleep)
           d == LongSleepRemap(c2, sleep, p)
           e == WakeSeed(d, sleep, io)
<1>1. /\ a \in TaskCtx /\ Frame(t, a) /\ a.queue = t.queue
      /\ a.reenq_cnt = 0 /\ a.wake_cnt = t.wake_cnt /\ a.boost = t.boost
  BY WakeDecayRule
<1>2. pred = 0 => p = 0
  <2>1. bands.t_bnd \in Nat \ {0} /\ t.idle \in BOOLEAN
    BY DEF ClassifyAssumption, TaskCtx
  <2>2. pred = 0 => ~(pred >= bands.t_bnd)
    BY <2>1
  <2> QED
    BY <2>1, <2>2 DEF WakePred
<1>e. WakeupClassify(t, sleep, io, pred) = e
  BY DEF WakeupClassify
<1> HIDE DEF p, a
<1>3. /\ b \in TaskCtx /\ b.queue = t.queue /\ b.reenq_cnt = 0
      /\ b.wake_cnt = t.wake_cnt /\ b.boost = t.boost
      /\ b.gpu = t.gpu /\ b.prev_burst = t.prev_burst /\ b.idle = t.idle
      /\ ~t.idle => b.feat_sleep = sleep
  <2>1. CASE t.idle
    BY <1>1, <2>1 DEF Frame
  <2>2. CASE ~t.idle
    <3>1. b = [a EXCEPT !.feat_sleep = sleep]
      BY <2>2
    <3>2. [a EXCEPT !.feat_sleep = sleep] \in TaskCtx
      BY <1>1 DEF TaskCtx
    <3> QED
      BY <1>1, <3>1, <3>2 DEF Frame, TaskCtx
  <2> QED
    BY <2>1, <2>2
<1> HIDE DEF b
<1>4. /\ b2 \in TaskCtx /\ Frame(b, b2) /\ b2.queue <= b.queue
      /\ b2.reenq_cnt = b.reenq_cnt /\ b2.wake_cnt = b.wake_cnt
      /\ b2.boost = b.boost
      /\ p = 0 => b2.queue = b.queue
  BY <1>3, TreeRule
<1> HIDE DEF b2
<1>5. /\ c \in TaskCtx /\ Frame(b2, c) /\ c.queue <= b2.queue
      /\ c.reenq_cnt = b2.reenq_cnt /\ c.wake_cnt = b2.wake_cnt
      /\ \/ c = b2
         \/ /\ c.queue = 1 /\ c.boost = 0 /\ ~b2.idle
            /\ io \/ sleep <= ShortSleep
  <2>1. b2 \in TaskCtx /\ sleep \in Nat /\ io \in BOOLEAN
    BY <1>4
  <2>2. ClassifyAssumption
    OBVIOUS
  <2> QED
    BY ONLY <2>1, <2>2, BoostRule
<1> HIDE DEF c
<1>6. /\ c2 \in TaskCtx /\ Frame(c, c2) /\ c2.queue <= c.queue
      /\ c2.reenq_cnt = c.reenq_cnt /\ c2.boost = c.boost
      /\ c2.wake_cnt <= (IF sleep <= HystSleep THEN c.wake_cnt + 1 ELSE 0)
      /\ c2.queue < c.queue => sleep <= HystSleep /\ c.wake_cnt + 1 >= 2
  BY <1>5, PromoteRule
<1> HIDE DEF c2
<1>7. /\ d \in TaskCtx /\ Frame(c2, d) /\ d.queue <= c2.queue
      /\ d.reenq_cnt = c2.reenq_cnt /\ d.wake_cnt = c2.wake_cnt
      /\ d.boost = c2.boost
      /\ d.queue < c2.queue => sleep > LongSleep
  BY <1>6, RemapRule
<1> HIDE DEF d
<1>8. /\ e \in TaskCtx /\ Frame(d, e) /\ e.queue \in {d.queue, 3}
      /\ e.reenq_cnt = d.reenq_cnt /\ e.wake_cnt = d.wake_cnt
      /\ e.boost = d.boost
      /\ \/ e = d
         \/ d.gpu = 0 /\ d.prev_burst > bands.t_h /\ ~io /\ sleep > ShortSleep
  BY <1>7, WakeSeedRule
<1> HIDE DEF e
<1>9. /\ e.gpu = t.gpu /\ e.prev_burst = t.prev_burst /\ e.idle = t.idle
      /\ ~t.idle => e.feat_sleep = sleep
      /\ d.gpu = t.gpu /\ d.prev_burst = t.prev_burst /\ b2.idle = t.idle
  BY <1>3, <1>4, <1>5, <1>6, <1>7, <1>8 DEF Frame
<1>10. /\ e.reenq_cnt = 0
       /\ e.wake_cnt <= (IF sleep <= HystSleep THEN t.wake_cnt + 1 ELSE 0)
  BY <1>3, <1>4, <1>5, <1>6, <1>7, <1>8
<1>q. /\ t.queue \in 1..3 /\ b.queue \in 1..3 /\ b2.queue \in 1..3
      /\ c.queue \in 1..3 /\ c2.queue \in 1..3 /\ d.queue \in 1..3
      /\ e.queue \in 1..3
  BY <1>3, <1>4, <1>5, <1>6, <1>7, <1>8 DEF TaskCtx
<1>11. d.queue <= t.queue
  BY <1>3, <1>4, <1>5, <1>6, <1>7, <1>q
<1>12. \/ e.queue <= t.queue
       \/ t.gpu = 0 /\ t.prev_burst > bands.t_h
  BY <1>8, <1>9, <1>11
<1>13. ASSUME e.boost # t.boost
       PROVE  e.boost = 0 /\ e.queue = 1 /\ ~e.idle
  <2>1. c # b2
    BY <1>3, <1>4, <1>6, <1>7, <1>8, <1>13
  <2>2. c.queue = 1 /\ c.boost = 0 /\ ~t.idle /\ (io \/ sleep <= ShortSleep)
    BY <1>5, <1>9, <2>1
  <2>3. d.queue = 1
    BY <1>6, <1>7, <1>q, <2>2
  <2>4. e = d
    <3>1. ShortSleep \in Nat
      BY DEF ClassifyAssumption
    <3> QED
      BY <1>8, <2>2, <3>1
  <2> QED
    BY <1>6, <1>7, <1>9, <2>2, <2>3, <2>4
<1>14. ASSUME pred = 0, e.queue < t.queue, e.boost = t.boost
       PROVE  \/ sleep <= HystSleep /\ t.wake_cnt + 1 >= 2
              \/ sleep > LongSleep
              \/ e.boost = 0
  <2>1. CASE c = b2
    <3>1. c.queue = t.queue /\ c.wake_cnt = t.wake_cnt
      BY <1>2, <1>3, <1>4, <1>14, <2>1
    <3>2. d.queue < t.queue
      BY <1>8, <1>14, <1>q
    <3>3. c2.queue < c.queue \/ d.queue < c2.queue
      BY <1>q, <3>1, <3>2
    <3> QED
      BY <1>6, <1>7, <3>1, <3>3
  <2>2. CASE c # b2
    BY <1>5, <1>6, <1>7, <1>8, <2>2
  <2> QED
    BY <2>1, <2>2
<1> QED
  BY <1>e, <1>8, <1>9, <1>10, <1>12, <1>13, <1>14

(* A run-out counts at most one more exhaustion and lowers a queue only by *)
(* the seed or at the eighth.                                              *)
LEMMA RunoutRule ==
  ASSUME ClassifyAssumption, NEW t \in TaskCtx, NEW pred
  PROVE  LET u == RunoutClassify(t, pred) IN
         /\ u \in TaskCtx /\ u.wake_cnt = 0
         /\ u.reenq_cnt <= t.reenq_cnt + 1
         /\ u.idle = t.idle /\ u.prev_burst = t.prev_burst /\ u.boost = t.boost
         /\ u.queue >= t.queue
         /\ \/ u.queue = t.queue
            \/ t.gpu = 0 /\ t.prev_burst > bands.t_h
            \/ t.reenq_cnt + 1 >= 8
<1> DEFINE a == IF t.idle THEN t ELSE [t EXCEPT !.feat_sleep = 0]
           b == [a EXCEPT !.wake_cnt = 0]
           c == RunoutSeed(b)
           p == IF t.idle THEN 0 ELSE pred
           d == DemoteOnReenq(c, p)
<1>1. CntMod \in Nat /\ CntMod > 8
  BY DEF ClassifyAssumption, Exhaustions
<1>d. RunoutClassify(t, pred) = d
  BY DEF RunoutClassify
<1>2. /\ a \in TaskCtx /\ a.queue = t.queue /\ a.reenq_cnt = t.reenq_cnt
      /\ a.gpu = t.gpu /\ a.prev_burst = t.prev_burst /\ a.idle = t.idle
      /\ a.boost = t.boost
  <2>1. CASE t.idle
    BY <2>1
  <2>2. CASE ~t.idle
    BY <2>2 DEF TaskCtx
  <2> QED
    BY <2>1, <2>2
<1> HIDE DEF a
<1>3. /\ b \in TaskCtx /\ b.queue = t.queue /\ b.reenq_cnt = t.reenq_cnt
      /\ b.gpu = t.gpu /\ b.prev_burst = t.prev_burst /\ b.idle = t.idle
      /\ b.wake_cnt = 0 /\ b.boost = t.boost
  <2>1. 0 \in 0..(CntMod - 1)
    BY <1>1
  <2> QED
    BY <1>2, <2>1 DEF TaskCtx
<1> HIDE DEF b
<1>4. /\ c \in TaskCtx /\ c.reenq_cnt = t.reenq_cnt /\ c.wake_cnt = 0
      /\ c.idle = t.idle /\ c.prev_burst = t.prev_burst /\ c.boost = t.boost
      /\ c.queue \in {t.queue, 3}
      /\ c.queue # t.queue => t.gpu = 0 /\ t.prev_burst > bands.t_h
  <2>1. CASE b.gpu = 0 /\ b.prev_burst > bands.t_h
    <3>1. c = [b EXCEPT !.queue = 3]
      BY <2>1 DEF RunoutSeed
    <3>2. [b EXCEPT !.queue = 3] \in TaskCtx
      BY <1>3 DEF TaskCtx
    <3> QED
      BY <1>3, <2>1, <3>1, <3>2 DEF TaskCtx
  <2>2. CASE ~(b.gpu = 0 /\ b.prev_burst > bands.t_h)
    <3>1. c = b
      BY <2>2 DEF RunoutSeed
    <3> QED
      BY <1>3, <3>1
  <2> QED
    BY <2>1, <2>2
<1> HIDE DEF c, p
<1>5. /\ d \in TaskCtx /\ Frame(c, d) /\ d.wake_cnt = c.wake_cnt
      /\ \/ d.queue = c.queue /\ d.reenq_cnt <= c.reenq_cnt + 1
         \/ d.queue > c.queue /\ d.reenq_cnt = 0 /\ c.reenq_cnt + 1 >= 8
  BY <1>4, DemoteRule
<1>6. d.boost = c.boost
  BY DEF DemoteOnReenq
<1> HIDE DEF d
<1>7. t.queue \in 1..3 /\ c.queue \in 1..3 /\ d.queue \in 1..3 /\ t.reenq_cnt \in Nat
  BY <1>1, <1>4, <1>5 DEF TaskCtx
<1> QED
  BY <1>d, <1>4, <1>5, <1>6, <1>7 DEF Frame

-----------------------------------------------------------------------------
(* Type correctness and the earned counters.                               *)

(* The counters never claim more than happened.                            *)
CountersEarned ==
  /\ tc.reenq_cnt <= hist.outs \/ hist.outs = Exhaustions
  /\ tc.wake_cnt <= hist.shorts \/ hist.shorts = 2

IInv == TypeOK /\ CountersEarned

(* A fresh task meets the inductive invariant.                             *)
LEMMA InitIInv == ClassifyAssumption /\ Init => IInv
<1> SUFFICES ASSUME ClassifyAssumption, Init PROVE IInv
  OBVIOUS
<1>1. /\ BudgetMax \in Nat /\ CntMod \in Nat /\ CntMod > 8 /\ RateLimit \in Nat
      /\ AgingPeriod \in Nat /\ GpuMax \in Nat /\ Policies \subseteq BOOLEAN
  BY DEF ClassifyAssumption, Exhaustions
<1>2. PICK idle \in Policies : tc = FreshCtx(idle)
  BY DEF Init
<1>3. tc \in TaskCtx /\ tc.reenq_cnt = 0 /\ tc.wake_cnt = 0
  BY <1>1, <1>2 DEF FreshCtx, TaskCtx, NoStay
<1>4. hist \in Hist /\ hist.outs = 0 /\ hist.shorts = 0
  BY DEF Init, Hist, HogBound, Exhaustions
<1>5. TypeOK
  BY <1>3, <1>4 DEF Init, TypeOK
<1>6. CountersEarned
  BY <1>3, <1>4 DEF CountersEarned
<1> QED
  BY <1>5, <1>6 DEF IInv

(* Each callback preserves the invariant, and the steps that change a      *)
(* queue do so for a reason.                                               *)
LEMMA WakeupStep ==
  ASSUME ClassifyAssumption, IInv, NEW sleep \in Sleeps, NEW io \in BOOLEAN,
         NEW pred \in Predicted, Wakeup(sleep, io, pred)
  PROVE  /\ IInv'
         /\ tc'.queue > tc.queue /\ ~tc'.idle => tc.gpu = 0 /\ tc.prev_burst > bands.t_h
         /\ tc'.boost = 0 /\ tc.boost > 0 => tc'.queue = 1
         /\ /\ ~trained /\ tc'.queue < tc.queue
            /\ tc'.boost # 0 /\ tc'.feat_sleep <= LongSleep
            => hist'.shorts = 2
<1> DEFINE t == Elapse(tc, sleep)
           u == WakeupClassify(t, sleep, io, pred)
           v == Settle(u, tc.queue, TRUE)
<1>1. /\ sleep \in Nat /\ HystSleep \in Nat /\ LongSleep \in Nat
      /\ CntMod \in Nat /\ RateLimit \in Nat
  BY DEF ClassifyAssumption
<1>2. /\ tc \in TaskCtx /\ hist \in Hist /\ bands \in Bands /\ trained \in BOOLEAN
      /\ tc.queue \in 1..3 /\ tc.wake_cnt \in Nat /\ hist.shorts \in 0..2
      /\ bands.t_h \in Nat
  BY <1>1 DEF IInv, TypeOK, TaskCtx, Hist, ClassifyAssumption
<1>3. /\ t \in TaskCtx /\ Frame(tc, t) /\ t.queue = tc.queue
      /\ t.wake_cnt = tc.wake_cnt /\ (tc.boost > 0 => t.boost > 0)
  BY <1>1, <1>2, ElapseRule
<1>v. tc' = v /\ phase' = "queued" /\ UNCHANGED <<bands, trained>>
  BY DEF Wakeup
<1>h. hist' = [outs |-> 0, hogs |-> 0,
               shorts |-> IF sleep <= HystSleep THEN Capped(hist.shorts + 1, 2) ELSE 0]
  BY DEF Wakeup
<1> HIDE DEF t
<1>4. /\ u \in TaskCtx /\ u.reenq_cnt = 0
      /\ u.gpu = t.gpu /\ u.prev_burst = t.prev_burst /\ u.idle = t.idle
      /\ u.wake_cnt <= (IF sleep <= HystSleep THEN t.wake_cnt + 1 ELSE 0)
      /\ \/ u.queue <= t.queue
         \/ t.gpu = 0 /\ t.prev_burst > bands.t_h
      /\ u.boost # t.boost => u.boost = 0 /\ u.queue = 1 /\ ~u.idle
      /\ ~t.idle => u.feat_sleep = sleep
      /\ pred = 0 /\ u.queue < t.queue /\ u.boost = t.boost
         => \/ sleep <= HystSleep /\ t.wake_cnt + 1 >= 2
            \/ sleep > LongSleep
            \/ u.boost = 0
  BY <1>1, <1>2, <1>3, WakeupRule
<1> HIDE DEF u
<1>5. /\ v \in TaskCtx /\ Frame(u, v) /\ v.wake_cnt = u.wake_cnt /\ v.boost = u.boost
      /\ v.reenq_cnt \in {0, u.reenq_cnt}
      /\ ~u.idle => v.queue = u.queue
      /\ u.idle => v.queue = 3
  <2>1. u \in TaskCtx /\ tc.queue \in 1..3 /\ TRUE \in BOOLEAN
    BY <1>2, <1>4
  <2> QED
    BY <2>1, SettleRule
<1> HIDE DEF v
<1>q. u.queue \in 1..3 /\ u.wake_cnt \in Nat /\ u.idle \in BOOLEAN
  BY <1>1, <1>4 DEF TaskCtx
<1>6. hist' \in Hist /\ hist'.outs = 0
  BY <1>2, <1>h DEF Hist, Capped, HogBound, Exhaustions
<1>7. hist'.shorts = IF sleep <= HystSleep THEN Capped(hist.shorts + 1, 2) ELSE 0
  BY <1>h
<1>8. tc'.wake_cnt <= hist'.shorts \/ hist'.shorts = 2
  <2>1. tc.wake_cnt <= hist.shorts \/ hist.shorts = 2
    BY DEF IInv, CountersEarned
  <2> QED
    BY <1>1, <1>2, <1>3, <1>4, <1>5, <1>7, <1>q, <1>v, <2>1 DEF Capped
<1>9. IInv'
  <2>1. tc'.reenq_cnt = 0
    BY <1>4, <1>5, <1>v
  <2>2. TypeOK'
    BY <1>2, <1>5, <1>6, <1>v DEF TypeOK
  <2> QED
    BY <1>6, <1>8, <2>1, <2>2 DEF IInv, CountersEarned
<1>10. tc'.queue > tc.queue /\ ~tc'.idle => tc.gpu = 0 /\ tc.prev_burst > bands.t_h
  BY <1>2, <1>3, <1>4, <1>5, <1>q, <1>v DEF Frame
<1>11. tc'.boost = 0 /\ tc.boost > 0 => tc'.queue = 1
  BY <1>3, <1>4, <1>5, <1>v
<1>12. ASSUME ~trained, tc'.queue < tc.queue, tc'.boost # 0, tc'.feat_sleep <= LongSleep
       PROVE  hist'.shorts = 2
  <2>1. pred = 0
    BY <1>12 DEF Predicted
  <2>2. ~u.idle /\ u.queue < t.queue
    BY <1>2, <1>3, <1>5, <1>12, <1>v
  <2>3. u.boost = t.boost /\ u.boost # 0
    BY <1>4, <1>5, <1>12, <1>v
  <2>4. v.feat_sleep = sleep
    BY <1>4, <1>5, <2>2 DEF Frame
  <2>5. sleep <= HystSleep /\ t.wake_cnt + 1 >= 2
    BY <1>1, <1>4, <1>12, <1>v, <2>1, <2>2, <2>3, <2>4
  <2>6. tc.wake_cnt <= hist.shorts \/ hist.shorts = 2
    BY DEF IInv, CountersEarned
  <2> QED
    BY <1>2, <1>3, <1>7, <2>5, <2>6 DEF Capped
<1> QED
  BY <1>9, <1>10, <1>11, <1>12

(* A run-out keeps the invariant, and lowers a normal task only by the     *)
(* seed or at the eighth run-out in a row.                                 *)
LEMMA RunOutStep ==
  ASSUME ClassifyAssumption, IInv, NEW pred \in Predicted, RunOut(pred)
  PROVE  /\ IInv'
         /\ tc'.queue > tc.queue /\ ~tc'.idle
            => \/ tc.gpu = 0 /\ tc.prev_burst > bands.t_h
               \/ hist.outs >= Exhaustions - 1
<1> DEFINE u == RunoutClassify(tc, pred)
           v == Settle(u, tc.queue, TRUE)
           h == IF tc.ema = BudgetMax /\ (pred = 0 \/ pred >= bands.t_bnd)
                THEN Capped(hist.hogs + 1, HogBound) ELSE 0
<1>1. CntMod \in Nat
  BY DEF ClassifyAssumption
<1>2. /\ tc \in TaskCtx /\ hist \in Hist /\ bands \in Bands /\ trained \in BOOLEAN
      /\ tc.queue \in 1..3 /\ tc.reenq_cnt \in Nat /\ hist.outs \in 0..8
      /\ hist.hogs \in 0..17
  BY <1>1 DEF IInv, TypeOK, TaskCtx, Hist, HogBound, Exhaustions
<1>3. tc.reenq_cnt <= hist.outs \/ hist.outs = 8
  BY DEF IInv, CountersEarned, Exhaustions
<1>v. tc' = v /\ phase' = "queued" /\ UNCHANGED <<bands, trained>>
  BY DEF RunOut
<1>h. hist' = [outs |-> IF tc'.queue # tc.queue
                        THEN 0 ELSE Capped(hist.outs + 1, Exhaustions),
               shorts |-> 0, hogs |-> h]
  BY DEF RunOut
<1>p. h \in 0..17
  BY <1>2 DEF Capped, HogBound, Exhaustions
<1> HIDE DEF h
<1>4. /\ u \in TaskCtx /\ u.wake_cnt = 0
      /\ u.reenq_cnt <= tc.reenq_cnt + 1
      /\ u.idle = tc.idle
      /\ \/ u.queue = tc.queue
         \/ tc.gpu = 0 /\ tc.prev_burst > bands.t_h
         \/ tc.reenq_cnt + 1 >= 8
  BY <1>2, RunoutRule
<1> HIDE DEF u
<1>5. /\ v \in TaskCtx /\ Frame(u, v) /\ v.wake_cnt = u.wake_cnt
      /\ v.reenq_cnt \in {0, u.reenq_cnt}
      /\ v.queue # tc.queue => v.reenq_cnt = 0
      /\ ~u.idle => v.queue = u.queue
  <2>1. u \in TaskCtx /\ tc.queue \in 1..3 /\ TRUE \in BOOLEAN
    BY <1>2, <1>4
  <2>2. ClassifyAssumption
    OBVIOUS
  <2> QED
    BY ONLY <2>1, <2>2, SettleRule
<1> HIDE DEF v
<1>6. /\ hist'.shorts = 0
      /\ hist'.outs = IF v.queue # tc.queue THEN 0 ELSE Capped(hist.outs + 1, 8)
  BY <1>h, <1>v DEF Exhaustions
<1>7. hist' \in Hist
  <2>1. (IF v.queue # tc.queue THEN 0 ELSE Capped(hist.outs + 1, 8)) \in 0..8
    BY <1>2 DEF Capped
  <2> QED
    BY <1>h, <1>p, <1>v, <2>1 DEF Hist, HogBound, Exhaustions
<1>8. tc'.reenq_cnt <= hist'.outs \/ hist'.outs = 8
  <2>1. u.reenq_cnt \in Nat
    BY <1>1, <1>4 DEF TaskCtx
  <2> QED
    BY <1>2, <1>3, <1>4, <1>5, <1>6, <1>v, <2>1 DEF Capped
<1>9. TypeOK'
  BY <1>2, <1>5, <1>7, <1>v DEF TypeOK
<1>10. IInv'
  BY <1>4, <1>5, <1>6, <1>8, <1>9, <1>v DEF IInv, CountersEarned, Exhaustions
<1>11. ASSUME tc'.queue > tc.queue, ~tc'.idle
       PROVE  \/ tc.gpu = 0 /\ tc.prev_burst > bands.t_h
              \/ hist.outs >= Exhaustions - 1
  <2>1. u.queue # tc.queue
    BY <1>2, <1>5, <1>11, <1>v DEF Frame
  <2> QED
    BY <1>2, <1>3, <1>4, <2>1 DEF Exhaustions
<1> QED
  BY <1>10, <1>11

(* An enqueue that is neither keeps the invariant and lowers no normal     *)
(* task.                                                                   *)
LEMMA OtherStep ==
  ASSUME ClassifyAssumption, IInv, NEW idle \in Policies, OtherEnqueue(idle)
  PROVE  IInv' /\ (~tc'.idle => tc'.queue <= tc.queue)
<1> DEFINE t == [tc EXCEPT !.wake_cnt = 0, !.reenq_cnt = 0, !.idle = idle]
           v == Settle(t, tc.queue, FALSE)
<1>1. CntMod \in Nat /\ CntMod > 8 /\ idle \in BOOLEAN
  BY DEF ClassifyAssumption, Exhaustions
<1>2. /\ tc \in TaskCtx /\ hist \in Hist /\ bands \in Bands /\ trained \in BOOLEAN
      /\ tc.queue \in 1..3
  BY DEF IInv, TypeOK, TaskCtx
<1>v. tc' = v /\ phase' = "queued" /\ UNCHANGED <<bands, trained>>
  BY DEF OtherEnqueue
<1>h. hist' = [outs |-> 0, shorts |-> 0, hogs |-> 0]
  BY DEF OtherEnqueue
<1>3. /\ t \in TaskCtx /\ t.queue = tc.queue /\ t.reenq_cnt = 0 /\ t.wake_cnt = 0
  <2>1. 0 \in 0..(CntMod - 1)
    BY <1>1
  <2> QED
    BY <1>1, <1>2, <2>1 DEF TaskCtx
<1> HIDE DEF t
<1>4. /\ v \in TaskCtx /\ Frame(t, v) /\ v.wake_cnt = 0 /\ v.reenq_cnt = 0
      /\ ~t.idle => v.queue <= t.queue
  BY <1>2, <1>3, SettleRule
<1> HIDE DEF v
<1>5. hist' \in Hist /\ hist'.outs = 0 /\ hist'.shorts = 0
  BY <1>h DEF Hist, HogBound, Exhaustions
<1>6. TypeOK'
  BY <1>2, <1>4, <1>5, <1>v DEF TypeOK
<1>7. CountersEarned'
  BY <1>4, <1>5, <1>v DEF CountersEarned
<1> QED
  BY <1>3, <1>4, <1>6, <1>7, <1>v DEF IInv, Frame

(* A run segment keeps the invariant and leaves the queue and the run-out  *)
(* count alone.                                                            *)
LEMMA StoppingStep ==
  ASSUME ClassifyAssumption, IInv, NEW burst \in Bursts, NEW runnable \in BOOLEAN,
         Stopping(burst, runnable)
  PROVE  /\ IInv' /\ tc'.queue = tc.queue
         /\ tc'.reenq_cnt = tc.reenq_cnt /\ hist' = hist
<1>1. burst \in Nat /\ GpuMax \in Nat /\ LongSleep \in Nat /\ BudgetMax \in Nat
  BY DEF ClassifyAssumption
<1>2. /\ tc \in TaskCtx /\ hist \in Hist /\ bands \in Bands /\ trained \in BOOLEAN
  BY DEF IInv, TypeOK
<1> DEFINE t == Elapse(tc, burst)
<1>3. /\ t \in TaskCtx /\ t.queue = tc.queue
      /\ t.reenq_cnt = tc.reenq_cnt /\ t.wake_cnt = tc.wake_cnt
  BY <1>1, <1>2, ElapseRule
<1>4. PICK sleep \in CadenceSleeps :
        tc' = [t EXCEPT
                 !.ema = IF burst > 0 THEN EmaClimb(@, burst) ELSE @,
                 !.prev_burst = IF burst > 0 THEN burst ELSE @,
                 !.gpu = IF runnable THEN @ ELSE GpuAfterSleep(@, sleep)]
  BY DEF Stopping
<1> HIDE DEF t
<1> DEFINE ema == IF burst > 0 THEN EmaClimb(t.ema, burst) ELSE t.ema
           prev == IF burst > 0 THEN burst ELSE t.prev_burst
           gpu == IF runnable THEN t.gpu ELSE GpuAfterSleep(t.gpu, sleep)
<1>5. tc' = [t EXCEPT !.ema = ema, !.prev_burst = prev, !.gpu = gpu]
  BY <1>4
<1>6. ema \in 0..BudgetMax
  <2>1. t.ema \in 0..BudgetMax
    BY <1>3 DEF TaskCtx
  <2>2. EmaClimb(t.ema, burst) \in t.ema..BudgetMax
    BY <1>1, <2>1, ClimbBound
  <2> QED
    BY <1>1, <2>1, <2>2
<1>7. prev \in Nat
  BY <1>1, <1>3 DEF TaskCtx
<1>8. gpu \in 0..GpuMax
  <2>1. t.gpu \in 0..GpuMax
    BY <1>3 DEF TaskCtx
  <2> QED
    BY <1>1, <2>1 DEF GpuAfterSleep
<1> HIDE DEF ema, prev, gpu
<1>9. /\ tc' \in TaskCtx /\ tc'.queue = tc.queue
      /\ tc'.reenq_cnt = tc.reenq_cnt /\ tc'.wake_cnt = tc.wake_cnt
  <2>1. [t EXCEPT !.ema = ema, !.prev_burst = prev, !.gpu = gpu] \in TaskCtx
    BY <1>3, <1>6, <1>7, <1>8 DEF TaskCtx
  <2> QED
    BY <1>3, <1>5, <2>1 DEF TaskCtx
<1>10. hist' = hist
  BY DEF Stopping
<1>11. phase' \in {"stopped", "asleep"} /\ UNCHANGED <<bands, trained>>
  BY DEF Stopping
<1>12. TypeOK'
  BY <1>2, <1>9, <1>10, <1>11 DEF TypeOK
<1>13. CountersEarned'
  BY <1>9, <1>10 DEF IInv, CountersEarned
<1> QED
  BY <1>9, <1>10, <1>12, <1>13 DEF IInv

(* The steps that touch neither a queue nor a counter.                     *)
LEMMA QuietStep ==
  ASSUME ClassifyAssumption, IInv,
         \/ \E idle \in Policies : SetPolicy(idle)
         \/ Resume
         \/ \E wait \in Waits : Running(wait)
         \/ GpuSubmit
         \/ Publish
         \/ \E b \in Bands : Adapt(b)
         \/ UNCHANGED vars
  PROVE  /\ IInv' /\ tc'.queue = tc.queue
         /\ tc'.reenq_cnt = tc.reenq_cnt /\ hist' = hist
<1>1. /\ tc \in TaskCtx /\ hist \in Hist /\ bands \in Bands /\ trained \in BOOLEAN
      /\ phase \in {"new", "asleep", "queued", "running", "stopped"}
  BY DEF IInv, TypeOK
<1>2. /\ tc' \in TaskCtx /\ tc'.queue = tc.queue
      /\ tc'.reenq_cnt = tc.reenq_cnt /\ tc'.wake_cnt = tc.wake_cnt
  <2>1. CASE \E idle \in Policies : SetPolicy(idle)
    <3>1. PICK idle \in Policies : tc' = [tc EXCEPT !.idle = idle]
      BY <2>1 DEF SetPolicy
    <3>2. idle \in BOOLEAN
      BY DEF ClassifyAssumption
    <3> QED
      BY <1>1, <3>1, <3>2 DEF TaskCtx
  <2>2. CASE \E wait \in Waits : Running(wait)
    <3>1. PICK wait \in Waits : tc' = Elapse(tc, wait)
      BY <2>2 DEF Running
    <3>2. wait \in Nat
      BY DEF ClassifyAssumption
    <3> QED
      BY <1>1, <3>1, <3>2, ElapseRule
  <2>3. CASE GpuSubmit
    <3>1. tc' = [tc EXCEPT !.gpu = Capped(tc.gpu + 1, GpuMax)]
      BY <2>3 DEF GpuSubmit
    <3>2. Capped(tc.gpu + 1, GpuMax) \in 0..GpuMax
      BY <1>1 DEF TaskCtx, Capped, ClassifyAssumption
    <3> QED
      BY <1>1, <3>1, <3>2 DEF TaskCtx
  <2>4. CASE Resume \/ Publish \/ (\E b \in Bands : Adapt(b)) \/ UNCHANGED vars
    BY <1>1, <2>4 DEF Resume, Publish, Adapt, vars
  <2> QED
    BY <2>1, <2>2, <2>3, <2>4
<1>3. hist' = hist
  BY DEF SetPolicy, Resume, Running, GpuSubmit, Publish, Adapt, vars
<1>4. bands' \in Bands /\ trained' \in BOOLEAN
  BY <1>1 DEF SetPolicy, Resume, Running, GpuSubmit, Publish, Adapt, vars
<1>5. phase' \in {"new", "asleep", "queued", "running", "stopped"}
  BY <1>1 DEF SetPolicy, Resume, Running, GpuSubmit, Publish, Adapt, vars
<1>6. TypeOK'
  BY <1>1, <1>2, <1>3, <1>4, <1>5 DEF TypeOK
<1>7. CountersEarned'
  BY <1>2, <1>3 DEF IInv, CountersEarned
<1> QED
  BY <1>2, <1>3, <1>6, <1>7 DEF IInv

(* Every step keeps the inductive invariant.                               *)
LEMMA NextIInv == ClassifyAssumption /\ IInv /\ [Next]_vars => IInv'
<1> SUFFICES ASSUME ClassifyAssumption, IInv, [Next]_vars PROVE IInv'
  OBVIOUS
<1>0. Sleeps \subseteq Nat
  BY DEF ClassifyAssumption
<1>1. CASE \E sleep \in Sleeps, io \in BOOLEAN, pred \in Predicted : Wakeup(sleep, io, pred)
  BY <1>1, WakeupStep
<1>2. CASE \E pred \in Predicted : RunOut(pred)
  BY <1>2, RunOutStep
<1>3. CASE \E idle \in Policies : OtherEnqueue(idle)
  BY <1>3, OtherStep
<1>4. CASE \E burst \in Bursts, runnable \in BOOLEAN : Stopping(burst, runnable)
  BY <1>4, StoppingStep
<1>5. CASE \/ \E idle \in Policies : SetPolicy(idle)
           \/ Resume
           \/ \E wait \in Waits : Running(wait)
           \/ GpuSubmit
           \/ Publish
           \/ \E b \in Bands : Adapt(b)
           \/ UNCHANGED vars
  BY <1>5, QuietStep
<1> QED
  BY <1>1, <1>2, <1>3, <1>4, <1>5 DEF Next

(* The inductive invariant holds in every reachable state.                 *)
LEMMA SpecIInv == Spec => []IInv
<1>1. ClassifyAssumption
  BY ClassifyAssumption
<1> QED
  BY <1>1, InitIInv, NextIInv, PTL DEF Spec

(* The classification of a task keeps its types: the gauge stays within    *)
(* the budget whatever the run segments and sleeps, a queue is 1 to 3, and *)
(* the hysteresis counters stay in their width.                            *)
THEOREM TypeCorrect == Spec => []TypeOK
<1>1. IInv => TypeOK
  BY DEF IInv
<1> QED
  BY <1>1, SpecIInv, PTL

(* A demotion other than the pin and the seed follows eight run-outs in a  *)
(* row (mlfq_demote_on_reenq), for any prediction, band and counter width. *)
THEOREM DemotionsEarned == Spec => DemotionEarned
<1> DEFINE A == /\ tc'.queue > tc.queue /\ ~tc'.idle
                /\ tc.gpu > 0 \/ tc.prev_burst <= bands.t_h
                => phase = "stopped" /\ hist.outs >= Exhaustions - 1
<1>1. ClassifyAssumption
  BY ClassifyAssumption
<1>2. ASSUME IInv, [Next]_vars PROVE [A]_vars
  <2>0. /\ tc.queue \in 1..3 /\ tc.gpu \in Nat /\ tc.prev_burst \in Nat
        /\ bands.t_h \in Nat /\ tc'.queue \in 1..3
    <3>1. IInv'
      BY <1>1, <1>2, NextIInv
    <3> QED
      BY <1>1, <1>2, <3>1 DEF IInv, TypeOK, TaskCtx, ClassifyAssumption
  <2>s. ~(tc.gpu = 0 /\ tc.prev_burst > bands.t_h)
          <=> (tc.gpu > 0 \/ tc.prev_burst <= bands.t_h)
    BY <2>0
  <2>1. CASE \E sleep \in Sleeps, io \in BOOLEAN, pred \in Predicted : Wakeup(sleep, io, pred)
    BY <1>1, <1>2, <2>1, <2>s, WakeupStep
  <2>2. CASE \E pred \in Predicted : RunOut(pred)
    <3>1. PICK pred \in Predicted : RunOut(pred)
      BY <2>2
    <3>2. phase = "stopped"
      BY <3>1 DEF RunOut
    <3> QED
      BY <1>1, <1>2, <2>s, <3>1, <3>2, RunOutStep
  <2>3. CASE \E idle \in Policies : OtherEnqueue(idle)
    <3>1. ~tc'.idle => tc'.queue <= tc.queue
      BY <1>1, <1>2, <2>3, OtherStep
    <3> QED
      BY <2>0, <3>1
  <2>4. CASE \E burst \in Bursts, runnable \in BOOLEAN : Stopping(burst, runnable)
    <3>1. tc'.queue = tc.queue
      BY <1>1, <1>2, <2>4, StoppingStep
    <3> QED
      BY <2>0, <3>1
  <2>5. CASE \/ \E idle \in Policies : SetPolicy(idle)
             \/ Resume
             \/ \E wait \in Waits : Running(wait)
             \/ GpuSubmit
             \/ Publish
             \/ \E b \in Bands : Adapt(b)
             \/ UNCHANGED vars
    <3>1. tc'.queue = tc.queue
      BY <1>1, <1>2, <2>5, QuietStep
    <3> QED
      BY <2>0, <3>1
  <2> QED
    BY <1>2, <2>1, <2>2, <2>3, <2>4, <2>5 DEF Next
<1> QED
  BY <1>2, SpecIInv, PTL DEF Spec, DemotionEarned

(* Between two wakeups only ops.enqueue of a wakeup moves a sleeping task  *)
(* to a queue.                                                             *)
LEMMA WakeupOnly ==
  ASSUME Next, phase = "asleep", phase' = "queued"
  PROVE  \E sleep \in Sleeps, io \in BOOLEAN, pred \in Predicted : Wakeup(sleep, io, pred)
  BY DEF Next, RunOut, OtherEnqueue, SetPolicy, Resume, Running, Stopping,
         GpuSubmit, Publish, Adapt

(* With no tree, no boost and no long sleep a wakeup raises a task only    *)
(* after two short sleeps in a row (mlfq_promote_on_wakeup).               *)
THEOREM PromotionsEarned == Spec => PromotionEarned
<1>1. ClassifyAssumption
  BY ClassifyAssumption
<1>2. ASSUME IInv, [Next]_vars
      PROVE  [/\ phase = "asleep" /\ phase' = "queued" /\ ~trained
              /\ tc'.queue < tc.queue
              /\ tc'.boost # 0 /\ tc'.feat_sleep <= LongSleep
              => hist'.shorts = 2]_vars
  BY <1>1, <1>2, WakeupOnly, WakeupStep
<1> QED
  BY <1>2, SpecIInv, PTL DEF Spec, PromotionEarned

(* Both: no step of the classification moves a task that has not earned it. *)
THEOREM TransitionsAreEarned == Spec => TransitionsEarned
  BY DemotionsEarned, PromotionsEarned DEF TransitionsEarned

(* A wakeup that spends the boost budget ends in Q1 (mlfq_wakeup_classify: *)
(* neither the tree, the hysteresis, the seed nor the aging undoes it).    *)
THEOREM BoostsHonoured == Spec => BoostHonoured
<1>1. ClassifyAssumption
  BY ClassifyAssumption
<1>2. ASSUME IInv, [Next]_vars
      PROVE  [/\ phase = "asleep" /\ phase' = "queued"
              /\ tc'.boost = 0 /\ tc.boost > 0
              => tc'.queue = 1]_vars
  BY <1>1, <1>2, WakeupOnly, WakeupStep
<1> QED
  BY <1>2, SpecIInv, PTL DEF Spec, BoostHonoured

-----------------------------------------------------------------------------
(* A task that only computes sinks to Q3.                                  *)

(* The run-outs a CPU-bound task needs to leave a queue, from a count that *)
(* may be about to wrap.                                                   *)
Need(cnt) ==
  IF cnt = CntMod - 1 THEN Exhaustions + 1
  ELSE IF cnt >= Exhaustions - 1 THEN 1 ELSE Exhaustions - cnt

(* The run-outs so far and those still needed stay within the bound.       *)
HogProgress ==
  /\ tc.queue = 1 => hist.hogs + Need(tc.reenq_cnt) + Exhaustions <= HogBound
  /\ tc.queue = 2 => hist.hogs + Need(tc.reenq_cnt) <= HogBound

(* At most nine run-outs are missing to the threshold, whatever the        *)
(* wrapped count.                                                          *)
LEMMA NeedBound ==
  ASSUME ClassifyAssumption, NEW cnt \in 0..(CntMod - 1)
  PROVE  Need(cnt) \in 1..9
<1>1. CntMod \in Nat /\ CntMod > 8
  BY DEF ClassifyAssumption, Exhaustions
<1> QED
  BY <1>1 DEF Need, Exhaustions

(* The count is nearer its threshold after a step, or has reached it.      *)
LEMMA NeedStep ==
  ASSUME ClassifyAssumption, NEW cnt \in 0..(CntMod - 1)
  PROVE  /\ (cnt + 1) % CntMod \in 0..(CntMod - 1)
         /\ (cnt + 1) % CntMod < 8 => Need((cnt + 1) % CntMod) = Need(cnt) - 1
<1>1. CntMod \in Nat /\ CntMod > 8
  BY DEF ClassifyAssumption, Exhaustions
<1>2. CASE cnt = CntMod - 1
  <2>1. (cnt + 1) % CntMod = 0
    BY <1>1, <1>2
  <2> QED
    BY <1>1, <1>2, <2>1 DEF Need, Exhaustions
<1>3. CASE cnt < CntMod - 1
  <2>1. (cnt + 1) % CntMod = cnt + 1
    BY <1>1, <1>3
  <2> QED
    BY <1>1, <1>3, <2>1 DEF Need, Exhaustions
<1> QED
  BY <1>1, <1>2, <1>3

(* A run-out of such a task: the seed, the demotion, or one more counted.  *)
LEMMA HogRunout ==
  ASSUME ClassifyAssumption, NEW t \in TaskCtx, NEW pred \in Nat,
         bands \in Bands, ~t.idle, t.ema = BudgetMax,
         pred = 0 \/ pred >= bands.t_bnd
  PROVE  LET u   == RunoutClassify(t, pred)
             cnt == (t.reenq_cnt + 1) % CntMod
         IN  \/ u.queue = 3
             \/ t.queue = 1 /\ cnt >= 8 /\ u.queue = 2
             \/ cnt < 8 /\ u.queue = t.queue /\ u.reenq_cnt = cnt
<1> DEFINE b == [[t EXCEPT !.feat_sleep = 0] EXCEPT !.wake_cnt = 0]
           c == RunoutSeed(b)
           d == DemoteOnReenq(c, pred)
           cnt == (t.reenq_cnt + 1) % CntMod
<1>1. /\ CntMod \in Nat /\ CntMod > 8 /\ BudgetMax \in Nat
      /\ bands.t_bnd \in Nat \ {0} /\ bands.t_h < BudgetMax
  BY DEF ClassifyAssumption, Exhaustions
<1>2. RunoutClassify(t, pred) = d
  BY DEF RunoutClassify
<1>3. /\ b \in TaskCtx /\ b.queue = t.queue /\ b.reenq_cnt = t.reenq_cnt
      /\ b.ema = t.ema
  <2>1. 0 \in 0..(CntMod - 1)
    BY <1>1
  <2> QED
    BY <2>1 DEF TaskCtx
<1> HIDE DEF b
<1>4. /\ c.reenq_cnt = t.reenq_cnt /\ c.ema = t.ema
      /\ c \in TaskCtx /\ c.queue \in {t.queue, 3}
  <2>1. c \in {b, [b EXCEPT !.queue = 3]}
    BY DEF RunoutSeed
  <2> HIDE DEF c
  <2> QED
    BY <1>3, <2>1 DEF TaskCtx
<1> HIDE DEF c
<1>5. t.queue \in 1..3 /\ c.queue \in 1..3
  BY <1>4 DEF TaskCtx
<1>6. IF pred # 0 THEN pred >= bands.t_bnd ELSE c.ema > bands.t_h
  BY <1>1, <1>4
<1>7. d = IF c.queue \in {1, 2} /\ cnt >= 8
          THEN [c EXCEPT !.queue = c.queue + 1, !.reenq_cnt = 0]
          ELSE [c EXCEPT !.reenq_cnt = cnt]
  BY <1>4, <1>6 DEF DemoteOnReenq, Exhaustions
<1>8. cnt \in 0..(CntMod - 1)
  BY <1>1, NeedStep DEF TaskCtx
<1> HIDE DEF d, cnt
<1>9. CASE c.queue \in {1, 2} /\ cnt >= 8
  <2>1. d.queue = c.queue + 1
    BY <1>4, <1>7, <1>9 DEF TaskCtx
  <2> QED
    BY <1>2, <1>4, <1>5, <1>9, <2>1 DEF cnt
<1>10. CASE ~(c.queue \in {1, 2} /\ cnt >= 8)
  <2>1. d.queue = c.queue /\ d.reenq_cnt = cnt
    BY <1>4, <1>7, <1>10 DEF TaskCtx
  <2> QED
    BY <1>1, <1>2, <1>4, <1>5, <1>8, <1>10, <2>1 DEF cnt
<1> QED
  BY <1>9, <1>10

(* The run-out step: the bound is kept, as is the type part by RunOutStep. *)
LEMMA HogRunOutStep ==
  ASSUME ClassifyAssumption, IInv, HogProgress,
         NEW pred \in Predicted, RunOut(pred)
  PROVE  HogProgress'
<1> DEFINE u == RunoutClassify(tc, pred)
           v == Settle(u, tc.queue, TRUE)
           cnt == (tc.reenq_cnt + 1) % CntMod
<1>1. /\ CntMod \in Nat /\ CntMod > 8 /\ pred \in Nat
  BY DEF ClassifyAssumption, Exhaustions, Predicted
<1>2. /\ tc \in TaskCtx /\ bands \in Bands /\ tc.queue \in 1..3
      /\ tc.reenq_cnt \in 0..(CntMod - 1) /\ hist.hogs \in 0..17
  BY DEF IInv, TypeOK, TaskCtx, Hist, HogBound, Exhaustions
<1>3. tc' = v /\ hist'.hogs = IF tc.ema = BudgetMax /\ (pred = 0 \/ pred >= bands.t_bnd)
                              THEN Capped(hist.hogs + 1, HogBound) ELSE 0
  BY DEF RunOut
<1>4. u \in TaskCtx /\ u.idle = tc.idle /\ u.queue \in 1..3
  <2>1. u \in TaskCtx /\ u.idle = tc.idle
    BY <1>2, RunoutRule
  <2> QED
    BY <2>1 DEF TaskCtx
<1>5. /\ tc.idle => v.queue = 3
      /\ ~tc.idle => /\ v.queue = u.queue
                     /\ v.reenq_cnt = IF u.queue # tc.queue THEN 0 ELSE u.reenq_cnt
  <2>1. TRUE \in BOOLEAN
    OBVIOUS
  <2>2. /\ tc.idle => v.queue = 3
        /\ ~tc.idle => v.queue = u.queue
    BY <1>2, <1>4, <2>1, SettleRule
  <2>3. ~tc.idle => v.reenq_cnt = IF u.queue # tc.queue THEN 0 ELSE u.reenq_cnt
    <3> HIDE DEF u
    <3>1. AgingPeriod \in Nat \ {0}
      BY DEF ClassifyAssumption
    <3>2. ~(StayOf(u.queue) >= AgingPeriod)
      BY <3>1 DEF StayOf, NoStay
    <3>3. ASSUME ~tc.idle
          PROVE  Settle(u, tc.queue, TRUE) =
            [u EXCEPT !.queue = u.queue, !.stay = StayOf(u.queue),
                      !.reenq_cnt = IF u.queue # tc.queue THEN 0 ELSE u.reenq_cnt]
      <4>1. ~u.idle
        BY <1>4, <3>3
      <4> QED
        BY <3>2, <4>1, Zenon DEF Settle
    <3>4. u.reenq_cnt \in 0..(CntMod - 1) /\ 0 \in 0..(CntMod - 1)
      BY <1>1, <1>4 DEF TaskCtx
    <3> QED
      BY <1>4, <3>3, <3>4 DEF TaskCtx
  <2> QED
    BY <2>2, <2>3
<1>6. v \in TaskCtx /\ v.queue \in 1..3 /\ v.reenq_cnt \in 0..(CntMod - 1)
  <2>1. TRUE \in BOOLEAN
    OBVIOUS
  <2>2. v \in TaskCtx
    BY <1>2, <1>4, <2>1, SettleRule
  <2> QED
    BY <2>2 DEF TaskCtx
<1> HIDE DEF u, v, cnt
<1>7. CASE tc.idle
  BY <1>3, <1>5, <1>7 DEF HogProgress
<1>8. CASE hist'.hogs = 0
  <2>1. Need(v.reenq_cnt) \in 1..9
    BY <1>6, NeedBound
  <2> QED
    BY <1>3, <1>8, <2>1 DEF HogProgress, HogBound, Exhaustions
<1>9. CASE ~tc.idle /\ tc.ema = BudgetMax /\ (pred = 0 \/ pred >= bands.t_bnd)
  <2>1. \/ u.queue = 3
        \/ tc.queue = 1 /\ cnt >= 8 /\ u.queue = 2
        \/ cnt < 8 /\ u.queue = tc.queue /\ u.reenq_cnt = cnt
    BY <1>1, <1>2, <1>9, HogRunout DEF u, cnt
  <2>2. hist'.hogs <= hist.hogs + 1 /\ hist'.hogs \in 0..17
    BY <1>2, <1>3, <1>9 DEF Capped, HogBound, Exhaustions
  <2>3. cnt < 8 => Need(cnt) = Need(tc.reenq_cnt) - 1
    BY <1>2, NeedStep DEF cnt
  <2>4. Need(tc.reenq_cnt) \in 1..9
    BY <1>2, NeedBound
  <2>5. Need(0) = 8
    BY <1>1 DEF Need, Exhaustions
  <2>6. CASE u.queue = 3
    BY <1>3, <1>5, <1>9, <2>6 DEF HogProgress
  <2>7. CASE tc.queue = 1 /\ u.queue = 2
    <3>1. tc'.queue = 2 /\ tc'.reenq_cnt = 0
      BY <1>3, <1>5, <1>9, <2>7
    <3>2. hist.hogs + 1 + 8 <= 17
      BY <1>2, <2>4, <2>7 DEF HogProgress, HogBound, Exhaustions
    <3> QED
      BY <1>2, <2>2, <2>5, <3>1, <3>2 DEF HogProgress, HogBound, Exhaustions
  <2>8. CASE cnt < 8 /\ u.queue = tc.queue /\ u.reenq_cnt = cnt
    <3>1. tc'.queue = tc.queue /\ tc'.reenq_cnt = cnt
      BY <1>3, <1>5, <1>9, <2>8
    <3>2. Need(tc'.reenq_cnt) = Need(tc.reenq_cnt) - 1
      BY <2>3, <2>8, <3>1
    <3> QED
      BY <1>2, <2>2, <2>4, <3>1, <3>2 DEF HogProgress, HogBound, Exhaustions
  <2> QED
    BY <2>1, <2>6, <2>7, <2>8
<1> QED
  BY <1>3, <1>7, <1>8, <1>9

(* Every step keeps the progress measure of a CPU hog.                     *)
LEMMA NextHogProgress ==
  ClassifyAssumption /\ IInv /\ HogProgress /\ [Next]_vars => HogProgress'
<1> SUFFICES ASSUME ClassifyAssumption, IInv, HogProgress, [Next]_vars
             PROVE  HogProgress'
  OBVIOUS
<1>1. CASE \E pred \in Predicted : RunOut(pred)
  BY <1>1, HogRunOutStep
<1>2. CASE \/ \E sleep \in Sleeps, io \in BOOLEAN, pred \in Predicted :
                Wakeup(sleep, io, pred)
           \/ \E idle \in Policies : OtherEnqueue(idle)
  <2>1. hist'.hogs = 0
    <3>1. ASSUME NEW sleep \in Sleeps, NEW io \in BOOLEAN, NEW pred \in Predicted,
                 Wakeup(sleep, io, pred)
          PROVE  hist'.hogs = 0
      BY <3>1 DEF Wakeup
    <3>2. ASSUME NEW idle \in Policies, OtherEnqueue(idle) PROVE hist'.hogs = 0
      BY <3>2 DEF OtherEnqueue
    <3> QED
      BY <1>2, <3>1, <3>2
  <2>2. IInv'
    BY NextIInv
  <2>3. Need(tc'.reenq_cnt) \in 1..9
    <3>1. tc'.reenq_cnt \in 0..(CntMod - 1)
      BY <2>2 DEF IInv, TypeOK, TaskCtx
    <3> QED
      BY <3>1, NeedBound
  <2> QED
    BY <2>1, <2>3 DEF HogProgress, HogBound, Exhaustions
<1>3. CASE \E burst \in Bursts, runnable \in BOOLEAN : Stopping(burst, runnable)
  <2>1. tc'.queue = tc.queue /\ tc'.reenq_cnt = tc.reenq_cnt /\ hist' = hist
    BY <1>3, StoppingStep
  <2> QED
    BY <2>1 DEF HogProgress, Need
<1>4. CASE \/ \E idle \in Policies : SetPolicy(idle)
           \/ Resume
           \/ \E wait \in Waits : Running(wait)
           \/ GpuSubmit
           \/ Publish
           \/ \E b \in Bands : Adapt(b)
           \/ UNCHANGED vars
  <2>1. tc'.queue = tc.queue /\ tc'.reenq_cnt = tc.reenq_cnt /\ hist' = hist
    BY <1>4, QuietStep
  <2> QED
    BY <2>1 DEF HogProgress, Need
<1> QED
  BY <1>1, <1>2, <1>3, <1>4 DEF Next

(* Seventeen CPU-bound run-outs in a row end in Q3 (mlfq_runout_classify,  *)
(* mlfq_demote_on_reenq), for every width of the counter, wrap included,   *)
(* and every band below the ceiling of the gauge.                          *)
THEOREM HogsSink == Spec => []HogSinks
<1>1. ClassifyAssumption
  BY ClassifyAssumption
<1>2. Init => HogProgress
  <2> SUFFICES ASSUME Init PROVE HogProgress
    OBVIOUS
  <2>1. IInv
    BY <1>1, InitIInv
  <2>2. tc.reenq_cnt \in 0..(CntMod - 1)
    BY <2>1 DEF IInv, TypeOK, TaskCtx
  <2>3. Need(tc.reenq_cnt) \in 1..9
    BY <1>1, <2>2, NeedBound
  <2> QED
    BY <2>3 DEF Init, HogProgress, HogBound, Exhaustions
<1>3. IInv /\ HogProgress => HogSinks
  <2> SUFFICES ASSUME IInv, HogProgress, hist.hogs = HogBound PROVE tc.queue = 3
    BY DEF HogSinks
  <2>1. tc.reenq_cnt \in 0..(CntMod - 1) /\ tc.queue \in 1..3
    BY DEF IInv, TypeOK, TaskCtx
  <2>2. Need(tc.reenq_cnt) \in 1..9
    BY <1>1, <2>1, NeedBound
  <2> QED
    BY <2>1, <2>2 DEF HogProgress, HogBound, Exhaustions
<1> QED
  BY <1>1, <1>2, <1>3, SpecIInv, NextHogProgress, PTL DEF Spec

=============================================================================
