--------------------------- MODULE MlfqAdaptProofs -------------------------
(***************************************************************************)
(* Proofs about MlfqAdapt for every value of its constants.                *)
(***************************************************************************)
EXTENDS MlfqAdapt, FiniteSetTheorems, TLAPS

OpType == [pc : OpPC, wait : Nat, read : Nat, now : Nat, last : Nat,
           sum : Nat, next : Nat]

GaugeType == [lat_ema : 0..LatMax, rate_ema : Nat, step_at : Nat,
              wait_total : Nat, wait_count : Nat, adapt_steps : Nat]

-----------------------------------------------------------------------------
(* The fixed-point arithmetic of MlfqMath.                                 *)

(* A power of two is positive: it counts the subsets of a finite set.      *)
LEMMA PowerPositive ==
  ASSUME NEW k \in Nat
  PROVE  2 ^ k \in Nat \ {0}
<1> DEFINE S == SUBSET (1..k)
<1>1. IsFiniteSet(1..k) /\ Cardinality(1..k) = k
  BY FS_Interval
<1>2. IsFiniteSet(S) /\ Cardinality(S) = 2 ^ k
  BY <1>1, FS_SUBSET
<1>3. S # {}
  OBVIOUS
<1>4. Cardinality(S) \in Nat /\ Cardinality(S) # 0
  BY <1>2, <1>3, FS_CardinalityType, FS_EmptySet
<1> QED
  BY <1>2, <1>4

(* A quotient by a positive number does not exceed the dividend.           *)
LEMMA QuotientBound ==
  ASSUME NEW a \in Nat, NEW b \in Nat \ {0}
  PROVE  a \div b \in 0..a
  BY SMT

(* A product by a factor of at most one does not exceed the multiplicand.  *)
LEMMA ScaleBound ==
  ASSUME NEW a \in Nat, NEW f \in 0..256
  PROVE  (a * f) \div 256 \in 0..a
<1>1. a * f \in Nat /\ a * f <= a * 256
  BY SMT
<1> QED
  BY <1>1, SMT

(* The residual of a part of a half-life is a factor of at most one.       *)
LEMMA FactorBound ==
  ASSUME NEW h \in Nat \ {0}, NEW sub \in 0..(h - 1)
  PROVE  DecayFactor(sub, h) \in 0..256
<1> DEFINE x == (sub * FpOne) \div h
           a == (x * 177) \div FpOne
<1>1. h \in Nat \ {0} /\ sub \in Nat /\ sub < h
  OBVIOUS
<1>2. x \in 0..255
  <2>1. sub * 256 \in Nat /\ sub * 256 < 256 * h
    BY <1>1, SMT
  <2> QED
    BY <1>1, <2>1, SMT DEF FpOne
<1> HIDE DEF x
<1>3. a \in 0..176
  BY <1>2, SMT DEF FpOne
<1> HIDE DEF a
<1>4. a * a \in 0..(176 * a)
  BY <1>3, SMT
<1>5. (256 - a) + (a * a) \div 512 \in 0..256
  BY <1>3, <1>4, SMT
<1>6. DecayFactor(sub, h) = (256 - a) + (a * a) \div 512
  BY SMT DEF DecayFactor, FpOne, a, x
<1> QED
  BY <1>5, <1>6

(* mlfq_ema_decay never raises the value.                                  *)
LEMMA DecayRange ==
  ASSUME NEW ema \in Nat, NEW sleep \in Nat, NEW h \in Nat \ {0}
  PROVE  Decay(ema, sleep, h) \in 0..ema
<1> DEFINE k == sleep \div h
           decayed == ema \div (2 ^ k)
           sub == sleep % h
<1>1. h \in Nat \ {0}
  OBVIOUS
<1>2. k \in Nat /\ sub \in 0..(h - 1)
  BY <1>1, SMT
<1>3. 2 ^ k \in Nat \ {0}
  BY <1>2, PowerPositive
<1>4. decayed \in 0..ema
  BY <1>3, QuotientBound
<1>5. (decayed * DecayFactor(sub, h)) \div 256 \in 0..decayed
  <2>1. DecayFactor(sub, h) \in 0..256
    BY <1>2, FactorBound
  <2>2. decayed \in Nat
    BY <1>4
  <2> HIDE DEF decayed
  <2> QED
    BY <2>1, <2>2, ScaleBound
<1>6. Decay(ema, sleep, h) \in {0, decayed, (decayed * DecayFactor(sub, h)) \div 256}
  BY DEF Decay, FpOne
<1> HIDE DEF decayed, sub
<1> QED
  BY <1>4, <1>5, <1>6, SMT

-----------------------------------------------------------------------------
(* The operators.                                                          *)

(* A fold of the latency gauge stays under the ceiling (mlfq_sys_lat_fold). *)
LEMMA LatFoldRange ==
  ASSUME NEW lat \in 0..LatMax, NEW total \in Nat, NEW count \in Nat, NEW t \in Nat
  PROVE  LatFold(lat, total, count, t) \in 0..LatMax
<1> DEFINE avg == Capped(total \div count, LatMax)
           factor == Decay(FpOne, t, Interval)
           gap == FpOne - factor
           rise == (avg * gap) \div FpOne
           kept == Decay(lat, t, Interval)
<1>1. CASE count = 0
  BY <1>1 DEF LatFold
<1>2. CASE count # 0
  <2>1. total \div count \in Nat
    BY <1>2, QuotientBound
  <2>2. avg \in Nat
    BY <2>1 DEF Capped, LatMax
  <2>3. factor \in 0..256
    <3>1. Interval \in Nat \ {0}
      BY AdaptAssumption
    <3>2. FpOne \in Nat /\ FpOne = 256
      BY DEF FpOne
    <3> HIDE DEF factor
    <3>3. factor \in 0..FpOne
      <4> USE DEF factor
      <4> QED BY ONLY <3>1, <3>2, t \in Nat, DecayRange
    <3> QED
      BY <3>2, <3>3
  <2>4. kept \in Nat
    <3>1. lat \in Nat /\ Interval \in Nat \ {0}
      BY AdaptAssumption DEF LatMax
    <3>2. kept \in 0..lat
      BY <3>1, DecayRange
    <3> QED
      BY <3>1, <3>2
  <2>5. gap \in 0..256
    BY <2>3 DEF FpOne
  <2> HIDE DEF avg, gap, kept
  <2>6. rise \in Nat
    BY <2>2, <2>5, ScaleBound DEF FpOne
  <2> HIDE DEF rise
  <2>7. Capped(kept + rise, LatMax) \in 0..LatMax
    BY <2>4, <2>6 DEF Capped, LatMax
  <2> QED
    BY <1>2, <2>7 DEF LatFold, avg, gap, kept, rise
<1> QED
  BY <1>1, <1>2

(* A fold of the rate gauge is a natural number (mlfq_sys_rate_step).      *)
LEMMA RateStepType ==
  ASSUME NEW rate \in Nat, NEW arrivals \in Nat, NEW t \in Nat
  PROVE  RateStep(rate, arrivals, t) \in Nat
<1> DEFINE el == Capped(IF t < Interval THEN Interval ELSE t, RateWindowMax)
           rate_i == Capped((arrivals * Interval) \div el, RateMax)
           factor == Decay(FpOne, el, Interval)
           gap == FpOne - factor
<1>1. Interval \in Nat \ {0} /\ RateWindowMax \in Nat /\ RateWindowMax >= Interval
      /\ RateMax \in Nat
  BY AdaptAssumption
<1>2. el \in Nat \ {0}
  BY <1>1 DEF Capped
<1> HIDE DEF el
<1>3. (arrivals * Interval) \div el \in Nat
  <2>1. arrivals * Interval \in Nat
    BY <1>1
  <2> QED
    BY <1>2, <2>1, QuotientBound
<1>4. rate_i \in Nat
  BY <1>1, <1>3 DEF Capped
<1>5. factor \in 0..256
  <2>1. FpOne \in Nat /\ FpOne = 256
    BY DEF FpOne
  <2>2. el \in Nat
    BY <1>2
  <2>3. Interval \in Nat \ {0}
    BY <1>1
  <2>4. factor \in 0..FpOne
    BY ONLY <2>1, <2>2, <2>3, DecayRange DEF factor
  <2> QED
    BY <2>1, <2>4
<1> HIDE DEF rate_i, factor
<1>6. gap \in 0..256
  BY <1>5 DEF FpOne
<1> HIDE DEF gap
<1>7. (rate * factor) \div 256 \in Nat
  BY <1>5, ScaleBound
<1>8. (rate_i * 256 * gap) \div 256 \in Nat
  <2>1. rate_i * 256 \in Nat
    BY <1>4
  <2> QED
    BY <1>6, <2>1, ScaleBound
<1>9. RateStep(rate, arrivals, t) =
        (rate * factor) \div 256 + (rate_i * 256 * gap) \div 256
  BY DEF RateStep, el, rate_i, factor, gap, FpOne
<1> QED
  BY <1>7, <1>8, <1>9

(* The control law aims within the range of the shift.                     *)
LEMMA TargetRange ==
  ASSUME NEW lat \in 0..LatMax, NEW rate \in Nat
  PROVE  ShiftTarget(lat, rate) \in 0..MaxShift
<1> DEFINE mag == IF lat < TargetLat THEN 0 ELSE lat - TargetLat
           target == Capped((mag * K) \div TargetLat, MaxShift)
<1>1. mag \in Nat
  BY DEF LatMax, TargetLat
<1> HIDE DEF mag
<1>2. (mag * K) \div TargetLat \in Nat
  <2>1. mag * K \in Nat
    BY <1>1 DEF K, FpOne
  <2> QED
    BY <2>1, QuotientBound DEF TargetLat
<1>3. target \in 0..128
  BY <1>2 DEF Capped, MaxShift, FpOne
<1> HIDE DEF target
<1>4. ShiftTarget(lat, rate) = IF rate > RateGateHigh THEN Capped(target, 64) ELSE target
  BY DEF ShiftTarget, mag, target, RateGateShift, FpOne
<1> QED
  BY <1>3, <1>4, AdaptAssumption DEF Capped, MaxShift, FpOne

(* A slew between two values of the range stays in it (mlfq_adapt_slew).   *)
LEMMA SlewRange ==
  ASSUME NEW prev \in 0..MaxShift, NEW target \in 0..MaxShift
  PROVE  Slew(prev, target) \in 0..MaxShift
BY AdaptAssumption DEF Slew, MaxShift, FpOne

(* An edge computed for a shift lies in its hard range, and not below the  *)
(* configured one.                                                         *)
LEMMA BandRange ==
  ASSUME NEW e \in Edges, NEW s \in 0..MaxShift, base \in Bases
  PROVE  Band(e, s) \in Floor[e]..Ceil[e] /\ base[e] <= Band(e, s)
<1> DEFINE b == base[e]
           up == (b * s) \div 256
<1>1. b \in Floor[e]..Ceil[e] /\ b \in Nat
  BY AdaptAssumption
<1>2. Floor[e] \in Nat /\ Ceil[e] \in Nat
  BY DEF Edges, Floor, Ceil
<1>3. s \in 0..256
  BY DEF MaxShift, FpOne
<1> HIDE DEF b
<1>4. up \in Nat
  BY <1>1, <1>3, ScaleBound
<1> HIDE DEF up
<1>5. Band(e, s) = Capped(IF b + up < Floor[e] THEN Floor[e] ELSE b + up, Ceil[e])
  BY DEF Band, b, up, FpOne
<1>6. Band(e, s) \in Floor[e]..Ceil[e] /\ b <= Band(e, s)
  BY <1>1, <1>2, <1>4, <1>5 DEF Capped
<1> QED
  BY <1>6 DEF b

-----------------------------------------------------------------------------
(* The inductive invariant: the types, the bands, and what the registers   *)
(* of a call in flight promise: whoever is about to swap read a stamp an   *)
(* interval old, and only an enabled adaptation gets past the latency.     *)

OpSound(o) ==
  /\ o.pc = "swap" => o.last + Interval <= o.now
  /\ o.pc \in {"exchange", "rate"} \cup Edges => enabled

Bands == \A e \in Edges : edge[e] \in Floor[e]..Ceil[e] /\ base[e] <= edge[e]

IInv ==
  /\ TypeOK
  /\ Bands
  /\ ~enabled => edge = base
  /\ \A c \in Cpus : OpSound(op[c])

(* A call that keeps its registers sound keeps every CPU's sound.          *)
LEMMA GoesSound ==
  ASSUME TypeOK, \A d \in Cpus : OpSound(op[d]), NEW c \in Cpus, NEW r \in OpType,
         OpSound(r), Goes(c, r), enabled' = enabled
  PROVE  op' \in [Cpus -> OpType] /\ \A d \in Cpus : OpSound(op[d])'
<1>1. op \in [Cpus -> OpType]
  BY DEF TypeOK, OpType
<1>2. op' \in [Cpus -> OpType]
  BY <1>1 DEF Goes
<1>3. ASSUME NEW d \in Cpus
      PROVE  OpSound(op[d])'
  <2>1. op'[d] = IF d = c THEN r ELSE op[d]
    BY <1>1 DEF Goes
  <2> QED
    BY <2>1 DEF OpSound
<1> QED
  BY <1>2, <1>3

(* The registers of a CPU that is in none of the calls are sound.          *)
LEMMA OffSound == Off \in OpType /\ OpSound(Off)
BY DEF Off, OpType, OpPC, OpSound, Edges

(* mlfq_init establishes the invariant.                                    *)
LEMMA InitSound == Init => IInv
<1> SUFFICES ASSUME Init PROVE IInv
  OBVIOUS
<1>1. Off \in OpType /\ OpSound(Off)
  BY OffSound
<1>2. base \in [Edges -> Nat] /\ \A e \in Edges : base[e] \in Floor[e]..Ceil[e]
  BY AdaptAssumption DEF Init
<1>3. TypeOK
  <2>1. op \in [Cpus -> OpType]
    BY <1>1 DEF Init
  <2>2. gauge \in GaugeType
    BY DEF Init, GaugeType, LatMax
  <2>3. slot \in [Cpus -> [total : Nat, window : Nat]]
    BY DEF Init
  <2>4. clock \in Nat /\ shift \in 0..MaxShift /\ edge \in [Edges -> Nat]
        /\ base \in Bases /\ enabled \in BOOLEAN
    BY <1>2, AdaptAssumption DEF Init, MaxShift, FpOne
  <2>5. folded \in Nat /\ worst \in Nat /\ torn \in BOOLEAN
    BY DEF Init
  <2> QED
    BY <2>1, <2>2, <2>3, <2>4, <2>5 DEF TypeOK, OpType, GaugeType
<1>4. Bands
  BY <1>2 DEF Init, Bands, Floor, Ceil, Edges
<1> QED
  BY <1>1, <1>3, <1>4 DEF Init, IInv

(* A step of a call in flight: the registers stay sound, and the rest is   *)
(* what the action leaves alone or types.                                  *)
LEMMA StepSound == IInv /\ [Next]_vars => IInv'
<1> SUFFICES ASSUME IInv, [Next]_vars
             PROVE  IInv'
  OBVIOUS
<1>1. TypeOK /\ Bands /\ (~enabled => edge = base) /\ \A d \in Cpus : OpSound(op[d])
  BY DEF IInv
<1>2. gauge \in GaugeType /\ op \in [Cpus -> OpType]
  BY <1>1 DEF TypeOK, GaugeType, OpType
<1>3. Off \in OpType /\ OpSound(Off)
  BY OffSound
<1>4. CASE UNCHANGED vars
  BY <1>1, <1>4 DEF vars, IInv, TypeOK, Bands, OpSound
<1>5. CASE Tick
  BY <1>1, <1>5 DEF Tick, IInv, TypeOK, Bands, OpSound
<1>6. ASSUME NEW c \in Cpus, Running(c) \/ Enqueue(c) \/ MaybeStep(c)
      PROVE  IInv'
  <2>0. op[c] \in OpType /\ OpSound(op[c])
    BY <1>1, <1>2
  <2>1. CASE \E w \in Waits : Measure(c, w)
    <3>0. PICK w \in Waits : Measure(c, w)
      BY <2>1
    <3>01. w \in Nat
      BY AdaptAssumption
    <3> DEFINE r == [op[c] EXCEPT !.pc = "addTotal", !.wait = w, !.read = gauge.wait_total]
    <3>1. r \in OpType /\ OpSound(r)
      BY <2>0, <1>2, <1>3, <3>0, <3>01
      DEF Measure, Meets, OpType, OpPC, OpSound, GaugeType, MeasurePC, Edges
    <3>2. Goes(c, r) /\ enabled' = enabled
      BY <3>0 DEF Measure, Meets
    <3>3. op' \in [Cpus -> OpType] /\ \A d \in Cpus : OpSound(op[d])'
      BY <1>1, <3>1, <3>2, GoesSound
    <3> HIDE DEF r
    <3>9. TypeOK'
      <4>1. torn' \in BOOLEAN
        BY <1>1, <3>0, Zenon DEF Measure, Meets, TypeOK
      <4>2. worst' \in Nat
        BY <1>1, <3>0, <3>01 DEF Measure, TypeOK
      <4> QED
        BY <1>1, <1>2, <3>3, <3>0, <4>1, <4>2 DEF Measure, TypeOK, OpType, GaugeType
    <3> QED
      BY <1>1, <1>2, <3>3, <3>0, <3>9 DEF Measure, Meets, IInv, Bands
  <2>2. CASE AddTotal(c)
    <3> DEFINE r == [op[c] EXCEPT !.pc = "loadCount", !.wait = 0, !.read = 0]
    <3>1. r \in OpType /\ OpSound(r)
      BY <2>0, <1>2, <1>3, <2>2
      DEF AddTotal, OpType, OpPC, OpSound, MeasurePC, Edges
    <3>2. Goes(c, r) /\ enabled' = enabled
      BY <2>2 DEF AddTotal
    <3>3. op' \in [Cpus -> OpType] /\ \A d \in Cpus : OpSound(op[d])'
      BY <1>1, <3>1, <3>2, GoesSound
    <3> HIDE DEF r
    <3>4. gauge' \in GaugeType
      BY <1>2, <2>0, <2>2 DEF AddTotal, GaugeType, OpType
    <3>9. TypeOK'
      BY <1>1, <1>2, <3>3, <2>2, <3>4 DEF AddTotal, TypeOK, OpType, GaugeType
    <3> QED
      BY <1>1, <1>2, <3>3, <2>2, <3>4, <3>9 DEF AddTotal, IInv, Bands
  <2>3. CASE LoadCount(c)
    <3> DEFINE r == [op[c] EXCEPT !.pc = "addCount", !.read = gauge.wait_count]
    <3>1. r \in OpType /\ OpSound(r)
      BY <2>0, <1>2, <1>3, <2>3
      DEF LoadCount, OpType, OpPC, OpSound, GaugeType, MeasurePC, Edges
    <3>2. Goes(c, r) /\ enabled' = enabled
      BY <2>3 DEF LoadCount
    <3>3. op' \in [Cpus -> OpType] /\ \A d \in Cpus : OpSound(op[d])'
      BY <1>1, <3>1, <3>2, GoesSound
    <3> HIDE DEF r
    <3>9. TypeOK'
      BY <1>1, <1>2, <3>3, <2>3 DEF LoadCount, TypeOK, OpType, GaugeType
    <3> QED
      BY <1>1, <1>2, <3>3, <2>3, <3>9 DEF LoadCount, IInv, Bands
  <2>4. CASE AddCount(c)
    <3> DEFINE r == Off
    <3>1. r \in OpType /\ OpSound(r)
      BY <2>0, <1>2, <1>3, <2>4
      DEF AddCount, OpType, OpPC, OpSound, Edges
    <3>2. Goes(c, r) /\ enabled' = enabled
      BY <2>4 DEF AddCount
    <3>3. op' \in [Cpus -> OpType] /\ \A d \in Cpus : OpSound(op[d])'
      BY <1>1, <3>1, <3>2, GoesSound
    <3> HIDE DEF r
    <3>4. gauge' \in GaugeType
      BY <1>2, <2>0, <2>4 DEF AddCount, GaugeType, OpType
    <3>9. TypeOK'
      BY <1>1, <1>2, <3>3, <2>4, <3>4 DEF AddCount, TypeOK, OpType, GaugeType
    <3> QED
      BY <1>1, <1>2, <3>3, <2>4, <3>4, <3>9 DEF AddCount, IInv, Bands
  <2>5. CASE Arrive(c)
    <3> DEFINE r == [op[c] EXCEPT !.pc = "arrived"]
    <3>1. r \in OpType /\ OpSound(r)
      BY <2>0, <1>2, <1>3, <2>5
      DEF Arrive, OpType, OpPC, OpSound, Edges
    <3>2. Goes(c, r) /\ enabled' = enabled
      BY <2>5 DEF Arrive
    <3>3. op' \in [Cpus -> OpType] /\ \A d \in Cpus : OpSound(op[d])'
      BY <1>1, <3>1, <3>2, GoesSound
    <3> HIDE DEF r
    <3>5. slot' \in [Cpus -> [total : Nat, window : Nat]]
      BY <1>1, <2>0, <2>5 DEF Arrive, TypeOK, OpType
    <3>9. TypeOK'
      BY <1>1, <1>2, <3>3, <2>5, <3>5 DEF Arrive, TypeOK, OpType, GaugeType
    <3> QED
      BY <1>1, <1>2, <3>3, <2>5, <3>5, <3>9 DEF Arrive, IInv, Bands
  <2>6. CASE AddWindow(c)
    <3> DEFINE r == Off
    <3>1. r \in OpType /\ OpSound(r)
      BY <2>0, <1>2, <1>3, <2>6
      DEF AddWindow, OpType, OpPC, OpSound, Edges
    <3>2. Goes(c, r) /\ enabled' = enabled
      BY <2>6 DEF AddWindow
    <3>3. op' \in [Cpus -> OpType] /\ \A d \in Cpus : OpSound(op[d])'
      BY <1>1, <3>1, <3>2, GoesSound
    <3> HIDE DEF r
    <3>5. slot' \in [Cpus -> [total : Nat, window : Nat]]
      BY <1>1, <2>0, <2>6 DEF AddWindow, TypeOK, OpType
    <3>9. TypeOK'
      BY <1>1, <1>2, <3>3, <2>6, <3>5 DEF AddWindow, TypeOK, OpType, GaugeType
    <3> QED
      BY <1>1, <1>2, <3>3, <2>6, <3>5, <3>9 DEF AddWindow, IInv, Bands
  <2>7. CASE Ask(c)
    <3> DEFINE r == [op[c] EXCEPT !.pc = "asked", !.now = clock]
    <3>01. clock \in Nat
      BY <1>1 DEF TypeOK
    <3>1. r \in OpType /\ OpSound(r)
      BY <2>0, <1>2, <1>3, <2>7, <3>01
      DEF Ask, OpType, OpPC, OpSound, Edges
    <3>2. Goes(c, r) /\ enabled' = enabled
      BY <2>7 DEF Ask
    <3>3. op' \in [Cpus -> OpType] /\ \A d \in Cpus : OpSound(op[d])'
      BY <1>1, <3>1, <3>2, GoesSound
    <3> HIDE DEF r
    <3>9. TypeOK'
      BY <1>1, <1>2, <3>3, <2>7 DEF Ask, TypeOK, OpType, GaugeType
    <3> QED
      BY <1>1, <1>2, <3>3, <2>7, <3>9 DEF Ask, IInv, Bands
  <2>8. CASE ReadStamp(c)
    <3> DEFINE r == IF op[c].now < gauge.step_at + Interval THEN Off
                    ELSE [op[c] EXCEPT !.pc = "swap", !.last = gauge.step_at]
    <3>1. r \in OpType /\ OpSound(r)
      <4>1. CASE op[c].now < gauge.step_at + Interval
        BY <1>3, <4>1
      <4>2. CASE ~(op[c].now < gauge.step_at + Interval)
        <5> DEFINE q == [op[c] EXCEPT !.pc = "swap", !.last = gauge.step_at]
        <5>1. gauge.step_at \in Nat /\ op[c].now \in Nat /\ Interval \in Nat
          BY <1>2, <2>0, AdaptAssumption DEF GaugeType, OpType
        <5>2. q \in OpType /\ q.pc = "swap" /\ q.now = op[c].now /\ q.last = gauge.step_at
          BY <2>0, <5>1 DEF OpType, OpPC
        <5> HIDE DEF q
        <5>3. OpSound(q)
          BY <4>2, <5>1, <5>2 DEF OpSound, Edges
        <5> QED
          BY <4>2, <5>2, <5>3 DEF q
      <4> QED
        BY <4>1, <4>2
    <3>2. Goes(c, r) /\ enabled' = enabled
      BY <2>8 DEF ReadStamp
    <3>3. op' \in [Cpus -> OpType] /\ \A d \in Cpus : OpSound(op[d])'
      BY <1>1, <3>1, <3>2, GoesSound
    <3> HIDE DEF r
    <3>9. TypeOK'
      BY <1>1, <1>2, <3>3, <2>8 DEF ReadStamp, TypeOK, OpType, GaugeType
    <3> QED
      BY <1>1, <1>2, <3>3, <2>8, <3>9 DEF ReadStamp, IInv, Bands
  <2>9. CASE Swap(c)
    <3> DEFINE r == IF Wins(c) THEN [op[c] EXCEPT !.pc = "loadTotal"] ELSE Off
    <3>1. r \in OpType /\ OpSound(r)
      BY <2>0, <1>2, <1>3, <2>9
      DEF Swap, Meets, Wins, OpType, OpPC, OpSound, FoldPC, StepPC, Edges
    <3>2. Goes(c, r) /\ enabled' = enabled
      BY <2>9 DEF Swap, Meets, Wins
    <3>3. op' \in [Cpus -> OpType] /\ \A d \in Cpus : OpSound(op[d])'
      BY <1>1, <3>1, <3>2, GoesSound
    <3> HIDE DEF r
    <3>4. gauge' \in GaugeType
      BY <1>2, <2>0, <2>9 DEF Swap, GaugeType, OpType
    <3>9. TypeOK'
      BY <1>1, <1>2, <3>3, <2>9, <3>4 DEF Swap, Meets, Wins, TypeOK, OpType, GaugeType
    <3> QED
      BY <1>1, <1>2, <3>3, <2>9, <3>4, <3>9 DEF Swap, Meets, Wins, IInv, Bands
  <2>10. CASE LoadTotal(c)
    <3> DEFINE r == [op[c] EXCEPT !.pc = "foldLatency", !.read = gauge.wait_total]
    <3>1. r \in OpType /\ OpSound(r)
      BY <2>0, <1>2, <1>3, <2>10
      DEF LoadTotal, OpType, OpPC, OpSound, GaugeType, FoldPC, StepPC, Edges
    <3>2. Goes(c, r) /\ enabled' = enabled
      BY <2>10 DEF LoadTotal
    <3>3. op' \in [Cpus -> OpType] /\ \A d \in Cpus : OpSound(op[d])'
      BY <1>1, <3>1, <3>2, GoesSound
    <3> HIDE DEF r
    <3>9. TypeOK'
      BY <1>1, <1>2, <3>3, <2>10 DEF LoadTotal, TypeOK, OpType, GaugeType
    <3> QED
      BY <1>1, <1>2, <3>3, <2>10, <3>9 DEF LoadTotal, IInv, Bands
  <2>11. CASE FoldLatency(c)
    <3> DEFINE r == [op[c] EXCEPT !.pc = "clearTotal", !.read = 0]
    <3>1. r \in OpType /\ OpSound(r)
      BY <2>0, <1>2, <1>3, <2>11
      DEF FoldLatency, OpType, OpPC, OpSound, FoldPC, StepPC, Edges
    <3>2. Goes(c, r) /\ enabled' = enabled
      BY <2>11 DEF FoldLatency
    <3>3. op' \in [Cpus -> OpType] /\ \A d \in Cpus : OpSound(op[d])'
      BY <1>1, <3>1, <3>2, GoesSound
    <3> HIDE DEF r
    <3>4. gauge' \in GaugeType
      <4> DEFINE lat == LatFold(gauge.lat_ema, op[c].read, gauge.wait_count, Elapsed(c))
      <4>1. Elapsed(c) \in Nat
        BY <2>0 DEF Elapsed, OpType
      <4>2. lat \in 0..LatMax
        BY <1>2, <2>0, <4>1, LatFoldRange DEF GaugeType, OpType
      <4>3. gauge' = [gauge EXCEPT !.lat_ema = lat]
        BY <2>11 DEF FoldLatency
      <4> HIDE DEF lat
      <4> QED
        BY <1>2, <4>2, <4>3 DEF GaugeType
    <3>9. TypeOK'
      BY <1>1, <1>2, <3>3, <2>11, <3>4 DEF FoldLatency, TypeOK, OpType, GaugeType
    <3> QED
      BY <1>1, <1>2, <3>3, <2>11, <3>4, <3>9 DEF FoldLatency, IInv, Bands
  <2>12. CASE ClearTotal(c)
    <3> DEFINE r == [op[c] EXCEPT !.pc = "clearCount"]
    <3>1. r \in OpType /\ OpSound(r)
      BY <2>0, <1>2, <1>3, <2>12
      DEF ClearTotal, OpType, OpPC, OpSound, FoldPC, StepPC, Edges
    <3>2. Goes(c, r) /\ enabled' = enabled
      BY <2>12 DEF ClearTotal
    <3>3. op' \in [Cpus -> OpType] /\ \A d \in Cpus : OpSound(op[d])'
      BY <1>1, <3>1, <3>2, GoesSound
    <3> HIDE DEF r
    <3>4. gauge' \in GaugeType
      BY <1>2, <2>12 DEF ClearTotal, GaugeType
    <3>9. TypeOK'
      BY <1>1, <1>2, <3>3, <2>12, <3>4 DEF ClearTotal, TypeOK, OpType, GaugeType
    <3> QED
      BY <1>1, <1>2, <3>3, <2>12, <3>4, <3>9 DEF ClearTotal, IInv, Bands
  <2>13. CASE ClearCount(c)
    <3> DEFINE r == IF enabled THEN [op[c] EXCEPT !.pc = "exchange"] ELSE Off
    <3>1. r \in OpType /\ OpSound(r)
      BY <2>0, <1>2, <1>3, <2>13
      DEF ClearCount, OpType, OpPC, OpSound, StepPC, Edges
    <3>2. Goes(c, r) /\ enabled' = enabled
      BY <2>13 DEF ClearCount
    <3>3. op' \in [Cpus -> OpType] /\ \A d \in Cpus : OpSound(op[d])'
      BY <1>1, <3>1, <3>2, GoesSound
    <3> HIDE DEF r
    <3>4. gauge' \in GaugeType
      BY <1>2, <2>13 DEF ClearCount, GaugeType
    <3>9. TypeOK'
      BY <1>1, <1>2, <3>3, <2>13, <3>4 DEF ClearCount, TypeOK, OpType, GaugeType
    <3> QED
      BY <1>1, <1>2, <3>3, <2>13, <3>4, <3>9 DEF ClearCount, IInv, Bands
  <2>14. CASE Exchange(c)
    <3> DEFINE r == [op[c] EXCEPT !.sum = AddsUp(@, slot[op[c].next].window),
                         !.next = op[c].next + 1,
                         !.pc = IF op[c].next + 1 \in Cpus THEN "exchange" ELSE "rate"]
    <3>01. AddsUp(op[c].sum, slot[op[c].next].window) \in Nat
      BY <1>1, <2>0, <2>14 DEF Exchange, AddsUp, TypeOK, OpType
    <3> DEFINE sum == AddsUp(op[c].sum, slot[op[c].next].window)
               pc == IF op[c].next + 1 \in Cpus THEN "exchange" ELSE "rate"
    <3>02. op[c].next + 1 \in Nat /\ pc \in {"exchange", "rate"} /\ enabled
      BY <2>0, <2>14 DEF Exchange, OpType, OpSound
    <3>03. r = [op[c] EXCEPT !.sum = sum, !.next = op[c].next + 1, !.pc = pc]
      OBVIOUS
    <3> HIDE DEF sum, pc
    <3>04. sum \in Nat
      BY <3>01 DEF sum
    <3>1. r \in OpType /\ OpSound(r)
      <4>1. r \in OpType /\ r.pc = pc
        BY <2>0, <3>02, <3>03, <3>04 DEF OpType, OpPC, StepPC
      <4> QED
        BY <3>02, <4>1 DEF OpSound, Edges
    <3>2. Goes(c, r) /\ enabled' = enabled
      BY <2>14 DEF Exchange
    <3>3. op' \in [Cpus -> OpType] /\ \A d \in Cpus : OpSound(op[d])'
      BY <1>1, <3>1, <3>2, GoesSound
    <3> HIDE DEF r
    <3>5. slot' \in [Cpus -> [total : Nat, window : Nat]]
      BY <1>1, <2>0, <2>14 DEF Exchange, TypeOK, OpType
    <3>9. TypeOK'
      BY <1>1, <1>2, <3>3, <2>14, <3>5 DEF Exchange, TypeOK, OpType, GaugeType
    <3> QED
      BY <1>1, <1>2, <3>3, <2>14, <3>5, <3>9 DEF Exchange, IInv, Bands
  <2>15. CASE StepShift(c)
    <3> DEFINE r == [op[c] EXCEPT !.pc = "t_l", !.sum = 0, !.next = 0]
    <3> DEFINE rate == RateStep(gauge.rate_ema, op[c].sum, Elapsed(c))
               s == Slew(shift, ShiftTarget(gauge.lat_ema, rate))
    <3>01. rate \in Nat
      <4>1. Elapsed(c) \in Nat
        BY <2>0 DEF Elapsed, OpType
      <4> QED
        BY <1>2, <2>0, <4>1, RateStepType DEF GaugeType, OpType
    <3>02. gauge' = [gauge EXCEPT !.rate_ema = rate, !.adapt_steps = @ + 1]
      BY <2>15 DEF StepShift
    <3>03. shift' = s
      BY <2>15 DEF StepShift
    <3>1. r \in OpType /\ OpSound(r)
      BY <2>0, <1>2, <1>3, <2>15
      DEF StepShift, OpType, OpPC, OpSound, StepPC, Edges
    <3>2. Goes(c, r) /\ enabled' = enabled
      BY <2>15 DEF StepShift
    <3>3. op' \in [Cpus -> OpType] /\ \A d \in Cpus : OpSound(op[d])'
      BY <1>1, <3>1, <3>2, GoesSound
    <3> HIDE DEF r
    <3>4. gauge' \in GaugeType
      <4> DEFINE n == gauge.adapt_steps + 1
      <4>1. n \in Nat
        BY <1>2 DEF GaugeType
      <4>2. gauge' = [gauge EXCEPT !.rate_ema = rate, !.adapt_steps = n]
        BY <3>02
      <4> HIDE DEF rate, n
      <4> QED
        BY <1>2, <3>01, <4>1, <4>2 DEF GaugeType
    <3>7. shift' \in 0..MaxShift /\ folded' \in Nat
      <4>1. ShiftTarget(gauge.lat_ema, rate) \in 0..MaxShift
        BY <1>2, <3>01, TargetRange DEF GaugeType
      <4>2. s \in 0..MaxShift
        BY <1>1, <4>1, SlewRange DEF TypeOK
      <4>3. folded' = folded + op[c].sum
        BY <2>15 DEF StepShift
      <4> QED
        BY <1>1, <2>0, <3>03, <4>2, <4>3 DEF TypeOK, OpType
    <3> HIDE DEF rate, s
    <3>9. TypeOK'
      BY <1>1, <1>2, <3>3, <2>15, <3>4, <3>7 DEF StepShift, TypeOK, OpType, GaugeType
    <3> QED
      BY <1>1, <1>2, <3>3, <2>15, <3>4, <3>7, <3>9 DEF StepShift, IInv, Bands
  <2>16. CASE SetEdge(c)
    <3> DEFINE r == IF op[c].pc = "t_bnd" THEN Off ELSE [op[c] EXCEPT !.pc = After[@]]
    <3>1. r \in OpType /\ OpSound(r)
      <4>1. CASE op[c].pc = "t_bnd"
        BY <1>3, <4>1
      <4>2. CASE op[c].pc # "t_bnd"
        <5>1. After[op[c].pc] \in Edges /\ enabled
          BY <2>0, <2>16, <4>2 DEF SetEdge, After, Edges, OpSound
        <5>2. r = [op[c] EXCEPT !.pc = After[op[c].pc]]
          BY <4>2
        <5> HIDE DEF r
        <5>3. r \in OpType /\ r.pc \in Edges
          BY <2>0, <5>1, <5>2 DEF OpType, OpPC, StepPC
        <5> QED
          BY <5>1, <5>3 DEF OpSound, Edges
      <4> QED
        BY <4>1, <4>2
    <3>2. Goes(c, r) /\ enabled' = enabled
      BY <2>16 DEF SetEdge
    <3>3. op' \in [Cpus -> OpType] /\ \A d \in Cpus : OpSound(op[d])'
      BY <1>1, <3>1, <3>2, GoesSound
    <3> HIDE DEF r
    <3>6. edge' \in [Edges -> Nat] /\ Bands' /\ enabled
      <4> DEFINE e == op[c].pc
                 v == Band(e, shift)
      <4>1. e \in Edges /\ base \in Bases /\ base' = base /\ enabled
        BY <1>1, <2>0, <2>16 DEF SetEdge, TypeOK, OpSound
      <4>2. v \in Floor[e]..Ceil[e] /\ base[e] <= v
        BY <1>1, <4>1, BandRange DEF TypeOK
      <4>3. edge' = [edge EXCEPT ![e] = v]
        BY <2>16 DEF SetEdge
      <4>4. Floor[e] \in Nat /\ Ceil[e] \in Nat
        BY <4>1 DEF Floor, Ceil, Edges
      <4> HIDE DEF e, v
      <4> QED
        BY <1>1, <4>1, <4>2, <4>3, <4>4 DEF TypeOK, Bands
    <3>9. TypeOK'
      BY <1>1, <1>2, <3>3, <2>16, <3>6 DEF SetEdge, TypeOK, OpType, GaugeType
    <3> QED
      BY <1>1, <1>2, <3>3, <2>16, <3>6, <3>9 DEF SetEdge, IInv, Bands
  <2> QED
    BY <1>6, <2>1, <2>2, <2>3, <2>4, <2>5, <2>6, <2>7, <2>8, <2>9, <2>10, <2>11,
       <2>12, <2>13, <2>14, <2>15, <2>16
    DEF Running, Enqueue, MaybeStep
<1> QED
  BY <1>4, <1>5, <1>6 DEF Next

(* The invariant holds in every reachable state.                           *)
THEOREM InvariantHolds == Spec => []IInv
BY InitSound, StepSound, PTL DEF Spec

(* The registers and the gauges of every CPU stay in their ranges, and the *)
(* shift within the half it may widen by.                                  *)
THEOREM TypeCorrect == Spec => []TypeOK
<1>1. IInv => TypeOK
  BY DEF IInv
<1> QED
  BY <1>1, InvariantHolds, PTL

(* Whatever the gauges, whoever reads an edge at whatever instant of a     *)
(* rewrite: no band leaves its hard range, and no pair gets closer than    *)
(* its ranges are (mlfq_check_bands).                                      *)
THEOREM BandsStayOrdered == Spec => []BandsOrdered
<1>1. IInv => BandsOrdered
  BY DEF IInv, Bands, BandsOrdered, Edges, Floor, Ceil
<1> QED
  BY <1>1, InvariantHolds, PTL

(* No step narrows a band below its configuration, and a disabled          *)
(* adaptation leaves the bands alone.                                      *)
THEOREM AdaptWidensOnly == Spec => []WidenOnly
<1>1. IInv => WidenOnly
  BY DEF IInv, Bands, WidenOnly
<1> QED
  BY <1>1, InvariantHolds, PTL

(* Two adaptation steps are an interval apart, however many CPUs ask at    *)
(* once and however old the clock they read is.                            *)
THEOREM StepsAreSpaced == Spec => StepsSpaced
<1> DEFINE Spaced == gauge'.step_at # gauge.step_at
                       => gauge'.step_at >= gauge.step_at + Interval
<1>1. IInv /\ [Next]_vars => [Spaced]_vars
  <2> SUFFICES ASSUME IInv, [Next]_vars PROVE [Spaced]_vars
    OBVIOUS
  <2>1. gauge \in GaugeType
    BY DEF IInv, TypeOK, GaugeType
  <2>2. ASSUME NEW c \in Cpus, Swap(c)
        PROVE  Spaced
    <3>1. op[c].last + Interval <= op[c].now /\ op[c].now \in Nat
      BY <2>2 DEF IInv, OpSound, Swap, TypeOK
    <3>2. CASE Wins(c)
      <4>1. gauge' = [gauge EXCEPT !.step_at = op[c].now]
        BY <2>2, <3>2 DEF Swap
      <4> QED
        BY <2>1, <3>1, <3>2, <4>1 DEF Wins, GaugeType
    <3>3. CASE ~Wins(c)
      BY <2>2, <3>3 DEF Swap
    <3> QED
      BY <3>2, <3>3
  <2>3. ASSUME NEW c \in Cpus, NEW w \in Waits, Measure(c, w)
        PROVE  Spaced
    BY <2>3 DEF Measure
  <2>4. ASSUME NEW c \in Cpus,
               AddTotal(c) \/ AddCount(c) \/ FoldLatency(c) \/ ClearTotal(c)
                 \/ ClearCount(c) \/ StepShift(c)
        PROVE  Spaced
    <3>1. gauge'.step_at = gauge.step_at
      BY <2>1, <2>4
      DEF AddTotal, AddCount, FoldLatency, ClearTotal, ClearCount, StepShift, GaugeType
    <3> QED
      BY <3>1
  <2>5. ASSUME NEW c \in Cpus,
               LoadCount(c) \/ Arrive(c) \/ AddWindow(c) \/ Ask(c) \/ ReadStamp(c)
                 \/ LoadTotal(c) \/ Exchange(c) \/ SetEdge(c)
        PROVE  Spaced
    BY <2>5 DEF LoadCount, Arrive, AddWindow, Ask, ReadStamp, LoadTotal, Exchange, SetEdge
  <2>6. CASE Tick
    BY <2>6 DEF Tick
  <2>7. CASE UNCHANGED vars
    BY <2>7 DEF vars
  <2> QED
    BY <2>2, <2>3, <2>4, <2>5, <2>6, <2>7 DEF Next, Running, Enqueue, MaybeStep
<1> QED
  BY <1>1, InvariantHolds, PTL DEF Spec, StepsSpaced

-----------------------------------------------------------------------------
(* What each operation of a CPU leaves in its registers.                   *)

OthersRest(c) == \A d \in Cpus \ {c} : op'[d] = op[d]

LEMMA Registers ==
  ASSUME TypeOK, NEW c \in Cpus, NEW r, Goes(c, r)
  PROVE  op'[c] = r /\ OthersRest(c)
  BY DEF TypeOK, Goes, OthersRest

LEMMA MeasureMoves ==
  ASSUME TypeOK, NEW c \in Cpus, NEW w, Measure(c, w)
  PROVE  /\ OthersRest(c) /\ op[c].pc = "off" /\ op'[c].pc = "addTotal"
         /\ op'[c].wait = w /\ op'[c].read = gauge.wait_total
         /\ op'[c].sum = op[c].sum /\ op'[c].next = op[c].next
<1>1. PICK r : r = [op[c] EXCEPT !.pc = "addTotal", !.wait = w, !.read = gauge.wait_total]
  OBVIOUS
<1>2. op'[c] = r /\ OthersRest(c)
  BY <1>1, Registers DEF Measure
<1> QED BY <1>1, <1>2 DEF TypeOK, Measure

LEMMA AddTotalMoves ==
  ASSUME TypeOK, NEW c \in Cpus, AddTotal(c)
  PROVE  /\ OthersRest(c) /\ op[c].pc = "addTotal" /\ op'[c].pc = "loadCount"
         /\ op'[c].sum = op[c].sum /\ op'[c].next = op[c].next
<1>1. PICK r : r = [op[c] EXCEPT !.pc = "loadCount", !.wait = 0, !.read = 0]
  OBVIOUS
<1>2. op'[c] = r /\ OthersRest(c)
  BY <1>1, Registers DEF AddTotal
<1> QED BY <1>1, <1>2 DEF TypeOK, AddTotal

LEMMA LoadCountMoves ==
  ASSUME TypeOK, NEW c \in Cpus, LoadCount(c)
  PROVE  /\ OthersRest(c) /\ op[c].pc = "loadCount" /\ op'[c].pc = "addCount"
         /\ op'[c].read = gauge.wait_count
         /\ op'[c].sum = op[c].sum /\ op'[c].next = op[c].next
<1>1. PICK r : r = [op[c] EXCEPT !.pc = "addCount", !.read = gauge.wait_count]
  OBVIOUS
<1>2. op'[c] = r /\ OthersRest(c)
  BY <1>1, Registers DEF LoadCount
<1> QED BY <1>1, <1>2 DEF TypeOK, LoadCount

LEMMA AddCountMoves ==
  ASSUME TypeOK, NEW c \in Cpus, AddCount(c)
  PROVE  OthersRest(c) /\ op[c].pc = "addCount" /\ op'[c] = Off
  BY Registers DEF AddCount

LEMMA ArriveMoves ==
  ASSUME TypeOK, NEW c \in Cpus, Arrive(c)
  PROVE  /\ OthersRest(c) /\ op[c].pc = "off" /\ op'[c].pc = "arrived"
         /\ op'[c].sum = op[c].sum /\ op'[c].next = op[c].next
<1>1. PICK r : r = [op[c] EXCEPT !.pc = "arrived"]
  OBVIOUS
<1>2. op'[c] = r /\ OthersRest(c)
  BY <1>1, Registers DEF Arrive
<1> QED BY <1>1, <1>2 DEF TypeOK, Arrive

LEMMA AddWindowMoves ==
  ASSUME TypeOK, NEW c \in Cpus, AddWindow(c)
  PROVE  OthersRest(c) /\ op[c].pc = "arrived" /\ op'[c] = Off
  BY Registers DEF AddWindow

LEMMA AskMoves ==
  ASSUME TypeOK, NEW c \in Cpus, Ask(c)
  PROVE  /\ OthersRest(c) /\ op[c].pc = "off" /\ op'[c].pc = "asked" /\ op'[c].now = clock
         /\ op'[c].sum = op[c].sum /\ op'[c].next = op[c].next
<1>1. PICK r : r = [op[c] EXCEPT !.pc = "asked", !.now = clock]
  OBVIOUS
<1>2. op'[c] = r /\ OthersRest(c)
  BY <1>1, Registers DEF Ask
<1> QED BY <1>1, <1>2 DEF TypeOK, Ask

LEMMA ReadStampMoves ==
  ASSUME TypeOK, NEW c \in Cpus, ReadStamp(c)
  PROVE  /\ OthersRest(c) /\ op[c].pc = "asked"
         /\ \/ op'[c] = Off
            \/ /\ op'[c].pc = "swap" /\ op'[c].now = op[c].now
               /\ op'[c].last = gauge.step_at
               /\ op'[c].sum = op[c].sum /\ op'[c].next = op[c].next
<1>1. PICK r : r = [op[c] EXCEPT !.pc = "swap", !.last = gauge.step_at]
  OBVIOUS
<1>2. PICK q : q = (IF op[c].now < gauge.step_at + Interval THEN Off ELSE r)
  OBVIOUS
<1>3. op'[c] = q /\ OthersRest(c)
  BY <1>1, <1>2, Registers DEF ReadStamp
<1> QED BY <1>1, <1>2, <1>3 DEF TypeOK, ReadStamp

LEMMA SwapMoves ==
  ASSUME TypeOK, NEW c \in Cpus, Swap(c)
  PROVE  /\ OthersRest(c) /\ op[c].pc = "swap"
         /\ \/ op'[c] = Off /\ gauge' = gauge /\ torn' = torn
            \/ /\ op'[c].pc = "loadTotal" /\ op'[c].now = op[c].now
               /\ op'[c].last = op[c].last
               /\ op'[c].sum = op[c].sum /\ op'[c].next = op[c].next
               /\ op[c].last = gauge.step_at
               /\ gauge' = [gauge EXCEPT !.step_at = op[c].now] /\ Meets(c)
<1>1. PICK r : r = [op[c] EXCEPT !.pc = "loadTotal"]
  OBVIOUS
<1>2. CASE Wins(c)
  <2>1. op'[c] = r /\ OthersRest(c)
    BY <1>1, <1>2, Registers DEF Swap
  <2>2. /\ gauge' = [gauge EXCEPT !.step_at = op[c].now] /\ Meets(c)
        /\ op[c].last = gauge.step_at /\ op[c].pc = "swap"
    BY <1>2 DEF Swap, Wins
  <2> QED BY <1>1, <2>1, <2>2 DEF TypeOK
<1>3. CASE ~Wins(c)
  <2>1. op'[c] = Off /\ OthersRest(c)
    BY <1>3, Registers DEF Swap
  <2> QED BY <1>3, <2>1 DEF Swap
<1> QED BY <1>2, <1>3

(* The operations of a step keep its stamp.                                *)
Steps(c, from, to) ==
  /\ OthersRest(c) /\ op[c].pc = from /\ op'[c].pc = to
  /\ op'[c].now = op[c].now /\ op'[c].last = op[c].last

LEMMA FoldMoves ==
  ASSUME TypeOK, NEW c \in Cpus
  PROVE  /\ LoadTotal(c) => /\ Steps(c, "loadTotal", "foldLatency")
                            /\ op'[c].read = gauge.wait_total
                            /\ op'[c].sum = op[c].sum /\ op'[c].next = op[c].next
         /\ FoldLatency(c) => /\ Steps(c, "foldLatency", "clearTotal")
                              /\ op'[c].sum = op[c].sum /\ op'[c].next = op[c].next
         /\ ClearTotal(c) => /\ Steps(c, "clearTotal", "clearCount")
                             /\ op'[c].sum = op[c].sum /\ op'[c].next = op[c].next
<1>1. ASSUME LoadTotal(c)
      PROVE  /\ Steps(c, "loadTotal", "foldLatency") /\ op'[c].read = gauge.wait_total
             /\ op'[c].sum = op[c].sum /\ op'[c].next = op[c].next
  <2>1. PICK r : r = [op[c] EXCEPT !.pc = "foldLatency", !.read = gauge.wait_total]
    OBVIOUS
  <2>2. op'[c] = r /\ OthersRest(c)
    BY <1>1, <2>1, Registers DEF LoadTotal
  <2> QED BY <1>1, <2>1, <2>2 DEF TypeOK, LoadTotal, Steps
<1>2. ASSUME FoldLatency(c)
      PROVE  /\ Steps(c, "foldLatency", "clearTotal")
             /\ op'[c].sum = op[c].sum /\ op'[c].next = op[c].next
  <2>1. PICK r : r = [op[c] EXCEPT !.pc = "clearTotal", !.read = 0]
    OBVIOUS
  <2>2. op'[c] = r /\ OthersRest(c)
    BY <1>2, <2>1, Registers DEF FoldLatency
  <2> QED BY <1>2, <2>1, <2>2 DEF TypeOK, FoldLatency, Steps
<1>3. ASSUME ClearTotal(c)
      PROVE  /\ Steps(c, "clearTotal", "clearCount")
             /\ op'[c].sum = op[c].sum /\ op'[c].next = op[c].next
  <2>1. PICK r : r = [op[c] EXCEPT !.pc = "clearCount"]
    OBVIOUS
  <2>2. op'[c] = r /\ OthersRest(c)
    BY <1>3, <2>1, Registers DEF ClearTotal
  <2> QED BY <1>3, <2>1, <2>2 DEF TypeOK, ClearTotal, Steps
<1> QED BY <1>1, <1>2, <1>3

LEMMA ClearCountMoves ==
  ASSUME TypeOK, NEW c \in Cpus, ClearCount(c)
  PROVE  /\ OthersRest(c) /\ op[c].pc = "clearCount"
         /\ \/ op'[c] = Off
            \/ /\ Steps(c, "clearCount", "exchange") /\ enabled
               /\ op'[c].sum = op[c].sum /\ op'[c].next = op[c].next
<1>1. PICK r : r = [op[c] EXCEPT !.pc = "exchange"]
  OBVIOUS
<1>2. PICK q : q = (IF enabled THEN r ELSE Off)
  OBVIOUS
<1>3. op'[c] = q /\ OthersRest(c)
  BY <1>1, <1>2, Registers DEF ClearCount
<1> QED BY <1>1, <1>2, <1>3 DEF TypeOK, ClearCount, Steps

LEMMA ExchangeMoves ==
  ASSUME TypeOK, NEW c \in Cpus, Exchange(c)
  PROVE  \E to \in {"exchange", "rate"} :
           /\ Steps(c, "exchange", to)
           /\ to = "exchange" => op'[c].next \in Cpus
           /\ op[c].next \in Cpus
           /\ op'[c].sum = op[c].sum + slot[op[c].next].window
           /\ slot' = [slot EXCEPT ![op[c].next].window = 0]
<1>1. PICK n, to, s : n = op[c].next + 1 /\ s = op[c].sum + slot[op[c].next].window
                      /\ to = (IF n \in Cpus THEN "exchange" ELSE "rate")
  OBVIOUS
<1>2. PICK r : r = [op[c] EXCEPT !.sum = s, !.next = n, !.pc = to]
  OBVIOUS
<1>3. Goes(c, r) /\ op[c].pc = "exchange" /\ op[c].next \in Cpus
      /\ slot' = [slot EXCEPT ![op[c].next].window = 0]
  BY <1>1, <1>2 DEF Exchange, AddsUp
<1>4. op'[c] = r /\ OthersRest(c)
  BY <1>3, Registers
<1>5. r.pc = to /\ r.sum = s /\ r.next = n /\ r.now = op[c].now /\ r.last = op[c].last
  BY <1>2 DEF TypeOK
<1> QED BY <1>1, <1>3, <1>4, <1>5 DEF Steps

LEMMA StepShiftMoves ==
  ASSUME TypeOK, NEW c \in Cpus, StepShift(c)
  PROVE  Steps(c, "rate", "t_l") /\ op'[c].sum = 0 /\ op'[c].next = 0
<1>1. PICK r : r = [op[c] EXCEPT !.pc = "t_l", !.sum = 0, !.next = 0]
  OBVIOUS
<1>2. op'[c] = r /\ OthersRest(c)
  BY <1>1, Registers DEF StepShift
<1> QED BY <1>1, <1>2 DEF TypeOK, StepShift, Steps

LEMMA SetEdgeMoves ==
  ASSUME TypeOK, NEW c \in Cpus, SetEdge(c)
  PROVE  /\ OthersRest(c) /\ op[c].pc \in Edges
         /\ edge' = [edge EXCEPT ![op[c].pc] = Band(op[c].pc, shift)]
         /\ \/ op[c].pc = "t_bnd" /\ op'[c] = Off
            \/ /\ op[c].pc # "t_bnd" /\ Steps(c, op[c].pc, After[op[c].pc])
               /\ op'[c].sum = op[c].sum /\ op'[c].next = op[c].next
<1>1. PICK e, to : e = op[c].pc /\ to = After[e]
  OBVIOUS
<1>2. PICK r : r = [op[c] EXCEPT !.pc = to]
  OBVIOUS
<1>3. PICK q : q = (IF e = "t_bnd" THEN Off ELSE r)
  OBVIOUS
<1>4. Goes(c, q)
  BY <1>1, <1>2, <1>3 DEF SetEdge
<1>5. op'[c] = q /\ OthersRest(c)
  BY <1>4, Registers
<1>6. r.pc = to /\ r.sum = op[c].sum /\ r.next = op[c].next /\ r.now = op[c].now
      /\ r.last = op[c].last
  BY <1>2 DEF TypeOK
<1> QED BY <1>1, <1>3, <1>5, <1>6 DEF SetEdge, Steps

-----------------------------------------------------------------------------
(* The clock keeps the steps apart: a call is younger than an interval, so *)
(* of the calls that read the stamp before a step at most that step's own  *)
(* gets past the swap, and it carries the stamp.                           *)
TimeInv ==
  /\ gauge.step_at <= clock
  /\ \A c \in Cpus :
       /\ op[c].pc \in {"asked", "swap"} \cup StepPC =>
            op[c].now <= clock /\ clock < op[c].now + Interval
       /\ op[c].pc \in StepPC =>
            op[c].now = gauge.step_at /\ op[c].last + Interval <= op[c].now
  /\ \A c, d \in Cpus : op[c].pc \in StepPC /\ op[d].pc \in StepPC => c = d

LEMMA TimeBegins == Init => TimeInv
  BY AdaptAssumption DEF Init, TimeInv, Off, StepPC, FoldPC, Edges

(* A call that goes on keeps its stamp, and the others rest.               *)
LEMMA TimeKept ==
  ASSUME TypeOK, TimeInv, NEW c \in Cpus, OthersRest(c), clock' = clock,
         gauge'.step_at = gauge.step_at,
         op'[c].pc \in StepPC =>
           /\ op[c].pc \in StepPC /\ op'[c].now = op[c].now /\ op'[c].last = op[c].last,
         op'[c].pc \in {"asked", "swap"} =>
           op'[c].now <= clock /\ clock < op'[c].now + Interval
  PROVE  TimeInv'
<1>1. gauge'.step_at <= clock'
  BY DEF TimeInv
<1>2. ASSUME NEW d \in Cpus
      PROVE  /\ op'[d].pc \in {"asked", "swap"} \cup StepPC =>
                  op'[d].now <= clock' /\ clock' < op'[d].now + Interval
             /\ op'[d].pc \in StepPC =>
                  /\ op[d].pc \in StepPC
                  /\ op'[d].now = gauge'.step_at /\ op'[d].last + Interval <= op'[d].now
  <2>1. CASE d = c
    BY <2>1 DEF TimeInv
  <2>2. CASE d # c
    BY <2>2 DEF TimeInv, OthersRest
  <2> QED BY <2>1, <2>2
<1>3. \A d, e \in Cpus : op'[d].pc \in StepPC /\ op'[e].pc \in StepPC => d = e
  BY <1>2 DEF TimeInv
<1> QED BY <1>1, <1>2, <1>3 DEF TimeInv

LEMMA StepPCs ==
  /\ {"off", "arrived", "asked", "swap", "addTotal", "loadCount", "addCount"} \cap StepPC = {}
  /\ {"loadTotal", "foldLatency", "clearTotal", "clearCount", "exchange", "rate",
      "t_l", "t_h", "t_int", "t_bnd"} = StepPC
  /\ Off.pc = "off" /\ Off.sum = 0 /\ Off.next = 0
  BY DEF StepPC, FoldPC, Edges, Off

(* The winner of a swap is alone: a step before it would be younger than   *)
(* the interval that lies between the two stamps.                          *)
LEMMA TimeSwap ==
  ASSUME IInv, TimeInv, NEW c \in Cpus, Swap(c)
  PROVE  TimeInv'
<1>1. TypeOK /\ OpSound(op[c]) /\ clock' = clock
  BY DEF IInv, Swap
<1>2. CASE op'[c] = Off /\ gauge' = gauge
  <2>1. OthersRest(c)
    BY <1>1, SwapMoves
  <2> QED BY <1>1, <1>2, <2>1, StepPCs, TimeKept
<1>3. CASE ~(op'[c] = Off /\ gauge' = gauge)
  <2>1. /\ OthersRest(c) /\ op[c].pc = "swap"
        /\ op'[c].pc = "loadTotal" /\ op'[c].now = op[c].now
        /\ op'[c].last = op[c].last /\ op[c].last = gauge.step_at
        /\ gauge' = [gauge EXCEPT !.step_at = op[c].now]
    BY <1>1, <1>3, SwapMoves
  <2>2. gauge'.step_at = op[c].now /\ gauge.step_at \in Nat
    BY <1>1, <2>1 DEF TypeOK
  <2>3. /\ op[c].now \in Nat /\ op[c].now <= clock /\ clock < op[c].now + Interval
        /\ gauge.step_at + Interval <= op[c].now
    BY <1>1, <2>1 DEF TypeOK, TimeInv, OpSound
  <2>4. clock \in Nat /\ Interval \in Nat
    BY <1>1, AdaptAssumption DEF TypeOK
  <2>5. ASSUME NEW d \in Cpus PROVE op[d].pc \notin StepPC
    BY <2>3, <2>4, <2>2 DEF TimeInv
  <2>6. ASSUME NEW d \in Cpus, d # c
        PROVE  op'[d] = op[d] /\ op'[d].pc \notin StepPC
    BY <2>1, <2>5, <2>6 DEF OthersRest
  <2>7. ASSUME NEW d \in Cpus
        PROVE  /\ op'[d].pc \in {"asked", "swap"} \cup StepPC =>
                    op'[d].now <= clock' /\ clock' < op'[d].now + Interval
               /\ op'[d].pc \in StepPC =>
                    op'[d].now = gauge'.step_at /\ op'[d].last + Interval <= op'[d].now
    <3>1. CASE d = c
      BY <1>1, <2>1, <2>2, <2>3, <3>1
    <3>2. CASE d # c
      BY <1>1, <2>6, <3>2 DEF TimeInv
    <3> QED BY <3>1, <3>2
  <2>8. \A d, e \in Cpus : op'[d].pc \in StepPC /\ op'[e].pc \in StepPC => d = e
    BY <2>6
  <2>9. gauge'.step_at <= clock'
    BY <1>1, <2>2, <2>3
  <2> QED BY <2>7, <2>8, <2>9 DEF TimeInv
<1> QED BY <1>2, <1>3

LEMMA TimeStep == IInv /\ TimeInv /\ [Next]_vars => TimeInv'
<1> SUFFICES ASSUME IInv, TimeInv, [Next]_vars PROVE TimeInv'
  OBVIOUS
<1>0. TypeOK
  BY DEF IInv
<1>1. CASE UNCHANGED vars
  BY <1>1 DEF vars, TimeInv
<1>2. CASE Tick
  <2>1. /\ clock' = clock + 1 /\ op' = op /\ gauge' = gauge
        /\ \A c \in Cpus :
             op[c].pc \in {"asked", "swap"} \cup StepPC => clock + 1 < op[c].now + Interval
    BY <1>2 DEF Tick
  <2>2. clock \in Nat /\ gauge.step_at \in Nat /\ \A c \in Cpus : op[c].now \in Nat
    BY <1>0 DEF TypeOK
  <2>3. gauge'.step_at <= clock'
    BY <2>1, <2>2 DEF TimeInv
  <2>4. ASSUME NEW c \in Cpus, op[c].pc \in {"asked", "swap"} \cup StepPC
        PROVE  op'[c].now <= clock' /\ clock' < op'[c].now + Interval
    BY <2>1, <2>2, <2>4 DEF TimeInv
  <2> QED BY <2>1, <2>3, <2>4 DEF TimeInv
<1>3. ASSUME NEW c \in Cpus, NEW w \in Waits, Measure(c, w) PROVE TimeInv'
  <2>1. clock' = clock /\ gauge' = gauge
    BY <1>3 DEF Measure
  <2>2. OthersRest(c) /\ op'[c].pc = "addTotal"
    BY <1>0, <1>3, MeasureMoves
  <2> QED BY <1>0, <2>1, <2>2, StepPCs, TimeKept
<1>4. ASSUME NEW c \in Cpus, Running(c) \/ Enqueue(c) \/ Ask(c) \/ ReadStamp(c),
             ~\E w \in Waits : Measure(c, w)
      PROVE  TimeInv'
  <2>1. clock' = clock /\ gauge'.step_at = gauge.step_at
    BY <1>0, <1>4
    DEF Running, Enqueue, AddTotal, LoadCount, AddCount, Arrive, AddWindow, Ask, ReadStamp,
        TypeOK
  <2>2. OthersRest(c) /\ op'[c].pc \notin StepPC
    BY <1>0, <1>4, StepPCs, AddTotalMoves, LoadCountMoves, AddCountMoves, ArriveMoves,
       AddWindowMoves, AskMoves, ReadStampMoves
    DEF Running, Enqueue
  <2>3. op'[c].pc \in {"asked", "swap"} => op'[c].now <= clock /\ clock < op'[c].now + Interval
    <3>1. CASE Ask(c)
      BY <1>0, <3>1, AskMoves, AdaptAssumption DEF TypeOK
    <3>2. CASE ReadStamp(c)
      BY <1>0, <3>2, ReadStampMoves, StepPCs DEF TimeInv
    <3>3. CASE ~Ask(c) /\ ~ReadStamp(c)
      <4>1. op'[c].pc \notin {"asked", "swap"}
        BY <1>0, <1>4, <3>3, StepPCs, AddTotalMoves, LoadCountMoves, AddCountMoves, ArriveMoves,
           AddWindowMoves
        DEF Running, Enqueue
      <4> QED BY <4>1
    <3> QED BY <3>1, <3>2, <3>3
  <2> QED BY <1>0, <2>1, <2>2, <2>3, TimeKept
<1>5. ASSUME NEW c \in Cpus,
             LoadTotal(c) \/ FoldLatency(c) \/ ClearTotal(c) \/ ClearCount(c) \/ Exchange(c)
               \/ StepShift(c) \/ SetEdge(c)
      PROVE  TimeInv'
  <2>1. clock' = clock /\ gauge'.step_at = gauge.step_at
    BY <1>0, <1>5
    DEF LoadTotal, FoldLatency, ClearTotal, ClearCount, Exchange, StepShift, SetEdge, TypeOK
  <2>2. /\ OthersRest(c) /\ op[c].pc \in StepPC
        /\ op'[c] = Off \/ (op'[c].now = op[c].now /\ op'[c].last = op[c].last
                            /\ op'[c].pc \in StepPC)
    <3>1. CASE LoadTotal(c) \/ FoldLatency(c) \/ ClearTotal(c)
      BY <1>0, <3>1, FoldMoves, StepPCs DEF Steps
    <3>2. CASE ClearCount(c)
      BY <1>0, <3>2, ClearCountMoves, StepPCs DEF Steps
    <3>3. CASE Exchange(c)
      BY <1>0, <3>3, ExchangeMoves, StepPCs DEF Steps
    <3>4. CASE StepShift(c)
      BY <1>0, <3>4, StepShiftMoves, StepPCs DEF Steps
    <3>5. CASE SetEdge(c)
      BY <1>0, <3>5, SetEdgeMoves, StepPCs DEF Steps, After, Edges
    <3> QED BY <1>5, <3>1, <3>2, <3>3, <3>4, <3>5
  <2>3. op'[c].pc \in {"asked", "swap"} => FALSE
    BY <2>2, StepPCs
  <2> QED BY <1>0, <2>1, <2>2, <2>3, StepPCs, TimeKept
<1>6. ASSUME NEW c \in Cpus, Swap(c) PROVE TimeInv'
  BY <1>6, TimeSwap
<1> QED BY <1>1, <1>2, <1>3, <1>4, <1>5, <1>6 DEF Next, Running, Enqueue, MaybeStep

-----------------------------------------------------------------------------
(* Sums over the CPUs, by induction: a set of naturals that is not empty   *)
(* has a least element.                                                    *)

LEMMA LeastNat ==
  ASSUME NEW T, T \subseteq Nat, T # {}
  PROVE  \E x \in T : \A y \in T : x <= y
<1> DEFINE R == OpToRel(<, Nat)
<1>1. IsWellFoundedOn(R, Nat)
  BY NatLessThanWellFounded
<1>2. \E x \in T : \A y \in T : ~ (<<y, x>> \in R)
  <2> HIDE DEF R
  <2> QED BY <1>1, WFMin
<1>3. PICK x \in T : \A y \in T : ~ (<<y, x>> \in R)
  BY <1>2
<1>4. ASSUME NEW y \in T PROVE x <= y
  <2>1. ~(y < x)
    BY <1>3 DEF OpToRel
  <2> QED BY <2>1
<1> QED BY <1>4

LEMMA UpFromZero ==
  ASSUME NEW S, 0 \in S, \A n \in Nat : n \in S => n + 1 \in S
  PROVE  Nat \subseteq S
<1> SUFFICES ASSUME Nat \ S # {} PROVE FALSE
  OBVIOUS
<1>1. PICK x \in Nat \ S : \A y \in Nat \ S : x <= y
  BY LeastNat
<1>2. x - 1 \in Nat /\ x - 1 \in S
  BY <1>1
<1> QED BY <1>1, <1>2

(* Up to a bound.                                                          *)
LEMMA UpTo ==
  ASSUME NEW N \in Nat, NEW S, 0 \in S, \A n \in 0..(N - 1) : n \in S => n + 1 \in S
  PROVE  0..N \subseteq S
<1> DEFINE T == S \cup {n \in Nat : n > N}
<1>1. 0 \in T /\ \A n \in Nat : n \in T => n + 1 \in T
  OBVIOUS
<1>2. Nat \subseteq T
  <2> HIDE DEF T
  <2> QED BY <1>1, UpFromZero
<1> QED BY <1>2

-----------------------------------------------------------------------------
(* Sums.                                                                   *)


(* The recursive function in SumOver, unfolded.                            *)
Sums(f, u) == u = [n \in 0..NCpus |-> IF n = 0 THEN 0 ELSE u[n - 1] + f[n - 1]]

LEMMA SumOverDef ==
  ASSUME NEW f
  PROVE  \E u : Sums(f, u) /\ SumOver(f) = u[NCpus]
<1> DEFINE Def(q, n) == IF n = 0 THEN 0 ELSE q[n - 1] + f[n - 1]
           Some == {n \in Nat : \E q : q = [m \in 0..n |-> Def(q, m)]}
<1>1. 0 \in Some
  <2> DEFINE q == [m \in 0..0 |-> 0]
  <2>1. q = [m \in 0..0 |-> Def(q, m)]
    OBVIOUS
  <2> HIDE DEF q, Def
  <2> QED BY <2>1
<1>2. ASSUME NEW n \in Nat, n \in Some PROVE n + 1 \in Some
  <2>1. PICK q : q = [m \in 0..n |-> Def(q, m)]
    BY <1>2
  <2> DEFINE p == [m \in 0..(n + 1) |-> Def(q, m)]
  <2>2. ASSUME NEW d \in 0..(n + 1) PROVE p[d] = Def(p, d)
    <3>1. CASE d = 0
      BY <3>1
    <3>2. CASE d # 0
      <4>1. d - 1 \in 0..n /\ d - 1 \in 0..(n + 1)
        BY <3>2
      <4>2. q[d - 1] = Def(q, d - 1) /\ p[d - 1] = Def(q, d - 1) /\ p[d] = Def(q, d)
        <5> HIDE DEF Def
        <5> QED BY <2>1, <4>1
      <4> HIDE DEF p
      <4> QED BY <3>2, <4>2
    <3> QED BY <3>1, <3>2
  <2>3. p = [d \in 0..(n + 1) |-> Def(p, d)]
    <3> HIDE DEF Def
    <3> QED BY <2>2
  <2> HIDE DEF p, Def
  <2> QED BY <2>3
<1>3. NCpus \in Some
  <2> HIDE DEF Some
  <2> QED BY <1>1, <1>2, UpFromZero, AdaptAssumption
<1> DEFINE upto == CHOOSE u : u = [n \in 0..NCpus |-> Def(u, n)]
<1>4. upto = [n \in 0..NCpus |-> Def(upto, n)]
  <2> HIDE DEF Def
  <2> QED BY <1>3
<1>5. SumOver(f) = upto[NCpus]
  BY DEF SumOver
<1>6. Sums(f, upto)
  <2> HIDE DEF upto
  <2> QED BY <1>4 DEF Sums
<1> HIDE DEF upto
<1> QED BY <1>5, <1>6

LEMMA SumSteps ==
  ASSUME NEW f, NEW u, Sums(f, u)
  PROVE  u[0] = 0 /\ \A n \in 0..(NCpus - 1) : u[n + 1] = u[n] + f[n]
<1>1. \A n \in 0..NCpus : u[n] = IF n = 0 THEN 0 ELSE u[n - 1] + f[n - 1]
  BY DEF Sums
<1>2. ASSUME NEW n \in 0..(NCpus - 1) PROVE u[n + 1] = u[n] + f[n]
  <2>1. PICK m : m = n + 1
    OBVIOUS
  <2>2. m \in 0..NCpus /\ m # 0 /\ m - 1 = n
    BY <2>1, AdaptAssumption
  <2>3. u[m] = u[n] + f[n]
    BY <1>1, <2>2
  <2> QED BY <2>1, <2>3
<1>3. 0 \in 0..NCpus
  BY AdaptAssumption
<1> QED BY <1>1, <1>2, <1>3

LEMMA SumOfZeros ==
  ASSUME NEW f, \A c \in Cpus : f[c] = 0
  PROVE  SumOver(f) = 0
<1>1. PICK u : Sums(f, u) /\ SumOver(f) = u[NCpus]
  BY SumOverDef
<1>2. u[0] = 0 /\ \A n \in 0..(NCpus - 1) : u[n + 1] = u[n] + f[n]
  BY <1>1, SumSteps
<1> DEFINE T == {n \in Nat : u[n] = 0}
<1>3. 0 \in T /\ \A n \in 0..(NCpus - 1) : n \in T => n + 1 \in T
  <2>1. ASSUME NEW n \in 0..(NCpus - 1), n \in T PROVE n + 1 \in T
    <3>1. f[n] = 0 /\ u[n] = 0 /\ n + 1 \in Nat
      BY <2>1 DEF Cpus
    <3> QED BY <1>2, <3>1
  <2> QED BY <1>2, <2>1
<1>4. NCpus \in Nat
  BY AdaptAssumption
<1>5. 0..NCpus \subseteq T
  <2> HIDE DEF T
  <2> QED BY <1>3, <1>4, UpTo
<1> QED BY <1>1, <1>4, <1>5

(* Two families that differ at one CPU.                                    *)
LEMMA SumChanges ==
  ASSUME NEW f, NEW g, NEW c \in Cpus,
         \A d \in Cpus : f[d] \in Int /\ g[d] \in Int,
         \A d \in Cpus \ {c} : g[d] = f[d]
  PROVE  SumOver(f) \in Int /\ SumOver(g) = SumOver(f) + (g[c] - f[c])
<1>1. PICK u : Sums(f, u) /\ SumOver(f) = u[NCpus]
  BY SumOverDef
<1>2. PICK v : Sums(g, v) /\ SumOver(g) = v[NCpus]
  BY SumOverDef
<1>3. u[0] = 0 /\ \A n \in 0..(NCpus - 1) : u[n + 1] = u[n] + f[n]
  BY <1>1, SumSteps
<1>4. v[0] = 0 /\ \A n \in 0..(NCpus - 1) : v[n + 1] = v[n] + g[n]
  BY <1>2, SumSteps
<1>5. PICK x : x = g[c] - f[c] /\ x \in Int
  OBVIOUS
<1>6. c \in 0..(NCpus - 1) /\ Cpus = 0..(NCpus - 1) /\ NCpus \in Nat
  BY AdaptAssumption DEF Cpus
<1> DEFINE T == {n \in Nat : u[n] \in Int /\ v[n] = u[n] + (IF c < n THEN x ELSE 0)}
<1>7. 0 \in T
  BY <1>3, <1>4, <1>6
<1>8. ASSUME NEW n \in 0..(NCpus - 1), n \in T PROVE n + 1 \in T
  <2>1. /\ u[n + 1] = u[n] + f[n] /\ v[n + 1] = v[n] + g[n]
        /\ u[n] \in Int /\ f[n] \in Int /\ g[n] \in Int
        /\ v[n] = u[n] + (IF c < n THEN x ELSE 0)
    BY <1>3, <1>4, <1>6, <1>8
  <2>2. CASE n = c
    BY <1>5, <1>6, <2>1, <2>2
  <2>3. CASE n # c
    <3>1. g[n] = f[n] /\ (c < n + 1 <=> c < n) /\ n + 1 \in Nat
      BY <1>6, <2>3
    <3> QED BY <1>5, <2>1, <3>1
  <2> QED BY <2>2, <2>3
<1>9. NCpus \in T
  <2>1. 0..NCpus \subseteq T
    <3> HIDE DEF T
    <3> QED BY <1>6, <1>7, <1>8, UpTo
  <2> QED BY <1>6, <2>1
<1> QED BY <1>1, <1>2, <1>5, <1>6, <1>9

(* Two families between which an amount moved from a CPU to another one.   *)
LEMMA SumMoves ==
  ASSUME NEW f \in [Cpus -> Int], NEW g \in [Cpus -> Int], NEW c \in Cpus, NEW d \in Cpus,
         c # d, \A e \in Cpus \ {c, d} : g[e] = f[e], g[c] - f[c] = f[d] - g[d]
  PROVE  SumOver(g) = SumOver(f)
<1>1. PICK h : h = [f EXCEPT ![c] = g[c]]
  OBVIOUS
<1>2. \A e \in Cpus : h[e] = IF e = c THEN g[c] ELSE f[e]
  BY <1>1
<1>3. SumOver(f) \in Int /\ SumOver(h) = SumOver(f) + (h[c] - f[c])
  BY <1>2, SumChanges
<1>a. (\A e \in Cpus : h[e] \in Int /\ g[e] \in Int) /\ \A e \in Cpus \ {d} : g[e] = h[e]
  BY <1>2
<1>4. SumOver(h) \in Int /\ SumOver(g) = SumOver(h) + (g[d] - h[d])
  BY <1>a, SumChanges
<1> QED BY <1>2, <1>3, <1>4

-----------------------------------------------------------------------------
(* The arrivals.                                                           *)

(* What a CPU holds of the arrivals, and when.                             *)
Held(c) == slot[c].window + op[c].sum + (IF op[c].pc = "arrived" THEN 1 ELSE 0)

HoldsInv ==
  /\ \A c \in Cpus : /\ op[c].pc \notin {"exchange", "rate"} => op[c].sum = 0 /\ op[c].next = 0
                     /\ op[c].pc = "exchange" => op[c].next \in Cpus
  /\ ArrivalsConserved

Counted == [c \in Cpus |-> slot[c].total]
Holding == [c \in Cpus |-> Held(c)]

LEMMA ConservedSums == ArrivalsConserved <=> SumOver(Counted) = folded + SumOver(Holding)
  BY DEF ArrivalsConserved, Arrivals, Counted, Holding, Held

LEMMA HoldsBegins == Init => HoldsInv
<1> SUFFICES ASSUME Init PROVE HoldsInv
  OBVIOUS
<1>1. \A c \in Cpus : op[c] = Off /\ slot[c].total = 0 /\ slot[c].window = 0
  BY DEF Init
<1>2. \A c \in Cpus : Counted[c] = 0 /\ Holding[c] = 0
  BY <1>1, StepPCs DEF Counted, Holding, Held
<1>3. SumOver(Counted) = 0 /\ SumOver(Holding) = 0
  BY <1>2, SumOfZeros
<1> QED BY <1>1, <1>3, StepPCs, ConservedSums DEF HoldsInv, Init

HeldNumbers ==
  \A c \in Cpus : /\ Counted[c] = slot[c].total /\ Counted[c] \in Int
                 /\ Holding[c] = Held(c) /\ Holding[c] \in Int

LEMMA HeldTyped == TypeOK => HeldNumbers
  BY DEF HeldNumbers, TypeOK, Counted, Holding, Held

(* What an operation adds at its CPU it adds once, and what it takes away  *)
(* it folds.                                                               *)
LEMMA HoldsKept ==
  ASSUME TypeOK, TypeOK', HoldsInv, NEW c \in Cpus, OthersRest(c),
         \A d \in Cpus \ {c} : slot'[d] = slot[d],
         (slot'[c].total - slot[c].total) = (Held(c)' - Held(c)) + (folded' - folded),
         op'[c].pc \notin {"exchange", "rate"} => op'[c].sum = 0 /\ op'[c].next = 0,
         op'[c].pc = "exchange" => op'[c].next \in Cpus
  PROVE  HoldsInv'
<1>1. \A d \in Cpus \ {c} : op'[d] = op[d] /\ slot'[d] = slot[d]
  BY DEF OthersRest
<1>2. PICK f, g : f = Counted /\ g = Counted'
  OBVIOUS
<1>3. PICK h, k : h = Holding /\ k = Holding'
  OBVIOUS
<1>4. \A d \in Cpus : f[d] = slot[d].total /\ f[d] \in Int /\ h[d] = Held(d) /\ h[d] \in Int
  BY <1>2, <1>3, HeldTyped DEF HeldNumbers
<1>5. \A d \in Cpus : g[d] = slot'[d].total /\ g[d] \in Int /\ k[d] = Held(d)' /\ k[d] \in Int
  <2>1. HeldNumbers'
    BY HeldTyped, PTL
  <2> QED BY <1>2, <1>3, <2>1 DEF HeldNumbers
<1>6. \A d \in Cpus \ {c} : g[d] = f[d] /\ k[d] = h[d]
  BY <1>1, <1>4, <1>5 DEF Held
<1>7. SumOver(f) \in Int /\ SumOver(g) = SumOver(f) + (g[c] - f[c])
  BY <1>4, <1>5, <1>6, SumChanges
<1>8. SumOver(h) \in Int /\ SumOver(k) = SumOver(h) + (k[c] - h[c])
  BY <1>4, <1>5, <1>6, SumChanges
<1>9. SumOver(f) = folded + SumOver(h)
  BY <1>2, <1>3, ConservedSums DEF HoldsInv
<1>10. folded \in Int /\ folded' \in Int
  BY DEF TypeOK
<1>11. SumOver(g) = folded' + SumOver(k)
  BY <1>4, <1>5, <1>7, <1>8, <1>9, <1>10
<1>12. ArrivalsConserved'
  <2>1. (ArrivalsConserved <=> SumOver(Counted) = folded + SumOver(Holding))'
    BY ConservedSums, PTL
  <2>2. SumOver(Counted)' = SumOver(g) /\ SumOver(Holding)' = SumOver(k)
    BY <1>2, <1>3 DEF SumOver
  <2> QED BY <1>11, <2>1, <2>2
<1>13. ASSUME NEW d \in Cpus
       PROVE  /\ op'[d].pc \notin {"exchange", "rate"} => op'[d].sum = 0 /\ op'[d].next = 0
              /\ op'[d].pc = "exchange" => op'[d].next \in Cpus
  BY <1>1 DEF HoldsInv
<1> QED BY <1>12, <1>13 DEF HoldsInv

(* An exchange moves a window from the slot of one CPU to the sum of       *)
(* another.                                                                *)
LEMMA HoldsExchange ==
  ASSUME TypeOK, TypeOK', HoldsInv, NEW c \in Cpus, Exchange(c)
  PROVE  HoldsInv'
<1>1. PICK to \in {"exchange", "rate"} :
        /\ Steps(c, "exchange", to) /\ (to = "exchange" => op'[c].next \in Cpus)
        /\ op[c].next \in Cpus
        /\ op'[c].sum = op[c].sum + slot[op[c].next].window
        /\ slot' = [slot EXCEPT ![op[c].next].window = 0]
  BY ExchangeMoves
<1>2. PICK d \in Cpus : d = op[c].next
  BY <1>1
<1>3. /\ OthersRest(c) /\ op[c].pc = "exchange" /\ op'[c].pc = to /\ folded' = folded
  BY <1>1 DEF Steps, Exchange
<1>4. /\ slot'[d].window = 0 /\ slot'[d].total = slot[d].total
      /\ \A e \in Cpus \ {d} : slot'[e] = slot[e]
      /\ op'[c].sum = op[c].sum + slot[d].window
  BY <1>1, <1>2 DEF TypeOK
<1>5. \A e \in Cpus : slot[e].window \in Int /\ slot[e].total \in Int /\ op[e].sum \in Int
  BY DEF TypeOK
<1>6. CASE d = c
  <2>1. Held(c)' = Held(c) /\ Held(c) \in Int /\ slot'[c].total = slot[c].total
    BY <1>3, <1>4, <1>5, <1>6 DEF Held
  <2>2. (slot'[c].total - slot[c].total) = (Held(c)' - Held(c)) + (folded' - folded)
    BY <1>3, <1>5, <2>1 DEF TypeOK
  <2> QED BY <1>1, <1>3, <1>4, <1>6, <2>2, HoldsKept
<1>7. CASE d # c
  <2>1. /\ Held(c)' = Held(c) + slot[d].window
        /\ Held(d)' = Held(d) - slot[d].window
        /\ \A e \in Cpus \ {c, d} : Held(e)' = Held(e)
    <3>1. Held(c)' = Held(c) + slot[d].window
      BY <1>3, <1>4, <1>5, <1>7 DEF Held
    <3>2. Held(d)' = Held(d) - slot[d].window
      BY <1>3, <1>4, <1>5, <1>7 DEF Held, OthersRest
    <3>3. \A e \in Cpus \ {c, d} : Held(e)' = Held(e)
      BY <1>3, <1>4, <1>5, <1>7 DEF Held, OthersRest
    <3> QED BY <3>1, <3>2, <3>3
  <2>2. PICK h, k : h = Holding /\ k = Holding'
    OBVIOUS
  <2>3. h \in [Cpus -> Int] /\ \A e \in Cpus : h[e] = Held(e) /\ Held(e) \in Int
    BY <2>2, HeldTyped DEF Holding, HeldNumbers
  <2>4. k \in [Cpus -> Int] /\ \A e \in Cpus : k[e] = Held(e)'
    <3>1. HeldNumbers'
      BY HeldTyped, PTL
    <3>2. k = [e \in Cpus |-> Held(e)']
      BY <2>2 DEF Holding
    <3> QED BY <2>2, <3>1, <3>2 DEF HeldNumbers
  <2>5. SumOver(k) = SumOver(h)
    <3>1. \A e \in Cpus \ {c, d} : k[e] = h[e]
      BY <2>1, <2>3, <2>4
    <3>2. k[c] - h[c] = h[d] - k[d]
      BY <1>5, <2>1, <2>3, <2>4
    <3> QED BY <1>7, <2>3, <2>4, <3>1, <3>2, SumMoves
  <2>6. Counted' = Counted
    <3>1. Counted' = [e \in Cpus |-> slot'[e].total]
      BY DEF Counted
    <3>2. \A e \in Cpus : slot'[e].total = slot[e].total
      BY <1>4
    <3> QED BY <3>1, <3>2 DEF Counted
  <2>7. ArrivalsConserved'
    <3>1. (ArrivalsConserved <=> SumOver(Counted) = folded + SumOver(Holding))'
      BY ConservedSums, PTL
    <3>2. SumOver(Counted)' = SumOver(Counted) /\ SumOver(Holding)' = SumOver(h)
      BY <2>2, <2>5, <2>6 DEF SumOver
    <3>3. SumOver(Counted) = folded + SumOver(h)
      BY <2>2, ConservedSums DEF HoldsInv
    <3> QED BY <1>3, <3>1, <3>2, <3>3
  <2>8. ASSUME NEW e \in Cpus
        PROVE  /\ op'[e].pc \notin {"exchange", "rate"} => op'[e].sum = 0 /\ op'[e].next = 0
               /\ op'[e].pc = "exchange" => op'[e].next \in Cpus
    BY <1>1, <1>3 DEF HoldsInv, OthersRest
  <2> QED BY <2>7, <2>8 DEF HoldsInv
<1> QED BY <1>6, <1>7

LEMMA HoldsStep == TypeOK /\ TypeOK' /\ HoldsInv /\ [Next]_vars => HoldsInv'
<1> SUFFICES ASSUME TypeOK, TypeOK', HoldsInv, [Next]_vars PROVE HoldsInv'
  OBVIOUS
<1>0. \A c \in Cpus : slot[c].window \in Int /\ slot[c].total \in Int /\ op[c].sum \in Int
                     /\ folded \in Int
  BY DEF TypeOK
<1>1. CASE UNCHANGED <<slot, op, folded>>
  BY <1>1 DEF HoldsInv, ArrivalsConserved, Arrivals, SumOver
<1>2. ASSUME NEW c \in Cpus, OthersRest(c), slot' = slot, folded' = folded,
             op[c].pc \notin {"arrived", "exchange", "rate"},
             op'[c].pc \notin {"arrived", "rate"},
             op'[c] = Off \/ (op'[c].sum = op[c].sum /\ op'[c].next = op[c].next)
      PROVE  HoldsInv'
  <2>1. op[c].sum = 0 /\ op[c].next = 0 /\ op'[c].sum = 0 /\ op'[c].next = 0
    BY <1>2, StepPCs DEF HoldsInv
  <2>2. Held(c)' = Held(c) /\ Held(c) \in Int
    BY <1>0, <1>2, <2>1 DEF Held
  <2>3. (slot'[c].total - slot[c].total) = (Held(c)' - Held(c)) + (folded' - folded)
    BY <1>0, <1>2, <2>2
  <2>4. 0 \in Cpus
    BY AdaptAssumption DEF Cpus
  <2> QED BY <1>2, <2>1, <2>3, <2>4, HoldsKept
<1>3. ASSUME NEW c \in Cpus, Arrive(c) PROVE HoldsInv'
  <2>1. /\ OthersRest(c) /\ op[c].pc = "off" /\ op'[c].pc = "arrived"
        /\ op'[c].sum = op[c].sum /\ op'[c].next = op[c].next
    BY <1>3, ArriveMoves
  <2>2. /\ slot'[c].total = slot[c].total + 1 /\ slot'[c].window = slot[c].window
        /\ folded' = folded /\ \A d \in Cpus \ {c} : slot'[d] = slot[d]
    BY <1>3 DEF Arrive, TypeOK
  <2>3. Held(c)' = Held(c) + 1 /\ Held(c) \in Int
    BY <1>0, <2>1, <2>2 DEF Held
  <2>4. (slot'[c].total - slot[c].total) = (Held(c)' - Held(c)) + (folded' - folded)
    BY <1>0, <2>2, <2>3
  <2>5. op'[c].sum = 0 /\ op'[c].next = 0
    BY <2>1 DEF HoldsInv
  <2> QED BY <2>1, <2>2, <2>4, <2>5, HoldsKept
<1>4. ASSUME NEW c \in Cpus, AddWindow(c) PROVE HoldsInv'
  <2>1. OthersRest(c) /\ op[c].pc = "arrived" /\ op'[c] = Off
    BY <1>4, AddWindowMoves
  <2>2. /\ slot'[c].total = slot[c].total /\ slot'[c].window = slot[c].window + 1
        /\ folded' = folded /\ \A d \in Cpus \ {c} : slot'[d] = slot[d]
    BY <1>4 DEF AddWindow, TypeOK
  <2>5. op[c].sum = 0 /\ op'[c].sum = 0 /\ op'[c].next = 0 /\ op'[c].pc = "off"
    BY <2>1, StepPCs DEF HoldsInv
  <2>3. Held(c)' = Held(c) /\ Held(c) \in Int
    BY <1>0, <2>1, <2>2, <2>5 DEF Held
  <2>4. (slot'[c].total - slot[c].total) = (Held(c)' - Held(c)) + (folded' - folded)
    BY <1>0, <2>2, <2>3
  <2> QED BY <2>1, <2>2, <2>4, <2>5, HoldsKept
<1>5. ASSUME NEW c \in Cpus, StepShift(c) PROVE HoldsInv'
  <2>1. /\ OthersRest(c) /\ op[c].pc = "rate" /\ op'[c].pc = "t_l"
        /\ op'[c].sum = 0 /\ op'[c].next = 0
    BY <1>5, StepShiftMoves DEF Steps
  <2>2. slot' = slot /\ folded' = folded + op[c].sum
    BY <1>5 DEF StepShift
  <2>3. Held(c)' = Held(c) - op[c].sum /\ Held(c) \in Int
    BY <1>0, <2>1, <2>2 DEF Held
  <2>4. (slot'[c].total - slot[c].total) = (Held(c)' - Held(c)) + (folded' - folded)
    BY <1>0, <2>2, <2>3
  <2> QED BY <2>1, <2>2, <2>4, HoldsKept
<1>6. ASSUME NEW c \in Cpus, Exchange(c) PROVE HoldsInv'
  BY <1>6, HoldsExchange
<1>7. ASSUME NEW c \in Cpus, NEW w \in Waits, Measure(c, w) PROVE HoldsInv'
  <2>1. slot' = slot /\ folded' = folded
    BY <1>7 DEF Measure
  <2> QED BY <1>2, <1>7, <2>1, MeasureMoves
<1>8. ASSUME NEW c \in Cpus, AddTotal(c) \/ LoadCount(c) \/ AddCount(c) PROVE HoldsInv'
  <2>1. slot' = slot /\ folded' = folded
    BY <1>8 DEF AddTotal, LoadCount, AddCount
  <2> QED BY <1>2, <1>8, <2>1, AddTotalMoves, LoadCountMoves, AddCountMoves, StepPCs
<1>9. ASSUME NEW c \in Cpus, Ask(c) \/ ReadStamp(c) \/ Swap(c) PROVE HoldsInv'
  <2>1. slot' = slot /\ folded' = folded
    BY <1>9 DEF Ask, ReadStamp, Swap
  <2> QED BY <1>2, <1>9, <2>1, AskMoves, ReadStampMoves, SwapMoves, StepPCs
<1>10. ASSUME NEW c \in Cpus, LoadTotal(c) \/ FoldLatency(c) \/ ClearTotal(c) \/ ClearCount(c)
       PROVE  HoldsInv'
  <2>1. slot' = slot /\ folded' = folded
    BY <1>10 DEF LoadTotal, FoldLatency, ClearTotal, ClearCount
  <2> QED BY <1>2, <1>10, <2>1, FoldMoves, ClearCountMoves, StepPCs DEF Steps
<1>11. ASSUME NEW c \in Cpus, SetEdge(c) PROVE HoldsInv'
  <2>1. slot' = slot /\ folded' = folded
    BY <1>11 DEF SetEdge
  <2>2. op'[c].pc \notin {"arrived", "rate"}
    BY <1>11, SetEdgeMoves, StepPCs DEF Steps, After, Edges
  <2>3. op[c].pc \notin {"arrived", "exchange", "rate"}
    BY <1>11, SetEdgeMoves DEF Edges
  <2>4. OthersRest(c) /\ (op'[c] = Off \/ (op'[c].sum = op[c].sum /\ op'[c].next = op[c].next))
    BY <1>11, SetEdgeMoves
  <2> QED BY <1>2, <2>1, <2>2, <2>3, <2>4
<1>12. CASE Tick
  BY <1>1, <1>12 DEF Tick
<1>13. CASE UNCHANGED vars
  BY <1>1, <1>13 DEF vars
<1> QED BY <1>3, <1>4, <1>5, <1>6, <1>7, <1>8, <1>9, <1>10, <1>11, <1>12, <1>13
        DEF Next, Running, Enqueue, MaybeStep

-----------------------------------------------------------------------------
(* The edges.                                                              *)

(* How far one step may move an edge.                                     *)
Reach(e) == (base[e] * MaxStep) \div FpOne + 1

(* A slew moves the shift by at most one step (mlfq_adapt_slew).           *)
LEMMA SlewBounded ==
  ASSUME NEW s \in 0..MaxShift, NEW t \in 0..MaxShift
  PROVE  Slew(s, t) <= s + MaxStep /\ s <= Slew(s, t) + MaxStep
  BY AdaptAssumption DEF Slew, MaxShift, FpOne

(* Quotients of sums.                                                      *)
LEMMA QuotientOfSum ==
  ASSUME NEW x \in Nat, NEW y \in Nat, NEW z \in Nat, z <= x + y
  PROVE  z \div 256 <= x \div 256 + (y \div 256 + 1)
  BY SMT

LEMMA QuotientMonotone ==
  ASSUME NEW x \in Nat, NEW y \in Nat, x <= y
  PROVE  x \div 256 <= y \div 256
  BY SMT

LEMMA ScaledSlew ==
  ASSUME NEW b \in Nat, NEW s \in Nat, NEW t \in Nat, NEW m \in Nat, s <= t + m
  PROVE  (b * s) \div 256 <= (b * t) \div 256 + ((b * m) \div 256 + 1)
<1>1. PICK x, y, z : x = b * t /\ y = b * m /\ z = b * s
  OBVIOUS
<1>2. x \in Nat /\ y \in Nat /\ z \in Nat
  BY <1>1
<1>3. z <= x + y
  <2>1. b * s <= b * (t + m)
    <3>1. PICK d \in Nat : t + m = s + d
      <4>1. t + m - s \in Nat /\ t + m = s + (t + m - s)
        OBVIOUS
      <4> QED BY <4>1
    <3>2. b * (s + d) = b * s + b * d /\ b * d \in Nat /\ b * s \in Nat
      OBVIOUS
    <3> QED BY <3>1, <3>2
  <2>2. b * (t + m) = b * t + b * m
    OBVIOUS
  <2> QED BY <1>1, <2>1, <2>2
<1>4. z \div 256 <= x \div 256 + (y \div 256 + 1)
  BY <1>2, <1>3, QuotientOfSum
<1> QED BY <1>1, <1>4

(* Clamping brings two values no further apart.                            *)
LEMMA ClampedSlew ==
  ASSUME NEW x \in Nat, NEW y \in Nat, NEW r \in Nat, NEW lo \in Nat, NEW hi \in Nat,
         x <= y + r
  PROVE  Capped(IF x < lo THEN lo ELSE x, hi) <= Capped(IF y < lo THEN lo ELSE y, hi) + r
  BY DEF Capped

LEMMA BandSlewed ==
  ASSUME NEW e \in Edges, base \in Bases, NEW s \in 0..MaxShift, NEW t \in 0..MaxShift,
         s <= t + MaxStep
  PROVE  Band(e, s) <= Band(e, t) + Reach(e)
<1>1. PICK b : b = base[e]
  OBVIOUS
<1>2. b \in Nat /\ Floor[e] \in Nat /\ Ceil[e] \in Nat /\ MaxStep \in Nat
  BY <1>1, AdaptAssumption DEF Edges, Floor, Ceil
<1>3. s \in Nat /\ t \in Nat
  BY DEF MaxShift, FpOne
<1>4. (b * s) \div 256 <= (b * t) \div 256 + ((b * MaxStep) \div 256 + 1)
  BY <1>2, <1>3, ScaledSlew
<1>5. PICK x, y, r : x = b + (b * s) \div 256 /\ y = b + (b * t) \div 256
                     /\ r = (b * MaxStep) \div 256 + 1
  OBVIOUS
<1>6. (b * s) \div 256 \in Nat /\ (b * t) \div 256 \in Nat /\ (b * MaxStep) \div 256 \in Nat
  <2>1. b * s \in Nat /\ b * t \in Nat /\ b * MaxStep \in Nat
    BY <1>2, <1>3
  <2> QED BY <2>1, QuotientBound
<1>7. x \in Nat /\ y \in Nat /\ r \in Nat /\ x <= y + r
  BY <1>2, <1>4, <1>5, <1>6
<1>8. Capped(IF x < Floor[e] THEN Floor[e] ELSE x, Ceil[e])
        <= Capped(IF y < Floor[e] THEN Floor[e] ELSE y, Ceil[e]) + r
  BY <1>2, <1>7, ClampedSlew
<1> QED BY <1>1, <1>5, <1>8 DEF Band, Reach, FpOne

(* Without a shift an edge is at its base.                                 *)
LEMMA BandAtRest ==
  ASSUME NEW e \in Edges, base \in Bases
  PROVE  Band(e, 0) = base[e]
<1>1. base[e] \in Floor[e]..Ceil[e] /\ base[e] \in Nat
  BY AdaptAssumption
<1>2. Floor[e] \in Nat /\ Ceil[e] \in Nat
  BY DEF Edges, Floor, Ceil
<1>3. (base[e] * 0) \div FpOne = 0
  BY <1>1 DEF FpOne
<1>4. base[e] + (base[e] * 0) \div FpOne = base[e]
  BY <1>1, <1>3
<1> QED BY <1>1, <1>2, <1>4 DEF Band, Capped

LEMMA BandNumbers ==
  ASSUME base \in Bases, NEW s \in 0..MaxShift
  PROVE  \A e \in Edges : Band(e, s) \in Nat /\ Reach(e) \in Nat /\ base[e] \in Nat
<1> SUFFICES ASSUME NEW e \in Edges
             PROVE  Band(e, s) \in Nat /\ Reach(e) \in Nat /\ base[e] \in Nat
  OBVIOUS
<1>1. base[e] \in Nat /\ MaxStep \in Nat
  BY AdaptAssumption
<1>2. Floor[e] \in Nat /\ Ceil[e] \in Nat
  BY DEF Edges, Floor, Ceil
<1>3. (base[e] * MaxStep) \div FpOne \in Nat
  <2>1. base[e] * MaxStep \in Nat
    BY <1>1
  <2> QED BY <2>1, QuotientBound DEF FpOne
<1> QED BY <1>1, <1>2, <1>3, BandRange DEF Reach

(* The edges a step has still to write are those from its own on.          *)
Ahead == [t_l |-> {"t_l"}, t_h |-> {"t_l", "t_h"}, t_int |-> {"t_l", "t_h", "t_int"},
          t_bnd |-> Edges]

EdgesInv ==
  \A e \in Edges :
    /\ edge[e] \in (Band(e, shift) - Reach(e))..(Band(e, shift) + Reach(e))
    /\ (\A c \in Cpus : op[c].pc \notin Ahead[e]) => edge[e] = Band(e, shift)

LEMMA EdgesBegin == Init => EdgesInv
<1> SUFFICES ASSUME Init PROVE EdgesInv
  OBVIOUS
<1>1. base \in Bases /\ edge = base /\ shift = 0 /\ 0 \in 0..MaxShift
  BY DEF Init, MaxShift, FpOne
<1> QED BY <1>1, BandAtRest, BandNumbers DEF EdgesInv

LEMMA EdgesKept ==
  ASSUME EdgesInv, edge' = edge, shift' = shift, base' = base,
         NEW c \in Cpus, OthersRest(c), op[c].pc \notin Edges, op'[c].pc \notin Edges
  PROVE  EdgesInv'
<1>1. \A e \in Edges : Ahead[e] \subseteq Edges
  BY DEF Ahead, Edges
<1>2. \A e \in Edges, d \in Cpus : op'[d].pc \in Ahead[e] <=> op[d].pc \in Ahead[e]
  BY <1>1 DEF OthersRest
<1>3. \A e \in Edges : Band(e, shift)' = Band(e, shift) /\ Reach(e)' = Reach(e)
  BY DEF Band, Reach
<1> QED BY <1>2, <1>3 DEF EdgesInv

LEMMA EdgesShift ==
  ASSUME IInv, IInv', TimeInv, EdgesInv, NEW c \in Cpus, StepShift(c)
  PROVE  EdgesInv'
<1>1. /\ OthersRest(c) /\ op[c].pc = "rate" /\ op'[c].pc = "t_l"
  BY StepShiftMoves DEF Steps, IInv
<1>2. \A d \in Cpus : op[d].pc \notin Edges
  <2>1. ASSUME NEW d \in Cpus, op[d].pc \in Edges PROVE FALSE
    <3>1. op[d].pc \in StepPC /\ op[c].pc \in StepPC
      BY <1>1, <2>1 DEF StepPC
    <3>2. d = c
      BY <3>1 DEF TimeInv
    <3> QED BY <1>1, <2>1, <3>2 DEF Edges
  <2> QED BY <2>1
<1>3. \A e \in Edges : Ahead[e] \subseteq Edges /\ "t_l" \in Ahead[e]
  BY DEF Ahead, Edges
<1>4. \A e \in Edges : edge[e] = Band(e, shift)
  BY <1>2, <1>3 DEF EdgesInv
<1>5. PICK rate : rate = RateStep(gauge.rate_ema, op[c].sum, Elapsed(c))
  OBVIOUS
<1>6. PICK t : t = ShiftTarget(gauge.lat_ema, rate)
  OBVIOUS
<1>7. shift' = Slew(shift, t) /\ edge' = edge /\ base' = base
  BY <1>5, <1>6 DEF StepShift
<1>8. TypeOK /\ op[c] \in OpType /\ gauge \in GaugeType
  BY DEF IInv, TypeOK, OpType, GaugeType
<1>9. rate \in Nat
  BY <1>5, <1>8, RateStepType DEF GaugeType, OpType, Elapsed
<1>10. t \in 0..MaxShift /\ shift \in 0..MaxShift /\ base \in Bases
  BY <1>6, <1>8, <1>9, TargetRange DEF GaugeType, TypeOK
<1>11. PICK s \in 0..MaxShift : s = shift' /\ s <= shift + MaxStep /\ shift <= s + MaxStep
  BY <1>7, <1>10, SlewBounded, SlewRange
<1>12. ASSUME NEW e \in Edges
       PROVE  /\ edge'[e] \in (Band(e, shift)' - Reach(e)')..(Band(e, shift)' + Reach(e)')
              /\ (\A d \in Cpus : op'[d].pc \notin Ahead[e]) => edge'[e] = Band(e, shift)'
  <2>1. Band(e, shift)' = Band(e, s) /\ Reach(e)' = Reach(e)
    BY <1>7, <1>11 DEF Band, Reach
  <2>2. Band(e, s) <= Band(e, shift) + Reach(e) /\ Band(e, shift) <= Band(e, s) + Reach(e)
    BY <1>10, <1>11, BandSlewed
  <2>3. Band(e, s) \in Nat /\ Band(e, shift) \in Nat /\ Reach(e) \in Nat
    BY <1>10, BandNumbers
  <2>4. edge'[e] = Band(e, shift)
    BY <1>4, <1>7
  <2> QED BY <1>1, <1>3, <2>1, <2>2, <2>3, <2>4
<1> QED BY <1>12 DEF EdgesInv

LEMMA EdgesSet ==
  ASSUME IInv, TimeInv, EdgesInv, NEW c \in Cpus, SetEdge(c)
  PROVE  EdgesInv'
<1>1. /\ OthersRest(c) /\ op[c].pc \in Edges
      /\ edge' = [edge EXCEPT ![op[c].pc] = Band(op[c].pc, shift)]
      /\ \/ op[c].pc = "t_bnd" /\ op'[c] = Off
         \/ op[c].pc # "t_bnd" /\ op'[c].pc = After[op[c].pc]
  BY SetEdgeMoves DEF IInv, Steps
<1>2. PICK b \in Edges : b = op[c].pc
  BY <1>1
<1>3. ASSUME NEW d \in Cpus \ {c} PROVE op[d].pc \notin Edges /\ op'[d].pc \notin Edges
  BY <1>1 DEF OthersRest, TimeInv, StepPC
<1>4. shift' = shift /\ base' = base /\ shift \in 0..MaxShift /\ base \in Bases
      /\ edge \in [Edges -> Nat]
  BY DEF SetEdge, IInv, TypeOK
<1>5. \A e \in Edges : edge'[e] = IF e = b THEN Band(b, shift) ELSE edge[e]
  BY <1>1, <1>2, <1>4
<1>6. ASSUME NEW e \in Edges
      PROVE  /\ edge'[e] \in (Band(e, shift)' - Reach(e)')..(Band(e, shift)' + Reach(e)')
             /\ (\A d \in Cpus : op'[d].pc \notin Ahead[e]) => edge'[e] = Band(e, shift)'
  <2>1. Band(e, shift)' = Band(e, shift) /\ Reach(e)' = Reach(e)
    BY <1>4 DEF Band, Reach
  <2>2. Band(e, shift) \in Nat /\ Reach(e) \in Nat
    BY <1>4, BandNumbers
  <2>3. CASE e = b
    BY <1>5, <2>1, <2>2, <2>3
  <2>4. CASE e # b
    <3>1. edge'[e] = edge[e]
      BY <1>5, <2>4
    <3>2. ASSUME \A d \in Cpus : op'[d].pc \notin Ahead[e] PROVE edge[e] = Band(e, shift)
      <4>1. op'[c].pc \notin Ahead[e]
        BY <3>2
      <4>2. b \notin Ahead[e]
        BY <1>1, <1>2, <2>4, <4>1 DEF Ahead, After, Edges
      <4>3. \A d \in Cpus : op[d].pc \notin Ahead[e]
        BY <1>2, <1>3, <4>2 DEF Ahead, Edges
      <4> QED BY <4>3 DEF EdgesInv
    <3> QED BY <2>1, <3>1, <3>2 DEF EdgesInv
  <2> QED BY <2>3, <2>4
<1> QED BY <1>6 DEF EdgesInv

LEMMA EdgesStep == IInv /\ IInv' /\ TimeInv /\ EdgesInv /\ [Next]_vars => EdgesInv'
<1> SUFFICES ASSUME IInv, IInv', TimeInv, EdgesInv, [Next]_vars PROVE EdgesInv'
  OBVIOUS
<1>0. TypeOK
  BY DEF IInv
<1>1. CASE UNCHANGED <<edge, shift, base, op>>
  BY <1>1 DEF EdgesInv, Band, Reach
<1>2. ASSUME NEW c \in Cpus, Running(c) \/ Enqueue(c) PROVE EdgesInv'
  <2>1. edge' = edge /\ shift' = shift /\ base' = base
    BY <1>2 DEF Running, Enqueue, Measure, AddTotal, LoadCount, AddCount, Arrive, AddWindow
  <2>2. OthersRest(c) /\ op[c].pc \notin Edges /\ op'[c].pc \notin Edges
    BY <1>0, <1>2, MeasureMoves, AddTotalMoves, LoadCountMoves, AddCountMoves, ArriveMoves,
       AddWindowMoves, StepPCs
    DEF Running, Enqueue, Edges
  <2> QED BY <2>1, <2>2, EdgesKept
<1>3. ASSUME NEW c \in Cpus,
             Ask(c) \/ ReadStamp(c) \/ Swap(c) \/ LoadTotal(c) \/ FoldLatency(c)
               \/ ClearTotal(c) \/ ClearCount(c) \/ Exchange(c)
      PROVE  EdgesInv'
  <2>1. edge' = edge /\ shift' = shift /\ base' = base
    BY <1>3 DEF Ask, ReadStamp, Swap, LoadTotal, FoldLatency, ClearTotal, ClearCount, Exchange
  <2>2. OthersRest(c) /\ op[c].pc \notin Edges /\ op'[c].pc \notin Edges
    BY <1>0, <1>3, AskMoves, ReadStampMoves, SwapMoves, FoldMoves, ClearCountMoves,
       ExchangeMoves, StepPCs
    DEF Steps, Edges
  <2> QED BY <2>1, <2>2, EdgesKept
<1>4. ASSUME NEW c \in Cpus, StepShift(c) PROVE EdgesInv'
  BY <1>4, EdgesShift
<1>5. ASSUME NEW c \in Cpus, SetEdge(c) PROVE EdgesInv'
  BY <1>5, EdgesSet
<1>6. CASE Tick
  BY <1>1, <1>6 DEF Tick
<1>7. CASE UNCHANGED vars
  BY <1>1, <1>7 DEF vars
<1> QED BY <1>2, <1>3, <1>4, <1>5, <1>6, <1>7 DEF Next, MaybeStep

-----------------------------------------------------------------------------
(* The latency of a quiet machine.                                         *)

LEMMA Excess ==
  ASSUME NEW x \in Nat, NEW y \in Nat, x <= y
  PROVE  \E k \in Nat : y = x + k
<1>1. y - x \in Nat /\ y = x + (y - x)
  OBVIOUS
<1> QED BY <1>1

(* The two roundings of a fold together stay under the target: the value   *)
(* a is a decayed by the factor g over p, and f is one decayed alike.      *)
LEMMA DecayedPart ==
  ASSUME NEW dl \in Nat, NEW d1 \in Nat, NEW p \in Nat \ {0}, NEW g \in 0..256,
         dl * p <= TargetLat, 257 <= (d1 + 1) * p
  PROVE  256 * (dl * g) <= 20 * (d1 * g) + 5120
<1>1. 256 * dl <= 20 * (d1 + 1)
  <2> SUFFICES ASSUME 20 * (d1 + 1) < 256 * dl PROVE FALSE
    OBVIOUS
  <2>1. (20 * (d1 + 1)) * p <= (256 * dl) * p
    <3>1. PICK k \in Nat : 256 * dl = 20 * (d1 + 1) + k
      <4>1. 256 * dl \in Nat /\ 20 * (d1 + 1) \in Nat /\ 20 * (d1 + 1) <= 256 * dl
        OBVIOUS
      <4> QED BY <4>1, Excess
    <3>2. (20 * (d1 + 1) + k) * p = (20 * (d1 + 1)) * p + k * p /\ k * p \in Nat
          /\ (20 * (d1 + 1)) * p \in Nat
      OBVIOUS
    <3> QED BY <3>1, <3>2
  <2>2. (256 * dl) * p = 256 * (dl * p) /\ (20 * (d1 + 1)) * p = 20 * ((d1 + 1) * p)
        /\ dl * p \in Nat /\ (d1 + 1) * p \in Nat
    OBVIOUS
  <2> QED BY <2>1, <2>2 DEF TargetLat
<1>2. PICK k \in Nat : 20 * (d1 + 1) = 256 * dl + k
  <2>1. 256 * dl \in Nat /\ 20 * (d1 + 1) \in Nat
    OBVIOUS
  <2> QED BY <1>1, <2>1, Excess
<1>3. (256 * dl) * g <= (20 * (d1 + 1)) * g
  <2>1. (256 * dl + k) * g = (256 * dl) * g + k * g /\ k * g \in Nat /\ (256 * dl) * g \in Nat
    OBVIOUS
  <2> QED BY <1>2, <2>1
<1>4. (256 * dl) * g = 256 * (dl * g) /\ (20 * (d1 + 1)) * g = 20 * (d1 * g) + 20 * g
  OBVIOUS
<1> QED BY <1>3, <1>4

LEMMA RoundedDown ==
  ASSUME NEW x \in Nat
  PROVE  /\ x \div 256 \in Nat /\ 256 * (x \div 256) <= x /\ x < 256 * (x \div 256) + 256
  BY SMT

LEMMA QuotientFits ==
  ASSUME NEW x \in Nat, NEW p \in Nat \ {0}
  PROVE  /\ x \div p \in Nat /\ (x \div p) * p <= x /\ x + 1 <= (x \div p + 1) * p
  BY SMT

LEMMA TargetTimes ==
  ASSUME NEW m \in Nat, NEW v \in 0..TargetLat
  PROVE  v * m \in Nat /\ v * m <= 20 * m
<1>1. v \in Nat /\ v <= 20
  BY DEF TargetLat
<1>2. PICK k \in Nat : 20 = v + k
  BY <1>1, Excess
<1>3. (v + k) * m = v * m + k * m /\ v * m \in Nat /\ k * m \in Nat
  BY <1>1
<1> QED BY <1>2, <1>3

(* A gauge and the factor, decayed over the same time.                     *)
LEMMA DecaysTogether ==
  ASSUME NEW lat \in 0..TargetLat, NEW t \in Nat, NEW h \in Nat \ {0}
  PROVE  65536 * Decay(lat, t, h) <= 5120 * Decay(FpOne, t, h) + 10240
<1>1. CASE t >= h * 64
  BY <1>1 DEF Decay, FpOne
<1>2. CASE ~(t >= h * 64)
  <2>1. PICK k, sub : k = t \div h /\ sub = t % h
    OBVIOUS
  <2>2. k \in Nat /\ sub \in 0..(h - 1)
    BY <2>1, SMT
  <2>3. PICK p \in Nat \ {0} : p = 2 ^ k
    BY <2>2, PowerPositive
  <2>4. PICK dl, d1 : dl = lat \div p /\ d1 = 256 \div p
    OBVIOUS
  <2>5. /\ lat \in Nat /\ lat <= 20
        /\ dl \in Nat /\ dl * p <= lat /\ lat + 1 <= (dl + 1) * p
        /\ d1 \in Nat /\ d1 * p <= 256 /\ 257 <= (d1 + 1) * p
    <3>1. lat \in Nat /\ 256 \in Nat /\ lat <= 20
      BY DEF TargetLat
    <3>2. dl \in Nat /\ dl * p <= lat /\ lat + 1 <= (dl + 1) * p
      BY <2>4, <3>1, QuotientFits
    <3>3. d1 \in Nat /\ d1 * p <= 256 /\ 256 + 1 <= (d1 + 1) * p
      BY <2>4, <3>1, QuotientFits
    <3> QED BY <3>1, <3>2, <3>3
  <2>6. PICK g \in 0..256 : g = (IF sub = 0 THEN 256 ELSE DecayFactor(sub, h))
    <3>1. DecayFactor(sub, h) \in 0..256
      BY <2>2, FactorBound
    <3>2. PICK r : r = DecayFactor(sub, h)
      OBVIOUS
    <3>3. (IF sub = 0 THEN 256 ELSE r) \in 0..256
      BY <3>1, <3>2
    <3> QED BY <3>2, <3>3
  <2>7. Decay(lat, t, h) = (dl * g) \div 256 /\ Decay(FpOne, t, h) = (d1 * g) \div 256
    <3>1. ASSUME NEW x, NEW d \in Nat, d = x \div p
          PROVE  Decay(x, t, h) = (d * g) \div 256
      <4>1. Decay(x, t, h) = IF sub = 0 \/ d = 0 THEN d ELSE (d * DecayFactor(sub, h)) \div 256
        BY <1>2, <2>1, <2>3, <3>1 DEF Decay, FpOne
      <4>2. CASE sub = 0
        <5>1. g = 256 /\ (d * 256) \div 256 = d
          BY <2>6, <4>2, <3>1
        <5> QED BY <4>1, <4>2, <5>1
      <4>3. CASE sub # 0 /\ d = 0
        <5>1. d * g = 0 /\ 0 \div 256 = 0
          BY <4>3, <3>1
        <5> QED BY <4>1, <4>3, <5>1
      <4>4. CASE sub # 0 /\ d # 0
        BY <2>6, <4>1, <4>4
      <4> QED BY <4>2, <4>3, <4>4
    <3> QED BY <2>4, <2>5, <3>1 DEF FpOne
  <2>8. 256 * (dl * g) <= 20 * (d1 * g) + 5120
    <3>1. dl * p <= TargetLat
      <4>1. PICK z : z = dl * p
        OBVIOUS
      <4> QED BY <2>5 DEF TargetLat
    <3> QED BY <2>5, <3>1, DecayedPart
  <2>9. PICK x, y : x = dl * g /\ y = d1 * g
    OBVIOUS
  <2>10. x \in Nat /\ y \in Nat
    BY <2>5, <2>9
  <2>11. /\ x \div 256 \in Nat /\ 256 * (x \div 256) <= x
         /\ y \div 256 \in Nat /\ y < 256 * (y \div 256) + 256
    BY <2>10, RoundedDown
  <2>12. PICK u, w : u = x \div 256 /\ w = y \div 256
    OBVIOUS
  <2>13. 65536 * u <= 5120 * w + 10240
    BY <2>8, <2>9, <2>10, <2>11, <2>12
  <2> QED BY <2>7, <2>9, <2>12, <2>13
<1> QED BY <1>1, <1>2

(* mlfq_sys_lat_fold on waits within the target.                           *)
LEMMA QuietFold ==
  ASSUME NEW lat \in 0..TargetLat, NEW total \in Nat, NEW count \in Nat, NEW t \in Nat,
         NEW w \in 0..TargetLat, total <= w * count
  PROVE  LatFold(lat, total, count, t) <= TargetLat
<1>1. CASE count = 0
  BY <1>1 DEF LatFold
<1>2. CASE count # 0
  <2>1. PICK q : q = total \div count
    OBVIOUS
  <2>2. q \in Nat /\ q <= TargetLat
    <3>1. q \in Nat /\ q * count <= total
      BY <1>2, <2>1, QuotientFits
    <3>2. q <= w
      <4> SUFFICES ASSUME w < q PROVE FALSE
        BY <3>1 DEF TargetLat
      <4>1. PICK k \in Nat : q = w + 1 + k
        <5>1. q - w - 1 \in Nat
          BY <3>1 DEF TargetLat
        <5>2. q = w + 1 + (q - w - 1)
          BY <3>1 DEF TargetLat
        <5> QED BY <5>1, <5>2
      <4>2. (w + 1 + k) * count = w * count + count + k * count /\ k * count \in Nat
            /\ w * count \in Nat
        BY DEF TargetLat
      <4> QED BY <1>2, <3>1, <4>1, <4>2
    <3> QED BY <3>1, <3>2 DEF TargetLat
  <2>3. PICK v \in 0..TargetLat : v = Capped(q, LatMax)
    BY <2>2 DEF Capped, LatMax, TargetLat
  <2>4. Interval \in Nat \ {0}
    BY AdaptAssumption
  <2>5. PICK a, f : a = Decay(lat, t, Interval) /\ f = Decay(FpOne, t, Interval)
    OBVIOUS
  <2>6. f \in 0..256
    <3>1. FpOne \in Nat /\ FpOne = 256
      BY DEF FpOne
    <3>2. f \in 0..FpOne
      BY <2>4, <2>5, <3>1, DecayRange
    <3> QED BY <3>1, <3>2
  <2>7. a \in 0..lat
    <3>1. lat \in Nat
      BY DEF TargetLat
    <3> QED BY <2>4, <2>5, <3>1, DecayRange
  <2>8. 65536 * a <= 5120 * f + 10240
    BY <2>4, <2>5, DecaysTogether
  <2>9. a + (v * (256 - f)) \div 256 <= TargetLat
    <3>1. a \in Nat /\ a <= TargetLat
      BY <2>7 DEF TargetLat
    <3>2. PICK m \in 0..256 : m = 256 - f
      BY <2>6
    <3>3. PICK x : x = v * m
      OBVIOUS
    <3>4. x \in Nat /\ x <= 20 * m
      BY <3>3, TargetTimes
    <3>5. x \div 256 \in Nat /\ 256 * (x \div 256) <= x
      BY <3>4, RoundedDown
    <3>6. PICK y : y = x \div 256
      OBVIOUS
    <3>7. a + y <= TargetLat
      BY <2>6, <2>8, <3>1, <3>2, <3>4, <3>5, <3>6 DEF TargetLat
    <3> QED BY <3>2, <3>3, <3>6, <3>7
  <2>10. LatFold(lat, total, count, t) = Capped(a + (v * (256 - f)) \div 256, LatMax)
    BY <1>2, <2>1, <2>3, <2>5 DEF LatFold, FpOne
  <2>11. PICK z : z = (v * (256 - f)) \div 256
    OBVIOUS
  <2>12. z \in Nat
    <3>1. PICK m \in 0..256 : m = 256 - f
      BY <2>6
    <3>2. v \in Nat
      BY DEF TargetLat
    <3>3. (v * m) \div 256 \in 0..v
      BY <3>2, ScaleBound
    <3>4. z = (v * m) \div 256
      BY <2>11, <3>1
    <3> QED BY <3>2, <3>3, <3>4
  <2> QED BY <2>7, <2>9, <2>10, <2>11, <2>12 DEF Capped, LatMax, TargetLat
<1> QED BY <1>1, <1>2

(* At or below the target nothing is shifted (mlfq_adapt_shift_target).    *)
LEMMA QuietTarget ==
  ASSUME NEW lat \in 0..TargetLat, NEW rate \in Nat
  PROVE  ShiftTarget(lat, rate) = 0 /\ Slew(0, 0) = 0
<1>1. (IF lat < TargetLat THEN 0 ELSE lat - TargetLat) = 0
  BY DEF TargetLat
<1>2. (0 * K) \div TargetLat = 0
  BY DEF K, FpOne, TargetLat
<1>3. Capped(0, MaxShift) = 0 /\ Capped(0, RateGateShift) = 0
  BY DEF Capped, MaxShift, RateGateShift, FpOne
<1>4. ShiftTarget(lat, rate) = 0
  BY <1>1, <1>2, <1>3 DEF ShiftTarget
<1> QED BY <1>4, AdaptAssumption DEF Slew

(* The accumulators, while no two CPUs met there: the sum is at most the   *)
(* longest wait times the waits counted.                                   *)
BusyPC == MeasurePC \cup FoldPC
Owed(n) == gauge.wait_total <= worst * n

WaitsInv ==
  /\ \A c, d \in Cpus : op[c].pc \in BusyPC /\ op[d].pc \in BusyPC => c = d
  /\ (\A c \in Cpus : op[c].pc \notin BusyPC) => Owed(gauge.wait_count)
  /\ \A c \in Cpus :
       /\ op[c].pc = "addTotal" => /\ op[c].read = gauge.wait_total /\ op[c].wait <= worst
                                   /\ Owed(gauge.wait_count)
       /\ op[c].pc \in {"loadCount", "addCount"} => Owed(gauge.wait_count + 1)
       /\ op[c].pc = "addCount" => op[c].read = gauge.wait_count
       /\ op[c].pc \in {"loadTotal", "foldLatency"} => Owed(gauge.wait_count)
       /\ op[c].pc = "foldLatency" => op[c].read = gauge.wait_total
       /\ op[c].pc = "clearCount" => gauge.wait_total = 0

QuietInv ==
  ~torn => /\ WaitsInv
           /\ worst <= TargetLat => gauge.lat_ema <= TargetLat /\ shift = 0 /\ edge = base

BusyPCs == BusyPC = {"addTotal", "loadCount", "addCount", "loadTotal", "foldLatency",
                     "clearTotal", "clearCount"}

LEMMA Busy == BusyPCs /\ Off.pc \notin BusyPC
  BY DEF BusyPCs, BusyPC, MeasurePC, FoldPC, Off

(* What c, if it is the only CPU at the accumulators, knows of them.       *)
Knows(c) ==
  /\ op[c].pc \notin BusyPC => Owed(gauge.wait_count)
  /\ op[c].pc = "addTotal" => /\ op[c].read = gauge.wait_total /\ op[c].wait <= worst
                              /\ Owed(gauge.wait_count)
  /\ op[c].pc \in {"loadCount", "addCount"} => Owed(gauge.wait_count + 1)
  /\ op[c].pc = "addCount" => op[c].read = gauge.wait_count
  /\ op[c].pc \in {"loadTotal", "foldLatency"} => Owed(gauge.wait_count)
  /\ op[c].pc = "foldLatency" => op[c].read = gauge.wait_total
  /\ op[c].pc = "clearCount" => gauge.wait_total = 0

Alone(c) == \A d \in Cpus \ {c} : op[d].pc \notin BusyPC

LEMMA WaitsAlone ==
  ASSUME NEW c \in Cpus, Alone(c)
  PROVE  WaitsInv <=> Knows(c)
<1>1. \A d \in Cpus : d = c \/ op[d].pc \notin BusyPC
  BY DEF Alone
<1>2. BusyPCs
  BY Busy
<1>3. \A d \in Cpus : d # c =>
        op[d].pc \notin {"addTotal", "loadCount", "addCount", "loadTotal", "foldLatency",
                         "clearTotal", "clearCount"}
  BY <1>1, <1>2 DEF BusyPCs
<1>4. ASSUME WaitsInv PROVE Knows(c)
  BY <1>1, <1>4 DEF WaitsInv, Knows
<1>5. ASSUME Knows(c) PROVE WaitsInv
  <2>1. \A d, e \in Cpus : op[d].pc \in BusyPC /\ op[e].pc \in BusyPC => d = e
    BY <1>1
  <2>2. (\A d \in Cpus : op[d].pc \notin BusyPC) => Owed(gauge.wait_count)
    BY <1>5 DEF Knows
  <2> QED BY <1>3, <1>5, <2>1, <2>2 DEF WaitsInv, Knows
<1> QED BY <1>4, <1>5

(* A CPU at the accumulators is alone there.                               *)
LEMMA BusyAlone ==
  ASSUME WaitsInv, NEW c \in Cpus, op[c].pc \in BusyPC
  PROVE  Alone(c) /\ Knows(c)
<1>1. Alone(c)
  BY DEF WaitsInv, Alone
<1> QED BY <1>1, WaitsAlone

LEMMA AloneKept ==
  ASSUME NEW c \in Cpus, Alone(c), OthersRest(c), Knows(c)'
  PROVE  WaitsInv'
<1>1. \A d \in Cpus : d = c \/ op'[d].pc \notin BusyPC
  BY DEF Alone, OthersRest
<1>2. \A d \in Cpus : d # c =>
        op'[d].pc \notin {"addTotal", "loadCount", "addCount", "loadTotal", "foldLatency",
                          "clearTotal", "clearCount"}
  BY <1>1, Busy DEF BusyPCs
<1>3. \A d, e \in Cpus : op'[d].pc \in BusyPC /\ op'[e].pc \in BusyPC => d = e
  BY <1>1
<1>4. (\A d \in Cpus : op'[d].pc \notin BusyPC) => Owed(gauge.wait_count)'
  BY DEF Knows
<1> QED BY <1>2, <1>3, <1>4 DEF WaitsInv, Knows

LEMMA QuietBegins == Init => QuietInv
<1> SUFFICES ASSUME Init PROVE QuietInv
  OBVIOUS
<1>1. /\ \A c \in Cpus : op[c].pc = "off"
      /\ gauge.wait_total = 0 /\ gauge.wait_count = 0 /\ gauge.lat_ema = 0 /\ worst = 0
  BY DEF Init, Off
<1>2. Owed(gauge.wait_count)
  BY <1>1 DEF Owed
<1>3. WaitsInv
  BY <1>1, <1>2, Busy DEF WaitsInv, BusyPCs
<1> QED BY <1>1, <1>3 DEF QuietInv, Init, TargetLat

(* Nothing that QuietInv speaks of changes.                                *)
LEMMA QuietKept ==
  ASSUME QuietInv, NEW c \in Cpus, OthersRest(c), op[c].pc \notin BusyPC,
         op'[c].pc \notin BusyPC, gauge'.wait_total = gauge.wait_total,
         gauge'.wait_count = gauge.wait_count, gauge'.lat_ema = gauge.lat_ema,
         worst' = worst, torn' = torn, base' = base,
         worst <= TargetLat /\ shift = 0 /\ edge = base => shift' = 0 /\ edge' = base
  PROVE  QuietInv'
<1>1. \A d \in Cpus : op'[d] = op[d] \/ (op[d].pc \notin BusyPC /\ op'[d].pc \notin BusyPC)
  BY DEF OthersRest
<1>2. \A d \in Cpus :
        op'[d] = op[d] \/ op'[d].pc \notin {"addTotal", "loadCount", "addCount", "loadTotal",
                                           "foldLatency", "clearTotal", "clearCount"}
  BY <1>1, Busy DEF BusyPCs
<1>3. \A n : Owed(n)' <=> Owed(n)
  BY DEF Owed
<1>4. ASSUME WaitsInv PROVE WaitsInv'
  <2>1. \A d, e \in Cpus : op'[d].pc \in BusyPC /\ op'[e].pc \in BusyPC => d = e
    BY <1>1, <1>4 DEF WaitsInv
  <2>2. (\A d \in Cpus : op'[d].pc \notin BusyPC) => Owed(gauge.wait_count)'
    BY <1>1, <1>3, <1>4 DEF WaitsInv, Owed
  <2>3. ASSUME NEW d \in Cpus
        PROVE  /\ op'[d].pc = "addTotal" => /\ op'[d].read = gauge'.wait_total
                                            /\ op'[d].wait <= worst'
                                            /\ Owed(gauge.wait_count)'
               /\ op'[d].pc \in {"loadCount", "addCount"} => Owed(gauge.wait_count + 1)'
               /\ op'[d].pc = "addCount" => op'[d].read = gauge'.wait_count
               /\ op'[d].pc \in {"loadTotal", "foldLatency"} => Owed(gauge.wait_count)'
               /\ op'[d].pc = "foldLatency" => op'[d].read = gauge'.wait_total
               /\ op'[d].pc = "clearCount" => gauge'.wait_total = 0
    BY <1>2, <1>4 DEF WaitsInv, Owed
  <2> QED BY <2>1, <2>2, <2>3 DEF WaitsInv
<1> QED BY <1>4 DEF QuietInv

(* The bands of a quiet machine, while its gauge stays.                    *)
Calm == worst <= TargetLat => gauge.lat_ema <= TargetLat /\ shift = 0 /\ edge = base

LEMMA CalmKept ==
  ASSUME Calm, worst \in Nat, worst' \in Nat, worst <= worst',
         gauge'.lat_ema = gauge.lat_ema, shift' = shift, edge' = edge, base' = base
  PROVE  Calm'
  BY DEF Calm, TargetLat

LEMMA QuietParts == QuietInv <=> (~torn => WaitsInv /\ Calm)
  BY DEF QuietInv, Calm

LEMMA OwedMore ==
  ASSUME NEW t \in Nat, NEW w \in Nat, NEW n \in Nat, NEW v \in Nat, t <= w * n, w <= v
  PROVE  t <= v * n
<1>1. PICK k \in Nat : v = w + k
  BY Excess
<1>2. (w + k) * n = w * n + k * n /\ w * n \in Nat /\ k * n \in Nat
  OBVIOUS
<1> QED BY <1>1, <1>2

LEMMA OwedNext ==
  ASSUME NEW t \in Nat, NEW w \in Nat, NEW n \in Nat, NEW x \in Nat, t <= w * n, x <= w
  PROVE  t + x <= w * (n + 1)
<1>1. w * (n + 1) = w * n + w /\ w * n \in Nat
  OBVIOUS
<1> QED BY <1>1

LEMMA QuietNumbers ==
  ASSUME TypeOK
  PROVE  /\ gauge \in GaugeType
         /\ gauge.wait_total \in Nat /\ gauge.wait_count \in Nat /\ gauge.lat_ema \in 0..LatMax
         /\ worst \in Nat /\ torn \in BOOLEAN
         /\ \A c \in Cpus : op[c].read \in Nat /\ op[c].wait \in Nat /\ op[c] \in OpType
  BY DEF TypeOK, GaugeType, OpType

(* Who comes to the accumulators and is not recorded in torn is alone.     *)
LEMMA MeetsAlone ==
  ASSUME QuietInv, NEW c \in Cpus, Meets(c), ~torn', op[c].pc \notin BusyPC
  PROVE  ~torn /\ Alone(c) /\ Owed(gauge.wait_count) /\ Calm
<1>1. ~torn /\ \A d \in Cpus \ {c} : op[d].pc \notin BusyPC
  BY DEF Meets, BusyPC
<1>2. Alone(c) /\ WaitsInv /\ Calm
  BY <1>1, QuietParts DEF Alone
<1>3. Knows(c)
  BY <1>2, WaitsAlone
<1> QED BY <1>1, <1>2, <1>3 DEF Knows

LEMMA QuietMeasure ==
  ASSUME TypeOK, QuietInv, NEW c \in Cpus, NEW w \in Waits, Measure(c, w)
  PROVE  QuietInv'
<1> SUFFICES ASSUME ~torn' PROVE WaitsInv' /\ Calm'
  BY DEF QuietInv, Calm
<1>1. /\ OthersRest(c) /\ op[c].pc = "off" /\ op'[c].pc = "addTotal"
      /\ op'[c].wait = w /\ op'[c].read = gauge.wait_total
  BY MeasureMoves
<1>2. /\ gauge' = gauge /\ shift' = shift /\ edge' = edge /\ base' = base /\ Meets(c)
      /\ worst' = IF w > worst THEN w ELSE worst
  BY DEF Measure
<1>3. ~torn /\ Alone(c) /\ Owed(gauge.wait_count) /\ Calm
  BY <1>1, <1>2, MeetsAlone, Busy DEF BusyPCs
<1>4. w \in Nat /\ worst \in Nat /\ gauge.wait_total \in Nat /\ gauge.wait_count \in Nat
  BY QuietNumbers, AdaptAssumption
<1>5. PICK v \in Nat : v = worst' /\ worst <= v /\ w <= v
  BY <1>2, <1>4
<1>6. gauge.wait_total <= v * gauge.wait_count
  BY <1>3, <1>4, <1>5, OwedMore DEF Owed
<1>7. Owed(gauge.wait_count)'
  BY <1>2, <1>5, <1>6 DEF Owed
<1>8. Knows(c)'
  BY <1>1, <1>2, <1>5, <1>7, Busy DEF Knows, BusyPCs
<1>9. Calm'
  BY <1>2, <1>3, <1>4, <1>5, CalmKept
<1> QED BY <1>1, <1>3, <1>8, <1>9, AloneKept

LEMMA QuietSwap ==
  ASSUME TypeOK, QuietInv, NEW c \in Cpus, Swap(c)
  PROVE  QuietInv'
<1>0. worst' = worst /\ shift' = shift /\ edge' = edge /\ base' = base
  BY DEF Swap
<1>1. OthersRest(c) /\ op[c].pc = "swap" /\ op[c].pc \notin BusyPC
  BY SwapMoves, Busy DEF BusyPCs
<1>2. CASE op'[c] = Off /\ gauge' = gauge /\ torn' = torn
  <2>1. op'[c].pc \notin BusyPC
    BY <1>2, Busy
  <2> QED BY <1>0, <1>1, <1>2, <2>1, QuietKept
<1>3. CASE ~(op'[c] = Off /\ gauge' = gauge /\ torn' = torn)
  <2> SUFFICES ASSUME ~torn' PROVE WaitsInv' /\ Calm'
    BY DEF QuietInv, Calm
  <2>1. op'[c].pc = "loadTotal" /\ gauge' = [gauge EXCEPT !.step_at = op[c].now] /\ Meets(c)
    BY <1>3, SwapMoves
  <2>2. /\ gauge'.wait_total = gauge.wait_total /\ gauge'.wait_count = gauge.wait_count
        /\ gauge'.lat_ema = gauge.lat_ema
    BY <2>1, QuietNumbers DEF GaugeType
  <2>3. ~torn /\ Alone(c) /\ Owed(gauge.wait_count) /\ Calm
    BY <1>1, <2>1, MeetsAlone
  <2>4. Owed(gauge.wait_count)'
    BY <1>0, <2>2, <2>3 DEF Owed
  <2>5. Knows(c)'
    BY <2>1, <2>4, Busy DEF Knows, BusyPCs
  <2>6. Calm'
    BY <1>0, <2>2, <2>3, QuietNumbers, CalmKept
  <2> QED BY <1>1, <2>3, <2>5, <2>6, AloneKept
<1> QED BY <1>2, <1>3

(* A step of the one CPU at the accumulators.                              *)
LEMMA QuietBusy ==
  ASSUME TypeOK, TypeOK', QuietInv, NEW c \in Cpus, OthersRest(c), op[c].pc \in BusyPC,
         worst' = worst, torn' = torn, base' = base, shift' = shift, edge' = edge,
         Knows(c) => Knows(c)',
         Knows(c) /\ worst <= TargetLat /\ gauge.lat_ema <= TargetLat =>
           gauge'.lat_ema <= TargetLat
  PROVE  QuietInv'
<1> SUFFICES ASSUME ~torn PROVE WaitsInv' /\ Calm'
  BY DEF QuietInv, Calm
<1>1. WaitsInv /\ Calm
  BY QuietParts
<1>2. Alone(c) /\ Knows(c)
  BY <1>1, BusyAlone
<1>3. Calm'
  BY <1>1, <1>2 DEF Calm
<1> QED BY <1>2, <1>3, AloneKept

LEMMA QuietAdds ==
  ASSUME TypeOK, TypeOK', QuietInv, NEW c \in Cpus, AddTotal(c) \/ LoadCount(c) \/ AddCount(c)
  PROVE  QuietInv'
<1>0. worst' = worst /\ torn' = torn /\ base' = base /\ shift' = shift /\ edge' = edge
  BY DEF AddTotal, LoadCount, AddCount
<1>1. CASE AddTotal(c)
  <2>1. OthersRest(c) /\ op[c].pc = "addTotal" /\ op'[c].pc = "loadCount"
    BY <1>1, AddTotalMoves
  <2>2. PICK x : x = op[c].read + op[c].wait
    OBVIOUS
  <2>3. gauge' = [gauge EXCEPT !.wait_total = x]
    BY <1>1, <2>2 DEF AddTotal
  <2>4. /\ gauge'.wait_total = x /\ gauge'.wait_count = gauge.wait_count
        /\ gauge'.lat_ema = gauge.lat_ema
    BY <2>3, QuietNumbers DEF GaugeType
  <2>5. ASSUME Knows(c) PROVE Knows(c)'
    <3>1. op[c].read = gauge.wait_total /\ op[c].wait <= worst /\ Owed(gauge.wait_count)
      BY <2>1, <2>5 DEF Knows
    <3>2. x <= worst * (gauge.wait_count + 1)
      BY <2>2, <3>1, QuietNumbers, OwedNext DEF Owed
    <3>3. Owed(gauge.wait_count + 1)'
      BY <1>0, <2>4, <3>2 DEF Owed
    <3> QED BY <2>1, <3>3, Busy DEF Knows, BusyPCs
  <2> QED BY <1>0, <2>1, <2>4, <2>5, Busy, QuietBusy DEF BusyPCs
<1>2. CASE LoadCount(c)
  <2>1. OthersRest(c) /\ op[c].pc = "loadCount" /\ op'[c].pc = "addCount"
        /\ op'[c].read = gauge.wait_count /\ gauge' = gauge
    BY <1>2, LoadCountMoves DEF LoadCount
  <2>2. ASSUME Knows(c) PROVE Knows(c)'
    BY <1>0, <2>1, <2>2, Busy DEF Knows, BusyPCs, Owed
  <2> QED BY <1>0, <2>1, <2>2, Busy, QuietBusy DEF BusyPCs
<1>3. CASE AddCount(c)
  <2>1. OthersRest(c) /\ op[c].pc = "addCount" /\ op'[c] = Off
    BY <1>3, AddCountMoves
  <2>2. PICK n : n = op[c].read + 1
    OBVIOUS
  <2>3. gauge' = [gauge EXCEPT !.wait_count = n]
    BY <1>3, <2>2 DEF AddCount
  <2>4. /\ gauge'.wait_total = gauge.wait_total /\ gauge'.wait_count = n
        /\ gauge'.lat_ema = gauge.lat_ema
    BY <2>3, QuietNumbers DEF GaugeType
  <2>5. ASSUME Knows(c) PROVE Knows(c)'
    <3>1. op[c].read = gauge.wait_count /\ Owed(gauge.wait_count + 1)
      BY <2>1, <2>5 DEF Knows
    <3>2. gauge.wait_total <= worst * n
      BY <2>2, <3>1 DEF Owed
    <3>3. Owed(gauge.wait_count)'
      BY <1>0, <2>4, <3>2 DEF Owed
    <3>4. op'[c].pc = "off"
      BY <2>1, StepPCs
    <3> QED BY <3>3, <3>4 DEF Knows
  <2> QED BY <1>0, <2>1, <2>4, <2>5, Busy, QuietBusy DEF BusyPCs
<1> QED BY <1>1, <1>2, <1>3

LEMMA QuietFolds ==
  ASSUME TypeOK, TypeOK', QuietInv, NEW c \in Cpus,
         LoadTotal(c) \/ FoldLatency(c) \/ ClearTotal(c) \/ ClearCount(c)
  PROVE  QuietInv'
<1>0. worst' = worst /\ torn' = torn /\ base' = base /\ shift' = shift /\ edge' = edge
  BY DEF LoadTotal, FoldLatency, ClearTotal, ClearCount
<1>1. CASE LoadTotal(c)
  <2>1. OthersRest(c) /\ op[c].pc = "loadTotal" /\ op'[c].pc = "foldLatency"
        /\ op'[c].read = gauge.wait_total /\ gauge' = gauge
    BY <1>1, FoldMoves DEF LoadTotal, Steps
  <2>2. ASSUME Knows(c) PROVE Knows(c)'
    BY <1>0, <2>1, <2>2, Busy DEF Knows, BusyPCs, Owed
  <2> QED BY <1>0, <2>1, <2>2, Busy, QuietBusy DEF BusyPCs
<1>2. CASE FoldLatency(c)
  <2>1. OthersRest(c) /\ op[c].pc = "foldLatency" /\ op'[c].pc = "clearTotal"
    BY <1>2, FoldMoves DEF Steps
  <2>2. PICK t \in Nat : t = Elapsed(c)
    <3>1. op[c].now \in Nat /\ op[c].last \in Nat
      BY QuietNumbers DEF OpType
    <3> QED BY <3>1 DEF Elapsed
  <2>3. PICK l : l = LatFold(gauge.lat_ema, op[c].read, gauge.wait_count, t)
    OBVIOUS
  <2>4. gauge' = [gauge EXCEPT !.lat_ema = l]
    BY <1>2, <2>2, <2>3 DEF FoldLatency
  <2>5. gauge'.lat_ema = l
    BY <2>4, QuietNumbers DEF GaugeType
  <2>6. Knows(c)'
    BY <2>1, Busy DEF Knows, BusyPCs
  <2>7. ASSUME Knows(c), worst <= TargetLat, gauge.lat_ema <= TargetLat
        PROVE  gauge'.lat_ema <= TargetLat
    <3>1. op[c].read <= worst * gauge.wait_count
      BY <2>1, <2>7 DEF Knows, Owed
    <3>2. worst \in 0..TargetLat /\ gauge.lat_ema \in 0..TargetLat
      BY <2>7, QuietNumbers DEF TargetLat, LatMax
    <3>3. l <= TargetLat
      BY <2>3, <3>1, <3>2, QuietNumbers, QuietFold
    <3> QED BY <2>5, <3>3
  <2> QED BY <1>0, <2>1, <2>6, <2>7, Busy, QuietBusy DEF BusyPCs
<1>3. CASE ClearTotal(c)
  <2>1. OthersRest(c) /\ op[c].pc = "clearTotal" /\ op'[c].pc = "clearCount"
    BY <1>3, FoldMoves DEF Steps
  <2>2. gauge'.wait_total = 0 /\ gauge'.lat_ema = gauge.lat_ema
    BY <1>3, QuietNumbers DEF ClearTotal, GaugeType
  <2>3. Knows(c)'
    BY <2>1, <2>2, Busy DEF Knows, BusyPCs
  <2> QED BY <1>0, <2>1, <2>2, <2>3, Busy, QuietBusy DEF BusyPCs
<1>4. CASE ClearCount(c)
  <2>1. OthersRest(c) /\ op[c].pc = "clearCount" /\ op'[c].pc \in {"off", "exchange"}
    BY <1>4, ClearCountMoves, StepPCs DEF Steps
  <2>2. /\ gauge'.wait_total = gauge.wait_total /\ gauge'.wait_count = 0
        /\ gauge'.lat_ema = gauge.lat_ema
    BY <1>4, QuietNumbers DEF ClearCount, GaugeType
  <2>3. ASSUME Knows(c) PROVE Knows(c)'
    <3>1. gauge.wait_total = 0
      BY <2>1, <2>3 DEF Knows
    <3>2. Owed(gauge.wait_count)'
      BY <1>0, <2>2, <3>1, QuietNumbers DEF Owed
    <3> QED BY <2>1, <3>2, Busy DEF Knows, BusyPCs
  <2> QED BY <1>0, <2>1, <2>2, <2>3, Busy, QuietBusy DEF BusyPCs
<1> QED BY <1>1, <1>2, <1>3, <1>4

LEMMA QuietShift ==
  ASSUME TypeOK, QuietInv, NEW c \in Cpus, StepShift(c)
  PROVE  QuietInv'
<1>1. PICK rate : rate = RateStep(gauge.rate_ema, op[c].sum, Elapsed(c))
  OBVIOUS
<1>2. PICK n : n = gauge.adapt_steps + 1
  OBVIOUS
<1>3. /\ gauge' = [gauge EXCEPT !.rate_ema = rate, !.adapt_steps = n]
      /\ shift' = Slew(shift, ShiftTarget(gauge.lat_ema, rate))
      /\ worst' = worst /\ torn' = torn /\ base' = base /\ edge' = edge
  BY <1>1, <1>2 DEF StepShift
<1>4. /\ gauge'.wait_total = gauge.wait_total /\ gauge'.wait_count = gauge.wait_count
      /\ gauge'.lat_ema = gauge.lat_ema
  BY <1>3, QuietNumbers DEF GaugeType
<1>5. OthersRest(c) /\ op[c].pc \notin BusyPC /\ op'[c].pc \notin BusyPC
  BY StepShiftMoves, Busy DEF Steps, BusyPCs
<1>6. ASSUME gauge.lat_ema <= TargetLat, shift = 0 PROVE shift' = 0
  <2>1. rate \in Nat
    <3>1. gauge.rate_ema \in Nat /\ op[c].sum \in Nat
      BY QuietNumbers DEF GaugeType, OpType
    <3>2. Elapsed(c) \in Nat
      BY QuietNumbers DEF OpType, Elapsed
    <3> QED BY <1>1, <3>1, <3>2, RateStepType
  <2>2. gauge.lat_ema \in 0..TargetLat
    BY <1>6, QuietNumbers DEF LatMax, TargetLat
  <2>3. ShiftTarget(gauge.lat_ema, rate) = 0 /\ Slew(0, 0) = 0
    BY <2>1, <2>2, QuietTarget
  <2> QED BY <1>3, <1>6, <2>3
<1>7. CASE torn
  BY <1>3, <1>7 DEF QuietInv
<1>8. CASE ~torn
  <2>1. Calm
    BY <1>8, QuietParts
  <2>2. worst <= TargetLat /\ shift = 0 /\ edge = base => shift' = 0 /\ edge' = base
    BY <1>3, <1>6, <2>1 DEF Calm
  <2> QED BY <1>3, <1>4, <1>5, <2>2, QuietKept
<1> QED BY <1>7, <1>8

LEMMA QuietSet ==
  ASSUME TypeOK, QuietInv, NEW c \in Cpus, SetEdge(c)
  PROVE  QuietInv'
<1>1. /\ gauge' = gauge /\ shift' = shift /\ worst' = worst /\ torn' = torn /\ base' = base
      /\ edge' = [edge EXCEPT ![op[c].pc] = Band(op[c].pc, shift)]
      /\ op[c].pc \in Edges
  BY DEF SetEdge
<1>2. OthersRest(c) /\ op[c].pc \notin BusyPC /\ op'[c].pc \notin BusyPC
  BY SetEdgeMoves, Busy DEF Steps, BusyPCs, After, Edges
<1>3. ASSUME shift = 0, edge = base PROVE edge' = base
  <2>1. base \in Bases /\ base \in [Edges -> Nat]
    BY AdaptAssumption DEF TypeOK
  <2>2. Band(op[c].pc, 0) = base[op[c].pc]
    BY <1>1, <2>1, BandAtRest
  <2> QED BY <1>1, <1>3, <2>1, <2>2
<1> QED BY <1>1, <1>2, <1>3, QuietKept

LEMMA QuietStep == TypeOK /\ TypeOK' /\ QuietInv /\ [Next]_vars => QuietInv'
<1> SUFFICES ASSUME TypeOK, TypeOK', QuietInv, [Next]_vars PROVE QuietInv'
  OBVIOUS
<1>1. CASE UNCHANGED <<gauge, shift, edge, base, op, worst, torn>>
  BY <1>1 DEF QuietInv, WaitsInv, Owed
<1>2. ASSUME NEW c \in Cpus,
             Arrive(c) \/ AddWindow(c) \/ Ask(c) \/ ReadStamp(c) \/ Exchange(c)
      PROVE  QuietInv'
  <2>1. UNCHANGED <<gauge, shift, edge, base, worst, torn>>
    BY <1>2 DEF Arrive, AddWindow, Ask, ReadStamp, Exchange
  <2>2. OthersRest(c) /\ op[c].pc \notin BusyPC /\ op'[c].pc \notin BusyPC
    BY <1>2, ArriveMoves, AddWindowMoves, AskMoves, ReadStampMoves, ExchangeMoves, Busy
    DEF Steps, BusyPCs
  <2> QED BY <2>1, <2>2, QuietKept
<1>3. ASSUME NEW c \in Cpus, NEW w \in Waits, Measure(c, w) PROVE QuietInv'
  BY <1>3, QuietMeasure
<1>4. ASSUME NEW c \in Cpus, Swap(c) PROVE QuietInv'
  BY <1>4, QuietSwap
<1>5. ASSUME NEW c \in Cpus, AddTotal(c) \/ LoadCount(c) \/ AddCount(c) PROVE QuietInv'
  BY <1>5, QuietAdds
<1>6. ASSUME NEW c \in Cpus, LoadTotal(c) \/ FoldLatency(c) \/ ClearTotal(c) \/ ClearCount(c)
      PROVE  QuietInv'
  BY <1>6, QuietFolds
<1>7. ASSUME NEW c \in Cpus, StepShift(c) PROVE QuietInv'
  BY <1>7, QuietShift
<1>8. ASSUME NEW c \in Cpus, SetEdge(c) PROVE QuietInv'
  BY <1>8, QuietSet
<1>9. CASE Tick
  BY <1>1, <1>9 DEF Tick
<1>10. CASE UNCHANGED vars
  BY <1>1, <1>10 DEF vars
<1> QED BY <1>2, <1>3, <1>4, <1>5, <1>6, <1>7, <1>8, <1>9, <1>10
        DEF Next, Running, Enqueue, MaybeStep

-----------------------------------------------------------------------------
(* All four, inductively.                                                  *)
AdaptInv == IInv /\ TimeInv /\ HoldsInv /\ EdgesInv /\ QuietInv

THEOREM AdaptInvariance == Spec => []AdaptInv
<1>1. Init => AdaptInv
  BY InitSound, TimeBegins, HoldsBegins, EdgesBegin, QuietBegins DEF AdaptInv
<1>2. AdaptInv /\ [Next]_vars => AdaptInv'
  <2> SUFFICES ASSUME AdaptInv, [Next]_vars PROVE AdaptInv'
    OBVIOUS
  <2>1. IInv /\ IInv' /\ TypeOK /\ TypeOK'
    BY StepSound DEF AdaptInv, IInv
  <2> QED BY <2>1, TimeStep, HoldsStep, EdgesStep, QuietStep DEF AdaptInv
<1> QED BY <1>1, <1>2, PTL DEF Spec

(* No wakeup is lost to the rate gauge and none counts twice, although the *)
(* folds exchange the windows under the hands of the CPUs that add to them *)
(* (mlfq_wakeup_window_fold).                                              *)
THEOREM ArrivalsAreConserved == Spec => []ArrivalsConserved
<1>1. AdaptInv => ArrivalsConserved
  BY DEF AdaptInv, HoldsInv
<1> QED BY <1>1, AdaptInvariance, PTL

(* Whatever the waits, the weights of the fold and the half-lives passed:  *)
(* while no wait exceeded the target and no two CPUs met at the            *)
(* accumulators, nothing moved the bands (mlfq_sys_lat_fold).              *)
THEOREM QuietMachinesRest == Spec => []QuietKeepsBands
<1>1. AdaptInv => QuietKeepsBands
  BY DEF AdaptInv, QuietInv, QuietKeepsBands
<1> QED BY <1>1, AdaptInvariance, PTL

(* One step moves an edge by at most what one slew of the shift is worth,  *)
(* however bad the sample behind it (mlfq_adapt_slew).                     *)
THEOREM EdgesAreSlewed == Spec => EdgesSlewed
<1> DEFINE Near == \A e \in Edges :
                     LET reach == (base[e] * MaxStep) \div FpOne + 1
                     IN  edge'[e] \in (edge[e] - reach)..(edge[e] + reach)
<1>1. AdaptInv /\ [Next]_vars => [Near]_vars
  <2> SUFFICES ASSUME AdaptInv, [Next]_vars, NEW e \in Edges
               PROVE  edge'[e] \in (edge[e] - Reach(e))..(edge[e] + Reach(e))
    BY DEF Reach
  <2>1. /\ base \in Bases /\ shift \in 0..MaxShift /\ edge[e] \in Nat /\ TypeOK
        /\ edge \in [Edges -> Nat]
    BY DEF AdaptInv, IInv, TypeOK
  <2>2. Reach(e) \in Nat /\ Band(e, shift) \in Nat
    BY <2>1, BandNumbers
  <2>3. CASE edge' = edge
    BY <2>1, <2>2, <2>3
  <2>4. CASE \E c \in Cpus : SetEdge(c)
    <3>1. PICK c \in Cpus : SetEdge(c)
      BY <2>4
    <3>2. edge' = [edge EXCEPT ![op[c].pc] = Band(op[c].pc, shift)] /\ op[c].pc \in Edges
      BY <3>1 DEF SetEdge
    <3>3. edge'[e] = IF op[c].pc = e THEN Band(e, shift) ELSE edge[e]
      BY <2>1, <3>2
    <3>4. edge[e] \in (Band(e, shift) - Reach(e))..(Band(e, shift) + Reach(e))
      BY DEF AdaptInv, EdgesInv
    <3> QED BY <2>1, <2>2, <3>3, <3>4
  <2>5. edge' = edge \/ \E c \in Cpus : SetEdge(c)
    BY Zenon DEF Next, vars, Tick, Running, Enqueue, MaybeStep, Measure, AddTotal, LoadCount,
       AddCount, Arrive, AddWindow, Ask, ReadStamp, Swap, LoadTotal, FoldLatency, ClearTotal,
       ClearCount, Exchange, StepShift
  <2> QED BY <2>3, <2>4, <2>5
<1> QED BY <1>1, AdaptInvariance, PTL DEF Spec, EdgesSlewed


=============================================================================
