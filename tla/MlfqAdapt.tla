------------------------------ MODULE MlfqAdapt ----------------------------
(***************************************************************************)
(* The system gauges and the adaptation of the classification bands        *)
(* (mlfq_sys_gauge, mlfq_wakeup_stats and mlfq_adapt_state).               *)
(*                                                                         *)
(* Three callbacks of any CPU meet here without a lock.  ops.running adds  *)
(* the wait of a wakeup episode to a sum and a count, two plain            *)
(* read-modify-writes.  ops.enqueue counts the arrival of a wakeup in the  *)
(* slot of its CPU, two atomic adds.  ops.stopping and ops.dispatch try    *)
(* the adaptation step: the CPU whose compare-and-swap of the step stamp   *)
(* succeeds folds the waits into the latency gauge, exchanges the arrivals *)
(* of every CPU for zero, slews the shift and rewrites the four band edges *)
(* one after another, while any CPU may be classifying by them.            *)
(*                                                                         *)
(* Band edges and waits are in units of 50 us.  The step interval, the     *)
(* half-life of both gauges and the second that rates count by are the     *)
(* same second in the code: Interval ticks of the clock.                   *)
(***************************************************************************)
EXTENDS MlfqMath

CONSTANTS
  NCpus,          \* nr_cpu_ids
  Interval,       \* MLFQ_ADAPT_MIN_INTERVAL_NS, MLFQ_SYS_GAUGE_HALF_LIFE_NS
  RateWindowMax,  \* MLFQ_SYS_RATE_WINDOW_MAX_NS
  Waits,          \* the waits an episode may have
  RateMax,        \* MLFQ_SYS_RATE_MAX
  RateGateHigh,   \* MLFQ_ADAPT_RATE_GATE_HIGH, in FP_SHIFT fixed point
  MaxStep,        \* MLFQ_ADAPT_MAX_STEP, FP_ONE / 10 in the code
  Bases,          \* the configured band edges (mlfq_t_l_ns, ...)
  MaxClock,       \* bound: the clock
  MaxWaits,       \* bound: episodes between two folds
  MaxArrivals     \* bound: wakeup arrivals

Cpus == 0..(NCpus - 1)
Edges == {"t_l", "t_h", "t_int", "t_bnd"}

Floor == [t_l |-> 3, t_h |-> 24, t_int |-> 12, t_bnd |-> 36]
Ceil  == [t_l |-> 10, t_h |-> 64, t_int |-> 32, t_bnd |-> 96]

LatMax    == 320           \* MLFQ_SYS_LAT_MAX_NS, 16 ms
TargetLat == 20            \* MLFQ_ADAPT_TARGET_LAT_NS, 1 ms
K         == FpOne \div 2
MaxShift  == FpOne \div 2
RateGateShift == FpOne \div 4

ASSUME AdaptAssumption ==
  /\ NCpus \in Nat \ {0} /\ Interval \in Nat \ {0}
  /\ RateWindowMax \in Nat /\ RateWindowMax >= Interval
  /\ Waits \subseteq Nat /\ RateMax \in Nat /\ RateGateHigh \in Nat
  /\ MaxStep \in Nat
  /\ MaxClock \in Nat /\ MaxWaits \in Nat /\ MaxArrivals \in Nat
  /\ \A b \in Bases : b \in [Edges -> Nat]
                      /\ \A e \in Edges : b[e] \in Floor[e]..Ceil[e]

VARIABLES
  clock,    \* scx_bpf_now()
  gauge,    \* mlfq_sys_gauge
  slot,     \* mlfq_wakeup_stats: total and window of each CPU
  shift,    \* mlfq_adapt_state.shift_fp
  edge,     \* mlfq_adapt_state.t_*_eff_ns
  base,     \* the configured edges (rodata)
  enabled,  \* mlfq_adapt_enabled (rodata)
  op,       \* what each CPU is doing, and its registers
  folded,   \* history: the arrivals the rate folds consumed
  worst,    \* history: the longest wait measured
  torn      \* history: two CPUs were at the wait accumulators at once

vars == <<clock, gauge, slot, shift, edge, base, enabled, op, folded, worst, torn>>

MeasurePC == {"addTotal", "loadCount", "addCount"}
FoldPC    == {"loadTotal", "foldLatency", "clearTotal", "clearCount"}
StepPC    == FoldPC \cup {"exchange", "rate"} \cup Edges
OpPC      == {"off", "arrived", "asked", "swap"} \cup MeasurePC \cup StepPC

Off == [pc |-> "off", wait |-> 0, read |-> 0, now |-> 0, last |-> 0,
        sum |-> 0, next |-> 0]

TypeOK ==
  /\ clock \in Nat
  /\ gauge \in [lat_ema : 0..LatMax, rate_ema : Nat, step_at : Nat,
                wait_total : Nat, wait_count : Nat, adapt_steps : Nat]
  /\ slot \in [Cpus -> [total : Nat, window : Nat]]
  /\ shift \in 0..MaxShift
  /\ edge \in [Edges -> Nat]
  /\ base \in Bases
  /\ enabled \in BOOLEAN
  /\ op \in [Cpus -> [pc : OpPC, wait : Nat, read : Nat, now : Nat, last : Nat,
                      sum : Nat, next : Nat]]
  /\ folded \in Nat /\ worst \in Nat /\ torn \in BOOLEAN

(* mlfq_init seeds the effective edges with the configured ones.           *)
Init ==
  /\ clock = Interval
  /\ gauge = [lat_ema |-> 0, rate_ema |-> 0, step_at |-> 0,
              wait_total |-> 0, wait_count |-> 0, adapt_steps |-> 0]
  /\ slot = [c \in Cpus |-> [total |-> 0, window |-> 0]]
  /\ shift = 0
  /\ base \in Bases
  /\ edge = base
  /\ enabled \in BOOLEAN
  /\ op = [c \in Cpus |-> Off]
  /\ folded = 0 /\ worst = 0 /\ torn = FALSE

-----------------------------------------------------------------------------
(* The gauges and the control law.                                         *)

(* mlfq_sys_lat_fold.                                                      *)
LatFold(lat, total, count, elapsed) ==
  IF count = 0
  THEN lat
  ELSE LET avg    == Capped(total \div count, LatMax)
           factor == Decay(FpOne, elapsed, Interval)
       IN  Capped(Decay(lat, elapsed, Interval)
                    + (avg * (FpOne - factor)) \div FpOne, LatMax)

(* mlfq_sys_rate_step.                                                     *)
RateStep(rate, arrivals, elapsed) ==
  LET el     == Capped(IF elapsed < Interval THEN Interval ELSE elapsed, RateWindowMax)
      rate_i == Capped((arrivals * Interval) \div el, RateMax)
      factor == Decay(FpOne, el, Interval)
  IN  (rate * factor) \div FpOne + (rate_i * FpOne * (FpOne - factor)) \div FpOne

(* The control law without the clamp at zero.                              *)
MutTargetNarrows(lat, rate) ==
  LET target == Capped(((lat - TargetLat) * K) \div TargetLat, MaxShift)
  IN  IF rate > RateGateHigh THEN Capped(target, RateGateShift) ELSE target

(* mlfq_adapt_shift_target.                                                *)
ShiftTarget(lat, rate) ==
  LET mag    == IF lat < TargetLat THEN 0 ELSE lat - TargetLat
      target == Capped((mag * K) \div TargetLat, MaxShift)
  IN  IF rate > RateGateHigh THEN Capped(target, RateGateShift) ELSE target

(* The shift jumps to its target.                                          *)
MutSlewJumps(prev, target) == target

(* mlfq_adapt_slew.                                                        *)
Slew(prev, target) ==
  IF target > prev + MaxStep THEN prev + MaxStep
  ELSE IF target < prev - MaxStep THEN prev - MaxStep
  ELSE target

(* The clamp at the floor only.                                            *)
MutBandNoCeil(e, s) ==
  LET v == base[e] + (base[e] * s) \div FpOne
  IN  IF v < Floor[e] THEN Floor[e] ELSE v

(* mlfq_adapt_band for a shift that is not negative.                       *)
Band(e, s) ==
  LET v == base[e] + (base[e] * s) \div FpOne
  IN  Capped(IF v < Floor[e] THEN Floor[e] ELSE v, Ceil[e])

-----------------------------------------------------------------------------
(* Time passes while no call of mlfq_maybe_adapt_step outlives an interval *)
(* since it read the clock: a callback runs to its end with preemption     *)
(* disabled, in far less than a second.                                    *)
Tick ==
  /\ clock < MaxClock
  /\ \A c \in Cpus :
       op[c].pc \in {"asked", "swap"} \cup StepPC => clock + 1 < op[c].now + Interval
  /\ clock' = clock + 1
  /\ UNCHANGED <<gauge, slot, shift, edge, base, enabled, op, folded, worst, torn>>

SumOver(f) == LET Upto[n \in 0..NCpus] == IF n = 0 THEN 0 ELSE Upto[n - 1] + f[n - 1]
              IN  Upto[NCpus]

Arrivals == SumOver([c \in Cpus |-> slot[c].total])

Goes(c, r) == op' = [op EXCEPT ![c] = r]

(* A CPU comes to the wait accumulators; torn records that it is not alone *)
(* there.                                                                  *)
Meets(c) == torn' = (torn \/ \E d \in Cpus \ {c} : op[d].pc \in MeasurePC \cup FoldPC)

(* ops.running of a wakeup episode: wait_total += wait; wait_count++.      *)
Measure(c, w) ==
  /\ op[c].pc = "off" /\ gauge.wait_count < MaxWaits
  /\ Goes(c, [op[c] EXCEPT !.pc = "addTotal", !.wait = w, !.read = gauge.wait_total])
  /\ worst' = IF w > worst THEN w ELSE worst
  /\ Meets(c)
  /\ UNCHANGED <<clock, gauge, slot, shift, edge, base, enabled, folded>>

AddTotal(c) ==
  /\ op[c].pc = "addTotal"
  /\ gauge' = [gauge EXCEPT !.wait_total = op[c].read + op[c].wait]
  /\ Goes(c, [op[c] EXCEPT !.pc = "loadCount", !.wait = 0, !.read = 0])
  /\ UNCHANGED <<clock, slot, shift, edge, base, enabled, folded, worst, torn>>

LoadCount(c) ==
  /\ op[c].pc = "loadCount"
  /\ Goes(c, [op[c] EXCEPT !.pc = "addCount", !.read = gauge.wait_count])
  /\ UNCHANGED <<clock, gauge, slot, shift, edge, base, enabled, folded, worst, torn>>

AddCount(c) ==
  /\ op[c].pc = "addCount"
  /\ gauge' = [gauge EXCEPT !.wait_count = op[c].read + 1]
  /\ Goes(c, Off)
  /\ UNCHANGED <<clock, slot, shift, edge, base, enabled, folded, worst, torn>>

(* ops.enqueue of a wakeup: the lifetime count, then the window.           *)
Arrive(c) ==
  /\ op[c].pc = "off" /\ Arrivals < MaxArrivals
  /\ slot' = [slot EXCEPT ![c].total = @ + 1]
  /\ Goes(c, [op[c] EXCEPT !.pc = "arrived"])
  /\ UNCHANGED <<clock, gauge, shift, edge, base, enabled, folded, worst, torn>>

AddWindow(c) ==
  /\ op[c].pc = "arrived"
  /\ slot' = [slot EXCEPT ![c].window = @ + 1]
  /\ Goes(c, Off)
  /\ UNCHANGED <<clock, gauge, shift, edge, base, enabled, folded, worst, torn>>

-----------------------------------------------------------------------------
(* ops.stopping and ops.dispatch: mlfq_maybe_adapt_step.  The callback has *)
(* read the clock, the stamp is read after it.                             *)
Ask(c) ==
  /\ op[c].pc = "off"
  /\ Goes(c, [op[c] EXCEPT !.pc = "asked", !.now = clock])
  /\ UNCHANGED <<clock, gauge, slot, shift, edge, base, enabled, folded, worst, torn>>

ReadStamp(c) ==
  /\ op[c].pc = "asked"
  /\ Goes(c, IF op[c].now < gauge.step_at + Interval
             THEN Off
             ELSE [op[c] EXCEPT !.pc = "swap", !.last = gauge.step_at])
  /\ UNCHANGED <<clock, gauge, slot, shift, edge, base, enabled, folded, worst, torn>>

(* A plain store instead of the compare-and-swap.                          *)
MutPlainStore(c) == TRUE

(* The compare-and-swap of the step stamp succeeds.                        *)
Wins(c) == gauge.step_at = op[c].last

Swap(c) ==
  /\ op[c].pc = "swap"
  /\ IF Wins(c)
     THEN /\ gauge' = [gauge EXCEPT !.step_at = op[c].now]
          /\ Goes(c, [op[c] EXCEPT !.pc = "loadTotal"])
          /\ Meets(c)
     ELSE Goes(c, Off) /\ UNCHANGED <<gauge, torn>>
  /\ UNCHANGED <<clock, slot, shift, edge, base, enabled, folded, worst>>

Elapsed(c) == IF op[c].now < op[c].last THEN 0 ELSE op[c].now - op[c].last

LoadTotal(c) ==
  /\ op[c].pc = "loadTotal"
  /\ Goes(c, [op[c] EXCEPT !.pc = "foldLatency", !.read = gauge.wait_total])
  /\ UNCHANGED <<clock, gauge, slot, shift, edge, base, enabled, folded, worst, torn>>

FoldLatency(c) ==
  /\ op[c].pc = "foldLatency"
  /\ gauge' = [gauge EXCEPT
       !.lat_ema = LatFold(@, op[c].read, gauge.wait_count, Elapsed(c))]
  /\ Goes(c, [op[c] EXCEPT !.pc = "clearTotal", !.read = 0])
  /\ UNCHANGED <<clock, slot, shift, edge, base, enabled, folded, worst, torn>>

(* The fold forgets to reset the sum.                                      *)
MutTotalKept(c) ==
  /\ op[c].pc = "clearTotal"
  /\ Goes(c, [op[c] EXCEPT !.pc = "clearCount"])
  /\ UNCHANGED <<clock, gauge, slot, shift, edge, base, enabled, folded, worst, torn>>

ClearTotal(c) ==
  /\ op[c].pc = "clearTotal"
  /\ gauge' = [gauge EXCEPT !.wait_total = 0]
  /\ Goes(c, [op[c] EXCEPT !.pc = "clearCount"])
  /\ UNCHANGED <<clock, slot, shift, edge, base, enabled, folded, worst, torn>>

ClearCount(c) ==
  /\ op[c].pc = "clearCount"
  /\ gauge' = [gauge EXCEPT !.wait_count = 0]
  /\ Goes(c, IF enabled THEN [op[c] EXCEPT !.pc = "exchange"] ELSE Off)
  /\ UNCHANGED <<clock, slot, shift, edge, base, enabled, folded, worst, torn>>

(* The sum of the windows keeps the last one only.                         *)
MutSumLast(sum, window) == window

(* mlfq_wakeup_window_fold: one atomic exchange per CPU.                   *)
AddsUp(sum, window) == sum + window

Exchange(c) ==
  /\ op[c].pc = "exchange" /\ op[c].next \in Cpus
  /\ LET d == op[c].next
     IN  /\ slot' = [slot EXCEPT ![d].window = 0]
         /\ Goes(c, [op[c] EXCEPT !.sum = AddsUp(@, slot[d].window), !.next = d + 1,
                                  !.pc = IF d + 1 \in Cpus THEN "exchange" ELSE "rate"])
  /\ UNCHANGED <<clock, gauge, shift, edge, base, enabled, folded, worst, torn>>

(* mlfq_adapt_step up to the shift.  Only the winner of a step reads and   *)
(* writes what it changes.                                                 *)
StepShift(c) ==
  /\ op[c].pc = "rate"
  /\ LET rate == RateStep(gauge.rate_ema, op[c].sum, Elapsed(c))
     IN  /\ gauge' = [gauge EXCEPT !.rate_ema = rate, !.adapt_steps = @ + 1]
         /\ shift' = Slew(shift, ShiftTarget(gauge.lat_ema, rate))
  /\ folded' = folded + op[c].sum
  /\ Goes(c, [op[c] EXCEPT !.pc = "t_l", !.sum = 0, !.next = 0])
  /\ UNCHANGED <<clock, slot, edge, base, enabled, worst, torn>>

After == [t_l |-> "t_h", t_h |-> "t_int", t_int |-> "t_bnd"]

(* mlfq_adapt_step: the next band edge.                                    *)
SetEdge(c) ==
  /\ op[c].pc \in Edges
  /\ edge' = [edge EXCEPT ![op[c].pc] = Band(op[c].pc, shift)]
  /\ Goes(c, IF op[c].pc = "t_bnd" THEN Off ELSE [op[c] EXCEPT !.pc = After[@]])
  /\ UNCHANGED <<clock, gauge, slot, shift, base, enabled, folded, worst, torn>>

Running(c)  == (\E w \in Waits : Measure(c, w)) \/ AddTotal(c) \/ LoadCount(c) \/ AddCount(c)
Enqueue(c)  == Arrive(c) \/ AddWindow(c)
MaybeStep(c) ==
  \/ Ask(c) \/ ReadStamp(c) \/ Swap(c)
  \/ LoadTotal(c) \/ FoldLatency(c) \/ ClearTotal(c) \/ ClearCount(c)
  \/ Exchange(c) \/ StepShift(c) \/ SetEdge(c)

Next == Tick \/ \E c \in Cpus : Running(c) \/ Enqueue(c) \/ MaybeStep(c)

Spec == Init /\ [][Next]_vars
-----------------------------------------------------------------------------
(* Every instant of a rewrite is a consistent set of bands: each edge in   *)
(* its hard range and the two edges of a pair at least 700 us and 200 us   *)
(* apart, even when one is of this step and the other of the step before   *)
(* (mlfq_check_bands, asserted in the code only at the end of a step).     *)
BandsOrdered ==
  /\ \A e \in Edges : edge[e] \in Floor[e]..Ceil[e]
  /\ edge["t_h"] - edge["t_l"] >= 14
  /\ edge["t_bnd"] - edge["t_int"] >= 4

(* The adaptation only widens the configured bands, and disabled it leaves *)
(* them alone (mlfq_adapt_shift_target, mlfq_maybe_adapt_step).            *)
WidenOnly ==
  /\ \A e \in Edges : base[e] <= edge[e]
  /\ ~enabled => edge = base

(* Every wakeup arrival is folded into the rate once: it is in a window,   *)
(* in the sum of the fold in progress, consumed, or between its two adds   *)
(* (mlfq_wakeup_window_fold against ops.enqueue).                          *)
ArrivalsConserved ==
  Arrivals =
    folded + SumOver([c \in Cpus |-> slot[c].window + op[c].sum
                                       + (IF op[c].pc = "arrived" THEN 1 ELSE 0)])

(* A machine whose waits never exceeded the target keeps the configured    *)
(* bands, as long as no two CPUs met at the wait accumulators: there the   *)
(* average is the average of waits (mlfq_sys_lat_fold).                    *)
QuietKeepsBands ==
  ~torn /\ worst <= TargetLat => shift = 0 /\ edge = base

(* However many CPUs ask at once, two steps are an interval apart          *)
(* (mlfq_maybe_adapt_step: "the step is never run twice for one window").  *)
StepsSpaced ==
  [][gauge'.step_at # gauge.step_at => gauge'.step_at >= gauge.step_at + Interval]_vars

(* One bad sample, torn or not, moves an edge by at most a tenth of its    *)
(* base (mlfq_adapt_slew).                                                 *)
EdgesSlewed ==
  [][\A e \in Edges :
       LET reach == (base[e] * MaxStep) \div FpOne + 1
       IN  edge'[e] \in (edge[e] - reach)..(edge[e] + reach)]_vars

=============================================================================
