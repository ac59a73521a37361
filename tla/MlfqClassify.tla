---------------------------- MODULE MlfqClassify ---------------------------
(***************************************************************************)
(* The classification of one task (classify.bpf.c, the first half of       *)
(* ops.enqueue, the gauge updates of ops.stopping): which queue a task is  *)
(* in, and why.  A task has a gauge of its recent CPU use (the EMA), two   *)
(* eight-bit hysteresis counters, a rate-limited boost and a stay that     *)
(* ages.  The decision tree contributes a prediction that is arbitrary     *)
(* here: the daemon may publish any tree at any time.                      *)
(*                                                                         *)
(* Timestamps are kept as ages, each saturating just beyond the only       *)
(* threshold it is compared with, so no behaviour is lost and time needs   *)
(* no bound.  Of the sample block only the captured sleep is kept, which   *)
(* ops.stopping reads.                                                     *)
(***************************************************************************)
EXTENDS MlfqMath

CONSTANTS
  BudgetMax,    \* MLFQ_BUDGET_MAX_NS, the ceiling of the gauge
  Alpha,        \* MLFQ_ALPHA, the climb rate in 1/FpOne
  HalfLife,     \* MLFQ_EMA_HALF_LIFE_NS
  ShortSleep,   \* MLFQ_SHORT_SLEEP_NS
  RateLimit,    \* MLFQ_SHORT_SLEEP_RATE_LIMIT_NS
  HystSleep,    \* MLFQ_HYSTERESIS_SLEEP_NS
  LongSleep,    \* MLFQ_LONG_SLEEP_NS
  SleepClamp,   \* the 64 ms clamp of mlfq_sleep_ema_update
  AgingPeriod,  \* MLFQ_AGING_PERIOD_NS
  CntMod,       \* 2^8, the modulus of the hysteresis counters
  GpuMax,       \* 4, the ceiling of gpu_submit
  Bands,        \* the band edges the adaptation may install
  Preds,        \* predictions of a trained tree
  Sleeps,       \* lengths of a sleep
  Waits,        \* lengths of a wait in a DSQ
  Bursts,       \* lengths of a run segment
  Policies      \* whether a task may be SCHED_IDLE

Exhaustions == 8

ASSUME ClassifyAssumption ==
  /\ BudgetMax \in Nat \ {0} /\ Alpha \in Nat /\ HalfLife \in Nat \ {0}
  /\ ShortSleep \in Nat /\ HystSleep \in Nat /\ LongSleep \in Nat
  /\ SleepClamp \in Nat /\ RateLimit \in Nat /\ AgingPeriod \in Nat \ {0}
  /\ CntMod \in Nat /\ CntMod > Exhaustions /\ GpuMax \in Nat
  /\ Preds \subseteq Nat /\ Sleeps \subseteq Nat /\ Waits \subseteq Nat
  /\ Bursts \subseteq Nat /\ Policies \subseteq BOOLEAN
  /\ Bands \subseteq [t_l : Nat \ {0}, t_h : Nat \ {0},
                      t_int : Nat \ {0}, t_bnd : Nat \ {0}]
  /\ \A b \in Bands : b.t_l < b.t_h /\ b.t_int < b.t_bnd /\ b.t_h < BudgetMax

VARIABLES
  phase,    \* where the task is between two callbacks
  tc,       \* the classification fields of its task_ctx
  bands,    \* mlfq_adapt_state: the effective band edges
  trained,  \* a tree has been published
  hist      \* history: what earns a demotion and a promotion

vars == <<phase, tc, bands, trained, hist>>

(***************************************************************************)
(* boost and stay are the ages of last_ss_boost_at and of queued_at; an    *)
(* unset last_ss_boost_at is as good as an elapsed one.  feat_sleep is     *)
(* pending_feats.sleep_ns.                                                 *)
(***************************************************************************)
NoStay == -1

TaskCtx == [queue : 1..3, ema : 0..BudgetMax,
            wake_cnt : 0..(CntMod - 1), reenq_cnt : 0..(CntMod - 1),
            boost : 0..(RateLimit + 1), stay : NoStay..AgingPeriod,
            prev_burst : Nat, gpu : 0..GpuMax, feat_sleep : Nat,
            idle : BOOLEAN]

(* hist.outs: run-outs in a row since the last sleep, counter reset or     *)
(* queue change; hist.shorts: short sleeps in a row with no run-out or     *)
(* other re-enqueue between; hist.hogs: run-outs in a row that everything  *)
(* says are CPU-bound, queue changes or not.                               *)
HogBound == 2 * Exhaustions + 1

Hist == [outs : 0..Exhaustions, shorts : 0..2, hogs : 0..HogBound]

TypeOK ==
  /\ phase \in {"new", "asleep", "queued", "running", "stopped"}
  /\ tc \in TaskCtx
  /\ bands \in Bands
  /\ trained \in BOOLEAN
  /\ hist \in Hist

-----------------------------------------------------------------------------
(* The gauge.                                                              *)

(* mlfq_ema_climb: a step toward the ceiling, at most the whole gap.       *)
EmaClimb(ema, delta) ==
  LET gap == BudgetMax - ema
  IN  ema + Capped((gap * Capped(delta, BudgetMax) * Alpha)
                     \div (BudgetMax * FpOne), gap)

(* A gauge decays over a sleep with the half-life of the tasks' gauges.    *)
EmaDecay(ema, sleep) == Decay(ema, sleep, HalfLife)

(* mlfq_queue_from_ema                                                     *)
QueueFromEma(ema) ==
  IF ema <= bands.t_l THEN 1 ELSE IF ema >= bands.t_h THEN 3 ELSE 2

-----------------------------------------------------------------------------
(* The rules of a wakeup, each from the task's context to the next.        *)

(* Time d passes.                                                          *)
Elapse(t, d) ==
  [t EXCEPT !.boost = Capped(@ + d, RateLimit + 1),
            !.stay = IF @ = NoStay THEN NoStay ELSE Capped(@ + d, AgingPeriod)]

(* A wakeup that leaves the exhaustions of the run before the sleep.       *)
MutDecayKeepsCount(t, sleep) == [t EXCEPT !.ema = EmaDecay(@, sleep)]

(* The gauge decays over the sleep and the exhaustions are forgotten.      *)
WakeDecay(t, sleep) ==
  [t EXCEPT !.ema = EmaDecay(@, sleep), !.reenq_cnt = 0]

(* The prediction the mapping uses: none for a SCHED_IDLE task, and below  *)
(* the Q3 band for a GPU submitter that neither slept nor ran long.        *)
WakePred(t, sleep, pred) ==
  CASE t.idle -> 0
    [] /\ ~t.idle /\ pred >= bands.t_bnd /\ t.gpu > 0
       /\ sleep <= ShortSleep /\ t.prev_burst <= bands.t_h
         -> bands.t_bnd - 1
    [] OTHER -> pred

(* mlfq_tree_map_queue: promotion only, nothing for the sentinel zero.     *)
TreeMapQueue(t, pred) ==
  [t EXCEPT !.queue = CASE pred # 0 /\ pred < bands.t_int -> 1
                        [] /\ pred # 0 /\ pred >= bands.t_int
                           /\ pred < bands.t_bnd /\ @ > 2 -> 2
                        [] OTHER -> @]

(* mlfq_ss_boost_pending: mlfq_boost_eligible and mlfq_ss_boost_allowed.   *)
BoostPending(t, sleep, io) ==
  /\ io \/ sleep \in 1..ShortSleep
  /\ t.boost > RateLimit

IpcBoost(t, sleep, io) ==
  IF ~t.idle /\ BoostPending(t, sleep, io)
  THEN [t EXCEPT !.queue = 1, !.boost = 0]
  ELSE t

(* mlfq_promote_on_wakeup                                                  *)
PromoteOnWakeup(t, sleep) ==
  LET cnt  == IF sleep <= HystSleep THEN (t.wake_cnt + 1) % CntMod ELSE 0
      rise == /\ cnt >= 2
              /\ \/ t.queue = 2 /\ t.ema < bands.t_l \div 2
                 \/ t.queue = 3 /\ t.ema < bands.t_h \div 2
  IN  IF rise THEN [t EXCEPT !.queue = @ - 1, !.wake_cnt = 0]
              ELSE [t EXCEPT !.wake_cnt = cnt]

(* The untrained long sleep re-adopts the base mapping when it is higher.  *)
LongSleepRemap(t, sleep, pred) ==
  IF pred = 0 /\ sleep > LongSleep /\ QueueFromEma(t.ema) < t.queue
  THEN [t EXCEPT !.queue = QueueFromEma(t.ema)]
  ELSE t

(* A seed that does not spare the wakeup from I/O.                         *)
MutSeedIgnoresIo(t, sleep, io) ==
  IF t.gpu = 0 /\ t.prev_burst > bands.t_h /\ sleep > ShortSleep
  THEN [t EXCEPT !.queue = 3] ELSE t

(* The Q3 seed of a wakeup.                                                *)
WakeSeed(t, sleep, io) ==
  IF ~io /\ t.gpu = 0 /\ t.prev_burst > bands.t_h /\ sleep > ShortSleep
  THEN [t EXCEPT !.queue = 3] ELSE t

(* mlfq_wakeup_classify, in the order of the code.                         *)
WakeupClassify(t, sleep, io, pred) ==
  LET p == WakePred(t, sleep, pred)
      a == WakeDecay(t, sleep)
      b == IF t.idle THEN a ELSE [a EXCEPT !.feat_sleep = sleep]
      c == IpcBoost(TreeMapQueue(b, p), sleep, io)
      d == LongSleepRemap(PromoteOnWakeup(c, sleep), sleep, p)
  IN  WakeSeed(d, sleep, io)

-----------------------------------------------------------------------------
(* The rules of a run-out.                                                 *)

(* The Q3 seed of a run-out, with no test of a sleep.                      *)
RunoutSeed(t) ==
  IF t.gpu = 0 /\ t.prev_burst > bands.t_h THEN [t EXCEPT !.queue = 3] ELSE t

(* mlfq_demote_on_reenq                                                    *)
DemoteOnReenq(t, pred) ==
  LET cnt      == (t.reenq_cnt + 1) % CntMod
      cpuBound == IF pred # 0 THEN pred >= bands.t_bnd ELSE t.ema > bands.t_h
  IN  IF t.queue \in {1, 2} /\ cpuBound /\ cnt >= Exhaustions
      THEN [t EXCEPT !.queue = @ + 1, !.reenq_cnt = 0]
      ELSE [t EXCEPT !.reenq_cnt = cnt]

(* mlfq_runout_classify                                                    *)
RunoutClassify(t, pred) ==
  LET a == IF t.idle THEN t ELSE [t EXCEPT !.feat_sleep = 0]
  IN  DemoteOnReenq(RunoutSeed([a EXCEPT !.wake_cnt = 0]),
                    IF t.idle THEN 0 ELSE pred)

-----------------------------------------------------------------------------
(* The tail of every enqueue: the SCHED_IDLE pin, the stay, the aging.     *)

(* A stay that begins afresh: only Q2 and Q3 have one.                     *)
StayOf(q) == IF q >= 2 THEN 0 ELSE NoStay

(* A bookkeeping that starts the count again at every re-arm of the stay.  *)
MutSettleClears(t, old, rearm) ==
  LET q == IF t.idle THEN 3 ELSE t.queue
      stay == IF q # old \/ rearm THEN StayOf(q) ELSE t.stay
      aged == q >= 2 /\ ~t.idle /\ stay >= AgingPeriod
  IN  [t EXCEPT !.queue = IF aged THEN 1 ELSE q, !.stay = stay,
                !.reenq_cnt = IF q # old \/ rearm \/ aged THEN 0 ELSE @]

Settle(t, old, rearm) ==
  LET q     == IF t.idle THEN 3 ELSE t.queue
      moved == q # old
      stay  == IF moved \/ rearm THEN StayOf(q) ELSE t.stay
      aged  == q >= 2 /\ ~t.idle /\ stay >= AgingPeriod
  IN  [t EXCEPT !.queue = IF aged THEN 1 ELSE q,
                !.stay = stay,
                !.reenq_cnt = IF moved \/ aged THEN 0 ELSE @]

-----------------------------------------------------------------------------
(* mlfq_reset_task_ctx: the fresh context of a forked task.                *)
FreshCtx(idle) ==
  [queue |-> 2, ema |-> 0, wake_cnt |-> 0, reenq_cnt |-> 0,
   boost |-> RateLimit + 1, stay |-> NoStay, prev_burst |-> 0, gpu |-> 0,
   feat_sleep |-> 0, idle |-> idle]

Init ==
  /\ phase \in {"new", "asleep"}
  /\ \E idle \in Policies : tc = FreshCtx(idle)
  /\ bands \in Bands
  /\ trained = FALSE
  /\ hist = [outs |-> 0, shorts |-> 0, hogs |-> 0]

(* What mlfq_tree_predict may return: the untrained sentinel is zero.      *)
Predicted == IF trained THEN Preds ELSE {0}

(* ops.enqueue of a wakeup.                                                *)
Wakeup(sleep, io, pred) ==
  /\ phase = "asleep"
  /\ phase' = "queued"
  /\ tc' = Settle(WakeupClassify(Elapse(tc, sleep), sleep, io, pred),
                  tc.queue, TRUE)
  /\ hist' = [outs |-> 0, hogs |-> 0,
              shorts |-> IF sleep <= HystSleep
                         THEN Capped(hist.shorts + 1, 2) ELSE 0]
  /\ UNCHANGED <<bands, trained>>

(* ops.enqueue with no flags: the slice is consumed, or was zeroed by a    *)
(* preempting insert.                                                      *)
RunOut(pred) ==
  /\ phase = "stopped"
  /\ phase' = "queued"
  /\ tc' = Settle(RunoutClassify(tc, pred), tc.queue, TRUE)
  /\ hist' = [outs |-> IF tc'.queue # tc.queue
                       THEN 0 ELSE Capped(hist.outs + 1, Exhaustions),
              shorts |-> 0,
              hogs |-> IF tc.ema = BudgetMax /\ (pred = 0 \/ pred >= bands.t_bnd)
                       THEN Capped(hist.hogs + 1, HogBound) ELSE 0]
  /\ UNCHANGED <<bands, trained>>

(* Every other ops.enqueue: fork, SCX_ENQ_LAST, a re-enqueue of a queued   *)
(* or just preempted task, a change of policy or class.                    *)
OtherEnqueue(idle) ==
  /\ phase \in {"new", "queued", "stopped"}
  /\ phase' = "queued"
  /\ tc' = Settle([tc EXCEPT !.wake_cnt = 0, !.reenq_cnt = 0, !.idle = idle],
                  tc.queue, FALSE)
  /\ hist' = [outs |-> 0, shorts |-> 0, hogs |-> 0]
  /\ UNCHANGED <<bands, trained>>

(* The policy of a sleeping task changes without a callback.               *)
SetPolicy(idle) ==
  /\ phase = "asleep"
  /\ tc' = [tc EXCEPT !.idle = idle]
  /\ UNCHANGED <<phase, bands, trained, hist>>

(* A higher class took the CPU while slice was left: the kernel puts the   *)
(* task at the head of the local DSQ with no callback.                     *)
Resume ==
  /\ phase = "stopped"
  /\ phase' = "queued"
  /\ UNCHANGED <<tc, bands, trained, hist>>

(* ops.running after a wait.                                               *)
Running(wait) ==
  /\ phase = "queued"
  /\ phase' = "running"
  /\ tc' = Elapse(tc, wait)
  /\ UNCHANGED <<bands, trained, hist>>

(* The gpu_submit part of mlfq_sleep_ema_update: the decay of a long idle  *)
(* is tested after the clamp.                                              *)
GpuAfterSleep(gpu, sleep) ==
  IF Capped(sleep, SleepClamp) > LongSleep /\ gpu > 0 THEN gpu - 1 ELSE gpu

(* The sleep the cadence update uses: the captured one; without a capture  *)
(* none, or just beyond the long sleep when a mean is there to decay.      *)
CadenceSleeps == IF tc.feat_sleep # 0 THEN {tc.feat_sleep} ELSE {0, LongSleep + 1}

(* ops.stopping after a run segment, which the keep path may have made any *)
(* number of slices long.                                                  *)
Stopping(burst, runnable) ==
  /\ phase = "running"
  /\ phase' = IF runnable THEN "stopped" ELSE "asleep"
  /\ \E sleep \in CadenceSleeps :
       tc' = [Elapse(tc, burst) EXCEPT
                !.ema = IF burst > 0 THEN EmaClimb(@, burst) ELSE @,
                !.prev_burst = IF burst > 0 THEN burst ELSE @,
                !.gpu = IF runnable THEN @ ELSE GpuAfterSleep(@, sleep)]
  /\ UNCHANGED <<bands, trained, hist>>

(* mlfq_gpu_submit_inc of a running task outside its dedup window.         *)
GpuSubmit ==
  /\ phase = "running"
  /\ tc' = [tc EXCEPT !.gpu = Capped(@ + 1, GpuMax)]
  /\ UNCHANGED <<phase, bands, trained, hist>>

(* The daemon publishes a tree: the trained bit is never cleared again.    *)
Publish ==
  /\ ~trained
  /\ trained' = TRUE
  /\ UNCHANGED <<phase, tc, bands, hist>>

(* mlfq_adapt_step installs other band edges.                              *)
Adapt(b) ==
  /\ bands # b
  /\ bands' = b
  /\ UNCHANGED <<phase, tc, trained, hist>>

Next ==
  \/ \E sleep \in Sleeps, io \in BOOLEAN, pred \in Predicted :
       Wakeup(sleep, io, pred)
  \/ \E pred \in Predicted : RunOut(pred)
  \/ \E idle \in Policies : OtherEnqueue(idle)
  \/ \E idle \in Policies : SetPolicy(idle)
  \/ Resume
  \/ \E wait \in Waits : Running(wait)
  \/ \E burst \in Bursts, runnable \in BOOLEAN : Stopping(burst, runnable)
  \/ GpuSubmit
  \/ Publish
  \/ \E b \in Bands : Adapt(b)

Spec == Init /\ [][Next]_vars

-----------------------------------------------------------------------------
(* Properties.                                                             *)

(* A demotion is earned: apart from the SCHED_IDLE pin and the Q3 seed of  *)
(* a task with a long burst and no GPU work, the queue number grows only   *)
(* at the eighth run-out in a row with no sleep, no counter reset and no   *)
(* queue change between (mlfq_demote_on_reenq, mlfq_wakeup_classify).      *)
DemotionEarned ==
  [][/\ tc'.queue > tc.queue /\ ~tc'.idle
     /\ tc.gpu > 0 \/ tc.prev_burst <= bands.t_h
     => phase = "stopped" /\ hist.outs >= Exhaustions - 1]_vars

(* A promotion by hysteresis is earned: with no tree, no boost and no long *)
(* sleep, a wakeup raises a task only after two short sleeps in a row with *)
(* no run-out between (mlfq_promote_on_wakeup, mlfq_runout_classify).      *)
PromotionEarned ==
  [][/\ phase = "asleep" /\ phase' = "queued" /\ ~trained
     /\ tc'.queue < tc.queue
     /\ tc'.boost # 0 /\ tc'.feat_sleep <= LongSleep
     => hist'.shorts = 2]_vars

(* A task moves between the queues only by what it did, in both            *)
(* directions.                                                             *)
TransitionsEarned == DemotionEarned /\ PromotionEarned

(* I/O and short sleeps dominate: a wakeup that spends the boost budget    *)
(* ends in Q1, whatever the tree and the Q3 seed say after it.             *)
BoostHonoured ==
  [][/\ phase = "asleep" /\ phase' = "queued"
     /\ tc'.boost = 0 /\ tc.boost > 0
     => tc'.queue = 1]_vars

(* An impostor is demoted: seventeen run-outs in a row at a full gauge,    *)
(* each with a prediction that says CPU-bound or none, end in Q3 from      *)
(* anywhere, although the eight-bit count may stand just before its wrap   *)
(* and bursts below the seed threshold leave demotion to the count.        *)
HogSinks == hist.hogs = HogBound => tc.queue = 3

=============================================================================
