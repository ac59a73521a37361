----------------------------- MODULE MlfqSelect ----------------------------
(***************************************************************************)
(* Where a wakeup goes (ops.select_cpu): the order in which its steps look *)
(* for an idle CPU, over the tables that MlfqTopology plans.               *)
(*                                                                         *)
(* A wakeup is the task and what a call reads of the machine, whatever the *)
(* other CPUs do meanwhile: the gauges are advisory, so nothing relates    *)
(* them to the idle CPUs here.  A bitmap scan claims its lowest match; the *)
(* kernel's pick may claim any idle CPU the task is allowed on (its taste  *)
(* for whole cores is left out).                                           *)
(***************************************************************************)
EXTENDS MlfqTopology

CONSTANTS
  Q3Strict,    \* how far a Q3 wakeup looks for a CPU without a veto (64)
  Q3Relaxed,   \* and for any CPU (32)
  SteerMax     \* MLFQ_STEER_LLC_MAX

LlcIds == 0..(MaxLlcs - 1)

Wake ==
  [queue : 1..3,                        \* of the previous run
   boost : BOOLEAN,                     \* mlfq_ss_boost_pending, not SCHED_IDLE
   sync : BOOLEAN,                      \* SCX_WAKE_SYNC or MLFQ_TF_DRM_WAKE
   prev : CpuIds, waker : CpuIds,
   allowed : (SUBSET CpuIds) \ {{}},
   idle : SUBSET CpuIds,                \* the kernel's idle marks
   occupied : SUBSET CpuIds,            \* taken by realtime tasks
   vetoed : SUBSET CpuIds,              \* the sibling runs a Q1 task
   idle_count : {"untracked", "zero", "some"},
   llc_idle : SUBSET LlcIds, llc_runnable : [LlcIds -> Nat]]

(* mlfq_interactive_on_wakeup: interactive, or about to be.                *)
Interactive(w) == w.queue = 1 \/ w.boost

(* The synchronous hand-off to the waker's CPU, idle or not.               *)
Handoff(w) == w.sync /\ w.queue # 3 /\ w.waker \in w.allowed \ w.occupied

(* The previous CPU, after the fix-up of a changed affinity.               *)
Prev(w) == IF w.prev \in w.allowed THEN w.prev ELSE Least(w.allowed)

Claimable(w) == w.idle \cap w.allowed

IsPrimary(t, m, c) == t.primary_all \/ c \in m.primary

Lowest(S) == IF S = {} THEN {} ELSE {Least(S)}

(* mlfq_pick_idle_in_bitmap: nothing, or the one CPU it claims.            *)
PickInBitmap(t, m, w, bitmap, require_primary) ==
  Lowest({c \in bitmap \cap Claimable(w) : require_primary => IsPrimary(t, m, c)})

WakerLlc(t, w) ==
  IF t.cpu_llc[w.waker] < t.nr_llcs THEN t.cpu_llc[w.waker] ELSE MaxLlcs

-----------------------------------------------------------------------------
(* The steps, each the set of the CPUs it may claim.                       *)

(* 1: an idle previous CPU, but an efficiency core for no interactive one. *)
PrevStep(t, m, w) ==
  {c \in {Prev(w)} \cap w.idle :
     c \notin w.vetoed /\ (Interactive(w) => IsPrimary(t, m, c))}

(* 1.5: its sibling, which shares its first caches.                        *)
SiblingStep(t, w) ==
  IF Interactive(w) \/ ~t.smt_on THEN {}
  ELSE {c \in {t.cpu_sibling[Prev(w)]} \cap Claimable(w) :
          c # Prev(w) /\ c \notin w.vetoed}

(* The saturation fast path: no CPU is idle, says the count.               *)
Saturated(w) == w.idle_count = "zero" /\ Prev(w) \notin w.occupied

(* 1.9: a primary core of the largest domain, for an interactive one.      *)
LargestStep(t, m, w) ==
  IF Interactive(w) /\ t.llc_largest < t.nr_llcs
     /\ t.llc_largest # WakerLlc(t, w) /\ t.llc_largest \in t.has_primary
  THEN PickInBitmap(t, m, w, m.llcs[t.llc_largest], TRUE)
  ELSE {}

(* Step 2 with the domain's bitmap whatever the core.                      *)
MutWakerStep(t, m, w) ==
  IF WakerLlc(t, w) = MaxLlcs \/ (Interactive(w) /\ WakerLlc(t, w) \notin t.has_primary)
  THEN {}
  ELSE IF t.nr_llcs = 1 THEN Claimable(w)
  ELSE PickInBitmap(t, m, w, m.llcs[WakerLlc(t, w)], FALSE)

(* 2: the waker's domain, by the kernel's pick if there is no other one.   *)
WakerStep(t, m, w) ==
  IF WakerLlc(t, w) = MaxLlcs \/ (Interactive(w) /\ WakerLlc(t, w) \notin t.has_primary)
  THEN {}
  ELSE IF t.nr_llcs = 1 THEN Claimable(w)
  ELSE PickInBitmap(t, m, w, m.llcs[WakerLlc(t, w)], Interactive(w))

(* mlfq_steer_pick_llc, repeated: the domains steering probes, and which   *)
(* of two it probes first.                                                 *)
Sooner(w, j, k) ==
  \/ w.llc_runnable[j] < w.llc_runnable[k]
  \/ w.llc_runnable[j] = w.llc_runnable[k] /\ j < k

Probed(t, w) ==
  LET eligible == {k \in w.llc_idle : k < t.nr_llcs /\ k # WakerLlc(t, w)}
  IN  {k \in eligible : Cardinality({j \in eligible : Sooner(w, j, k)}) < SteerMax}

(* 2.5: the first of them in which there is a CPU to claim.                *)
SteerStep(t, m, w) ==
  LET pick(k) == PickInBitmap(t, m, w, m.llcs[k], Interactive(w))
      hits == {k \in Probed(t, w) : pick(k) # {}}
  IN  IF w.idle_count = "some" /\ t.nr_llcs > 1
      THEN UNION {pick(k) : k \in {h \in hits : \A j \in hits \ {h} : Sooner(w, h, j)}}
      ELSE {}

(* 3: an idle primary core for an interactive one, and any idle CPU.       *)
GlobalStep(t, m, w) ==
  LET big == PickInBitmap(t, m, w, m.primary, FALSE)
  IN  IF Interactive(w) /\ ~t.primary_all /\ big # {} THEN big ELSE Claimable(w)

(* The two scans of a task that was in Q3 last, and that nothing promotes  *)
(* here, whatever awaits it in ops.enqueue.                                *)
StrictScan(w) ==
  Lowest({c \in Claimable(w) \ (w.occupied \cup w.vetoed) : c < Q3Strict})
RelaxedScan(w) == Lowest({c \in Claimable(w) \ w.occupied : c < Q3Relaxed})

OrElse(S, T) == IF S # {} THEN S ELSE T

(* The CPUs a call may claim: those of its first step that has any.        *)
Claims(t, m, w) ==
  IF Handoff(w) THEN {}
  ELSE IF w.queue = 3 THEN OrElse(StrictScan(w), RelaxedScan(w))
  ELSE LET near == OrElse(PrevStep(t, m, w), SiblingStep(t, w))
           far == OrElse(LargestStep(t, m, w), OrElse(WakerStep(t, m, w),
                    OrElse(SteerStep(t, m, w), GlobalStep(t, m, w))))
       IN  OrElse(near, IF Saturated(w) THEN {} ELSE far)

=============================================================================
