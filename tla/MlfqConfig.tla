----------------------------- MODULE MlfqConfig ----------------------------
(***************************************************************************)
(* The scheduling constants: Config::default, its validation, and what the *)
(* BPF side takes for granted of the values that are written to its        *)
(* rodata.  A configuration maps the fields of struct Config to values, in *)
(* units of 50 us where they are times.  adapt_enabled is left out: every  *)
(* module that reads it takes both values.                                 *)
(***************************************************************************)
EXTENDS Integers

Slices == {"q1_slice", "q2_slice", "q3_slice"}
Quotas == {"q1_quota", "q2_quota"}
Edges == {"t_l", "t_h", "tree_t_int", "tree_t_bound"}
Windows == {"ema_half_life", "aging_period", "short_sleep",
            "short_sleep_rate_limit", "hysteresis_sleep", "long_sleep"}

Fields == Slices \cup Quotas \cup Edges \cup Windows
          \cup {"budget_max", "alpha", "dispatch_max_batch", "rtdl_drain_interval",
                "sameq_preempt_min_run", "preempt_slice"}

Config == [Fields -> Nat]

(* .dispatch_max_batch of the ops table.                                   *)
OpsMaxBatch == 32

Default ==
  [budget_max |-> 120, alpha |-> 3072, t_l |-> 5, t_h |-> 40,
   q1_slice |-> 20, q2_slice |-> 40, q3_slice |-> 80,
   ema_half_life |-> 480, aging_period |-> 20000, short_sleep |-> 640,
   short_sleep_rate_limit |-> 40, hysteresis_sleep |-> 80, long_sleep |-> 2400,
   sameq_preempt_min_run |-> 0, preempt_slice |-> 3,
   q1_quota |-> 4, q2_quota |-> 8, dispatch_max_batch |-> 32,
   rtdl_drain_interval |-> 20, tree_t_int |-> 20, tree_t_bound |-> 60]

(* Config::validate, in the order of its tests.                            *)
Validate(c) ==
  /\ \A f \in Slices \cup {"budget_max", "alpha"} : c[f] # 0
  /\ 0 < c.t_l /\ c.t_l < c.t_h /\ c.t_h < c.budget_max
  /\ \A f \in Windows \cup Quotas \cup {"dispatch_max_batch"} : c[f] # 0
  /\ c.q1_quota + c.q2_quota < c.dispatch_max_batch
  /\ c.dispatch_max_batch <= OpsMaxBatch
  /\ c.rtdl_drain_interval # 0
  /\ 0 < c.tree_t_int /\ c.tree_t_int < c.tree_t_bound

(* What mlfq_init tests again, of the values in rodata.                    *)
InitAccepts(c) ==
  c.q1_quota + c.q2_quota < c.dispatch_max_batch /\ c.tree_t_int < c.tree_t_bound

(* Config::apply: field by field, under the same names.                    *)
Applied(c) == [f \in Fields |-> c[f]]

(* What mlfq_dispatch_queue may move for Q3 when Q1 and Q2 moved m1 and m2.*)
Remaining(c, m1, m2) == c.dispatch_max_batch - m1 - m2

(* The hard ranges of the adapted edges, as in MlfqAdapt.                  *)
HardFloor == [t_l |-> 3, t_h |-> 24, tree_t_int |-> 12, tree_t_bound |-> 36]
HardCeil  == [t_l |-> 10, t_h |-> 64, tree_t_int |-> 32, tree_t_bound |-> 96]

(* Q3 keeps a share of every dispatch call, whatever Q1 and Q2 used, and   *)
(* no call asks the kernel for more moves than the ops table allows.       *)
SharesServe(c) ==
  \A m1 \in 0..c.q1_quota, m2 \in 0..c.q2_quota :
    Remaining(c, m1, m2) \in 1..OpsMaxBatch

(* What the classification is proved under: a non-empty middle band below  *)
(* the ceiling of the gauge, and periods that are not empty.               *)
BandsServe(c) ==
  /\ 0 < c.t_l /\ c.t_l < c.t_h /\ c.t_h < c.budget_max
  /\ 0 < c.tree_t_int /\ c.tree_t_int < c.tree_t_bound
  /\ c.ema_half_life > 0 /\ c.aging_period > 0

(* What the adaptation is proved under, which validate does not test.      *)
EdgesInRange(c) == \A e \in Edges : c[e] \in HardFloor[e]..HardCeil[e]

Serves(c) == SharesServe(c) /\ BandsServe(c) /\ EdgesInRange(c)

=============================================================================
