----------------------------- MODULE MlfqVtime -----------------------------
(***************************************************************************)
(* The EEVDF virtual-time substrate (intf.h, vtime.bpf.c, and the parts of *)
(* enqueue.bpf.c and lifecycle.bpf.c that drive it).                       *)
(*                                                                         *)
(* Every queue has one virtual clock that all CPUs read and advance with   *)
(* no lock.  A task is placed against the clock of its queue when it is    *)
(* inserted into a queue DSQ; a run segment is charged to the task and the *)
(* clock then follows with one compare-and-swap that is never retried.     *)
(* The local-DSQ paths (idle CPU, wakeup preemption, SYNC handoff) run a   *)
(* task without placing it.                                                *)
(*                                                                         *)
(* The kernel serializes the callbacks of one task, so the program counter *)
(* of an operation in flight is kept per task; operations of different     *)
(* tasks (on different CPUs) interleave between any two shared reads and   *)
(* writes of a clock.                                                      *)
(*                                                                         *)
(* Time is in units of the tick.  Values are unbounded: u64 nanoseconds    *)
(* wrap after centuries of uptime, and the code compares them as signed    *)
(* differences.                                                            *)
(***************************************************************************)
EXTENDS Integers

CONSTANTS
  Tasks,      \* tasks of the scheduling class
  Queues,     \* queue ids (1..3 in the code)
  Slice,      \* max_slice_ns of each queue
  Tick,       \* MLFQ_TICK_NS
  Weights,    \* values of p->scx.weight (nice-0 is 100)
  Deltas,     \* lengths of a run segment
  MaxVtime    \* bound: no task is charged beyond this virtual time

ASSUME VtimeAssumption ==
  /\ Slice \in [Queues -> Nat]
  /\ Tick \in Nat
  /\ Weights \subseteq Nat \ {0}
  /\ Deltas \subseteq Nat
  /\ MaxVtime \in Nat

VARIABLES
  clock,      \* queue_ctx.clock of each queue
  task,       \* the virtual-time fields of each task's task_ctx
  pc,         \* the operation in flight for each task, or where it rests
  reg         \* registers of the operation in flight: <<clock read, deadline
              \* or, in "cas", the charge of the run>>

vars == <<clock, task, pc, reg>>

(***************************************************************************)
(* Resting places of a task: "off" (not runnable or between two            *)
(* callbacks), "queued" (in a queue DSQ), "local" (in a local DSQ),        *)
(* "running".  The others are points inside an operation.  task[t].placed  *)
(* is a history variable: the current stay or run began with a placement.  *)
(***************************************************************************)
PC == {"off", "place", "commit", "queued", "local", "running", "cas"}

TaskCtx == [vruntime : Nat, vlag : Nat, deadline : Nat, weight : Weights,
            queue : Queues, first : BOOLEAN, placed : BOOLEAN]

TypeOK ==
  /\ clock \in [Queues -> Nat]
  /\ task \in [Tasks -> TaskCtx]
  /\ pc \in [Tasks -> PC]
  /\ reg \in [Tasks -> Nat \X Nat]

-----------------------------------------------------------------------------
(* The pure placement arithmetic.                                          *)

(* calc_delta_fair_bpf: virtual time grows at rate 100 / weight.           *)
CalcDeltaFair(delta, weight) == (delta * 100) \div weight

(* mlfq_lag_limit                                                          *)
LagLimit(q, weight) == CalcDeltaFair(Slice[q] + Tick, weight)

(* The request size of a placement: half of it for a new task.             *)
VSlice(tc) ==
  LET vslice == CalcDeltaFair(Slice[tc.queue], tc.weight)
  IN  IF tc.first THEN vslice \div 2 ELSE vslice

(* A lag with no clamp at zero: a task ahead of the clock keeps its lead.  *)
MutLeadKept(clk, tc) ==
  LET limit == LagLimit(tc.queue, tc.weight)
      lag   == clk - tc.vruntime
  IN  IF lag > limit THEN limit ELSE lag

(* A lag with no limit: a task that slept long keeps all of it.            *)
MutLagUnbounded(clk, tc) ==
  IF clk < tc.vruntime THEN 0 ELSE clk - tc.vruntime

(* The lag of a task against a clock value: zero when it is ahead of the   *)
(* clock, at most the limit when it is behind.                             *)
ClampedLag(clk, tc) ==
  LET limit == LagLimit(tc.queue, tc.weight)
      lag   == clk - tc.vruntime
  IN  IF clk < tc.vruntime THEN 0 ELSE IF lag > limit THEN limit ELSE lag

(* A deadline from the virtual runtime before the placement.               *)
MutOldVruntime(clk, tc) ==
  LET deadline == tc.vruntime + VSlice(tc)
  IN  IF deadline = 0 THEN 1 ELSE deadline

(* mlfq_place_entity_deadline, from the clock value it read.  Zero is the  *)
(* sentinel of a failed placement, so a deadline of zero becomes one: with *)
(* the code's slices and weights a request is positive, so that only the   *)
(* wrap of the 64-bit clock gets there, with slices of a tick its start.   *)
PlaceEntityDeadline(clk, tc) ==
  LET deadline == (clk - ClampedLag(clk, tc)) + VSlice(tc)
  IN  IF deadline = 0 THEN 1 ELSE deadline

-----------------------------------------------------------------------------
(* mlfq_reset_task_ctx with the weight the kernel gives: a task enters the *)
(* class with an empty timeline position.                                  *)
FreshCtx(w, q) ==
  [vruntime |-> 0, vlag |-> 0, deadline |-> 0, weight |-> w,
   queue |-> q, first |-> TRUE, placed |-> FALSE]

Init ==
  /\ clock = [q \in Queues |-> 0]
  /\ task \in [Tasks -> {FreshCtx(w, q) : w \in Weights, q \in Queues}]
  /\ pc = [t \in Tasks |-> "off"]
  /\ reg = [t \in Tasks |-> <<0, 0>>]

(* ops.enable: a task that (re)joins the class is reset.  It is neither    *)
(* queued nor running then.                                                *)
Enable(t, w, q) ==
  /\ pc[t] = "off"
  /\ task' = [task EXCEPT ![t] = FreshCtx(w, q)]
  /\ UNCHANGED <<clock, pc, reg>>

(* ops.enqueue up to the first clock read of mlfq_place_entity: the weight *)
(* cache is refreshed, classification has chosen the queue, and the clock  *)
(* of that queue is read for the commit.                                   *)
EnqueueQueue(t, w, q) ==
  /\ pc[t] = "off"
  /\ task' = [task EXCEPT ![t].weight = w, ![t].queue = q]
  /\ reg' = [reg EXCEPT ![t] = <<clock[q], 0>>]
  /\ pc' = [pc EXCEPT ![t] = "place"]
  /\ UNCHANGED clock

(* mlfq_place_entity_deadline reads the clock a second time.               *)
PlaceDeadline(t) ==
  /\ pc[t] = "place"
  /\ reg' = [reg EXCEPT ![t] =
               <<@[1], PlaceEntityDeadline(clock[task[t].queue], task[t])>>]
  /\ pc' = [pc EXCEPT ![t] = "commit"]
  /\ UNCHANGED <<clock, task>>

(* The commit of mlfq_place_entity and the insert into the queue DSQ.      *)
PlaceCommit(t) ==
  LET lag == ClampedLag(reg[t][1], task[t])
  IN  /\ pc[t] = "commit"
      /\ task' = [task EXCEPT ![t].vruntime = reg[t][1] - lag,
                              ![t].vlag     = lag,
                              ![t].deadline = reg[t][2],
                              ![t].placed   = TRUE]
      /\ pc' = [pc EXCEPT ![t] = "queued"]
      /\ reg' = [reg EXCEPT ![t] = <<0, 0>>]
      /\ UNCHANGED clock

(* ops.enqueue (idle fast path, pinned-idle, wakeup preemption): the queue *)
(* may have changed and no placement is made.                              *)
EnqueueLocal(t, w, q) ==
  /\ pc[t] = "off"
  /\ task' = [task EXCEPT ![t].weight = w, ![t].queue = q]
  /\ pc' = [pc EXCEPT ![t] = "local"]
  /\ UNCHANGED <<clock, reg>>

(* ops.running                                                             *)
Running(t) ==
  /\ pc[t] \in {"queued", "local"}
  /\ task' = [task EXCEPT ![t].first = FALSE]
  /\ pc' = [pc EXCEPT ![t] = "running"]
  /\ UNCHANGED <<clock, reg>>

(* A queued task leaves the class or is put to sleep without running       *)
(* (dequeue; ops.quiescent touches no virtual time).                       *)
Dequeue(t) ==
  /\ pc[t] \in {"queued", "local"}
  /\ task' = [task EXCEPT ![t].placed = FALSE]
  /\ pc' = [pc EXCEPT ![t] = "off"]
  /\ UNCHANGED <<clock, reg>>

(* ops.stopping up to the clock read of mlfq_queue_advance_clock: the run  *)
(* segment is charged.  A segment of length zero charges and advances      *)
(* nothing.                                                                *)
Stopping(t, delta) ==
  LET charge == CalcDeltaFair(delta, task[t].weight)
      v      == task[t].vruntime + charge
  IN  /\ pc[t] = "running"
      /\ v <= MaxVtime
      /\ IF delta > 0
         THEN /\ task' = [task EXCEPT ![t].vruntime = v]
              /\ reg' = [reg EXCEPT ![t] = <<clock[task[t].queue], charge>>]
              /\ pc' = [pc EXCEPT ![t] = "cas"]
         ELSE /\ task' = [task EXCEPT ![t].placed = FALSE]
              /\ pc' = [pc EXCEPT ![t] = "off"]
              /\ UNCHANGED reg
      /\ UNCHANGED clock

(* The advance as a plain store instead of a compare-and-swap.             *)
MutPlainStore(now, cur, vruntime) == IF cur < vruntime THEN vruntime ELSE now

(* What mlfq_queue_advance_clock leaves in the clock, given the value it   *)
(* read: one compare-and-swap, taken only when the read value is behind.   *)
AdvanceClock(now, cur, vruntime) ==
  IF cur < vruntime /\ now = cur THEN vruntime ELSE now

(* The end of ops.stopping: the compare-and-swap.                          *)
StoppingCas(t) ==
  LET q == task[t].queue
  IN  /\ pc[t] = "cas"
      /\ clock' = [clock EXCEPT ![q] =
                     AdvanceClock(@, reg[t][1], task[t].vruntime)]
      /\ task' = [task EXCEPT ![t].placed = FALSE]
      /\ pc' = [pc EXCEPT ![t] = "off"]
      /\ reg' = [reg EXCEPT ![t] = <<0, 0>>]

Next ==
  \E t \in Tasks :
    \/ \E w \in Weights, q \in Queues :
         Enable(t, w, q) \/ EnqueueQueue(t, w, q) \/ EnqueueLocal(t, w, q)
    \/ PlaceDeadline(t)
    \/ PlaceCommit(t)
    \/ Running(t)
    \/ Dequeue(t)
    \/ \E delta \in Deltas : Stopping(t, delta)
    \/ StoppingCas(t)

Spec == Init /\ [][Next]_vars

-----------------------------------------------------------------------------
(* Every queued task is eligible: its virtual runtime is not ahead of the  *)
(* clock of its queue, whatever clock values the two reads of the          *)
(* placement saw.  This is what makes min-deadline selection over the      *)
(* queue DSQs EEVDF selection (comment of mlfq_place_entity).              *)
Eligible ==
  \A t \in Tasks :
    pc[t] = "queued" => task[t].vruntime <= clock[task[t].queue]

(* The committed deadline of a queued task is never earlier than one       *)
(* request after the committed vruntime and never later than one request   *)
(* after the clock, although vruntime and deadline may stem from two       *)
(* different clock values; it is not the sentinel, whose fix-up (reached   *)
(* here by scaled slices only) is the exception to the upper bound.        *)
DeadlineBounds ==
  \A t \in Tasks :
    pc[t] = "queued" =>
      LET tc == task[t]
      IN  /\ tc.deadline > 0
          /\ tc.vruntime + VSlice(tc) <= tc.deadline
          /\ \/ tc.deadline <= clock[tc.queue] + VSlice(tc)
             \/ tc.deadline = 1

(* Bounded lag: a queued task was anchored, at some clock value not ahead  *)
(* of the current one, at most one request plus one tick behind it.        *)
BoundedLag ==
  \A t \in Tasks :
    pc[t] = "queued" =>
      LET tc == task[t]
      IN  /\ tc.vlag <= LagLimit(tc.queue, tc.weight)
          /\ tc.vruntime + tc.vlag <= clock[tc.queue]

(* A virtual clock never moves backward, under any interleaving of         *)
(* single-shot advances (mlfq_queue_advance_clock).                        *)
ClockMonotone == [][\A q \in Queues : clock[q] <= clock'[q]]_vars

(* The run of a task that was placed moves the clock of its queue by no    *)
(* more than what the run was charged, whatever the other CPUs did between *)
(* the placement, the clock read and the compare-and-swap.                 *)
PlacedAdvanceBounded ==
  [][\A t \in Tasks :
       StoppingCas(t) /\ task[t].placed =>
         clock'[task[t].queue] <= clock[task[t].queue] + reg[t][2]]_vars

=============================================================================
