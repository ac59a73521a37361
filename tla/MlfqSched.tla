------------------------------ MODULE MlfqSched ----------------------------
(***************************************************************************)
(* The scheduler's callbacks composed with the kernel that calls them:     *)
(* ops.select_cpu, ops.enqueue, ops.dispatch, ops.running, ops.stopping,   *)
(* ops.exit_task, ops.cpu_release and the sched_switch hook, over the DSQs *)
(* and the per-CPU records they share.                                     *)
(*                                                                         *)
(* A context switch is several steps of one CPU (balance, dispatch slots,  *)
(* put the previous task, pick the next).  The kernel holds the runqueue   *)
(* lock of that CPU from the first to the last, so a task is not enqueued  *)
(* on that runqueue in between, while the steps of other CPUs, and the     *)
(* DSQs they share, are.  CPU selection runs without the lock of the CPU   *)
(* it returns, before the enqueue, which holds it.                         *)
(*                                                                         *)
(* Left out here: the queue a classification chooses is any queue; the     *)
(* order inside a queue DSQ, the two LLC tiers of the steal scan, the      *)
(* runnable gauges and virtual time (MlfqVtime, MlfqRunnable).             *)
(***************************************************************************)
EXTENDS Integers, Sequences, FiniteSets, SequencesExt

CONSTANTS
  Cpus, Tasks,
  NrQueues,      \* MLFQ_NR_QUEUES
  Quota,         \* slots of a dispatch call for each queue
  Affinities,    \* the affinity masks tasks may get
  RtCpus,        \* CPUs a realtime task may take over
  NoCpu, None, Idle, Rt,
  Reenq,         \* kernel: "generic" (v7.1), "local" (v6.19), "none" (6.18)
  RemoteEnqueue, \* whether a waker may enqueue for another CPU itself
  SpacedRt,      \* whether takeovers of a CPU are a drain interval apart
  Forks          \* whether tasks die and are forked

ASSUME SchedAssumption ==
  /\ NrQueues \in Nat \ {0}
  /\ Quota \in [1..NrQueues -> Nat \ {0}]   \* MlfqConfig!SharesServe
  /\ Affinities \subseteq SUBSET Cpus /\ {} \notin Affinities
  /\ RtCpus \subseteq Cpus
  /\ NoCpu \notin Cpus
  /\ {None, Idle, Rt} \cap Tasks = {}
  /\ None # Idle /\ None # Rt /\ Idle # Rt
  /\ Reenq \in {"generic", "local", "none"}
  /\ RemoteEnqueue \in BOOLEAN /\ SpacedRt \in BOOLEAN /\ Forks \in BOOLEAN

Queues == 1..NrQueues

VARIABLES
  cpu,     \* per CPU: what runs, how far its context switch is, its records
  task,    \* per task: where it is and what its callbacks need
  local,   \* the local DSQ of each CPU, in order
  reenq    \* tasks the kernel was asked to re-enqueue and has not yet

vars == <<cpu, task, local, reenq>>

(* cur: what is on the CPU; phase: "run", or a point of a context switch;  *)
(* slot: queue and slots left of a dispatch call; out: the slice of cur is *)
(* gone; idle: its bit in the kernel's idle mask; kick: a reschedule is    *)
(* pending; occ: MLFQ_RTDL_OCCUPIED; gate: the drain interval is running;  *)
(* rec: running_pid and running_queue; q1: the q1_occupancy slot.          *)
CpuState ==
  [cur : Tasks \cup {None, Idle, Rt},
   phase : {"run", "balance", "dispatch", "put", "pick", "rt"},
   slot : Queues \X Nat, out : BOOLEAN,
   idle : BOOLEAN, kick : BOOLEAN, occ : BOOLEAN, gate : BOOLEAN,
   rec : [pid : Tasks \cup {None}, queue : 0..NrQueues], q1 : BOOLEAN]

(* home: scx_bpf_task_cpu; at: the owner of the DSQ that holds the task;   *)
(* direct: wake_cpu_state is VALID and IDLE; enq: the CPU that will run    *)
(* ops.enqueue, or NoCpu for the CPU it is enqueued on; own: a history     *)
(* flag, a CPU put the task in its own queue DSQ and nothing kicks it: by  *)
(* SCX_ENQ_LAST, or by a redirect to the enqueueing CPU.                   *)
TaskState ==
  [where : {"asleep", "waking", "forking", "requeued", "queue", "local",
            "global", "cpu", "dying", "new"},
   home : Cpus, at : Cpus, queue : Queues, aff : Affinities,
   direct : BOOLEAN, enq : Cpus \cup {NoCpu}, own : BOOLEAN]

(* Besides its types: each task is in one place.                           *)
TypeOK ==
  /\ cpu \in [Cpus -> CpuState]
  /\ task \in [Tasks -> TaskState]
  /\ local \in [Cpus -> Seq(Tasks)]
  /\ reenq \subseteq {t \in Tasks : task[t].where \in {"local", "queue"}}
  /\ \A c \in Cpus :
       /\ {t \in Tasks : task[t].where = "local" /\ task[t].at = c} = ToSet(local[c])
       /\ \A i, j \in DOMAIN local[c] : local[c][i] = local[c][j] => i = j
       /\ {t \in Tasks : task[t].where = "cpu" /\ task[t].home = c} = {cpu[c].cur} \cap Tasks

Pinned(t) == Cardinality(task[t].aff) = 1
InDsq(c, q) == {t \in Tasks : /\ task[t].where = "queue"
                              /\ task[t].at = c /\ task[t].queue = q}
OwnDsqsEmpty(c) == \A q \in Queues : InDsq(c, q) = {}
Running(c) == cpu[c].phase = "run" /\ cpu[c].cur \in Tasks

(* A waker has interrupts off from its CPU selection to its enqueue.       *)
MidWake(c) ==
  \E t \in Tasks : /\ task[t].where \in {"waking", "forking", "requeued"}
                  /\ task[t].enq = c

(* mlfq_init_task before the task's first wakeup: classification starts it *)
(* in Q2.                                                                  *)
NewTask(c, a) ==
  [where |-> IF Forks THEN "new" ELSE "asleep", home |-> c, at |-> c, aff |-> a,
   queue |-> IF NrQueues > 1 THEN 2 ELSE 1,
   direct |-> FALSE, enq |-> NoCpu, own |-> FALSE]

Init ==
  /\ cpu = [c \in Cpus |->
             [cur |-> Idle, phase |-> "run", slot |-> <<1, 0>>, out |-> FALSE,
              idle |-> TRUE, kick |-> FALSE, occ |-> FALSE, gate |-> FALSE,
              rec |-> [pid |-> None, queue |-> 0], q1 |-> FALSE]]
  /\ task \in [Tasks -> {NewTask(c, a) : c \in Cpus, a \in Affinities}]
  /\ local = [c \in Cpus |-> <<>>]
  /\ reenq = {}

-----------------------------------------------------------------------------
(* ops.enqueue.                                                            *)

(* mlfq_pick_unoccupied_cpu: any CPU of the mask no realtime task holds.   *)
Unoccupied(t) == {c \in task[t].aff : ~cpu[c].occ}

(* Where the regular path queues t when CPU e enqueues it: its last CPU    *)
(* for a wakeup and CPU e for the rest, and e when the affinity forbids.   *)
RegularCpu(t, e, kind) ==
  LET target == IF kind = "wakeup" THEN task[t].home ELSE e
  IN  IF target \in task[t].aff THEN target ELSE e

(* The redirect applies to wakeups and to the re-enqueues of the drain.    *)
Redirected(t, e, kind) ==
  kind \in {"wakeup", "reenq"} /\ cpu[RegularCpu(t, e, kind)].occ

(* A redirect that changes the queue and still preempts the last CPU.      *)
MutMayPreempt(t, e, kind, q) ==
  LET rec == cpu[task[t].home].rec
  IN  /\ kind = "wakeup"
      /\ rec.pid \notin {None, t}
      /\ task[t].home \in task[t].aff
      /\ q <= rec.queue

(* A wakeup may preempt what the record of its last CPU says is running    *)
(* there, when it is in a higher queue or, if the residency and deadline   *)
(* rule allows, in the same one.                                           *)
MayPreempt(t, e, kind, q) ==
  LET rec == cpu[task[t].home].rec
  IN  /\ kind = "wakeup" /\ ~Redirected(t, e, kind)
      /\ rec.pid \notin {None, t}
      /\ task[t].home \in task[t].aff
      /\ q <= rec.queue

(* The inserts ops.enqueue may make for t, in queue q, on CPU e.           *)
Placements(t, e, kind, q) ==
  LET home   == task[t].home
      target == RegularCpu(t, e, kind)
      must   == MayPreempt(t, e, kind, q) /\ q < cpu[home].rec.queue
      fast   == /\ kind \in {"wakeup", "fork"} /\ task[t].direct
                /\ ~cpu[e].occ
  IN  IF Pinned(t)
      THEN {[dsq |-> IF home \notin task[t].aff THEN "global"
                     ELSE IF cpu[home].idle THEN "claim" ELSE "queue",
             to |-> home]}
      ELSE IF fast THEN {[dsq |-> "local", to |-> home]}
      ELSE (IF MayPreempt(t, e, kind, q)
            THEN {[dsq |-> "front", to |-> home]} ELSE {})
           \cup
           (IF must THEN {}
            ELSE {[dsq |-> "queue", to |-> c] :
                    c \in IF Redirected(t, e, kind) /\ Unoccupied(t) # {}
                          THEN Unoccupied(t) ELSE {target}})

(* A CPU the kernel will reschedule: it is idle, or going to be.           *)
Stirred(c) == cpu[c].cur = Idle \/ cpu[c].phase # "run"

(* Inserts without the kick of a queue insert.                             *)
MutKicked(c, e, p) ==
  /\ Stirred(c)
  /\ p.to = c /\ p.dsq \in {"local", "front", "claim"}

(* The effects of insert p on the CPU it goes to.  mlfq_idle_kick spares   *)
(* the enqueueing CPU; a local insert reschedules an idle CPU by itself,   *)
(* as does a wakeup; SCX_ENQ_PREEMPT takes the slice of the resident.      *)
Kicked(c, e, p) ==
  /\ Stirred(c)
  /\ \/ p.to = c /\ p.dsq \in {"local", "front", "claim"}
     \/ p.to = c /\ p.dsq = "queue" /\ c # e

CpuAfter(c, t, e, kind, p, s) ==
  [s EXCEPT
     !.kick = @ \/ Kicked(c, e, p)
                \/ (kind \in {"wakeup", "fork"} /\ c = task[t].home /\ Stirred(c)),
     !.idle = @ /\ ~(p.to = c /\ p.dsq = "claim"),
     !.out  = @ \/ (p.to = c /\ p.dsq = "front" /\ cpu[c].cur \in Tasks)]

(* ops.enqueue as a whole: task t goes to queue q on CPU e.                *)
Enqueue(t, e, kind, q, p) ==
  /\ p \in Placements(t, e, kind, q)
  /\ task' = [task EXCEPT ![t] =
       [@ EXCEPT !.queue = q, !.direct = FALSE, !.enq = NoCpu, !.at = p.to,
                 !.own = (kind = "last" \/ p.to # task[t].home)
                         /\ p.dsq = "queue" /\ p.to = e,
                 !.where = IF p.dsq \in {"local", "front", "claim"}
                           THEN "local" ELSE p.dsq]]
  /\ local' = [c \in Cpus |->
       LET rest == RemoveFirst(local[c], t)
       IN  IF c # p.to THEN rest
           ELSE IF p.dsq = "front" THEN <<t>> \o rest
           ELSE IF p.dsq \in {"local", "claim"} THEN Append(rest, t) ELSE rest]
  /\ reenq' = reenq \ {t}

(* The enqueue of t on CPU e, by that CPU or by the one it is enqueued on. *)
EnqueueStep(t, e, kind, q) ==
  \E p \in Placements(t, e, kind, q) :
    /\ Enqueue(t, e, kind, q, p)
    /\ cpu' = [c \in Cpus |-> CpuAfter(c, t, e, kind, p, cpu[c])]

-----------------------------------------------------------------------------
(* Wakeups.                                                                *)

(* The CPU that will run ops.enqueue: the waker, or the selected CPU when  *)
(* the kernel queues the wakeup to it (SCX_OPS_ALLOW_QUEUED_WAKEUP).  The  *)
(* parent enqueues a new task itself.                                      *)
EnqueueCpu(w, t, c) ==
  IF w = c \/ task[t].where = "new" THEN {w}
  ELSE {NoCpu} \cup (IF RemoteEnqueue THEN {w} ELSE {})

(* The CPUs an idle scan may claim; the Q3 scans also respect the          *)
(* realtime gate (is_cpu_available_for_q3).                                *)
Claimable(t) ==
  {c \in task[t].aff : cpu[c].idle /\ (task[t].queue = 3 => ~cpu[c].occ)}

(* ops.select_cpu by waker w.  The scans claim an idle CPU of the mask, or *)
(* find none: the saturation path and the caps of the Q3 scans may leave   *)
(* one idle.  Then the last CPU is returned, or a CPU of the mask if it is *)
(* not in it.  The kernel places pinned tasks itself.                      *)
SelectCpu(w, t) ==
  /\ cpu[w].phase = "run" /\ ~MidWake(w)
  /\ task[t].where \in {"asleep", "new"}
  /\ task[t].where = "new" => cpu[w].cur \in Tasks \cup {Rt}
  /\ \E c \in task[t].aff, direct \in BOOLEAN :
       \E e \in EnqueueCpu(w, t, c) :
         /\ direct => ~Pinned(t) /\ c \in Claimable(t)
         /\ ~direct => Pinned(t) \/ task[t].home \notin task[t].aff
                                 \/ c = task[t].home
         /\ task' = [task EXCEPT ![t] =
              [@ EXCEPT !.home = c, !.at = c, !.direct = direct, !.enq = e,
                        !.where = IF task[t].where = "new" THEN "forking" ELSE "waking"]]
         /\ cpu' = IF direct THEN [cpu EXCEPT ![c].idle = FALSE] ELSE cpu
  /\ UNCHANGED <<local, reenq>>

(* The SYNC handoff of ops.select_cpu: the wakee goes to the local DSQ of  *)
(* the waker's CPU, unless a realtime task holds that CPU or it is in Q3.  *)
SyncHandoff(w, t) ==
  /\ cpu[w].phase = "run" /\ ~MidWake(w)
  /\ task[t].where = "asleep" /\ ~Pinned(t)
  /\ task[t].queue <= 2
  /\ ~cpu[w].occ
  /\ w \in task[t].aff
  /\ task' = [task EXCEPT ![t] =
                [@ EXCEPT !.where = "local", !.home = w, !.at = w]]
  /\ local' = [local EXCEPT ![w] = Append(@, t)]
  /\ cpu' = [cpu EXCEPT ![w].kick = @ \/ Stirred(w)]
  /\ UNCHANGED reenq

(* ops.enqueue of a wakeup, a fork or an affinity change, with the         *)
(* runqueue lock of the task's CPU.  Only a wakeup classifies freely.      *)
Kind(t) == [waking |-> "wakeup", forking |-> "fork", requeued |-> "other"]
             [task[t].where]

Activate(t, q) ==
  LET e == IF task[t].enq = NoCpu THEN task[t].home ELSE task[t].enq
  IN  /\ task[t].where \in {"waking", "forking", "requeued"}
      /\ cpu[task[t].home].phase = "run"
      /\ EnqueueStep(t, e, Kind(t), q)

(* sched_setaffinity, called on CPU w: a queued task is dequeued, gets its *)
(* mask and is enqueued again where it was; a sleeping one gets its mask.  *)
Repin(w, t, a) ==
  /\ Running(w) /\ ~MidWake(w)
  /\ a # task[t].aff
  /\ task[t].where \in {"asleep", "queue"}
  /\ IF task[t].where = "asleep"
     THEN task' = [task EXCEPT ![t].aff = a]
     ELSE task' = [task EXCEPT ![t] =
            [@ EXCEPT !.aff = a, !.where = "requeued", !.enq = w, !.own = FALSE]]
  /\ reenq' = reenq \ {t}
  /\ UNCHANGED <<cpu, local>>

-----------------------------------------------------------------------------
(* Leaving the CPU.                                                        *)

(* ops.stopping leaves the slot of the CPU free, and its running record    *)
(* only if the task goes to sleep.                                         *)
MutStopped(s, runnable) ==
  [s EXCEPT !.rec = IF runnable THEN @ ELSE [pid |-> None, queue |-> 0]]

Stopped(s, runnable) ==
  [s EXCEPT !.q1  = FALSE,
            !.rec = IF runnable THEN @ ELSE [pid |-> None, queue |-> 0]]

(* The running task sleeps or dies, and the CPU looks for another.         *)
Block(c, dies) ==
  /\ dies => Forks
  /\ Running(c) /\ ~MidWake(c)
  /\ task' = [task EXCEPT ![cpu[c].cur].where =
                IF dies THEN "dying" ELSE "asleep"]
  /\ cpu' = [cpu EXCEPT ![c] = [Stopped(@, FALSE) EXCEPT
                                  !.cur = None, !.out = FALSE,
                                  !.phase = "balance"]]
  /\ UNCHANGED <<local, reenq>>

(* ops.exit_task of a dead task, any time later: it clears the occupancy   *)
(* of the last CPU of a Q1 task.  The task may be forked again.            *)
ExitTask(t) ==
  LET c == task[t].home
  IN  /\ task[t].where = "dying"
      /\ cpu' = IF task[t].queue = 1 THEN [cpu EXCEPT ![c].q1 = FALSE] ELSE cpu
      /\ task' = [task EXCEPT ![t] = NewTask(c, @.aff)]
      /\ UNCHANGED <<local, reenq>>

(* The slice of the running task is consumed, or a preemption took it.     *)
Resched(c) ==
  /\ Running(c) /\ ~MidWake(c)
  /\ cpu' = [cpu EXCEPT ![c] = [@ EXCEPT !.out = TRUE, !.phase = "balance"]]
  /\ UNCHANGED <<task, local, reenq>>

(* An idle CPU schedules when it is kicked.                                *)
IdleSchedule(c) ==
  /\ cpu[c].phase = "run" /\ cpu[c].cur = Idle /\ cpu[c].kick
  /\ ~MidWake(c)
  /\ cpu' = [cpu EXCEPT ![c] = [@ EXCEPT !.kick = FALSE, !.phase = "balance"]]
  /\ UNCHANGED <<task, local, reenq>>

-----------------------------------------------------------------------------
(* Choosing the next task.                                                 *)

(* The point after balance and dispatch: a task that is still on the CPU   *)
(* has to be put first.                                                    *)
AfterDispatch(c) == IF cpu[c].cur \in Tasks THEN "put" ELSE "pick"

(* The local DSQ is served before anything else.                           *)
BalanceLocal(c) ==
  /\ cpu[c].phase = "balance"
  /\ local[c] # <<>>
  /\ cpu' = [cpu EXCEPT ![c].phase = AfterDispatch(c)]
  /\ UNCHANGED <<task, local, reenq>>

(* A move that leaves the task accounted to the CPU it came from.          *)
MutMoveToLocal(t, c) ==
  /\ task' = [task EXCEPT ![t] =
                [@ EXCEPT !.where = "local", !.home = c, !.own = FALSE]]
  /\ local' = [local EXCEPT ![c] = Append(@, t)]
  /\ reenq' = reenq \ {t}

(* A task moves to the local DSQ of CPU c.                                 *)
MoveToLocal(t, c) ==
  /\ task' = [task EXCEPT ![t] =
                [@ EXCEPT !.where = "local", !.at = c, !.home = c, !.own = FALSE]]
  /\ local' = [local EXCEPT ![c] = Append(@, t)]
  /\ reenq' = reenq \ {t}

(* Then the kernel drains its global DSQ.                                  *)
BalanceGlobal(c) ==
  /\ cpu[c].phase = "balance"
  /\ local[c] = <<>>
  /\ \E t \in Tasks : /\ task[t].where = "global" /\ c \in task[t].aff
                      /\ MoveToLocal(t, c)
  /\ cpu' = [cpu EXCEPT ![c].phase = AfterDispatch(c)]

NothingBefore(c) ==
  /\ cpu[c].phase = "balance"
  /\ local[c] = <<>>
  /\ \A t \in Tasks : task[t].where = "global" => c \notin task[t].aff

(* Any task of a queue DSQ may be its head.  A probe of one remote CPU     *)
(* finds nothing when none of its heads can run here.                      *)
HeadsMayNotRun(c, r) ==
  \A q \in Queues :
    InDsq(r, q) = {} \/ \E t \in InDsq(r, q) : c \notin task[t].aff

(* ops.dispatch, keep path: the outgoing task gets a new slice.            *)
DispatchKeep(c) ==
  /\ NothingBefore(c)
  /\ cpu[c].cur \in Tasks
  /\ OwnDsqsEmpty(c)
  /\ \/ Cpus = {c}
     \/ \E r \in Cpus \ {c} : HeadsMayNotRun(c, r)
  /\ cpu' = [cpu EXCEPT ![c] = [@ EXCEPT !.out = FALSE, !.phase = "run"]]
  /\ UNCHANGED <<task, local, reenq>>

(* ops.dispatch, otherwise: the slot loops start with Q1.                  *)
DispatchStart(c) ==
  /\ NothingBefore(c)
  /\ cpu[c].cur \in Tasks /\ OwnDsqsEmpty(c) =>
       \E r \in Cpus \ {c}, q \in Queues :
         \E t \in InDsq(r, q) : c \in task[t].aff
  /\ cpu' = [cpu EXCEPT ![c] =
               [@ EXCEPT !.phase = "dispatch", !.slot = <<1, Quota[1]>>]]
  /\ UNCHANGED <<task, local, reenq>>

(* The tasks one slot may move: an own one first, else the head of a       *)
(* remote DSQ of the same queue.                                           *)
OwnMoves(c, q) == {t \in InDsq(c, q) : c \in task[t].aff}
Steals(c, q) == {t \in UNION {InDsq(r, q) : r \in Cpus \ {c}} : c \in task[t].aff}

SlotMoves(c, q) == IF OwnMoves(c, q) # {} THEN OwnMoves(c, q) ELSE Steals(c, q)

(* CPU c is done with queue q of the slot loops.                           *)
QueueDone(c, q) ==
  [cpu[c] EXCEPT
     !.slot  = IF q < NrQueues THEN <<q + 1, Quota[q + 1]>> ELSE <<1, 0>>,
     !.phase = IF q < NrQueues THEN @ ELSE AfterDispatch(c)]

DispatchSlot(c) ==
  LET q == cpu[c].slot[1]
      n == cpu[c].slot[2]
  IN  /\ cpu[c].phase = "dispatch"
      /\ n > 0
      /\ \E t \in SlotMoves(c, q) : MoveToLocal(t, c)
      /\ cpu' = [cpu EXCEPT ![c] = IF n = 1 THEN QueueDone(c, q)
                                   ELSE [@ EXCEPT !.slot = <<q, n - 1>>]]

(* A queue has no slots, or nothing eligible is left.                      *)
DispatchNext(c) ==
  LET q == cpu[c].slot[1]
  IN  /\ cpu[c].phase = "dispatch"
      /\ \/ cpu[c].slot[2] = 0
         \/ /\ OwnMoves(c, q) = {}
            /\ \A r \in Cpus \ {c} :
                 InDsq(r, q) = {} \/ \E t \in InDsq(r, q) : c \notin task[t].aff
      /\ cpu' = [cpu EXCEPT ![c] = QueueDone(c, q)]
      /\ UNCHANGED <<task, local, reenq>>

(* The outgoing task is stopped while runnable and enqueued: its slice is  *)
(* gone, so with no flags, or with SCX_ENQ_LAST if nothing else was found. *)
PutPrev(c, q) ==
  LET t    == cpu[c].cur
      kind == IF local[c] = <<>> THEN "last" ELSE "runout"
  IN  /\ cpu[c].phase = "put"
      /\ \E p \in Placements(t, c, kind, q) :
           /\ Enqueue(t, c, kind, q, p)
           /\ cpu' = [d \in Cpus |->
                LET s == CpuAfter(d, t, c, kind, p, cpu[d])
                IN  IF d # c THEN s
                    ELSE [Stopped(s, TRUE) EXCEPT !.cur = None,
                            !.phase = "pick", !.out = FALSE]]

(* ops.running records the task and its queue, and sched_switch clears the *)
(* realtime mark.                                                          *)
PickTask(c) ==
  LET t == Head(local[c])
  IN  /\ cpu[c].phase = "pick"
      /\ local[c] # <<>>
      /\ task' = [task EXCEPT ![t].where = "cpu"]
      /\ local' = [local EXCEPT ![c] = Tail(@)]
      /\ reenq' = reenq \ {t}
      /\ cpu' = [cpu EXCEPT ![c] =
           [@ EXCEPT !.cur = t, !.phase = "run", !.out = FALSE,
                     !.idle = FALSE, !.kick = FALSE, !.occ = FALSE,
                     !.rec = [pid |-> t, queue |-> task[t].queue],
                     !.q1 = (task[t].queue = 1)]]

(* A hook that does not clear the mark for the idle task.                  *)
MutPickIdle(c) ==
  /\ cpu[c].phase = "pick"
  /\ local[c] = <<>>
  /\ cpu' = [cpu EXCEPT ![c] =
       [@ EXCEPT !.cur = Idle, !.phase = "run", !.out = FALSE, !.idle = TRUE]]
  /\ UNCHANGED <<task, local, reenq>>

PickIdle(c) ==
  /\ cpu[c].phase = "pick"
  /\ local[c] = <<>>
  /\ cpu' = [cpu EXCEPT ![c] =
       [@ EXCEPT !.cur = Idle, !.phase = "run", !.out = FALSE, !.idle = TRUE,
                 !.occ = FALSE]]
  /\ UNCHANGED <<task, local, reenq>>

-----------------------------------------------------------------------------
(* Realtime takeover.                                                      *)

(* A drain that forgets the queue DSQs.                                    *)
MutEvacuated(c) ==
  {t \in Tasks : /\ task[t].at = c
                 /\ task[t].where = "local" /\ Reenq \in {"local", "generic"}}

(* The tasks a drain of CPU c asks the kernel to re-enqueue.               *)
Evacuated(c) ==
  {t \in Tasks :
     /\ task[t].at = c
     /\ \/ task[t].where = "local" /\ Reenq \in {"local", "generic"}
        \/ task[t].where = "queue" /\ Reenq = "generic"}

(* mlfq_sched_switch with a realtime task next: the mark, and a drain if   *)
(* the interval since the last one is over and the CPU owns any task.      *)
RtSwitch(s, c) ==
  LET owned == {t \in Tasks : task[t].at = c /\ task[t].where \in {"local", "queue"}}
      drain == ~s.gate /\ owned # {} /\ Reenq # "none"
  IN  [s EXCEPT !.cur = Rt, !.phase = "run", !.occ = TRUE, !.idle = FALSE,
                !.kick = FALSE, !.gate = @ \/ drain]

Drained(c) == IF cpu[c].gate THEN {} ELSE Evacuated(c)

(* A realtime task takes CPU c: the running task is stopped while runnable *)
(* and stays at the head of the local DSQ, or is enqueued with no flags if *)
(* its slice was just consumed.                                            *)
TakeoverStop(c, q) ==
  /\ c \in RtCpus
  /\ cpu[c].phase = "run" /\ cpu[c].cur # Rt /\ ~MidWake(c)
  /\ SpacedRt => ~cpu[c].gate
  /\ IF cpu[c].cur \notin Tasks
     THEN /\ cpu' = [cpu EXCEPT ![c].phase = "rt"]
          /\ UNCHANGED <<task, local, reenq>>
     ELSE LET t == cpu[c].cur
          IN  \/ /\ ~cpu[c].out /\ q = task[t].queue
                 /\ task' = [task EXCEPT ![t] =
                               [@ EXCEPT !.where = "local", !.at = c]]
                 /\ local' = [local EXCEPT ![c] = <<t>> \o @]
                 /\ cpu' = [cpu EXCEPT ![c] = [Stopped(@, TRUE) EXCEPT
                                   !.cur = None, !.phase = "rt"]]
                 /\ UNCHANGED reenq
              \/ \E p \in Placements(t, c, "runout", q) :
                   /\ Enqueue(t, c, "runout", q, p)
                   /\ cpu' = [d \in Cpus |->
                        LET s == CpuAfter(d, t, c, "runout", p, cpu[d])
                        IN  IF d # c THEN s
                            ELSE [Stopped(s, TRUE) EXCEPT !.cur = None,
                                    !.phase = "rt", !.out = FALSE]]

(* The switch itself; ops.cpu_release, which the kernel calls for the      *)
(* takeover, frees the occupancy slot and, where the hook cannot, has the  *)
(* local DSQ re-enqueued.                                                  *)
TakeoverSwitch(c) ==
  /\ cpu[c].phase = "rt"
  /\ cpu' = [cpu EXCEPT ![c] = [RtSwitch(@, c) EXCEPT !.q1 = FALSE]]
  /\ reenq' = reenq \cup Drained(c)
               \cup (IF Reenq = "none"
                     THEN {local[c][i] : i \in DOMAIN local[c]} ELSE {})
  /\ UNCHANGED <<task, local>>

(* Another realtime task follows on a CPU that is already taken.           *)
RtToRt(c) ==
  /\ cpu[c].cur = Rt /\ cpu[c].phase = "run" /\ ~MidWake(c)
  /\ cpu' = [cpu EXCEPT ![c] = RtSwitch(@, c)]
  /\ reenq' = reenq \cup Drained(c)
  /\ UNCHANGED <<task, local>>

(* The realtime tasks of CPU c are done.                                   *)
RtLeave(c) ==
  /\ cpu[c].cur = Rt /\ cpu[c].phase = "run" /\ ~MidWake(c)
  /\ cpu' = [cpu EXCEPT ![c] = [@ EXCEPT !.cur = None, !.phase = "balance"]]
  /\ UNCHANGED <<task, local, reenq>>

(* mlfq_rtdl_drain_interval_ns have passed.                                *)
GateOpen(c) ==
  /\ cpu[c].gate
  /\ cpu' = [cpu EXCEPT ![c].gate = FALSE]
  /\ UNCHANGED <<task, local, reenq>>

(* The kernel re-enqueues one task, on the CPU that owns its DSQ.          *)
Reenqueue(t) ==
  /\ t \in reenq
  /\ cpu[task[t].at].phase = "run"
  /\ EnqueueStep(t, task[t].at, "reenq", task[t].queue)

-----------------------------------------------------------------------------
Switching(c) ==
  \/ BalanceLocal(c) \/ BalanceGlobal(c) \/ DispatchKeep(c)
  \/ DispatchStart(c) \/ DispatchSlot(c) \/ DispatchNext(c)
  \/ \E q \in Queues : PutPrev(c, q)
  \/ PickTask(c) \/ PickIdle(c)
  \/ TakeoverSwitch(c)

Next ==
  \/ \E w \in Cpus, t \in Tasks : SelectCpu(w, t) \/ SyncHandoff(w, t)
  \/ \E t \in Tasks, q \in Queues : Activate(t, q)
  \/ \E w \in Cpus, t \in Tasks, a \in Affinities : Repin(w, t, a)
  \/ \E c \in Cpus, dies \in BOOLEAN : Block(c, dies)
  \/ \E t \in Tasks : ExitTask(t) \/ Reenqueue(t)
  \/ \E c \in Cpus : Resched(c) \/ IdleSchedule(c) \/ Switching(c)
  \/ \E c \in Cpus, q \in Queues : TakeoverStop(c, q)
  \/ \E c \in Cpus : RtToRt(c) \/ RtLeave(c) \/ GateOpen(c)

Spec == Init /\ [][Next]_vars

-----------------------------------------------------------------------------
(* A CPU vetoes its SMT sibling for Q3 only while it runs a Q1 task: no    *)
(* stop, takeover, exit or release leaves the slot behind ("a sibling veto *)
(* forever", mlfq_exit_task).                                              *)
VetoBacked ==
  \A c \in Cpus :
    cpu[c].q1 => /\ cpu[c].cur \in Tasks
                 /\ task[cpu[c].cur].queue = 1

(* A task queued for an idle CPU that may run it is not stranded: the CPU  *)
(* is about to be rescheduled (mlfq_idle_kick).  Tasks the CPU put in its  *)
(* own queue are excepted (OwnDispatchDrains).                             *)
IdleCpuKicked ==
  \A c \in Cpus, t \in Tasks :
    /\ cpu[c].phase = "run" /\ cpu[c].cur = Idle
    /\ task[t].at = c /\ task[t].where \in {"queue", "local"}
    /\ c \in task[t].aff /\ ~task[t].own
    => cpu[c].kick

(* A wakeup reaches the local DSQ of a CPU held by a realtime task only    *)
(* when another CPU enqueues it after an idle claim; a preemption never    *)
(* does, and neither does the claim of a pinned task.                      *)
OccupiedOnlyByRemote ==
  [][\A t \in Tasks :
       /\ task'[t].where = "local" /\ cpu[task'[t].at].occ
       /\ \E q \in Queues : Activate(t, q)
       => task[t].direct /\ task[t].enq \notin {NoCpu, task'[t].at}]_vars

(* The mark of the sched_switch hook is exact whenever the CPU is not in a *)
(* context switch: set if and only if a realtime task is on it.            *)
OccupiedExact ==
  \A c \in Cpus : cpu[c].phase = "run" => (cpu[c].occ <=> cpu[c].cur = Rt)

-----------------------------------------------------------------------------
(* Properties the comments state and the code does not have.               *)

(* "no path dispatches to an occupied CPU's local DSQ" (dispatch.bpf.c);   *)
(* the occupied guard of the idle-CPU fast path closes the window between  *)
(* the idle claim and the insert (enqueue.bpf.c).                          *)
NeverIntoOccupied ==
  [][\A t \in Tasks :
       task'[t].where = "local" /\ (\E q \in Queues : Activate(t, q))
       => ~cpu[task'[t].at].occ]_vars

(* No runnable task is stranded in its own CPU's queue while that CPU      *)
(* idles: "Its own dispatch drains the queue in the same scheduling cycle" *)
(* (mlfq_idle_kick).                                                       *)
OwnDispatchDrains ==
  \A c \in Cpus, t \in Tasks :
    /\ cpu[c].phase = "run" /\ cpu[c].cur = Idle
    /\ task[t].at = c /\ task[t].where = "queue" /\ c \in task[t].aff
    => cpu[c].kick

-----------------------------------------------------------------------------
(* A CPU finishes its context switches, an idle CPU answers a kick, every  *)
(* slice ends, the kernel completes wakeups and re-enqueues.  Nothing is   *)
(* assumed of realtime tasks: one may keep its CPU forever.                *)
Fairness ==
  /\ \A c \in Cpus : /\ WF_vars(Switching(c))
                     /\ WF_vars(IdleSchedule(c))
                     /\ WF_vars(Resched(c))
  /\ \A t \in Tasks : /\ WF_vars(\E q \in Queues : Activate(t, q))
                      /\ WF_vars(Reenqueue(t))

FairSpec == Spec /\ Fairness

(* Task t waits in a DSQ of CPU c, which a realtime task holds, while some *)
(* CPU it may run on is free of realtime tasks.                            *)
Stranded(t, c) ==
  /\ cpu[c].cur = Rt /\ cpu[c].phase = "run"
  /\ task[t].where \in {"local", "queue"} /\ task[t].at = c
  /\ \E d \in task[t].aff : d \notin RtCpus

(* The DSQs of a CPU that is taken over are drained "so its tasks are not  *)
(* stranded" (rtdl.bpf.c): a task that could run elsewhere gets there.     *)
TakenOverEvacuated ==
  \A t \in Tasks, c \in RtCpus : Stranded(t, c) ~> ~Stranded(t, c)

=============================================================================
