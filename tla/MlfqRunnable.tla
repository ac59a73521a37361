---------------------------- MODULE MlfqRunnable ---------------------------
(***************************************************************************)
(* The per-LLC and per-queue runnable gauges and the ownership record they *)
(* follow (end of intf.h; called from enqueue, running, quiescent and      *)
(* dispatch).                                                              *)
(*                                                                         *)
(* A gauge is changed by atomic read-modify-writes, the ownership record   *)
(* (task_ctx.last_llc, last_qid) by plain stores.  One call of a helper is *)
(* therefore several steps, and calls of different CPUs interleave between *)
(* them.  The kernel serializes the callbacks of one task, so every task   *)
(* is the actor of the calls its own callbacks make.  The adjustment after *)
(* a steal is the exception: ops.dispatch makes it for the head it peeked, *)
(* which need not be the task the kernel moved.  Such a call is made by an *)
(* actor of its own, a Thief, and race records what it has disturbed.      *)
(***************************************************************************)
EXTENDS Integers, FiniteSets

CONSTANTS
  Tasks,
  Thieves,     \* CPUs that may adjust a task they did not move
  Llcs,        \* LLC domain ids
  CpuLlcs,     \* domains of the CPUs; NoLlc among them if some are unmapped
  Queues,      \* queue ids, 1..3 in the code
  NoLlc        \* MLFQ_LLC_UNOWNED, and the llc_of_cpu() sentinel

ASSUME RunnableAssumption ==
  /\ IsFiniteSet(Tasks)
  /\ Queues \subseteq Nat \ {0}
  /\ NoLlc \notin Llcs
  /\ CpuLlcs \subseteq Llcs \cup {NoLlc}
  /\ Tasks \cap Thieves = {}

VARIABLES
  llcRun,      \* mlfq_llc_runnable
  queueRun,    \* mlfq_queue_runnable
  rec,         \* the ownership record of each task: last_llc, last_qid
  life,        \* where the kernel has the task
  op,          \* the helper call in flight of each actor
  race         \* history: a steal adjusted a task it did not move, and
               \* that adjustment overlapped another call about that task

vars == <<llcRun, queueRun, rec, life, op, race>>

Actors == Tasks \cup Thieves

NoQueue == 0
Unowned == [llc |-> NoLlc, qid |-> NoQueue]

(* Not runnable, in a queue DSQ, in a local DSQ, in the global DSQ, on CPU *)
Life == {"asleep", "queued", "local", "parked", "running"}

PC == {"idle", "peeked",
       "enter", "count_llc", "count_queue",            \* first count
       "leave_llc", "join_llc", "own_llc",             \* the LLC moves
       "leave_queue", "join_queue",                    \* the queue moves
       "exit", "drop_llc", "drop_queue"}               \* release

(* A call: the point it has reached, the task it is about, its arguments,  *)
(* the record field it has read, and the life of the task after it.        *)
Op == [pc : PC, task : Tasks, qid : Queues, llc : Llcs \cup {NoLlc},
       old : Llcs \cup {NoLlc}, oldq : Queues \cup {NoQueue}, then : Life]

(* The gauges are u32 counters; a negative value stands for a wrapped one. *)
TypeOK ==
  /\ llcRun \in [Llcs -> Int]
  /\ queueRun \in [Queues -> Int]
  /\ rec \in [Tasks -> [llc : Llcs \cup {NoLlc}, qid : Queues \cup {NoQueue}]]
  /\ life \in [Tasks -> Life]
  /\ op \in [Actors -> Op]
  /\ race \in {"none", "strayed", "overlap"}

Idle(a) == op[a].pc = "idle"

Init ==
  /\ llcRun = [l \in Llcs |-> 0]
  /\ queueRun = [q \in Queues |-> 0]
  /\ rec = [t \in Tasks |-> Unowned]
  /\ life = [t \in Tasks |-> "asleep"]
  /\ op \in [Actors -> {[pc |-> "idle", task |-> t, qid |-> q, llc |-> NoLlc,
                          old |-> NoLlc, oldq |-> NoQueue, then |-> "asleep"] :
                           t \in Tasks, q \in Queues}]
  /\ \A t \in Tasks : op[t].task = t
  /\ race = "none"

-----------------------------------------------------------------------------
(* The steps of a helper call.                                             *)

(* The call of actor a goes to point pc2; at the end of a call a task      *)
(* comes to rest where the callback leaves it.                             *)
Goto(a, pc2) ==
  /\ op' = [op EXCEPT ![a].pc = pc2, ![a].old = NoLlc, ![a].oldq = NoQueue]
  /\ life' = IF pc2 = "idle" /\ a \in Tasks
             THEN [life EXCEPT ![a] = op[a].then] ELSE life

(* mlfq_llc_add and mlfq_queue_add: one atomic step on one gauge; the      *)
(* unowned domain and queue 0 are out of range and ignored.                *)
LlcAdd(l, d) == llcRun' = IF l \in Llcs THEN [llcRun EXCEPT ![l] = @ + d]
                                        ELSE llcRun
QueueAdd(q, d) == queueRun' = IF q \in Queues
                              THEN [queueRun EXCEPT ![q] = @ + d]
                              ELSE queueRun

(* mlfq_runnable_enter reads last_llc and branches: nothing at all for an  *)
(* unmapped CPU, a first count, a move between domains, or the queue.      *)
EnterRead(a) ==
  LET t == op[a].task
  IN  /\ op[a].pc = "enter"
      /\ \/ /\ op[a].llc = NoLlc
            /\ Goto(a, "idle")
         \/ /\ op[a].llc # NoLlc
            /\ rec[t].llc = NoLlc
            /\ Goto(a, "count_llc")
         \/ /\ op[a].llc # NoLlc
            /\ rec[t].llc \notin {NoLlc, op[a].llc}
            /\ op' = [op EXCEPT ![a].pc = "leave_llc", ![a].old = rec[t].llc]
            /\ UNCHANGED life
         \/ /\ op[a].llc # NoLlc
            /\ rec[t].llc = op[a].llc
            /\ rec[t].qid # op[a].qid
            /\ op' = [op EXCEPT ![a].pc = "leave_queue", ![a].oldq = rec[t].qid]
            /\ UNCHANGED life
         \/ /\ op[a].llc # NoLlc
            /\ rec[t] = [llc |-> op[a].llc, qid |-> op[a].qid]
            /\ Goto(a, "idle")
      /\ UNCHANGED <<llcRun, queueRun, rec, race>>

CountLlc(a) ==
  /\ op[a].pc = "count_llc"
  /\ LlcAdd(op[a].llc, 1)
  /\ Goto(a, "count_queue")
  /\ UNCHANGED <<queueRun, rec, race>>

CountQueue(a) ==
  /\ op[a].pc = "count_queue"
  /\ QueueAdd(op[a].qid, 1)
  /\ rec' = [rec EXCEPT ![op[a].task] = [llc |-> op[a].llc, qid |-> op[a].qid]]
  /\ Goto(a, "idle")
  /\ UNCHANGED <<llcRun, race>>

LeaveLlc(a) ==
  /\ op[a].pc = "leave_llc"
  /\ LlcAdd(op[a].old, -1)
  /\ Goto(a, "join_llc")
  /\ UNCHANGED <<queueRun, rec, race>>

JoinLlc(a) ==
  /\ op[a].pc = "join_llc"
  /\ LlcAdd(op[a].llc, 1)
  /\ Goto(a, "own_llc")
  /\ UNCHANGED <<queueRun, rec, race>>

(* The record takes the new domain, and last_qid is read.                  *)
OwnLlc(a) ==
  LET t == op[a].task
  IN  /\ op[a].pc = "own_llc"
      /\ rec' = [rec EXCEPT ![t].llc = op[a].llc]
      /\ IF rec[t].qid = op[a].qid
         THEN Goto(a, "idle")
         ELSE /\ op' = [op EXCEPT ![a].pc = "leave_queue",
                                  ![a].oldq = rec[t].qid]
              /\ UNCHANGED life
      /\ UNCHANGED <<llcRun, queueRun, race>>

LeaveQueue(a) ==
  /\ op[a].pc = "leave_queue"
  /\ QueueAdd(op[a].oldq, -1)
  /\ Goto(a, "join_queue")
  /\ UNCHANGED <<llcRun, rec, race>>

(* A queue move that records the new queue without counting it.            *)
MutJoinUncounted(a) ==
  /\ op[a].pc = "join_queue"
  /\ rec' = [rec EXCEPT ![op[a].task].qid = op[a].qid]
  /\ Goto(a, "idle")
  /\ UNCHANGED <<llcRun, queueRun, race>>

JoinQueue(a) ==
  /\ op[a].pc = "join_queue"
  /\ QueueAdd(op[a].qid, 1)
  /\ rec' = [rec EXCEPT ![op[a].task].qid = op[a].qid]
  /\ Goto(a, "idle")
  /\ UNCHANGED <<llcRun, race>>

(* mlfq_runnable_exit reads last_llc; an unowned task is a no-op.          *)
ExitRead(a) ==
  LET t == op[a].task
  IN  /\ op[a].pc = "exit"
      /\ IF rec[t].llc = NoLlc
         THEN Goto(a, "idle")
         ELSE /\ op' = [op EXCEPT ![a].pc = "drop_llc", ![a].old = rec[t].llc]
              /\ UNCHANGED life
      /\ UNCHANGED <<llcRun, queueRun, rec, race>>

DropLlc(a) ==
  /\ op[a].pc = "drop_llc"
  /\ LlcAdd(op[a].old, -1)
  /\ Goto(a, "drop_queue")
  /\ UNCHANGED <<queueRun, rec, race>>

(* The release without the reset of last_llc.                              *)
MutKeepRecord(a) ==
  /\ op[a].pc = "drop_queue"
  /\ QueueAdd(rec[op[a].task].qid, -1)
  /\ rec' = [rec EXCEPT ![op[a].task].qid = NoQueue]
  /\ Goto(a, "idle")
  /\ UNCHANGED <<llcRun, race>>

DropQueue(a) ==
  /\ op[a].pc = "drop_queue"
  /\ QueueAdd(rec[op[a].task].qid, -1)
  /\ rec' = [rec EXCEPT ![op[a].task] = Unowned]
  /\ Goto(a, "idle")
  /\ UNCHANGED <<llcRun, race>>

CallStep(a) ==
  \/ EnterRead(a) \/ CountLlc(a) \/ CountQueue(a)
  \/ LeaveLlc(a) \/ JoinLlc(a) \/ OwnLlc(a)
  \/ LeaveQueue(a) \/ JoinQueue(a)
  \/ ExitRead(a) \/ DropLlc(a) \/ DropQueue(a)

-----------------------------------------------------------------------------
(* The callbacks that make a call.  l ranges over the domains of the CPUs. *)

(* A call about task t is in flight.                                       *)
Busy(t) == \E a \in Actors : op[a].task = t /\ op[a].pc \notin {"idle", "peeked"}

SetCall(a, pc2, t, q, l, then) ==
  op' = [op EXCEPT ![a] = [pc |-> pc2, task |-> t, qid |-> q, llc |-> l,
                           old |-> NoLlc, oldq |-> NoQueue, then |-> then]]

Call(t, pc2, q, l, then) ==
  /\ SetCall(t, pc2, t, q, l, then)
  /\ race' = IF race # "none" /\ Busy(t) THEN "overlap" ELSE race

(* ops.enqueue inserts the task into a queue DSQ or a local DSQ (wakeup,   *)
(* run-out, preemption, REENQ): the accounting call, then the insert.      *)
Enqueue(t, q, l, dsq) ==
  /\ Idle(t)
  /\ life[t] \in {"asleep", "running", "queued", "local"}
  /\ Call(t, "enter", q, l, dsq)
  /\ UNCHANGED <<llcRun, queueRun, rec, life>>

(* The SYNC handoff of select_cpu inserts into a local DSQ and accounts    *)
(* nothing.                                                                *)
SyncHandoff(t) ==
  /\ Idle(t)
  /\ life[t] = "asleep"
  /\ life' = [life EXCEPT ![t] = "local"]
  /\ UNCHANGED <<llcRun, queueRun, rec, op, race>>

(* The park without its release.                                           *)
MutParkKeepsOwner(t, q) ==
  /\ Idle(t)
  /\ life[t] \in {"asleep", "running", "queued", "local"}
  /\ life' = [life EXCEPT ![t] = "parked"]
  /\ UNCHANGED <<llcRun, queueRun, rec, op, race>>

(* ops.enqueue parks a task that lost its CPU on the global DSQ.           *)
GlobalPark(t, q) ==
  /\ Idle(t)
  /\ life[t] \in {"asleep", "running", "queued", "local"}
  /\ Call(t, "exit", q, NoLlc, "parked")
  /\ UNCHANGED <<llcRun, queueRun, rec, life>>

(* ops.running: a task with no owner is counted where it runs.             *)
RunUnowned(t, q, l) ==
  /\ Idle(t)
  /\ life[t] \in {"local", "parked"}
  /\ rec[t].llc = NoLlc
  /\ Call(t, "enter", q, l, "running")
  /\ UNCHANGED <<llcRun, queueRun, rec, life>>

RunOwned(t) ==
  /\ Idle(t)
  /\ life[t] \in {"local", "parked"}
  /\ rec[t].llc # NoLlc
  /\ life' = [life EXCEPT ![t] = "running"]
  /\ UNCHANGED <<llcRun, queueRun, rec, op, race>>

(* ops.dispatch moves the head of an own queue DSQ: same owner.            *)
MoveOwn(t) ==
  /\ Idle(t)
  /\ life[t] = "queued"
  /\ life' = [life EXCEPT ![t] = "local"]
  /\ UNCHANGED <<llcRun, queueRun, rec, op, race>>

(* ops.dispatch steals the head it peeked: the task is in the thief's      *)
(* local DSQ, under the thief's runqueue lock, while its ownership moves   *)
(* to the thief's domain.  The queue is that of the DSQ it was taken from. *)
StealPeeked(t, l) ==
  /\ Idle(t)
  /\ life[t] = "queued"
  /\ Call(t, "enter", op[t].qid, l, "local")
  /\ UNCHANGED <<llcRun, queueRun, rec, life>>

(* A dispatching CPU peeks the head of a remote queue DSQ ...              *)
Peek(k, t) ==
  /\ Idle(k)
  /\ Idle(t)
  /\ life[t] = "queued"
  /\ SetCall(k, "peeked", t, op[t].qid, NoLlc, "local")
  /\ UNCHANGED <<llcRun, queueRun, rec, life, race>>

(* ... and its move finds another head m, because the peeked task was      *)
(* served in between: m moves, and the adjustment hits the peeked task,    *)
(* whatever it does by now.                                                *)
StealStale(k, m, l) ==
  /\ op[k].pc = "peeked"
  /\ m # op[k].task
  /\ Idle(m)
  /\ life[m] = "queued"
  /\ op[m].qid = op[k].qid
  /\ SetCall(k, "enter", op[k].task, op[k].qid, l, "local")
  /\ race' = IF Busy(op[k].task) THEN "overlap"
             ELSE IF race = "none" THEN "strayed" ELSE race
  /\ life' = [life EXCEPT ![m] = "local"]
  /\ UNCHANGED <<llcRun, queueRun, rec>>

(* ops.quiescent, on every dequeue.                                        *)
Quiescent(t) ==
  /\ Idle(t)
  /\ life[t] \in {"queued", "local", "parked", "running"}
  /\ Call(t, "exit", op[t].qid, NoLlc, "asleep")
  /\ UNCHANGED <<llcRun, queueRun, rec, life>>

Callback(t) ==
  \/ \E q \in Queues, l \in CpuLlcs :
       \/ \E dsq \in {"queued", "local"} : Enqueue(t, q, l, dsq)
       \/ RunUnowned(t, q, l)
  \/ \E l \in CpuLlcs : StealPeeked(t, l)
  \/ \E q \in Queues : GlobalPark(t, q)
  \/ SyncHandoff(t)
  \/ RunOwned(t)
  \/ MoveOwn(t)
  \/ Quiescent(t)

Next ==
  \/ \E a \in Actors : CallStep(a)
  \/ \E t \in Tasks : Callback(t)
  \/ \E k \in Thieves, t \in Tasks : Peek(k, t)
  \/ \E k \in Thieves, m \in Tasks, l \in CpuLlcs : StealStale(k, m, l)

Spec == Init /\ [][Next]_vars

-----------------------------------------------------------------------------
(* The domain and the queue a task is counted in at this moment, a call in *)
(* flight included.                                                        *)
LlcCredit(t) ==
  IF op[t].pc \in {"count_queue", "own_llc"} THEN op[t].llc
  ELSE IF op[t].pc \in {"join_llc", "drop_queue"} THEN NoLlc
  ELSE rec[t].llc

QueueCredit(t) ==
  IF op[t].pc = "join_queue" THEN NoQueue ELSE rec[t].qid

(* The gauge of a domain, and of a queue, is the number of tasks counted   *)
(* there, as long as every steal has adjusted the task it moved.           *)
LlcGaugeExact ==
  race = "none" =>
    \A l \in Llcs : llcRun[l] = Cardinality({t \in Tasks : LlcCredit(t) = l})

QueueGaugeExact ==
  race = "none" =>
    \A q \in Queues :
      queueRun[q] = Cardinality({t \in Tasks : QueueCredit(t) = q})

(* As long as every steal adjusts the task it moved, the gauges are exact  *)
(* at every step of every call: each equals the number of tasks counted    *)
(* there.  In particular no interleaving underflows a u32 gauge.           *)
GaugesExact == LlcGaugeExact /\ QueueGaugeExact

(* Between calls, a task that left the runnable set or waits on the global *)
(* DSQ is counted nowhere, and the two halves of a record agree.           *)
LeaversReleased ==
  race = "none" =>
    \A t \in Tasks :
      Idle(t) =>
        /\ life[t] \in {"asleep", "parked"} => rec[t] = Unowned
        /\ rec[t].llc = NoLlc <=> rec[t].qid = NoQueue

(* Whenever no call is in flight the gauges agree with the records, also   *)
(* after steals that adjusted the wrong task, so that what they did is     *)
(* undone by the releases still to come ("self-heal at the moved task's    *)
(* next episode boundary", dispatch.bpf.c).  This needs the adjustment not *)
(* to overlap a call about that task: nothing in the code orders the two.  *)
GaugesHeal ==
  race # "overlap" /\ (\A a \in Actors : Idle(a)) =>
    /\ \A l \in Llcs :
         llcRun[l] = Cardinality({t \in Tasks : rec[t].llc = l})
    /\ \A q \in Queues :
         queueRun[q] = Cardinality({t \in Tasks : rec[t].qid = q})

=============================================================================
