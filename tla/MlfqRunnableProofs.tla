------------------------- MODULE MlfqRunnableProofs ------------------------
(* Proofs about MlfqRunnable for every number of tasks, thieves, domains   *)
(* and queues.  Tasks that leave are released as long as no steal has      *)
(* adjusted a task it did not move; the gauges are exact until then, and   *)
(* exact between calls as long as no such adjustment overlapped another    *)
(* call about its task; the types hold whatever the thieves do.            *)
EXTENDS MlfqRunnable, FiniteSetTheorems, TLAPS

(* Where a call in flight has got to, in terms of the record.              *)
CallInv(t) ==
  LET o == op[t]
      r == rec[t]
  IN  /\ o.task = t
      /\ o.pc # "peeked"
      /\ r.llc = NoLlc <=> r.qid = NoQueue
      /\ o.pc \in {"count_llc", "count_queue"} =>
           r.llc = NoLlc /\ o.llc # NoLlc
      /\ o.pc \in {"leave_llc", "join_llc", "own_llc"} =>
           r.llc # NoLlc /\ o.llc # NoLlc
      /\ o.pc \in {"leave_llc", "drop_llc"} => o.old = r.llc
      /\ o.pc \in {"leave_queue", "join_queue", "drop_llc", "drop_queue"} =>
           r.llc # NoLlc
      /\ o.pc = "leave_queue" => o.oldq = r.qid
      /\ o.pc \in {"exit", "drop_llc", "drop_queue"} =>
           o.then \in {"asleep", "parked"}
      /\ o.pc \in {"enter", "count_llc", "count_queue", "leave_llc", "join_llc",
                   "own_llc", "leave_queue", "join_queue"} =>
           o.then \in {"queued", "local", "running"}
      /\ o.pc = "idle" /\ life[t] \in {"asleep", "parked"} => r.llc = NoLlc

(* The inductive invariant of the calls, until a steal goes astray.        *)
RunnableInv ==
  /\ TypeOK
  /\ race = "none"
  /\ \A k \in Thieves : op[k].pc \in {"idle", "peeked"}
  /\ \A t \in Tasks : CallInv(t)

(* A step about task t leaves every other task alone.                      *)
Frame(t) ==
  /\ \A u \in Tasks \ {t} :
       op'[u] = op[u] /\ rec'[u] = rec[u] /\ life'[u] = life[u]
  /\ \A k \in Thieves : op'[k] = op[k]

-----------------------------------------------------------------------------
(* What one step about task t must establish.                              *)
LEMMA StepSuffices ==
  ASSUME RunnableInv, race' = "none", NEW t \in Tasks, TypeOK', Frame(t),
         CallInv(t)'
  PROVE  RunnableInv'
<1>2. \A k \in Thieves : op'[k].pc \in {"idle", "peeked"}
  BY DEF RunnableInv, Frame
<1>3. \A u \in Tasks \ {t} : CallInv(u)'
  BY DEF RunnableInv, Frame, CallInv
<1>4. TypeOK' /\ (race = "none")'
  OBVIOUS
<1> QED BY <1>2, <1>3, <1>4 DEF RunnableInv

-----------------------------------------------------------------------------
(* Types of the call record after a move to another point.                 *)
LEMMA GotoTyped ==
  ASSUME TypeOK, NEW t \in Actors, NEW pc2 \in PC, Goto(t, pc2)
  PROVE  op' \in [Actors -> Op]
<1> DEFINE r == [op[t] EXCEPT !.pc = pc2, !.old = NoLlc, !.oldq = NoQueue]
<1>1. op[t] \in Op
  BY DEF TypeOK, Actors
<1>2. r \in Op
  BY <1>1 DEF Op
<1>3. op' = [op EXCEPT ![t] = r]
  BY DEF Goto, TypeOK, Actors
<1> HIDE DEF r
<1> QED BY <1>2, <1>3 DEF TypeOK, Actors

(* Advancing a call and reading one field of the record keeps the type of  *)
(* the calls.                                                              *)
LEMMA ReadTyped ==
  ASSUME TypeOK, NEW t \in Actors, NEW pc2 \in PC,
         \/ \E o \in Llcs \cup {NoLlc} :
              op' = [op EXCEPT ![t].pc = pc2, ![t].old = o]
         \/ \E o \in Queues \cup {NoQueue} :
              op' = [op EXCEPT ![t].pc = pc2, ![t].oldq = o]
  PROVE  op' \in [Actors -> Op]
<1>1. op[t] \in Op
  BY DEF TypeOK, Actors
<1>2. CASE \E o \in Llcs \cup {NoLlc} :
             op' = [op EXCEPT ![t].pc = pc2, ![t].old = o]
  <2>1. PICK o \in Llcs \cup {NoLlc} :
               op' = [op EXCEPT ![t].pc = pc2, ![t].old = o]
    BY <1>2
  <2> DEFINE r == [op[t] EXCEPT !.pc = pc2, !.old = o]
  <2>2. r \in Op
    BY <1>1 DEF Op
  <2>3. op' = [op EXCEPT ![t] = r]
    BY <2>1 DEF TypeOK, Actors
  <2> HIDE DEF r
  <2> QED BY <2>2, <2>3 DEF TypeOK, Actors
<1>3. CASE \E o \in Queues \cup {NoQueue} :
             op' = [op EXCEPT ![t].pc = pc2, ![t].oldq = o]
  <2>1. PICK o \in Queues \cup {NoQueue} :
               op' = [op EXCEPT ![t].pc = pc2, ![t].oldq = o]
    BY <1>3
  <2> DEFINE r == [op[t] EXCEPT !.pc = pc2, !.oldq = o]
  <2>2. r \in Op
    BY <1>1 DEF Op
  <2>3. op' = [op EXCEPT ![t] = r]
    BY <2>1 DEF TypeOK, Actors
  <2> HIDE DEF r
  <2> QED BY <2>2, <2>3 DEF TypeOK, Actors
<1> QED BY <1>2, <1>3

-----------------------------------------------------------------------------
(* Types, whatever the actors do.                                          *)
LEMMA OpTyped ==
  ASSUME TypeOK, NEW a \in Actors, NEW r \in Op, op' = [op EXCEPT ![a] = r]
  PROVE  op' \in [Actors -> Op]
BY DEF TypeOK

(* What such a move leaves in the call.                                    *)
LEMMA GotoSets ==
  ASSUME TypeOK, NEW t \in Actors, NEW pc2 \in PC, Goto(t, pc2)
  PROVE  op'[t].pc = pc2 /\ op'[t].task = op[t].task /\ op'[t].then = op[t].then
<1> DEFINE r == [op[t] EXCEPT !.pc = pc2, !.old = NoLlc, !.oldq = NoQueue]
<1>1. op[t] \in Op
  BY DEF TypeOK, Actors
<1>2. r.pc = pc2 /\ r.task = op[t].task /\ r.then = op[t].then
  BY <1>1 DEF Op
<1>3. op' = [op EXCEPT ![t] = r]
  BY DEF Goto, TypeOK, Actors
<1> HIDE DEF r
<1> QED BY <1>2, <1>3 DEF TypeOK, Actors

Record == [llc : Llcs \cup {NoLlc}, qid : Queues \cup {NoQueue}]

(* Every atomic step of a call keeps the types, whoever runs it.           *)
LEMMA CallStepTyped ==
  ASSUME TypeOK, NEW a \in Actors, CallStep(a)
  PROVE  TypeOK'
<1> USE DEF Goto, LlcAdd, QueueAdd, Unowned, NoQueue
<1>1. op[a] \in Op
  BY DEF TypeOK
<1>2. /\ rec[op[a].task] \in Record
      /\ op[a].task \in Tasks
      /\ op[a].then \in Life
      /\ op[a].llc \in Llcs \cup {NoLlc}
      /\ op[a].qid \in Queues
  BY <1>1 DEF TypeOK, Op, Record
<1>3. op' \in [Actors -> Op]
  <2>1. \E pc2 \in PC :
          \/ Goto(a, pc2)
          \/ \E o \in Llcs \cup {NoLlc} :
               op' = [op EXCEPT ![a].pc = pc2, ![a].old = o]
          \/ \E o \in Queues \cup {NoQueue} :
               op' = [op EXCEPT ![a].pc = pc2, ![a].oldq = o]
    <3> HIDE DEF Goto
    <3>0. {"idle", "count_llc", "count_queue", "leave_llc", "join_llc",
           "own_llc", "leave_queue", "join_queue", "drop_llc", "drop_queue"}
            \subseteq PC
      BY DEF PC
    <3>1. CASE EnterRead(a)
      BY <1>2, <3>0, <3>1 DEF EnterRead, Record
    <3>2. CASE OwnLlc(a)
      BY <1>2, <3>0, <3>2 DEF OwnLlc, Record
    <3>3. CASE ExitRead(a)
      BY <1>2, <3>0, <3>3 DEF ExitRead, Record
    <3>4. CASE LeaveQueue(a) \/ JoinQueue(a) \/ CountLlc(a) \/ CountQueue(a)
      BY <3>0, <3>4 DEF LeaveQueue, JoinQueue, CountLlc, CountQueue
    <3>5. CASE LeaveLlc(a) \/ JoinLlc(a) \/ DropLlc(a) \/ DropQueue(a)
      BY <3>0, <3>5 DEF LeaveLlc, JoinLlc, DropLlc, DropQueue
    <3> QED BY <3>1, <3>2, <3>3, <3>4, <3>5 DEF CallStep
  <2> HIDE DEF Goto
  <2> QED BY <2>1, GotoTyped, ReadTyped
<1>4. /\ llcRun' \in [Llcs -> Int] /\ queueRun' \in [Queues -> Int]
      /\ race' \in {"none", "strayed", "overlap"}
  <2>1. /\ llcRun \in [Llcs -> Int] /\ queueRun \in [Queues -> Int]
        /\ race \in {"none", "strayed", "overlap"}
    BY DEF TypeOK
  <2>2. CASE CountLlc(a) \/ CountQueue(a) \/ JoinLlc(a) \/ JoinQueue(a)
    BY <2>1, <2>2 DEF CountLlc, CountQueue, JoinLlc, JoinQueue
  <2>3. CASE LeaveLlc(a) \/ LeaveQueue(a) \/ DropLlc(a) \/ DropQueue(a)
    BY <2>1, <2>3 DEF LeaveLlc, LeaveQueue, DropLlc, DropQueue
  <2>4. CASE EnterRead(a) \/ OwnLlc(a) \/ ExitRead(a)
    BY <2>1, <2>4 DEF EnterRead, OwnLlc, ExitRead
  <2> QED BY <2>2, <2>3, <2>4 DEF CallStep
<1>6. life' \in [Tasks -> Life]
  <2>1. life' = life \/ life' = [life EXCEPT ![a] = op[a].then]
    BY DEF CallStep, EnterRead, CountLlc, CountQueue, LeaveLlc, JoinLlc,
           OwnLlc, LeaveQueue, JoinQueue, ExitRead, DropLlc, DropQueue
  <2> QED BY <1>2, <2>1 DEF TypeOK
<1>5. rec' \in [Tasks -> Record]
  <2>1. \/ rec' = rec
        \/ \E r \in Record : rec' = [rec EXCEPT ![op[a].task] = r]
    <3>1. /\ \A l \in Llcs \cup {NoLlc} :
               [rec[op[a].task] EXCEPT !.llc = l] \in Record
          /\ \A q \in Queues \cup {NoQueue} :
               [rec[op[a].task] EXCEPT !.qid = q] \in Record
          /\ \A l \in Llcs \cup {NoLlc}, q \in Queues \cup {NoQueue} :
               [llc |-> l, qid |-> q] \in Record
      BY <1>2 DEF Record
    <3>2. CASE CountQueue(a)
      BY <1>2, <3>1, <3>2 DEF CountQueue
    <3>3. CASE OwnLlc(a)
      BY <1>2, <3>1, <3>3 DEF OwnLlc
    <3>4. CASE JoinQueue(a)
      BY <1>2, <3>1, <3>4 DEF JoinQueue
    <3>5. CASE DropQueue(a)
      BY <3>1, <3>5 DEF DropQueue
    <3>6. CASE \/ EnterRead(a) \/ CountLlc(a) \/ LeaveLlc(a) \/ JoinLlc(a)
               \/ LeaveQueue(a) \/ ExitRead(a) \/ DropLlc(a)
      BY <3>6 DEF EnterRead, CountLlc, LeaveLlc, JoinLlc, LeaveQueue, ExitRead,
                  DropLlc
    <3> QED BY <3>2, <3>3, <3>4, <3>5, <3>6 DEF CallStep
  <2> QED BY <1>2, <2>1 DEF TypeOK, Record
<1>7. rec' \in [Tasks -> [llc : Llcs \cup {NoLlc}, qid : Queues \cup {NoQueue}]]
  BY <1>5 DEF Record
<1> QED BY <1>3, <1>4, <1>6, <1>7 DEF TypeOK

(* Beginning a call keeps the type of the calls.                           *)
LEMMA SetCallTyped ==
  ASSUME TypeOK, NEW a \in Actors, NEW pc2 \in PC, NEW t \in Tasks,
         NEW q \in Queues, NEW l \in Llcs \cup {NoLlc}, NEW then \in Life,
         SetCall(a, pc2, t, q, l, then)
  PROVE  op' \in [Actors -> Op]
<1> DEFINE r == [pc |-> pc2, task |-> t, qid |-> q, llc |-> l,
                 old |-> NoLlc, oldq |-> NoQueue, then |-> then]
<1>1. r \in Op
  BY DEF Op
<1>2. op' = [op EXCEPT ![a] = r]
  BY DEF SetCall
<1> HIDE DEF r
<1> QED BY <1>1, <1>2, OpTyped

(* Every callback of a task keeps the types.                               *)
LEMMA CallbackTyped ==
  ASSUME TypeOK, NEW t \in Tasks, Callback(t)
  PROVE  TypeOK'
<1>0. /\ {"enter", "exit"} \subseteq PC
      /\ {"asleep", "queued", "local", "parked", "running"} \subseteq Life
      /\ t \in Actors
      /\ op[t].qid \in Queues
      /\ CpuLlcs \subseteq Llcs \cup {NoLlc}
  BY RunnableAssumption DEF PC, Life, Actors, TypeOK, Op
<1>1. op' \in [Actors -> Op]
  <2>1. \/ op' = op
        \/ \E pc2 \in PC, q \in Queues, l \in Llcs \cup {NoLlc}, then \in Life :
             SetCall(t, pc2, t, q, l, then)
    <3>1. CASE \E q \in Queues, l \in CpuLlcs, dsq \in {"queued", "local"} :
                 Enqueue(t, q, l, dsq)
      BY <1>0, <3>1 DEF Enqueue, Call
    <3>2. CASE \E q \in Queues, l \in CpuLlcs : RunUnowned(t, q, l)
      BY <1>0, <3>2 DEF RunUnowned, Call
    <3>3. CASE \E l \in CpuLlcs : StealPeeked(t, l)
      BY <1>0, <3>3 DEF StealPeeked, Call
    <3>4. CASE \E q \in Queues : GlobalPark(t, q)
      BY <1>0, <3>4 DEF GlobalPark, Call
    <3>5. CASE SyncHandoff(t) \/ RunOwned(t) \/ MoveOwn(t)
      BY <3>5 DEF SyncHandoff, RunOwned, MoveOwn
    <3>6. CASE Quiescent(t)
      BY <1>0, <3>6 DEF Quiescent, Call
    <3> QED BY <3>1, <3>2, <3>3, <3>4, <3>5, <3>6 DEF Callback
  <2>2. CASE op' = op
    BY <2>2 DEF TypeOK
  <2> QED BY <1>0, <2>1, <2>2, SetCallTyped
<1>2. /\ llcRun' \in [Llcs -> Int] /\ queueRun' \in [Queues -> Int]
      /\ race' \in {"none", "strayed", "overlap"}
      /\ life' \in [Tasks -> Life]
      /\ rec' \in [Tasks -> [llc : Llcs \cup {NoLlc},
                              qid : Queues \cup {NoQueue}]]
  BY <1>0 DEF TypeOK, Callback, Enqueue, SyncHandoff, GlobalPark, RunUnowned,
              RunOwned, MoveOwn, StealPeeked, Quiescent, Call
<1> QED BY <1>1, <1>2 DEF TypeOK

(* Every step of a steal keeps the types.                                  *)
LEMMA ThiefTyped ==
  ASSUME TypeOK, NEW k \in Thieves,
         \/ \E t \in Tasks : Peek(k, t)
         \/ \E m \in Tasks, l \in CpuLlcs : StealStale(k, m, l)
  PROVE  TypeOK'
<1>0. /\ {"enter", "peeked"} \subseteq PC /\ "local" \in Life
      /\ k \in Actors /\ Tasks \subseteq Actors
      /\ CpuLlcs \subseteq Llcs \cup {NoLlc}
      /\ \A a \in Actors : op[a].qid \in Queues /\ op[a].task \in Tasks
  BY RunnableAssumption DEF PC, Life, Actors, TypeOK, Op
<1>1. \E pc2 \in PC, t \in Tasks, q \in Queues, l \in Llcs \cup {NoLlc},
         then \in Life : SetCall(k, pc2, t, q, l, then)
  <2>1. CASE \E t \in Tasks : Peek(k, t)
    BY <1>0, <2>1 DEF Peek
  <2>2. CASE \E m \in Tasks, l \in CpuLlcs : StealStale(k, m, l)
    BY <1>0, <2>2 DEF StealStale
  <2> QED BY <2>1, <2>2
<1>2. op' \in [Actors -> Op]
  BY <1>0, <1>1, SetCallTyped
<1>3. /\ UNCHANGED <<llcRun, queueRun, rec>>
      /\ race' \in {"none", "strayed", "overlap"}
      /\ life' \in [Tasks -> Life]
  BY <1>0 DEF TypeOK, Peek, StealStale
<1> QED BY <1>2, <1>3 DEF TypeOK

(* Every step keeps the types.                                             *)
LEMMA TypeStep == TypeOK /\ [Next]_vars => TypeOK'
<1> SUFFICES ASSUME TypeOK, [Next]_vars PROVE TypeOK'
  OBVIOUS
<1>1. CASE Next
  BY <1>1, CallStepTyped, CallbackTyped, ThiefTyped DEF Next
<1>2. CASE UNCHANGED vars
  BY <1>2 DEF TypeOK, vars
<1> QED BY <1>1, <1>2

-----------------------------------------------------------------------------
(* Every step of a call, and every callback, is a step about one task.     *)
LEMMA EnterReadStep ==
  ASSUME RunnableInv, race' = "none", TypeOK', NEW t \in Tasks, EnterRead(t)
  PROVE  RunnableInv'
<1> USE RunnableAssumption DEF EnterRead, Goto, LlcAdd, QueueAdd, Idle, Call,
        SetCall, Unowned, NoQueue
<1>1. Frame(t)
  BY DEF RunnableInv, TypeOK, CallInv, Frame, Actors
<1>2. CallInv(t)'
  <2>1. /\ op[t].pc = "enter" /\ op[t].task = t /\ rec' = rec
        /\ op[t].then \in {"queued", "local", "running"}
        /\ rec[t].llc = NoLlc <=> rec[t].qid = NoQueue
    BY DEF RunnableInv, CallInv
  <2>2. op[t] \in Op /\ op \in [Actors -> Op] /\ life \in [Tasks -> Life] /\ t \in Actors
    BY DEF RunnableInv, TypeOK, Actors
  <2>3. /\ op'[t].task = t /\ op'[t].then = op[t].then
        /\ op'[t].llc = op[t].llc
    BY <2>1, <2>2 DEF Op
  <2>4. \/ op'[t].pc = "idle" /\ life'[t] = op[t].then
        \/ op'[t].pc = "count_llc" /\ op[t].llc # NoLlc /\ rec[t].llc = NoLlc
        \/ /\ op'[t].pc = "leave_llc" /\ op'[t].old = rec[t].llc
           /\ op[t].llc # NoLlc /\ rec[t].llc # NoLlc
        \/ /\ op'[t].pc = "leave_queue" /\ op'[t].oldq = rec[t].qid
           /\ rec[t].llc # NoLlc
    BY <2>1, <2>2 DEF Op
  <2> QED BY <2>1, <2>3, <2>4 DEF CallInv
<1> QED BY <1>1, <1>2, StepSuffices

(* mlfq_runnable_enter, first count: the domain gauge gains the credit of  *)
(* the task.                                                               *)
LEMMA CountLlcStep ==
  ASSUME RunnableInv, race' = "none", TypeOK', NEW t \in Tasks, CountLlc(t)
  PROVE  RunnableInv'
<1> USE RunnableAssumption DEF CountLlc, Goto, LlcAdd, QueueAdd, Idle, Call,
        SetCall, Unowned, NoQueue
<1>1. Frame(t)
  BY DEF RunnableInv, TypeOK, CallInv, Frame, Actors
<1>2. CallInv(t)'
  BY DEF RunnableInv, TypeOK, CallInv, Op, Actors
<1> QED BY <1>1, <1>2, StepSuffices

(* mlfq_runnable_enter, first count: the queue gauge gains it and the      *)
(* record is written.                                                      *)
LEMMA CountQueueStep ==
  ASSUME RunnableInv, race' = "none", TypeOK', NEW t \in Tasks, CountQueue(t)
  PROVE  RunnableInv'
<1> USE RunnableAssumption DEF CountQueue, Goto, LlcAdd, QueueAdd, Idle, Call,
        SetCall, Unowned, NoQueue
<1>1. Frame(t)
  BY DEF RunnableInv, TypeOK, CallInv, Frame, Actors
<1>2. CallInv(t)'
  <2>1. /\ op[t].task = t
        /\ op[t].llc # NoLlc /\ op[t].qid \in Queues
        /\ op[t].then \in {"queued", "local", "running"}
    BY DEF RunnableInv, TypeOK, CallInv, Op, Actors
  <2>2. rec'[t] = [llc |-> op[t].llc, qid |-> op[t].qid]
    BY <2>1 DEF RunnableInv, TypeOK
  <2>3. op'[t].pc = "idle" /\ op'[t].task = t /\ life'[t] = op[t].then
    BY <2>1 DEF RunnableInv, TypeOK, Actors
  <2>4. rec'[t].llc # NoLlc /\ rec'[t].qid # NoQueue
    BY <2>1, <2>2
  <2> QED BY <2>1, <2>3, <2>4 DEF CallInv
<1> QED BY <1>1, <1>2, StepSuffices

(* mlfq_runnable_enter, domain change: the old domain loses the credit.    *)
LEMMA LeaveLlcStep ==
  ASSUME RunnableInv, race' = "none", TypeOK', NEW t \in Tasks, LeaveLlc(t)
  PROVE  RunnableInv'
<1> USE RunnableAssumption DEF LeaveLlc, Goto, LlcAdd, QueueAdd, Idle, Call,
        SetCall, Unowned, NoQueue
<1>1. Frame(t)
  BY DEF RunnableInv, TypeOK, CallInv, Frame, Actors
<1>2. CallInv(t)'
  BY DEF RunnableInv, TypeOK, CallInv, Op, Actors
<1> QED BY <1>1, <1>2, StepSuffices

(* mlfq_runnable_enter, domain change: the new domain gains the credit.    *)
LEMMA JoinLlcStep ==
  ASSUME RunnableInv, race' = "none", TypeOK', NEW t \in Tasks, JoinLlc(t)
  PROVE  RunnableInv'
<1> USE RunnableAssumption DEF JoinLlc, Goto, LlcAdd, QueueAdd, Idle, Call,
        SetCall, Unowned, NoQueue
<1>1. Frame(t)
  BY DEF RunnableInv, TypeOK, CallInv, Frame, Actors
<1>2. CallInv(t)'
  BY DEF RunnableInv, TypeOK, CallInv, Op, Actors
<1> QED BY <1>1, <1>2, StepSuffices

(* mlfq_runnable_enter: the record takes the new domain, then the queue is *)
(* compared.                                                               *)
LEMMA OwnLlcStep ==
  ASSUME RunnableInv, race' = "none", TypeOK', NEW t \in Tasks, OwnLlc(t)
  PROVE  RunnableInv'
<1> USE RunnableAssumption DEF OwnLlc, Goto, LlcAdd, QueueAdd, Idle, Call,
        SetCall, Unowned, NoQueue
<1>1. Frame(t)
  BY DEF RunnableInv, TypeOK, CallInv, Frame, Actors
<1>2. CallInv(t)'
  <2>0. /\ t \in Actors /\ op \in [Actors -> Op] /\ op[t] \in Op
        /\ rec \in [Tasks -> Record] /\ life \in [Tasks -> Life]
        /\ op[t].pc = "own_llc" /\ CallInv(t)
    BY DEF RunnableInv, TypeOK, Actors, Record
  <2>1. rec'[t].llc = op[t].llc /\ rec'[t].qid = rec[t].qid
    <3>1. rec' = [rec EXCEPT ![t].llc = op[t].llc]
      BY <2>0 DEF CallInv
    <3> HIDE DEF OwnLlc
    <3> QED BY <2>0, <3>1 DEF Record
  <2>2. CASE rec[t].qid = op[t].qid
    <3>1. Goto(t, "idle") /\ life'[t] = op[t].then
      BY <2>0, <2>2 DEF CallInv
    <3>2. op'[t].pc = "idle" /\ op'[t].task = op[t].task
      <4> HIDE DEF Goto, OwnLlc
      <4> QED BY <2>0, <3>1, GotoSets DEF RunnableInv, PC
    <3> HIDE DEF Goto, OwnLlc
    <3> QED BY <2>0, <2>1, <3>1, <3>2 DEF CallInv
  <2>3. CASE rec[t].qid # op[t].qid
    <3>1. /\ op'[t].pc = "leave_queue" /\ op'[t].task = op[t].task
          /\ op'[t].oldq = rec[t].qid /\ op'[t].then = op[t].then
      <4>1. op' = [op EXCEPT ![t].pc = "leave_queue", ![t].oldq = rec[t].qid]
        BY <2>0, <2>3 DEF CallInv
      <4> HIDE DEF Goto, OwnLlc
      <4> DEFINE r == [op[t] EXCEPT !.pc = "leave_queue", !.oldq = rec[t].qid]
      <4>2. /\ r.pc = "leave_queue" /\ r.oldq = rec[t].qid
            /\ r.task = op[t].task /\ r.then = op[t].then
        BY <2>0 DEF Op
      <4>3. op' = [op EXCEPT ![t] = r]
        BY <2>0, <4>1
      <4> HIDE DEF r
      <4> QED BY <2>0, <4>2, <4>3
    <3> HIDE DEF Goto, OwnLlc
    <3> QED BY <2>0, <2>1, <3>1 DEF CallInv
  <2> QED BY <2>2, <2>3
<1> QED BY <1>1, <1>2, StepSuffices

(* mlfq_runnable_enter, queue change: the old queue loses the credit.      *)
LEMMA LeaveQueueStep ==
  ASSUME RunnableInv, race' = "none", TypeOK', NEW t \in Tasks, LeaveQueue(t)
  PROVE  RunnableInv'
<1> USE RunnableAssumption DEF LeaveQueue, Goto, LlcAdd, QueueAdd, Idle, Call,
        SetCall, Unowned, NoQueue
<1>1. Frame(t)
  BY DEF RunnableInv, TypeOK, CallInv, Frame, Actors
<1>2. CallInv(t)'
  BY DEF RunnableInv, TypeOK, CallInv, Op, Actors
<1> QED BY <1>1, <1>2, StepSuffices

(* mlfq_runnable_enter, queue change: the new queue gains it and the       *)
(* record is written.                                                      *)
LEMMA JoinQueueStep ==
  ASSUME RunnableInv, race' = "none", TypeOK', NEW t \in Tasks, JoinQueue(t)
  PROVE  RunnableInv'
<1> USE RunnableAssumption DEF JoinQueue, Goto, LlcAdd, QueueAdd, Idle, Call,
        SetCall, Unowned, NoQueue
<1>1. Frame(t)
  BY DEF RunnableInv, TypeOK, CallInv, Frame, Actors
<1>2. CallInv(t)'
  <2>1. /\ op[t].task = t /\ rec[t].llc # NoLlc /\ op[t].qid \in Queues
        /\ op[t].then \in {"queued", "local", "running"}
    BY DEF RunnableInv, TypeOK, CallInv, Op, Actors
  <2>2. rec'[t].llc = rec[t].llc /\ rec'[t].qid = op[t].qid
    BY <2>1 DEF RunnableInv, TypeOK
  <2>3. op'[t].pc = "idle" /\ op'[t].task = t /\ life'[t] = op[t].then
    BY <2>1 DEF RunnableInv, TypeOK, Actors
  <2>4. rec'[t].llc # NoLlc /\ rec'[t].qid # NoQueue
    BY <2>1, <2>2
  <2> QED BY <2>1, <2>3, <2>4 DEF CallInv
<1> QED BY <1>1, <1>2, StepSuffices

(* mlfq_runnable_exit returns at once for a task counted nowhere.          *)
LEMMA ExitReadStep ==
  ASSUME RunnableInv, race' = "none", TypeOK', NEW t \in Tasks, ExitRead(t)
  PROVE  RunnableInv'
<1> USE RunnableAssumption DEF ExitRead, Goto, LlcAdd, QueueAdd, Idle, Call,
        SetCall, Unowned, NoQueue
<1>1. Frame(t)
  BY DEF RunnableInv, TypeOK, CallInv, Frame, Actors
<1>2. CallInv(t)'
  <2>0. /\ t \in Actors /\ op \in [Actors -> Op] /\ op[t] \in Op
        /\ life \in [Tasks -> Life] /\ op[t].pc = "exit" /\ CallInv(t)
    BY DEF RunnableInv, TypeOK, Actors
  <2>1. CASE rec[t].llc = NoLlc
    BY <2>1 DEF RunnableInv, TypeOK, CallInv, Op, Actors
  <2>2. CASE rec[t].llc # NoLlc
    <3>1. /\ op'[t].pc = "drop_llc" /\ op'[t].task = op[t].task
          /\ op'[t].old = rec[t].llc /\ op'[t].then = op[t].then
      <4>1. op' = [op EXCEPT ![t].pc = "drop_llc", ![t].old = rec[t].llc]
        BY <2>0, <2>2 DEF CallInv
      <4> HIDE DEF Goto, ExitRead
      <4> DEFINE r == [op[t] EXCEPT !.pc = "drop_llc", !.old = rec[t].llc]
      <4>2. /\ r.pc = "drop_llc" /\ r.old = rec[t].llc
            /\ r.task = op[t].task /\ r.then = op[t].then
        BY <2>0 DEF Op
      <4>3. op' = [op EXCEPT ![t] = r]
        BY <2>0, <4>1
      <4> HIDE DEF r
      <4> QED BY <2>0, <4>2, <4>3
    <3>2. rec' = rec
      OBVIOUS
    <3> HIDE DEF Goto, ExitRead
    <3> QED BY <2>0, <2>2, <3>1, <3>2 DEF CallInv
  <2> QED BY <2>1, <2>2
<1> QED BY <1>1, <1>2, StepSuffices

(* mlfq_runnable_exit: the domain loses the credit.                        *)
LEMMA DropLlcStep ==
  ASSUME RunnableInv, race' = "none", TypeOK', NEW t \in Tasks, DropLlc(t)
  PROVE  RunnableInv'
<1> USE RunnableAssumption DEF DropLlc, Goto, LlcAdd, QueueAdd, Idle, Call,
        SetCall, Unowned, NoQueue
<1>1. Frame(t)
  BY DEF RunnableInv, TypeOK, CallInv, Frame, Actors
<1>2. CallInv(t)'
  BY DEF RunnableInv, TypeOK, CallInv, Op, Actors
<1> QED BY <1>1, <1>2, StepSuffices

(* mlfq_runnable_exit: the queue loses the credit and the record is        *)
(* cleared.                                                                *)
LEMMA DropQueueStep ==
  ASSUME RunnableInv, race' = "none", TypeOK', NEW t \in Tasks, DropQueue(t)
  PROVE  RunnableInv'
<1> USE RunnableAssumption DEF DropQueue, Goto, LlcAdd, QueueAdd, Idle, Call,
        SetCall, Unowned, NoQueue
<1>1. Frame(t)
  BY DEF RunnableInv, TypeOK, CallInv, Frame, Actors
<1>2. CallInv(t)'
  BY DEF RunnableInv, TypeOK, CallInv, Op, Actors
<1> QED BY <1>1, <1>2, StepSuffices

(* An insert into a DSQ begins a count.                                    *)
LEMMA EnqueueStep ==
  ASSUME RunnableInv, race' = "none", TypeOK', NEW t \in Tasks,
         NEW q \in Queues, NEW l \in CpuLlcs,
         NEW dsq \in {"queued", "local"}, Enqueue(t, q, l, dsq)
  PROVE  RunnableInv'
<1> USE RunnableAssumption DEF Enqueue, Goto, LlcAdd, QueueAdd, Idle, Call,
        SetCall, Unowned, NoQueue
<1>1. Frame(t)
  BY DEF RunnableInv, TypeOK, CallInv, Frame, Actors
<1>2. CallInv(t)'
  BY DEF RunnableInv, TypeOK, CallInv, Op, Actors
<1> QED BY <1>1, <1>2, StepSuffices

(* A synchronous hand-off begins a count.                                  *)
LEMMA SyncHandoffStep ==
  ASSUME RunnableInv, race' = "none", TypeOK', NEW t \in Tasks, SyncHandoff(t)
  PROVE  RunnableInv'
<1> USE RunnableAssumption DEF SyncHandoff, Goto, LlcAdd, QueueAdd, Idle, Call,
        SetCall, Unowned, NoQueue
<1>1. Frame(t)
  BY DEF RunnableInv, TypeOK, CallInv, Frame, Actors
<1>2. CallInv(t)'
  BY DEF RunnableInv, TypeOK, CallInv, Op, Actors
<1> QED BY <1>1, <1>2, StepSuffices

(* A park in the global DSQ begins a release.                              *)
LEMMA GlobalParkStep ==
  ASSUME RunnableInv, race' = "none", TypeOK', NEW t \in Tasks,
         NEW q \in Queues, GlobalPark(t, q)
  PROVE  RunnableInv'
<1> USE RunnableAssumption DEF GlobalPark, Goto, LlcAdd, QueueAdd, Idle, Call,
        SetCall, Unowned, NoQueue
<1>1. Frame(t)
  BY DEF RunnableInv, TypeOK, CallInv, Frame, Actors
<1>2. CallInv(t)'
  BY DEF RunnableInv, TypeOK, CallInv, Op, Actors
<1> QED BY <1>1, <1>2, StepSuffices

(* A task that gets a CPU uncounted begins a count.                        *)
LEMMA RunUnownedStep ==
  ASSUME RunnableInv, race' = "none", TypeOK', NEW t \in Tasks,
         NEW q \in Queues, NEW l \in CpuLlcs, RunUnowned(t, q, l)
  PROVE  RunnableInv'
<1> USE RunnableAssumption DEF RunUnowned, Goto, LlcAdd, QueueAdd, Idle, Call,
        SetCall, Unowned, NoQueue
<1>1. Frame(t)
  BY DEF RunnableInv, TypeOK, CallInv, Frame, Actors
<1>2. CallInv(t)'
  BY DEF RunnableInv, TypeOK, CallInv, Op, Actors
<1> QED BY <1>1, <1>2, StepSuffices

(* A task that gets a CPU counted changes nothing.                         *)
LEMMA RunOwnedStep ==
  ASSUME RunnableInv, race' = "none", TypeOK', NEW t \in Tasks, RunOwned(t)
  PROVE  RunnableInv'
<1> USE RunnableAssumption DEF RunOwned, Goto, LlcAdd, QueueAdd, Idle, Call,
        SetCall, Unowned, NoQueue
<1>1. Frame(t)
  BY DEF RunnableInv, TypeOK, CallInv, Frame, Actors
<1>2. CallInv(t)'
  BY DEF RunnableInv, TypeOK, CallInv, Op, Actors
<1> QED BY <1>1, <1>2, StepSuffices

(* A move from the own queue leaves the accounting alone.                  *)
LEMMA MoveOwnStep ==
  ASSUME RunnableInv, race' = "none", TypeOK', NEW t \in Tasks, MoveOwn(t)
  PROVE  RunnableInv'
<1> USE RunnableAssumption DEF MoveOwn, Goto, LlcAdd, QueueAdd, Idle, Call,
        SetCall, Unowned, NoQueue
<1>1. Frame(t)
  BY DEF RunnableInv, TypeOK, CallInv, Frame, Actors
<1>2. CallInv(t)'
  BY DEF RunnableInv, TypeOK, CallInv, Op, Actors
<1> QED BY <1>1, <1>2, StepSuffices

(* A steal that moved the peeked task begins a count of it.                *)
LEMMA StealPeekedStep ==
  ASSUME RunnableInv, race' = "none", TypeOK', NEW t \in Tasks,
         NEW l \in CpuLlcs, StealPeeked(t, l)
  PROVE  RunnableInv'
<1> USE RunnableAssumption DEF StealPeeked, Goto, LlcAdd, QueueAdd, Idle, Call,
        SetCall, Unowned, NoQueue
<1>1. Frame(t)
  BY DEF RunnableInv, TypeOK, CallInv, Frame, Actors
<1>2. CallInv(t)'
  BY DEF RunnableInv, TypeOK, CallInv, Op, Actors
<1> QED BY <1>1, <1>2, StepSuffices

(* ops.quiescent begins a release.                                         *)
LEMMA QuiescentStep ==
  ASSUME RunnableInv, race' = "none", TypeOK', NEW t \in Tasks, Quiescent(t)
  PROVE  RunnableInv'
<1> USE RunnableAssumption DEF Quiescent, Goto, LlcAdd, QueueAdd, Idle, Call,
        SetCall, Unowned, NoQueue
<1>1. Frame(t)
  BY DEF RunnableInv, TypeOK, CallInv, Frame, Actors
<1>2. CallInv(t)'
  BY DEF RunnableInv, TypeOK, CallInv, Op, Actors
<1> QED BY <1>1, <1>2, StepSuffices

-----------------------------------------------------------------------------
(* The invariant holds initially.                                          *)
LEMMA InitInv == Init => RunnableInv
<1> SUFFICES ASSUME Init PROVE RunnableInv
  OBVIOUS
<1>1. TypeOK
  <2>1. {[pc |-> "idle", task |-> t, qid |-> q, llc |-> NoLlc, old |-> NoLlc,
          oldq |-> NoQueue, then |-> "asleep"] : t \in Tasks, q \in Queues}
          \subseteq Op
    BY DEF Op, PC, Life
  <2>2. op \in [Actors -> Op]
    BY <2>1 DEF Init
  <2> QED BY <2>2, RunnableAssumption DEF Init, TypeOK, Unowned, NoQueue, Life
<1>2. race = "none" /\ \A k \in Thieves : op[k].pc \in {"idle", "peeked"}
  BY DEF Init, Actors
<1>3. \A t \in Tasks : CallInv(t)
  BY RunnableAssumption DEF Init, CallInv, Actors, Unowned, NoQueue
<1> QED BY <1>1, <1>2, <1>3 DEF RunnableInv

(* Stuttering keeps the invariant.                                         *)
LEMMA StutterInv == RunnableInv /\ UNCHANGED vars => RunnableInv'
BY DEF RunnableInv, TypeOK, Idle, CallInv, vars

(* A thief that only peeks changes nothing the gauges depend on.           *)
LEMMA PeekStep ==
  ASSUME RunnableInv, NEW k \in Thieves, NEW t \in Tasks, Peek(k, t), TypeOK'
  PROVE  RunnableInv'
<1>1. op'[k].pc = "peeked" /\ \A a \in Actors \ {k} : op'[a] = op[a]
  BY DEF Peek, SetCall, RunnableInv, TypeOK, Actors
<1>2. \A u \in Tasks : op'[u] = op[u]
  BY <1>1, RunnableAssumption DEF Actors
<1>3. \A h \in Thieves : op'[h].pc \in {"idle", "peeked"}
  BY <1>1 DEF Actors, RunnableInv
<1>4. UNCHANGED <<llcRun, queueRun, rec, life, race>>
  BY DEF Peek
<1>5. \A u \in Tasks : CallInv(u)'
  BY <1>2, <1>4 DEF RunnableInv, CallInv
<1> QED BY <1>3, <1>4, <1>5 DEF RunnableInv

(* Once a steal has gone astray it stays so.                               *)
LEMMA RaceStays ==
  ASSUME Next, race' = "none"
  PROVE  race = "none"
<1>1. CASE \E a \in Actors : CallStep(a)
  BY <1>1 DEF CallStep, EnterRead, CountLlc, CountQueue, LeaveLlc, JoinLlc,
              OwnLlc, LeaveQueue, JoinQueue, ExitRead, DropLlc, DropQueue
<1>2. CASE \E t \in Tasks : Callback(t)
  BY <1>2 DEF Callback, Enqueue, SyncHandoff, GlobalPark, RunUnowned, RunOwned,
              MoveOwn, StealPeeked, Quiescent, Call
<1>3. CASE \E k \in Thieves, t \in Tasks : Peek(k, t)
  BY <1>3 DEF Peek
<1>4. CASE \E k \in Thieves, m \in Tasks, l \in CpuLlcs : StealStale(k, m, l)
  BY <1>4 DEF StealStale
<1> QED BY <1>1, <1>2, <1>3, <1>4 DEF Next

(* Until then every step is one of the steps above: a thief's call starts  *)
(* only where race changes.                                                *)
LEMMA StepInv ==
  ASSUME RunnableInv, Next, race' = "none", TypeOK'
  PROVE  RunnableInv'
<1>1. CASE \E a \in Actors : CallStep(a)
  <2>1. PICK a \in Actors : CallStep(a)
    BY <1>1
  <2>2. a \notin Thieves
    BY <2>1 DEF RunnableInv, CallStep, EnterRead, CountLlc, CountQueue,
                LeaveLlc, JoinLlc, OwnLlc, LeaveQueue, JoinQueue, ExitRead,
                DropLlc, DropQueue
  <2>3. a \in Tasks
    BY <2>2 DEF Actors
  <2> QED BY <2>1, <2>3, EnterReadStep, CountLlcStep, CountQueueStep,
             LeaveLlcStep, JoinLlcStep, OwnLlcStep, LeaveQueueStep,
             JoinQueueStep, ExitReadStep, DropLlcStep, DropQueueStep
          DEF CallStep
<1>2. CASE \E t \in Tasks : Callback(t)
  BY <1>2, EnqueueStep, SyncHandoffStep, GlobalParkStep, RunUnownedStep,
     RunOwnedStep, MoveOwnStep, StealPeekedStep, QuiescentStep DEF Callback
<1>3. CASE \E k \in Thieves, t \in Tasks : Peek(k, t)
  BY <1>3, PeekStep
<1>4. CASE \E k \in Thieves, m \in Tasks, l \in CpuLlcs : StealStale(k, m, l)
  BY <1>4 DEF StealStale, RunnableInv
<1> QED BY <1>1, <1>2, <1>3, <1>4 DEF Next

-----------------------------------------------------------------------------
(* After a steal that adjusted a task it did not move.  Now a thief may    *)
(* work on a task as the task itself does, and a task may be counted while *)
(* it sleeps; but as long as nobody works on a task that another actor     *)
(* works on, the record and the one call in flight still say where the     *)
(* task is counted.                                                        *)

(* Actor a has a call about task t in flight.                              *)
Works(o, a, t) == o[a].task = t /\ o[a].pc \notin {"idle", "peeked"}

Lone(o) ==
  \A a, b \in Actors : \A t \in Tasks : Works(o, a, t) /\ Works(o, b, t) => a = b

(* Where a task is counted, by its record r and a call c about it.         *)
LlcPart(c, r) ==
  IF c.pc \in {"count_queue", "own_llc"} THEN c.llc
  ELSE IF c.pc \in {"join_llc", "drop_queue"} THEN NoLlc ELSE r.llc

QueuePart(c, r) == IF c.pc = "join_queue" THEN NoQueue ELSE r.qid

LlcOwed(o, r, t) ==
  IF \E a \in Actors : Works(o, a, t)
  THEN LlcPart(o[CHOOSE a \in Actors : Works(o, a, t)], r[t]) ELSE r[t].llc

QueueOwed(o, r, t) ==
  IF \E a \in Actors : Works(o, a, t)
  THEN QueuePart(o[CHOOSE a \in Actors : Works(o, a, t)], r[t]) ELSE r[t].qid

(* What a call has read still holds of the record.                         *)
PointInv(c, r) ==
  /\ c.pc \in {"count_llc", "count_queue"} => r.llc = NoLlc /\ c.llc # NoLlc
  /\ c.pc \in {"leave_llc", "join_llc", "own_llc"} => r.llc # NoLlc /\ c.llc # NoLlc
  /\ c.pc \in {"leave_llc", "drop_llc"} => c.old = r.llc
  /\ c.pc \in {"leave_queue", "join_queue", "drop_llc", "drop_queue"} => r.llc # NoLlc
  /\ c.pc = "leave_queue" => c.oldq = r.qid

Halves(r) == r.llc = NoLlc <=> r.qid = NoQueue

(* A gauge counts, of every key, the tasks that are mapped to it.          *)
Counts(g, C, K) == \A x \in K : g[x] = Cardinality({u \in Tasks : C[u] = x})

LlcMap(o, r) == [u \in Tasks |-> LlcOwed(o, r, u)]
QueueMap(o, r) == [u \in Tasks |-> QueueOwed(o, r, u)]

Actives ==
  /\ Lone(op)
  /\ \A t \in Tasks : op[t].task = t /\ op[t].pc # "peeked"
  /\ race = "none" => \A k \in Thieves : op[k].pc \in {"idle", "peeked"}

Points ==
  /\ \A t \in Tasks : Halves(rec[t])
  /\ \A a \in Actors : \A t \in Tasks : Works(op, a, t) => PointInv(op[a], rec[t])

Healing ==
  /\ Actives /\ Points
  /\ Counts(llcRun, LlcMap(op, rec), Llcs)
  /\ Counts(queueRun, QueueMap(op, rec), Queues)

HealInv == race # "overlap" => Healing

-----------------------------------------------------------------------------
(* The credits.                                                            *)

LEMMA OwedBy ==
  ASSUME NEW o, NEW r, NEW a \in Actors, NEW t \in Tasks, Lone(o), Works(o, a, t)
  PROVE  LlcOwed(o, r, t) = LlcPart(o[a], r[t]) /\ QueueOwed(o, r, t) = QueuePart(o[a], r[t])
<1>1. (CHOOSE b \in Actors : Works(o, b, t)) = a
  BY DEF Lone
<1> QED BY <1>1 DEF LlcOwed, QueueOwed

LEMMA OwedFree ==
  ASSUME NEW o, NEW r, NEW t \in Tasks, \A a \in Actors : ~Works(o, a, t)
  PROVE  LlcOwed(o, r, t) = r[t].llc /\ QueueOwed(o, r, t) = r[t].qid
BY DEF LlcOwed, QueueOwed

(* Where nothing changed about a task, neither did its credit.             *)
LEMMA OwedSame ==
  ASSUME NEW o, NEW r, NEW o2, NEW r2, NEW t \in Tasks, Lone(o), Lone(o2), r2[t] = r[t],
         \A a \in Actors : Works(o2, a, t) <=> Works(o, a, t),
         \A a \in Actors : Works(o, a, t) => o2[a] = o[a]
  PROVE  LlcOwed(o2, r2, t) = LlcOwed(o, r, t) /\ QueueOwed(o2, r2, t) = QueueOwed(o, r, t)
<1>1. CASE \E a \in Actors : Works(o, a, t)
  <2>1. PICK a \in Actors : Works(o, a, t) /\ Works(o2, a, t) /\ o2[a] = o[a]
    BY <1>1
  <2>2. LlcOwed(o, r, t) = LlcPart(o[a], r[t]) /\ QueueOwed(o, r, t) = QueuePart(o[a], r[t])
    BY <2>1, OwedBy
  <2>3. LlcOwed(o2, r2, t) = LlcPart(o2[a], r2[t]) /\ QueueOwed(o2, r2, t) = QueuePart(o2[a], r2[t])
    BY <2>1, OwedBy
  <2> QED BY <2>1, <2>2, <2>3
<1>2. CASE ~ \E a \in Actors : Works(o, a, t)
  <2>1. LlcOwed(o, r, t) = r[t].llc /\ QueueOwed(o, r, t) = r[t].qid
    BY <1>2, OwedFree
  <2>2. LlcOwed(o2, r2, t) = r2[t].llc /\ QueueOwed(o2, r2, t) = r2[t].qid
    BY <1>2, OwedFree
  <2> QED BY <2>1, <2>2
<1> QED BY <1>1, <1>2

(* The credit of one task goes from x to y, and its gauge with it.         *)
Moves(g, h, x, y, K) ==
  \/ h = g /\ x = y
  \/ x \notin K /\ y \in K /\ h = [g EXCEPT ![y] = @ + 1]
  \/ x \in K /\ y \notin K /\ h = [g EXCEPT ![x] = @ + (-1)]

(* How many tasks a credit function maps to x, when one task changes.      *)
LEMMA CountSame ==
  ASSUME NEW C, NEW D, NEW t \in Tasks, NEW x,
         \A u \in Tasks \ {t} : C[u] = D[u], C[t] = x <=> D[t] = x
  PROVE  {u \in Tasks : D[u] = x} = {u \in Tasks : C[u] = x}
OBVIOUS

(* A gauge that moves with the credit of one task stays a count.           *)
LEMMA CountsStep ==
  ASSUME NEW K, NEW g \in [K -> Int], NEW h, NEW C, NEW D, NEW t \in Tasks,
         Counts(g, C, K), \A u \in Tasks \ {t} : D[u] = C[u], Moves(g, h, C[t], D[t], K)
  PROVE  Counts(h, D, K)
<1> SUFFICES ASSUME NEW x \in K
             PROVE  h[x] = Cardinality({u \in Tasks : D[u] = x})
  BY DEF Counts
<1>1. g[x] = Cardinality({u \in Tasks : C[u] = x}) /\ g[x] \in Int
  BY DEF Counts
<1>2. CASE h = g /\ C[t] = D[t]
  BY <1>1, <1>2, CountSame
<1>3. CASE C[t] \notin K /\ D[t] \in K /\ h = [g EXCEPT ![D[t]] = @ + 1]
  <2>1. CASE x = D[t]
    <3> DEFINE S == {u \in Tasks : C[u] = x}
    <3>1. {u \in Tasks : D[u] = x} = S \cup {t} /\ t \notin S
      BY <1>3, <2>1
    <3>2. IsFiniteSet(S)
      BY FS_Subset, RunnableAssumption
    <3>3. Cardinality(S \cup {t}) = Cardinality(S) + 1
      <4> HIDE DEF S
      <4> QED BY <3>1, <3>2, FS_AddElement
    <3>4. h[x] = g[x] + 1
      BY <1>1, <1>3, <2>1
    <3> QED BY <1>1, <3>1, <3>3, <3>4
  <2>2. CASE x # D[t]
    <3>1. h[x] = g[x]
      BY <1>3, <2>2
    <3> QED BY <1>1, <1>3, <2>2, <3>1, CountSame
  <2> QED BY <2>1, <2>2
<1>4. CASE C[t] \in K /\ D[t] \notin K /\ h = [g EXCEPT ![C[t]] = @ + (-1)]
  <2>1. CASE x = C[t]
    <3> DEFINE S == {u \in Tasks : D[u] = x}
    <3>1. {u \in Tasks : C[u] = x} = S \cup {t} /\ t \notin S
      BY <1>4, <2>1
    <3>2. IsFiniteSet(S)
      BY FS_Subset, RunnableAssumption
    <3>3. Cardinality(S \cup {t}) = Cardinality(S) + 1 /\ Cardinality(S) \in Nat
      <4> HIDE DEF S
      <4> QED BY <3>1, <3>2, FS_AddElement, FS_CardinalityType
    <3>4. h[x] = g[x] + (-1)
      BY <1>1, <1>4, <2>1
    <3>5. g[x] = Cardinality(S) + 1
      BY <1>1, <3>1, <3>3
    <3> HIDE DEF S
    <3>6. h[x] = Cardinality(S)
      BY <3>3, <3>4, <3>5
    <3> QED BY <3>6 DEF S
  <2>2. CASE x # C[t]
    <3>1. h[x] = g[x]
      BY <1>4, <2>2
    <3> QED BY <1>1, <1>4, <2>2, <3>1, CountSame
  <2> QED BY <2>1, <2>2
<1> QED BY <1>2, <1>3, <1>4 DEF Moves

(* What one step of a call of actor a about task t must establish.         *)
LocalStep(a, t) ==
  /\ Works(op, a, t)
  /\ op'[a].task = t /\ op'[a].pc # "peeked"
  /\ \A b \in Actors \ {a} : op'[b] = op[b]
  /\ \A u \in Tasks \ {t} : rec'[u] = rec[u]
  /\ PointInv(op'[a], rec'[t]) /\ Halves(rec'[t])
  /\ Moves(llcRun, llcRun', LlcPart(op[a], rec[t]), LlcPart(op'[a], rec'[t]), Llcs)
  /\ Moves(queueRun, queueRun', QueuePart(op[a], rec[t]), QueuePart(op'[a], rec'[t]), Queues)
  /\ race' = race

LEMMA LocalKeeps ==
  ASSUME TypeOK, Healing, NEW a \in Actors, NEW t \in Tasks, LocalStep(a, t)
  PROVE  Healing'
<1>1. /\ Works(op, a, t) /\ op'[a].task = t /\ op'[a].pc # "peeked"
      /\ \A b \in Actors \ {a} : op'[b] = op[b]
      /\ \A u \in Tasks \ {t} : rec'[u] = rec[u]
      /\ race' = race
  BY DEF LocalStep
<1>2. \A b \in Actors : \A u \in Tasks : Works(op', b, u) => Works(op, b, u)
  BY <1>1 DEF Works
<1>3. Lone(op) /\ Lone(op')
  BY <1>2 DEF Healing, Actives, Lone
<1>4. Actives'
  <2>1. \A u \in Tasks : op'[u].task = u /\ op'[u].pc # "peeked"
    <3> SUFFICES ASSUME NEW u \in Tasks PROVE op'[u].task = u /\ op'[u].pc # "peeked"
      OBVIOUS
    <3>1. op[u].task = u /\ op[u].pc # "peeked" /\ u \in Actors
      BY DEF Healing, Actives, Actors
    <3> QED BY <1>1, <3>1 DEF Works
  <2>2. race = "none" => \A k \in Thieves : op'[k].pc \in {"idle", "peeked"}
    <3> SUFFICES ASSUME race = "none", NEW k \in Thieves
                 PROVE  op'[k].pc \in {"idle", "peeked"}
      OBVIOUS
    <3>1. op[k].pc \in {"idle", "peeked"} /\ k \in Actors
      BY DEF Healing, Actives, Actors
    <3> QED BY <1>1, <3>1 DEF Works
  <2> QED BY <1>1, <1>3, <2>1, <2>2 DEF Actives
<1>5. Points'
  <2>1. \A u \in Tasks : Halves(rec'[u])
    BY <1>1 DEF Healing, Points, LocalStep
  <2>2. ASSUME NEW b \in Actors, NEW u \in Tasks, Works(op', b, u)
        PROVE  PointInv(op'[b], rec'[u])
    <3>1. CASE b = a
      <4>1. u = t
        BY <1>1, <2>2, <3>1 DEF Works
      <4> QED BY <3>1, <4>1 DEF LocalStep
    <3>2. CASE b # a
      <4>1. Works(op, b, u) /\ op'[b] = op[b]
        BY <1>1, <1>2, <2>2, <3>2
      <4>2. u # t
        BY <1>1, <1>3, <3>2, <4>1 DEF Lone
      <4> QED BY <1>1, <4>1, <4>2 DEF Healing, Points
    <3> QED BY <3>1, <3>2
  <2> QED BY <2>1, <2>2 DEF Points
<1>6. /\ LlcOwed(op, rec, t) = LlcPart(op[a], rec[t])
      /\ QueueOwed(op, rec, t) = QueuePart(op[a], rec[t])
  <2>1. LlcOwed(op, rec, t) = LlcPart(op[a], rec[t])
    BY <1>1, <1>3, OwedBy
  <2>2. QueueOwed(op, rec, t) = QueuePart(op[a], rec[t])
    BY <1>1, <1>3, OwedBy
  <2> QED BY <2>1, <2>2
<1>7. /\ LlcOwed(op', rec', t) = LlcPart(op'[a], rec'[t])
      /\ QueueOwed(op', rec', t) = QueuePart(op'[a], rec'[t])
  <2>1. CASE op'[a].pc = "idle"
    <3>1. \A b \in Actors : ~Works(op', b, t)
      BY <1>1, <1>2, <1>3, <2>1 DEF Lone, Works
    <3>2. LlcOwed(op', rec', t) = rec'[t].llc /\ QueueOwed(op', rec', t) = rec'[t].qid
      BY <3>1, OwedFree
    <3>3. LlcPart(op'[a], rec'[t]) = rec'[t].llc /\ QueuePart(op'[a], rec'[t]) = rec'[t].qid
      BY <2>1 DEF LlcPart, QueuePart
    <3> QED BY <3>2, <3>3
  <2>2. CASE op'[a].pc # "idle"
    <3>1. Works(op', a, t)
      BY <1>1, <2>2 DEF Works
    <3> QED BY <1>3, <3>1, OwedBy
  <2> QED BY <2>1, <2>2
<1>8. ASSUME NEW u \in Tasks \ {t}
      PROVE  /\ LlcOwed(op', rec', u) = LlcOwed(op, rec, u)
             /\ QueueOwed(op', rec', u) = QueueOwed(op, rec, u)
  <2>1. \A b \in Actors : Works(op', b, u) <=> Works(op, b, u)
    BY <1>1 DEF Works
  <2>2. \A b \in Actors : Works(op, b, u) => op'[b] = op[b]
    BY <1>1 DEF Works
  <2>3. rec'[u] = rec[u] /\ u \in Tasks
    BY <1>1
  <2> QED BY <1>3, <2>1, <2>2, <2>3, OwedSame
<1>9. Counts(llcRun', LlcMap(op', rec'), Llcs)
  <2> DEFINE C == LlcMap(op, rec)  D == LlcMap(op', rec')
  <2>1. \A u \in Tasks : C[u] = LlcOwed(op, rec, u) /\ D[u] = LlcOwed(op', rec', u)
    BY DEF LlcMap
  <2>2. Counts(llcRun, C, Llcs) /\ llcRun \in [Llcs -> Int]
    BY DEF Healing, TypeOK
  <2> HIDE DEF C, D
  <2>3. Moves(llcRun, llcRun', C[t], D[t], Llcs)
    BY <1>6, <1>7, <2>1 DEF LocalStep
  <2>4. \A u \in Tasks \ {t} : D[u] = C[u]
    BY <1>8, <2>1
  <2>5. Counts(llcRun', D, Llcs)
    BY <2>2, <2>3, <2>4, CountsStep
  <2> QED BY <2>5 DEF D
<1>10. Counts(queueRun', QueueMap(op', rec'), Queues)
  <2> DEFINE C == QueueMap(op, rec)  D == QueueMap(op', rec')
  <2>1. \A u \in Tasks : C[u] = QueueOwed(op, rec, u) /\ D[u] = QueueOwed(op', rec', u)
    BY DEF QueueMap
  <2>2. Counts(queueRun, C, Queues) /\ queueRun \in [Queues -> Int]
    BY DEF Healing, TypeOK
  <2> HIDE DEF C, D
  <2>3. Moves(queueRun, queueRun', C[t], D[t], Queues)
    BY <1>6, <1>7, <2>1 DEF LocalStep
  <2>4. \A u \in Tasks \ {t} : D[u] = C[u]
    BY <1>8, <2>1
  <2>5. Counts(queueRun', D, Queues)
    BY <2>2, <2>3, <2>4, CountsStep
  <2> QED BY <2>5 DEF D
<1> QED BY <1>4, <1>5, <1>9, <1>10 DEF Healing

-----------------------------------------------------------------------------
(* Every step of a call is local, whoever makes it.                        *)

(* The call of a after a step: its point and its arguments.                *)
Moved(a, pc2) ==
  /\ op'[a].pc = pc2 /\ op'[a].task = op[a].task
  /\ op'[a].llc = op[a].llc /\ op'[a].qid = op[a].qid
  /\ \A b \in Actors \ {a} : op'[b] = op[b]

LEMMA GotoMoves ==
  ASSUME TypeOK, NEW a \in Actors, NEW pc2, Goto(a, pc2)
  PROVE  Moved(a, pc2)
<1> DEFINE r == [op[a] EXCEPT !.pc = pc2, !.old = NoLlc, !.oldq = NoQueue]
<1>1. op[a] \in Op /\ op \in [Actors -> Op]
  BY DEF TypeOK
<1>2. r.pc = pc2 /\ r.task = op[a].task /\ r.llc = op[a].llc /\ r.qid = op[a].qid
  BY <1>1 DEF Op
<1>3. op' = [op EXCEPT ![a] = r]
  BY <1>1 DEF Goto
<1> HIDE DEF r
<1> QED BY <1>1, <1>2, <1>3 DEF Moved

LEMMA ReadMoves ==
  ASSUME TypeOK, NEW a \in Actors, NEW pc2, NEW o
  PROVE  /\ op' = [op EXCEPT ![a].pc = pc2, ![a].old = o] =>
              Moved(a, pc2) /\ op'[a].old = o
         /\ op' = [op EXCEPT ![a].pc = pc2, ![a].oldq = o] =>
              Moved(a, pc2) /\ op'[a].oldq = o
<1>1. op[a] \in Op /\ op \in [Actors -> Op]
  BY DEF TypeOK
<1>2. ASSUME op' = [op EXCEPT ![a].pc = pc2, ![a].old = o]
      PROVE  Moved(a, pc2) /\ op'[a].old = o
  <2> DEFINE r == [op[a] EXCEPT !.pc = pc2, !.old = o]
  <2>1. /\ r.pc = pc2 /\ r.old = o /\ r.task = op[a].task
        /\ r.llc = op[a].llc /\ r.qid = op[a].qid
    BY <1>1 DEF Op
  <2>2. op' = [op EXCEPT ![a] = r]
    BY <1>1, <1>2
  <2> HIDE DEF r
  <2> QED BY <1>1, <2>1, <2>2 DEF Moved
<1>3. ASSUME op' = [op EXCEPT ![a].pc = pc2, ![a].oldq = o]
      PROVE  Moved(a, pc2) /\ op'[a].oldq = o
  <2> DEFINE r == [op[a] EXCEPT !.pc = pc2, !.oldq = o]
  <2>1. /\ r.pc = pc2 /\ r.oldq = o /\ r.task = op[a].task
        /\ r.llc = op[a].llc /\ r.qid = op[a].qid
    BY <1>1 DEF Op
  <2>2. op' = [op EXCEPT ![a] = r]
    BY <1>1, <1>3
  <2> HIDE DEF r
  <2> QED BY <1>1, <2>1, <2>2 DEF Moved
<1> QED BY <1>2, <1>3

(* The call of a about t before a step.                                    *)
LEMMA CallFacts ==
  ASSUME TypeOK, Healing, NEW a \in Actors, NEW t, t = op[a].task,
         op[a].pc \notin {"idle", "peeked"}
  PROVE  /\ t \in Tasks /\ Works(op, a, t) /\ PointInv(op[a], rec[t]) /\ Halves(rec[t])
         /\ rec \in [Tasks -> Record]
         /\ op[a].llc \in Llcs \cup {NoLlc} /\ op[a].qid \in Queues
         /\ rec[t].llc \in Llcs \cup {NoLlc} /\ rec[t].qid \in Queues \cup {NoQueue}
         /\ NoLlc \notin Llcs /\ NoQueue \notin Queues
<1>1. op[a] \in Op /\ rec \in [Tasks -> Record]
  BY DEF TypeOK, Record
<1>2. t \in Tasks /\ Works(op, a, t)
  BY <1>1 DEF Op, Works
<1>3. PointInv(op[a], rec[t]) /\ Halves(rec[t])
  BY <1>2 DEF Healing, Points
<1>4. NoLlc \notin Llcs /\ NoQueue \notin Queues
  BY RunnableAssumption DEF NoQueue
<1> QED BY <1>1, <1>2, <1>3, <1>4 DEF Op, Record

(* A step that leaves the record alone.                                    *)
LEMMA LocalSuffices ==
  ASSUME TypeOK, Healing, NEW a \in Actors, NEW t, t = op[a].task,
         op[a].pc \notin {"idle", "peeked"}, NEW pc2, pc2 # "peeked", Moved(a, pc2),
         rec' = rec, race' = race, PointInv(op'[a], rec[t]),
         Moves(llcRun, llcRun', LlcPart(op[a], rec[t]), LlcPart(op'[a], rec[t]), Llcs),
         Moves(queueRun, queueRun', QueuePart(op[a], rec[t]), QueuePart(op'[a], rec[t]),
               Queues)
  PROVE  t \in Tasks /\ LocalStep(a, t)
  BY CallFacts DEF LocalStep, Moved

LEMMA LocalEnterRead ==
  ASSUME TypeOK, Healing, NEW a \in Actors, EnterRead(a)
  PROVE  op[a].task \in Tasks /\ LocalStep(a, op[a].task)
<1> DEFINE t == op[a].task
<1>1. /\ op[a].pc = "enter" /\ rec' = rec /\ race' = race
      /\ llcRun' = llcRun /\ queueRun' = queueRun
  BY DEF EnterRead
<1>2. \/ Goto(a, "idle")
      \/ op[a].llc # NoLlc /\ rec[t].llc = NoLlc /\ Goto(a, "count_llc")
      \/ /\ op[a].llc # NoLlc /\ rec[t].llc # NoLlc
         /\ op' = [op EXCEPT ![a].pc = "leave_llc", ![a].old = rec[t].llc]
      \/ /\ op[a].llc # NoLlc /\ rec[t].llc = op[a].llc
         /\ op' = [op EXCEPT ![a].pc = "leave_queue", ![a].oldq = rec[t].qid]
  BY DEF EnterRead
<1>3. \E pc2 : /\ pc2 # "peeked" /\ Moved(a, pc2) /\ PointInv(op'[a], rec[t])
               /\ LlcPart(op'[a], rec[t]) = rec[t].llc
               /\ QueuePart(op'[a], rec[t]) = rec[t].qid
  <2>1. CASE Goto(a, "idle")
    <3>1. Moved(a, "idle")
      BY <2>1, GotoMoves
    <3> QED BY <3>1 DEF Moved, PointInv, LlcPart, QueuePart
  <2>2. CASE op[a].llc # NoLlc /\ rec[t].llc = NoLlc /\ Goto(a, "count_llc")
    <3>1. Moved(a, "count_llc")
      BY <2>2, GotoMoves
    <3> QED BY <2>2, <3>1 DEF Moved, PointInv, LlcPart, QueuePart
  <2>3. CASE /\ op[a].llc # NoLlc /\ rec[t].llc # NoLlc
             /\ op' = [op EXCEPT ![a].pc = "leave_llc", ![a].old = rec[t].llc]
    <3>1. Moved(a, "leave_llc") /\ op'[a].old = rec[t].llc
      BY <2>3, ReadMoves
    <3> QED BY <2>3, <3>1 DEF Moved, PointInv, LlcPart, QueuePart
  <2>4. CASE /\ op[a].llc # NoLlc /\ rec[t].llc = op[a].llc
             /\ op' = [op EXCEPT ![a].pc = "leave_queue", ![a].oldq = rec[t].qid]
    <3>1. Moved(a, "leave_queue") /\ op'[a].oldq = rec[t].qid
      BY <2>4, ReadMoves
    <3> QED BY <2>4, <3>1 DEF Moved, PointInv, LlcPart, QueuePart
  <2> QED BY <1>2, <2>1, <2>2, <2>3, <2>4
<1>4. LlcPart(op[a], rec[t]) = rec[t].llc /\ QueuePart(op[a], rec[t]) = rec[t].qid
  BY <1>1 DEF LlcPart, QueuePart
<1>5. /\ Moves(llcRun, llcRun', LlcPart(op[a], rec[t]), LlcPart(op'[a], rec[t]), Llcs)
      /\ Moves(queueRun, queueRun', QueuePart(op[a], rec[t]), QueuePart(op'[a], rec[t]), Queues)
  BY <1>1, <1>3, <1>4 DEF Moves
<1> QED BY <1>1, <1>3, <1>5, LocalSuffices

LEMMA LocalCountLlc ==
  ASSUME TypeOK, Healing, NEW a \in Actors, CountLlc(a)
  PROVE  op[a].task \in Tasks /\ LocalStep(a, op[a].task)
<1> DEFINE t == op[a].task
<1>1. /\ op[a].pc = "count_llc" /\ LlcAdd(op[a].llc, 1) /\ Goto(a, "count_queue")
      /\ rec' = rec /\ race' = race /\ queueRun' = queueRun
  BY DEF CountLlc
<1>2. Moved(a, "count_queue")
  BY <1>1, GotoMoves
<1>3. /\ PointInv(op[a], rec[t]) /\ op[a].llc \in Llcs \cup {NoLlc} /\ NoLlc \notin Llcs
  BY <1>1, CallFacts
<1>4. rec[t].llc = NoLlc /\ op[a].llc \in Llcs
  BY <1>1, <1>3 DEF PointInv
<1>5. PointInv(op'[a], rec[t])
  BY <1>2, <1>3, <1>4 DEF Moved, PointInv
<1>6. Moves(llcRun, llcRun', LlcPart(op[a], rec[t]), LlcPart(op'[a], rec[t]), Llcs)
  BY <1>1, <1>2, <1>3, <1>4 DEF Moves, LlcPart, Moved, LlcAdd
<1>7. Moves(queueRun, queueRun', QueuePart(op[a], rec[t]), QueuePart(op'[a], rec[t]), Queues)
  BY <1>1, <1>2 DEF Moves, QueuePart, Moved
<1> QED BY <1>1, <1>2, <1>5, <1>6, <1>7, LocalSuffices

LEMMA LocalCountQueue ==
  ASSUME TypeOK, Healing, NEW a \in Actors, CountQueue(a)
  PROVE  op[a].task \in Tasks /\ LocalStep(a, op[a].task)
<1> DEFINE t == op[a].task
<1>1. /\ op[a].pc = "count_queue" /\ QueueAdd(op[a].qid, 1) /\ Goto(a, "idle")
      /\ rec' = [rec EXCEPT ![t] = [llc |-> op[a].llc, qid |-> op[a].qid]]
      /\ race' = race /\ llcRun' = llcRun
  BY DEF CountQueue
<1>2. Moved(a, "idle")
  BY <1>1, GotoMoves
<1>3. /\ t \in Tasks /\ Works(op, a, t) /\ PointInv(op[a], rec[t]) /\ Halves(rec[t])
      /\ rec \in [Tasks -> Record]
      /\ op[a].llc \in Llcs \cup {NoLlc} /\ op[a].qid \in Queues
      /\ NoLlc \notin Llcs /\ NoQueue \notin Queues
  BY <1>1, CallFacts
<1>4. rec[t].llc = NoLlc /\ rec[t].qid = NoQueue /\ op[a].llc \in Llcs
  BY <1>1, <1>3 DEF PointInv, Halves
<1>5. /\ rec'[t].llc = op[a].llc /\ rec'[t].qid = op[a].qid
      /\ \A u \in Tasks \ {t} : rec'[u] = rec[u]
  BY <1>1, <1>3
<1>6. PointInv(op'[a], rec'[t]) /\ Halves(rec'[t])
  BY <1>2, <1>3, <1>4, <1>5 DEF Moved, PointInv, Halves
<1>7. Moves(llcRun, llcRun', LlcPart(op[a], rec[t]), LlcPart(op'[a], rec'[t]), Llcs)
  BY <1>1, <1>2, <1>5 DEF Moves, LlcPart, Moved
<1>8. Moves(queueRun, queueRun', QueuePart(op[a], rec[t]), QueuePart(op'[a], rec'[t]), Queues)
  BY <1>1, <1>2, <1>3, <1>4, <1>5 DEF Moves, QueuePart, Moved, QueueAdd
<1> QED BY <1>1, <1>2, <1>3, <1>5, <1>6, <1>7, <1>8 DEF LocalStep, Moved

LEMMA LocalLeaveLlc ==
  ASSUME TypeOK, Healing, NEW a \in Actors, LeaveLlc(a)
  PROVE  op[a].task \in Tasks /\ LocalStep(a, op[a].task)
<1> DEFINE t == op[a].task
<1>1. /\ op[a].pc = "leave_llc" /\ LlcAdd(op[a].old, -1) /\ Goto(a, "join_llc")
      /\ rec' = rec /\ race' = race /\ queueRun' = queueRun
  BY DEF LeaveLlc
<1>2. Moved(a, "join_llc")
  BY <1>1, GotoMoves
<1>3. PointInv(op[a], rec[t]) /\ rec[t].llc \in Llcs \cup {NoLlc} /\ NoLlc \notin Llcs
  BY <1>1, CallFacts
<1>4. op[a].old = rec[t].llc /\ rec[t].llc \in Llcs /\ op[a].llc # NoLlc
  BY <1>1, <1>3 DEF PointInv
<1>5. PointInv(op'[a], rec[t])
  BY <1>2, <1>3, <1>4 DEF Moved, PointInv
<1>6. Moves(llcRun, llcRun', LlcPart(op[a], rec[t]), LlcPart(op'[a], rec[t]), Llcs)
  BY <1>1, <1>2, <1>3, <1>4 DEF Moves, LlcPart, Moved, LlcAdd
<1>7. Moves(queueRun, queueRun', QueuePart(op[a], rec[t]), QueuePart(op'[a], rec[t]), Queues)
  BY <1>1, <1>2 DEF Moves, QueuePart, Moved
<1> QED BY <1>1, <1>2, <1>5, <1>6, <1>7, LocalSuffices

LEMMA LocalJoinLlc ==
  ASSUME TypeOK, Healing, NEW a \in Actors, JoinLlc(a)
  PROVE  op[a].task \in Tasks /\ LocalStep(a, op[a].task)
<1> DEFINE t == op[a].task
<1>1. /\ op[a].pc = "join_llc" /\ LlcAdd(op[a].llc, 1) /\ Goto(a, "own_llc")
      /\ rec' = rec /\ race' = race /\ queueRun' = queueRun
  BY DEF JoinLlc
<1>2. Moved(a, "own_llc")
  BY <1>1, GotoMoves
<1>3. PointInv(op[a], rec[t]) /\ op[a].llc \in Llcs \cup {NoLlc} /\ NoLlc \notin Llcs
  BY <1>1, CallFacts
<1>4. rec[t].llc # NoLlc /\ op[a].llc \in Llcs
  BY <1>1, <1>3 DEF PointInv
<1>5. PointInv(op'[a], rec[t])
  BY <1>2, <1>3, <1>4 DEF Moved, PointInv
<1>6. Moves(llcRun, llcRun', LlcPart(op[a], rec[t]), LlcPart(op'[a], rec[t]), Llcs)
  BY <1>1, <1>2, <1>3, <1>4 DEF Moves, LlcPart, Moved, LlcAdd
<1>7. Moves(queueRun, queueRun', QueuePart(op[a], rec[t]), QueuePart(op'[a], rec[t]), Queues)
  BY <1>1, <1>2 DEF Moves, QueuePart, Moved
<1> QED BY <1>1, <1>2, <1>5, <1>6, <1>7, LocalSuffices

LEMMA LocalOwnLlc ==
  ASSUME TypeOK, Healing, NEW a \in Actors, OwnLlc(a)
  PROVE  op[a].task \in Tasks /\ LocalStep(a, op[a].task)
<1> DEFINE t == op[a].task
<1>1. /\ op[a].pc = "own_llc" /\ rec' = [rec EXCEPT ![t].llc = op[a].llc]
      /\ race' = race /\ llcRun' = llcRun /\ queueRun' = queueRun
      /\ \/ Goto(a, "idle")
         \/ op' = [op EXCEPT ![a].pc = "leave_queue", ![a].oldq = rec[t].qid]
  BY DEF OwnLlc
<1>2. /\ t \in Tasks /\ Works(op, a, t) /\ PointInv(op[a], rec[t]) /\ Halves(rec[t])
      /\ rec \in [Tasks -> Record]
      /\ op[a].llc \in Llcs \cup {NoLlc} /\ NoLlc \notin Llcs
  BY <1>1, CallFacts
<1>3. rec[t].llc # NoLlc /\ rec[t].qid # NoQueue /\ op[a].llc # NoLlc
  BY <1>1, <1>2 DEF PointInv, Halves
<1>4. /\ rec'[t].llc = op[a].llc /\ rec'[t].qid = rec[t].qid
      /\ \A u \in Tasks \ {t} : rec'[u] = rec[u]
  BY <1>1, <1>2 DEF Record
<1>5. \/ Moved(a, "idle")
      \/ Moved(a, "leave_queue") /\ op'[a].oldq = rec[t].qid
  BY <1>1, GotoMoves, ReadMoves
<1>6. PointInv(op'[a], rec'[t]) /\ Halves(rec'[t])
  BY <1>3, <1>4, <1>5 DEF Moved, PointInv, Halves
<1>7. Moves(llcRun, llcRun', LlcPart(op[a], rec[t]), LlcPart(op'[a], rec'[t]), Llcs)
  BY <1>1, <1>4, <1>5 DEF Moves, LlcPart, Moved
<1>8. Moves(queueRun, queueRun', QueuePart(op[a], rec[t]), QueuePart(op'[a], rec'[t]), Queues)
  BY <1>1, <1>4, <1>5 DEF Moves, QueuePart, Moved
<1> QED BY <1>1, <1>2, <1>4, <1>5, <1>6, <1>7, <1>8 DEF LocalStep, Moved

LEMMA LocalLeaveQueue ==
  ASSUME TypeOK, Healing, NEW a \in Actors, LeaveQueue(a)
  PROVE  op[a].task \in Tasks /\ LocalStep(a, op[a].task)
<1> DEFINE t == op[a].task
<1>1. /\ op[a].pc = "leave_queue" /\ QueueAdd(op[a].oldq, -1) /\ Goto(a, "join_queue")
      /\ rec' = rec /\ race' = race /\ llcRun' = llcRun
  BY DEF LeaveQueue
<1>2. Moved(a, "join_queue")
  BY <1>1, GotoMoves
<1>3. /\ PointInv(op[a], rec[t]) /\ Halves(rec[t])
      /\ rec[t].qid \in Queues \cup {NoQueue} /\ NoQueue \notin Queues
  BY <1>1, CallFacts
<1>4. op[a].oldq = rec[t].qid /\ rec[t].llc # NoLlc /\ rec[t].qid \in Queues
  BY <1>1, <1>3 DEF PointInv, Halves
<1>5. PointInv(op'[a], rec[t])
  BY <1>2, <1>4 DEF Moved, PointInv
<1>6. Moves(llcRun, llcRun', LlcPart(op[a], rec[t]), LlcPart(op'[a], rec[t]), Llcs)
  BY <1>1, <1>2 DEF Moves, LlcPart, Moved
<1>7. Moves(queueRun, queueRun', QueuePart(op[a], rec[t]), QueuePart(op'[a], rec[t]), Queues)
  BY <1>1, <1>2, <1>3, <1>4 DEF Moves, QueuePart, Moved, QueueAdd
<1> QED BY <1>1, <1>2, <1>5, <1>6, <1>7, LocalSuffices

LEMMA LocalJoinQueue ==
  ASSUME TypeOK, Healing, NEW a \in Actors, JoinQueue(a)
  PROVE  op[a].task \in Tasks /\ LocalStep(a, op[a].task)
<1> DEFINE t == op[a].task
<1>1. /\ op[a].pc = "join_queue" /\ QueueAdd(op[a].qid, 1) /\ Goto(a, "idle")
      /\ rec' = [rec EXCEPT ![t].qid = op[a].qid]
      /\ race' = race /\ llcRun' = llcRun
  BY DEF JoinQueue
<1>2. Moved(a, "idle")
  BY <1>1, GotoMoves
<1>3. /\ t \in Tasks /\ Works(op, a, t) /\ PointInv(op[a], rec[t])
      /\ rec \in [Tasks -> Record]
      /\ op[a].qid \in Queues /\ NoQueue \notin Queues
  BY <1>1, CallFacts
<1>4. rec[t].llc # NoLlc
  BY <1>1, <1>3 DEF PointInv
<1>5. /\ rec'[t].llc = rec[t].llc /\ rec'[t].qid = op[a].qid
      /\ \A u \in Tasks \ {t} : rec'[u] = rec[u]
  BY <1>1, <1>3 DEF Record
<1>6. PointInv(op'[a], rec'[t]) /\ Halves(rec'[t])
  BY <1>2, <1>3, <1>4, <1>5 DEF Moved, PointInv, Halves
<1>7. Moves(llcRun, llcRun', LlcPart(op[a], rec[t]), LlcPart(op'[a], rec'[t]), Llcs)
  BY <1>1, <1>2, <1>5 DEF Moves, LlcPart, Moved
<1>8. Moves(queueRun, queueRun', QueuePart(op[a], rec[t]), QueuePart(op'[a], rec'[t]), Queues)
  BY <1>1, <1>2, <1>3, <1>5 DEF Moves, QueuePart, Moved, QueueAdd
<1> QED BY <1>1, <1>2, <1>3, <1>5, <1>6, <1>7, <1>8 DEF LocalStep, Moved

LEMMA LocalExitRead ==
  ASSUME TypeOK, Healing, NEW a \in Actors, ExitRead(a)
  PROVE  op[a].task \in Tasks /\ LocalStep(a, op[a].task)
<1> DEFINE t == op[a].task
<1>1. /\ op[a].pc = "exit" /\ rec' = rec /\ race' = race
      /\ llcRun' = llcRun /\ queueRun' = queueRun
      /\ \/ Goto(a, "idle")
         \/ /\ rec[t].llc # NoLlc
            /\ op' = [op EXCEPT ![a].pc = "drop_llc", ![a].old = rec[t].llc]
  BY DEF ExitRead
<1>2. \/ Moved(a, "idle")
      \/ rec[t].llc # NoLlc /\ Moved(a, "drop_llc") /\ op'[a].old = rec[t].llc
  BY <1>1, GotoMoves, ReadMoves
<1>3. PointInv(op'[a], rec[t])
  BY <1>2 DEF Moved, PointInv
<1>4. Moves(llcRun, llcRun', LlcPart(op[a], rec[t]), LlcPart(op'[a], rec[t]), Llcs)
  BY <1>1, <1>2 DEF Moves, LlcPart, Moved
<1>5. Moves(queueRun, queueRun', QueuePart(op[a], rec[t]), QueuePart(op'[a], rec[t]), Queues)
  BY <1>1, <1>2 DEF Moves, QueuePart, Moved
<1> QED BY <1>1, <1>2, <1>3, <1>4, <1>5, LocalSuffices

LEMMA LocalDropLlc ==
  ASSUME TypeOK, Healing, NEW a \in Actors, DropLlc(a)
  PROVE  op[a].task \in Tasks /\ LocalStep(a, op[a].task)
<1> DEFINE t == op[a].task
<1>1. /\ op[a].pc = "drop_llc" /\ LlcAdd(op[a].old, -1) /\ Goto(a, "drop_queue")
      /\ rec' = rec /\ race' = race /\ queueRun' = queueRun
  BY DEF DropLlc
<1>2. Moved(a, "drop_queue")
  BY <1>1, GotoMoves
<1>3. PointInv(op[a], rec[t]) /\ rec[t].llc \in Llcs \cup {NoLlc} /\ NoLlc \notin Llcs
  BY <1>1, CallFacts
<1>4. op[a].old = rec[t].llc /\ rec[t].llc \in Llcs
  BY <1>1, <1>3 DEF PointInv
<1>5. PointInv(op'[a], rec[t])
  BY <1>2, <1>3, <1>4 DEF Moved, PointInv
<1>6. Moves(llcRun, llcRun', LlcPart(op[a], rec[t]), LlcPart(op'[a], rec[t]), Llcs)
  BY <1>1, <1>2, <1>3, <1>4 DEF Moves, LlcPart, Moved, LlcAdd
<1>7. Moves(queueRun, queueRun', QueuePart(op[a], rec[t]), QueuePart(op'[a], rec[t]), Queues)
  BY <1>1, <1>2 DEF Moves, QueuePart, Moved
<1> QED BY <1>1, <1>2, <1>5, <1>6, <1>7, LocalSuffices

LEMMA LocalDropQueue ==
  ASSUME TypeOK, Healing, NEW a \in Actors, DropQueue(a)
  PROVE  op[a].task \in Tasks /\ LocalStep(a, op[a].task)
<1> DEFINE t == op[a].task
<1>1. /\ op[a].pc = "drop_queue" /\ QueueAdd(rec[t].qid, -1) /\ Goto(a, "idle")
      /\ rec' = [rec EXCEPT ![t] = Unowned]
      /\ race' = race /\ llcRun' = llcRun
  BY DEF DropQueue
<1>2. Moved(a, "idle")
  BY <1>1, GotoMoves
<1>3. /\ t \in Tasks /\ Works(op, a, t) /\ PointInv(op[a], rec[t]) /\ Halves(rec[t])
      /\ rec \in [Tasks -> Record]
      /\ rec[t].qid \in Queues \cup {NoQueue} /\ NoQueue \notin Queues
  BY <1>1, CallFacts
<1>4. rec[t].qid \in Queues
  BY <1>1, <1>3 DEF PointInv, Halves
<1>5. /\ rec'[t].llc = NoLlc /\ rec'[t].qid = NoQueue
      /\ \A u \in Tasks \ {t} : rec'[u] = rec[u]
  BY <1>1, <1>3 DEF Unowned
<1>6. PointInv(op'[a], rec'[t]) /\ Halves(rec'[t])
  BY <1>2, <1>5 DEF Moved, PointInv, Halves
<1>7. Moves(llcRun, llcRun', LlcPart(op[a], rec[t]), LlcPart(op'[a], rec'[t]), Llcs)
  BY <1>1, <1>2, <1>5 DEF Moves, LlcPart, Moved
<1>8. Moves(queueRun, queueRun', QueuePart(op[a], rec[t]), QueuePart(op'[a], rec'[t]), Queues)
  BY <1>1, <1>2, <1>3, <1>4, <1>5 DEF Moves, QueuePart, Moved, QueueAdd
<1> QED BY <1>1, <1>2, <1>3, <1>5, <1>6, <1>7, <1>8 DEF LocalStep, Moved

-----------------------------------------------------------------------------
(* A call begins, or a thief peeks: nobody else works on the task.         *)
LEMMA BeginKeeps ==
  ASSUME TypeOK, Healing, NEW a \in Actors, NEW pc2, pc2 \in {"peeked", "enter", "exit"},
         NEW t \in Tasks, NEW q, NEW l, NEW then, SetCall(a, pc2, t, q, l, then),
         op[a].pc \in {"idle", "peeked"},
         pc2 # "peeked" => ~Busy(t),
         IF a \in Tasks THEN a = t /\ pc2 # "peeked" ELSE race' = "none" => pc2 = "peeked",
         race' = "none" => race = "none",
         UNCHANGED <<llcRun, queueRun, rec>>
  PROVE  Healing'
<1>1. /\ op'[a].pc = pc2 /\ op'[a].task = t
      /\ \A b \in Actors \ {a} : op'[b] = op[b]
  BY DEF SetCall, TypeOK
<1>2. \A b \in Actors \ {a} : \A u \in Tasks : Works(op', b, u) <=> Works(op, b, u)
  BY <1>1 DEF Works
<1>3. \A u \in Tasks : ~Works(op, a, u)
  BY DEF Works
<1>4. \A u \in Tasks : Works(op', a, u) => u = t /\ \A b \in Actors : ~Works(op, b, u)
  BY <1>1 DEF Works, Busy
<1>5. Lone(op) /\ Lone(op')
  BY <1>2, <1>4 DEF Healing, Actives, Lone
<1>6. \A k \in Thieves : k \notin Tasks
  BY RunnableAssumption
<1>7. Actives'
  <2>1. ASSUME NEW u \in Tasks PROVE op'[u].task = u /\ op'[u].pc # "peeked"
    <3>1. op[u].task = u /\ op[u].pc # "peeked" /\ u \in Actors
      BY DEF Healing, Actives, Actors
    <3> QED BY <1>1, <3>1
  <2>2. ASSUME race' = "none", NEW k \in Thieves
        PROVE  op'[k].pc \in {"idle", "peeked"}
    <3>1. op[k].pc \in {"idle", "peeked"} /\ k \in Actors
      BY <2>2 DEF Healing, Actives, Actors
    <3> QED BY <1>1, <1>6, <2>2, <3>1
  <2> QED BY <1>5, <2>1, <2>2 DEF Actives
<1>8. Points'
  <2>1. ASSUME NEW b \in Actors, NEW u \in Tasks, Works(op', b, u)
        PROVE  PointInv(op'[b], rec'[u])
    <3>1. CASE b = a
      BY <1>1, <3>1 DEF PointInv
    <3>2. CASE b # a
      BY <1>1, <1>2, <2>1, <3>2 DEF Healing, Points
    <3> QED BY <3>1, <3>2
  <2>2. \A u \in Tasks : Halves(rec'[u])
    BY DEF Healing, Points
  <2> QED BY <2>1, <2>2 DEF Points
<1>9. ASSUME NEW u \in Tasks
      PROVE  /\ LlcOwed(op', rec', u) = LlcOwed(op, rec, u)
             /\ QueueOwed(op', rec', u) = QueueOwed(op, rec, u)
  <2>1. CASE Works(op', a, u)
    <3>1. \A b \in Actors : ~Works(op, b, u)
      BY <1>4, <2>1
    <3>2. LlcOwed(op, rec, u) = rec[u].llc /\ QueueOwed(op, rec, u) = rec[u].qid
      BY <3>1, OwedFree
    <3>3. LlcOwed(op', rec', u) = LlcPart(op'[a], rec'[u])
      BY <1>5, <2>1, OwedBy
    <3>4. QueueOwed(op', rec', u) = QueuePart(op'[a], rec'[u])
      BY <1>5, <2>1, OwedBy
    <3>5. LlcPart(op'[a], rec'[u]) = rec'[u].llc /\ QueuePart(op'[a], rec'[u]) = rec'[u].qid
      BY <1>1 DEF LlcPart, QueuePart
    <3> QED BY <3>2, <3>3, <3>4, <3>5
  <2>2. CASE ~Works(op', a, u)
    <3>1. \A b \in Actors : Works(op', b, u) <=> Works(op, b, u)
      BY <1>2, <1>3, <2>2
    <3>2. \A b \in Actors : Works(op, b, u) => op'[b] = op[b]
      BY <1>1, <1>3
    <3>3. rec'[u] = rec[u]
      OBVIOUS
    <3> QED BY <1>5, <3>1, <3>2, <3>3, OwedSame
  <2> QED BY <2>1, <2>2
<1>10. LlcMap(op', rec') = LlcMap(op, rec) /\ QueueMap(op', rec') = QueueMap(op, rec)
  BY <1>9 DEF LlcMap, QueueMap
<1>11. Counts(llcRun', LlcMap(op', rec'), Llcs) /\ Counts(queueRun', QueueMap(op', rec'), Queues)
  BY <1>10 DEF Healing
<1> QED BY <1>7, <1>8, <1>11 DEF Healing

(* What only moves a task between DSQs and CPUs, or changes race alone.    *)
LEMMA RestKeeps ==
  ASSUME Healing, UNCHANGED <<llcRun, queueRun, rec, op>>, race' = "none" => race = "none"
  PROVE  Healing'
<1>1. Actives' /\ Points'
  BY DEF Healing, Actives, Points
<1>2. Counts(llcRun', LlcMap(op', rec'), Llcs) /\ Counts(queueRun', QueueMap(op', rec'), Queues)
  BY DEF Healing
<1> QED BY <1>1, <1>2 DEF Healing

(* A callback of a task makes its call when nobody works on the task, or   *)
(* the two overlap.                                                        *)
LEMMA CallKeeps ==
  ASSUME TypeOK, HealInv, race' # "overlap", NEW t \in Tasks, NEW pc2 \in {"enter", "exit"},
         NEW q, NEW l, NEW then, Idle(t), Call(t, pc2, q, l, then),
         UNCHANGED <<llcRun, queueRun, rec>>
  PROVE  Healing'
<1>1. race # "overlap" /\ SetCall(t, pc2, t, q, l, then) /\ race' = race
  BY DEF Call
<1>2. Healing
  BY <1>1 DEF HealInv
<1>3. ~Busy(t)
  <2>1. CASE race # "none"
    BY <2>1 DEF Call
  <2>2. CASE race = "none"
    <3>1. ASSUME NEW a \in Actors, op[a].task = t, op[a].pc \notin {"idle", "peeked"}
          PROVE  FALSE
      <4>1. a \in Tasks
        BY <1>2, <2>2, <3>1 DEF Healing, Actives, Actors
      <4> QED BY <1>2, <3>1, <4>1 DEF Healing, Actives, Idle
    <3> QED BY <3>1 DEF Busy
  <2> QED BY <2>1, <2>2
<1>4. t \in Actors /\ op[t].pc = "idle" /\ pc2 # "peeked"
  BY DEF Actors, Idle
<1> QED BY <1>1, <1>2, <1>3, <1>4, BeginKeeps

LEMMA CallbackHeals ==
  ASSUME TypeOK, HealInv, race' # "overlap", NEW t \in Tasks, Callback(t)
  PROVE  Healing'
<1>1. ASSUME UNCHANGED <<llcRun, queueRun, rec, op, race>> PROVE Healing'
  BY <1>1, RestKeeps DEF HealInv
<1>2. ASSUME NEW q \in Queues, NEW l \in CpuLlcs, NEW dsq \in {"queued", "local"},
             Enqueue(t, q, l, dsq)
      PROVE  Healing'
  BY <1>2, CallKeeps DEF Enqueue
<1>3. ASSUME NEW q \in Queues, NEW l \in CpuLlcs, RunUnowned(t, q, l) PROVE Healing'
  BY <1>3, CallKeeps DEF RunUnowned
<1>4. ASSUME NEW l \in CpuLlcs, StealPeeked(t, l) PROVE Healing'
  BY <1>4, CallKeeps DEF StealPeeked
<1>5. ASSUME NEW q \in Queues, GlobalPark(t, q) PROVE Healing'
  BY <1>5, CallKeeps DEF GlobalPark
<1>6. ASSUME Quiescent(t) PROVE Healing'
  BY <1>6, CallKeeps DEF Quiescent
<1>7. ASSUME SyncHandoff(t) \/ RunOwned(t) \/ MoveOwn(t) PROVE Healing'
  BY <1>1, <1>7 DEF SyncHandoff, RunOwned, MoveOwn
<1> QED BY <1>2, <1>3, <1>4, <1>5, <1>6, <1>7 DEF Callback

LEMMA ThiefHeals ==
  ASSUME TypeOK, HealInv, race' # "overlap", NEW k \in Thieves
  PROVE  /\ \A t \in Tasks : Peek(k, t) => Healing'
         /\ \A m \in Tasks, l \in CpuLlcs : StealStale(k, m, l) => Healing'
<1>1. k \in Actors /\ k \notin Tasks
  BY RunnableAssumption DEF Actors
<1>2. ASSUME NEW t \in Tasks, Peek(k, t) PROVE Healing'
  <2>1. /\ SetCall(k, "peeked", t, op[t].qid, NoLlc, "local") /\ op[k].pc = "idle"
        /\ race' = race /\ UNCHANGED <<llcRun, queueRun, rec>>
    BY <1>2 DEF Peek, Idle
  <2>2. Healing
    BY <2>1 DEF HealInv
  <2> QED BY <1>1, <2>1, <2>2, BeginKeeps
<1>3. ASSUME NEW m \in Tasks, NEW l \in CpuLlcs, StealStale(k, m, l) PROVE Healing'
  <2>1. /\ SetCall(k, "enter", op[k].task, op[k].qid, l, "local") /\ op[k].pc = "peeked"
        /\ UNCHANGED <<llcRun, queueRun, rec>>
        /\ ~Busy(op[k].task) /\ race # "overlap" /\ race' # "none"
    BY <1>3 DEF StealStale
  <2>2. Healing
    BY <2>1 DEF HealInv
  <2>3. op[k].task \in Tasks
    BY <1>1 DEF TypeOK, Op
  <2> QED BY <1>1, <2>1, <2>2, <2>3, BeginKeeps
<1> QED BY <1>2, <1>3

LEMMA CallStepHeals ==
  ASSUME TypeOK, HealInv, race' # "overlap", NEW a \in Actors, CallStep(a)
  PROVE  Healing'
<1>1. race' = race
  BY DEF CallStep, EnterRead, CountLlc, CountQueue, LeaveLlc, JoinLlc, OwnLlc,
         LeaveQueue, JoinQueue, ExitRead, DropLlc, DropQueue
<1>2. Healing
  BY <1>1 DEF HealInv
<1>3. op[a].task \in Tasks /\ LocalStep(a, op[a].task)
  BY <1>2, LocalEnterRead, LocalCountLlc, LocalCountQueue, LocalLeaveLlc, LocalJoinLlc,
     LocalOwnLlc, LocalLeaveQueue, LocalJoinQueue, LocalExitRead, LocalDropLlc,
     LocalDropQueue DEF CallStep
<1> QED BY <1>2, <1>3, LocalKeeps

LEMMA HealBegins == Init => HealInv
<1> SUFFICES ASSUME Init PROVE Healing
  BY DEF HealInv
<1>1. \A a \in Actors : op[a].pc = "idle"
  BY DEF Init
<1>2. \A a \in Actors : \A t \in Tasks : ~Works(op, a, t)
  BY <1>1 DEF Works
<1>3. \A t \in Tasks : rec[t].llc = NoLlc /\ rec[t].qid = NoQueue
  BY DEF Init, Unowned
<1>4. Actives /\ Points
  BY <1>1, <1>2, <1>3 DEF Init, Actives, Points, Lone, Halves, Actors
<1>5. ASSUME NEW t \in Tasks PROVE LlcOwed(op, rec, t) = NoLlc /\ QueueOwed(op, rec, t) = NoQueue
  <2>1. \A a \in Actors : ~Works(op, a, t)
    BY <1>2
  <2>2. LlcOwed(op, rec, t) = rec[t].llc /\ QueueOwed(op, rec, t) = rec[t].qid
    BY <2>1, OwedFree
  <2> QED BY <1>3, <2>2
<1>6. Counts(llcRun, LlcMap(op, rec), Llcs)
  <2>1. \A l \in Llcs : {t \in Tasks : LlcMap(op, rec)[t] = l} = {}
    BY <1>5, RunnableAssumption DEF LlcMap
  <2>2. \A l \in Llcs : llcRun[l] = 0
    BY DEF Init
  <2> QED BY <2>1, <2>2, FS_EmptySet DEF Counts
<1>7. Counts(queueRun, QueueMap(op, rec), Queues)
  <2>1. \A q \in Queues : {t \in Tasks : QueueMap(op, rec)[t] = q} = {}
    BY <1>5, RunnableAssumption DEF QueueMap, NoQueue
  <2>2. \A q \in Queues : queueRun[q] = 0
    BY DEF Init
  <2> QED BY <2>1, <2>2, FS_EmptySet DEF Counts
<1> QED BY <1>4, <1>6, <1>7 DEF Healing

LEMMA HealStep == TypeOK /\ HealInv /\ [Next]_vars => HealInv'
<1> SUFFICES ASSUME TypeOK, HealInv, [Next]_vars, race' # "overlap" PROVE Healing'
  BY DEF HealInv
<1>1. CASE \E a \in Actors : CallStep(a)
  BY <1>1, CallStepHeals
<1>2. CASE \E t \in Tasks : Callback(t)
  BY <1>2, CallbackHeals
<1>3. CASE \/ \E k \in Thieves, t \in Tasks : Peek(k, t)
           \/ \E k \in Thieves, m \in Tasks, l \in CpuLlcs : StealStale(k, m, l)
  BY <1>3, ThiefHeals
<1>4. CASE UNCHANGED vars
  <2>1. UNCHANGED <<llcRun, queueRun, rec, op, race>>
    BY <1>4 DEF vars
  <2> QED BY <2>1, RestKeeps DEF HealInv
<1> QED BY <1>1, <1>2, <1>3, <1>4 DEF Next

-----------------------------------------------------------------------------
(* Types of the gauges, the records and the calls, in every interleaving.  *)
THEOREM TypeCorrect == Spec => []TypeOK
<1>1. Init => TypeOK
  BY InitInv DEF RunnableInv
<1> QED BY <1>1, TypeStep, PTL DEF Spec

(* As long as every steal adjusted the task it moved, the invariant holds. *)
LEMMA Invariance == Spec => [](race = "none" => RunnableInv)
<1>1. TypeOK /\ TypeOK' /\ (race = "none" => RunnableInv) /\ [Next]_vars
        => (race = "none" => RunnableInv)'
  <2> SUFFICES ASSUME TypeOK, TypeOK', race = "none" => RunnableInv,
                      [Next]_vars, race' = "none"
               PROVE  RunnableInv'
    OBVIOUS
  <2>1. CASE Next
    BY <2>1, RaceStays, StepInv
  <2>2. CASE UNCHANGED vars
    BY <2>2, StutterInv DEF vars
  <2> QED BY <2>1, <2>2
<1> QED BY InitInv, <1>1, TypeCorrect, PTL DEF Spec

LEMMA HealInvariance == Spec => []HealInv
  BY HealBegins, HealStep, TypeCorrect, PTL DEF Spec

(* The gauges of domains and of queues count exactly the tasks credited to *)
(* them, in every state of every interleaving of mlfq_runnable_enter and   *)
(* _exit, as long as every steal has adjusted the task it moved.           *)
THEOREM GaugesAreExact == Spec => []GaugesExact
<1>1. HealInv => GaugesExact
  <2> SUFFICES ASSUME HealInv, race = "none" PROVE LlcGaugeExact /\ QueueGaugeExact
    BY DEF GaugesExact, LlcGaugeExact, QueueGaugeExact
  <2>1. Actives /\ Counts(llcRun, LlcMap(op, rec), Llcs)
        /\ Counts(queueRun, QueueMap(op, rec), Queues)
    BY DEF HealInv, Healing
  <2>2. ASSUME NEW t \in Tasks
        PROVE  LlcOwed(op, rec, t) = LlcCredit(t) /\ QueueOwed(op, rec, t) = QueueCredit(t)
    <3>1. \A a \in Actors : Works(op, a, t) => a = t
      BY <2>1 DEF Works, Actives, Actors
    <3>2. t \in Actors /\ op[t].task = t /\ op[t].pc # "peeked"
      BY <2>1 DEF Actives, Actors
    <3>3. CASE op[t].pc = "idle"
      <4>1. \A a \in Actors : ~Works(op, a, t)
        BY <3>1, <3>3 DEF Works
      <4>2. LlcOwed(op, rec, t) = rec[t].llc /\ QueueOwed(op, rec, t) = rec[t].qid
        BY <4>1, OwedFree
      <4> QED BY <3>3, <4>2 DEF LlcCredit, QueueCredit
    <3>4. CASE op[t].pc # "idle"
      <4>1. Works(op, t, t) /\ Lone(op)
        BY <2>1, <3>2, <3>4 DEF Works, Actives
      <4>2. LlcOwed(op, rec, t) = LlcPart(op[t], rec[t])
        BY <3>2, <4>1, OwedBy
      <4>3. QueueOwed(op, rec, t) = QueuePart(op[t], rec[t])
        BY <3>2, <4>1, OwedBy
      <4> QED BY <4>2, <4>3 DEF LlcPart, QueuePart, LlcCredit, QueueCredit
    <3> QED BY <3>3, <3>4
  <2>3. \A x : {t \in Tasks : LlcMap(op, rec)[t] = x} = {t \in Tasks : LlcCredit(t) = x}
    BY <2>2 DEF LlcMap
  <2>4. \A x : {t \in Tasks : QueueMap(op, rec)[t] = x} = {t \in Tasks : QueueCredit(t) = x}
    BY <2>2 DEF QueueMap
  <2> QED BY <2>1, <2>3, <2>4 DEF Counts, LlcGaugeExact, QueueGaugeExact
<1> QED BY <1>1, HealInvariance, PTL

(* A task that went to sleep or was parked is counted nowhere: quiescent   *)
(* and the global park always release it.                                  *)
THEOREM AlwaysReleased == Spec => []LeaversReleased
<1>1. (race = "none" => RunnableInv) => LeaversReleased
  <2> SUFFICES ASSUME RunnableInv, NEW t \in Tasks, Idle(t)
               PROVE  /\ life[t] \in {"asleep", "parked"} => rec[t] = Unowned
                      /\ rec[t].llc = NoLlc <=> rec[t].qid = NoQueue
    BY DEF LeaversReleased
  <2>1. /\ rec[t].llc = NoLlc <=> rec[t].qid = NoQueue
        /\ life[t] \in {"asleep", "parked"} => rec[t].llc = NoLlc
    BY DEF RunnableInv, CallInv, Idle
  <2>2. rec[t] \in [llc : Llcs \cup {NoLlc}, qid : Queues \cup {NoQueue}]
    BY DEF RunnableInv, TypeOK
  <2> QED BY <2>1, <2>2 DEF Unowned
<1> QED BY <1>1, Invariance, PTL

(* Whatever tasks the steals adjusted, a state without a call in flight    *)
(* has exact gauges, as long as no adjustment overlapped another call      *)
(* about its task: nothing a stray mlfq_runnable_enter did is left over    *)
(* once the releases of that task have run.                                *)
THEOREM GaugesAreHealed == Spec => []GaugesHeal
<1>1. HealInv => GaugesHeal
  <2> SUFFICES ASSUME HealInv, race # "overlap", \A a \in Actors : Idle(a)
               PROVE  /\ \A l \in Llcs :
                           llcRun[l] = Cardinality({t \in Tasks : rec[t].llc = l})
                      /\ \A q \in Queues :
                           queueRun[q] = Cardinality({t \in Tasks : rec[t].qid = q})
    BY DEF GaugesHeal
  <2>1. /\ Counts(llcRun, LlcMap(op, rec), Llcs)
        /\ Counts(queueRun, QueueMap(op, rec), Queues)
    BY DEF HealInv, Healing
  <2>2. ASSUME NEW t \in Tasks
        PROVE  LlcMap(op, rec)[t] = rec[t].llc /\ QueueMap(op, rec)[t] = rec[t].qid
    <3>1. \A a \in Actors : ~Works(op, a, t)
      BY DEF Works, Idle
    <3>2. LlcOwed(op, rec, t) = rec[t].llc /\ QueueOwed(op, rec, t) = rec[t].qid
      BY <3>1, OwedFree
    <3> QED BY <3>2 DEF LlcMap, QueueMap
  <2>3. ASSUME NEW l \in Llcs
        PROVE  {t \in Tasks : LlcMap(op, rec)[t] = l} = {t \in Tasks : rec[t].llc = l}
    BY <2>2
  <2>4. ASSUME NEW q \in Queues
        PROVE  {t \in Tasks : QueueMap(op, rec)[t] = q} = {t \in Tasks : rec[t].qid = q}
    BY <2>2
  <2> QED BY <2>1, <2>3, <2>4 DEF Counts
<1> QED BY <1>1, HealInvariance, PTL

=============================================================================
