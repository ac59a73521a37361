-------------------------- MODULE MlfqVtimeProofs --------------------------
(* Proofs about MlfqVtime, for every set of tasks and queues, every slice, *)
(* weight and run length.                                                  *)
EXTENDS MlfqVtime, TLAPS

(* What a clock read before the end of a placement leaves behind.          *)
InFlight(t) ==
  LET tc == task[t]
      c  == clock[tc.queue]
  IN  /\ pc[t] = "place"  => reg[t][1] <= c
      /\ pc[t] = "commit" =>
           \E read \in Nat :
             /\ reg[t][1] <= read
             /\ read <= c
             /\ reg[t][2] = PlaceEntityDeadline(read, tc)

(* What the commit leaves behind while the task waits in its queue DSQ.    *)
Committed(t) ==
  LET tc == task[t]
      c  == clock[tc.queue]
  IN  pc[t] = "queued" =>
        /\ tc.placed
        /\ tc.deadline > 0
        /\ tc.vruntime + VSlice(tc) <= tc.deadline
        /\ tc.deadline <= c + VSlice(tc) \/ tc.deadline = 1
        /\ tc.vlag <= LagLimit(tc.queue, tc.weight)
        /\ tc.vruntime + tc.vlag <= c

(* The history variable: what a placement guarantees for the run after it. *)
PlacedRun(t) ==
  LET tc == task[t]
  IN  /\ tc.placed => pc[t] \in {"queued", "running", "cas"}
      /\ tc.placed /\ pc[t] \in {"queued", "running"} =>
           tc.vruntime <= clock[tc.queue]
      /\ tc.placed /\ pc[t] = "cas" =>
           tc.vruntime <= clock[tc.queue] + reg[t][2]

(* The inductive invariant.                                                *)
VtimeInv ==
  /\ TypeOK
  /\ \A t \in Tasks : InFlight(t) /\ Committed(t) /\ PlacedRun(t)

-----------------------------------------------------------------------------
(* The weight scaling of a duration is a natural number.                   *)
LEMMA CalcDeltaFairNat ==
  ASSUME NEW d \in Nat, NEW w \in Weights
  PROVE  CalcDeltaFair(d, w) \in Nat
BY VtimeAssumption DEF CalcDeltaFair

(* The lag limit and the virtual slice of a task are natural numbers.      *)
LEMMA LimitsNat ==
  ASSUME NEW tc \in TaskCtx
  PROVE  /\ LagLimit(tc.queue, tc.weight) \in Nat
         /\ VSlice(tc) \in Nat
<1>1. /\ tc.weight \in Weights
      /\ Slice[tc.queue] \in Nat
      /\ Slice[tc.queue] + Tick \in Nat
      /\ tc.first \in BOOLEAN
  BY VtimeAssumption DEF TaskCtx
<1>2. LagLimit(tc.queue, tc.weight) \in Nat
  BY <1>1, CalcDeltaFairNat DEF LagLimit
<1>3. CalcDeltaFair(Slice[tc.queue], tc.weight) \in Nat
  BY <1>1, CalcDeltaFairNat
<1>4. VSlice(tc) \in Nat
  <2> DEFINE v == CalcDeltaFair(Slice[tc.queue], tc.weight)
  <2>1. v \div 2 \in Nat
    <3> HIDE DEF v
    <3> SUFFICES ASSUME v \in Nat PROVE v \div 2 \in Nat
      BY <1>3 DEF v
    <3> QED OBVIOUS
  <2>2. QED BY <1>1, <1>3, <2>1 DEF VSlice
<1> QED BY <1>2, <1>4

(* The clamped lag is a lag: it never exceeds the limit nor the clock, and *)
(* it anchors the task no later than the clock and, if the task was behind *)
(* the clock, no earlier than where it was.                                *)
LEMMA ClampedLagBounds ==
  ASSUME NEW clk \in Nat, NEW tc \in TaskCtx
  PROVE  /\ ClampedLag(clk, tc) \in Nat
         /\ ClampedLag(clk, tc) <= LagLimit(tc.queue, tc.weight)
         /\ ClampedLag(clk, tc) <= clk
<1>1. tc.vruntime \in Nat
  BY DEF TaskCtx
<1>2. LagLimit(tc.queue, tc.weight) \in Nat
  BY LimitsNat
<1> QED BY <1>1, <1>2 DEF ClampedLag

(* Placement is monotone in the clock value: a later read anchors later.   *)
LEMMA PlacementMonotone ==
  ASSUME NEW c1 \in Nat, NEW c2 \in Nat, c1 <= c2, NEW tc \in TaskCtx
  PROVE  c1 - ClampedLag(c1, tc) <= c2 - ClampedLag(c2, tc)
<1>1. tc.vruntime \in Nat
  BY DEF TaskCtx
<1>2. LagLimit(tc.queue, tc.weight) \in Nat
  BY LimitsNat
<1> QED BY <1>1, <1>2 DEF ClampedLag

(* The deadline of a placement against clock value clk.                    *)
LEMMA DeadlineFacts ==
  ASSUME NEW clk \in Nat, NEW tc \in TaskCtx
  PROVE  LET d == PlaceEntityDeadline(clk, tc)
         IN  /\ d \in Nat
             /\ d > 0
             /\ (clk - ClampedLag(clk, tc)) + VSlice(tc) <= d
             /\ d <= clk + VSlice(tc) \/ d = 1
<1>1. /\ ClampedLag(clk, tc) \in Nat
      /\ ClampedLag(clk, tc) <= clk
  BY ClampedLagBounds
<1>2. VSlice(tc) \in Nat
  BY LimitsNat
<1> QED BY <1>1, <1>2 DEF PlaceEntityDeadline

(* The single-shot advance never moves a clock backward.                   *)
LEMMA AdvanceClockMonotone ==
  ASSUME NEW now \in Nat, NEW cur \in Nat, NEW v \in Nat
  PROVE  /\ AdvanceClock(now, cur, v) \in Nat
         /\ now <= AdvanceClock(now, cur, v)
         /\ AdvanceClock(now, cur, v) \in {now, v}
BY DEF AdvanceClock

-----------------------------------------------------------------------------
(* The types hold initially.                                               *)
LEMMA TypeInit == Init => TypeOK
<1> SUFFICES ASSUME Init PROVE TypeOK
  OBVIOUS
<1>1. \A w \in Weights, q \in Queues : FreshCtx(w, q) \in TaskCtx
  BY DEF FreshCtx, TaskCtx
<1> QED BY <1>1 DEF Init, TypeOK, PC

(* Every step keeps the types.                                             *)
LEMMA TypeStep == TypeOK /\ [Next]_vars => TypeOK'
<1> SUFFICES ASSUME TypeOK, [Next]_vars PROVE TypeOK'
  OBVIOUS
<1> USE DEF TypeOK
<1>1. ASSUME NEW t \in Tasks, NEW w \in Weights, NEW q \in Queues,
             Enable(t, w, q)
      PROVE  TypeOK'
  <2>1. FreshCtx(w, q) \in TaskCtx
    BY DEF FreshCtx, TaskCtx
  <2> QED BY <1>1, <2>1 DEF Enable
<1>2. ASSUME NEW t \in Tasks, NEW w \in Weights, NEW q \in Queues,
             EnqueueQueue(t, w, q)
      PROVE  TypeOK'
  <2>1. [task[t] EXCEPT !.weight = w, !.queue = q] \in TaskCtx
    BY DEF TaskCtx
  <2> QED BY <1>2, <2>1 DEF EnqueueQueue, PC
<1>3. ASSUME NEW t \in Tasks, NEW w \in Weights, NEW q \in Queues,
             EnqueueLocal(t, w, q)
      PROVE  TypeOK'
  <2>1. [task[t] EXCEPT !.weight = w, !.queue = q] \in TaskCtx
    BY DEF TaskCtx
  <2> QED BY <1>3, <2>1 DEF EnqueueLocal, PC
<1>4. ASSUME NEW t \in Tasks, PlaceDeadline(t)
      PROVE  TypeOK'
  <2>1. /\ task[t] \in TaskCtx
        /\ task[t].queue \in Queues
    BY DEF TaskCtx
  <2>2. PlaceEntityDeadline(clock[task[t].queue], task[t]) \in Nat
    BY <2>1, DeadlineFacts
  <2> QED BY <1>4, <2>2 DEF PlaceDeadline, PC
<1>5. ASSUME NEW t \in Tasks, PlaceCommit(t)
      PROVE  TypeOK'
  <2> DEFINE lag == ClampedLag(reg[t][1], task[t])
  <2>1. /\ lag \in Nat
        /\ reg[t][1] - lag \in Nat
        /\ reg[t][2] \in Nat
    BY ClampedLagBounds
  <2> HIDE DEF lag
  <2>2. [task[t] EXCEPT !.vruntime = reg[t][1] - lag, !.vlag = lag,
                        !.deadline = reg[t][2], !.placed = TRUE] \in TaskCtx
    BY <2>1 DEF TaskCtx
  <2> QED BY <1>5, <2>2 DEF PlaceCommit, PC, lag
<1>6. ASSUME NEW t \in Tasks, Running(t)
      PROVE  TypeOK'
  <2>1. [task[t] EXCEPT !.first = FALSE] \in TaskCtx
    BY DEF TaskCtx
  <2> QED BY <1>6, <2>1 DEF Running, PC
<1>7. ASSUME NEW t \in Tasks, Dequeue(t)
      PROVE  TypeOK'
  <2>1. [task[t] EXCEPT !.placed = FALSE] \in TaskCtx
    BY DEF TaskCtx
  <2> QED BY <1>7, <2>1 DEF Dequeue, PC
<1>8. ASSUME NEW t \in Tasks, NEW delta \in Deltas, Stopping(t, delta)
      PROVE  TypeOK'
  <2> DEFINE charge == CalcDeltaFair(delta, task[t].weight)
             v      == task[t].vruntime + charge
  <2>1. /\ task[t].vruntime \in Nat
        /\ task[t].weight \in Weights
        /\ clock[task[t].queue] \in Nat
    BY DEF TaskCtx
  <2>2. charge \in Nat /\ v \in Nat
    <3>1. charge \in Nat
      BY <2>1, CalcDeltaFairNat, VtimeAssumption
    <3> HIDE DEF charge
    <3> QED BY <2>1, <3>1
  <2>6. delta > 0 =>
          /\ task' = [task EXCEPT ![t].vruntime = v]
          /\ reg' = [reg EXCEPT ![t] = <<clock[task[t].queue], charge>>]
          /\ pc' = [pc EXCEPT ![t] = "cas"]
          /\ clock' = clock
    BY <1>8 DEF Stopping
  <2> HIDE DEF charge, v
  <2>3. /\ [task[t] EXCEPT !.vruntime = v] \in TaskCtx
        /\ [task[t] EXCEPT !.placed = FALSE] \in TaskCtx
    BY <2>2 DEF TaskCtx
  <2>4. CASE delta > 0
    <3>1. task' \in [Tasks -> TaskCtx]
      BY <2>3, <2>4, <2>6
    <3>2. reg' \in [Tasks -> Nat \X Nat]
      BY <2>1, <2>2, <2>4, <2>6
    <3>3. pc' \in [Tasks -> PC]
      BY <2>4, <2>6 DEF PC
    <3> QED BY <2>4, <2>6, <3>1, <3>2, <3>3
  <2>5. CASE ~(delta > 0)
    BY <1>8, <2>3, <2>5 DEF Stopping, PC
  <2> QED BY <2>4, <2>5
<1>9. ASSUME NEW t \in Tasks, StoppingCas(t)
      PROVE  TypeOK'
  <2>1. /\ task[t].queue \in Queues
        /\ task[t].vruntime \in Nat
    BY DEF TaskCtx
  <2>2. AdvanceClock(clock[task[t].queue], reg[t][1], task[t].vruntime) \in Nat
    BY <2>1, AdvanceClockMonotone
  <2>3. [task[t] EXCEPT !.placed = FALSE] \in TaskCtx
    BY DEF TaskCtx
  <2> QED BY <1>9, <2>1, <2>2, <2>3 DEF StoppingCas, PC
<1>10. CASE UNCHANGED vars
  BY <1>10 DEF vars
<1> QED
  BY <1>1, <1>2, <1>3, <1>4, <1>5, <1>6, <1>7, <1>8, <1>9, <1>10 DEF Next

(* Every variable of the specification always has its type: in particular  *)
(* no virtual runtime or lag ever goes negative (the u64 subtractions of   *)
(* mlfq_place_entity do not underflow).                                    *)
THEOREM TypeCorrect == Spec => []TypeOK
<1> QED BY TypeInit, TypeStep, PTL DEF Spec

-----------------------------------------------------------------------------
(* What is known of one task in a typed state.                             *)
LEMMA TaskFacts ==
  ASSUME TypeOK, NEW t \in Tasks
  PROVE  /\ task[t] \in TaskCtx
         /\ task[t].queue \in Queues
         /\ task[t].weight \in Weights
         /\ task[t].vruntime \in Nat
         /\ clock[task[t].queue] \in Nat
         /\ reg[t][1] \in Nat
         /\ reg[t][2] \in Nat
         /\ VSlice(task[t]) \in Nat
<1>1. task[t] \in TaskCtx
  BY DEF TypeOK
<1>2. VSlice(task[t]) \in Nat
  BY <1>1, LimitsNat
<1> QED BY <1>1, <1>2 DEF TypeOK, TaskCtx

(* A task that a step leaves alone keeps its part of the invariant as long *)
(* as the clock of its queue does not move backward.                       *)
LEMMA BystanderStep ==
  ASSUME TypeOK, TypeOK', NEW u \in Tasks,
         InFlight(u), Committed(u), PlacedRun(u),
         task'[u] = task[u], pc'[u] = pc[u], reg'[u] = reg[u],
         clock[task[u].queue] <= clock'[task[u].queue]
  PROVE  InFlight(u)' /\ Committed(u)' /\ PlacedRun(u)'
<1>1. /\ clock[task[u].queue] \in Nat
      /\ clock'[task[u].queue] \in Nat
      /\ reg[u][1] \in Nat
      /\ reg[u][2] \in Nat
      /\ task[u].vruntime \in Nat
      /\ VSlice(task[u]) \in Nat
      /\ task[u].deadline \in Nat
      /\ task[u].vlag \in Nat
  BY TaskFacts DEF TypeOK, TaskCtx
<1>2. InFlight(u)'
  <2>1. CASE pc[u] = "commit"
    <3>1. PICK read \in Nat : /\ reg[u][1] <= read
                              /\ read <= clock[task[u].queue]
                              /\ reg[u][2] = PlaceEntityDeadline(read, task[u])
      BY <2>1 DEF InFlight
    <3>2. read <= clock'[task[u].queue]
      BY <1>1, <3>1
    <3> QED BY <2>1, <3>1, <3>2 DEF InFlight, PlaceEntityDeadline,
                                    ClampedLag, VSlice
  <2>2. CASE pc[u] # "commit"
    BY <1>1, <2>2 DEF InFlight
  <2> QED BY <2>1, <2>2
<1>3. Committed(u)'
  BY <1>1 DEF Committed, VSlice, LagLimit
<1>4. PlacedRun(u)'
  BY <1>1 DEF PlacedRun
<1> QED BY <1>2, <1>3, <1>4

(* The inductive invariant holds initially.                                *)
LEMMA VtimeInit == Init => VtimeInv
<1> SUFFICES ASSUME Init PROVE VtimeInv
  OBVIOUS
<1>1. TypeOK
  BY TypeInit
<1>2. ASSUME NEW t \in Tasks
      PROVE  InFlight(t) /\ Committed(t) /\ PlacedRun(t)
  <2>1. pc[t] = "off" /\ task[t].placed = FALSE
    BY DEF Init, FreshCtx
  <2> QED BY <2>1 DEF InFlight, Committed, PlacedRun
<1> QED BY <1>1, <1>2 DEF VtimeInv

(* Every step keeps the inductive invariant.                               *)
LEMMA VtimeStep == VtimeInv /\ [Next]_vars => VtimeInv'
<1> SUFFICES ASSUME VtimeInv, [Next]_vars PROVE VtimeInv'
  OBVIOUS
<1>t. TypeOK /\ TypeOK'
  BY TypeStep DEF VtimeInv
<1>i. \A u \in Tasks : InFlight(u) /\ Committed(u) /\ PlacedRun(u)
  BY DEF VtimeInv
<1> USE DEF TypeOK
<1>1. SUFFICES ASSUME NEW u \in Tasks
               PROVE  InFlight(u)' /\ Committed(u)' /\ PlacedRun(u)'
  BY <1>t DEF VtimeInv
<1>b. ASSUME task'[u] = task[u], pc'[u] = pc[u], reg'[u] = reg[u],
             clock[task[u].queue] <= clock'[task[u].queue]
      PROVE  InFlight(u)' /\ Committed(u)' /\ PlacedRun(u)'
  BY <1>b, <1>i, <1>t, BystanderStep
<1>f. /\ task[u] \in TaskCtx
      /\ task[u].queue \in Queues
      /\ task[u].vruntime \in Nat
      /\ clock[task[u].queue] \in Nat
      /\ reg[u][1] \in Nat
      /\ reg[u][2] \in Nat
      /\ VSlice(task[u]) \in Nat
  BY <1>t, TaskFacts
<1>2. ASSUME NEW t \in Tasks, NEW w \in Weights, NEW q \in Queues,
             Enable(t, w, q)
      PROVE  InFlight(u)' /\ Committed(u)' /\ PlacedRun(u)'
  <2>1. CASE u = t
    <3>1. pc'[u] = "off" /\ task'[u].placed = FALSE
      BY <1>2, <1>t, <2>1 DEF Enable, FreshCtx
    <3> QED BY <3>1 DEF InFlight, Committed, PlacedRun
  <2>2. CASE u # t
    <3>1. /\ task'[u] = task[u] /\ pc'[u] = pc[u] /\ reg'[u] = reg[u]
          /\ clock' = clock
      BY <1>2, <1>t, <2>2 DEF Enable
    <3> QED BY <1>b, <1>f, <3>1
  <2> QED BY <2>1, <2>2
<1>3. ASSUME NEW t \in Tasks, NEW w \in Weights, NEW q \in Queues,
             EnqueueQueue(t, w, q)
      PROVE  InFlight(u)' /\ Committed(u)' /\ PlacedRun(u)'
  <2>1. CASE u = t
    <3>1. /\ pc'[u] = "place"
          /\ task'[u].queue = q
          /\ task'[u].placed = task[u].placed
          /\ reg'[u][1] = clock'[q]
          /\ clock'[q] \in Nat
      BY <1>3, <1>t, <2>1 DEF EnqueueQueue, TaskCtx
    <3>2. task[u].placed = FALSE
      BY <1>3, <1>i, <2>1, <1>f DEF EnqueueQueue, PlacedRun, TaskCtx
    <3> QED BY <3>1, <3>2 DEF InFlight, Committed, PlacedRun
  <2>2. CASE u # t
    <3>1. /\ task'[u] = task[u] /\ pc'[u] = pc[u] /\ reg'[u] = reg[u]
          /\ clock' = clock
      BY <1>3, <1>t, <2>2 DEF EnqueueQueue
    <3> QED BY <1>b, <1>f, <3>1
  <2> QED BY <2>1, <2>2
<1>4. ASSUME NEW t \in Tasks, NEW w \in Weights, NEW q \in Queues,
             EnqueueLocal(t, w, q)
      PROVE  InFlight(u)' /\ Committed(u)' /\ PlacedRun(u)'
  <2>1. CASE u = t
    <3>1. /\ pc'[u] = "local"
          /\ task'[u].placed = task[u].placed
      BY <1>4, <1>t, <2>1 DEF EnqueueLocal, TaskCtx
    <3>2. task[u].placed = FALSE
      BY <1>4, <1>i, <2>1, <1>f DEF EnqueueLocal, PlacedRun, TaskCtx
    <3> QED BY <3>1, <3>2 DEF InFlight, Committed, PlacedRun
  <2>2. CASE u # t
    <3>1. /\ task'[u] = task[u] /\ pc'[u] = pc[u] /\ reg'[u] = reg[u]
          /\ clock' = clock
      BY <1>4, <1>t, <2>2 DEF EnqueueLocal
    <3> QED BY <1>b, <1>f, <3>1
  <2> QED BY <2>1, <2>2
<1>5. ASSUME NEW t \in Tasks, PlaceDeadline(t)
      PROVE  InFlight(u)' /\ Committed(u)' /\ PlacedRun(u)'
  <2>1. CASE u = t
    <3> DEFINE c == clock[task[u].queue]
    <3>1. /\ pc'[u] = "commit"
          /\ task'[u] = task[u]
          /\ clock' = clock
          /\ reg'[u] = <<reg[u][1], PlaceEntityDeadline(c, task[u])>>
      BY <1>5, <1>t, <2>1 DEF PlaceDeadline
    <3>2. reg[u][1] <= c /\ c <= c /\ c \in Nat
      BY <1>5, <1>i, <1>f, <2>1 DEF InFlight, PlaceDeadline
    <3>3. InFlight(u)'
      BY <3>1, <3>2 DEF InFlight, PlaceEntityDeadline, ClampedLag, VSlice
    <3>4. task[u].placed = FALSE
      BY <1>5, <1>i, <2>1, <1>f DEF PlaceDeadline, PlacedRun, TaskCtx
    <3> QED BY <3>1, <3>3, <3>4 DEF Committed, PlacedRun
  <2>2. CASE u # t
    <3>1. /\ task'[u] = task[u] /\ pc'[u] = pc[u] /\ reg'[u] = reg[u]
          /\ clock' = clock
      BY <1>5, <1>t, <2>2 DEF PlaceDeadline
    <3> QED BY <1>b, <1>f, <3>1
  <2> QED BY <2>1, <2>2
<1>6. ASSUME NEW t \in Tasks, PlaceCommit(t)
      PROVE  InFlight(u)' /\ Committed(u)' /\ PlacedRun(u)'
  <2>1. CASE u = t
    <3> DEFINE tc  == task[u]
               c   == clock[tc.queue]
               lag == ClampedLag(reg[u][1], tc)
    <3>1. PICK read \in Nat : /\ reg[u][1] <= read
                              /\ read <= c
                              /\ reg[u][2] = PlaceEntityDeadline(read, tc)
      BY <1>6, <1>i, <2>1 DEF PlaceCommit, InFlight
    <3>2. /\ lag \in Nat
          /\ lag <= LagLimit(tc.queue, tc.weight)
          /\ lag <= reg[u][1]
      BY <1>f, ClampedLagBounds
    <3>3. /\ ClampedLag(read, tc) \in Nat
          /\ ClampedLag(read, tc) <= read
          /\ reg[u][1] - lag <= read - ClampedLag(read, tc)
      BY <1>f, <3>1, ClampedLagBounds, PlacementMonotone
    <3>4. /\ reg[u][2] > 0
          /\ (read - ClampedLag(read, tc)) + VSlice(tc) <= reg[u][2]
          /\ reg[u][2] <= read + VSlice(tc) \/ reg[u][2] = 1
      BY <1>f, <3>1, DeadlineFacts
    <3>5. /\ pc'[u] = "queued"
          /\ clock' = clock
          /\ task'[u] = [tc EXCEPT !.vruntime = reg[u][1] - lag, !.vlag = lag,
                                   !.deadline = reg[u][2], !.placed = TRUE]
      BY <1>6, <1>t, <2>1 DEF PlaceCommit
    <3>6. /\ task'[u].vruntime = reg[u][1] - lag
          /\ task'[u].vlag = lag
          /\ task'[u].deadline = reg[u][2]
          /\ task'[u].placed = TRUE
          /\ task'[u].queue = tc.queue
          /\ task'[u].weight = tc.weight
          /\ task'[u].first = tc.first
      BY <1>f, <3>5 DEF TaskCtx
    <3>7. /\ VSlice(task'[u]) = VSlice(tc)
          /\ VSlice(tc) \in Nat
          /\ LagLimit(tc.queue, tc.weight) \in Nat
      BY <1>f, <3>6, LimitsNat DEF VSlice
    <3>8. /\ (reg[u][1] - lag) + VSlice(tc) <= reg[u][2]
          /\ reg[u][2] <= c + VSlice(tc) \/ reg[u][2] = 1
          /\ (reg[u][1] - lag) + lag <= c
          /\ reg[u][1] - lag <= c
      <4> HIDE DEF c, lag
      <4>1. c \in Nat
        BY <1>f DEF c
      <4> QED BY <4>1, <1>f, <3>1, <3>2, <3>3, <3>4, <3>7
    <3> HIDE DEF tc, c, lag
    <3>9. clock'[task'[u].queue] = c
      BY <3>5, <3>6 DEF c, tc
    <3>10. Committed(u)'
      <4>1. LagLimit(task'[u].queue, task'[u].weight)
              = LagLimit(tc.queue, tc.weight)
        BY <3>6
      <4> QED BY <3>2, <3>4, <3>6, <3>7, <3>8, <3>9, <4>1
              DEF Committed, VSlice, LagLimit
    <3> QED BY <3>5, <3>6, <3>8, <3>9, <3>10 DEF InFlight, PlacedRun
  <2>2. CASE u # t
    <3>1. /\ task'[u] = task[u] /\ pc'[u] = pc[u] /\ reg'[u] = reg[u]
          /\ clock' = clock
      BY <1>6, <1>t, <2>2 DEF PlaceCommit
    <3> QED BY <1>b, <1>f, <3>1
  <2> QED BY <2>1, <2>2
<1>7. ASSUME NEW t \in Tasks, Running(t)
      PROVE  InFlight(u)' /\ Committed(u)' /\ PlacedRun(u)'
  <2>1. CASE u = t
    <3>1. /\ pc'[u] = "running"
          /\ clock' = clock
          /\ task'[u].placed = task[u].placed
          /\ task'[u].queue = task[u].queue
          /\ task'[u].vruntime = task[u].vruntime
      BY <1>7, <1>t, <2>1 DEF Running, TaskCtx
    <3>2. task[u].placed => pc[u] = "queued"
      BY <1>7, <1>i, <2>1 DEF Running, PlacedRun
    <3> QED BY <1>i, <3>1, <3>2 DEF InFlight, Committed, PlacedRun
  <2>2. CASE u # t
    <3>1. /\ task'[u] = task[u] /\ pc'[u] = pc[u] /\ reg'[u] = reg[u]
          /\ clock' = clock
      BY <1>7, <1>t, <2>2 DEF Running
    <3> QED BY <1>b, <1>f, <3>1
  <2> QED BY <2>1, <2>2
<1>8. ASSUME NEW t \in Tasks, Dequeue(t)
      PROVE  InFlight(u)' /\ Committed(u)' /\ PlacedRun(u)'
  <2>1. CASE u = t
    <3>1. pc'[u] = "off" /\ task'[u].placed = FALSE
      BY <1>8, <1>t, <2>1 DEF Dequeue, TaskCtx
    <3> QED BY <3>1 DEF InFlight, Committed, PlacedRun
  <2>2. CASE u # t
    <3>1. /\ task'[u] = task[u] /\ pc'[u] = pc[u] /\ reg'[u] = reg[u]
          /\ clock' = clock
      BY <1>8, <1>t, <2>2 DEF Dequeue
    <3> QED BY <1>b, <1>f, <3>1
  <2> QED BY <2>1, <2>2
<1>9. ASSUME NEW t \in Tasks, NEW delta \in Deltas, Stopping(t, delta)
      PROVE  InFlight(u)' /\ Committed(u)' /\ PlacedRun(u)'
  <2>1. CASE u = t /\ delta > 0
    <3> DEFINE charge == CalcDeltaFair(delta, task[u].weight)
    <3>1. charge \in Nat
      BY <1>t, TaskFacts, CalcDeltaFairNat, VtimeAssumption
    <3>2. /\ pc[u] = "running"
          /\ task' = [task EXCEPT ![u].vruntime = task[u].vruntime + charge]
          /\ reg' = [reg EXCEPT ![u] = <<clock[task[u].queue], charge>>]
          /\ pc' = [pc EXCEPT ![u] = "cas"]
          /\ clock' = clock
      BY <1>9, <2>1 DEF Stopping
    <3> HIDE DEF charge
    <3>3. /\ task'[u].vruntime = task[u].vruntime + charge
          /\ task'[u].placed = task[u].placed
          /\ task'[u].queue = task[u].queue
          /\ reg'[u][2] = charge
          /\ pc'[u] = "cas"
      BY <1>t, <3>2 DEF TaskCtx
    <3>4. task[u].placed => task[u].vruntime <= clock[task[u].queue]
      BY <1>i, <3>2 DEF PlacedRun
    <3> QED BY <1>f, <3>1, <3>2, <3>3, <3>4 DEF InFlight, Committed, PlacedRun
  <2>2. CASE u = t /\ ~(delta > 0)
    <3>1. pc'[u] = "off" /\ task'[u].placed = FALSE
      BY <1>9, <1>t, <2>2 DEF Stopping, TaskCtx
    <3> QED BY <3>1 DEF InFlight, Committed, PlacedRun
  <2>3. CASE u # t
    <3>1. /\ task'[u] = task[u] /\ pc'[u] = pc[u] /\ reg'[u] = reg[u]
          /\ clock' = clock
      <4>1. CASE delta > 0
        BY <1>9, <1>t, <2>3, <4>1 DEF Stopping
      <4>2. CASE ~(delta > 0)
        BY <1>9, <1>t, <2>3, <4>2 DEF Stopping
      <4> QED BY <4>1, <4>2
    <3> QED BY <3>1, <1>b, <1>f
  <2> QED BY <2>1, <2>2, <2>3
<1>10. ASSUME NEW t \in Tasks, StoppingCas(t)
       PROVE  InFlight(u)' /\ Committed(u)' /\ PlacedRun(u)'
  <2>1. CASE u = t
    <3>1. pc'[u] = "off" /\ task'[u].placed = FALSE
      BY <1>10, <1>t, <2>1 DEF StoppingCas, TaskCtx
    <3> QED BY <3>1 DEF InFlight, Committed, PlacedRun
  <2>2. CASE u # t
    <3>1. clock[task[u].queue] <= clock'[task[u].queue]
      <4> DEFINE q == task[t].queue
      <4>1. /\ q \in Queues
            /\ clock[q] \in Nat
            /\ reg[t][1] \in Nat
            /\ task[t].vruntime \in Nat
        BY <1>t, TaskFacts
      <4>2. clock[q] <= AdvanceClock(clock[q], reg[t][1], task[t].vruntime)
        BY <4>1, AdvanceClockMonotone
      <4> QED BY <1>10, <1>f, <1>t, <4>1, <4>2 DEF StoppingCas
    <3>2. task'[u] = task[u] /\ pc'[u] = pc[u] /\ reg'[u] = reg[u]
      BY <1>10, <1>t, <2>2 DEF StoppingCas
    <3> QED BY <1>b, <3>1, <3>2
  <2> QED BY <2>1, <2>2
<1>11. CASE UNCHANGED vars
  BY <1>11, <1>i DEF vars, InFlight, Committed, PlacedRun,
     PlaceEntityDeadline, ClampedLag, VSlice, LagLimit
<1> QED
  BY <1>2, <1>3, <1>4, <1>5, <1>6, <1>7, <1>8, <1>9, <1>10, <1>11 DEF Next

(* The inductive invariant holds in every reachable state.                 *)
LEMMA VtimeInvariant == Spec => []VtimeInv
<1> QED BY VtimeInit, VtimeStep, PTL DEF Spec

(* What a committed placement of a queued task satisfies, read off the     *)
(* inductive invariant.                                                    *)
LEMMA CommittedFacts ==
  ASSUME VtimeInv, NEW t \in Tasks, pc[t] = "queued"
  PROVE  /\ task[t].deadline > 0
         /\ task[t].vruntime + VSlice(task[t]) <= task[t].deadline
         /\ \/ task[t].deadline <= clock[task[t].queue] + VSlice(task[t])
            \/ task[t].deadline = 1
         /\ task[t].vlag <= LagLimit(task[t].queue, task[t].weight)
         /\ task[t].vruntime + task[t].vlag <= clock[task[t].queue]
         /\ task[t].vruntime <= clock[task[t].queue]
BY DEF VtimeInv, Committed, PlacedRun

(* Every queued task is eligible: min-deadline selection over the queue    *)
(* DSQs is EEVDF selection, with no lock around the two clock reads of     *)
(* mlfq_place_entity.                                                      *)
THEOREM QueuedEligible == Spec => []Eligible
<1>1. VtimeInv => Eligible
  BY CommittedFacts DEF Eligible
<1> QED BY <1>1, VtimeInvariant, PTL

(* The deadline a queue DSQ is ordered by lies within one request of the   *)
(* committed vruntime and the clock, and is never the failure sentinel.    *)
THEOREM QueuedDeadlines == Spec => []DeadlineBounds
<1>1. VtimeInv => DeadlineBounds
  BY CommittedFacts DEF DeadlineBounds
<1> QED BY <1>1, VtimeInvariant, PTL

(* The bounded-lag property of placement (comment of queue_ctx).           *)
THEOREM QueuedLagBounded == Spec => []BoundedLag
<1>1. VtimeInv => BoundedLag
  BY CommittedFacts DEF BoundedLag
<1> QED BY <1>1, VtimeInvariant, PTL

(* No interleaving of single-shot advances moves a clock backward.         *)
THEOREM ClocksMonotone == Spec => ClockMonotone
<1>1. ASSUME TypeOK, [Next]_vars, NEW q \in Queues
      PROVE  clock[q] <= clock'[q]
  <2>0. clock[q] \in Nat
    BY <1>1 DEF TypeOK
  <2>1. CASE \E t \in Tasks : StoppingCas(t)
    <3>1. PICK t \in Tasks : StoppingCas(t)
      BY <2>1
    <3>2. /\ clock[task[t].queue] \in Nat
          /\ reg[t][1] \in Nat
          /\ task[t].vruntime \in Nat
      BY <1>1, TaskFacts
    <3>3. clock[task[t].queue]
            <= AdvanceClock(clock[task[t].queue], reg[t][1], task[t].vruntime)
      BY <3>2, AdvanceClockMonotone
    <3> QED BY <1>1, <2>0, <3>1, <3>3 DEF StoppingCas, TypeOK
  <2>2. CASE ~ \E t \in Tasks : StoppingCas(t)
    <3>1. clock' = clock
      BY <1>1, <2>2 DEF Next, vars, Enable, EnqueueQueue, PlaceDeadline,
         PlaceCommit, EnqueueLocal, Running, Dequeue, Stopping
    <3> QED BY <2>0, <3>1
  <2> QED BY <2>1, <2>2
<1>2. TypeOK /\ [Next]_vars
        => [\A q \in Queues : clock[q] <= clock'[q]]_vars
  BY <1>1
<1> QED BY <1>2, TypeCorrect, PTL DEF Spec, ClockMonotone

(* A task that was placed before its run cannot drag the clock of its      *)
(* queue ahead of the service it received.                                 *)
THEOREM PlacedAdvance == Spec => PlacedAdvanceBounded
<1> DEFINE Step == \A t \in Tasks :
       StoppingCas(t) /\ task[t].placed =>
         clock'[task[t].queue] <= clock[task[t].queue] + reg[t][2]
<1>1. ASSUME VtimeInv, NEW t \in Tasks, StoppingCas(t), task[t].placed
      PROVE  clock'[task[t].queue] <= clock[task[t].queue] + reg[t][2]
  <2> DEFINE q == task[t].queue
  <2>1. /\ q \in Queues
        /\ clock[q] \in Nat
        /\ reg[t][1] \in Nat
        /\ reg[t][2] \in Nat
        /\ task[t].vruntime \in Nat
    BY <1>1, TaskFacts DEF VtimeInv
  <2>2. task[t].vruntime <= clock[q] + reg[t][2]
    BY <1>1 DEF VtimeInv, PlacedRun, StoppingCas
  <2>3. clock'[q] = AdvanceClock(clock[q], reg[t][1], task[t].vruntime)
    BY <1>1, <2>1 DEF StoppingCas, VtimeInv, TypeOK
  <2>4. AdvanceClock(clock[q], reg[t][1], task[t].vruntime)
          \in {clock[q], task[t].vruntime}
    BY <2>1, AdvanceClockMonotone
  <2>5. clock'[q] <= clock[q] + reg[t][2]
    <3> HIDE DEF q
    <3> QED BY <2>1, <2>2, <2>3, <2>4
  <2> QED BY <2>5
<1>2. VtimeInv /\ [Next]_vars => [Step]_vars
  BY <1>1
<1> QED BY <1>2, VtimeInvariant, PTL DEF Spec, PlacedAdvanceBounded

=============================================================================
