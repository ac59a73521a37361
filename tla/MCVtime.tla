------------------------------ MODULE MCVtime ------------------------------
(* Model values of MlfqVtime for TLC: two queues of the code's three, the  *)
(* code's slices in ticks (1 ms and 2 ms), nice-0 and a doubled weight,    *)
(* whose one-tick charge rounds down to zero.                              *)
EXTENDS MlfqVtime, TLC

CONSTANTS t1, t2

MCTasks == {t1, t2}
MCQueues == {1, 2}
MCSlice == [q \in MCQueues |-> q]
(* The placement results of a task that is not queued are dead: no action  *)
(* and no property reads them before the next placement writes them.       *)
MCView ==
  <<clock, pc, reg,
    [t \in Tasks |-> [task[t] EXCEPT
       !.vlag     = IF pc[t] = "queued" THEN @ ELSE 0,
       !.deadline = IF pc[t] = "queued" THEN @ ELSE 0]]>>
MCSymmetry == Permutations(MCTasks)

=============================================================================
