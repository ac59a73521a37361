----------------------------- MODULE MCRunnable ----------------------------
(* Model values of MlfqRunnable for TLC.                                   *)
EXTENDS MlfqRunnable, TLC

MCSymmetry == Permutations(Tasks) \cup Permutations(Llcs)

(* A stray adjustment that overlaps another call about the same task can   *)
(* make a gauge drift without bound; what follows it is not explored.      *)
MCNoOverlap == race # "overlap"

(* What a call leaves behind is dead, but for the queue of a task.         *)
MCView ==
  <<llcRun, queueRun, rec, life, race,
    [a \in Actors |-> IF ~Idle(a) THEN <<op[a]>>
                      ELSE IF a \in Tasks THEN <<op[a].qid>> ELSE <<>>]>>

=============================================================================
