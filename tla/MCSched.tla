------------------------------ MODULE MCSched ------------------------------
(* Model values of MlfqSched for TLC: two CPUs and two queues of the       *)
(* code's three, with one slot of a dispatch call for each queue.          *)
EXTENDS MlfqSched, TLC

CONSTANTS c1, c2

MCCpus == {c1, c2}
MCQuota == [q \in 1..2 |-> 1]
MCQuota1 == <<2>>
MCBoth == {MCCpus}
MCAny == {MCCpus, {c1}}
MCSymmetry == Permutations(Tasks)

=============================================================================
