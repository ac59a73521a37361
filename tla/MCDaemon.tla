------------------------------ MODULE MCDaemon -----------------------------
(* Model values of MlfqDaemon for TLC: fits that do not beat the baseline, *)
(* and fits that do with a correlation below, at and above the floor.      *)
EXTENDS MlfqDaemon

MCOutcomes == {[beats |-> FALSE, corr |-> 2]} \cup [beats : {TRUE}, corr : 1..2]

=============================================================================
