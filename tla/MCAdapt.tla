------------------------------ MODULE MCAdapt ------------------------------
(* Model values of MlfqAdapt for TLC: the default bands (250 us, 2 ms,     *)
(* 1 ms, 3 ms) and bands at the ends of their ranges, where the clamps     *)
(* bite; a wait at the target and one beyond the gauge's ceiling.          *)
EXTENDS MlfqAdapt

MCBases ==
  {[t_l |-> 5, t_h |-> 40, t_int |-> 20, t_bnd |-> 60],
   [t_l |-> 10, t_h |-> 24, t_int |-> 32, t_bnd |-> 36]}

=============================================================================
