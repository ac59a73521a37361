----------------------------- MODULE MCClassify ----------------------------
(* Model values of MlfqClassify for TLC.  One unit is an eighth of a       *)
(* millisecond and the code's constants keep their values in it.           *)
EXTENDS MlfqClassify

(* The fixed thresholds (250 us, 2 ms, 1 ms, 3 ms), and the widest bands   *)
(* the adaptation reaches (500 us, 3.2 ms, 1.6 ms, 4.8 ms).                *)
MCFixed == {[t_l |-> 2, t_h |-> 16, t_int |-> 8, t_bnd |-> 24]}
MCBands == MCFixed \cup {[t_l |-> 4, t_h |-> 25, t_int |-> 12, t_bnd |-> 38]}

=============================================================================
