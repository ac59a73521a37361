------------------------------ MODULE MlfqMath -----------------------------
(***************************************************************************)
(* The fixed-point arithmetic the gauges share (intf.h).                   *)
(***************************************************************************)
EXTENDS Integers

FpOne == 256   \* FP_ONE

Capped(n, limit) == IF n > limit THEN limit ELSE n

(* The second-order residual of 2^-x for the part sub of a half-life, in   *)
(* 1/FpOne (177 is FpOne * ln 2).                                          *)
DecayFactor(sub, halfLife) ==
  LET a == (((sub * FpOne) \div halfLife) * 177) \div FpOne
  IN  (FpOne - a) + (a * a) \div (2 * FpOne)

(* mlfq_ema_decay: whole half-lives shift the value, the rest scales it.   *)
Decay(v, t, halfLife) ==
  IF t >= halfLife * 64 THEN 0
  ELSE LET decayed == v \div (2 ^ (t \div halfLife))
           sub     == t % halfLife
       IN  IF sub = 0 \/ decayed = 0
           THEN decayed
           ELSE (decayed * DecayFactor(sub, halfLife)) \div FpOne

=============================================================================
