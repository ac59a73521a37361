------------------------------- MODULE MCTree ------------------------------
(* Model values of MlfqTree for TLC: three windows whose trees are a leaf, *)
(* a stump and a tree of depth two, which are published; and a wide set of *)
(* calls of fit under limits that bind, whose results are dropped.         *)
EXTENDS MlfqTree, TLC

MCWeights == [n \in {5} |-> <<3, 4, 5, 7, 9>>]

Feats2(a, b) == [i \in 0..1 |-> IF i = 0 THEN a ELSE b]
S(a, b, y) == [feats |-> Feats2(a, b), label |-> y]
Lim(d, l, n) == [max_depth |-> d, min_leaf |-> l, max_nodes |-> n]

Published ==
  {[window |-> w, limits |-> Lim(2, 1, 8)] : w \in
     {<<S(0, 0, 2), S(1, 0, 2), S(2, 1, 2), S(0, 1, 2), S(1, 1, 2)>>,
      <<S(0, 0, 1), S(1, 0, 1), S(2, 1, 0), S(2, 0, 0), S(1, 1, 1)>>,
      <<S(0, 0, 1), S(1, 0, 2), S(0, 1, 0), S(2, 0, 2), S(1, 1, 0)>>}}

(* Any multiset of points, oldest first, with any labels of two values.    *)
Points == {Feats2(a, b) : a \in 0..2, b \in 0..1}
Rank(f) == 2 * f[0] + f[1]

Wide ==
  {[window |-> [i \in 1..5 |-> [feats |-> p[i], label |-> y[i]]], limits |-> l] :
     p \in {q \in [1..5 -> Points] : \A i \in 1..4 : Rank(q[i]) <= Rank(q[i + 1])},
     y \in {z \in [1..5 -> {0, 2}] : z[1] = 0},
     l \in {Lim(2, 1, 8), Lim(2, 1, 6), Lim(2, 2, 8)}}

MCJobs == Published \cup Wide

(* Bound: nothing else happens during a job whose result is not published. *)
WideAlone ==
  TreeInit \/ fit = NoFit \/ [window |-> fit.window, limits |-> fit.limits] \in Published

=============================================================================
