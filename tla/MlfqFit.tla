------------------------------- MODULE MlfqFit ------------------------------
(***************************************************************************)
(* How a tree is grown (fit_with_scratch, mlfq_tree.rs): breadth first, a  *)
(* worklist of the nodes to fill and the samples that reached each.        *)
(*                                                                         *)
(* A sample is its features and its label; the samples of a node are their *)
(* positions in the window.  The recency weights are scaled to integers,   *)
(* and every sum of the SSE math is exact: a quotient of the code is a     *)
(* comparison of cross products here.                                      *)
(***************************************************************************)
EXTENDS MlfqTreeNodes, FiniteSetsExt

CONSTANTS
  Jobs,          \* bound: the calls of fit, each a window and its limits
  Weights,       \* sample_weights: the weights of a window of each length
  RelReduction   \* min_rel_var_reduction, in thousandths

Sample == [feats : Feats, label : Values]

Limits == [max_depth : 0..MaxDepth, min_leaf : Nat \ {0}, max_nodes : 1..MaxNodes]

ASSUME FitAssumption ==
  /\ RelReduction \in Nat
  /\ \A j \in Jobs :
       /\ j.limits \in Limits
       /\ j.window \in Seq(Sample) /\ j.window # <<>>
       /\ Len(j.window) \in DOMAIN Weights
       /\ Weights[Len(j.window)] \in [1..Len(j.window) -> Nat \ {0}]

VARIABLE fit     \* the fit of the training worker: window, limits, the nodes
                 \* so far and the queue of the nodes to fill

NoFit == [window |-> <<>>, limits |-> [max_depth |-> 0, min_leaf |-> 1, max_nodes |-> 1],
          nodes |-> <<>>, queue |-> <<>>]

FitInit == fit = NoFit

Fitting == fit.queue # <<>>
Fitted == fit.window # <<>> /\ fit.queue = <<>>

Feat(i, f) == fit.window[i].feats[f]
Label(i) == fit.window[i].label
Weight(i) == Weights[Len(fit.window)][i]

(* label_totals, and the weighted SSE of the group times its weight.       *)
Totals(M) ==
  LET w == SumFunction([i \in M |-> Weight(i)])
      wy == SumFunction([i \in M |-> Weight(i) * Label(i)])
      wyy == SumFunction([i \in M |-> Weight(i) * Label(i) * Label(i)])
  IN  [w |-> w, wy |-> wy, sse |-> w * wyy - wy * wy]

(* sse - sse_l - sse_r, times the weights of the node m and both groups.   *)
Reduction(m, l, r) ==
  m.sse * l.w * r.w - l.sse * m.w * r.w - r.sse * m.w * l.w

(* A midpoint that rounds up.                                              *)
MutMidpoint(v, w) == v + (w - v + 1) \div 2

Midpoint(v, w) == v + (w - v) \div 2

(* The group of the samples up to a value, in node M.                      *)
Upto(M, f, v) == {i \in M : Feat(i, f) <= v}

(* best_split: the cuts between two neighbouring values of a feature that  *)
(* leave both groups large enough and remove enough of the SSE, with the   *)
(* reduction as a fraction.                                                *)
Cuts(M) ==
  LET m == Totals(M)
      cut(f, v) ==
        LET l == Totals(Upto(M, f, v))
            r == Totals(M \ Upto(M, f, v))
        IN  [f |-> f, v |-> v, num |-> Reduction(m, l, r), den |-> l.w * r.w]
      wide(G) == G # {} /\ Cardinality(G) >= fit.limits.min_leaf
  IN  {c \in {cut(f, v) : f \in 0..(NrFeatures - 1), v \in Values} :
         /\ \E i \in M : Feat(i, c.f) = c.v
         /\ wide(Upto(M, c.f, c.v)) /\ wide(M \ Upto(M, c.f, c.v))
         /\ 1000 * c.num > RelReduction * m.sse * c.den}

(* The first of the best, by feature and then by value.                    *)
BestCut(cuts) ==
  LET best == {c \in cuts : \A d \in cuts : c.num * d.den >= d.num * c.den}
  IN  CHOOSE c \in best : \A d \in best : c.f < d.f \/ (c.f = d.f /\ c.v <= d.v)

Threshold(M, c) ==
  Midpoint(c.v, Min({Feat(i, c.f) : i \in M \ Upto(M, c.f, c.v)}))

(* leaf_prediction of the weighted mean.                                   *)
Mean(M) == IF M = {} THEN 0 ELSE Totals(M).wy \div Totals(M).w

-----------------------------------------------------------------------------
(* The next one of some jobs; the worker is between two.                   *)
FitBegin(jobs) ==
  /\ fit = NoFit
  /\ \E j \in jobs :
       fit' = [window |-> j.window, limits |-> j.limits, nodes |-> <<Leaf(0)>>,
               queue |-> <<[idx |-> 0, samples |-> 1..Len(j.window), depth |-> 0]>>]

(* A node budget that counts one of the two children.                      *)
MutRoom == Len(fit.nodes) + 1 <= fit.limits.max_nodes

Room == Len(fit.nodes) + 2 <= fit.limits.max_nodes

Shallow(spec) == spec.depth < fit.limits.max_depth

Splittable(spec) ==
  /\ Shallow(spec)
  /\ Cardinality(spec.samples) >= 2 * fit.limits.min_leaf
  /\ Room
  /\ Totals(spec.samples).sse > 0

(* The samples a split routes to its left child.                           *)
RoutedLeft(M, f, th) == {i \in M : Feat(i, f) <= th}

(* The node at the head of the queue gets two children, at the end of the  *)
(* nodes and of the queue.                                                 *)
Grow ==
  /\ Fitting
  /\ LET spec == Head(fit.queue)
         M == spec.samples
         cuts == Cuts(M)
         cut == BestCut(cuts)
         th == Threshold(M, cut)
         left == RoutedLeft(M, cut.f, th)
         n == Len(fit.nodes)
         child(i, samples) == [idx |-> i, samples |-> samples, depth |-> spec.depth + 1]
     IN  /\ Splittable(spec) /\ cuts # {}
         /\ fit' = [fit EXCEPT
              !.nodes = [@ EXCEPT ![spec.idx + 1] = Split(cut.f, th, n, n + 1)]
                          \o <<Leaf(0), Leaf(0)>>,
              !.queue = Tail(@) \o <<child(n, left), child(n + 1, M \ left)>>]

(* Or it becomes a leaf.                                                   *)
Settle ==
  /\ Fitting
  /\ LET spec == Head(fit.queue)
     IN  /\ ~Splittable(spec) \/ Cuts(spec.samples) = {}
         /\ fit' = [fit EXCEPT !.nodes[spec.idx + 1] = Leaf(Mean(spec.samples)),
                               !.queue = Tail(@)]

(* The result is dropped: it failed a gate.                                *)
FitDrop == Fitted /\ fit' = NoFit

FitNext(jobs) == FitBegin(jobs) \/ Grow \/ Settle \/ FitDrop

FitSpec == FitInit /\ [][FitNext(Jobs)]_fit

-----------------------------------------------------------------------------
(* A finished fit always passes serialize_validate, within the node budget *)
(* it was called with, and a fit in progress never outgrows the entry.     *)
FitPublishable ==
  /\ Len(fit.nodes) <= fit.limits.max_nodes
  /\ Fitted => Valid(fit.nodes)

(* A finished tree answers the features of a training sample with the      *)
(* weighted mean of the samples the walk takes to the same leaf, which are *)
(* min_leaf at least unless the tree is one leaf, and no leaf is without   *)
(* samples: the walk routes as the fit partitioned.                        *)
AnswersFromSamples ==
  Fitted =>
    LET at == [i \in DOMAIN fit.window |-> LeafOf(fit.nodes, fit.window[i].feats)]
        mates(l) == {i \in DOMAIN at : at[i] = l}
    IN  \A l \in 0..(Len(fit.nodes) - 1) :
          fit.nodes[l + 1].right = 0 =>
            /\ fit.nodes[l + 1].left = Mean(mates(l))
            /\ mates(l) # {}
            /\ Len(fit.nodes) > 1 => Cardinality(mates(l)) >= fit.limits.min_leaf

=============================================================================
