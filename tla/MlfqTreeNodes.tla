--------------------------- MODULE MlfqTreeNodes ---------------------------
(***************************************************************************)
(* The serialized decision tree: its nodes, what makes it publishable, its *)
(* layout in a map entry, and the prediction it stands for.  A tree is the *)
(* sequence of its nodes in BFS order; node i of the code is element i+1.  *)
(* The empty tree is the untrained one.                                    *)
(***************************************************************************)
EXTENDS Integers, Sequences

CONSTANTS
  MaxNodes,    \* MLFQ_TREE_MAX_NODES, the size of a map entry
  MaxDepth,    \* MLFQ_TREE_MAX_DEPTH
  NrFeatures,  \* MLFQ_TREE_NR_FEATURES
  MaxValue     \* the largest feature value, threshold or prediction

ASSUME NodesAssumption ==
  /\ MaxNodes \in Nat \ {0} /\ MaxDepth \in Nat
  /\ NrFeatures \in Nat \ {0} /\ MaxValue \in Nat

Values == 0..MaxValue
NodeIds == 0..(MaxNodes - 1)
Feats == [0..(NrFeatures - 1) -> Values]

(* A node without a right child is a leaf, and left is its prediction.     *)
Node == [threshold : Values, left : Values \cup NodeIds, right : NodeIds,
         feature : 0..(NrFeatures - 1)]
Leaf(v) == [threshold |-> 0, left |-> v, right |-> 0, feature |-> 0]
Split(f, th, l, r) == [threshold |-> th, left |-> l, right |-> r, feature |-> f]

Children(n) == IF n.right = 0 THEN {} ELSE {n.left, n.right}

(* The nodes of tree t within d edges of the root.                         *)
Within(t) ==
  LET near[d \in 0..MaxDepth] ==
        IF d = 0 THEN {0}
        ELSE near[d - 1] \cup UNION {Children(t[i + 1]) : i \in near[d - 1]}
  IN  near

(* serialize_validate: children in range and after their parent, no        *)
(* internal node where the walk stops, every node reachable.               *)
Valid(t) ==
  /\ Len(t) \in 1..MaxNodes
  /\ \A i \in 0..(Len(t) - 1) : \A c \in Children(t[i + 1]) : c \in (i + 1)..(Len(t) - 1)
  /\ Within(t)[MaxDepth] = 0..(Len(t) - 1)
  /\ MaxDepth > 0 =>
       \A i \in Within(t)[MaxDepth] \ Within(t)[MaxDepth - 1] : t[i + 1].right = 0

(* A map entry that holds tree t: its nodes in front, a zeroed tail.       *)
Laid(t) == [i \in NodeIds |-> IF i < Len(t) THEN t[i + 1] ELSE Leaf(0)]

(* The index masked to the buffer, as the walk does before every access.   *)
Masked(i) == i % MaxNodes

Child(n, f) == IF f[n.feature] <= n.threshold THEN n.left ELSE n.right

(* One step of a descent: it stays at a leaf.                              *)
Onward(t, f, i) ==
  LET n == Laid(t)[i] IN IF n.right = 0 THEN i ELSE Masked(Child(n, f))

(* Where the descent from the root is after d steps.                       *)
Descent(t, f) ==
  LET at[d \in 0..MaxDepth] == IF d = 0 THEN 0 ELSE Onward(t, f, at[d - 1])
  IN  at

(* The index version of predict: the node where the descent ends.          *)
LeafOf(t, f) == Descent(t, f)[MaxDepth]

(* predict, the reference the daemon fits and validates with: descend at   *)
(* most MaxDepth times, and predict zero if no leaf is met.                *)
Predict(t, f) ==
  LET last == Laid(t)[LeafOf(t, f)]
  IN  IF last.right = 0 THEN last.left ELSE 0

=============================================================================
