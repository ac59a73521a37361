--------------------------- MODULE MlfqTreeProofs ---------------------------
(***************************************************************************)
(* Proofs about the fitting and the publishing of the decision tree: what  *)
(* a finished fit is, what a walk of the published tree answers, and that  *)
(* the two entries and the meta word implement a register of whole trees.  *)
(*                                                                         *)
(* The recursive functions of the model (a descent, the nodes within a     *)
(* number of edges, a sum) are reasoned about by induction on a set of     *)
(* naturals: every one that is not empty has a least element.              *)
(***************************************************************************)
EXTENDS MlfqTree, FiniteSetTheorems, SequenceTheorems, WellFoundedInduction, TLAPS

LEMMA LeastNat ==
  ASSUME NEW T, T \subseteq Nat, T # {}
  PROVE  \E x \in T : \A y \in T : x <= y
<1> DEFINE R == OpToRel(<, Nat)
<1>1. IsWellFoundedOn(R, Nat)
  BY NatLessThanWellFounded
<1>2. \E x \in T : \A y \in T : ~ (<<y, x>> \in R)
  <2> HIDE DEF R
  <2> QED BY <1>1, WFMin
<1>3. PICK x \in T : \A y \in T : ~ (<<y, x>> \in R)
  BY <1>2
<1>4. ASSUME NEW y \in T PROVE x <= y
  <2>1. ~(y < x)
    BY <1>3 DEF OpToRel
  <2> QED BY <2>1
<1> QED BY <1>4

LEMMA UpFromZero ==
  ASSUME NEW S, 0 \in S, \A n \in Nat : n \in S => n + 1 \in S
  PROVE  Nat \subseteq S
<1> SUFFICES ASSUME Nat \ S # {} PROVE FALSE
  OBVIOUS
<1>1. PICK x \in Nat \ S : \A y \in Nat \ S : x <= y
  BY LeastNat
<1>2. x - 1 \in Nat /\ x - 1 \in S
  BY <1>1
<1> QED BY <1>1, <1>2

(* Up to a bound.                                                          *)
LEMMA UpTo ==
  ASSUME NEW N \in Nat, NEW S, 0 \in S, \A n \in 0..(N - 1) : n \in S => n + 1 \in S
  PROVE  0..N \subseteq S
<1> DEFINE T == S \cup {n \in Nat : n > N}
<1>1. 0 \in T /\ \A n \in Nat : n \in T => n + 1 \in T
  OBVIOUS
<1>2. Nat \subseteq T
  <2> HIDE DEF T
  <2> QED BY <1>1, UpFromZero
<1> QED BY <1>2

-----------------------------------------------------------------------------
(* Sums.                                                                   *)

(* The recursion of SumFunctionOnSet, over the subsets of S.               *)
Iter(g, S, it) ==
  it = [s \in SUBSET S |->
          IF s = {} THEN 0
          ELSE g[CHOOSE x \in s : TRUE] + it[s \ {CHOOSE x \in s : TRUE}]]

LEMMA SubsetsCounted ==
  ASSUME NEW S, IsFiniteSet(S)
  PROVE  /\ Cardinality(S) \in Nat
         /\ \A s \in SUBSET S : /\ IsFiniteSet(s)
                                /\ Cardinality(s) \in 0..Cardinality(S)
                                /\ Cardinality(s) = 0 <=> s = {}
                                /\ \A x \in s : Cardinality(s \ {x}) = Cardinality(s) - 1
  BY FS_Subset, FS_CardinalityType, FS_EmptySet, FS_RemoveElement

LEMMA SumIter ==
  ASSUME NEW g, NEW S, IsFiniteSet(S)
  PROVE  \E it : Iter(g, S, it) /\ SumFunctionOnSet(g, S) = it[S]
<1> DEFINE Def(f, s) == IF s = {} THEN 0
                        ELSE g[CHOOSE x \in s : TRUE] + f[s \ {CHOOSE x \in s : TRUE}]
           Small(n) == {s \in SUBSET S : Cardinality(s) <= n}
           Some == {n \in Nat : \E f : f = [s \in Small(n) |-> Def(f, s)]}
<1>1. 0 \in Some
  <2> DEFINE f == [s \in Small(0) |-> 0]
  <2>1. ASSUME NEW s \in Small(0) PROVE f[s] = Def(f, s)
    <3>1. s = {}
      BY SubsetsCounted
    <3> QED BY <3>1
  <2>2. f = [s \in Small(0) |-> Def(f, s)]
    <3> HIDE DEF Small, Def
    <3> QED BY <2>1
  <2> HIDE DEF f, Small, Def
  <2> QED BY <2>2
<1>2. ASSUME NEW n \in Nat, n \in Some PROVE n + 1 \in Some
  <2>1. PICK f : f = [s \in Small(n) |-> Def(f, s)]
    BY <1>2
  <2> DEFINE h == [s \in Small(n + 1) |-> Def(f, s)]
  <2>2. ASSUME NEW s \in Small(n + 1) PROVE h[s] = Def(h, s)
    <3>1. CASE s = {}
      BY <3>1
    <3>2. CASE s # {}
      <4> DEFINE x == CHOOSE x \in s : TRUE
      <4>1. x \in s
        BY <3>2
      <4>2. s \ {x} \in Small(n)
        BY <4>1, SubsetsCounted
      <4>3. s \ {x} \in Small(n + 1)
        BY <4>2, SubsetsCounted
      <4>4. f[s \ {x}] = Def(f, s \ {x})
        <5> HIDE DEF Small, Def, x
        <5> QED BY <2>1, <4>2
      <4>5. h[s \ {x}] = Def(f, s \ {x})
        <5> HIDE DEF Small, Def, x
        <5> QED BY <4>3
      <4>6. h[s] = Def(f, s)
        <5> HIDE DEF Small, Def, x
        <5> QED OBVIOUS
      <4> HIDE DEF h, Small
      <4> QED BY <3>2, <4>4, <4>5, <4>6
    <3> QED BY <3>1, <3>2
  <2>3. h = [s \in Small(n + 1) |-> Def(h, s)]
    <3> HIDE DEF Small, Def
    <3> QED BY <2>2
  <2> HIDE DEF h, Small, Def
  <2> QED BY <2>3
<1>3. Cardinality(S) \in Some /\ Small(Cardinality(S)) = SUBSET S
  <2>1. Cardinality(S) \in Nat
    BY SubsetsCounted
  <2>2. Cardinality(S) \in Some
    <3> HIDE DEF Some
    <3> QED BY <1>1, <1>2, <2>1, UpFromZero
  <2>3. Small(Cardinality(S)) = SUBSET S
    BY SubsetsCounted
  <2> QED BY <2>2, <2>3
<1> DEFINE sum == CHOOSE f : f = [s \in SUBSET S |-> Def(f, s)]
<1>4. sum = [s \in SUBSET S |-> Def(sum, s)]
  <2>1. \E f : f = [s \in SUBSET S |-> Def(f, s)]
    <3> HIDE DEF Small, Def
    <3> QED BY <1>3
  <2> HIDE DEF Def
  <2> QED BY <2>1
<1>5. SumFunctionOnSet(g, S) = sum[S]
  BY DEF SumFunctionOnSet, FoldFunctionOnSet, MapThenFoldSet
<1>6. Iter(g, S, sum)
  <2> HIDE DEF sum
  <2> QED BY <1>4 DEF Iter
<1> QED BY <1>5, <1>6

(* Sums of naturals: the second at most m times the first, term by term.   *)
LEMMA SumsOrdered ==
  ASSUME NEW S, IsFiniteSet(S), NEW g \in [S -> Nat], NEW h \in [S -> Nat], NEW m \in Nat,
         \A x \in S : h[x] <= m * g[x]
  PROVE  /\ SumFunction(g) \in Nat /\ SumFunction(h) \in Nat
         /\ SumFunction(h) <= m * SumFunction(g)
         /\ (S # {} /\ \A x \in S : g[x] > 0) => SumFunction(g) > 0
<1>1. PICK a : Iter(g, S, a) /\ SumFunctionOnSet(g, S) = a[S]
  BY SumIter
<1>2. PICK b : Iter(h, S, b) /\ SumFunctionOnSet(h, S) = b[S]
  BY SumIter
<1> DEFINE Ok(s) == /\ a[s] \in Nat /\ b[s] \in Nat /\ b[s] <= m * a[s]
                    /\ (s # {} /\ \A x \in S : g[x] > 0) => a[s] > 0
           Small(n) == {s \in SUBSET S : Cardinality(s) <= n}
           Good == {n \in Nat : \A s \in Small(n) : Ok(s)}
<1>3. ASSUME NEW s \in SUBSET S, s # {} => \E x \in s : Ok(s \ {x}) /\ x = CHOOSE y \in s : TRUE
      PROVE  Ok(s)
  <2>1. CASE s = {}
    <3>1. a[s] = 0 /\ b[s] = 0
      BY <1>1, <1>2, <2>1 DEF Iter
    <3> QED BY <2>1, <3>1
  <2>2. CASE s # {}
    <3>1. PICK x \in s : Ok(s \ {x}) /\ x = CHOOSE y \in s : TRUE
      BY <1>3, <2>2
    <3>2. a[s] = g[x] + a[s \ {x}] /\ b[s] = h[x] + b[s \ {x}]
      BY <1>1, <1>2, <2>2, <3>1 DEF Iter
    <3>3. ASSUME NEW u \in Nat, NEW v \in Nat, NEW gx \in Nat, NEW hx \in Nat,
                 v <= m * u, hx <= m * gx
          PROVE  hx + v <= m * (gx + u)
      <4>1. m * (gx + u) = m * gx + m * u /\ m * gx \in Nat /\ m * u \in Nat
        OBVIOUS
      <4> QED BY <3>3, <4>1
    <3>4. h[x] + b[s \ {x}] <= m * (g[x] + a[s \ {x}])
      BY <3>1, <3>3
    <3> QED BY <2>2, <3>1, <3>2, <3>4
  <2> QED BY <2>1, <2>2
<1>4. 0 \in Good
  <2> SUFFICES ASSUME NEW s \in Small(0) PROVE Ok(s)
    OBVIOUS
  <2>1. s = {}
    BY SubsetsCounted
  <2> HIDE DEF Ok
  <2> QED BY <1>3, <2>1
<1>5. ASSUME NEW n \in Nat, n \in Good PROVE n + 1 \in Good
  <2> SUFFICES ASSUME NEW s \in Small(n + 1) PROVE Ok(s)
    OBVIOUS
  <2>1. ASSUME s # {} PROVE \E x \in s : Ok(s \ {x}) /\ x = CHOOSE y \in s : TRUE
    <3> DEFINE x == CHOOSE y \in s : TRUE
    <3>1. x \in s
      BY <2>1
    <3>2. s \ {x} \in Small(n)
      BY <3>1, SubsetsCounted
    <3>3. Ok(s \ {x})
      <4> HIDE DEF Ok, Small, x
      <4> QED BY <1>5, <3>2
    <3> HIDE DEF Ok
    <3> QED BY <3>1, <3>3
  <2> HIDE DEF Ok
  <2> QED BY <1>3, <2>1
<1>6. Cardinality(S) \in Good
  <2>1. Cardinality(S) \in Nat
    BY SubsetsCounted
  <2> HIDE DEF Good
  <2> QED BY <1>4, <1>5, <2>1, UpFromZero
<1>7. Ok(S)
  <2>1. S \in Small(Cardinality(S))
    BY SubsetsCounted
  <2> HIDE DEF Ok, Small
  <2> QED BY <1>6, <2>1
<1>8. DOMAIN g = S /\ DOMAIN h = S
  OBVIOUS
<1> QED BY <1>1, <1>2, <1>7, <1>8 DEF SumFunction

-----------------------------------------------------------------------------
(* Descents.                                                               *)

LEMMA NodeIdsFacts ==
  /\ MaxNodes \in Nat \ {0} /\ NodeIds = 0..(MaxNodes - 1) /\ 0 \in NodeIds
  /\ MaxDepth \in Nat /\ NrFeatures \in Nat \ {0} /\ MaxValue \in Nat
  /\ Values = 0..MaxValue
  BY NodesAssumption DEF NodesAssumption, NodeIds, Values

(* The recursive function Descent, unfolded.                               *)
LEMMA DescentDef ==
  ASSUME NEW t, NEW f
  PROVE  /\ Descent(t, f)[0] = 0
         /\ \A d \in 1..MaxDepth : Descent(t, f)[d] = Onward(t, f, Descent(t, f)[d - 1])
<1> DEFINE Def(q, d) == IF d = 0 THEN 0 ELSE Onward(t, f, q[d - 1])
           Some == {n \in Nat : \E q : q = [d \in 0..n |-> Def(q, d)]}
<1>1. 0 \in Some
  <2> DEFINE q == [d \in 0..0 |-> 0]
  <2>1. q = [d \in 0..0 |-> Def(q, d)]
    OBVIOUS
  <2> HIDE DEF q, Def
  <2> QED BY <2>1
<1>2. ASSUME NEW n \in Nat, n \in Some PROVE n + 1 \in Some
  <2>1. PICK q : q = [d \in 0..n |-> Def(q, d)]
    BY <1>2
  <2> DEFINE p == [d \in 0..(n + 1) |-> Def(q, d)]
  <2>2. ASSUME NEW d \in 0..(n + 1) PROVE p[d] = Def(p, d)
    <3>1. CASE d = 0
      BY <3>1
    <3>2. CASE d # 0
      <4>1. d - 1 \in 0..n /\ d - 1 \in 0..(n + 1)
        BY <3>2
      <4>2. q[d - 1] = Def(q, d - 1) /\ p[d - 1] = Def(q, d - 1) /\ p[d] = Def(q, d)
        <5> HIDE DEF Def
        <5> QED BY <2>1, <4>1
      <4> HIDE DEF p
      <4> QED BY <3>2, <4>2
    <3> QED BY <3>1, <3>2
  <2>3. p = [d \in 0..(n + 1) |-> Def(p, d)]
    <3> HIDE DEF Def
    <3> QED BY <2>2
  <2> HIDE DEF p, Def
  <2> QED BY <2>3
<1>3. MaxDepth \in Some
  <2> HIDE DEF Some
  <2> QED BY <1>1, <1>2, UpFromZero, NodeIdsFacts
<1>4. Descent(t, f) = [d \in 0..MaxDepth |-> Def(Descent(t, f), d)]
  <2> DEFINE at == CHOOSE at : at = [d \in 0..MaxDepth |-> Def(at, d)]
  <2>1. at = [d \in 0..MaxDepth |-> Def(at, d)]
    <3> HIDE DEF Def
    <3> QED BY <1>3
  <2>2. Descent(t, f) = at
    BY DEF Descent
  <2> HIDE DEF at, Def
  <2> QED BY <2>1, <2>2
<1> HIDE DEF Def
<1>5. \A d \in 0..MaxDepth : Descent(t, f)[d] = Def(Descent(t, f), d)
  BY <1>4
<1> QED BY <1>5, NodeIdsFacts DEF Def

(* The recursive function Within, unfolded.                                *)
LEMMA WithinDef ==
  ASSUME NEW t
  PROVE  /\ Within(t)[0] = {0}
         /\ \A d \in 1..MaxDepth :
              Within(t)[d] = Within(t)[d - 1]
                               \cup UNION {Children(t[i + 1]) : i \in Within(t)[d - 1]}
<1> DEFINE Def(q, d) == IF d = 0 THEN {0}
                        ELSE q[d - 1] \cup UNION {Children(t[i + 1]) : i \in q[d - 1]}
           Some == {n \in Nat : \E q : q = [d \in 0..n |-> Def(q, d)]}
<1>1. 0 \in Some
  <2> DEFINE q == [d \in 0..0 |-> {0}]
  <2>1. q = [d \in 0..0 |-> Def(q, d)]
    OBVIOUS
  <2> HIDE DEF q, Def
  <2> QED BY <2>1
<1>2. ASSUME NEW n \in Nat, n \in Some PROVE n + 1 \in Some
  <2>1. PICK q : q = [d \in 0..n |-> Def(q, d)]
    BY <1>2
  <2> DEFINE p == [d \in 0..(n + 1) |-> Def(q, d)]
  <2>2. ASSUME NEW d \in 0..(n + 1) PROVE p[d] = Def(p, d)
    <3>1. CASE d = 0
      BY <3>1
    <3>2. CASE d # 0
      <4>1. d - 1 \in 0..n /\ d - 1 \in 0..(n + 1)
        BY <3>2
      <4>2. q[d - 1] = Def(q, d - 1) /\ p[d - 1] = Def(q, d - 1) /\ p[d] = Def(q, d)
        <5> HIDE DEF Def
        <5> QED BY <2>1, <4>1
      <4> HIDE DEF p
      <4> QED BY <3>2, <4>2
    <3> QED BY <3>1, <3>2
  <2>3. p = [d \in 0..(n + 1) |-> Def(p, d)]
    <3> HIDE DEF Def
    <3> QED BY <2>2
  <2> HIDE DEF p, Def
  <2> QED BY <2>3
<1>3. MaxDepth \in Some
  <2> HIDE DEF Some
  <2> QED BY <1>1, <1>2, UpFromZero, NodeIdsFacts
<1>4. Within(t) = [d \in 0..MaxDepth |-> Def(Within(t), d)]
  <2> DEFINE at == CHOOSE at : at = [d \in 0..MaxDepth |-> Def(at, d)]
  <2>1. at = [d \in 0..MaxDepth |-> Def(at, d)]
    <3> HIDE DEF Def
    <3> QED BY <1>3
  <2>2. Within(t) = at
    BY DEF Within
  <2> HIDE DEF at, Def
  <2> QED BY <2>1, <2>2
<1> HIDE DEF Def
<1>5. \A d \in 0..MaxDepth : Within(t)[d] = Def(Within(t), d)
  BY <1>4
<1>6. 0 \in 0..MaxDepth /\ \A d \in 1..MaxDepth : d \in 0..MaxDepth /\ d # 0
  BY NodeIdsFacts
<1>7. Within(t)[0] = {0}
  BY <1>5, <1>6 DEF Def
<1>8. ASSUME NEW d \in 1..MaxDepth
      PROVE  Within(t)[d] = Within(t)[d - 1]
                              \cup UNION {Children(t[i + 1]) : i \in Within(t)[d - 1]}
  <2>1. Within(t)[d] = Def(Within(t), d) /\ d # 0
    BY <1>5, <1>6
  <2> QED BY <2>1, Zenon DEF Def
<1> QED BY <1>7, <1>8
(* A tree that fits an entry, each node before its children.               *)
Ordered(t) ==
  \A i \in 0..(Len(t) - 1) : \A c \in Children(t[i + 1]) : c \in (i + 1)..(Len(t) - 1)

Shaped(t) == t \in Seq(Node) /\ Len(t) \in 1..MaxNodes /\ Ordered(t)

LEMMA LeafNode ==
  ASSUME NEW v \in Values \cup NodeIds
  PROVE  Leaf(v) \in Node /\ Leaf(v).right = 0 /\ Leaf(v).left = v /\ Children(Leaf(v)) = {}
  BY NodeIdsFacts DEF Leaf, Node, Children

LEMMA LaidNodes ==
  ASSUME NEW t \in Seq(Node)
  PROVE  /\ Laid(t) \in [NodeIds -> Node]
         /\ \A i \in NodeIds : i < Len(t) => Laid(t)[i] = t[i + 1]
         /\ \A i \in NodeIds : i >= Len(t) => Laid(t)[i] = Leaf(0)
<1>1. Leaf(0) \in Node
  BY LeafNode, NodeIdsFacts
<1>2. ASSUME NEW i \in NodeIds, i < Len(t) PROVE t[i + 1] \in Node
  <2>1. i + 1 \in 1..Len(t)
    BY <1>2, NodeIdsFacts
  <2> QED BY <2>1
<1> QED BY <1>1, <1>2, NodeIdsFacts DEF Laid

LEMMA ShapedNodes ==
  ASSUME NEW t, Shaped(t), NEW i \in 0..(Len(t) - 1)
  PROVE  i \in NodeIds /\ Laid(t)[i] = t[i + 1] /\ t[i + 1] \in Node /\ i + 1 \in 1..Len(t)
  BY LaidNodes, NodeIdsFacts DEF Shaped

LEMMA MaskedIndex ==
  ASSUME NEW i \in Nat
  PROVE  Masked(i) \in NodeIds /\ (i \in NodeIds => Masked(i) = i)
  BY NodeIdsFacts DEF Masked

(* Where one step of a descent may lead.                                   *)
LEMMA OnwardTyped ==
  ASSUME NEW t \in Seq(Node), NEW f \in Feats, NEW i \in NodeIds
  PROVE  Onward(t, f, i) \in NodeIds
<1> DEFINE n == Laid(t)[i]
<1>1. n \in Node
  BY LaidNodes
<1>2. Child(n, f) \in Nat
  BY <1>1, NodeIdsFacts DEF Child, Node
<1> QED BY <1>2, MaskedIndex DEF Onward

LEMMA OnwardInside ==
  ASSUME NEW t, Shaped(t), NEW f \in Feats, NEW i \in 0..(Len(t) - 1)
  PROVE  /\ Onward(t, f, i) \in 0..(Len(t) - 1)
         /\ t[i + 1].right = 0 => Onward(t, f, i) = i
         /\ t[i + 1].right # 0 => Onward(t, f, i) = Child(t[i + 1], f)
<1>1. Laid(t)[i] = t[i + 1] /\ t[i + 1] \in Node
  BY ShapedNodes
<1>2. CASE t[i + 1].right = 0
  BY <1>1, <1>2 DEF Onward
<1>3. CASE t[i + 1].right # 0
  <2>1. Child(t[i + 1], f) \in Children(t[i + 1])
    BY <1>3 DEF Child, Children
  <2>2. Child(t[i + 1], f) \in (i + 1)..(Len(t) - 1) /\ Len(t) \in 1..MaxNodes
    BY <2>1 DEF Shaped, Ordered
  <2>3. Child(t[i + 1], f) \in NodeIds /\ Child(t[i + 1], f) \in 0..(Len(t) - 1)
    BY <2>2, NodeIdsFacts
  <2>4. Masked(Child(t[i + 1], f)) = Child(t[i + 1], f)
    BY <2>3, MaskedIndex, NodeIdsFacts
  <2> QED BY <1>1, <1>3, <2>3, <2>4 DEF Onward
<1> QED BY <1>2, <1>3

LEMMA DescentTyped ==
  ASSUME NEW t \in Seq(Node), NEW f \in Feats, NEW d \in 0..MaxDepth
  PROVE  Descent(t, f)[d] \in NodeIds
<1> DEFINE S == {e \in 0..MaxDepth : Descent(t, f)[e] \in NodeIds}
<1>1. 0 \in S
  BY DescentDef, NodeIdsFacts
<1>2. ASSUME NEW e \in 0..(MaxDepth - 1), e \in S PROVE e + 1 \in S
  <2>1. e + 1 \in 1..MaxDepth /\ (e + 1) - 1 = e
    BY NodeIdsFacts
  <2>2. Descent(t, f)[e + 1] = Onward(t, f, Descent(t, f)[e])
    BY <2>1, DescentDef
  <2>3. Onward(t, f, Descent(t, f)[e]) \in NodeIds
    BY <1>2, OnwardTyped
  <2> QED BY <2>1, <2>2, <2>3
<1>3. 0..MaxDepth \subseteq S
  <2> HIDE DEF S
  <2> QED BY <1>1, <1>2, UpTo, NodeIdsFacts
<1> QED BY <1>3

LEMMA DescentInside ==
  ASSUME NEW t, Shaped(t), NEW f \in Feats, NEW d \in 0..MaxDepth
  PROVE  Descent(t, f)[d] \in 0..(Len(t) - 1)
<1> DEFINE S == {e \in 0..MaxDepth : Descent(t, f)[e] \in 0..(Len(t) - 1)}
<1>1. 0 \in S
  <2>1. Len(t) \in Nat \ {0}
    BY NodeIdsFacts DEF Shaped
  <2> QED BY <2>1, DescentDef, NodeIdsFacts
<1>2. ASSUME NEW e \in 0..(MaxDepth - 1), e \in S PROVE e + 1 \in S
  <2>1. e + 1 \in 1..MaxDepth /\ (e + 1) - 1 = e
    BY NodeIdsFacts
  <2>2. Descent(t, f)[e + 1] = Onward(t, f, Descent(t, f)[e])
    BY <2>1, DescentDef
  <2>3. Onward(t, f, Descent(t, f)[e]) \in 0..(Len(t) - 1)
    BY <1>2, OnwardInside
  <2> QED BY <2>1, <2>2, <2>3
<1>3. 0..MaxDepth \subseteq S
  <2> HIDE DEF S
  <2> QED BY <1>1, <1>2, UpTo, NodeIdsFacts
<1> QED BY <1>3

(* A descent stays at the leaf it meets.                                   *)
LEMMA StaysAtLeaf ==
  ASSUME NEW t, NEW f, NEW d \in 0..MaxDepth, Laid(t)[Descent(t, f)[d]].right = 0
  PROVE  \A e \in d..MaxDepth : Descent(t, f)[e] = Descent(t, f)[d]
<1> DEFINE S == {k \in 0..(MaxDepth - d) : Descent(t, f)[d + k] = Descent(t, f)[d]}
<1>1. 0 \in S
  BY NodeIdsFacts
<1>2. ASSUME NEW k \in 0..((MaxDepth - d) - 1), k \in S PROVE k + 1 \in S
  <2>1. d + (k + 1) \in 1..MaxDepth /\ (d + (k + 1)) - 1 = d + k /\ k + 1 \in 0..(MaxDepth - d)
    BY NodeIdsFacts
  <2>2. Descent(t, f)[d + (k + 1)] = Onward(t, f, Descent(t, f)[d + k])
    BY <2>1, DescentDef
  <2>3. Onward(t, f, Descent(t, f)[d]) = Descent(t, f)[d]
    BY DEF Onward
  <2> QED BY <1>2, <2>1, <2>2, <2>3
<1>3. 0..(MaxDepth - d) \subseteq S
  <2>1. MaxDepth - d \in Nat
    BY NodeIdsFacts
  <2> HIDE DEF S
  <2> QED BY <1>1, <1>2, <2>1, UpTo
<1>4. ASSUME NEW e \in d..MaxDepth PROVE Descent(t, f)[e] = Descent(t, f)[d]
  <2>1. e - d \in 0..(MaxDepth - d) /\ d + (e - d) = e
    BY NodeIdsFacts
  <2> QED BY <1>3, <2>1
<1> QED BY <1>4

(* A tree that changed at leaf i only and grew at its end leads a descent  *)
(* that does not end at i where it led before, and one that does to i or   *)
(* below it.                                                               *)
TreeKept(t, u, i, X, f) ==
  /\ Shaped(t) /\ Shaped(u) /\ Len(t) <= Len(u)
  /\ i \in 0..(Len(t) - 1) /\ t[i + 1].right = 0
  /\ \A j \in 1..Len(t) : j # i + 1 => u[j] = t[j]
  /\ i \in X /\ \A x \in X : Onward(u, f, x) \in X

LEMMA DescentKept ==
  ASSUME NEW t, NEW u, NEW i, NEW X, NEW f \in Feats, TreeKept(t, u, i, X, f),
         NEW d \in 0..MaxDepth
  PROVE  /\ Descent(t, f)[d] # i => Descent(u, f)[d] = Descent(t, f)[d]
         /\ Descent(t, f)[d] = i => Descent(u, f)[d] \in X
<1> DEFINE D == Descent(t, f)  E == Descent(u, f)
           S == {e \in 0..MaxDepth : (D[e] # i => E[e] = D[e]) /\ (D[e] = i => E[e] \in X)}
<1>0. /\ Shaped(t) /\ Shaped(u) /\ Len(t) <= Len(u)
      /\ i \in 0..(Len(t) - 1) /\ t[i + 1].right = 0
      /\ \A j \in 1..Len(t) : j # i + 1 => u[j] = t[j]
      /\ i \in X /\ \A x \in X : Onward(u, f, x) \in X
  BY DEF TreeKept
<1>1. 0 \in S
  BY <1>0, DescentDef, NodeIdsFacts
<1>2. ASSUME NEW e \in 0..(MaxDepth - 1), e \in S PROVE e + 1 \in S
  <2>1. e + 1 \in 1..MaxDepth /\ (e + 1) - 1 = e /\ e \in 0..MaxDepth
    BY NodeIdsFacts
  <2>2. D[e + 1] = Onward(t, f, D[e]) /\ E[e + 1] = Onward(u, f, E[e])
    BY <2>1, DescentDef
  <2>3. D[e] \in 0..(Len(t) - 1)
    BY <1>0, <2>1, DescentInside
  <2>4. CASE D[e] = i
    <3>1. D[e + 1] = i
      BY <1>0, <2>2, <2>4, OnwardInside
    <3>2. E[e + 1] \in X
      BY <1>0, <1>2, <2>2, <2>4
    <3> HIDE DEF D, E
    <3> QED BY <2>1, <3>1, <3>2
  <2>5. CASE D[e] # i
    <3>1. E[e] = D[e] /\ D[e] + 1 \in 1..Len(t) /\ D[e] \in 0..(Len(u) - 1)
      BY <1>0, <1>2, <2>3, <2>5 DEF Shaped
    <3>2. u[D[e] + 1] = t[D[e] + 1]
      <4>1. D[e] + 1 # i + 1
        BY <1>0, <2>3, <2>5
      <4> HIDE DEF D
      <4> QED BY <1>0, <3>1, <4>1
    <3>3. Laid(u)[D[e]] = u[D[e] + 1] /\ Laid(t)[D[e]] = t[D[e] + 1]
      BY <1>0, <2>3, <3>1, ShapedNodes
    <3>4. E[e + 1] = D[e + 1]
      BY <2>2, <3>1, <3>2, <3>3 DEF Onward
    <3> HIDE DEF D, E
    <3> QED BY <1>0, <2>1, <3>4
  <2> QED BY <2>4, <2>5
<1>3. 0..MaxDepth \subseteq S
  <2> HIDE DEF S
  <2> QED BY <1>1, <1>2, UpTo, NodeIdsFacts
<1>4. d \in S
  BY <1>3
<1> HIDE DEF D, E
<1> QED BY <1>4 DEF D, E

(* The nodes within a number of edges.                                     *)
LEMMA WithinInside ==
  ASSUME NEW t, Shaped(t), NEW d \in 0..MaxDepth
  PROVE  Within(t)[d] \subseteq 0..(Len(t) - 1)
<1> DEFINE S == {e \in 0..MaxDepth : Within(t)[e] \subseteq 0..(Len(t) - 1)}
<1>0. Len(t) \in Nat \ {0}
  BY NodeIdsFacts DEF Shaped
<1>1. 0 \in S
  BY <1>0, WithinDef, NodeIdsFacts
<1>2. ASSUME NEW e \in 0..(MaxDepth - 1), e \in S PROVE e + 1 \in S
  <2>1. e + 1 \in 1..MaxDepth /\ (e + 1) - 1 = e /\ e + 1 \in 0..MaxDepth
    BY NodeIdsFacts
  <2>2. Within(t)[e + 1] = Within(t)[e] \cup UNION {Children(t[i + 1]) : i \in Within(t)[e]}
    BY <2>1, WithinDef
  <2>3. ASSUME NEW i \in Within(t)[e], NEW c \in Children(t[i + 1]) PROVE c \in 0..(Len(t) - 1)
    <3>1. i \in 0..(Len(t) - 1)
      BY <1>2
    <3>2. c \in (i + 1)..(Len(t) - 1)
      BY <3>1 DEF Shaped, Ordered
    <3> QED BY <1>0, <3>1, <3>2
  <2>4. Within(t)[e + 1] \subseteq 0..(Len(t) - 1)
    BY <1>2, <2>2, <2>3
  <2> QED BY <2>1, <2>4
<1>3. 0..MaxDepth \subseteq S
  <2> HIDE DEF S
  <2> QED BY <1>1, <1>2, UpTo, NodeIdsFacts
<1> QED BY <1>3

LEMMA WithinGrows ==
  ASSUME NEW t, NEW d \in 0..MaxDepth, NEW e \in d..MaxDepth
  PROVE  Within(t)[d] \subseteq Within(t)[e]
<1> DEFINE S == {k \in 0..(MaxDepth - d) : Within(t)[d] \subseteq Within(t)[d + k]}
<1>1. 0 \in S
  BY NodeIdsFacts
<1>2. ASSUME NEW k \in 0..((MaxDepth - d) - 1), k \in S PROVE k + 1 \in S
  <2>1. d + (k + 1) \in 1..MaxDepth /\ (d + (k + 1)) - 1 = d + k /\ k + 1 \in 0..(MaxDepth - d)
    BY NodeIdsFacts
  <2>2. Within(t)[d + k] \subseteq Within(t)[d + (k + 1)]
    BY <2>1, WithinDef
  <2> QED BY <1>2, <2>1, <2>2
<1>3. 0..(MaxDepth - d) \subseteq S
  <2>1. MaxDepth - d \in Nat
    BY NodeIdsFacts
  <2> HIDE DEF S
  <2> QED BY <1>1, <1>2, <2>1, UpTo
<1>4. e - d \in 0..(MaxDepth - d) /\ d + (e - d) = e
  BY NodeIdsFacts
<1> QED BY <1>3, <1>4

(* A tree whose nodes kept their children keeps what is within reach.      *)
LEMMA WithinKept ==
  ASSUME NEW t, NEW u, Shaped(t),
         \A j \in 1..Len(t) : Children(t[j]) \subseteq Children(u[j]),
         NEW d \in 0..MaxDepth
  PROVE  Within(t)[d] \subseteq Within(u)[d]
<1> DEFINE S == {e \in 0..MaxDepth : Within(t)[e] \subseteq Within(u)[e]}
<1>1. 0 \in S
  BY WithinDef, NodeIdsFacts
<1>2. ASSUME NEW e \in 0..(MaxDepth - 1), e \in S PROVE e + 1 \in S
  <2>1. e + 1 \in 1..MaxDepth /\ (e + 1) - 1 = e /\ e + 1 \in 0..MaxDepth /\ e \in 0..MaxDepth
    BY NodeIdsFacts
  <2>2. Within(t)[e + 1] = Within(t)[e] \cup UNION {Children(t[i + 1]) : i \in Within(t)[e]}
    BY <2>1, WithinDef
  <2>3. Within(u)[e + 1] = Within(u)[e] \cup UNION {Children(u[i + 1]) : i \in Within(u)[e]}
    BY <2>1, WithinDef
  <2>4. ASSUME NEW i \in Within(t)[e], NEW c \in Children(t[i + 1]) PROVE c \in Within(u)[e + 1]
    <3>1. i \in 0..(Len(t) - 1) /\ Len(t) \in Nat
      BY <2>1, WithinInside DEF Shaped
    <3>2. i + 1 \in 1..Len(t)
      BY <3>1
    <3>3. c \in Children(u[i + 1]) /\ i \in Within(u)[e]
      BY <1>2, <3>2
    <3> QED BY <2>3, <3>3
  <2>5. Within(t)[e + 1] \subseteq Within(u)[e + 1]
    BY <1>2, <2>2, <2>3, <2>4
  <2> QED BY <2>1, <2>5
<1>3. 0..MaxDepth \subseteq S
  <2> HIDE DEF S
  <2> QED BY <1>1, <1>2, UpTo, NodeIdsFacts
<1> QED BY <1>3

-----------------------------------------------------------------------------
(* Splits and leaves.                                                      *)

(* The window of the fit is one fit was called with.                       *)
Windowed ==
  /\ fit.window \in Seq(Sample)
  /\ Weights[Len(fit.window)] \in [1..Len(fit.window) -> Nat \ {0}]
  /\ fit.limits \in Limits

Group(M) == M # {} /\ M \subseteq 1..Len(fit.window)

LEMMA SampleFacts ==
  ASSUME Windowed, NEW i \in 1..Len(fit.window)
  PROVE  /\ Weight(i) \in Nat \ {0} /\ Label(i) \in Values
         /\ fit.window[i].feats \in Feats
         /\ \A f \in 0..(NrFeatures - 1) : Feat(i, f) \in Values
<1>1. fit.window[i] \in Sample
  BY DEF Windowed
<1> QED BY <1>1 DEF Windowed, Weight, Label, Feat, Sample, Feats

LEMMA GroupFinite ==
  ASSUME Windowed, NEW M, M \subseteq 1..Len(fit.window)
  PROVE  IsFiniteSet(M)
<1>1. Len(fit.window) \in Nat
  BY DEF Windowed
<1>2. IsFiniteSet(1..Len(fit.window))
  BY <1>1, FS_Interval
<1> QED BY <1>2, FS_Subset

LEMMA TotalsTyped ==
  ASSUME Windowed, NEW M, Group(M)
  PROVE  /\ Totals(M).w \in Nat \ {0} /\ Totals(M).wy \in Nat /\ Totals(M).sse \in Int
         /\ Totals(M).wy <= MaxValue * Totals(M).w
<1> DEFINE w == [i \in M |-> Weight(i)]
           wy == [i \in M |-> Weight(i) * Label(i)]
           wyy == [i \in M |-> Weight(i) * Label(i) * Label(i)]
<1>1. ASSUME NEW i \in M
      PROVE  /\ Weight(i) \in Nat \ {0} /\ Weight(i) * Label(i) \in Nat
             /\ Weight(i) * Label(i) * Label(i) \in Nat
             /\ Weight(i) * Label(i) <= MaxValue * Weight(i)
  <2>1. Weight(i) \in Nat \ {0} /\ Label(i) \in 0..MaxValue /\ MaxValue \in Nat
    BY SampleFacts, NodeIdsFacts DEF Group
  <2>2. ASSUME NEW a \in Nat, NEW y \in 0..MaxValue
        PROVE  a * y \in Nat /\ a * y * y \in Nat /\ a * y <= MaxValue * a
    <3>1. y \in Nat /\ MaxValue \in Nat /\ MaxValue - y \in Nat
      BY <2>1
    <3>2. a * (MaxValue - y) \in Nat
      BY <3>1
    <3>3. a * (MaxValue - y) = MaxValue * a - a * y /\ a * y \in Nat
      BY <3>1
    <3>4. a * y * y \in Nat
      BY <3>1, <3>3
    <3> QED BY <3>1, <3>2, <3>3, <3>4
  <2> QED BY <2>1, <2>2
<1>2. w \in [M -> Nat] /\ wy \in [M -> Nat] /\ wyy \in [M -> Nat]
  BY <1>1
<1>3. IsFiniteSet(M) /\ MaxValue \in Nat /\ 1 \in Nat
  BY GroupFinite, NodeIdsFacts DEF Group
<1>4. /\ \A i \in M : wy[i] <= MaxValue * w[i]
      /\ \A i \in M : wyy[i] <= 1 * wyy[i]
      /\ \A i \in M : w[i] > 0
      /\ M # {}
  BY <1>1, <1>2 DEF Group
<1>5. /\ SumFunction(w) \in Nat /\ SumFunction(wy) \in Nat /\ SumFunction(w) > 0
      /\ SumFunction(wy) <= MaxValue * SumFunction(w)
  <2> HIDE DEF w, wy
  <2> QED BY <1>2, <1>3, <1>4, SumsOrdered
<1>6. SumFunction(wyy) \in Nat
  <2> HIDE DEF wyy
  <2> QED BY <1>2, <1>3, <1>4, SumsOrdered
<1>7. Totals(M) = [w |-> SumFunction(w), wy |-> SumFunction(wy),
                   sse |-> SumFunction(w) * SumFunction(wyy) - SumFunction(wy) * SumFunction(wy)]
  BY DEF Totals
<1> HIDE DEF w, wy, wyy
<1> QED BY <1>5, <1>6, <1>7

(* A quotient of naturals is a mean's.                                     *)
LEMMA Quotient ==
  ASSUME NEW a \in Nat, NEW b \in Nat \ {0}, NEW m \in Nat, a <= m * b
  PROVE  a \div b \in 0..m
<1>1. a \div b \in Nat /\ (a \div b) * b <= a
  OBVIOUS
<1>2. ASSUME NEW q \in Nat, q * b <= m * b PROVE q <= m
  <2>1. CASE q > m
    <3>1. q - m \in Nat \ {0}
      BY <2>1
    <3>2. (q - m) * b > 0 /\ (q - m) * b = q * b - m * b
      BY <3>1
    <3> QED BY <1>2, <3>2
  <2> QED BY <2>1
<1> QED BY <1>1, <1>2

LEMMA MeanTyped ==
  ASSUME Windowed, NEW M, Group(M)
  PROVE  Mean(M) \in Values
  BY TotalsTyped, Quotient, NodeIdsFacts DEF Mean, Group

(* The mean of a set of samples is that of their window.                   *)
LEMMA MeanKept ==
  ASSUME NEW M, fit'.window = fit.window
  PROVE  Mean(M)' = Mean(M)
  BY DEF Mean, Totals, Weight, Label

(* The cuts that are considered leave two groups that are large enough.    *)
IsCut(M, c) ==
  /\ c.f \in 0..(NrFeatures - 1) /\ c.v \in Values
  /\ Group(Upto(M, c.f, c.v)) /\ Group(M \ Upto(M, c.f, c.v))
  /\ Cardinality(Upto(M, c.f, c.v)) >= fit.limits.min_leaf
  /\ Cardinality(M \ Upto(M, c.f, c.v)) >= fit.limits.min_leaf

(* The record of one cut.                                                  *)
Cut(M, f, v) ==
  LET l == Totals(Upto(M, f, v))
      r == Totals(M \ Upto(M, f, v))
  IN  [f |-> f, v |-> v, num |-> Reduction(Totals(M), l, r), den |-> l.w * r.w]

LEMMA CutsDef ==
  ASSUME NEW M
  PROVE  \A c \in Cuts(M) :
           /\ \E f \in 0..(NrFeatures - 1), v \in Values : c = Cut(M, f, v)
           /\ \A G \in {Upto(M, c.f, c.v), M \ Upto(M, c.f, c.v)} :
                G # {} /\ Cardinality(G) >= fit.limits.min_leaf
  BY DEF Cuts, Cut

LEMMA CutFacts ==
  ASSUME Windowed, NEW M, Group(M), NEW c \in Cuts(M)
  PROVE  IsCut(M, c) /\ c.num \in Int /\ c.den \in Nat \ {0}
<1>1. PICK f \in 0..(NrFeatures - 1), v \in Values : c = Cut(M, f, v)
  BY CutsDef
<1> DEFINE l == Totals(Upto(M, f, v))
           r == Totals(M \ Upto(M, f, v))
           m == Totals(M)
<1>2. c = [f |-> f, v |-> v, num |-> Reduction(m, l, r), den |-> l.w * r.w]
  BY <1>1 DEF Cut
<1>3. IsCut(M, c)
  <2>1. c.f = f /\ c.v = v
    BY <1>2
  <2>2. \A G \in {Upto(M, c.f, c.v), M \ Upto(M, c.f, c.v)} :
          G # {} /\ Cardinality(G) >= fit.limits.min_leaf
    BY CutsDef
  <2>3. Upto(M, c.f, c.v) \subseteq M
    BY DEF Upto
  <2> QED BY <2>1, <2>2, <2>3 DEF IsCut, Group
<1>4. /\ l.w \in Nat \ {0} /\ r.w \in Nat \ {0} /\ m.w \in Nat \ {0}
      /\ l.sse \in Int /\ r.sse \in Int /\ m.sse \in Int
  <2>1. Group(Upto(M, f, v)) /\ Group(M \ Upto(M, f, v))
    BY <1>2, <1>3 DEF IsCut
  <2> QED BY <2>1, TotalsTyped
<1> HIDE DEF l, r, m
<1>5. Reduction(m, l, r) \in Int /\ l.w * r.w \in Nat \ {0}
  BY <1>4 DEF Reduction
<1> QED BY <1>2, <1>3, <1>5

LEMMA CutsFinite ==
  ASSUME NEW M
  PROVE  IsFiniteSet(Cuts(M))
<1> DEFINE P == (0..(NrFeatures - 1)) \X Values
           Q == {p \in P : Cut(M, p[1], p[2]) \in Cuts(M)}
           g == [p \in Q |-> Cut(M, p[1], p[2])]
<1>1. IsFiniteSet(P)
  <2>1. IsFiniteSet(0..(NrFeatures - 1)) /\ IsFiniteSet(Values)
    BY FS_Interval, NodeIdsFacts
  <2> QED BY <2>1, FS_Product
<1>2. IsFiniteSet(Q)
  BY <1>1, FS_Subset
<1>3. \A c \in Cuts(M) : \E p \in Q : g[p] = c
  <2> SUFFICES ASSUME NEW c \in Cuts(M) PROVE \E p \in Q : g[p] = c
    OBVIOUS
  <2>1. PICK f \in 0..(NrFeatures - 1), v \in Values : c = Cut(M, f, v)
    BY CutsDef
  <2>2. <<f, v>> \in Q
    BY <2>1
  <2>3. g[<<f, v>>] = c
    BY <2>1, <2>2
  <2> QED BY <2>2, <2>3
<1>4. g \in [Q -> Cuts(M)]
  OBVIOUS
<1>5. g \in Surjection(Q, Cuts(M))
  <2> HIDE DEF g, Q
  <2> QED BY <1>3, <1>4 DEF Surjection
<1> HIDE DEF g, Q
<1> QED BY <1>2, <1>5, FS_Surjection

(* Some fraction of a finite set is no less than any other.                *)
LEMMA FractionsOrdered ==
  ASSUME NEW xn \in Int, NEW xd \in Nat \ {0}, NEW bn \in Int, NEW bd \in Nat \ {0},
         NEW dn \in Int, NEW dd \in Nat \ {0}, xn * bd >= bn * xd, bn * dd >= dn * bd
  PROVE  xn * dd >= dn * xd
<1>1. ASSUME NEW p \in Int, NEW q \in Int, NEW k \in Nat, p >= q PROVE p * k >= q * k
  <2>1. (p - q) * k >= 0 /\ (p - q) * k = p * k - q * k
    BY <1>1
  <2> QED BY <2>1
<1>2. (xn * bd) * dd >= (bn * xd) * dd /\ (bn * dd) * xd >= (dn * bd) * xd
  BY <1>1
<1>3. /\ (xn * bd) * dd = bd * (xn * dd) /\ (bn * xd) * dd = (bn * dd) * xd
      /\ (dn * bd) * xd = bd * (dn * xd)
  OBVIOUS
<1>4. bd * (xn * dd) >= bd * (dn * xd)
  BY <1>2, <1>3
<1>5. ASSUME NEW p \in Int, NEW q \in Int, bd * p >= bd * q PROVE p >= q
  <2>1. CASE p < q
    <3>1. q - p \in Nat \ {0}
      BY <2>1
    <3>2. bd * (q - p) > 0 /\ bd * (q - p) = bd * q - bd * p
      BY <3>1
    <3> QED BY <1>5, <3>2
  <2> QED BY <2>1
<1> QED BY <1>4, <1>5

LEMMA GreatestFraction ==
  ASSUME NEW C, IsFiniteSet(C), C # {}, \A c \in C : c.num \in Int /\ c.den \in Nat \ {0}
  PROVE  \E c \in C : \A d \in C : c.num * d.den >= d.num * c.den
<1> DEFINE Tops(T) == {c \in T : \A d \in T : c.num * d.den >= d.num * c.den}
           S == {n \in Nat : \A T \in SUBSET C : T # {} /\ Cardinality(T) <= n => Tops(T) # {}}
<1>1. 0 \in S
  <2> SUFFICES ASSUME NEW T \in SUBSET C, T # {}, Cardinality(T) <= 0 PROVE Tops(T) # {}
    OBVIOUS
  <2> QED BY SubsetsCounted
<1>2. ASSUME NEW n \in Nat, n \in S PROVE n + 1 \in S
  <2> SUFFICES ASSUME NEW T \in SUBSET C, T # {}, Cardinality(T) <= n + 1 PROVE Tops(T) # {}
    OBVIOUS
  <2>1. PICK x \in T : TRUE
    OBVIOUS
  <2>2. CASE T = {x}
    <3>1. x \in Tops(T)
      BY <2>2
    <3> QED BY <3>1
  <2>3. CASE T # {x}
    <3>1. T \ {x} # {} /\ T \ {x} \in SUBSET C /\ Cardinality(T \ {x}) <= n
      BY <2>1, <2>3, SubsetsCounted
    <3>2. PICK b \in Tops(T \ {x}) : TRUE
      BY <1>2, <3>1
    <3>3. CASE b.num * x.den >= x.num * b.den
      <4>1. b \in Tops(T)
        BY <3>2, <3>3
      <4> QED BY <4>1
    <3>4. CASE ~(b.num * x.den >= x.num * b.den)
      <4>1. x.num * b.den >= b.num * x.den
        BY <3>2, <3>4
      <4>2. ASSUME NEW d \in T PROVE x.num * d.den >= d.num * x.den
        <5>1. CASE d = x
          BY <5>1
        <5>2. CASE d # x
          <6>1. b.num * d.den >= d.num * b.den
            BY <3>2, <5>2
          <6>2. /\ x.num \in Int /\ x.den \in Nat \ {0} /\ b.num \in Int /\ b.den \in Nat \ {0}
                /\ d.num \in Int /\ d.den \in Nat \ {0}
            BY <3>2
          <6> HIDE DEF Tops
          <6> QED BY <4>1, <6>1, <6>2, FractionsOrdered
        <5> QED BY <5>1, <5>2
      <4>3. x \in Tops(T)
        BY <4>2
      <4> QED BY <4>3
    <3> QED BY <3>3, <3>4
  <2> QED BY <2>2, <2>3
<1>3. Cardinality(C) \in Nat /\ C \in SUBSET C
  BY SubsetsCounted
<1>4. Cardinality(C) \in S
  <2> HIDE DEF S
  <2> QED BY <1>1, <1>2, <1>3, UpFromZero
<1>5. Tops(C) # {}
  <2>1. Cardinality(C) <= Cardinality(C)
    BY <1>3
  <2> HIDE DEF Tops
  <2> QED BY <1>3, <1>4, <2>1
<1> QED BY <1>5

LEMMA BestCutChosen ==
  ASSUME Windowed, NEW M, Group(M), Cuts(M) # {}
  PROVE  BestCut(Cuts(M)) \in Cuts(M)
<1> DEFINE C == Cuts(M)
           best == {c \in C : \A d \in C : c.num * d.den >= d.num * c.den}
<1>1. \A c \in C : /\ c.num \in Int /\ c.den \in Nat \ {0}
                   /\ c.f \in Nat /\ c.v \in Nat
  <2> SUFFICES ASSUME NEW c \in C
               PROVE  c.num \in Int /\ c.den \in Nat \ {0} /\ c.f \in Nat /\ c.v \in Nat
    OBVIOUS
  <2>1. IsCut(M, c) /\ c.num \in Int /\ c.den \in Nat \ {0}
    BY CutFacts
  <2>2. c.f \in 0..(NrFeatures - 1) /\ c.v \in Values
    BY <2>1 DEF IsCut
  <2> QED BY <2>1, <2>2, NodeIdsFacts
<1>2. best # {}
  <2>1. IsFiniteSet(C) /\ C # {} /\ \A c \in C : c.num \in Int /\ c.den \in Nat \ {0}
    BY <1>1, CutsFinite
  <2>2. \E c \in C : \A d \in C : c.num * d.den >= d.num * c.den
    <3> HIDE DEF C
    <3> QED BY <2>1, GreatestFraction
  <2> HIDE DEF C
  <2> QED BY <2>2
<1> DEFINE fs == {c.f : c \in best}
<1>3. PICK f \in fs : \A g \in fs : f <= g
  <2>1. fs \subseteq Nat /\ fs # {}
    BY <1>1, <1>2
  <2> HIDE DEF fs
  <2> QED BY <2>1, LeastNat
<1> DEFINE vs == {c.v : c \in {d \in best : d.f = f}}
<1>4. PICK v \in vs : \A u \in vs : v <= u
  <2>1. vs \subseteq Nat /\ vs # {}
    BY <1>1, <1>3
  <2> HIDE DEF vs
  <2> QED BY <2>1, LeastNat
<1>5. PICK c \in best : c.f = f /\ c.v = v
  BY <1>4
<1>6. \A d \in best : c.f < d.f \/ (c.f = d.f /\ c.v <= d.v)
  <2> SUFFICES ASSUME NEW d \in best PROVE c.f < d.f \/ (c.f = d.f /\ c.v <= d.v)
    OBVIOUS
  <2>1. d.f \in fs /\ f <= d.f /\ f \in Nat /\ d.f \in Nat
    BY <1>1, <1>3
  <2>2. d.f = f => v <= d.v
    BY <1>4
  <2> QED BY <1>5, <2>1, <2>2
<1>7. BestCut(C) = CHOOSE e \in best : \A d \in best : e.f < d.f \/ (e.f = d.f /\ e.v <= d.v)
  BY DEF BestCut
<1> HIDE DEF best, C
<1>8. BestCut(C) \in best
  BY <1>5, <1>6, <1>7
<1> QED BY <1>8 DEF best, C

(* A threshold separates the two groups of its cut.                        *)
LEMMA ThresholdSplits ==
  ASSUME Windowed, NEW M, Group(M), NEW c, IsCut(M, c)
  PROVE  Threshold(M, c) \in Values /\ RoutedLeft(M, c.f, Threshold(M, c)) = Upto(M, c.f, c.v)
<1> DEFINE rest == M \ Upto(M, c.f, c.v)
           above == {Feat(i, c.f) : i \in rest}
           w == Min(above)
<1>1. \A i \in M : Feat(i, c.f) \in Values
  BY SampleFacts DEF Group, IsCut
<1>2. c.v \in Nat /\ \A i \in M : Feat(i, c.f) \in Nat
  BY <1>1, NodeIdsFacts DEF IsCut
<1>3. \A i \in rest : Feat(i, c.f) > c.v
  BY <1>2 DEF Upto
<1>4. above \subseteq Nat /\ above # {}
  BY <1>2 DEF IsCut, Group
<1>5. \E x \in above : \A y \in above : x <= y
  <2> HIDE DEF above
  <2> QED BY <1>4, LeastNat
<1>6. w \in above /\ \A y \in above : w <= y
  <2> HIDE DEF above
  <2> QED BY <1>5 DEF Min
<1>7. w \in Values /\ w > c.v /\ \A i \in rest : w <= Feat(i, c.f)
  <2>1. PICK i \in rest : w = Feat(i, c.f)
    BY <1>6
  <2> HIDE DEF w
  <2> QED BY <1>1, <1>3, <1>6, <2>1
<1>8. Threshold(M, c) = c.v + (w - c.v) \div 2
  BY DEF Threshold, Midpoint
<1> HIDE DEF w, above
<1>9. Threshold(M, c) \in Values /\ c.v <= Threshold(M, c) /\ Threshold(M, c) < w
  <2>1. w \in Nat /\ c.v \in Nat /\ w <= MaxValue
    BY <1>2, <1>7, NodeIdsFacts
  <2> QED BY <1>7, <1>8, <2>1, NodeIdsFacts
<1>10. ASSUME NEW i \in M PROVE Feat(i, c.f) <= Threshold(M, c) <=> Feat(i, c.f) <= c.v
  <2>1. CASE i \in rest
    <3>1. w <= Feat(i, c.f) /\ Feat(i, c.f) > c.v /\ Feat(i, c.f) \in Nat /\ w \in Nat
      BY <1>2, <1>3, <1>7, <2>1, NodeIdsFacts
    <3>2. Threshold(M, c) \in Nat
      BY <1>9, NodeIdsFacts
    <3> HIDE DEF rest
    <3> QED BY <1>2, <1>9, <3>1, <3>2
  <2>2. CASE i \notin rest
    <3>1. Feat(i, c.f) <= c.v
      BY <2>2 DEF Upto
    <3>2. Threshold(M, c) \in Nat
      BY <1>9, NodeIdsFacts
    <3> HIDE DEF rest
    <3> QED BY <1>2, <1>9, <3>1, <3>2
  <2> QED BY <2>1, <2>2
<1> QED BY <1>9, <1>10 DEF RoutedLeft, Upto

-----------------------------------------------------------------------------
(* The fit.                                                                *)

(* A node still to fill: its number, its samples, its depth.               *)
Work == [idx : NodeIds, samples : SUBSET Nat, depth : 0..MaxDepth]

FitTyped ==
  fit \in [window : Seq(Sample), limits : Limits, nodes : Seq(Node), queue : Seq(Work)]

(* The samples whose descent ends at node l.                               *)
Mates(l) == {i \in 1..Len(fit.window) : LeafOf(fit.nodes, fit.window[i].feats) = l}

(* A node to fill is a leaf that the walk reaches in as many steps as it   *)
(* is deep, and has the samples that reach it.                             *)
Filling(q) ==
  /\ q.idx \in 0..(Len(fit.nodes) - 1) /\ fit.nodes[q.idx + 1].right = 0
  /\ q.depth \in 0..fit.limits.max_depth
  /\ q.idx \in Within(fit.nodes)[q.depth]
  /\ q.samples = Mates(q.idx)
  /\ \A f \in Feats : LeafOf(fit.nodes, f) = q.idx => Descent(fit.nodes, f)[q.depth] = q.idx

(* An internal node is above the depth limit.                              *)
Placed(j) ==
  /\ j \in Within(fit.nodes)[fit.limits.max_depth]
  /\ fit.nodes[j + 1].right # 0 =>
       \E d \in 0..(fit.limits.max_depth - 1) : j \in Within(fit.nodes)[d]

(* A leaf has samples, enough of them if it was split off.                 *)
Populated(l) ==
  /\ Mates(l) # {}
  /\ Len(fit.nodes) > 1 => Cardinality(Mates(l)) >= fit.limits.min_leaf

ToDo(l) == \E k \in 1..Len(fit.queue) : fit.queue[k].idx = l

Settled(l) == fit.nodes[l + 1].left = Mean(Mates(l))

Growing ==
  /\ Windowed
  /\ Shaped(fit.nodes) /\ Len(fit.nodes) <= fit.limits.max_nodes
  /\ \A j \in 0..(Len(fit.nodes) - 1) : Placed(j)
  /\ \A l \in 0..(Len(fit.nodes) - 1) :
       fit.nodes[l + 1].right = 0 => Populated(l) /\ (Settled(l) \/ ToDo(l))
  /\ \A k \in 1..Len(fit.queue) : Filling(fit.queue[k])
  /\ \A k, m \in 1..Len(fit.queue) : k # m => fit.queue[k].idx # fit.queue[m].idx

FitInv ==
  /\ FitTyped
  /\ IF fit.window = <<>> THEN fit = NoFit ELSE Growing

LEMMA LimitsFacts ==
  ASSUME NEW l \in Limits
  PROVE  /\ l.max_depth \in 0..MaxDepth /\ l.max_depth \in Nat
         /\ l.min_leaf \in Nat \ {0} /\ l.max_nodes \in 1..MaxNodes /\ l.max_nodes \in Nat
         /\ l.max_nodes <= MaxNodes
  BY NodeIdsFacts DEF Limits

LEMMA FitBegins == FitInit => FitInv
<1> SUFFICES ASSUME FitInit PROVE FitInv
  OBVIOUS
<1>1. [max_depth |-> 0, min_leaf |-> 1, max_nodes |-> 1] \in Limits
  BY NodeIdsFacts DEF Limits
<1>2. fit = NoFit /\ fit.window = <<>>
  BY DEF FitInit, NoFit
<1>3. <<>> \in Seq(Sample) /\ <<>> \in Seq(Node) /\ <<>> \in Seq(Work)
  OBVIOUS
<1>4. FitTyped
  BY <1>1, <1>2, <1>3 DEF FitTyped, NoFit
<1> QED BY <1>2, <1>4 DEF FitInv

LEMMA FitDropped == ASSUME fit' = NoFit PROVE FitInv'
<1>1. FitInit'
  BY DEF FitInit
<1> QED BY <1>1, FitBegins, PTL

LEMMA FitBeginStep ==
  ASSUME NEW jobs, jobs \subseteq Jobs, FitBegin(jobs) PROVE FitInv'
<1>a. PICK j \in jobs :
        fit' = [window |-> j.window, limits |-> j.limits, nodes |-> <<Leaf(0)>>,
                queue |-> <<[idx |-> 0, samples |-> 1..Len(j.window), depth |-> 0]>>]
  BY DEF FitBegin
<1>b. PICK root : root = [idx |-> 0, samples |-> 1..Len(j.window), depth |-> 0]
  OBVIOUS
<1>c. PICK t : t = <<Leaf(0)>>
  OBVIOUS
<1>1. fit' = [window |-> j.window, limits |-> j.limits, nodes |-> t, queue |-> <<root>>]
  BY <1>a, <1>b, <1>c
<1>2. /\ j.limits \in Limits /\ j.window \in Seq(Sample) /\ j.window # <<>>
      /\ Weights[Len(j.window)] \in [1..Len(j.window) -> Nat \ {0}]
  BY FitAssumption DEF FitAssumption
<1>3. /\ fit'.window = j.window /\ fit'.limits = j.limits
      /\ fit'.nodes = t /\ fit'.queue = <<root>>
  BY <1>1
<1>4. Leaf(0) \in Node /\ Leaf(0).right = 0 /\ Children(Leaf(0)) = {}
  BY LeafNode, NodeIdsFacts
<1>5. t \in Seq(Node) /\ Len(t) = 1 /\ t[1] = Leaf(0)
  BY <1>4, <1>c
<1>6. Len(j.window) \in Nat \ {0}
  BY <1>2
<1>7. root \in Work
  BY <1>b, <1>6, NodeIdsFacts DEF Work
<1>8. FitTyped'
  <2>1. <<root>> \in Seq(Work)
    BY <1>7
  <2> QED BY <1>1, <1>2, <1>5, <2>1 DEF FitTyped
<1>9. Shaped(t)
  BY <1>4, <1>5, NodeIdsFacts DEF Shaped, Ordered
<1>10. \A f \in Feats, d \in 0..MaxDepth : Descent(t, f)[d] = 0
  <2> SUFFICES ASSUME NEW f \in Feats, NEW d \in 0..MaxDepth PROVE Descent(t, f)[d] = 0
    OBVIOUS
  <2>1. Descent(t, f)[d] \in 0..(1 - 1)
    BY <1>5, <1>9, DescentInside
  <2> QED BY <2>1
<1>11. \A f \in Feats : LeafOf(t, f) = 0
  BY <1>10, NodeIdsFacts DEF LeafOf
<1>12. Mates(0)' = 1..Len(j.window)
  <2>1. \A i \in 1..Len(j.window) : j.window[i].feats \in Feats
    <3>1. \A i \in 1..Len(j.window) : j.window[i] \in Sample
      BY <1>2
    <3> QED BY <3>1 DEF Sample
  <2> QED BY <1>3, <1>11, <2>1 DEF Mates
<1>13. Growing'
  <2>1. Windowed'
    BY <1>2, <1>3 DEF Windowed
  <2>2. 0 \in Within(t)[0] /\ 0 \in Within(t)[j.limits.max_depth]
    BY <1>2, WithinDef, WithinGrows, LimitsFacts, NodeIdsFacts
  <2>3. Filling(root)'
    <3>1. /\ root.idx = 0 /\ root.depth = 0 /\ root.samples = 1..Len(j.window)
      BY <1>b
    <3>2. root.samples = Mates(root.idx)'
      BY <1>3, <1>12, <3>1
    <3>3. \A f \in Feats : Descent(t, f)[root.depth] = root.idx
      BY <1>10, <3>1, NodeIdsFacts
    <3>4. 0 \in 0..j.limits.max_depth
      BY <1>2, LimitsFacts
    <3> QED BY <1>3, <1>4, <1>5, <2>2, <3>1, <3>2, <3>3, <3>4 DEF Filling
  <2>4. Placed(0)'
    BY <1>3, <1>4, <1>5, <2>2 DEF Placed
  <2>5. Populated(0)'
    <3>1. 1 \in Mates(0)' /\ ~(Len(fit'.nodes) > 1)
      BY <1>3, <1>5, <1>6, <1>12
    <3> QED BY <3>1 DEF Populated
  <2>6. ToDo(0)'
    BY <1>3, <1>b DEF ToDo
  <2>7. Len(fit'.queue) = 1 /\ fit'.queue[1] = root /\ 0..(Len(t) - 1) = {0}
    BY <1>3, <1>5
  <2>8. Len(t) <= fit'.limits.max_nodes
    BY <1>2, <1>3, <1>5, LimitsFacts
  <2>9. 1..1 = {1}
    OBVIOUS
  <2>10. \A l \in 0..(Len(fit'.nodes) - 1) :
           Placed(l)' /\ Populated(l)' /\ (Settled(l)' \/ ToDo(l)')
    BY <1>3, <2>4, <2>5, <2>6, <2>7
  <2>11. (\A k \in 1..Len(fit.queue) : Filling(fit.queue[k]))'
    BY <2>3, <2>7, <2>9 DEF Filling
  <2>12. \A k, m \in 1..Len(fit'.queue) : k # m => fit'.queue[k].idx # fit'.queue[m].idx
    BY <2>7, <2>9
  <2> QED BY <1>3, <1>9, <2>1, <2>8, <2>10, <2>11, <2>12 DEF Growing
<1>14. fit'.window # <<>>
  BY <1>2, <1>3
<1> QED BY <1>8, <1>13, <1>14 DEF FitInv

(* The tree changed at leaf i only, and below it.                          *)
KeptBut(i, X) ==
  /\ fit'.window = fit.window /\ fit'.limits = fit.limits
  /\ \A x \in X : x = i \/ x \notin 0..(Len(fit.nodes) - 1)
  /\ \A f \in Feats : TreeKept(fit.nodes, fit'.nodes, i, X, f)

LEMMA TreeKeptFacts ==
  ASSUME NEW i, NEW X, KeptBut(i, X)
  PROVE  /\ Shaped(fit.nodes) /\ Shaped(fit'.nodes) /\ Len(fit.nodes) <= Len(fit'.nodes)
         /\ i \in 0..(Len(fit.nodes) - 1) /\ fit.nodes[i + 1].right = 0
         /\ \A j \in 1..Len(fit.nodes) : j # i + 1 => fit'.nodes[j] = fit.nodes[j]
         /\ i \in X
<1>1. PICK f : f \in Feats
  <2>1. [k \in 0..(NrFeatures - 1) |-> 0] \in Feats
    BY NodeIdsFacts DEF Feats
  <2> QED BY <2>1
<1>2. TreeKept(fit.nodes, fit'.nodes, i, X, f)
  BY <1>1 DEF KeptBut
<1> QED BY <1>2 DEF TreeKept

LEMMA LeavesKept ==
  ASSUME Windowed, Shaped(fit.nodes), NEW i, NEW X, KeptBut(i, X)
  PROVE  /\ \A f \in Feats, d \in 0..MaxDepth :
              Descent(fit.nodes, f)[d] # i =>
                Descent(fit'.nodes, f)[d] = Descent(fit.nodes, f)[d]
         /\ \A f \in Feats : /\ LeafOf(fit.nodes, f) # i =>
                                  LeafOf(fit'.nodes, f) = LeafOf(fit.nodes, f)
                             /\ LeafOf(fit.nodes, f) = i <=> LeafOf(fit'.nodes, f) \in X
         /\ \A l \in 0..(Len(fit.nodes) - 1) : l # i => Mates(l)' = Mates(l)
<1> DEFINE t == fit.nodes  u == fit'.nodes
<1>1. ASSUME NEW f \in Feats, NEW d \in 0..MaxDepth
      PROVE  /\ Descent(t, f)[d] # i => Descent(u, f)[d] = Descent(t, f)[d]
             /\ Descent(t, f)[d] = i => Descent(u, f)[d] \in X
             /\ Descent(t, f)[d] \in 0..(Len(t) - 1)
  <2>1. TreeKept(t, u, i, X, f) /\ Shaped(t)
    BY DEF KeptBut
  <2> HIDE DEF t, u
  <2>2. Descent(t, f)[d] \in 0..(Len(t) - 1)
    BY <2>1, DescentInside
  <2> QED BY <2>1, <2>2, DescentKept
<1>2. \A x \in X : x = i \/ x \notin 0..(Len(t) - 1)
  BY DEF KeptBut
<1>3. ASSUME NEW f \in Feats
      PROVE  /\ LeafOf(t, f) # i => LeafOf(u, f) = LeafOf(t, f)
             /\ LeafOf(t, f) = i <=> LeafOf(u, f) \in X
             /\ LeafOf(t, f) \in 0..(Len(t) - 1)
  <2>1. MaxDepth \in 0..MaxDepth
    BY NodeIdsFacts
  <2> HIDE DEF t, u
  <2> QED BY <1>1, <1>2, <2>1 DEF LeafOf
<1>4. ASSUME NEW l \in 0..(Len(t) - 1), l # i PROVE Mates(l)' = Mates(l)
  <2>1. \A k \in 1..Len(fit.window) : fit.window[k].feats \in Feats
    BY SampleFacts
  <2>2. fit'.window = fit.window /\ i \in X
    BY TreeKeptFacts DEF KeptBut
  <2>3. \A f \in Feats : LeafOf(u, f) = l <=> LeafOf(t, f) = l
    <3> HIDE DEF t, u
    <3> QED BY <1>2, <1>3, <1>4
  <2> QED BY <2>1, <2>2, <2>3 DEF Mates
<1> QED BY <1>1, <1>3, <1>4

(* The other nodes to fill, and the other leaves.                          *)
LEMMA OthersKept ==
  ASSUME Growing, NEW i, NEW X, KeptBut(i, X),
         \A d \in 0..MaxDepth : Within(fit.nodes)[d] \subseteq Within(fit'.nodes)[d]
  PROVE  /\ \A q : Filling(q) /\ q.idx # i => Filling(q)'
         /\ \A l \in 0..(Len(fit.nodes) - 1) :
              l # i => /\ Placed(l)'
                       /\ fit'.nodes[l + 1] = fit.nodes[l + 1]
                       /\ Populated(l) => Populated(l)'
                       /\ Settled(l) => Settled(l)'
<1>0. /\ Windowed /\ Shaped(fit.nodes) /\ fit.limits \in Limits
      /\ fit'.window = fit.window /\ fit'.limits = fit.limits
      /\ fit.limits.max_depth \in 0..MaxDepth
      /\ Len(fit.nodes) \in Nat /\ Len(fit'.nodes) \in Nat /\ Len(fit.nodes) <= Len(fit'.nodes)
  <2>1. Windowed /\ Shaped(fit.nodes) /\ fit.limits \in Limits
    BY DEF Growing, Windowed
  <2>2. Shaped(fit'.nodes) /\ Len(fit.nodes) <= Len(fit'.nodes)
    BY TreeKeptFacts
  <2>3. Len(fit.nodes) \in Nat /\ Len(fit'.nodes) \in Nat
    BY <2>1, <2>2 DEF Shaped
  <2> QED BY <2>1, <2>2, <2>3, LimitsFacts DEF KeptBut
<1>1. \A l \in 0..(Len(fit.nodes) - 1) : l # i => Mates(l)' = Mates(l)
  BY <1>0, LeavesKept
<1>2. ASSUME NEW l \in 0..(Len(fit.nodes) - 1), l # i
      PROVE  fit'.nodes[l + 1] = fit.nodes[l + 1] /\ l \in 0..(Len(fit'.nodes) - 1)
  <2>1. l + 1 \in 1..Len(fit.nodes) /\ l + 1 # i + 1
    BY <1>0, <1>2, TreeKeptFacts
  <2> QED BY <1>0, <2>1, TreeKeptFacts
<1>3. ASSUME NEW q, Filling(q), q.idx # i PROVE Filling(q)'
  <2>1. /\ q.idx \in 0..(Len(fit.nodes) - 1) /\ fit.nodes[q.idx + 1].right = 0
        /\ q.depth \in 0..fit.limits.max_depth /\ q.depth \in 0..MaxDepth
        /\ q.idx \in Within(fit.nodes)[q.depth] /\ q.samples = Mates(q.idx)
    BY <1>0, <1>3, NodeIdsFacts DEF Filling
  <2>2. ASSUME NEW f \in Feats, LeafOf(fit'.nodes, f) = q.idx
        PROVE  Descent(fit'.nodes, f)[q.depth] = q.idx
    <3>1. LeafOf(fit.nodes, f) = q.idx
      <4>1. q.idx \notin X
        BY <1>3, <2>1 DEF KeptBut
      <4>2. /\ LeafOf(fit.nodes, f) # i => LeafOf(fit'.nodes, f) = LeafOf(fit.nodes, f)
            /\ LeafOf(fit.nodes, f) = i <=> LeafOf(fit'.nodes, f) \in X
        BY <1>0, LeavesKept
      <4> QED BY <2>2, <4>1, <4>2
    <3>2. Descent(fit.nodes, f)[q.depth] = q.idx
      BY <1>3, <3>1 DEF Filling
    <3> QED BY <1>0, <1>3, <2>1, <3>2, LeavesKept
  <2>3. /\ q.idx \in 0..(Len(fit'.nodes) - 1) /\ fit'.nodes[q.idx + 1].right = 0
        /\ q.samples = Mates(q.idx)'
    BY <1>1, <1>2, <1>3, <2>1
  <2> QED BY <1>0, <2>1, <2>2, <2>3 DEF Filling
<1>4. ASSUME NEW l \in 0..(Len(fit.nodes) - 1), l # i
      PROVE  Placed(l)' /\ (Populated(l) => Populated(l)') /\ (Settled(l) => Settled(l)')
  <2>1. fit'.nodes[l + 1] = fit.nodes[l + 1] /\ Mates(l)' = Mates(l)
    BY <1>1, <1>2, <1>4
  <2>2. Placed(l)'
    <3>1. Placed(l)
      BY DEF Growing
    <3>2. \A d \in 0..(fit.limits.max_depth - 1) : d \in 0..MaxDepth
      BY <1>0, NodeIdsFacts
    <3> QED BY <1>0, <2>1, <3>1, <3>2 DEF Placed
  <2>3. ASSUME Populated(l) PROVE Populated(l)'
    <3>1. Len(fit.nodes) > 1
      <4>1. l \in Nat /\ i \in Nat /\ l < Len(fit.nodes) /\ i < Len(fit.nodes)
        BY <1>0, TreeKeptFacts
      <4> QED BY <1>0, <1>4, <4>1
    <3> QED BY <1>0, <2>1, <2>3, <3>1 DEF Populated
  <2>4. ASSUME Settled(l) PROVE Settled(l)'
    <3>1. Mean(Mates(l))' = Mean(Mates(l))
      BY <1>0, <2>1 DEF Mean, Totals, Weight, Label
    <3> QED BY <2>1, <2>4, <3>1 DEF Settled
  <2> QED BY <2>2, <2>3, <2>4
<1> QED BY <1>2, <1>3, <1>4

(* What both ways to fill a node start from.                               *)
LEMMA HeadFacts ==
  ASSUME FitInv, Fitting
  PROVE  /\ Growing /\ fit.window # <<>> /\ fit.limits \in Limits /\ Shaped(fit.nodes)
         /\ Len(fit.nodes) \in 1..MaxNodes
         /\ Head(fit.queue) \in Work /\ Filling(Head(fit.queue))
         /\ Head(fit.queue) = fit.queue[1]
         /\ Tail(fit.queue) \in Seq(Work)
         /\ Len(fit.queue) \in Nat \ {0} /\ Len(Tail(fit.queue)) = Len(fit.queue) - 1
         /\ \A k \in 1..Len(Tail(fit.queue)) :
              /\ k + 1 \in 1..Len(fit.queue) /\ k + 1 # 1
              /\ Tail(fit.queue)[k] = fit.queue[k + 1]
              /\ Filling(Tail(fit.queue)[k])
              /\ Tail(fit.queue)[k].idx # Head(fit.queue).idx
<1>1. fit.queue \in Seq(Work) /\ fit.queue # <<>>
  BY DEF FitInv, FitTyped, Fitting
<1>2. fit.window # <<>> /\ Growing
  BY <1>1 DEF FitInv, NoFit
<1>3. Len(fit.queue) \in Nat \ {0}
  BY <1>1
<1>4. 1 \in 1..Len(fit.queue)
  BY <1>3
<1>5. /\ Head(fit.queue) = fit.queue[1] /\ fit.queue[1] \in Work
      /\ Tail(fit.queue) \in Seq(Work) /\ Len(Tail(fit.queue)) = Len(fit.queue) - 1
  BY <1>1, <1>4
<1>6. ASSUME NEW k \in 1..Len(Tail(fit.queue))
      PROVE  /\ k + 1 \in 1..Len(fit.queue) /\ k + 1 # 1
             /\ Tail(fit.queue)[k] = fit.queue[k + 1]
  BY <1>1, <1>3, <1>5
<1>7. ASSUME NEW k \in 1..Len(fit.queue)
      PROVE  Filling(fit.queue[k]) /\ (k # 1 => fit.queue[k].idx # fit.queue[1].idx)
  BY <1>2, <1>4 DEF Growing
<1>8. /\ Windowed /\ fit.limits \in Limits /\ Shaped(fit.nodes)
      /\ Len(fit.nodes) \in 1..MaxNodes
  BY <1>2 DEF Growing, Windowed, Shaped
<1>9. ASSUME NEW k \in 1..Len(Tail(fit.queue))
      PROVE  /\ Filling(Tail(fit.queue)[k])
             /\ Tail(fit.queue)[k].idx # Head(fit.queue).idx
  BY <1>5, <1>6, <1>7
<1>10. Filling(Head(fit.queue))
  BY <1>4, <1>5, <1>7
<1> QED BY <1>2, <1>3, <1>5, <1>6, <1>8, <1>9, <1>10

LEMMA GroupOfFilling ==
  ASSUME Growing, NEW q, Filling(q)
  PROVE  Group(q.samples)
<1>1. /\ q.idx \in 0..(Len(fit.nodes) - 1) /\ fit.nodes[q.idx + 1].right = 0
      /\ q.samples = Mates(q.idx)
  BY DEF Filling
<1>2. Populated(q.idx)
  BY <1>1 DEF Growing
<1> QED BY <1>1, <1>2 DEF Populated, Mates, Group

(* The nodes that remain to do once the head of the queue is filled.       *)
LEMMA OthersToDo ==
  ASSUME FitInv, Fitting, NEW l, ToDo(l), l # Head(fit.queue).idx
  PROVE  \E k \in 1..Len(Tail(fit.queue)) : Tail(fit.queue)[k].idx = l
<1>1. PICK k \in 1..Len(fit.queue) : fit.queue[k].idx = l
  BY DEF ToDo
<1>2. k # 1 /\ Len(fit.queue) \in Nat \ {0}
  BY <1>1, HeadFacts
<1>3. k - 1 \in 1..Len(Tail(fit.queue)) /\ (k - 1) + 1 = k
  BY <1>2, HeadFacts
<1>4. Tail(fit.queue)[k - 1] = fit.queue[k]
  BY <1>3, HeadFacts
<1> QED BY <1>1, <1>3, <1>4

LEMMA SettleStep == ASSUME FitInv, Settle PROVE FitInv'
<1>0. Fitting
  BY DEF Settle
<1>a. PICK q : q = Head(fit.queue)
  OBVIOUS
<1>b. PICK i, leaf, t, rest :
        i = q.idx /\ leaf = Leaf(Mean(q.samples)) /\ t = fit.nodes /\ rest = Tail(fit.queue)
  OBVIOUS
<1>c. PICK u : u = [t EXCEPT ![i + 1] = leaf]
  OBVIOUS
<1>1. fit' = [fit EXCEPT !.nodes[i + 1] = leaf, !.queue = Tail(@)]
  BY <1>a, <1>b DEF Settle
<1>2. /\ Growing /\ fit.window # <<>> /\ Shaped(t) /\ Filling(q) /\ q \in Work
      /\ fit.limits \in Limits /\ Windowed
      /\ Len(t) \in Nat \ {0} /\ Len(t) <= MaxNodes
  BY <1>0, <1>a, <1>b, HeadFacts, NodeIdsFacts DEF Growing
<1>3. /\ i \in 0..(Len(t) - 1) /\ i + 1 \in 1..Len(t) /\ t[i + 1].right = 0
      /\ i \in NodeIds /\ q.samples = Mates(i)
  BY <1>2, <1>b, NodeIdsFacts DEF Filling
<1>4. leaf \in Node /\ leaf.right = 0 /\ Children(leaf) = {} /\ leaf.left = Mean(Mates(i))
  <2>1. Mean(q.samples) \in Values
    BY <1>2, GroupOfFilling, MeanTyped
  <2> QED BY <1>3, <1>b, <2>1, LeafNode
<1>5. /\ fit'.nodes = u /\ fit'.queue = rest
      /\ fit'.window = fit.window /\ fit'.limits = fit.limits
      /\ fit' = [window |-> fit.window, limits |-> fit.limits, nodes |-> u,
                 queue |-> rest]
  <2>1. fit = [window |-> fit.window, limits |-> fit.limits, nodes |-> fit.nodes,
               queue |-> fit.queue]
    BY DEF FitInv, FitTyped
  <2> QED BY <1>1, <1>b, <1>c, <2>1
<1>6. /\ u \in Seq(Node) /\ Len(u) = Len(t)
      /\ \A j \in 1..Len(t) : u[j] = IF j = i + 1 THEN leaf ELSE t[j]
  <2>1. t \in Seq(Node)
    BY <1>2 DEF Shaped
  <2> QED BY <1>3, <1>4, <1>c, <2>1, ExceptSeq
<1>7. Children(t[i + 1]) = {} /\ \A j \in 1..Len(t) : Children(u[j]) = Children(t[j])
  <2>1. Children(t[i + 1]) = {}
    BY <1>3 DEF Children
  <2> QED BY <1>4, <1>6, <2>1
<1>8. Shaped(u)
  <2>1. \A j \in 0..(Len(t) - 1) : j + 1 \in 1..Len(t)
    BY <1>2
  <2> QED BY <1>2, <1>6, <1>7, <2>1 DEF Shaped, Ordered
<1>9. \A d \in 0..MaxDepth : Within(t)[d] \subseteq Within(u)[d]
  <2> QED BY <1>2, <1>7, WithinKept
<1>10. KeptBut(i, {i})
  <2>1. ASSUME NEW f \in Feats PROVE TreeKept(t, u, i, {i}, f)
    <3>1. i \in 0..(Len(u) - 1) /\ u[i + 1].right = 0
      BY <1>3, <1>4, <1>6
    <3>2. Onward(u, f, i) = i
      <4> QED BY <1>8, <3>1, OnwardInside
    <3> QED BY <1>2, <1>3, <1>6, <1>8, <3>2 DEF TreeKept
  <2> QED BY <1>5, <1>b, <2>1 DEF KeptBut
<1>11. Mates(i)' = Mates(i)
  <2>1. \A f \in Feats : LeafOf(t, f) = i <=> LeafOf(u, f) = i
    <3>1. \A f \in Feats : LeafOf(t, f) = i <=> LeafOf(u, f) \in {i}
      BY <1>2, <1>5, <1>b, <1>10, LeavesKept
    <3> QED BY <3>1
  <2>2. \A k \in 1..Len(fit.window) : fit.window[k].feats \in Feats
    BY <1>2, SampleFacts
  <2> QED BY <1>5, <1>b, <2>1, <2>2 DEF Mates
<1>12. /\ \A p : Filling(p) /\ p.idx # i => Filling(p)'
       /\ \A l \in 0..(Len(t) - 1) :
            l # i => /\ Placed(l)' /\ u[l + 1] = t[l + 1]
                     /\ Populated(l) => Populated(l)'
                     /\ Settled(l) => Settled(l)'
  BY <1>2, <1>5, <1>b, <1>9, <1>10, OthersKept
<1>13. Growing'
  <2>1. Windowed' /\ Shaped(u) /\ Len(u) <= fit.limits.max_nodes
    BY <1>2, <1>5, <1>6, <1>8, <1>b DEF Windowed, Growing
  <2>2. Placed(i)' /\ Populated(i)' /\ Settled(i)'
    <3>1. i \in Within(t)[fit.limits.max_depth] /\ Populated(i)
      BY <1>2, <1>3, <1>b DEF Growing, Placed
    <3>2. u[i + 1] = leaf /\ fit.limits.max_depth \in 0..MaxDepth
      BY <1>2, <1>3, <1>6, LimitsFacts
    <3>3. Placed(i)'
      BY <1>4, <1>5, <1>9, <3>1, <3>2 DEF Placed
    <3>4. Populated(i)'
      BY <1>5, <1>6, <1>11, <1>b, <3>1 DEF Populated
    <3>5. Settled(i)'
      <4>1. Mean(Mates(i))' = Mean(Mates(i))
        BY <1>5, <1>11 DEF Mean, Totals, Weight, Label
      <4> QED BY <1>4, <1>5, <3>2, <4>1 DEF Settled
    <3> QED BY <3>3, <3>4, <3>5
  <2>3. ASSUME NEW l \in 0..(Len(u) - 1)
        PROVE  /\ Placed(l)'
               /\ u[l + 1].right = 0 => Populated(l)' /\ (Settled(l)' \/ ToDo(l)')
    <3>1. CASE l = i
      BY <2>2, <3>1
    <3>2. CASE l # i
      <4>1. l \in 0..(Len(t) - 1)
        BY <1>6
      <4>2. t[l + 1].right = 0 => Populated(l) /\ (Settled(l) \/ ToDo(l))
        BY <1>2, <1>b, <4>1 DEF Growing
      <4>3. ASSUME ToDo(l) PROVE ToDo(l)'
        <5>1. \E k \in 1..Len(rest) : rest[k].idx = l
          BY <1>0, <1>a, <1>b, <3>2, <4>3, OthersToDo
        <5> QED BY <1>5, <5>1 DEF ToDo
      <4> QED BY <1>12, <3>2, <4>1, <4>2, <4>3
    <3> QED BY <3>1, <3>2
  <2>4. \A k \in 1..Len(rest) : Filling(rest[k])'
    BY <1>0, <1>a, <1>b, <1>12, HeadFacts
  <2>5. \A k, m \in 1..Len(fit'.queue) : k # m => fit'.queue[k].idx # fit'.queue[m].idx
    <3> SUFFICES ASSUME NEW k \in 1..Len(rest), NEW m \in 1..Len(rest), k # m
                 PROVE  rest[k].idx # rest[m].idx
      BY <1>5
    <3>1. /\ k + 1 \in 1..Len(fit.queue) /\ m + 1 \in 1..Len(fit.queue) /\ k + 1 # m + 1
          /\ rest[k] = fit.queue[k + 1] /\ rest[m] = fit.queue[m + 1]
      BY <1>0, <1>b, HeadFacts
    <3> QED BY <1>2, <3>1 DEF Growing
  <2>6. (\A k \in 1..Len(fit.queue) : Filling(fit.queue[k]))'
    BY <1>5, <2>4
  <2> QED BY <1>5, <2>1, <2>3, <2>5, <2>6 DEF Growing
<1>14. FitTyped'
  <2>1. rest \in Seq(Work) /\ fit.window \in Seq(Sample)
    BY <1>0, <1>2, <1>b, HeadFacts DEF Windowed
  <2> QED BY <1>2, <1>5, <1>6, <2>1 DEF FitTyped
<1> QED BY <1>2, <1>5, <1>13, <1>14 DEF FitInv

(* What a split makes of the fit: node q with two children at the end, one *)
(* of them for the samples a.                                              *)
Child2(q, n, samples) == [idx |-> n, samples |-> samples, depth |-> q.depth + 1]

GrowsBy(q, f, th, a) ==
  LET n == Len(fit.nodes)
  IN  fit' = [window |-> fit.window, limits |-> fit.limits,
              nodes |-> [fit.nodes EXCEPT ![q.idx + 1] = Split(f, th, n, n + 1)]
                          \o <<Leaf(0), Leaf(0)>>,
              queue |-> Tail(fit.queue) \o
                          <<Child2(q, n, a), Child2(q, n + 1, q.samples \ a)>>]

LEMMA GrowFacts ==
  ASSUME FitInv, Grow, NEW q, q = Head(fit.queue)
  PROVE  \E f \in 0..(NrFeatures - 1), th \in Values : \E a :
           /\ a = {k \in q.samples : Feat(k, f) <= th}
           /\ a # {} /\ q.samples \ a # {}
           /\ Cardinality(a) >= fit.limits.min_leaf
           /\ Cardinality(q.samples \ a) >= fit.limits.min_leaf
           /\ GrowsBy(q, f, th, a)
           /\ q.depth < fit.limits.max_depth /\ Len(fit.nodes) + 2 <= fit.limits.max_nodes
<1> DEFINE M == q.samples
           cut == BestCut(Cuts(M))
           th == Threshold(M, cut)
           a == RoutedLeft(M, cut.f, th)
<1>0. Fitting
  BY DEF Grow
<1>1. Growing /\ Windowed /\ Group(M)
  BY <1>0, HeadFacts, GroupOfFilling DEF Growing
<1>2. Splittable(q) /\ Cuts(M) # {}
  BY Zenon DEF Grow
<1>3. IsCut(M, cut)
  <2>1. cut \in Cuts(M)
    BY <1>1, <1>2, BestCutChosen
  <2> QED BY <1>1, <2>1, CutFacts
<1>4. th \in Values /\ a = Upto(M, cut.f, cut.v)
  <2> HIDE DEF cut, M
  <2> QED BY <1>1, <1>3, ThresholdSplits
<1>5. q.depth < fit.limits.max_depth /\ Len(fit.nodes) + 2 <= fit.limits.max_nodes
  BY <1>2 DEF Splittable, Shallow, Room
<1>6. GrowsBy(q, cut.f, th, a)
  <2> DEFINE n == Len(fit.nodes)
  <2>1. fit' = [fit EXCEPT
          !.nodes = [@ EXCEPT ![q.idx + 1] = Split(cut.f, th, n, n + 1)]
                      \o <<Leaf(0), Leaf(0)>>,
          !.queue = Tail(@) \o
            <<[idx |-> n, samples |-> a, depth |-> q.depth + 1],
              [idx |-> n + 1, samples |-> M \ a, depth |-> q.depth + 1]>>]
    BY DEF Grow
  <2>2. fit = [window |-> fit.window, limits |-> fit.limits, nodes |-> fit.nodes,
               queue |-> fit.queue]
    BY DEF FitInv, FitTyped
  <2> HIDE DEF cut, th, a, n
  <2>3. fit' = [window |-> fit.window, limits |-> fit.limits,
                nodes |-> [fit.nodes EXCEPT ![q.idx + 1] = Split(cut.f, th, n, n + 1)]
                            \o <<Leaf(0), Leaf(0)>>,
                queue |-> Tail(fit.queue) \o
                  <<[idx |-> n, samples |-> a, depth |-> q.depth + 1],
                    [idx |-> n + 1, samples |-> M \ a, depth |-> q.depth + 1]>>]
    BY <2>1, <2>2
  <2> QED BY <2>3 DEF GrowsBy, Child2, n
<1>7. /\ cut.f \in 0..(NrFeatures - 1)
      /\ a # {} /\ M \ a # {}
      /\ Cardinality(a) >= fit.limits.min_leaf
      /\ Cardinality(M \ a) >= fit.limits.min_leaf
  <2> HIDE DEF cut, a, M
  <2> QED BY <1>3, <1>4 DEF IsCut, Group
<1>8. a = {k \in M : Feat(k, cut.f) <= th}
  BY DEF RoutedLeft
<1> HIDE DEF cut, th, a
<1> QED BY <1>4, <1>5, <1>6, <1>7, <1>8

(* Tree t with leaf i split by feature sf at th.                           *)
SplitOf(t, u, i, sf, th) ==
  /\ Shaped(t) /\ Shaped(u) /\ Len(u) = Len(t) + 2
  /\ i \in 0..(Len(t) - 1) /\ t[i + 1].right = 0
  /\ \A j \in 1..Len(t) : j # i + 1 => u[j] = t[j]
  /\ sf \in 0..(NrFeatures - 1) /\ th \in Values
  /\ u[i + 1] = Split(sf, th, Len(t), Len(t) + 1)
  /\ u[Len(t) + 1] = Leaf(0) /\ u[Len(t) + 2] = Leaf(0)

CanSplit(t, i, f, th) ==
  /\ Shaped(t) /\ i \in 0..(Len(t) - 1) /\ t[i + 1].right = 0 /\ Len(t) + 2 <= MaxNodes
  /\ f \in 0..(NrFeatures - 1) /\ th \in Values

Grown(t, i, f, th) ==
  [t EXCEPT ![i + 1] = Split(f, th, Len(t), Len(t) + 1)] \o <<Leaf(0), Leaf(0)>>

(* The child on the side of features x.                                    *)
Side(n, x, sf, th) == IF x[sf] <= th THEN n ELSE n + 1

(* The nodes of a split tree.                                              *)
LEMMA SplitNodes ==
  ASSUME NEW t, NEW i, NEW f, NEW th, CanSplit(t, i, f, th), NEW u, u = Grown(t, i, f, th)
  PROVE  /\ Shaped(u) /\ Len(u) = Len(t) + 2 /\ SplitOf(t, u, i, f, th)
         /\ Children(u[i + 1]) = {Len(t), Len(t) + 1}
         /\ \A j \in 1..Len(t) : Children(t[j]) \subseteq Children(u[j])
<1>0. /\ Shaped(t) /\ i \in 0..(Len(t) - 1) /\ t[i + 1].right = 0 /\ Len(t) + 2 <= MaxNodes
      /\ f \in 0..(NrFeatures - 1) /\ th \in Values
  BY DEF CanSplit
<1>1. PICK n, s : n = Len(t) /\ s = Split(f, th, n, n + 1)
  OBVIOUS
<1>2. n \in Nat \ {0} /\ n + 1 \in NodeIds /\ n \in NodeIds /\ n + 2 <= MaxNodes /\ i + 1 \in 1..n
  BY <1>0, <1>1, NodeIdsFacts DEF Shaped
<1>3. s \in Node /\ s.right = n + 1 /\ Children(s) = {n, n + 1} /\ s.right # 0
  BY <1>0, <1>1, <1>2 DEF Split, Node, Children
<1>4. Leaf(0) \in Node /\ Leaf(0).right = 0 /\ Children(Leaf(0)) = {}
  BY LeafNode, NodeIdsFacts
<1>5. PICK g : g = [t EXCEPT ![i + 1] = s]
  OBVIOUS
<1>6. /\ g \in Seq(Node) /\ Len(g) = n
      /\ \A j \in 1..n : g[j] = IF j = i + 1 THEN s ELSE t[j]
  BY <1>0, <1>1, <1>2, <1>3, <1>5, ExceptSeq DEF Shaped
<1>7. PICK ls : ls = <<Leaf(0), Leaf(0)>>
  OBVIOUS
<1>8. ls \in Seq(Node) /\ Len(ls) = 2 /\ ls[1] = Leaf(0) /\ ls[2] = Leaf(0)
  BY <1>4, <1>7
<1>9. u = g \o ls
  BY <1>1, <1>5, <1>7 DEF Grown
<1>10. /\ u \in Seq(Node) /\ Len(u) = n + 2
       /\ \A j \in 1..(n + 2) : u[j] = IF j <= n THEN g[j] ELSE ls[j - n]
  <2>1. /\ g \o ls \in Seq(Node)
        /\ Len(g \o ls) = Len(g) + Len(ls)
        /\ \A k \in 1..(Len(g) + Len(ls)) :
             (g \o ls)[k] = IF k <= Len(g) THEN g[k] ELSE ls[k - Len(g)]
    BY <1>6, <1>8, ConcatProperties
  <2> QED BY <1>6, <1>8, <1>9, <2>1
<1>11. /\ \A j \in 1..n : u[j] = IF j = i + 1 THEN s ELSE t[j]
       /\ u[n + 1] = Leaf(0) /\ u[n + 2] = Leaf(0)
  <2>1. ASSUME NEW j \in 1..n PROVE u[j] = IF j = i + 1 THEN s ELSE t[j]
    <3>1. j \in 1..(n + 2) /\ j <= n
      BY <1>2
    <3> QED BY <1>6, <1>10, <3>1
  <2>2. /\ n + 1 \in 1..(n + 2) /\ ~(n + 1 <= n) /\ (n + 1) - n = 1
        /\ n + 2 \in 1..(n + 2) /\ ~(n + 2 <= n) /\ (n + 2) - n = 2
    BY <1>2
  <2>3. u[n + 1] = Leaf(0)
    BY <1>8, <1>10, <2>2
  <2>4. u[n + 2] = Leaf(0)
    BY <1>8, <1>10, <2>2
  <2> QED BY <2>1, <2>3, <2>4
<1>12. Children(t[i + 1]) = {}
  BY <1>0 DEF Children
<1>13. \A j \in 1..n : j # i + 1 => Children(u[j]) = Children(t[j])
  BY <1>11
<1>14. Ordered(u)
  <2>0. Len(u) - 1 = n + 1
    <3>1. Len(u) = n + 2 /\ n \in Nat
      BY <1>2, <1>10
    <3> QED BY <3>1
  <2> SUFFICES ASSUME NEW j \in 0..(n + 1), NEW c \in Children(u[j + 1])
               PROVE  c \in (j + 1)..(n + 1)
    BY <2>0 DEF Ordered
  <2>1. CASE j = i
    <3>1. c \in {n, n + 1}
      BY <1>2, <1>3, <1>11, <2>1
    <3>2. i < n
      BY <1>0, <1>1, <1>2
    <3> QED BY <1>0, <1>2, <2>1, <3>1, <3>2
  <2>2. CASE j # i /\ j < n
    <3>1. j + 1 \in 1..n /\ j \in 0..(Len(t) - 1) /\ j + 1 # i + 1
      BY <1>0, <1>1, <1>2, <2>2
    <3>2. c \in Children(t[j + 1])
      BY <1>13, <3>1
    <3>3. c \in (j + 1)..(Len(t) - 1)
      BY <1>0, <3>1, <3>2 DEF Shaped, Ordered
    <3> QED BY <1>1, <1>2, <3>3
  <2>3. CASE j = n
    <3>1. u[j + 1] = Leaf(0)
      BY <1>11, <2>3
    <3> QED BY <1>4, <3>1
  <2>4. CASE j = n + 1
    <3>1. j + 1 = n + 2
      BY <1>2, <2>4
    <3>2. u[j + 1] = Leaf(0)
      BY <1>11, <3>1
    <3> QED BY <1>4, <3>2
  <2>5. (j # i /\ j < n) \/ j = i \/ j = n \/ j = n + 1
    BY <1>0, <1>2
  <2> QED BY <2>1, <2>2, <2>3, <2>4, <2>5
<1>15. Shaped(u)
  BY <1>2, <1>10, <1>14, NodeIdsFacts DEF Shaped
<1>16. /\ \A j \in 1..n : Children(t[j]) \subseteq Children(u[j])
       /\ Children(u[i + 1]) = {n, n + 1} /\ u[i + 1].right # 0 /\ u[i + 1] = s
       /\ \A j \in 1..n : j # i + 1 => u[j] = t[j]
  BY <1>0, <1>2, <1>3, <1>11, <1>12, <1>13
<1>17. SplitOf(t, u, i, f, th)
  BY <1>0, <1>1, <1>10, <1>11, <1>15, <1>16 DEF SplitOf
<1> QED BY <1>1, <1>10, <1>15, <1>16, <1>17

(* A descent that met the split node goes to the child of its side.        *)
LEMMA SplitDescents ==
  ASSUME NEW t, NEW u, NEW i, NEW sf, NEW th, SplitOf(t, u, i, sf, th),
         NEW f \in Feats, NEW side, side = Side(Len(t), f, sf, th)
  PROVE  /\ TreeKept(t, u, i, {i, side}, f)
         /\ TreeKept(t, u, i, {i, Len(t), Len(t) + 1}, f)
         /\ Onward(u, f, i) = side /\ Onward(u, f, side) = side
         /\ Laid(u)[side].right = 0
<1>a. /\ Shaped(t) /\ Shaped(u) /\ Len(u) = Len(t) + 2
      /\ i \in 0..(Len(t) - 1) /\ t[i + 1].right = 0
      /\ \A j \in 1..Len(t) : j # i + 1 => u[j] = t[j]
      /\ u[i + 1] = Split(sf, th, Len(t), Len(t) + 1)
      /\ u[Len(t) + 1].right = 0 /\ u[Len(t) + 2].right = 0
      /\ side = (IF f[sf] <= th THEN Len(t) ELSE Len(t) + 1)
  BY LeafNode, NodeIdsFacts DEF SplitOf, Side
<1>0. Len(t) \in Nat \ {0}
  BY <1>a, NodeIdsFacts DEF Shaped
<1>1. PICK n : n = Len(t) /\ n \in Nat \ {0} /\ n + 2 = Len(u)
  BY <1>0, <1>a
<1>2. /\ i \in 0..(Len(u) - 1) /\ n \in 0..(Len(u) - 1) /\ n + 1 \in 0..(Len(u) - 1)
      /\ side \in {n, n + 1} /\ (n + 1) + 1 = Len(t) + 2
  BY <1>1, <1>a
<1>3. Onward(u, f, n) = n /\ Onward(u, f, n + 1) = n + 1
  <2>1. u[n + 1].right = 0 /\ u[(n + 1) + 1].right = 0
    BY <1>1, <1>2, <1>a
  <2> QED BY <1>2, <1>a, <2>1, OnwardInside
<1>4. u[i + 1].right # 0 /\ Child(u[i + 1], f) = side
  BY <1>1, <1>a DEF Split, Child
<1>5. Onward(u, f, i) = side
  BY <1>2, <1>4, <1>a, OnwardInside
<1>6. Laid(u)[side].right = 0
  <2>1. Laid(u)[side] = u[side + 1]
    BY <1>2, <1>a, ShapedNodes
  <2> QED BY <1>1, <1>2, <1>a, <2>1
<1>7. /\ \A x \in {i, side} : Onward(u, f, x) \in {i, side}
      /\ \A x \in {i, n, n + 1} : Onward(u, f, x) \in {i, n, n + 1}
  BY <1>2, <1>3, <1>5
<1> QED BY <1>1, <1>2, <1>3, <1>5, <1>6, <1>7, <1>a DEF TreeKept

(* A descent that met the split node after d steps ends at that child.     *)
LEMMA SplitLeaf ==
  ASSUME NEW t, NEW u, NEW i, NEW sf, NEW th, SplitOf(t, u, i, sf, th), NEW f \in Feats,
         NEW d \in 0..(MaxDepth - 1), Descent(t, f)[d] = i
  PROVE  /\ LeafOf(u, f) = Side(Len(t), f, sf, th)
         /\ Descent(u, f)[d + 1] = Side(Len(t), f, sf, th)
<1>1. PICK side : side = Side(Len(t), f, sf, th)
  OBVIOUS
<1>2. /\ TreeKept(t, u, i, {i, side}, f)
      /\ Onward(u, f, i) = side /\ Onward(u, f, side) = side
      /\ Laid(u)[side].right = 0
  <2>1. TreeKept(t, u, i, {i, side}, f)
    BY <1>1, SplitDescents
  <2>2. Onward(u, f, i) = side
    BY <1>1, SplitDescents
  <2>3. Laid(u)[side].right = 0
    <3>1. /\ Shaped(u) /\ Len(u) = Len(t) + 2 /\ Len(t) \in Nat \ {0}
          /\ side \in {Len(t), Len(t) + 1}
          /\ u[Len(t) + 1] = Leaf(0) /\ u[Len(t) + 2] = Leaf(0)
      BY <1>1, NodeIdsFacts DEF SplitOf, Shaped, Side
    <3>2. side \in 0..(Len(u) - 1) /\ side + 1 \in {Len(t) + 1, Len(t) + 2}
      BY <3>1
    <3>3. Laid(u)[side] = Leaf(0)
      BY <3>1, <3>2, ShapedNodes
    <3> QED BY <3>3, LeafNode, NodeIdsFacts
  <2>4. Onward(u, f, side) = side
    BY <1>1, SplitDescents
  <2> QED BY <2>1, <2>2, <2>3, <2>4
<1>3. /\ d \in 0..MaxDepth /\ d + 1 \in 1..MaxDepth /\ d + 1 \in 0..MaxDepth
      /\ (d + 1) - 1 = d /\ MaxDepth \in (d + 1)..MaxDepth
  BY NodeIdsFacts
<1>4. Descent(u, f)[d] \in {i, side}
  BY <1>2, <1>3, DescentKept
<1>5. Descent(u, f)[d + 1] = side
  <2>1. Descent(u, f)[d + 1] = Onward(u, f, Descent(u, f)[d])
    BY <1>3, DescentDef
  <2> QED BY <1>2, <1>4, <2>1
<1>6. Descent(u, f)[MaxDepth] = side
  BY <1>2, <1>3, <1>5, StaysAtLeaf
<1> QED BY <1>1, <1>5, <1>6 DEF LeafOf

LEMMA TwoMore ==
  ASSUME NEW S, NEW s \in Seq(S), NEW a \in S, NEW b \in S, NEW v, v = s \o <<a, b>>
  PROVE  /\ v \in Seq(S) /\ Len(v) = Len(s) + 2
         /\ \A k \in 1..Len(s) : v[k] = s[k]
         /\ v[Len(s) + 1] = a /\ v[Len(s) + 2] = b
         /\ Len(s) + 1 \in 1..Len(v) /\ Len(s) + 2 \in 1..Len(v)
         /\ \A k \in 1..Len(v) : k \in 1..Len(s) \/ k = Len(s) + 1 \/ k = Len(s) + 2
<1>1. PICK e, m : e = <<a, b>> /\ m = Len(s)
  OBVIOUS
<1>2. e \in Seq(S) /\ Len(e) = 2 /\ e[1] = a /\ e[2] = b /\ m \in Nat
  BY <1>1
<1>3. /\ v \in Seq(S) /\ Len(v) = m + 2
      /\ \A k \in 1..(m + 2) : v[k] = IF k <= m THEN s[k] ELSE e[k - m]
  <2>1. /\ s \o e \in Seq(S) /\ Len(s \o e) = Len(s) + Len(e)
        /\ \A k \in 1..(Len(s) + Len(e)) :
             (s \o e)[k] = IF k <= Len(s) THEN s[k] ELSE e[k - Len(s)]
    BY <1>2, ConcatProperties
  <2> QED BY <1>1, <1>2, <2>1
<1>4. /\ m + 1 \in 1..(m + 2) /\ ~(m + 1 <= m) /\ (m + 1) - m = 1
      /\ m + 2 \in 1..(m + 2) /\ ~(m + 2 <= m) /\ (m + 2) - m = 2
  BY <1>2
<1>5. v[m + 1] = a
  BY <1>2, <1>3, <1>4
<1>6. v[m + 2] = b
  BY <1>2, <1>3, <1>4
<1>7. ASSUME NEW k \in 1..m PROVE v[k] = s[k]
  <2>1. k \in 1..(m + 2) /\ k <= m
    BY <1>2
  <2> QED BY <1>3, <2>1
<1>8. \A k \in 1..(m + 2) : k \in 1..m \/ k = m + 1 \/ k = m + 2
  BY <1>2
<1> QED BY <1>1, <1>3, <1>4, <1>5, <1>6, <1>7, <1>8

LEMMA GrowStep == ASSUME FitInv, Grow PROVE FitInv'
<1>0. Fitting
  BY DEF Grow
<1>a. PICK q : q = Head(fit.queue)
  OBVIOUS
<1>b1. PICK sf \in 0..(NrFeatures - 1), th \in Values : \E a :
         /\ a = {k \in q.samples : Feat(k, sf) <= th}
         /\ a # {} /\ q.samples \ a # {}
         /\ Cardinality(a) >= fit.limits.min_leaf
         /\ Cardinality(q.samples \ a) >= fit.limits.min_leaf
         /\ GrowsBy(q, sf, th, a)
         /\ q.depth < fit.limits.max_depth /\ Len(fit.nodes) + 2 <= fit.limits.max_nodes
  BY <1>a, GrowFacts
<1>b. PICK a :
         /\ a = {k \in q.samples : Feat(k, sf) <= th}
         /\ a # {} /\ q.samples \ a # {}
         /\ Cardinality(a) >= fit.limits.min_leaf
         /\ Cardinality(q.samples \ a) >= fit.limits.min_leaf
         /\ GrowsBy(q, sf, th, a)
         /\ q.depth < fit.limits.max_depth /\ Len(fit.nodes) + 2 <= fit.limits.max_nodes
  BY <1>b1
<1>c. PICK i, n, t, rest, e, lim :
        /\ i = q.idx /\ n = Len(fit.nodes) /\ t = fit.nodes /\ rest = Tail(fit.queue)
        /\ e = q.depth + 1 /\ lim = fit.limits.max_depth
  OBVIOUS
<1>d. PICK u, l, r :
        /\ u = [t EXCEPT ![i + 1] = Split(sf, th, n, n + 1)] \o <<Leaf(0), Leaf(0)>>
        /\ l = Child2(q, n, a) /\ r = Child2(q, n + 1, q.samples \ a)
  OBVIOUS
<1>e. PICK qs : qs = rest \o <<l, r>>
  OBVIOUS
<1>1. /\ fit' = [window |-> fit.window, limits |-> fit.limits, nodes |-> u, queue |-> qs]
      /\ fit'.nodes = u /\ fit'.queue = qs
      /\ fit'.window = fit.window /\ fit'.limits = fit.limits
  BY <1>b, <1>c, <1>d, <1>e DEF GrowsBy
<1>2. /\ Growing /\ fit.window # <<>> /\ Shaped(t) /\ Filling(q) /\ q \in Work
      /\ fit.limits \in Limits /\ Windowed
      /\ n \in Nat \ {0} /\ n = Len(t) /\ n + 2 <= MaxNodes /\ n + 2 <= fit.limits.max_nodes
  <2>1. fit.limits.max_nodes <= MaxNodes /\ fit.limits.max_nodes \in Nat
    BY <1>0, HeadFacts, LimitsFacts
  <2> QED BY <1>0, <1>a, <1>b, <1>c, <2>1, HeadFacts, NodeIdsFacts DEF Growing
<1>3. /\ i \in 0..(n - 1) /\ i + 1 \in 1..n /\ t[i + 1].right = 0
      /\ i \in Nat /\ i # n /\ i # n + 1 /\ q.samples = Mates(i) /\ i \in Within(t)[q.depth]
      /\ q.depth \in Nat
      /\ \A x \in Feats : LeafOf(t, x) = i => Descent(t, x)[q.depth] = i
  <2>1. i \in 0..(n - 1) /\ t[i + 1].right = 0
    BY <1>2, <1>c DEF Filling
  <2>2. /\ q.samples = Mates(i) /\ i \in Within(t)[q.depth]
        /\ q.depth \in 0..fit.limits.max_depth
        /\ \A x \in Feats : LeafOf(t, x) = i => Descent(t, x)[q.depth] = i
    BY <1>2, <1>c DEF Filling
  <2> QED BY <1>2, <2>1, <2>2
<1>4. /\ Shaped(u) /\ Len(u) = n + 2 /\ SplitOf(t, u, i, sf, th)
      /\ Children(u[i + 1]) = {n, n + 1} /\ u[i + 1].right # 0
      /\ \A j \in 1..n : Children(t[j]) \subseteq Children(u[j])
      /\ u[n + 1].right = 0 /\ u[n + 2].right = 0
  <2>1. /\ Shaped(u) /\ Len(u) = Len(t) + 2 /\ SplitOf(t, u, i, sf, th)
        /\ Children(u[i + 1]) = {Len(t), Len(t) + 1}
        /\ \A j \in 1..Len(t) : Children(t[j]) \subseteq Children(u[j])
    <3>1. CanSplit(t, i, sf, th)
      BY <1>2, <1>3, <1>b1 DEF CanSplit
    <3>2. u = Grown(t, i, sf, th)
      BY <1>2, <1>d DEF Grown
    <3>3. Shaped(u) /\ Len(u) = Len(t) + 2
      BY <3>1, <3>2, SplitNodes
    <3>4. SplitOf(t, u, i, sf, th)
      BY <3>1, <3>2, SplitNodes
    <3>5. Children(u[i + 1]) = {Len(t), Len(t) + 1}
      BY <3>1, <3>2, SplitNodes
    <3>6. \A j \in 1..Len(t) : Children(t[j]) \subseteq Children(u[j])
      BY <3>1, <3>2, SplitNodes
    <3> QED BY <3>3, <3>4, <3>5, <3>6
  <2>2. u[n + 1].right = 0 /\ u[n + 2].right = 0
    BY <1>2, <2>1, LeafNode, NodeIdsFacts DEF SplitOf
  <2>3. u[i + 1].right # 0
    <3>1. u[i + 1] = Split(sf, th, Len(t), Len(t) + 1)
      BY <2>1 DEF SplitOf
    <3> QED BY <1>2, <3>1 DEF Split
  <2> QED BY <1>2, <2>1, <2>2, <2>3
<1>5. /\ lim \in 0..MaxDepth /\ q.depth \in 0..(MaxDepth - 1) /\ q.depth \in 0..MaxDepth
      /\ q.depth \in 0..(lim - 1) /\ q.depth + 1 = e /\ e - 1 = q.depth
      /\ e \in 1..MaxDepth /\ e \in 0..MaxDepth /\ e \in 0..lim /\ lim \in e..MaxDepth
  <2>1. lim \in 0..MaxDepth /\ lim \in Nat /\ MaxDepth \in Nat
    BY <1>2, <1>c, LimitsFacts, NodeIdsFacts
  <2>2. q.depth \in Nat /\ q.depth < lim /\ e = q.depth + 1
    BY <1>3, <1>b, <1>c
  <2> QED BY <2>1, <2>2
<1>6. \A d \in 0..MaxDepth : Within(t)[d] \subseteq Within(u)[d]
  BY <1>2, <1>4, WithinKept
<1>7. i \in Within(u)[q.depth] /\ n \in Within(u)[e] /\ n + 1 \in Within(u)[e]
  <2>1. i \in Within(u)[q.depth]
    BY <1>3, <1>5, <1>6
  <2>2. Within(u)[e] = Within(u)[e - 1]
                         \cup UNION {Children(u[j + 1]) : j \in Within(u)[e - 1]}
    BY <1>5, WithinDef
  <2> QED BY <1>4, <1>5, <2>1, <2>2
<1>8. /\ i \in Within(u)[lim] /\ n \in Within(u)[lim] /\ n + 1 \in Within(u)[lim]
  <2>1. Within(u)[e] \subseteq Within(u)[lim] /\ Within(u)[q.depth] \subseteq Within(u)[e]
    <3>1. e \in q.depth..MaxDepth
      BY <1>5
    <3> QED BY <1>5, <3>1, WithinGrows
  <2> QED BY <1>7, <2>1
<1>9. KeptBut(i, {i, n, n + 1})
  <2>1. ASSUME NEW x \in Feats PROVE TreeKept(t, u, i, {i, n, n + 1}, x)
    <3>1. PICK side : side = Side(Len(t), x, sf, th)
      OBVIOUS
    <3> QED BY <1>2, <1>4, <3>1, SplitDescents
  <2>2. n \notin 0..(n - 1) /\ n + 1 \notin 0..(n - 1)
    BY <1>2
  <2> QED BY <1>1, <1>2, <1>c, <2>1, <2>2 DEF KeptBut
<1>10. ASSUME NEW x \in Feats
       PROVE  /\ LeafOf(t, x) = i => /\ LeafOf(u, x) = Side(n, x, sf, th)
                                     /\ Descent(u, x)[e] = Side(n, x, sf, th)
              /\ LeafOf(u, x) \in {n, n + 1} => LeafOf(t, x) = i
  <2>1. LeafOf(t, x) = i <=> LeafOf(u, x) \in {i, n, n + 1}
    BY <1>1, <1>2, <1>9, <1>c, LeavesKept
  <2>2. ASSUME LeafOf(t, x) = i
        PROVE  /\ LeafOf(u, x) = Side(n, x, sf, th)
               /\ Descent(u, x)[e] = Side(n, x, sf, th)
    <3>1. Descent(t, x)[q.depth] = i
      BY <1>3, <2>2
    <3> QED BY <1>2, <1>4, <1>5, <3>1, SplitLeaf
  <2> QED BY <2>1, <2>2
<1>11. /\ \A x \in Feats : LeafOf(u, x) = n <=> LeafOf(t, x) = i /\ x[sf] <= th
       /\ \A x \in Feats : LeafOf(u, x) = n + 1 <=> LeafOf(t, x) = i /\ ~(x[sf] <= th)
       /\ \A x \in Feats : LeafOf(u, x) = n => Descent(u, x)[e] = n
       /\ \A x \in Feats : LeafOf(u, x) = n + 1 => Descent(u, x)[e] = n + 1
  BY <1>2, <1>10 DEF Side
<1>12. Mates(n)' = a /\ Mates(n + 1)' = q.samples \ a
  <2>1. \A k \in 1..Len(fit.window) : fit.window[k].feats \in Feats
    BY <1>2, SampleFacts
  <2>2. Mates(i) = {k \in 1..Len(fit.window) : LeafOf(t, fit.window[k].feats) = i}
    BY <1>c DEF Mates
  <2>3. a = {k \in Mates(i) : fit.window[k].feats[sf] <= th}
    BY <1>3, <1>b DEF Feat
  <2>4. /\ Mates(n)' = {k \in 1..Len(fit.window) : LeafOf(u, fit.window[k].feats) = n}
        /\ Mates(n + 1)' = {k \in 1..Len(fit.window) : LeafOf(u, fit.window[k].feats) = n + 1}
    BY <1>1 DEF Mates
  <2>5. Mates(n)' = a
    BY <1>11, <2>1, <2>2, <2>3, <2>4
  <2>6. Mates(n + 1)' = Mates(i) \ a
    BY <1>11, <2>1, <2>2, <2>3, <2>4
  <2> QED BY <1>3, <2>5, <2>6
<1>13. /\ l.idx = n /\ l.samples = a /\ l.depth = e
       /\ r.idx = n + 1 /\ r.samples = q.samples \ a /\ r.depth = e
       /\ l \in Work /\ r \in Work
  <2>1. /\ l = [idx |-> n, samples |-> a, depth |-> e]
        /\ r = [idx |-> n + 1, samples |-> q.samples \ a, depth |-> e]
    BY <1>c, <1>d DEF Child2
  <2>2. q.samples \in SUBSET Nat /\ a \in SUBSET Nat
    BY <1>2, <1>b DEF Work
  <2>3. n \in NodeIds /\ n + 1 \in NodeIds
    BY <1>2, NodeIdsFacts
  <2> QED BY <1>5, <2>1, <2>2, <2>3 DEF Work
<1>14. Filling(l)' /\ Filling(r)'
  <2>1. n \in 0..(Len(u) - 1) /\ n + 1 \in 0..(Len(u) - 1) /\ (n + 1) + 1 = n + 2
    BY <1>2, <1>4
  <2>2. Filling(l)'
    BY <1>1, <1>4, <1>5, <1>7, <1>11, <1>12, <1>13, <1>c, <2>1 DEF Filling
  <2>3. Filling(r)'
    <3>1. u[r.idx + 1].right = 0 /\ r.idx \in 0..(Len(u) - 1)
      BY <1>4, <1>13, <2>1
    <3>2. r.depth \in 0..fit'.limits.max_depth /\ r.idx \in Within(u)[r.depth]
      BY <1>1, <1>5, <1>7, <1>13, <1>c
    <3>3. r.samples = Mates(r.idx)'
      BY <1>12, <1>13
    <3>4. \A x \in Feats : LeafOf(u, x) = r.idx => Descent(u, x)[r.depth] = r.idx
      BY <1>11, <1>13
    <3> QED BY <1>1, <3>1, <3>2, <3>3, <3>4 DEF Filling
  <2> QED BY <2>2, <2>3
<1>15. /\ \A p : Filling(p) /\ p.idx # i => Filling(p)'
       /\ \A j \in 0..(n - 1) :
            j # i => /\ Placed(j)' /\ u[j + 1] = t[j + 1]
                     /\ Populated(j) => Populated(j)'
                     /\ Settled(j) => Settled(j)'
  BY <1>1, <1>2, <1>6, <1>9, <1>c, OthersKept
<1>16. PICK m : m = Len(rest) /\ m \in Nat /\ rest \in Seq(Work)
  <2>1. /\ rest \in Seq(Work) /\ Len(rest) = Len(fit.queue) - 1
        /\ Len(fit.queue) \in Nat \ {0}
    BY <1>0, <1>c, HeadFacts
  <2>2. Len(rest) \in Nat
    BY <2>1
  <2> QED BY <2>1, <2>2
<1>17. /\ qs \in Seq(Work) /\ Len(qs) = m + 2
       /\ \A k \in 1..m : qs[k] = rest[k]
       /\ qs[m + 1] = l /\ qs[m + 2] = r
       /\ m + 1 \in 1..Len(qs) /\ m + 2 \in 1..Len(qs)
       /\ \A k \in 1..Len(qs) : k \in 1..m \/ k = m + 1 \/ k = m + 2
  <2>1. /\ qs \in Seq(Work) /\ Len(qs) = Len(rest) + 2
        /\ \A k \in 1..Len(rest) : qs[k] = rest[k]
        /\ qs[Len(rest) + 1] = l /\ qs[Len(rest) + 2] = r
        /\ Len(rest) + 1 \in 1..Len(qs) /\ Len(rest) + 2 \in 1..Len(qs)
        /\ \A k \in 1..Len(qs) : k \in 1..Len(rest) \/ k = Len(rest) + 1 \/ k = Len(rest) + 2
    <3>1. rest \in Seq(Work) /\ l \in Work /\ r \in Work
      BY <1>13, <1>16
    <3> QED BY <3>1, <1>e, TwoMore
  <2> QED BY <1>16, <2>1
<1>18. \A k \in 1..m : Filling(rest[k]) /\ rest[k].idx # i /\ rest[k].idx \in 0..(n - 1)
  <2>1. \A k \in 1..m : Filling(rest[k]) /\ rest[k].idx # i
    BY <1>0, <1>16, <1>a, <1>c, HeadFacts
  <2> QED BY <2>1, <1>c DEF Filling
<1>19. Growing'
  <2>1. Windowed' /\ Shaped(u) /\ Len(u) <= fit'.limits.max_nodes
    BY <1>1, <1>2, <1>4 DEF Windowed
  <2>2. Placed(i)' /\ Placed(n)' /\ Placed(n + 1)'
    <3>1. (n + 1) + 1 = n + 2
      BY <1>2
    <3>2. Placed(i)'
      BY <1>1, <1>5, <1>7, <1>8, <1>c DEF Placed
    <3>3. Placed(n)'
      BY <1>1, <1>4, <1>8, <1>c DEF Placed
    <3>4. Placed(n + 1)'
      BY <1>1, <1>4, <1>8, <1>c, <3>1 DEF Placed
    <3> QED BY <3>2, <3>3, <3>4
  <2>3. Populated(n)' /\ Populated(n + 1)'
    BY <1>1, <1>12, <1>b DEF Populated
  <2>4. ToDo(n)' /\ ToDo(n + 1)'
    BY <1>1, <1>13, <1>17 DEF ToDo
  <2>5. ASSUME NEW j \in 0..(Len(u) - 1)
        PROVE  /\ Placed(j)'
               /\ u[j + 1].right = 0 => Populated(j)' /\ (Settled(j)' \/ ToDo(j)')
    <3>1. j = i \/ j = n \/ j = n + 1 \/ (j \in 0..(n - 1) /\ j # i)
      BY <1>2, <1>4
    <3>2. CASE j = i
      BY <1>4, <2>2, <3>2
    <3>3. CASE j = n \/ j = n + 1
      BY <2>2, <2>3, <2>4, <3>3
    <3>4. CASE j \in 0..(n - 1) /\ j # i
      <4>1. t[j + 1].right = 0 => Populated(j) /\ (Settled(j) \/ ToDo(j))
        BY <1>2, <1>c, <3>4 DEF Growing
      <4>2. ASSUME ToDo(j) PROVE ToDo(j)'
        <5>1. PICK k \in 1..m : rest[k].idx = j
          BY <1>0, <1>16, <1>a, <1>c, <3>4, <4>2, OthersToDo
        <5>2. k \in 1..Len(qs) /\ qs[k].idx = j
          BY <1>16, <1>17, <5>1
        <5> QED BY <1>1, <5>2 DEF ToDo
      <4> QED BY <1>15, <3>4, <4>1, <4>2
    <3> QED BY <3>1, <3>2, <3>3, <3>4
  <2>6. (\A k \in 1..Len(fit.queue) : Filling(fit.queue[k]))'
    <3>1. \A k \in 1..Len(qs) : Filling(qs[k])'
      <4> SUFFICES ASSUME NEW k \in 1..Len(qs) PROVE Filling(qs[k])'
        OBVIOUS
      <4>1. CASE k \in 1..m
        BY <1>15, <1>17, <1>18, <4>1
      <4>2. CASE k = m + 1 \/ k = m + 2
        BY <1>14, <1>17, <4>2
      <4> QED BY <1>17, <4>1, <4>2
    <3> QED BY <1>1, <3>1
  <2>7. \A k, p \in 1..Len(qs) : k # p => qs[k].idx # qs[p].idx
    <3> SUFFICES ASSUME NEW k \in 1..Len(qs), NEW p \in 1..Len(qs), k # p
                 PROVE  qs[k].idx # qs[p].idx
      OBVIOUS
    <3>1. ASSUME NEW x \in 1..m PROVE qs[x].idx \in 0..(n - 1)
      BY <1>17, <1>18
    <3>2. /\ qs[m + 1].idx = n /\ qs[m + 2].idx = n + 1
          /\ n \notin 0..(n - 1) /\ n + 1 \notin 0..(n - 1) /\ n # n + 1
      BY <1>2, <1>13, <1>17
    <3>3. CASE k \in 1..m /\ p \in 1..m
      <4>1. /\ k + 1 \in 1..Len(fit.queue) /\ p + 1 \in 1..Len(fit.queue) /\ k + 1 # p + 1
            /\ rest[k] = fit.queue[k + 1] /\ rest[p] = fit.queue[p + 1]
        BY <1>0, <1>16, <1>c, <3>3, HeadFacts
      <4>2. rest[k].idx # rest[p].idx
        BY <1>2, <4>1 DEF Growing
      <4> QED BY <1>17, <3>3, <4>2
    <3>4. CASE k \notin 1..m \/ p \notin 1..m
      BY <1>17, <3>1, <3>2, <3>4
    <3> QED BY <3>3, <3>4
  <2>8. \A k, p \in 1..Len(fit'.queue) : k # p => fit'.queue[k].idx # fit'.queue[p].idx
    BY <1>1, <2>7
  <2> QED BY <1>1, <2>1, <2>5, <2>6, <2>8 DEF Growing
<1>20. FitTyped'
  <2>1. u \in Seq(Node) /\ fit.window \in Seq(Sample)
    BY <1>2, <1>4 DEF Windowed, Shaped
  <2> QED BY <1>1, <1>2, <1>17, <2>1 DEF FitTyped
<1> QED BY <1>1, <1>2, <1>19, <1>20 DEF FitInv

LEMMA FitSteps ==
  ASSUME FitInv, NEW jobs, jobs \subseteq Jobs, FitNext(jobs) \/ UNCHANGED fit
  PROVE  FitInv'
<1>1. CASE FitBegin(jobs)
  BY <1>1, FitBeginStep
<1>2. CASE Grow
  BY <1>2, GrowStep
<1>3. CASE Settle
  BY <1>3, SettleStep
<1>4. CASE FitDrop
  BY <1>4, FitDropped DEF FitDrop
<1>5. CASE UNCHANGED fit
  <2>1. \A l : Mates(l)' = Mates(l)
    BY <1>5 DEF Mates
  <2>2. \A l : Settled(l)' = Settled(l)
    BY <1>5, <2>1 DEF Settled, Mean, Totals, Weight, Label
  <2>3. \A l : Populated(l)' = Populated(l) /\ ToDo(l)' = ToDo(l) /\ Placed(l)' = Placed(l)
    BY <1>5, <2>1 DEF Populated, ToDo, Placed
  <2>4. \A q : Filling(q)' = Filling(q)
    BY <1>5, <2>1 DEF Filling
  <2>5. (\A k \in 1..Len(fit.queue) : Filling(fit.queue[k]))'
          = (\A k \in 1..Len(fit.queue) : Filling(fit.queue[k]))
    BY <1>5, <2>4
  <2>6. Growing' = Growing
    BY <1>5, <2>2, <2>3, <2>5 DEF Growing, Windowed
  <2> QED BY <1>5, <2>6 DEF FitInv, FitTyped
<1> QED BY <1>1, <1>2, <1>3, <1>4, <1>5 DEF FitNext

-----------------------------------------------------------------------------
(* What a finished fit is.                                                 *)

LEMMA FinishedValid == ASSUME FitInv, Fitted PROVE Valid(fit.nodes)
<1>1. PICK t, lim : t = fit.nodes /\ lim = fit.limits.max_depth
  OBVIOUS
<1>2. Growing
  BY DEF FitInv, Fitted
<1>3. /\ Shaped(t) /\ lim \in 0..MaxDepth /\ lim \in Nat /\ MaxDepth \in Nat
      /\ Len(t) \in 1..MaxNodes
  BY <1>1, <1>2, LimitsFacts, NodeIdsFacts DEF Growing, Windowed, Shaped
<1>4. \A i \in 0..(Len(t) - 1) : \A c \in Children(t[i + 1]) : c \in (i + 1)..(Len(t) - 1)
  BY <1>3 DEF Shaped, Ordered
<1>5. \A j \in 0..(Len(t) - 1) :
        /\ j \in Within(t)[lim]
        /\ t[j + 1].right # 0 => \E d \in 0..(lim - 1) : j \in Within(t)[d]
  BY <1>1, <1>2 DEF Growing, Placed
<1>6. Within(t)[MaxDepth] = 0..(Len(t) - 1)
  <2>1. Within(t)[MaxDepth] \subseteq 0..(Len(t) - 1)
    BY <1>3, WithinInside
  <2>2. Within(t)[lim] \subseteq Within(t)[MaxDepth]
    <3>1. MaxDepth \in lim..MaxDepth
      BY <1>3
    <3> QED BY <1>3, <3>1, WithinGrows
  <2> QED BY <1>5, <2>1, <2>2
<1>7. ASSUME NEW i \in Within(t)[MaxDepth] \ Within(t)[MaxDepth - 1]
      PROVE  t[i + 1].right = 0
  <2>1. i \in 0..(Len(t) - 1)
    BY <1>6
  <2>2. ASSUME NEW d \in 0..(lim - 1) PROVE i \notin Within(t)[d]
    <3>1. d \in 0..MaxDepth /\ MaxDepth - 1 \in d..MaxDepth
      BY <1>3
    <3>2. Within(t)[d] \subseteq Within(t)[MaxDepth - 1]
      BY <3>1, WithinGrows
    <3> QED BY <3>2
  <2> QED BY <1>5, <2>1, <2>2
<1> QED BY <1>1, <1>3, <1>4, <1>6, <1>7 DEF Valid

LEMMA FitIsPublishable == FitInv => FitPublishable
<1> SUFFICES ASSUME FitInv PROVE FitPublishable
  OBVIOUS
<1>1. Len(fit.nodes) <= fit.limits.max_nodes
  <2>1. CASE fit.window = <<>>
    <3>1. fit.nodes = <<>> /\ fit.limits.max_nodes = 1
      BY <2>1 DEF FitInv, NoFit
    <3> QED BY <3>1
  <2>2. CASE fit.window # <<>>
    BY <2>2 DEF FitInv, Growing
  <2> QED BY <2>1, <2>2
<1> QED BY <1>1, FinishedValid DEF FitPublishable

LEMMA FitAnswersFromSamples == FitInv => AnswersFromSamples
<1> SUFFICES ASSUME FitInv, Fitted PROVE AnswersFromSamples
  BY DEF AnswersFromSamples
<1> DEFINE at == [i \in DOMAIN fit.window |-> LeafOf(fit.nodes, fit.window[i].feats)]
           mates(l) == {i \in DOMAIN at : at[i] = l}
<1>1. Growing /\ fit.queue = <<>>
  BY DEF FitInv, Fitted
<1>2. DOMAIN fit.window = 1..Len(fit.window)
  BY <1>1 DEF Growing, Windowed
<1>3. ASSUME NEW l PROVE mates(l) = Mates(l)
  BY <1>2 DEF Mates
<1>4. ASSUME NEW l \in 0..(Len(fit.nodes) - 1), fit.nodes[l + 1].right = 0
      PROVE  Populated(l) /\ Settled(l)
  <2>1. ~ToDo(l)
    BY <1>1 DEF ToDo
  <2> QED BY <1>1, <1>4, <2>1 DEF Growing
<1>5. ASSUME NEW l \in 0..(Len(fit.nodes) - 1), fit.nodes[l + 1].right = 0
      PROVE  /\ fit.nodes[l + 1].left = Mean(mates(l))
             /\ mates(l) # {}
             /\ Len(fit.nodes) > 1 => Cardinality(mates(l)) >= fit.limits.min_leaf
  <2>1. mates(l) = Mates(l)
    BY <1>3
  <2>2. Populated(l) /\ Settled(l)
    BY <1>4, <1>5
  <2> HIDE DEF mates
  <2> QED BY <2>1, <2>2 DEF Populated, Settled
<1> QED BY <1>5 DEF AnswersFromSamples

-----------------------------------------------------------------------------
(* The publish.  Its entry is the inactive one, and is filled in front of  *)
(* the word it writes next; only the commit of a full one makes it active. *)

AnyTree == Trees \cup {<<>>}

Copied(n, new, word) ==
  /\ word > 1 => n.threshold = new.threshold
  /\ word > 2 => n.left = new.left /\ n.right = new.right

Publication ==
  [pc : {"idle", "write", "commit"}, tree : AnyTree, key : Entries, node : NodeIds,
   word : 1..3]

PubInv ==
  /\ pub \in Publication
  /\ pub.pc # "idle" => pub.key # meta.active /\ pub.tree \in Trees
  /\ pub.pc = "write" =>
       /\ \A i \in NodeIds : i < pub.node => buf[pub.key][i] = Laid(pub.tree)[i]
       /\ Copied(buf[pub.key][pub.node], Laid(pub.tree)[pub.node], pub.word)
  /\ pub.pc = "commit" => buf[pub.key] = Laid(pub.tree)

StoreInv ==
  /\ meta \in [trained : BOOLEAN, active : Entries, gen : Nat]
  /\ buf \in [Entries -> [NodeIds -> Node]]
  /\ live \in AnyTree
  /\ ~meta.trained => live = <<>>
  /\ CommittedIntact

Walk ==
  [pc : {"idle", "untrained", "right", "leaf", "split", "left"}, key : Entries,
   idx : NodeIds, depth : 0..MaxDepth, f : Feats, result : Values \cup NodeIds,
   seen : AnyTree, crossed : BOOLEAN, lapped : BOOLEAN]

(* A walk that is where the descent of its tree is, and has loaded what    *)
(* that tree holds there.                                                  *)
OnPath(w) ==
  /\ w.idx = Descent(w.seen, w.f)[w.depth]
  /\ w.pc = "leaf" => Laid(w.seen)[w.idx].right = 0
  /\ w.pc \in {"split", "left"} => Laid(w.seen)[w.idx].right # 0
  /\ w.pc = "left" => GoesLeft(Laid(w.seen)[w.idx], w.f)

(* Before its entry is written again another tree was committed.           *)
WalkOk(w) ==
  /\ w \in Walk
  /\ w.pc = "untrained" => w.seen = <<>>
  /\ w.pc \in {"split", "left"} => w.depth < MaxDepth
  /\ w.pc \notin {"idle", "untrained"} =>
       /\ ~w.crossed => w.key = meta.active
       /\ w.lapped => w.crossed
       /\ ~w.lapped => buf[w.key] = Laid(w.seen) /\ OnPath(w)
  /\ w.pc = "idle" => w.result = Predict(w.seen, w.f) \/ (w.crossed /\ w.lapped)

WalkInv ==
  /\ walk \in [Readers -> Walk]
  /\ \A r \in Readers : WalkOk(walk[r])

IInv == FitInv /\ PubInv /\ StoreInv /\ WalkInv

LEMMA TreesTyped ==
  ASSUME NEW t \in AnyTree
  PROVE  t \in Seq(Node) /\ Laid(t) \in [NodeIds -> Node]
<1>1. t \in Seq(Node)
  <2>1. <<>> \in Seq(Node)
    OBVIOUS
  <2>2. CASE t = <<>>
    BY <2>1, <2>2
  <2>3. CASE t \in Trees
    BY <2>3 DEF Trees
  <2> QED BY <2>2, <2>3 DEF AnyTree
<1> QED BY <1>1, LaidNodes

LEMMA Untrained ==
  ASSUME NEW f \in Feats
  PROVE  Predict(<<>>, f) = 0 /\ Laid(<<>>) \in [NodeIds -> Node]
<1>1. PICK t : t = <<>>
  OBVIOUS
<1>2. t \in Seq(Node) /\ Len(t) = 0
  <2>1. <<>> \in Seq(Node) /\ Len(<<>>) = 0
    OBVIOUS
  <2> QED BY <1>1, <2>1
<1>3. LeafOf(t, f) \in NodeIds
  <2>1. MaxDepth \in 0..MaxDepth
    BY NodeIdsFacts
  <2> QED BY <1>2, <2>1, DescentTyped DEF LeafOf
<1>4. Laid(t)[LeafOf(t, f)] = Leaf(0)
  <2>1. LeafOf(t, f) >= Len(t)
    BY <1>2, <1>3, NodeIdsFacts
  <2> QED BY <1>2, <1>3, <2>1, LaidNodes
<1>5. Predict(t, f) = 0
  BY <1>4, LeafNode, NodeIdsFacts DEF Predict
<1>6. Laid(t) \in [NodeIds -> Node]
  BY <1>2, LaidNodes
<1> QED BY <1>1, <1>5, <1>6

LEMMA Begin == Init => IInv
<1> SUFFICES ASSUME Init PROVE IInv
  OBVIOUS
<1>0. <<>> \in AnyTree /\ [i \in 0..(NrFeatures - 1) |-> 0] \in Feats
  BY NodeIdsFacts DEF AnyTree, Feats
<1>1. FitInv
  BY FitBegins DEF Init
<1>2. PubInv
  <2>1. pub = [pc |-> "idle", tree |-> <<>>, key |-> 0, node |-> 0, word |-> 1]
    BY DEF Init, TreeInit
  <2> QED BY <1>0, <2>1, NodeIdsFacts DEF PubInv, Publication, Entries
<1>3. StoreInv
  <2>1. /\ meta = [trained |-> FALSE, active |-> 0, gen |-> 0]
        /\ buf = [k \in Entries |-> Laid(<<>>)] /\ live = <<>>
    BY DEF Init, TreeInit
  <2>2. Laid(<<>>) \in [NodeIds -> Node]
    BY <1>0, TreesTyped
  <2> QED BY <1>0, <2>1, <2>2 DEF StoreInv, Entries, CommittedIntact
<1>4. WalkInv
  <2>1. walk = [r \in Readers |-> NoWalk]
    BY DEF Init, TreeInit
  <2>2. NoWalk \in Walk
    BY <1>0, NodeIdsFacts DEF NoWalk, Walk, Entries
  <2>3. NoWalk.pc = "idle" /\ NoWalk.result = Predict(NoWalk.seen, NoWalk.f)
    <3>1. Predict(<<>>, [i \in 0..(NrFeatures - 1) |-> 0]) = 0
      BY <1>0, Untrained
    <3> QED BY <3>1 DEF NoWalk
  <2>4. WalkOk(NoWalk)
    BY <2>2, <2>3 DEF WalkOk
  <2> HIDE DEF NoWalk
  <2> QED BY <2>1, <2>2, <2>4 DEF WalkInv
<1> QED BY <1>1, <1>2, <1>3, <1>4 DEF IInv

(* What the store and the walks need of a step that leaves them alone.     *)
LEMMA WalksKept ==
  ASSUME IInv, UNCHANGED <<meta, buf, walk, live>> PROVE StoreInv' /\ WalkInv'
<1>1. StoreInv'
  BY DEF IInv, StoreInv, CommittedIntact
<1>2. \A w : WalkOk(w)' = WalkOk(w)
  BY DEF WalkOk
<1>3. WalkInv'
  BY <1>2 DEF IInv, WalkInv
<1> QED BY <1>1, <1>3

LEMMA TrainStep == ASSUME IInv, Train PROVE IInv'
<1>1. FitInv'
  <2>1. (IF TreeInit THEN Jobs ELSE PubJobs) \subseteq Jobs
    BY TreeAssumption DEF TreeAssumption
  <2>2. FitNext(IF TreeInit THEN Jobs ELSE PubJobs) /\ FitInv
    BY DEF Train, IInv
  <2> QED BY <2>1, <2>2, FitSteps
<1>2. UNCHANGED <<meta, buf, pub, walk, live>>
  BY DEF Train, treeVars
<1>3. PubInv'
  BY <1>2 DEF IInv, PubInv
<1> QED BY <1>1, <1>2, <1>3, WalksKept DEF IInv

LEMMA PublishStartStep == ASSUME IInv, PublishStart PROVE IInv'
<1>1. FitInv'
  BY FitDropped DEF PublishStart
<1>2. UNCHANGED <<meta, buf, walk, live>>
  BY DEF PublishStart
<1>3. PubInv'
  <2>1. pub' = [pc |-> "write", tree |-> fit.nodes, key |-> Target, node |-> 0, word |-> 1]
    BY DEF PublishStart
  <2>2. fit.nodes \in Trees
    BY DEF IInv, FitInv, FitTyped, PublishStart, Trees
  <2>3. Target \in Entries /\ Target # meta.active
    BY DEF IInv, StoreInv, Entries, Target
  <2>4. \A i \in NodeIds : ~(i < 0)
    BY NodeIdsFacts
  <2> HIDE DEF Target
  <2> QED BY <1>2, <2>1, <2>2, <2>3, <2>4, NodeIdsFacts DEF PubInv, Publication, Copied, AnyTree
<1> QED BY <1>1, <1>2, <1>3, WalksKept DEF IInv

LEMMA PublishFailStep == ASSUME IInv, PublishFail PROVE IInv'
<1>1. UNCHANGED <<meta, buf, walk, live, fit>>
  BY DEF PublishFail
<1>2. PubInv'
  <2>1. pub' = [pub EXCEPT !.pc = "idle", !.tree = <<>>]
    BY DEF PublishFail
  <2> QED BY <2>1 DEF IInv, PubInv, Publication, AnyTree
<1>3. FitInv'
  BY <1>1, FitSteps DEF IInv
<1> QED BY <1>1, <1>2, <1>3, WalksKept DEF IInv

LEMMA PublishCommitStep == ASSUME IInv, PublishCommit PROVE IInv'
<1>1. /\ meta' = [trained |-> TRUE, active |-> pub.key, gen |-> meta.gen + 1]
      /\ live' = pub.tree /\ pub' = [pub EXCEPT !.pc = "idle", !.tree = <<>>]
      /\ walk' = [r \in Readers |-> [walk[r] EXCEPT !.crossed = @ \/ walk[r].pc # "idle"]]
      /\ UNCHANGED <<fit, buf>>
      /\ pub.pc = "commit"
  BY DEF PublishCommit
<1>2. /\ pub.key \in Entries /\ pub.tree \in Trees /\ buf[pub.key] = Laid(pub.tree)
      /\ pub \in Publication
  BY <1>1 DEF IInv, PubInv, Publication
<1>3. PubInv'
  BY <1>1, <1>2 DEF PubInv, Publication, AnyTree
<1>4. StoreInv'
  <2>1. meta' \in [trained : BOOLEAN, active : Entries, gen : Nat] /\ meta'.active = pub.key
        /\ meta'.trained
    BY <1>1, <1>2 DEF IInv, StoreInv
  <2> QED BY <1>1, <1>2, <2>1 DEF IInv, StoreInv, CommittedIntact, AnyTree
<1>5. ASSUME NEW r \in Readers PROVE walk'[r] \in Walk /\ WalkOk(walk[r])'
  <2>1. PICK w : w = walk[r] /\ w \in Walk /\ WalkOk(w)
    BY DEF IInv, WalkInv
  <2>2. PICK v : v = [w EXCEPT !.crossed = @ \/ w.pc # "idle"]
    OBVIOUS
  <2>3. walk'[r] = v
    BY <1>1, <2>1, <2>2
  <2>4. /\ v \in Walk /\ v.pc = w.pc /\ v.key = w.key /\ v.idx = w.idx /\ v.depth = w.depth
        /\ v.f = w.f /\ v.result = w.result /\ v.seen = w.seen /\ v.lapped = w.lapped
        /\ w.crossed => v.crossed
        /\ w.pc # "idle" => v.crossed
    BY <2>1, <2>2 DEF Walk
  <2>5. WalkOk(v)'
    BY <1>1, <2>1, <2>4 DEF WalkOk, OnPath
  <2> QED BY <2>3, <2>4, <2>5 DEF WalkOk
<1>6. WalkInv'
  <2>1. walk' \in [Readers -> Walk]
    BY <1>1, <1>5
  <2> QED BY <1>5, <2>1 DEF WalkInv
<1>7. FitInv'
  BY <1>1, FitSteps DEF IInv
<1> QED BY <1>3, <1>4, <1>6, <1>7 DEF IInv

(* A word of a node of the new tree, over the same node of the old one.    *)
LEMMA CopiedWord ==
  ASSUME NEW old \in Node, NEW new \in Node, NEW w \in 1..3, Copied(old, new, w),
         NEW n, n = CopyWord(old, new, Words[w])
  PROVE  /\ n \in Node
         /\ w < 3 => Copied(n, new, w + 1)
         /\ w = 3 => n = new
<1>1. CASE w = 1
  <2>1. n = [old EXCEPT !.threshold = new.threshold]
    BY <1>1 DEF CopyWord, Words
  <2> QED BY <1>1, <2>1 DEF Node, Copied
<1>2. CASE w = 2
  <2>1. n = [old EXCEPT !.left = new.left, !.right = new.right]
    BY <1>2 DEF CopyWord, Words
  <2>2. old.threshold = new.threshold
    BY <1>2 DEF Copied
  <2>3. /\ n \in Node /\ n.threshold = old.threshold /\ n.feature = old.feature
        /\ n.left = new.left /\ n.right = new.right
    BY <2>1 DEF Node
  <2> QED BY <1>2, <2>2, <2>3 DEF Copied
<1>3. CASE w = 3
  <2>1. n = [old EXCEPT !.feature = new.feature]
    BY <1>3 DEF CopyWord, Words
  <2>2. old.threshold = new.threshold /\ old.left = new.left /\ old.right = new.right
    BY <1>3 DEF Copied
  <2> QED BY <1>3, <2>1, <2>2 DEF Node
<1> QED BY <1>1, <1>2, <1>3

LEMMA PublishWriteStep == ASSUME IInv, PublishWrite PROVE IInv'
<1>a. PICK k, i, w, new : k = pub.key /\ i = pub.node /\ w = pub.word /\ new = Laid(pub.tree)
  OBVIOUS
<1>b. PICK n : n = CopyWord(buf[k][i], new[i], Words[w])
  OBVIOUS
<1>1. /\ pub \in Publication /\ pub.pc = "write"
      /\ k \in Entries /\ k # meta.active /\ pub.tree \in Trees
      /\ i \in NodeIds /\ w \in 1..3
      /\ \A j \in NodeIds : j < i => buf[k][j] = new[j]
      /\ Copied(buf[k][i], new[i], w)
      /\ new \in [NodeIds -> Node] /\ buf \in [Entries -> [NodeIds -> Node]]
      /\ meta.active \in Entries
  <2>1. PubInv /\ StoreInv /\ pub.pc = "write"
    BY DEF IInv, PublishWrite
  <2>2. /\ pub \in Publication /\ pub.key # meta.active /\ pub.tree \in Trees
        /\ \A j \in NodeIds : j < pub.node => buf[pub.key][j] = Laid(pub.tree)[j]
        /\ Copied(buf[pub.key][pub.node], Laid(pub.tree)[pub.node], pub.word)
    BY <2>1 DEF PubInv
  <2>3. pub.key \in Entries /\ pub.node \in NodeIds /\ pub.word \in 1..3
    BY <2>2 DEF Publication
  <2>4. new \in [NodeIds -> Node]
    BY <1>a, <2>2, TreesTyped DEF AnyTree
  <2>5. buf \in [Entries -> [NodeIds -> Node]] /\ meta.active \in Entries
    BY <2>1 DEF StoreInv
  <2> QED BY <1>a, <2>1, <2>2, <2>3, <2>4, <2>5
<1>2. n \in Node /\ (w < 3 => Copied(n, new[i], w + 1)) /\ (w = 3 => n = new[i])
  <2>1. buf[k][i] \in Node /\ new[i] \in Node
    BY <1>1
  <2> QED BY <1>1, <1>b, <2>1, CopiedWord
<1>3. /\ buf' = [buf EXCEPT ![k] = [buf[k] EXCEPT ![i] = n]]
      /\ meta' = meta /\ live' = live /\ fit' = fit
  BY <1>a, <1>b DEF PublishWrite
<1>4. /\ buf' \in [Entries -> [NodeIds -> Node]]
      /\ \A e \in Entries : e # k => buf'[e] = buf[e]
      /\ \A j \in NodeIds : buf'[k][j] = IF j = i THEN n ELSE buf[k][j]
  BY <1>1, <1>2, <1>3
<1>5. StoreInv'
  BY <1>1, <1>3, <1>4 DEF IInv, StoreInv, CommittedIntact
<1>6. /\ pub' \in Publication /\ pub'.tree = pub.tree /\ pub'.key = k
      /\ \/ w < 3 /\ pub'.pc = "write" /\ pub'.word = w + 1 /\ pub'.node = i
         \/ w = 3 /\ i < MaxNodes - 1 /\ pub'.pc = "write" /\ pub'.word = 1 /\ pub'.node = i + 1
         \/ w = 3 /\ i = MaxNodes - 1 /\ pub'.pc = "commit"
  <2>0. pub' = IF pub.word < 3 THEN [pub EXCEPT !.word = @ + 1]
               ELSE IF pub.node < MaxNodes - 1
               THEN [pub EXCEPT !.word = 1, !.node = @ + 1]
               ELSE [pub EXCEPT !.pc = "commit", !.word = 1, !.node = 0]
    BY DEF PublishWrite, LastNode
  <2>p. /\ pub = [pc |-> "write", tree |-> pub.tree, key |-> pub.key, node |-> pub.node,
                 word |-> pub.word]
        /\ pub.tree \in AnyTree /\ pub.key \in Entries
    BY <1>1 DEF Publication
  <2>1. CASE w < 3
    <3>1. pub' = [pub EXCEPT !.word = w + 1] /\ w + 1 \in 1..3
      BY <1>1, <1>a, <2>0, <2>1
    <3> QED BY <1>1, <1>a, <2>1, <3>1 DEF Publication
  <2>2. CASE w = 3 /\ i < MaxNodes - 1
    <3>0. PICK m : m = i + 1
      OBVIOUS
    <3>1. ~(pub.word < 3) /\ pub.node < MaxNodes - 1 /\ m \in NodeIds
      BY <1>1, <1>a, <2>2, <3>0, NodeIdsFacts
    <3>2. pub' = [pub EXCEPT !.word = 1, !.node = m]
      BY <1>a, <2>0, <3>0, <3>1
    <3>3. pub' = [pc |-> "write", tree |-> pub.tree, key |-> pub.key, node |-> m, word |-> 1]
      BY <1>1, <2>p, <3>2
    <3> QED BY <1>a, <2>2, <2>p, <3>0, <3>1, <3>3 DEF Publication
  <2>3. CASE w = 3 /\ i = MaxNodes - 1
    <3>1. ~(pub.word < 3) /\ ~(pub.node < MaxNodes - 1)
      BY <1>1, <1>a, <2>3, NodeIdsFacts
    <3>2. pub' = [pub EXCEPT !.pc = "commit", !.word = 1, !.node = 0]
      BY <2>0, <3>1
    <3>3. pub' = [pc |-> "commit", tree |-> pub.tree, key |-> pub.key, node |-> 0, word |-> 1]
      BY <2>p, <3>2
    <3> QED BY <1>a, <2>3, <2>p, <3>3, NodeIdsFacts DEF Publication
  <2>4. w < 3 \/ (w = 3 /\ i < MaxNodes - 1) \/ (w = 3 /\ i = MaxNodes - 1)
    BY <1>1, NodeIdsFacts
  <2> QED BY <2>1, <2>2, <2>3, <2>4
<1>7. PubInv'
  <2>1. pub'.pc = "write" =>
          /\ \A j \in NodeIds : j < pub'.node => buf'[k][j] = new[j]
          /\ Copied(buf'[k][pub'.node], new[pub'.node], pub'.word)
    <3>1. CASE w < 3
      <4>1. \A j \in NodeIds : j < i => buf'[k][j] = new[j]
        BY <1>1, <1>4, NodeIdsFacts
      <4>2. Copied(buf'[k][i], new[i], w + 1)
        BY <1>1, <1>2, <1>4, <3>1
      <4>3. pub'.node = i /\ pub'.word = w + 1
        BY <1>6, <3>1
      <4> QED BY <4>1, <4>2, <4>3
    <3>2. CASE w = 3 /\ i < MaxNodes - 1
      <4>1. \A j \in NodeIds : j < i + 1 => buf'[k][j] = new[j]
        <5>1. \A j \in NodeIds : j < i + 1 => j = i \/ j < i
          BY <1>1, NodeIdsFacts
        <5>2. ASSUME NEW j \in NodeIds, j = i \/ j < i PROVE buf'[k][j] = new[j]
          BY <1>1, <1>2, <1>4, <3>2, <5>2
        <5> QED BY <5>1, <5>2
      <4>2. Copied(buf'[k][i + 1], new[i + 1], 1)
        BY DEF Copied
      <4>3. pub'.node = i + 1 /\ pub'.word = 1
        BY <1>6, <3>2, NodeIdsFacts
      <4> QED BY <4>1, <4>2, <4>3
    <3>3. CASE w = 3 /\ i = MaxNodes - 1
      BY <1>6, <3>3, NodeIdsFacts
    <3> QED BY <1>6, <3>1, <3>2, <3>3
  <2>2. pub'.pc = "commit" => buf'[k] = new
    <3> SUFFICES ASSUME pub'.pc = "commit" PROVE buf'[k] = new
      OBVIOUS
    <3>1. w = 3 /\ i = MaxNodes - 1
      BY <1>6
    <3>2. \A j \in NodeIds : buf'[k][j] = new[j]
      BY <1>1, <1>2, <1>4, <3>1, NodeIdsFacts
    <3>3. buf'[k] \in [NodeIds -> Node]
      BY <1>1, <1>4
    <3> QED BY <1>1, <3>2, <3>3
  <2>3. /\ pub'.key # meta'.active /\ pub'.tree \in Trees /\ pub' \in Publication
        /\ pub'.key = k /\ new = Laid(pub'.tree)
    BY <1>1, <1>3, <1>6, <1>a
  <2> QED BY <2>1, <2>2, <2>3 DEF PubInv
<1>8. walk' = [r \in Readers |->
        [walk[r] EXCEPT !.lapped = @ \/ (Walking(r) /\ walk[r].key = k)]]
  BY <1>a DEF PublishWrite
<1>9. ASSUME NEW r \in Readers PROVE walk'[r] \in Walk /\ WalkOk(walk[r])'
  <2>1. PICK w0 : w0 = walk[r] /\ w0 \in Walk /\ WalkOk(w0)
    BY DEF IInv, WalkInv
  <2>2. PICK hit : hit = (w0.pc \notin {"idle", "untrained"} /\ w0.key = k) /\ hit \in BOOLEAN
    OBVIOUS
  <2>3. PICK v : v = [w0 EXCEPT !.lapped = @ \/ hit]
    OBVIOUS
  <2>4. walk'[r] = v
    BY <1>8, <2>1, <2>2, <2>3 DEF Walking
  <2>5. /\ v \in Walk /\ v.pc = w0.pc /\ v.key = w0.key /\ v.idx = w0.idx
        /\ v.depth = w0.depth /\ v.f = w0.f /\ v.result = w0.result /\ v.seen = w0.seen
        /\ v.crossed = w0.crossed /\ (v.lapped <=> w0.lapped \/ hit)
    BY <2>1, <2>3 DEF Walk
  <2>6. WalkOk(v)'
    <3>1. ASSUME v.pc \notin {"idle", "untrained"}
          PROVE  /\ ~v.crossed => v.key = meta'.active
                 /\ v.lapped => v.crossed
                 /\ ~v.lapped => buf'[v.key] = Laid(v.seen) /\ OnPath(v)
      <4>1. /\ ~w0.crossed => w0.key = meta.active
            /\ w0.lapped => w0.crossed
            /\ ~w0.lapped => buf[w0.key] = Laid(w0.seen) /\ OnPath(w0)
        BY <2>1, <2>5, <3>1 DEF WalkOk
      <4>2. hit <=> w0.key = k
        BY <2>2, <2>5, <3>1
      <4>3. v.lapped => v.crossed
        BY <1>1, <2>5, <4>1, <4>2
      <4>4. ASSUME ~v.lapped PROVE buf'[v.key] = Laid(v.seen) /\ OnPath(v)
        <5>1. w0.key # k /\ ~w0.lapped /\ w0.key \in Entries
          BY <2>1, <2>5, <4>2, <4>4 DEF Walk
        <5>2. buf'[w0.key] = buf[w0.key]
          BY <1>4, <5>1
        <5>3. OnPath(v)
          BY <2>5, <4>1, <5>1 DEF OnPath
        <5> QED BY <2>5, <4>1, <5>1, <5>2, <5>3
      <4> QED BY <1>3, <2>5, <4>1, <4>3, <4>4
    <3>2. v.pc = "untrained" => v.seen = <<>>
      BY <2>1, <2>5 DEF WalkOk
    <3>3. v.pc \in {"split", "left"} => v.depth < MaxDepth
      BY <2>1, <2>5 DEF WalkOk
    <3>4. v.pc = "idle" => v.result = Predict(v.seen, v.f) \/ (v.crossed /\ v.lapped)
      BY <2>1, <2>5 DEF WalkOk
    <3> QED BY <2>5, <3>1, <3>2, <3>3, <3>4 DEF WalkOk, OnPath
  <2> QED BY <2>4, <2>5, <2>6 DEF WalkOk
<1>10. WalkInv'
  <2>1. walk' \in [Readers -> Walk]
    BY <1>8, <1>9
  <2> QED BY <1>9, <2>1 DEF WalkInv
<1>11. FitInv'
  BY <1>3, FitSteps DEF IInv
<1> QED BY <1>5, <1>7, <1>10, <1>11 DEF IInv

-----------------------------------------------------------------------------
(* The walks only read: a step of one changes nothing else.                *)

LEMMA OneWalk ==
  ASSUME IInv, NEW r \in Readers, NEW new, WalkOk(new), walk' = [walk EXCEPT ![r] = new],
         UNCHANGED <<fit, meta, buf, pub, live>>
  PROVE  IInv'
<1>1. \A w : WalkOk(w)' = WalkOk(w)
  BY DEF WalkOk
<1>2. new \in Walk
  BY DEF WalkOk
<1>3. WalkInv'
  <2>1. walk' \in [Readers -> Walk]
    BY <1>2 DEF IInv, WalkInv
  <2>2. ASSUME NEW q \in Readers PROVE WalkOk(walk'[q])
    <3>1. walk'[q] = IF q = r THEN new ELSE walk[q]
      BY DEF IInv, WalkInv
    <3> QED BY <3>1 DEF IInv, WalkInv
  <2> QED BY <1>1, <2>1, <2>2 DEF WalkInv
<1>4. StoreInv' /\ PubInv'
  BY DEF IInv, StoreInv, PubInv, CommittedIntact
<1>5. FitInv'
  BY FitSteps DEF IInv
<1> QED BY <1>3, <1>4, <1>5 DEF IInv

LEMMA WalkBeginStep ==
  ASSUME IInv, NEW r \in Readers, NEW f \in Feats, WalkBegin(r, f) PROVE IInv'
<1>1. PICK w : w = walk[r] /\ w \in Walk
  BY DEF IInv, WalkInv
<1>a. PICK pc, active :
        pc = (IF meta.trained THEN "right" ELSE "untrained") /\ active = meta.active
  OBVIOUS
<1>2. PICK new : new = [w EXCEPT !.pc = pc,
                     !.key = active, !.idx = 0, !.depth = 0, !.f = f,
                     !.seen = live, !.crossed = FALSE, !.lapped = FALSE]
  OBVIOUS
<1>3. walk' = [walk EXCEPT ![r] = new] /\ UNCHANGED <<fit, meta, buf, pub, live>>
  BY <1>1, <1>2, <1>a DEF WalkBegin
<1>4. /\ meta.trained \in BOOLEAN /\ meta.active \in Entries /\ live \in AnyTree
      /\ ~meta.trained => live = <<>>
      /\ meta.trained => buf[meta.active] = Laid(live)
  BY DEF IInv, StoreInv, CommittedIntact
<1>5. /\ new \in Walk /\ new.pc = (IF meta.trained THEN "right" ELSE "untrained")
      /\ new.key = meta.active /\ new.idx = 0 /\ new.depth = 0 /\ new.seen = live
      /\ new.crossed = FALSE /\ new.lapped = FALSE
  <2>1. pc \in {"right", "untrained"} /\ active \in Entries
    BY <1>4, <1>a
  <2>2. 0 \in NodeIds /\ 0 \in 0..MaxDepth
    BY NodeIdsFacts
  <2>3. /\ new \in Walk /\ new.pc = pc /\ new.key = active /\ new.idx = 0 /\ new.depth = 0
        /\ new.seen = live /\ new.crossed = FALSE /\ new.lapped = FALSE
    BY <1>1, <1>2, <1>4, <2>1, <2>2 DEF Walk
  <2> QED BY <1>a, <2>3
<1>6. Descent(new.seen, new.f)[0] = 0
  BY DescentDef
<1>7. new.pc = "right" => OnPath(new)
  BY <1>5, <1>6 DEF OnPath
<1>8. WalkOk(new)
  BY <1>4, <1>5, <1>7 DEF WalkOk
<1> QED BY <1>3, <1>8, OneWalk

(* What a walk finds at its node.                                          *)
LEMMA NodeFound ==
  ASSUME IInv, NEW r \in Readers, Walking(r)
  PROVE  \E w, n :
           /\ w = walk[r] /\ n = WalkNode(r) /\ w \in Walk /\ WalkOk(w) /\ n \in Node
           /\ w.pc \notin {"idle", "untrained"}
           /\ w.lapped => w.crossed
           /\ ~w.lapped => n = Laid(w.seen)[w.idx] /\ OnPath(w)
<1>1. PICK w : w = walk[r] /\ w \in Walk /\ WalkOk(w)
  BY DEF IInv, WalkInv
<1>2. w.pc \notin {"idle", "untrained"} /\ w.key \in Entries /\ w.idx \in NodeIds
  BY <1>1 DEF Walking, Walk
<1>3. PICK n : n = buf[w.key][w.idx]
  OBVIOUS
<1>4. n \in Node
  BY <1>2, <1>3 DEF IInv, StoreInv
<1>5. n = WalkNode(r)
  BY <1>1, <1>3 DEF WalkNode
<1>6. (w.lapped => w.crossed) /\ (~w.lapped => n = Laid(w.seen)[w.idx] /\ OnPath(w))
  BY <1>1, <1>2, <1>3 DEF WalkOk
<1> QED BY <1>1, <1>2, <1>4, <1>5, <1>6

LEMMA NodeFields ==
  ASSUME NEW n \in Node
  PROVE  /\ n.left \in Nat /\ n.right \in Nat /\ n.left \in Values \cup NodeIds
         /\ n.right \in NodeIds
  BY NodeIdsFacts DEF Node

(* A walk that ends in a leaf or at the depth limit answers as predict.    *)
LEMMA Answered ==
  ASSUME NEW w \in Walk, OnPath(w), NEW n, n = Laid(w.seen)[w.idx], NEW v,
         \/ n.right = 0 /\ v = n.left
         \/ n.right # 0 /\ v = 0 /\ ~(w.depth < MaxDepth)
  PROVE  v = Predict(w.seen, w.f)
<1>1. w.depth \in 0..MaxDepth /\ w.idx = Descent(w.seen, w.f)[w.depth] /\ MaxDepth \in Nat
  BY NodeIdsFacts DEF Walk, OnPath
<1>2. CASE n.right = 0 /\ v = n.left
  <2>1. MaxDepth \in w.depth..MaxDepth
    BY <1>1
  <2>2. Laid(w.seen)[Descent(w.seen, w.f)[w.depth]].right = 0
    BY <1>1, <1>2
  <2>3. LeafOf(w.seen, w.f) = w.idx
    BY <1>1, <2>1, <2>2, StaysAtLeaf DEF LeafOf
  <2> QED BY <1>2, <2>3 DEF Predict
<1>3. CASE n.right # 0 /\ v = 0 /\ ~(w.depth < MaxDepth)
  <2>1. w.depth = MaxDepth
    BY <1>1, <1>3
  <2>2. LeafOf(w.seen, w.f) = w.idx
    BY <1>1, <2>1 DEF LeafOf
  <2> QED BY <1>3, <2>2 DEF Predict
<1> QED BY <1>2, <1>3

(* The end of a walk.                                                      *)
LEMMA AnswerStep ==
  ASSUME IInv, NEW r \in Readers, NEW v \in Values \cup NodeIds, Answer(r, v),
         walk[r].pc # "idle",
         v = Predict(walk[r].seen, walk[r].f) \/ (walk[r].crossed /\ walk[r].lapped),
         UNCHANGED <<fit, meta, buf, pub, live>>
  PROVE  IInv'
<1>1. PICK w : w = walk[r] /\ w \in Walk
  BY DEF IInv, WalkInv
<1>2. PICK new : new = [w EXCEPT !.pc = "idle", !.result = v]
  OBVIOUS
<1>3. walk' = [walk EXCEPT ![r] = new]
  BY <1>1, <1>2 DEF Answer, IInv, WalkInv
<1>4. /\ new \in Walk /\ new.pc = "idle" /\ new.result = v /\ new.seen = w.seen
      /\ new.f = w.f /\ new.crossed = w.crossed /\ new.lapped = w.lapped
  BY <1>1, <1>2 DEF Walk
<1>5. WalkOk(new)
  BY <1>1, <1>4 DEF WalkOk
<1> QED BY <1>3, <1>5, OneWalk

LEMMA WalkUntrainedStep ==
  ASSUME IInv, NEW r \in Readers, WalkUntrained(r)
  PROVE  IInv' /\ 0 = Predict(walk[r].seen, walk[r].f)
<1>1. walk[r] \in Walk /\ walk[r].pc = "untrained" /\ walk[r].seen = <<>>
  BY DEF IInv, WalkInv, WalkOk, WalkUntrained
<1>2. 0 = Predict(walk[r].seen, walk[r].f)
  <2>1. walk[r].f \in Feats
    BY <1>1 DEF Walk
  <2> QED BY <1>1, <2>1, Untrained
<1>3. 0 \in Values \cup NodeIds
  BY NodeIdsFacts
<1>4. Answer(r, 0) /\ UNCHANGED <<fit, meta, buf, pub, live>> /\ walk[r].pc # "idle"
  BY <1>1 DEF WalkUntrained
<1> QED BY <1>2, <1>3, <1>4, AnswerStep

(* What the last step of a walk answers.                                   *)
Answers(r, v) ==
  /\ v \in Values \cup NodeIds /\ Answer(r, v) /\ Walking(r)
  /\ v = Predict(walk[r].seen, walk[r].f) \/ (walk[r].crossed /\ walk[r].lapped)

LEMMA WalkLeafAnswers ==
  ASSUME IInv, NEW r \in Readers, WalkLeaf(r) PROVE \E v : Answers(r, v)
<1>0. Walking(r) /\ walk[r].pc = "leaf"
  BY DEF WalkLeaf, Walking
<1>1. PICK w, n :
        /\ w = walk[r] /\ n = WalkNode(r) /\ w \in Walk /\ WalkOk(w) /\ n \in Node
        /\ w.pc \notin {"idle", "untrained"}
        /\ w.lapped => w.crossed
        /\ ~w.lapped => n = Laid(w.seen)[w.idx] /\ OnPath(w)
  BY <1>0, NodeFound
<1>2. PICK v : v = n.left
  OBVIOUS
<1>3. v \in Values \cup NodeIds /\ Answer(r, v)
  BY <1>1, <1>2, NodeFields DEF WalkLeaf
<1>4. ASSUME ~w.lapped PROVE v = Predict(w.seen, w.f)
  <2>1. n.right = 0
    BY <1>0, <1>1, <1>4 DEF OnPath
  <2>2. n = Laid(w.seen)[w.idx] /\ OnPath(w)
    BY <1>1, <1>4
  <2> QED BY <1>1, <1>2, <2>1, <2>2, Answered
<1> QED BY <1>0, <1>1, <1>3, <1>4 DEF Answers

LEMMA WalkRightAnswers ==
  ASSUME IInv, NEW r \in Readers, walk[r].pc = "right", WalkNode(r).right # 0,
         ~MayDescend(r), Answer(r, 0)
  PROVE  Answers(r, 0)
<1>0. Walking(r)
  BY DEF Walking
<1>1. PICK w, n :
        /\ w = walk[r] /\ n = WalkNode(r) /\ w \in Walk /\ WalkOk(w) /\ n \in Node
        /\ w.pc \notin {"idle", "untrained"}
        /\ w.lapped => w.crossed
        /\ ~w.lapped => n = Laid(w.seen)[w.idx] /\ OnPath(w)
  BY <1>0, NodeFound
<1>3. 0 \in Values \cup NodeIds
  BY NodeIdsFacts
<1>4. ASSUME ~w.lapped PROVE 0 = Predict(w.seen, w.f)
  <2>1. n.right # 0 /\ ~(w.depth < MaxDepth)
    BY <1>1 DEF MayDescend
  <2>2. n = Laid(w.seen)[w.idx] /\ OnPath(w)
    BY <1>1, <1>4
  <2>3. PICK v : v = 0
    OBVIOUS
  <2> QED BY <1>1, <2>1, <2>2, <2>3, Answered
<1> QED BY <1>0, <1>1, <1>3, <1>4 DEF Answers

LEMMA WalkEnds ==
  ASSUME IInv, NEW r \in Readers, NEW v, Answers(r, v), UNCHANGED <<fit, meta, buf, pub, live>>
  PROVE  IInv'
<1>1. /\ v \in Values \cup NodeIds /\ Answer(r, v) /\ walk[r].pc # "idle"
      /\ v = Predict(walk[r].seen, walk[r].f) \/ (walk[r].crossed /\ walk[r].lapped)
  BY DEF Answers, Walking
<1> QED BY <1>1, AnswerStep

(* A step of a walk that goes on.                                          *)
GoesOn(r, new) ==
  /\ WalkOk(new) /\ walk' = [walk EXCEPT ![r] = new]
  /\ new.pc # "idle" /\ walk[r].pc # "idle"
  /\ new.seen = walk[r].seen /\ new.f = walk[r].f
  /\ new.crossed = walk[r].crossed /\ new.result = walk[r].result

LEMMA PcMoves ==
  ASSUME IInv, NEW r \in Readers, Walking(r), NEW w, w = walk[r],
         NEW pc \in {"leaf", "split", "left"}, walk' = [walk EXCEPT ![r].pc = pc],
         NEW n, n = WalkNode(r),
         pc = "leaf" => n.right = 0,
         pc # "leaf" => w.depth < MaxDepth,
         pc # "leaf" /\ ~w.lapped => Laid(w.seen)[w.idx].right # 0,
         pc = "left" => GoesLeft(n, w.f)
  PROVE  \E new : GoesOn(r, new)
<1>1. /\ w \in Walk /\ WalkOk(w) /\ w.pc \notin {"idle", "untrained"}
      /\ w.lapped => w.crossed
      /\ ~w.lapped => n = Laid(w.seen)[w.idx] /\ OnPath(w)
  BY NodeFound
<1>2. PICK new : new = [w EXCEPT !.pc = pc]
  OBVIOUS
<1>3. walk' = [walk EXCEPT ![r] = new]
  BY <1>2 DEF IInv, WalkInv
<1>4. /\ new \in Walk /\ new.pc = pc /\ new.key = w.key /\ new.idx = w.idx
      /\ new.depth = w.depth /\ new.f = w.f /\ new.result = w.result /\ new.seen = w.seen
      /\ new.crossed = w.crossed /\ new.lapped = w.lapped
  BY <1>1, <1>2 DEF Walk
<1>5. ~new.lapped => OnPath(new)
  <2> SUFFICES ASSUME ~new.lapped PROVE OnPath(new)
    OBVIOUS
  <2>1. n = Laid(w.seen)[w.idx] /\ w.idx = Descent(w.seen, w.f)[w.depth]
    BY <1>1, <1>4 DEF OnPath
  <2> QED BY <1>4, <2>1 DEF OnPath
<1>6. WalkOk(new)
  <2>1. new.pc \in {"split", "left"} => new.depth < MaxDepth
    BY <1>4
  <2>2. /\ ~new.crossed => new.key = meta.active
        /\ new.lapped => new.crossed
        /\ ~new.lapped => buf[new.key] = Laid(new.seen)
    BY <1>1, <1>4 DEF WalkOk
  <2> QED BY <1>4, <1>5, <2>1, <2>2 DEF WalkOk
<1>7. GoesOn(r, new)
  BY <1>1, <1>3, <1>4, <1>6 DEF GoesOn
<1> QED BY <1>7

LEMMA Descends ==
  ASSUME IInv, NEW r \in Readers, Walking(r), NEW w, w = walk[r],
         NEW i \in Nat, Descend(r, i), w.depth < MaxDepth,
         ~w.lapped => Masked(i) = Onward(w.seen, w.f, w.idx)
  PROVE  \E new : GoesOn(r, new)
<1>1. /\ w \in Walk /\ WalkOk(w) /\ w.pc \notin {"idle", "untrained"}
      /\ w.lapped => w.crossed
      /\ ~w.lapped => OnPath(w)
  BY NodeFound
<1>2. PICK d, j : d = w.depth + 1 /\ j = Masked(i)
  OBVIOUS
<1>3. PICK new : new = [w EXCEPT !.pc = "right", !.idx = j, !.depth = d]
  OBVIOUS
<1>4. walk' = [walk EXCEPT ![r] = new]
  BY <1>2, <1>3 DEF IInv, WalkInv, Descend
<1>5. w.depth \in 0..MaxDepth /\ d \in 1..MaxDepth /\ d \in 0..MaxDepth /\ d - 1 = w.depth
  <2>1. w.depth \in 0..MaxDepth
    BY <1>1 DEF Walk
  <2> QED BY <1>2, <2>1, NodeIdsFacts
<1>6. j \in NodeIds
  BY <1>2, MaskedIndex
<1>7. /\ new \in Walk /\ new.pc = "right" /\ new.key = w.key /\ new.idx = j
      /\ new.depth = d /\ new.f = w.f /\ new.result = w.result /\ new.seen = w.seen
      /\ new.crossed = w.crossed /\ new.lapped = w.lapped
  BY <1>1, <1>3, <1>5, <1>6 DEF Walk
<1>8. ~new.lapped => OnPath(new)
  <2> SUFFICES ASSUME ~new.lapped PROVE OnPath(new)
    OBVIOUS
  <2>1. w.idx = Descent(w.seen, w.f)[w.depth] /\ j = Onward(w.seen, w.f, w.idx)
    BY <1>1, <1>2, <1>7 DEF OnPath
  <2>2. Descent(w.seen, w.f)[d] = Onward(w.seen, w.f, Descent(w.seen, w.f)[d - 1])
    BY <1>5, DescentDef
  <2> QED BY <1>5, <1>7, <2>1, <2>2 DEF OnPath
<1>9. WalkOk(new)
  <2>1. /\ ~new.crossed => new.key = meta.active
        /\ new.lapped => new.crossed
        /\ ~new.lapped => buf[new.key] = Laid(new.seen)
    BY <1>1, <1>7 DEF WalkOk
  <2> QED BY <1>7, <1>8, <2>1 DEF WalkOk
<1>10. GoesOn(r, new)
  BY <1>1, <1>4, <1>7, <1>9 DEF GoesOn
<1> QED BY <1>10

(* Every step of a walk after its begin ends it or goes on.                *)
Rests == UNCHANGED <<fit, meta, buf, pub, live>>

Proceeds(r) ==
  /\ Rests
  /\ \/ \E v : Answers(r, v)
     \/ \E new : GoesOn(r, new)

LEMMA WalkRightProceeds ==
  ASSUME IInv, NEW r \in Readers, WalkRight(r) PROVE Proceeds(r)
<1>1. Rests /\ walk[r].pc = "right" /\ Walking(r)
  BY DEF WalkRight, Rests, Walking
<1>a. PICK w, n : w = walk[r] /\ n = WalkNode(r)
  OBVIOUS
<1>2. ~w.lapped => n = Laid(w.seen)[w.idx]
  BY <1>1, <1>a, NodeFound
<1>3. CASE WalkNode(r).right = 0 /\ walk' = [walk EXCEPT ![r].pc = "leaf"]
  <2>1. PICK pc : pc = "leaf"
    OBVIOUS
  <2>2. pc \in {"leaf", "split", "left"} /\ walk' = [walk EXCEPT ![r].pc = pc] /\ n.right = 0
    BY <1>3, <1>a, <2>1
  <2>3. \E new : GoesOn(r, new)
    BY <1>1, <1>a, <2>1, <2>2, PcMoves
  <2> QED BY <1>1, <2>3 DEF Proceeds
<1>4. CASE /\ WalkNode(r).right # 0 /\ MayDescend(r)
           /\ walk' = [walk EXCEPT ![r].pc = "split"]
  <2>1. PICK pc : pc = "split"
    OBVIOUS
  <2>2. /\ pc \in {"leaf", "split", "left"} /\ walk' = [walk EXCEPT ![r].pc = pc]
        /\ w.depth < MaxDepth /\ (~w.lapped => Laid(w.seen)[w.idx].right # 0)
    BY <1>2, <1>4, <1>a, <2>1 DEF MayDescend
  <2>3. \E new : GoesOn(r, new)
    BY <1>1, <1>a, <2>1, <2>2, PcMoves
  <2> QED BY <1>1, <2>3 DEF Proceeds
<1>5. CASE WalkNode(r).right # 0 /\ ~MayDescend(r) /\ Answer(r, 0)
  BY <1>1, <1>5, WalkRightAnswers DEF Proceeds
<1> QED BY <1>3, <1>4, <1>5 DEF WalkRight

LEMMA WalkLeafProceeds ==
  ASSUME IInv, NEW r \in Readers, WalkLeaf(r) PROVE Proceeds(r)
<1>1. Rests
  BY DEF WalkLeaf, Rests
<1> QED BY <1>1, WalkLeafAnswers DEF Proceeds

LEMMA WalkSplitProceeds ==
  ASSUME IInv, NEW r \in Readers, WalkSplit(r) PROVE Proceeds(r)
<1>1. Rests /\ walk[r].pc = "split" /\ Walking(r)
  BY DEF WalkSplit, Rests, Walking
<1>2. PICK w, n :
        /\ w = walk[r] /\ n = WalkNode(r) /\ w \in Walk /\ WalkOk(w) /\ n \in Node
        /\ w.pc \notin {"idle", "untrained"}
        /\ w.lapped => w.crossed
        /\ ~w.lapped => n = Laid(w.seen)[w.idx] /\ OnPath(w)
  BY <1>1, NodeFound
<1>3. w.depth < MaxDepth /\ (~w.lapped => Laid(w.seen)[w.idx].right # 0)
  BY <1>1, <1>2 DEF WalkOk, OnPath
<1>4. CASE GoesLeft(n, w.f)
  <2>1. PICK pc : pc = "left"
    OBVIOUS
  <2>2. pc \in {"leaf", "split", "left"} /\ walk' = [walk EXCEPT ![r].pc = pc]
    BY <1>2, <1>4, <2>1 DEF WalkSplit
  <2>3. \E new : GoesOn(r, new)
    BY <1>1, <1>2, <1>3, <1>4, <2>1, <2>2, PcMoves
  <2> QED BY <1>1, <2>3 DEF Proceeds
<1>5. CASE ~GoesLeft(n, w.f)
  <2>1. PICK i : i = n.right
    OBVIOUS
  <2>2. i \in Nat /\ Descend(r, i)
    BY <1>2, <1>5, <2>1, NodeFields DEF WalkSplit
  <2>3. ~w.lapped => Masked(i) = Onward(w.seen, w.f, w.idx)
    BY <1>2, <1>3, <1>5, <2>1 DEF Onward, Child, GoesLeft
  <2>4. \E new : GoesOn(r, new)
    BY <1>1, <1>2, <1>3, <2>2, <2>3, Descends
  <2> QED BY <1>1, <2>4 DEF Proceeds
<1> QED BY <1>4, <1>5

LEMMA WalkLeftProceeds ==
  ASSUME IInv, NEW r \in Readers, WalkLeft(r) PROVE Proceeds(r)
<1>1. Rests /\ walk[r].pc = "left" /\ Walking(r)
  BY DEF WalkLeft, Rests, Walking
<1>2. PICK w, n :
        /\ w = walk[r] /\ n = WalkNode(r) /\ w \in Walk /\ WalkOk(w) /\ n \in Node
        /\ w.pc \notin {"idle", "untrained"}
        /\ w.lapped => w.crossed
        /\ ~w.lapped => n = Laid(w.seen)[w.idx] /\ OnPath(w)
  BY <1>1, NodeFound
<1>3. /\ w.depth < MaxDepth
      /\ ~w.lapped => Laid(w.seen)[w.idx].right # 0 /\ GoesLeft(Laid(w.seen)[w.idx], w.f)
  BY <1>1, <1>2 DEF WalkOk, OnPath
<1>4. PICK i : i = n.left
  OBVIOUS
<1>5. i \in Nat /\ Descend(r, i)
  BY <1>2, <1>4, NodeFields DEF WalkLeft
<1>6. ~w.lapped => Masked(i) = Onward(w.seen, w.f, w.idx)
  BY <1>2, <1>3, <1>4 DEF Onward, Child, GoesLeft
<1>7. \E new : GoesOn(r, new)
  BY <1>1, <1>2, <1>3, <1>5, <1>6, Descends
<1> QED BY <1>1, <1>7 DEF Proceeds

LEMMA WalkUntrainedProceeds ==
  ASSUME IInv, NEW r \in Readers, WalkUntrained(r)
  PROVE  /\ Rests /\ Answer(r, 0) /\ walk[r].pc # "idle"
         /\ 0 \in Values \cup NodeIds /\ 0 = Predict(walk[r].seen, walk[r].f)
  BY WalkUntrainedStep, NodeIdsFacts DEF WalkUntrained, Rests

LEMMA WalkStep == ASSUME IInv, NEW r \in Readers, Proceeds(r) PROVE IInv'
<1>1. UNCHANGED <<fit, meta, buf, pub, live>>
  BY DEF Proceeds, Rests
<1>2. ASSUME NEW v, Answers(r, v) PROVE IInv'
  BY <1>1, <1>2, WalkEnds
<1>3. ASSUME NEW new, GoesOn(r, new) PROVE IInv'
  BY <1>1, <1>3, OneWalk DEF GoesOn
<1> QED BY <1>2, <1>3 DEF Proceeds

LEMMA Step == IInv /\ [Next]_vars => IInv'
<1> SUFFICES ASSUME IInv, [Next]_vars PROVE IInv'
  OBVIOUS
<1>1. CASE Train
  BY <1>1, TrainStep
<1>2. CASE PublishStart
  BY <1>2, PublishStartStep
<1>3. CASE PublishFail
  BY <1>3, PublishFailStep
<1>4. CASE PublishWrite
  BY <1>4, PublishWriteStep
<1>5. CASE PublishCommit
  BY <1>5, PublishCommitStep
<1>6. ASSUME NEW r \in Readers, NEW f \in Feats, WalkBegin(r, f) PROVE IInv'
  BY <1>6, WalkBeginStep
<1>7. ASSUME NEW r \in Readers, WalkUntrained(r) PROVE IInv'
  BY <1>7, WalkUntrainedStep
<1>8. ASSUME NEW r \in Readers, WalkRight(r) \/ WalkLeaf(r) \/ WalkSplit(r) \/ WalkLeft(r)
      PROVE  IInv'
  <2>1. Proceeds(r)
    BY <1>8, WalkRightProceeds, WalkLeafProceeds, WalkSplitProceeds, WalkLeftProceeds
  <2> QED BY <2>1, WalkStep
<1>9. CASE UNCHANGED vars
  <2>1. UNCHANGED <<fit, meta, buf, pub, walk, live>>
    BY <1>9 DEF vars, treeVars
  <2>2. FitInv'
    BY <2>1, FitSteps DEF IInv
  <2>3. PubInv'
    BY <2>1 DEF IInv, PubInv
  <2> QED BY <2>1, <2>2, <2>3, WalksKept DEF IInv
<1> QED BY <1>1, <1>2, <1>3, <1>4, <1>5, <1>6, <1>7, <1>8, <1>9 DEF Next

THEOREM Invariance == Spec => []IInv
<1>1. Init => IInv
  BY Begin
<1>2. IInv /\ [Next]_vars => IInv'
  BY Step
<1> QED BY <1>1, <1>2, PTL DEF Spec

-----------------------------------------------------------------------------
(* No publish ever touches the entry the meta points at, whatever it has   *)
(* written so far, and a walk reads one whole tree until a write to its    *)
(* own entry overtakes it (publish_tree against mlfq_tree_walk).           *)
THEOREM WholeTrees == Spec => []EntriesIntact
<1>1. IInv => EntriesIntact
  BY DEF IInv, StoreInv, WalkInv, WalkOk, EntriesIntact, WalkSeesOneTree, Walking
<1> QED BY <1>1, Invariance, PTL

(* An answer differs from the reference prediction only if one publish was *)
(* committed and another began to write within the walk: no reordering of  *)
(* a single publish with the loads of mlfq_tree_walk is enough.            *)
THEOREM TornWalksLapped == Spec => []TornOnlyIfLapped
<1>1. IInv => TornOnlyIfLapped
  BY DEF IInv, WalkInv, WalkOk, TornOnlyIfLapped
<1> QED BY <1>1, Invariance, PTL

(* Every fit ends in a tree that serialize_validate accepts, and stays     *)
(* within the node budget on the way, whatever the samples and the limits. *)
THEOREM FitsPublish == Spec => []FitPublishable
<1>1. IInv => FitPublishable
  BY FitIsPublishable DEF IInv
<1> QED BY <1>1, Invariance, PTL

(* A finished tree answers a training sample with the mean of the samples  *)
(* the walk takes to the same leaf, and leaves no leaf without its share:  *)
(* fit_with_scratch partitions as predict routes.                          *)
THEOREM FitsAnswer == Spec => []AnswersFromSamples
<1>1. IInv => AnswersFromSamples
  BY FitAnswersFromSamples DEF IInv
<1> QED BY <1>1, Invariance, PTL

(* At every step of a fit every child of a node exists and comes after it, *)
(* and the nodes fit the entry of the map.                                 *)
FitInBounds == fit.nodes # <<>> => Shaped(fit.nodes) /\ Len(fit.nodes) <= fit.limits.max_nodes

THEOREM FitsInBounds == Spec => []FitInBounds
<1>1. IInv => FitInBounds
  BY DEF IInv, FitInv, FitInBounds, Growing, NoFit
<1> QED BY <1>1, Invariance, PTL

-----------------------------------------------------------------------------
(* The register of whole trees.                                            *)

(* The two modules predict alike.                                          *)
LEMMA SameNodes ==
  /\ Register!Values = Values /\ Register!NodeIds = NodeIds /\ Register!Feats = Feats
  /\ \A t, f : Register!Predict(t, f) = Predict(t, f)
<1>1. Register!Values = Values /\ Register!NodeIds = NodeIds
  BY DEF Register!Values, Register!NodeIds, Values, NodeIds
<1>2. Register!Feats = Feats
  BY <1>1 DEF Register!Feats, Feats
<1>3. \A t : Register!Laid(t) = Laid(t)
  BY <1>1 DEF Register!Laid, Laid, Register!Leaf, Leaf
<1>4. \A t, f : Register!Descent(t, f) = Descent(t, f)
  BY DEF Register!Descent, Descent, Register!Onward, Onward, Register!Laid, Laid,
         Register!Leaf, Leaf, Register!Masked, Masked, Register!Child, Child,
         Register!NodeIds, NodeIds
<1>5. \A t, f : Register!LeafOf(t, f) = LeafOf(t, f)
  BY <1>4 DEF Register!LeafOf, LeafOf
<1>6. \A t, f : Register!Predict(t, f) = Predict(t, f)
  BY <1>3, <1>5 DEF Register!Predict, Predict
<1> QED BY <1>1, <1>2, <1>6


LEMMA RegisterBegins == Init => Register!AInit
<1> SUFFICES ASSUME Init PROVE Register!AInit
  OBVIOUS
<1>1. live = <<>> /\ meta.gen = 0 /\ walk = [r \in Readers |-> NoWalk]
  BY DEF Init, TreeInit
<1>2. \A r \in Readers : walk[r] = NoWalk
  BY <1>1
<1>3. /\ NoWalk.pc = "idle" /\ NoWalk.seen = <<>> /\ NoWalk.crossed = FALSE
      /\ NoWalk.result = 0 /\ NoWalk.f = [i \in 0..(NrFeatures - 1) |-> 0]
  BY DEF NoWalk
<1> HIDE DEF NoWalk
<1>4. [r \in Readers |-> walk[r].result] = [r \in Readers |-> 0]
  BY <1>2, <1>3
<1>5. \A r \in Readers :
        [active |-> walk[r].pc # "idle", tree |-> walk[r].seen, f |-> walk[r].f,
         crossed |-> walk[r].crossed]
        = [active |-> FALSE, tree |-> <<>>, f |-> [i \in 0..(NrFeatures - 1) |-> 0],
           crossed |-> FALSE]
  BY <1>2, <1>3
<1> QED BY <1>1, <1>4, <1>5, Zenon DEF Register!AInit

(* The call and the answer of a reader, as the register has them.          *)
CallOf(w) ==
  [active |-> w.pc # "idle", tree |-> w.seen, f |-> w.f, crossed |-> w.crossed]
Calls == [r \in Readers |-> CallOf(walk[r])]
Results == [r \in Readers |-> walk[r].result]

LEMMA RegisterStutters ==
  ASSUME live' = live, meta'.gen = meta.gen, Calls' = Calls, Results' = Results
  PROVE  UNCHANGED Register!avars
  BY DEF Register!avars, Calls, CallOf, Results

LEMMA RegisterPublishes ==
  ASSUME live' \in Trees, meta'.gen = meta.gen + 1, Results' = Results,
         Calls' = [r \in Readers |-> [Calls[r] EXCEPT !.crossed = @ \/ Calls[r].active]]
  PROVE  Register!APublish
  BY DEF Register!APublish, Calls, CallOf, Results

LEMMA RegisterTakes ==
  ASSUME NEW r \in Readers, NEW f \in Feats, ~Calls[r].active,
         live' = live, meta'.gen = meta.gen, Results' = Results,
         Calls' = [Calls EXCEPT ![r] = [active |-> TRUE, tree |-> live, f |-> f,
                                        crossed |-> FALSE]]
  PROVE  Register!ABegin(r, f)
  BY DEF Register!ABegin, Calls, CallOf, Results

LEMMA RegisterAnswers ==
  ASSUME NEW r \in Readers, NEW v \in Values \cup NodeIds, Calls[r].active,
         live' = live, meta'.gen = meta.gen,
         v = Predict(Calls[r].tree, Calls[r].f) \/ Calls[r].crossed,
         Calls' = [Calls EXCEPT ![r].active = FALSE],
         Results' = [Results EXCEPT ![r] = v]
  PROVE  Register!AEnd(r)
<1>1. /\ v \in Register!Values \cup Register!NodeIds
      /\ v = Register!Predict(Calls[r].tree, Calls[r].f) \/ Calls[r].crossed
  BY SameNodes
<1> QED BY <1>1 DEF Register!AEnd, Calls, CallOf, Results

LEMMA ActiveCall ==
  ASSUME NEW w, w.pc # "idle"
  PROVE  CallOf(w) = [active |-> TRUE, tree |-> w.seen, f |-> w.f, crossed |-> w.crossed]
<1>1. (w.pc # "idle") = TRUE
  OBVIOUS
<1> QED BY <1>1, Zenon DEF CallOf

LEMMA IdleCall ==
  ASSUME NEW w, w.pc = "idle"
  PROVE  CallOf(w) = [active |-> FALSE, tree |-> w.seen, f |-> w.f, crossed |-> w.crossed]
<1>1. (w.pc # "idle") = FALSE
  OBVIOUS
<1> QED BY <1>1, Zenon DEF CallOf

(* What EXCEPT makes of a call written out.                                *)
LEMMA CallEnds ==
  ASSUME NEW a, NEW t, NEW g, NEW c, NEW k, NEW x,
         k = [active |-> a, tree |-> t, f |-> g, crossed |-> c]
  PROVE  /\ [k EXCEPT !.active = x] = [active |-> x, tree |-> t, f |-> g, crossed |-> c]
         /\ [k EXCEPT !.crossed = x] = [active |-> a, tree |-> t, f |-> g, crossed |-> x]
  OBVIOUS

(* What a step that replaces one walk does to the calls.                   *)
LEMMA OneCall ==
  ASSUME IInv, NEW r \in Readers, NEW new, walk' = [walk EXCEPT ![r] = new]
  PROVE  /\ Calls' = [Calls EXCEPT ![r] = CallOf(new)]
         /\ Results' = [Results EXCEPT ![r] = new.result]
         /\ Calls[r] = CallOf(walk[r]) /\ Results[r] = walk[r].result
<1>1. \A q \in Readers : walk'[q] = IF q = r THEN new ELSE walk[q]
  BY DEF IInv, WalkInv
<1>2. Calls' = [q \in Readers |-> CallOf(walk'[q])]
  BY DEF Calls, CallOf
<1>3. \A q \in Readers : CallOf(walk'[q]) = IF q = r THEN CallOf(new) ELSE CallOf(walk[q])
  BY <1>1
<1>4. Calls' = [Calls EXCEPT ![r] = CallOf(new)]
  BY <1>2, <1>3 DEF Calls
<1>6. Results' = [q \in Readers |-> walk'[q].result]
  BY DEF Results
<1>7. \A q \in Readers : walk'[q].result = IF q = r THEN new.result ELSE walk[q].result
  BY <1>1
<1>5. Results' = [Results EXCEPT ![r] = new.result]
  BY <1>6, <1>7 DEF Results
<1> QED BY <1>4, <1>5 DEF Calls, Results

LEMMA StepKeepsCalls ==
  ASSUME IInv, NEW r \in Readers, NEW new, GoesOn(r, new), Rests
  PROVE  UNCHANGED Register!avars
<1>1. /\ Calls' = [Calls EXCEPT ![r] = CallOf(new)]
      /\ Results' = [Results EXCEPT ![r] = new.result]
      /\ Calls[r] = CallOf(walk[r]) /\ Results[r] = walk[r].result
  BY OneCall DEF GoesOn
<1>2. CallOf(new) = CallOf(walk[r]) /\ new.result = walk[r].result
  BY DEF GoesOn, CallOf
<1>3. Calls' = Calls /\ Results' = Results
  BY <1>1, <1>2 DEF Calls, Results
<1>4. live' = live /\ meta'.gen = meta.gen
  BY DEF Rests
<1> QED BY <1>3, <1>4, RegisterStutters

(* The end of a walk is the end of its call.                               *)
LEMMA StepAnswers ==
  ASSUME IInv, NEW r \in Readers, NEW v \in Values \cup NodeIds, Answer(r, v),
         walk[r].pc # "idle",
         v = Predict(walk[r].seen, walk[r].f) \/ walk[r].crossed, Rests
  PROVE  Register!AEnd(r)
<1>1. PICK w : w = walk[r] /\ w \in Walk
  BY DEF IInv, WalkInv
<1>2. PICK new : new = [w EXCEPT !.pc = "idle", !.result = v]
  OBVIOUS
<1>3. walk' = [walk EXCEPT ![r] = new]
  BY <1>1, <1>2 DEF Answer, IInv, WalkInv
<1>4. /\ new.pc = "idle" /\ new.result = v /\ new.seen = w.seen
      /\ new.f = w.f /\ new.crossed = w.crossed
  BY <1>1, <1>2 DEF Walk
<1>5. /\ Calls' = [Calls EXCEPT ![r] = CallOf(new)]
      /\ Results' = [Results EXCEPT ![r] = v]
      /\ Calls[r] = CallOf(w)
  BY <1>1, <1>3, <1>4, OneCall
<1>6. CallOf(new) = [CallOf(w) EXCEPT !.active = FALSE]
  <2>1. CallOf(new) = [active |-> FALSE, tree |-> w.seen, f |-> w.f, crossed |-> w.crossed]
    BY <1>4, IdleCall
  <2>2. CallOf(w) = [active |-> TRUE, tree |-> w.seen, f |-> w.f, crossed |-> w.crossed]
    BY <1>1, ActiveCall
  <2>3. PICK k : k = CallOf(w)
    OBVIOUS
  <2>4. PICK t, g, c : t = w.seen /\ g = w.f /\ c = w.crossed
    OBVIOUS
  <2>5. k = [active |-> TRUE, tree |-> t, f |-> g, crossed |-> c]
    BY <2>2, <2>3, <2>4
  <2>6. ASSUME NEW x, x = FALSE PROVE CallOf(new) = [k EXCEPT !.active = x]
    <3>1. [k EXCEPT !.active = x] = [active |-> x, tree |-> t, f |-> g, crossed |-> c]
      BY <2>5, CallEnds
    <3> QED BY <2>1, <2>4, <2>6, <3>1
  <2> QED BY <2>3, <2>6, Zenon
<1>7. Calls' = [Calls EXCEPT ![r].active = FALSE]
  BY <1>5, <1>6
<1>8. /\ Calls[r].active /\ Calls[r].tree = walk[r].seen /\ Calls[r].f = walk[r].f
      /\ Calls[r].crossed = walk[r].crossed
  <2>1. CallOf(w) = [active |-> TRUE, tree |-> w.seen, f |-> w.f, crossed |-> w.crossed]
    BY <1>1, ActiveCall
  <2> QED BY <1>1, <1>5, <2>1
<1>9. live' = live /\ meta'.gen = meta.gen
  BY DEF Rests
<1>10. v = Predict(Calls[r].tree, Calls[r].f) \/ Calls[r].crossed
  BY <1>8
<1> QED BY <1>5, <1>7, <1>8, <1>9, <1>10, RegisterAnswers

LEMMA StepBegins ==
  ASSUME IInv, NEW r \in Readers, NEW f \in Feats, WalkBegin(r, f)
  PROVE  Register!ABegin(r, f)
<1>1. PICK w : w = walk[r] /\ w \in Walk /\ w.pc = "idle"
  BY DEF IInv, WalkInv, WalkBegin
<1>a. PICK pc, active :
        /\ pc = (IF meta.trained THEN "right" ELSE "untrained") /\ active = meta.active
        /\ pc # "idle"
  OBVIOUS
<1>2. PICK new : new = [w EXCEPT !.pc = pc,
                     !.key = active, !.idx = 0, !.depth = 0, !.f = f,
                     !.seen = live, !.crossed = FALSE, !.lapped = FALSE]
  OBVIOUS
<1>3. walk' = [walk EXCEPT ![r] = new] /\ live' = live /\ meta'.gen = meta.gen
  BY <1>1, <1>2, <1>a DEF WalkBegin
<1>4. /\ new.pc = pc /\ new.seen = live /\ new.f = f /\ new.crossed = FALSE
      /\ new.result = w.result
  BY <1>1, <1>2 DEF Walk
<1>5. /\ Calls' = [Calls EXCEPT ![r] = CallOf(new)]
      /\ Results' = [Results EXCEPT ![r] = w.result]
      /\ Calls[r] = CallOf(w) /\ Results[r] = w.result
  BY <1>1, <1>3, <1>4, OneCall
<1>6. CallOf(new) = [active |-> TRUE, tree |-> live, f |-> f, crossed |-> FALSE]
  BY <1>4, <1>a DEF CallOf
<1>7. Results' = Results
  BY <1>5 DEF Results
<1>8. ~Calls[r].active
  <2>1. CallOf(w) = [active |-> FALSE, tree |-> w.seen, f |-> w.f, crossed |-> w.crossed]
    BY <1>1, IdleCall
  <2> QED BY <1>5, <2>1
<1>9. Calls' = [Calls EXCEPT ![r] = [active |-> TRUE, tree |-> live, f |-> f,
                                     crossed |-> FALSE]]
  BY <1>5, <1>6
<1> QED BY <1>3, <1>7, <1>8, <1>9, RegisterTakes

LEMMA StepPublishes ==
  ASSUME IInv, PublishCommit PROVE Register!APublish
<1>1. /\ live' = pub.tree /\ pub.tree \in Trees /\ meta'.gen = meta.gen + 1
      /\ walk' = [r \in Readers |-> [walk[r] EXCEPT !.crossed = @ \/ walk[r].pc # "idle"]]
  BY DEF IInv, PubInv, PublishCommit
<1>2. ASSUME NEW r \in Readers
      PROVE  /\ CallOf(walk'[r]) = [CallOf(walk[r]) EXCEPT !.crossed = @ \/ CallOf(walk[r]).active]
             /\ walk'[r].result = walk[r].result
  <2>1. PICK w : w = walk[r] /\ w \in Walk
    BY DEF IInv, WalkInv
  <2>2. PICK x : x = (w.crossed \/ w.pc # "idle")
    OBVIOUS
  <2>3. PICK v : v = [w EXCEPT !.crossed = x]
    OBVIOUS
  <2>4. walk'[r] = v
    BY <1>1, <2>1, <2>2, <2>3
  <2>5. /\ v.pc = w.pc /\ v.seen = w.seen /\ v.f = w.f /\ v.crossed = x /\ v.result = w.result
    BY <2>1, <2>3 DEF Walk
  <2>a. PICK k : k = CallOf(w)
    OBVIOUS
  <2>6. CASE w.pc = "idle"
    <3>1. k = [active |-> FALSE, tree |-> w.seen, f |-> w.f, crossed |-> w.crossed]
      BY <2>a, <2>6, IdleCall
    <3>2. CallOf(v) = [active |-> FALSE, tree |-> w.seen, f |-> w.f, crossed |-> x]
      BY <2>5, <2>6, IdleCall
    <3>3. x = w.crossed
      BY <2>1, <2>2, <2>6 DEF Walk
    <3>4. (k.crossed \/ k.active) = x
      BY <2>1, <3>1, <3>3 DEF Walk
    <3>5. PICK t, g, c : t = w.seen /\ g = w.f /\ c = w.crossed
      OBVIOUS
    <3>6. PICK a : a = FALSE
      OBVIOUS
    <3>7. k = [active |-> a, tree |-> t, f |-> g, crossed |-> c]
      BY <3>1, <3>5, <3>6
    <3>9. [k EXCEPT !.crossed = x] = [active |-> a, tree |-> t, f |-> g, crossed |-> x]
      BY <3>7, CallEnds
    <3>10. CallOf(v) = [k EXCEPT !.crossed = x]
      BY <3>2, <3>5, <3>6, <3>9
    <3>8. CallOf(v) = [k EXCEPT !.crossed = k.crossed \/ k.active]
      BY <3>4, <3>10, Zenon
    <3> QED BY <2>1, <2>4, <2>5, <2>a, <3>8
  <2>7. CASE w.pc # "idle"
    <3>1. k = [active |-> TRUE, tree |-> w.seen, f |-> w.f, crossed |-> w.crossed]
      BY <2>a, <2>7, ActiveCall
    <3>2. CallOf(v) = [active |-> TRUE, tree |-> w.seen, f |-> w.f, crossed |-> x]
      BY <2>5, <2>7, ActiveCall
    <3>3. x = TRUE
      BY <2>1, <2>2, <2>7 DEF Walk
    <3>4. (k.crossed \/ k.active) = x
      BY <2>1, <3>1, <3>3 DEF Walk
    <3>5. PICK t, g, c : t = w.seen /\ g = w.f /\ c = w.crossed
      OBVIOUS
    <3>6. PICK a : a = TRUE
      OBVIOUS
    <3>7. k = [active |-> a, tree |-> t, f |-> g, crossed |-> c]
      BY <3>1, <3>5, <3>6
    <3>9. [k EXCEPT !.crossed = x] = [active |-> a, tree |-> t, f |-> g, crossed |-> x]
      BY <3>7, CallEnds
    <3>10. CallOf(v) = [k EXCEPT !.crossed = x]
      BY <3>2, <3>5, <3>6, <3>9
    <3>8. CallOf(v) = [k EXCEPT !.crossed = k.crossed \/ k.active]
      BY <3>4, <3>10, Zenon
    <3> QED BY <2>1, <2>4, <2>5, <2>a, <3>8
  <2> QED BY <2>6, <2>7
<1>3. Calls' = [r \in Readers |-> CallOf(walk'[r])] /\ Results' = [r \in Readers |-> walk'[r].result]
  BY DEF Calls, CallOf, Results
<1>4. Results' = Results
  BY <1>2, <1>3 DEF Results
<1>5. Calls' = [r \in Readers |-> [Calls[r] EXCEPT !.crossed = @ \/ Calls[r].active]]
  <2>1. \A r \in Readers : Calls[r] = CallOf(walk[r])
    BY DEF Calls
  <2> QED BY <1>2, <1>3, <2>1
<1> QED BY <1>1, <1>4, <1>5, RegisterPublishes

LEMMA StepWrites ==
  ASSUME IInv, PublishWrite PROVE UNCHANGED Register!avars
<1>1. /\ live' = live /\ meta' = meta
      /\ walk' = [r \in Readers |->
           [walk[r] EXCEPT !.lapped = @ \/ (Walking(r) /\ walk[r].key = pub.key)]]
  BY DEF PublishWrite
<1>2. ASSUME NEW r \in Readers
      PROVE  CallOf(walk'[r]) = CallOf(walk[r]) /\ walk'[r].result = walk[r].result
  <2>1. PICK w : w = walk[r] /\ w \in Walk
    BY DEF IInv, WalkInv
  <2>2. PICK x : x = (w.lapped \/ (Walking(r) /\ w.key = pub.key))
    OBVIOUS
  <2>3. PICK v : v = [w EXCEPT !.lapped = x]
    OBVIOUS
  <2>4. walk'[r] = v
    BY <1>1, <2>1, <2>2, <2>3
  <2>5. /\ v.pc = w.pc /\ v.seen = w.seen /\ v.f = w.f /\ v.crossed = w.crossed
        /\ v.result = w.result
    BY <2>1, <2>3 DEF Walk
  <2> QED BY <2>1, <2>4, <2>5 DEF CallOf
<1>3. Calls' = [r \in Readers |-> CallOf(walk'[r])] /\ Results' = [r \in Readers |-> walk'[r].result]
  BY DEF Calls, CallOf, Results
<1>4. Calls' = Calls /\ Results' = Results
  BY <1>2, <1>3 DEF Calls, Results
<1> QED BY <1>1, <1>4, RegisterStutters

LEMMA StepRests ==
  ASSUME UNCHANGED <<meta, walk, live>> PROVE UNCHANGED Register!avars
  BY RegisterStutters DEF Calls, CallOf, Results

LEMMA RegisterStep ==
  ASSUME IInv, [Next]_vars PROVE [Register!ANext]_(Register!avars)
<1>1. CASE Train
  BY <1>1, StepRests DEF Train, treeVars
<1>2. CASE PublishStart
  BY <1>2, StepRests DEF PublishStart
<1>3. CASE PublishFail
  BY <1>3, StepRests DEF PublishFail
<1>4. CASE PublishWrite
  BY <1>4, StepWrites
<1>5. CASE PublishCommit
  BY <1>5, StepPublishes DEF Register!ANext
<1>6. ASSUME NEW r \in Readers, NEW f \in Feats, WalkBegin(r, f) PROVE Register!ANext
  <2>1. Register!ABegin(r, f) /\ f \in Register!Feats
    BY <1>6, StepBegins, SameNodes
  <2> QED BY <2>1 DEF Register!ANext
<1>7. ASSUME NEW r \in Readers, WalkUntrained(r) PROVE Register!ANext
  <2>1. Register!AEnd(r)
    <3>1. PICK v : v = 0
      OBVIOUS
    <3>2. /\ Rests /\ Answer(r, v) /\ walk[r].pc # "idle"
          /\ v \in Values \cup NodeIds /\ v = Predict(walk[r].seen, walk[r].f)
      BY <1>7, <3>1, WalkUntrainedProceeds
    <3> QED BY <3>2, StepAnswers
  <2> QED BY <2>1 DEF Register!ANext
<1>8. ASSUME NEW r \in Readers, WalkRight(r) \/ WalkLeaf(r) \/ WalkSplit(r) \/ WalkLeft(r)
      PROVE  Register!ANext \/ UNCHANGED Register!avars
  <2>1. Proceeds(r)
    BY <1>8, WalkRightProceeds, WalkLeafProceeds, WalkSplitProceeds, WalkLeftProceeds
  <2>2. ASSUME NEW v, Answers(r, v), Rests PROVE Register!AEnd(r)
    <3>1. /\ v \in Values \cup NodeIds /\ Answer(r, v) /\ walk[r].pc # "idle"
          /\ v = Predict(walk[r].seen, walk[r].f) \/ walk[r].crossed
      BY <2>2 DEF Answers, Walking
    <3> QED BY <2>2, <3>1, StepAnswers
  <2>3. ASSUME NEW new, GoesOn(r, new), Rests PROVE UNCHANGED Register!avars
    BY <2>3, StepKeepsCalls
  <2>4. CASE \E v : Answers(r, v)
    BY <2>1, <2>2, <2>4 DEF Proceeds, Register!ANext
  <2>5. CASE \E new : GoesOn(r, new)
    BY <2>1, <2>3, <2>5 DEF Proceeds
  <2> QED BY <2>1, <2>4, <2>5 DEF Proceeds
<1>9. CASE UNCHANGED vars
  BY <1>9, StepRests DEF vars, treeVars
<1> QED BY <1>1, <1>2, <1>3, <1>4, <1>5, <1>6, <1>7, <1>8, <1>9 DEF Next

(* The two entries and the meta word are a register of whole trees: every  *)
(* step of the daemon and of the walks is one publish, the begin or the    *)
(* end of one call, or invisible (publish_tree, mlfq_tree_predict).        *)
THEOREM RegisterOfTrees == Spec => ImplementsRegister
<1>1. Init => Register!AInit
  BY RegisterBegins
<1>2. IInv /\ [Next]_vars => [Register!ANext]_(Register!avars)
  BY RegisterStep
<1> QED BY <1>1, <1>2, Invariance, PTL DEF Spec, ImplementsRegister, Register!ASpec

=============================================================================
