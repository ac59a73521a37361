-------------------------- MODULE MlfqTreeRegister -------------------------
(***************************************************************************)
(* What the published tree promises its readers: a register that holds one *)
(* whole tree.  A call answers from the tree that was in the register when *)
(* it began; only a call during which another tree was published may       *)
(* answer otherwise (one mispredicted burst, struct mlfq_tree_store).      *)
(***************************************************************************)
EXTENDS MlfqTreeNodes

CONSTANTS Readers, Trees

VARIABLES
  live,    \* the tree in the register
  gen,     \* how many trees have been published
  call,    \* the call of each reader, the last one if none is active
  ans      \* the last answer to each reader

avars == <<live, gen, call, ans>>

AInit ==
  /\ live = <<>>
  /\ gen = 0
  /\ call = [r \in Readers |-> [active |-> FALSE, tree |-> <<>>,
                                f |-> [i \in 0..(NrFeatures - 1) |-> 0],
                                crossed |-> FALSE]]
  /\ ans = [r \in Readers |-> 0]

APublish ==
  /\ live' \in Trees
  /\ gen' = gen + 1
  /\ call' = [r \in Readers |->
                [call[r] EXCEPT !.crossed = @ \/ call[r].active]]
  /\ UNCHANGED ans

ABegin(r, f) ==
  /\ ~call[r].active
  /\ call' = [call EXCEPT ![r] = [active |-> TRUE, tree |-> live, f |-> f,
                                  crossed |-> FALSE]]
  /\ UNCHANGED <<live, gen, ans>>

AEnd(r) ==
  /\ call[r].active
  /\ call' = [call EXCEPT ![r].active = FALSE]
  /\ \E v \in Values \cup NodeIds :
       /\ v = Predict(call[r].tree, call[r].f) \/ call[r].crossed
       /\ ans' = [ans EXCEPT ![r] = v]
  /\ UNCHANGED <<live, gen>>

ANext ==
  \/ APublish
  \/ \E r \in Readers, f \in Feats : ABegin(r, f)
  \/ \E r \in Readers : AEnd(r)

ASpec == AInit /\ [][ANext]_avars

=============================================================================
