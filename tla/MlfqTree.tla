------------------------------ MODULE MlfqTree -----------------------------
(***************************************************************************)
(* The published decision tree: the daemon's publish_tree, which copies a  *)
(* tree into the inactive one of two map entries and then flips the meta   *)
(* word, against the BPF walks (mlfq_tree_predict, mlfq_tree_walk) of any  *)
(* number of CPUs, which take no lock.                                     *)
(*                                                                         *)
(* The trees are what the training worker fits (MlfqFit), one job at a     *)
(* time; the gates before a publish are those of MlfqTrainer, and any      *)
(* result may fail them.                                                   *)
(*                                                                         *)
(* The copy is a memcpy: it goes word by word, and a walk may read between *)
(* any two words.  The three words of a node are its threshold, its two    *)
(* child indices, and its feature.  A walk loads the fields of a node one  *)
(* after another.  Nothing but its pace keeps a publish from overtaking a  *)
(* walk; the model lets it.                                                *)
(***************************************************************************)
EXTENDS MlfqFit

CONSTANTS
  Readers,     \* walks in flight, on any CPUs
  PubJobs,     \* bound: the jobs whose trees are published; the others are
               \* fitted before anything else happens
  MaxGen       \* bound: how many trees are published

ASSUME TreeAssumption == PubJobs \subseteq Jobs /\ MaxGen \in Nat

VARIABLES
  meta,    \* mlfq_tree_ctrl.meta: the trained bit, the active entry, the
           \* generation
  buf,     \* the two entries of mlfq_tree_map
  pub,     \* the publish in progress: tree, entry, next node and word
  walk,    \* the walk of each reader; history: the tree that was live when
           \* it loaded the meta, whether another one was committed since
           \* and whether the entry it walks was written since
  live     \* history: the tree last committed

treeVars == <<meta, buf, pub, walk, live>>
vars == <<fit, treeVars>>

(* What serialize_validate lets a publish have.                            *)
Trees == {t \in Seq(Node) : Valid(t)}

Entries == {0, 1}
Words == <<"threshold", "children", "feature">>

(* The bss and the maps start out zeroed: untrained, both entries empty.   *)
NoWalk == [pc |-> "idle", key |-> 0, idx |-> 0, depth |-> 0,
           f |-> [i \in 0..(NrFeatures - 1) |-> 0], result |-> 0, seen |-> <<>>,
           crossed |-> FALSE, lapped |-> FALSE]

TreeInit ==
  /\ meta = [trained |-> FALSE, active |-> 0, gen |-> 0]
  /\ buf = [k \in Entries |-> Laid(<<>>)]
  /\ pub = [pc |-> "idle", tree |-> <<>>, key |-> 0, node |-> 0, word |-> 1]
  /\ walk = [r \in Readers |-> NoWalk]
  /\ live = <<>>

Init == FitInit /\ TreeInit

Walking(r) == walk[r].pc \notin {"idle", "untrained"}

-----------------------------------------------------------------------------
(* The daemon.                                                             *)

(* The entry to write is the active one.                                   *)
MutTarget == meta.active

(* publish_tree writes the entry the meta does not point at.               *)
Target == 1 - meta.active

(* apply_train_result publishes one tree at a time; the generation is the  *)
(* next one, so its monotonicity check passes.                             *)
PublishStart ==
  /\ Fitted /\ Valid(fit.nodes)
  /\ [window |-> fit.window, limits |-> fit.limits] \in PubJobs
  /\ pub.pc = "idle"
  /\ meta.gen < MaxGen
  /\ pub' = [pc |-> "write", tree |-> fit.nodes, key |-> Target, node |-> 0, word |-> 1]
  /\ fit' = NoFit
  /\ UNCHANGED <<meta, buf, walk, live>>

(* The map update fails before it copies anything; the model stays.        *)
PublishFail ==
  /\ pub.pc = "write" /\ pub.node = 0 /\ pub.word = 1
  /\ pub' = [pub EXCEPT !.pc = "idle", !.tree = <<>>]
  /\ UNCHANGED <<fit, meta, buf, walk, live>>

CopyWord(old, new, w) ==
  IF w = "threshold" THEN [old EXCEPT !.threshold = new.threshold]
  ELSE IF w = "children" THEN [old EXCEPT !.left = new.left, !.right = new.right]
  ELSE [old EXCEPT !.feature = new.feature]

(* An update of the live nodes only, with no zeroed tail.                  *)
MutLastNode(t) == Len(t) - 1

(* The whole entry is copied, the zeroed tail included.                    *)
LastNode(t) == MaxNodes - 1

(* One word of the copy.                                                   *)
PublishWrite ==
  /\ pub.pc = "write"
  /\ buf' = [buf EXCEPT ![pub.key][pub.node] =
               CopyWord(@, Laid(pub.tree)[pub.node], Words[pub.word])]
  /\ pub' = IF pub.word < 3 THEN [pub EXCEPT !.word = @ + 1]
            ELSE IF pub.node < LastNode(pub.tree)
            THEN [pub EXCEPT !.word = 1, !.node = @ + 1]
            ELSE [pub EXCEPT !.pc = "commit", !.word = 1, !.node = 0]
  /\ walk' = [r \in Readers |->
       [walk[r] EXCEPT !.lapped = @ \/ (Walking(r) /\ walk[r].key = pub.key)]]
  /\ UNCHANGED <<fit, meta, live>>

(* After the release fence, the single store of the meta word.             *)
PublishCommit ==
  /\ pub.pc = "commit"
  /\ meta' = [trained |-> TRUE, active |-> pub.key, gen |-> meta.gen + 1]
  /\ live' = pub.tree
  /\ pub' = [pub EXCEPT !.pc = "idle", !.tree = <<>>]
  /\ walk' = [r \in Readers |->
       [walk[r] EXCEPT !.crossed = @ \/ walk[r].pc # "idle"]]
  /\ UNCHANGED <<fit, buf>>

-----------------------------------------------------------------------------
(* A walk.                                                                 *)

(* mlfq_tree_predict loads the meta once.                                  *)
WalkBegin(r, f) ==
  /\ walk[r].pc = "idle"
  /\ walk' = [walk EXCEPT ![r] =
       [@ EXCEPT !.pc = IF meta.trained THEN "right" ELSE "untrained",
                 !.key = meta.active, !.idx = 0, !.depth = 0, !.f = f,
                 !.seen = live, !.crossed = FALSE, !.lapped = FALSE]]
  /\ UNCHANGED <<fit, meta, buf, pub, live>>

WalkNode(r) == buf[walk[r].key][walk[r].idx]

Answer(r, v) == walk' = [walk EXCEPT ![r].pc = "idle", ![r].result = v]

WalkUntrained(r) ==
  /\ walk[r].pc = "untrained"
  /\ Answer(r, 0)
  /\ UNCHANGED <<fit, meta, buf, pub, live>>

(* The loop of the walk has iterations left.                               *)
MayDescend(r) == walk[r].depth < MaxDepth

(* Loads n->right: a leaf, an internal node, or an internal node where the *)
(* depth is exhausted, which predicts zero.                                *)
WalkRight(r) ==
  /\ walk[r].pc = "right"
  /\ \/ /\ WalkNode(r).right = 0
        /\ walk' = [walk EXCEPT ![r].pc = "leaf"]
     \/ /\ WalkNode(r).right # 0
        /\ MayDescend(r)
        /\ walk' = [walk EXCEPT ![r].pc = "split"]
     \/ /\ WalkNode(r).right # 0
        /\ ~MayDescend(r)
        /\ Answer(r, 0)
  /\ UNCHANGED <<fit, meta, buf, pub, live>>

(* Loads n->left of a leaf: the prediction.                                *)
WalkLeaf(r) ==
  /\ walk[r].pc = "leaf"
  /\ Answer(r, WalkNode(r).left)
  /\ UNCHANGED <<fit, meta, buf, pub, live>>

(* A split that sends equal values to the right.                           *)
MutGoesLeft(n, f) == f[n.feature] < n.threshold

GoesLeft(n, f) == f[n.feature] <= n.threshold

Descend(r, i) ==
  walk' = [walk EXCEPT ![r].pc = "right", ![r].idx = Masked(i),
                       ![r].depth = @ + 1]

(* Loads n->feature and n->threshold, and n->right again to go right.      *)
WalkSplit(r) ==
  /\ walk[r].pc = "split"
  /\ IF GoesLeft(WalkNode(r), walk[r].f)
     THEN walk' = [walk EXCEPT ![r].pc = "left"]
     ELSE Descend(r, WalkNode(r).right)
  /\ UNCHANGED <<fit, meta, buf, pub, live>>

(* Loads n->left to go left.                                               *)
WalkLeft(r) ==
  /\ walk[r].pc = "left"
  /\ Descend(r, WalkNode(r).left)
  /\ UNCHANGED <<fit, meta, buf, pub, live>>

(* The worker, while nothing is being published: it gets its next job from *)
(* the thread that publishes.                                              *)
Train ==
  /\ pub.pc = "idle" /\ meta.gen < MaxGen
  /\ FitNext(IF TreeInit THEN Jobs ELSE PubJobs)
  /\ UNCHANGED treeVars

Next ==
  \/ Train
  \/ PublishStart \/ PublishFail \/ PublishWrite \/ PublishCommit
  \/ \E r \in Readers, f \in Feats : WalkBegin(r, f)
  \/ \E r \in Readers : \/ WalkUntrained(r) \/ WalkRight(r) \/ WalkLeaf(r)
                        \/ WalkSplit(r) \/ WalkLeft(r)

Spec == Init /\ [][Next]_vars

-----------------------------------------------------------------------------
(* The entry the meta points at always holds exactly the tree last         *)
(* committed, whatever a publish is writing at the moment.                 *)
CommittedIntact == meta.trained => buf[meta.active] = Laid(live)

(* A walk that no write to its entry overtook reads, at every step, the    *)
(* tree that was live when it loaded the meta.                             *)
WalkSeesOneTree ==
  \A r \in Readers :
    Walking(r) /\ ~walk[r].lapped => buf[walk[r].key] = Laid(walk[r].seen)

(* Both: no write reaches what a reader may trust.                         *)
EntriesIntact == CommittedIntact /\ WalkSeesOneTree

(* An answer differs from the reference prediction only if, within the     *)
(* walk, one publish was committed and another began to write.             *)
TornOnlyIfLapped ==
  \A r \in Readers :
    walk[r].pc = "idle" =>
      \/ walk[r].result = Predict(walk[r].seen, walk[r].f)
      \/ walk[r].crossed /\ walk[r].lapped

-----------------------------------------------------------------------------
(* The two entries and the meta word implement the register of whole trees *)
(* of MlfqTreeRegister.                                                    *)
Register == INSTANCE MlfqTreeRegister
  WITH gen <- meta.gen,
       call <- [r \in Readers |-> [active |-> walk[r].pc # "idle",
                                   tree |-> walk[r].seen, f |-> walk[r].f,
                                   crossed |-> walk[r].crossed]],
       ans <- [r \in Readers |-> walk[r].result]

ImplementsRegister == Register!ASpec

=============================================================================
