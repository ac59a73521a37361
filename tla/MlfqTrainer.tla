---------------------------- MODULE MlfqTrainer ----------------------------
(***************************************************************************)
(* The training pipeline of the daemon (main.rs): the sliding window of    *)
(* samples with its per-pid accounting, the retrain cadence, the training  *)
(* worker behind two channels of capacity one, and the quality gate of a   *)
(* publish.  The main thread owns everything but the worker; MlfqDaemon    *)
(* sequences its operations.                                               *)
(*                                                                         *)
(* A sample is its pid.  What a fit returns is free: an error, or a valid  *)
(* tree that beats the baseline or not, with any correlation.  Only the    *)
(* number of pids behind a snapshot is carried.                            *)
(***************************************************************************)
EXTENDS Integers, Sequences, FiniteSets, Functions

CONSTANTS
  Pids,
  WindowMax,   \* MLFQ_TREE_WINDOW_MAX
  MinSamples,  \* MLFQ_TREE_MIN_SAMPLES
  PidCap,      \* MLFQ_TREE_PER_PID_CAP
  MinPids,     \* MLFQ_TREE_MIN_PIDS
  HoldoutDiv,  \* one sample in HoldoutDiv is held out
  CorrFloor,   \* the quality floor
  CorrMax,     \* bound: correlations are 0..CorrMax
  Outcomes     \* bound: whether a fit beats the baseline, its correlation

ASSUME TrainerAssumption ==
  /\ IsFiniteSet(Pids)
  /\ {WindowMax, MinSamples, PidCap, MinPids, HoldoutDiv, CorrFloor} \subseteq Nat \ {0}
  /\ MinSamples <= WindowMax /\ CorrMax \in Nat
  /\ Outcomes \subseteq [beats : BOOLEAN, corr : 0..CorrMax]

VARIABLES
  window,    \* the admitted samples, oldest first
  counts,    \* pid_counts; an absent entry is zero
  sinceKick, \* last_train_at, seen through elapsed(): "never" kicked,
             \* kicked "recent"ly, or an interval or more ago ("due")
  job,       \* the job channel: the pids of the fit slice of a snapshot
  worker,    \* the training thread: waiting for a job, or at work on one
  res,       \* the result channel
  model,     \* ModelMeta of the committed model
  metaGen    \* the generation in mlfq_tree_ctrl.meta

trainerVars == <<window, counts, sinceKick, job, worker, res, model, metaGen>>

PidCounts == 0..Cardinality(Pids)
Fits == [ok : BOOLEAN, beats : BOOLEAN, corr : 0..CorrMax, pids : PidCounts]

TrainerTypeOK ==
  /\ window \in Seq(Pids) /\ Len(window) <= WindowMax
  /\ counts \in [Pids -> 0..PidCap]
  /\ sinceKick \in {"never", "recent", "due"}
  /\ job \in Seq(PidCounts) /\ Len(job) <= 1
  /\ worker \in [pc : {"recv", "fit"}, pids : PidCounts]
  /\ res \in Seq(Fits) /\ Len(res) <= 1
  /\ model \in [gen : Nat, corr : 0..CorrMax]
  /\ metaGen \in Nat

NoFit == [ok |-> FALSE, beats |-> FALSE, corr |-> 0, pids |-> 0]
Idle == [pc |-> "recv", pids |-> 0]
Untrained == [gen |-> 0, corr |-> 0]

TrainerInit ==
  /\ window = <<>> /\ counts = [p \in Pids |-> 0] /\ sinceKick = "never"
  /\ job = <<>> /\ worker = Idle /\ res = <<>>
  /\ model = Untrained /\ metaGen = 0

(* The Scheduler is dropped: the next incarnation has a fresh one, a fresh *)
(* bss and a fresh worker.  The worker left behind owns no scheduler state *)
(* and ends on its next call of a closed channel.                          *)
TrainerDrop ==
  /\ window' = <<>> /\ counts' = [p \in Pids |-> 0] /\ sinceKick' = "never"
  /\ job' = <<>> /\ worker' = Idle /\ res' = <<>>
  /\ model' = Untrained /\ metaGen' = 0

-----------------------------------------------------------------------------
(* The main thread.                                                        *)

(* The newest sample is the one forgotten.                                 *)
MutEvictee(w, p) == p

(* The sample the window pops.                                             *)
Evictee(w, p) == Head(w)

(* tree_admit_pid and tree_evict_pid: the window and the counts after the  *)
(* sample of a pid below its cap.                                          *)
Admitted(p) ==
  IF Len(window) = WindowMax
  THEN [win |-> Append(Tail(window), p),
        cnt |-> [[counts EXCEPT ![p] = @ + 1] EXCEPT ![Evictee(window, p)] = @ - 1]]
  ELSE [win |-> Append(window, p), cnt |-> [counts EXCEPT ![p] = @ + 1]]

FitSlice(w) == SubSeq(w, 1, Len(w) - Len(w) \div HoldoutDiv)

(* A send that waits for room in the channel.                              *)
MutSendJob(pids) == Len(job) = 0 /\ job' = <<pids>>

(* try_send: a full channel drops the kick.                                *)
SendJob(pids) == job' = IF job = <<>> THEN <<pids>> ELSE job

(* kick_training: the cadence counts every kick, dropped or not.           *)
KickTraining(w) ==
  /\ sinceKick' = "recent"
  /\ SendJob(Cardinality(Range(FitSlice(w))))

AtCap(p) == counts[p] >= PidCap

(* ingest_sample: the cap is checked before the eviction, so a rejected    *)
(* sample leaves the accounting alone.                                     *)
IngestSample(p) ==
  /\ IF AtCap(p)
     THEN UNCHANGED <<window, counts, sinceKick, job>>
     ELSE /\ window' = Admitted(p).win
          /\ counts' = Admitted(p).cnt
          /\ IF sinceKick # "recent" /\ Len(Admitted(p).win) >= MinSamples
             THEN KickTraining(Admitted(p).win)
             ELSE UNCHANGED <<sinceKick, job>>
  /\ UNCHANGED <<worker, res, model, metaGen>>

(* A gate without the monotonicity on the correlation.                     *)
MutShouldPublish(f) == f.beats /\ f.corr >= CorrFloor

ShouldPublish(f) ==
  /\ f.beats
  /\ f.corr >= CorrFloor
  /\ model.gen > 0 => f.corr > model.corr

Publishable(f) == f.ok /\ f.pids >= MinPids /\ ShouldPublish(f)

(* A failed publish keeps the model.                                       *)
KeepModel == model' = model

(* apply_train_result: publish_tree may fail (the map update, or a         *)
(* generation that is not beyond the published one).                       *)
ApplyTrainResult(f) ==
  IF Publishable(f)
  THEN \/ /\ metaGen < model.gen + 1 \/ metaGen = 0
          /\ metaGen' = model.gen + 1
          /\ model' = [gen |-> model.gen + 1, corr |-> f.corr]
       \/ KeepModel /\ UNCHANGED metaGen
  ELSE UNCHANGED <<model, metaGen>>

(* One turn of poll_train_results.                                         *)
PollTrainResult ==
  /\ res # <<>>
  /\ ApplyTrainResult(Head(res))
  /\ res' = <<>>
  /\ UNCHANGED <<window, counts, sinceKick, job, worker>>

-----------------------------------------------------------------------------
(* The retrain interval elapses.                                           *)
IntervalElapses ==
  /\ sinceKick = "recent"
  /\ sinceKick' = "due"
  /\ UNCHANGED <<window, counts, job, worker, res, model, metaGen>>

-----------------------------------------------------------------------------
(* The training worker.                                                    *)

WorkerRecv ==
  /\ worker.pc = "recv" /\ job # <<>>
  /\ worker' = [pc |-> "fit", pids |-> Head(job)]
  /\ job' = <<>>
  /\ UNCHANGED <<window, counts, sinceKick, res, model, metaGen>>

(* The fit, and the blocking send of its result.  A tree that fails        *)
(* validation is an error.                                                 *)
WorkerFit ==
  /\ worker.pc = "fit" /\ res = <<>>
  /\ \/ res' = <<NoFit>>
     \/ \E o \in Outcomes :
          res' = <<[ok |-> TRUE, beats |-> o.beats, corr |-> o.corr,
                    pids |-> worker.pids]>>
  /\ worker' = Idle
  /\ UNCHANGED <<window, counts, sinceKick, job, model, metaGen>>

WorkerStep == WorkerRecv \/ WorkerFit

-----------------------------------------------------------------------------
(* The per-pid counts are the numbers of samples in the window, at every   *)
(* step: neither a rejection nor an eviction loses or invents a share, and *)
(* no pid ever has more than its cap of a window that never overflows.     *)
WindowAccounted ==
  /\ Len(window) <= WindowMax
  /\ \A p \in Pids :
       /\ counts[p] = Cardinality({i \in DOMAIN window : window[i] = p})
       /\ counts[p] <= PidCap

(* The model the daemon reports and builds its next generation on is the   *)
(* one the BPF side reads, so a publish never trips over the monotonicity  *)
(* check of publish_tree.                                                  *)
ModelIsPublished == model.gen = metaGen

(* The reported model is always the published one.  Every publish counts   *)
(* the generation up by one, clears the floor, and beats the correlation   *)
(* of the model it replaces; only a restart, which is untrained, forgets a *)
(* model.                                                                  *)
ModelsImprove ==
  [][ /\ ModelIsPublished'
      /\ metaGen' \notin {0, metaGen} =>
           /\ metaGen' = metaGen + 1
           /\ model'.corr >= CorrFloor
           /\ metaGen > 0 => model'.corr > model.corr ]_<<metaGen, model>>

=============================================================================
