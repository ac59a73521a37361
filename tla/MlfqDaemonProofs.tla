-------------------------- MODULE MlfqDaemonProofs --------------------------
(***************************************************************************)
(* Proofs about the daemon and its training pipeline, for every number of  *)
(* pids, window, cap and incarnations.                                     *)
(***************************************************************************)
EXTENDS MlfqDaemon, FiniteSetTheorems, TLAPS

(* The samples of a pid in a window.                                       *)
Share(w, p) == {i \in DOMAIN w : w[i] = p}

LEMMA ShareFinite ==
  ASSUME NEW w \in Seq(Pids), NEW p
  PROVE  IsFiniteSet(Share(w, p)) /\ Cardinality(Share(w, p)) \in Nat
<1>1. DOMAIN w = 1..Len(w) /\ Len(w) \in Nat
  OBVIOUS
<1>2. IsFiniteSet(1..Len(w))
  BY <1>1, FS_Interval
<1>3. Share(w, p) \in SUBSET (1..Len(w))
  BY <1>1 DEF Share
<1> QED BY <1>2, <1>3, FS_Subset, FS_CardinalityType

LEMMA ShareAppend ==
  ASSUME NEW w \in Seq(Pids), NEW q \in Pids, NEW p
  PROVE  Cardinality(Share(Append(w, q), p))
           = Cardinality(Share(w, p)) + IF p = q THEN 1 ELSE 0
<1> DEFINE n == Len(w) + 1
<1>1. Len(w) \in Nat /\ DOMAIN w = 1..Len(w) /\ DOMAIN Append(w, q) = 1..n
      /\ (\A i \in 1..Len(w) : Append(w, q)[i] = w[i]) /\ Append(w, q)[n] = q
  OBVIOUS
<1>2. Share(Append(w, q), p) = IF p = q THEN Share(w, p) \cup {n} ELSE Share(w, p)
  BY <1>1 DEF Share
<1>3. n \notin Share(w, p)
  BY <1>1 DEF Share
<1> HIDE DEF n
<1>4. IsFiniteSet(Share(w, p)) /\ Cardinality(Share(w, p)) \in Nat
  BY ShareFinite
<1>5. Cardinality(Share(w, p) \cup {n}) = Cardinality(Share(w, p)) + 1
  BY <1>3, <1>4, FS_AddElement
<1> QED BY <1>2, <1>4, <1>5

LEMMA ShareTail ==
  ASSUME NEW w \in Seq(Pids), w # <<>>, NEW p
  PROVE  Cardinality(Share(Tail(w), p))
           = Cardinality(Share(w, p)) - IF p = Head(w) THEN 1 ELSE 0
<1> DEFINE S == Share(Tail(w), p)
           T == Share(w, p) \ {1}
           f == [i \in S |-> i + 1]
<1>1. Len(w) \in Nat \ {0} /\ DOMAIN w = 1..Len(w) /\ DOMAIN Tail(w) = 1..(Len(w) - 1)
      /\ (\A i \in 1..(Len(w) - 1) : Tail(w)[i] = w[i + 1]) /\ Head(w) = w[1]
      /\ Tail(w) \in Seq(Pids)
  OBVIOUS
<1>2. \A i \in S : i \in 1..(Len(w) - 1) /\ i + 1 \in T
  BY <1>1 DEF Share
<1>3. \A j \in T : j - 1 \in S /\ j = (j - 1) + 1
  BY <1>1 DEF Share
<1>4. IsFiniteSet(S) /\ IsFiniteSet(Share(w, p)) /\ Cardinality(Share(w, p)) \in Nat
  BY <1>1, ShareFinite
<1>5. Cardinality(T) = IF p = Head(w) THEN Cardinality(Share(w, p)) - 1
                       ELSE Cardinality(Share(w, p))
  <2>1. 1 \in Share(w, p) <=> p = Head(w)
    BY <1>1 DEF Share
  <2> QED BY <1>4, <2>1, FS_RemoveElement
<1> HIDE DEF S, T
<1>6. f \in Bijection(S, T)
  <2>1. f \in [S -> T]
    BY <1>2
  <2>2. \A a, b \in S : f[a] = f[b] => a = b
    BY <1>2
  <2>3. \A t \in T : \E s \in S : f[s] = t
    BY <1>3
  <2> QED BY <2>1, <2>2, <2>3 DEF Bijection, Injection, Surjection, IsInjective
<1>7. Cardinality(T) = Cardinality(S)
  BY <1>4, <1>6, FS_Bijection DEF ExistsBijection
<1> QED BY <1>4, <1>5, <1>7 DEF S

-----------------------------------------------------------------------------
(* The inductive invariant.                                                *)

(* The counts are the shares of the window, of pids at most at their cap.  *)
SharesInv == \A p \in Pids : counts[p] = Cardinality(Share(window, p))

(* The main thread is outside run() and drop() only while no web UI thread *)
(* is; and whoever wrote the drop-in either has owned up to it or is about *)
(* to.                                                                     *)
SandboxInv ==
  /\ main.pc \in {"init", "restore", "remove", "done", "kept"} => web \in {"none", "gone"}
  /\ dropin = "mine" => unblocked \/ web = "flag"
  /\ main.pc = "done" => dropin # "mine"

IInv == TypeOK /\ SharesInv /\ SandboxInv /\ ModelIsPublished

LEMMA PidsFinite ==
  IsFiniteSet(Pids) /\ Cardinality(Pids) \in Nat
  BY TrainerAssumption, FS_CardinalityType DEF TrainerAssumption

LEMMA Limits ==
  /\ {WindowMax, MinSamples, PidCap, MinPids, HoldoutDiv, CorrFloor} \subseteq Nat \ {0}
  /\ CorrMax \in Nat /\ Outcomes \subseteq [beats : BOOLEAN, corr : 0..CorrMax]
  /\ BatchMax \in Nat /\ MaxRuns \in Nat \ {0}
  /\ Leftovers \subseteq {"absent", "earlier", "foreign"}
  BY TrainerAssumption, DaemonAssumption DEF TrainerAssumption, DaemonAssumption

(* The pids of a snapshot.                                                 *)
LEMMA SliceCounted ==
  ASSUME NEW w \in Seq(Pids)
  PROVE  Cardinality(Range(FitSlice(w))) \in PidCounts
<1>1. Len(w) \in Nat /\ HoldoutDiv \in Nat \ {0}
  BY Limits
<1> DEFINE cut == Len(w) - Len(w) \div HoldoutDiv
<1>2. cut \in Int /\ cut <= Len(w)
  BY <1>1
<1> HIDE DEF cut
<1>3. SubSeq(w, 1, cut) \in Seq(Pids)
  BY <1>2
<1>4. Range(FitSlice(w)) \in SUBSET Pids
  BY <1>3 DEF FitSlice, Range, cut
<1>5. /\ IsFiniteSet(Range(FitSlice(w)))
      /\ Cardinality(Range(FitSlice(w))) <= Cardinality(Pids)
      /\ Cardinality(Range(FitSlice(w))) \in Nat
  BY <1>4, PidsFinite, FS_Subset, FS_CardinalityType
<1> QED BY <1>5, PidsFinite DEF PidCounts

(* An admission keeps the window within its size and every pid within its  *)
(* cap: the evicted sample is one that was counted.                        *)
LEMMA AdmittedCounted ==
  ASSUME TrainerTypeOK, SharesInv, NEW p \in Pids, ~AtCap(p)
  PROVE  /\ Admitted(p).win \in Seq(Pids) /\ Len(Admitted(p).win) <= WindowMax
         /\ Admitted(p).cnt \in [Pids -> 0..PidCap]
         /\ \A q \in Pids : Admitted(p).cnt[q] = Cardinality(Share(Admitted(p).win, q))
<1>1. /\ window \in Seq(Pids) /\ Len(window) \in Nat /\ Len(window) <= WindowMax
      /\ counts \in [Pids -> 0..PidCap]
      /\ WindowMax \in Nat \ {0} /\ PidCap \in Nat \ {0}
  BY Limits DEF TrainerTypeOK
<1>2. counts[p] < PidCap
  BY <1>1 DEF AtCap
<1>3. CASE Len(window) = WindowMax
  <2> DEFINE h == Head(window)  w1 == Tail(window)
             c1 == [counts EXCEPT ![p] = @ + 1]
             c2 == [c1 EXCEPT ![h] = @ - 1]
  <2>1. window # <<>> /\ h \in Pids /\ w1 \in Seq(Pids) /\ Len(w1) = Len(window) - 1
    BY <1>1, <1>3
  <2>2. Admitted(p) = [win |-> Append(w1, p), cnt |-> c2]
    BY <1>3 DEF Admitted, Evictee
  <2>3. ASSUME NEW q \in Pids
        PROVE  /\ Cardinality(Share(Append(w1, p), q))
                    = counts[q] - (IF q = h THEN 1 ELSE 0) + IF q = p THEN 1 ELSE 0
               /\ Cardinality(Share(w1, q)) \in Nat
    <3>1. Cardinality(Share(Append(w1, p), q))
            = Cardinality(Share(w1, q)) + IF q = p THEN 1 ELSE 0
      BY <2>1, ShareAppend
    <3>2. Cardinality(Share(w1, q))
            = Cardinality(Share(window, q)) - IF q = h THEN 1 ELSE 0
      BY <1>1, <2>1, ShareTail
    <3>3. Cardinality(Share(w1, q)) \in Nat
      BY <2>1, ShareFinite
    <3> QED BY <3>1, <3>2, <3>3 DEF SharesInv
  <2> HIDE DEF h, w1
  <2>4. ASSUME NEW q \in Pids
        PROVE  c2[q] = counts[q] - (IF q = h THEN 1 ELSE 0) + IF q = p THEN 1 ELSE 0
    BY <1>1, <2>1
  <2>5. c2 \in [Pids -> Int]
    BY <1>1, <2>1
  <2> HIDE DEF c2, c1
  <2>6. ASSUME NEW q \in Pids PROVE c2[q] \in 0..PidCap
    <3>1. counts[q] \in 0..PidCap
      BY <1>1
    <3>2. q = h => counts[q] >= 1
      <4>1. Cardinality(Share(w1, q)) = counts[q] - IF q = h THEN 1 ELSE 0
        BY <1>1, <2>1, ShareTail DEF SharesInv, h, w1
      <4> QED BY <2>3, <3>1, <4>1
    <3> QED BY <1>1, <1>2, <2>4, <3>1, <3>2
  <2>7. c2 \in [Pids -> 0..PidCap]
    BY <2>5, <2>6
  <2>8. Append(w1, p) \in Seq(Pids) /\ Len(Append(w1, p)) = Len(window)
    BY <1>1, <2>1
  <2> QED BY <1>1, <2>2, <2>3, <2>4, <2>7, <2>8
<1>4. CASE Len(window) # WindowMax
  <2> DEFINE c1 == [counts EXCEPT ![p] = @ + 1]
  <2>1. Admitted(p) = [win |-> Append(window, p), cnt |-> c1]
    BY <1>4 DEF Admitted
  <2>2. c1 \in [Pids -> 0..PidCap]
    BY <1>1, <1>2
  <2>3. ASSUME NEW q \in Pids PROVE c1[q] = Cardinality(Share(Append(window, p), q))
    <3>1. c1[q] = counts[q] + IF q = p THEN 1 ELSE 0
      BY <1>1
    <3> QED BY <1>1, <3>1, ShareAppend DEF SharesInv
  <2>4. Append(window, p) \in Seq(Pids) /\ Len(Append(window, p)) <= WindowMax
    BY <1>1, <1>4
  <2> HIDE DEF c1
  <2> QED BY <2>1, <2>2, <2>3, <2>4
<1> QED BY <1>3, <1>4

-----------------------------------------------------------------------------
(* The steps.                                                              *)

LEMMA Begin == Init => IInv
<1> SUFFICES ASSUME Init PROVE IInv
  OBVIOUS
<1>1. 0 \in PidCounts /\ 0 \in 0..CorrMax /\ 0 \in 0..PidCap /\ 0 \in 0..MaxRuns
  BY Limits, PidsFinite DEF PidCounts
<1>2. TrainerTypeOK
  BY <1>1, Limits DEF Init, TrainerInit, TrainerTypeOK, Idle, Untrained
<1>3. dropin \in {"absent", "earlier", "foreign"}
  BY Limits DEF Init
<1>4. TypeOK
  <2>1. main \in [pc : {"init", "check", "ingest", "recv", "drop", "restore",
                       "remove"} \cup Ended, last : BOOLEAN]
    BY DEF Init
  <2>2. batch \in Seq(Pids) /\ Len(batch) <= BatchMax
    BY Limits DEF Init
  <2> QED BY <1>1, <1>2, <1>3, <2>1, <2>2 DEF Init, TypeOK
<1>5. \A p : Share(<<>>, p) = {}
  BY DEF Share
<1>6. SharesInv
  BY <1>5, FS_EmptySet DEF Init, TrainerInit, SharesInv
<1> QED BY <1>3, <1>4, <1>6
     DEF IInv, SandboxInv, ModelIsPublished, Init, TrainerInit, Untrained

(* The next incarnation starts as the first one did.                       *)
LEMMA DropStep ==
  ASSUME TrainerDrop
  PROVE  TrainerTypeOK' /\ SharesInv' /\ ModelIsPublished'
<1>1. 0 \in PidCounts /\ 0 \in 0..CorrMax /\ 0 \in 0..PidCap
  BY Limits, PidsFinite DEF PidCounts
<1>2. TrainerTypeOK'
  BY <1>1, Limits DEF TrainerDrop, TrainerTypeOK, Idle, Untrained
<1>3. \A p : Share(<<>>, p) = {}
  BY DEF Share
<1>4. SharesInv'
  BY <1>3, FS_EmptySet DEF TrainerDrop, SharesInv
<1> QED BY <1>2, <1>4 DEF ModelIsPublished, TrainerDrop, Untrained

LEMMA KickStep ==
  ASSUME TrainerTypeOK, NEW w \in Seq(Pids), KickTraining(w)
  PROVE  sinceKick' = "recent" /\ job' \in Seq(PidCounts) /\ Len(job') <= 1
<1>1. Cardinality(Range(FitSlice(w))) \in PidCounts
  BY SliceCounted
<1> QED BY <1>1 DEF KickTraining, SendJob, TrainerTypeOK

LEMMA IngestStep ==
  ASSUME TrainerTypeOK, SharesInv, ModelIsPublished, NEW p \in Pids, IngestSample(p)
  PROVE  TrainerTypeOK' /\ SharesInv' /\ ModelIsPublished'
<1>1. UNCHANGED <<worker, res, model, metaGen>>
  BY DEF IngestSample
<1>2. CASE AtCap(p)
  <2>1. UNCHANGED <<window, counts, sinceKick, job>>
    BY <1>2 DEF IngestSample
  <2> QED BY <1>1, <2>1 DEF TrainerTypeOK, SharesInv, ModelIsPublished
<1>3. CASE ~AtCap(p)
  <2>1. window' = Admitted(p).win /\ counts' = Admitted(p).cnt
    BY <1>3 DEF IngestSample
  <2>2. /\ window' \in Seq(Pids) /\ Len(window') <= WindowMax
        /\ counts' \in [Pids -> 0..PidCap] /\ SharesInv'
    BY <1>3, <2>1, AdmittedCounted DEF SharesInv
  <2>3. /\ sinceKick' \in {"never", "recent", "due"}
        /\ job' \in Seq(PidCounts) /\ Len(job') <= 1
    <3>1. CASE KickTraining(Admitted(p).win)
      BY <2>1, <2>2, <3>1, KickStep
    <3>2. CASE UNCHANGED <<sinceKick, job>>
      BY <3>2 DEF TrainerTypeOK
    <3> QED BY <1>3, <3>1, <3>2 DEF IngestSample
  <2> QED BY <1>1, <2>2, <2>3 DEF TrainerTypeOK, ModelIsPublished
<1> QED BY <1>2, <1>3

(* A result that is applied is one generation on, and better.              *)
LEMMA PollStep ==
  ASSUME TrainerTypeOK, ModelIsPublished, PollTrainResult
  PROVE  /\ TrainerTypeOK' /\ ModelIsPublished'
         /\ UNCHANGED <<window, counts>>
         /\ metaGen' # metaGen =>
              /\ metaGen' = metaGen + 1 /\ model'.corr >= CorrFloor
              /\ metaGen > 0 => model'.corr > model.corr
<1> DEFINE f == Head(res)
<1>1. f \in Fits
  BY DEF PollTrainResult, TrainerTypeOK
<1>2. /\ res' = <<>> /\ UNCHANGED <<window, counts, sinceKick, job, worker>>
      /\ ApplyTrainResult(f)
  BY DEF PollTrainResult
<1>3. CASE UNCHANGED <<model, metaGen>>
  BY <1>2, <1>3 DEF TrainerTypeOK, ModelIsPublished
<1>4. CASE ~UNCHANGED <<model, metaGen>>
  <2>1. /\ ShouldPublish(f) /\ metaGen' = model.gen + 1
        /\ model' = [gen |-> model.gen + 1, corr |-> f.corr]
    BY <1>2, <1>4 DEF ApplyTrainResult, KeepModel, Publishable
  <2>2. f.corr \in 0..CorrMax /\ model.gen = metaGen /\ metaGen \in Nat
    BY <1>1 DEF Fits, TrainerTypeOK, ModelIsPublished
  <2>3. /\ metaGen' = metaGen + 1 /\ model'.corr >= CorrFloor
        /\ metaGen > 0 => model'.corr > model.corr
    BY <2>1, <2>2 DEF ShouldPublish
  <2>4. model' \in [gen : Nat, corr : 0..CorrMax] /\ metaGen' \in Nat
        /\ model'.gen = metaGen'
    BY <2>1, <2>2
  <2> QED BY <1>2, <2>3, <2>4 DEF TrainerTypeOK, ModelIsPublished
<1> QED BY <1>3, <1>4

LEMMA WorkerKeeps ==
  ASSUME TrainerTypeOK, WorkerStep
  PROVE  TrainerTypeOK' /\ UNCHANGED <<window, counts, model, metaGen>>
<1>1. CASE WorkerRecv
  <2>1. Head(job) \in PidCounts
    BY <1>1 DEF WorkerRecv, TrainerTypeOK
  <2> QED BY <1>1, <2>1 DEF WorkerRecv, TrainerTypeOK
<1>2. CASE WorkerFit
  <2>1. 0 \in PidCounts /\ 0 \in 0..CorrMax /\ worker.pids \in PidCounts
    BY Limits, PidsFinite DEF PidCounts, TrainerTypeOK
  <2>2. res' \in Seq(Fits) /\ Len(res') <= 1
    <3>1. CASE res' = <<NoFit>>
      BY <2>1, <3>1 DEF NoFit, Fits
    <3>2. ASSUME NEW o \in Outcomes,
                 res' = <<[ok |-> TRUE, beats |-> o.beats, corr |-> o.corr,
                           pids |-> worker.pids]>>
          PROVE  res' \in Seq(Fits) /\ Len(res') <= 1
      <4>1. o.beats \in BOOLEAN /\ o.corr \in 0..CorrMax
        BY Limits
      <4>2. [ok |-> TRUE, beats |-> o.beats, corr |-> o.corr, pids |-> worker.pids] \in Fits
        BY <2>1, <4>1 DEF Fits
      <4> QED BY <3>2, <4>2
    <3> QED BY <1>2, <3>1, <3>2 DEF WorkerFit
  <2> QED BY <1>2, <2>1, <2>2 DEF WorkerFit, TrainerTypeOK, Idle
<1> QED BY <1>1, <1>2 DEF WorkerStep

(* What the steps of the main thread, the web UI thread and the            *)
(* environment do to the training state.                                   *)
TrainerKept ==
  UNCHANGED trainerVars

LEMMA KeptStep ==
  ASSUME TrainerTypeOK, SharesInv, ModelIsPublished, TrainerKept
  PROVE  TrainerTypeOK' /\ SharesInv' /\ ModelIsPublished'
  BY DEF TrainerKept, trainerVars, TrainerTypeOK, SharesInv, ModelIsPublished

MainFields ==
  /\ main \in [pc : {"init", "check", "ingest", "recv", "drop", "restore",
                     "remove"} \cup Ended, last : BOOLEAN]
  /\ outcome \in {"none", "restart", "stop", "err"}
  /\ runs \in 0..MaxRuns
  /\ batch \in Seq(Pids) /\ Len(batch) <= BatchMax
  /\ bpf \in {"off", "attached", "exited"}
  /\ shutdown \in BOOLEAN /\ webui \in BOOLEAN
  /\ web \in {"none", "bind", "flag", "serve", "gone"}
  /\ unblocked \in BOOLEAN
  /\ dropin \in {"absent", "mine", "earlier", "foreign"}

LEMMA TypeParts == TypeOK <=> TrainerTypeOK /\ MainFields
  BY DEF TypeOK, MainFields

(* Every step leaves the training state well formed, whatever it does to   *)
(* the rest.                                                               *)
LEMMA TrainerKeeps ==
  ASSUME TrainerTypeOK, MainFields, SharesInv, ModelIsPublished, [Next]_vars
  PROVE  TrainerTypeOK' /\ SharesInv' /\ ModelIsPublished'
<1>1. CASE TrainerKept
  BY <1>1, KeptStep
<1>2. CASE Ingest
  <2>1. Head(batch) \in Pids /\ IngestSample(Head(batch))
    BY <1>2 DEF Ingest, MainFields
  <2> QED BY <2>1, IngestStep
<1>3. CASE Poll
  <2>1. PollTrainResult
    BY <1>3 DEF Poll
  <2>2. UNCHANGED <<window, counts>>
    BY <2>1 DEF PollTrainResult
  <2> QED BY <2>1, <2>2, PollStep DEF SharesInv
<1>4. CASE RunFails \/ RunReturns
  BY <1>4, DropStep DEF RunFails, RunReturns
<1>5. CASE Worker
  <2>1. WorkerStep
    BY <1>5 DEF Worker
  <2> QED BY <2>1, WorkerKeeps DEF SharesInv, ModelIsPublished
<1>6. CASE Interval
  BY <1>6 DEF Interval, IntervalElapses, TrainerTypeOK, SharesInv, ModelIsPublished
<1>7. \/ TrainerKept \/ Ingest \/ Poll \/ RunFails \/ RunReturns \/ Worker \/ Interval
  BY DEF Next, MainStep, SchedulerInit, SchedulerInitFails, RunCheck, PollDone, Recv,
         SchedulerDrop, RestoreRead, RestoreRemove, WebStep, WebBind, WebUnblock,
         WebFlag, WebServe, WebUnchanged, Signal, BpfExit, EditDropin, vars, TrainerKept
<1> QED BY <1>1, <1>2, <1>3, <1>4, <1>5, <1>6, <1>7

(* The fields of the other threads, step by step.                          *)
LEMMA MainKeeps ==
  ASSUME MainFields, SandboxInv, MainStep
  PROVE  MainFields' /\ SandboxInv'
<1> USE DEF MainFields, SandboxInv, Ended
<1>1. CASE SchedulerInit
  BY <1>1, Limits DEF SchedulerInit
<1>2. CASE SchedulerInitFails
  BY <1>2 DEF SchedulerInitFails, Goto
<1>3. ASSUME NEW b \in BoundedSeq(Pids, BatchMax), RunCheck(b)
      PROVE  MainFields' /\ SandboxInv'
  <2>1. b \in Seq(Pids) /\ Len(b) <= BatchMax
    <3>1. PICK m \in 0..BatchMax : b \in [1..m -> Pids]
      BY Limits DEF BoundedSeq, SeqOf
    <3> QED BY <3>1, Limits
  <2>2. batch' \in Seq(Pids) /\ Len(batch') <= BatchMax
    BY <1>3, <2>1 DEF RunCheck
  <2> QED BY <1>3, <2>2 DEF RunCheck
<1>4. CASE Ingest
  <2>1. batch' \in Seq(Pids) /\ Len(batch') <= BatchMax
    BY <1>4, Limits DEF Ingest
  <2> QED BY <1>4, <2>1 DEF Ingest
<1>5. CASE Poll
  BY <1>5 DEF Poll, daemonVars
<1>6. CASE PollDone \/ Recv
  BY <1>6 DEF PollDone, Recv, Goto
<1>7. CASE RunFails \/ RunReturns
  BY <1>7 DEF RunFails, RunReturns, Goto
<1>8. CASE SchedulerDrop
  BY <1>8 DEF SchedulerDrop, Joined, Goto
<1>9. CASE RestoreRead
  BY <1>9 DEF RestoreRead, DropinMatches, Goto
<1>10. CASE RestoreRemove
  BY <1>10 DEF RestoreRemove, Goto
<1> QED BY <1>1, <1>2, <1>3, <1>4, <1>5, <1>6, <1>7, <1>8, <1>9, <1>10 DEF MainStep

LEMMA OthersKeep ==
  ASSUME MainFields, SandboxInv, [Next]_vars, ~MainStep
  PROVE  MainFields' /\ SandboxInv'
<1> USE DEF MainFields, SandboxInv, Ended
<1>1. CASE WebStep
  <2>1. CASE WebBind
    BY <2>1 DEF WebBind, WebUnchanged, Alive
  <2>2. CASE WebUnblock
    BY <2>2 DEF WebUnblock, WebUnchanged, Alive
  <2>3. CASE WebFlag
    BY <2>3 DEF WebFlag, WebUnchanged, Alive
  <2>4. CASE WebServe
    BY <2>4 DEF WebServe, WebUnchanged, Alive
  <2> QED BY <1>1, <2>1, <2>2, <2>3, <2>4 DEF WebStep
<1>2. CASE Worker \/ Interval
  BY <1>2 DEF Worker, Interval, daemonVars
<1>3. CASE Signal
  BY <1>3 DEF Signal
<1>4. CASE BpfExit
  BY <1>4 DEF BpfExit
<1>5. CASE EditDropin
  BY <1>5 DEF EditDropin
<1>6. CASE UNCHANGED vars
  BY <1>6 DEF vars, daemonVars
<1> QED BY <1>1, <1>2, <1>3, <1>4, <1>5, <1>6 DEF Next

THEOREM Invariance == Spec => []IInv
<1>1. ASSUME IInv, [Next]_vars PROVE IInv'
  <2>1. TrainerTypeOK /\ MainFields /\ SharesInv /\ SandboxInv /\ ModelIsPublished
    BY <1>1, TypeParts DEF IInv
  <2>2. TrainerTypeOK' /\ SharesInv' /\ ModelIsPublished'
    BY <1>1, <2>1, TrainerKeeps
  <2>3. MainFields' /\ SandboxInv'
    BY <1>1, <2>1, MainKeeps, OthersKeep
  <2>4. TypeOK'
    BY <2>2, <2>3 DEF TypeOK, MainFields
  <2> QED BY <2>2, <2>3, <2>4 DEF IInv
<1> QED BY <1>1, Begin, PTL DEF Spec

-----------------------------------------------------------------------------
(* What the daemon promises.                                               *)

(* The state of the daemon is always well formed, its channels never hold  *)
(* more than one job or one result (main.rs).                              *)
THEOREM TypeCorrect == Spec => []TypeOK
<1>1. IInv => TypeOK
  BY DEF IInv
<1> QED BY <1>1, Invariance, PTL

(* The accounting of the window is exact after any sequence of samples,    *)
(* rejections, evictions and restarts (tree_admit_pid, tree_evict_pid): a  *)
(* pid that filled its cap is let in again once its samples are evicted.   *)
THEOREM WindowsAccounted == Spec => []WindowAccounted
<1>1. IInv => WindowAccounted
  <2> SUFFICES ASSUME IInv PROVE WindowAccounted
    OBVIOUS
  <2>1. TrainerTypeOK /\ SharesInv /\ PidCap \in Nat
    BY Limits DEF IInv, TypeOK
  <2>2. \A p \in Pids : counts[p] <= PidCap
    BY <2>1 DEF TrainerTypeOK
  <2> QED BY <2>1, <2>2 DEF TrainerTypeOK, SharesInv, Share, WindowAccounted
<1> QED BY <1>1, Invariance, PTL

(* The published model and the reported one are the same, and a publish    *)
(* only ever replaces a model by a better one (apply_train_result).        *)
THEOREM ModelsOnlyImprove == Spec => ModelsImprove
<1> DEFINE Better ==
      /\ ModelIsPublished'
      /\ metaGen' \notin {0, metaGen} =>
           /\ metaGen' = metaGen + 1
           /\ model'.corr >= CorrFloor
           /\ metaGen > 0 => model'.corr > model.corr
<1>1. IInv /\ IInv' /\ [Next]_vars => [Better]_<<metaGen, model>>
  <2> SUFFICES ASSUME IInv, IInv', [Next]_vars,
                      metaGen' \notin {0, metaGen}
               PROVE  /\ metaGen' = metaGen + 1 /\ model'.corr >= CorrFloor
                      /\ metaGen > 0 => model'.corr > model.corr
    BY DEF IInv
  <2>1. TrainerTypeOK /\ ModelIsPublished
    BY DEF IInv, TypeOK
  <2>2. PollTrainResult
    BY DEF Next, MainStep, SchedulerInit, SchedulerInitFails, RunCheck, Ingest,
           IngestSample, Poll, PollDone, Recv, RunFails, RunReturns, TrainerDrop,
           SchedulerDrop, RestoreRead, RestoreRemove, WebStep, WebBind, WebUnblock,
           WebFlag, WebServe, WebUnchanged, Worker, WorkerStep, WorkerRecv, WorkerFit,
           Signal, BpfExit, EditDropin, Interval, IntervalElapses, vars, trainerVars
  <2> QED BY <2>1, <2>2, PollStep
<1> QED BY <1>1, Invariance, PTL DEF Spec, ModelsImprove

(* A process that ends as it should leaves none of its own drop-in behind, *)
(* whichever incarnation wrote it (restore_loader_sandbox).                *)
THEOREM SandboxRestored == Spec => []RestoredOnExit
<1>1. IInv => RestoredOnExit
  BY DEF IInv, SandboxInv, RestoredOnExit
<1> QED BY <1>1, Invariance, PTL

-----------------------------------------------------------------------------
(* How a signal winds the daemon down.                                     *)

(* How far the main thread is from its end once the signal is seen: a turn *)
(* of the run loop that has begun without it, then the final drain, the    *)
(* drop and the restore.                                                   *)
Place ==
  CASE main.pc = "ingest" /\ ~main.last -> 7
    [] main.pc = "recv" -> 6
    [] main.pc = "check" -> 5
    [] main.pc = "ingest" /\ main.last -> 4
    [] main.pc = "drop" -> 3
    [] main.pc \in {"init", "restore"} -> 2
    [] main.pc = "remove" -> 1
    [] OTHER -> 0

Stage == 8 * (MaxRuns - runs) + Place

WebLeft ==
  CASE web = "bind" -> 3 [] web = "flag" -> 2 [] web = "serve" -> 1 [] OTHER -> 0

(* What is pending at a stage.  A sample may become a job, a job a fit, a  *)
(* fit a result; each is worth less than what it came from.                *)
Chores ==
  4 * Len(batch) + 3 * Len(job) + (IF worker.pc = "fit" THEN 2 ELSE 0)
    + Len(res) + WebLeft

Most == 4 * BatchMax + 9

(* The steps the daemon has left at most.                                  *)
Left == Stage * (Most + 1) + Chores

(* Once the signal is there, every step of a thread of the daemon brings   *)
(* the end closer, and nothing that the kernel, the administrator or the   *)
(* clock does puts it off.                                                 *)
WindsDown ==
  [][shutdown => /\ Left' <= Left
                 /\ MainStep \/ WebStep \/ Worker => Left' < Left]_vars

(* A lower stage outweighs whatever is pending at it.                      *)
LEMMA StageOutweighs ==
  ASSUME NEW p \in Int, NEW q \in Int, NEW m \in Nat,
         NEW v \in 0..m, NEW w \in 0..m, q < p
  PROVE  q * (m + 1) + v < p * (m + 1) + w
<1> DEFINE d == p - q - 1
<1>1. d \in Nat /\ p = q + 1 + d
  OBVIOUS
<1> HIDE DEF d
<1>2. p * (m + 1) = q * (m + 1) + (m + 1) + d * (m + 1)
  BY <1>1
<1>3. d * (m + 1) \in Nat
  BY <1>1
<1>4. q * (m + 1) \in Int
  OBVIOUS
<1> QED BY <1>2, <1>3, <1>4

Bounded == Stage \in Nat /\ Chores \in 0..Most

LEMMA LeftBounded == TypeOK => Bounded
<1> SUFFICES ASSUME TypeOK PROVE Bounded
  OBVIOUS
<1>1. TrainerTypeOK /\ MainFields
  BY TypeParts
<1>2. Place \in 0..7
  BY DEF Place
<1>3. MaxRuns - runs \in Nat
  BY <1>1, Limits DEF MainFields
<1>4. Stage \in Nat
  BY <1>2, <1>3 DEF Stage
<1>5. WebLeft \in 0..3
  BY DEF WebLeft
<1>6. Len(batch) \in Nat /\ Len(batch) <= BatchMax /\ BatchMax \in Nat
  BY <1>1, Limits DEF MainFields
<1>7. Len(job) \in Nat /\ Len(job) <= 1 /\ Len(res) \in Nat /\ Len(res) <= 1
  BY <1>1 DEF TrainerTypeOK
<1>8. Chores \in 0..Most
  <2>1. Chores \in Int
    BY <1>5, <1>6, <1>7 DEF Chores
  <2>2. 0 <= Chores
    BY <1>5, <1>6, <1>7 DEF Chores
  <2>3. Chores <= 4 * Len(batch) + 9
    BY <1>5, <1>6, <1>7 DEF Chores
  <2>4. 4 * Len(batch) <= 4 * BatchMax
    BY <1>6
  <2> QED BY <1>6, <2>1, <2>2, <2>3, <2>4 DEF Most
<1> QED BY <1>4, <1>8 DEF Bounded

Lower == Stage' < Stage \/ (Stage' = Stage /\ Chores' < Chores)

LEMMA LowerLeft ==
  ASSUME Bounded, Bounded', Lower
  PROVE  Left' < Left
<1>1. /\ Stage \in Nat /\ Stage' \in Nat /\ Most \in Nat
      /\ Chores \in 0..Most /\ Chores' \in 0..Most
  <2>1. Most \in Nat
    BY Limits DEF Most
  <2>2. Most' = Most
    BY DEF Most
  <2> QED BY <2>1, <2>2 DEF Bounded
<1>2. Left = Stage * (Most + 1) + Chores /\ Left' = Stage' * (Most + 1) + Chores'
  BY DEF Left, Most
<1>3. CASE Stage' < Stage
  <2>1. Stage \in Int /\ Stage' \in Int
    BY <1>1
  <2>2. Stage' * (Most + 1) + Chores' < Stage * (Most + 1) + Chores
    BY <1>1, <1>3, <2>1, StageOutweighs
  <2> QED BY <1>2, <2>2
<1>4. CASE Stage' = Stage /\ Chores' < Chores
  <2>1. PICK base \in Int : base = Stage * (Most + 1)
    BY <1>1
  <2>2. Left = base + Chores /\ Left' = base + Chores'
    BY <1>2, <1>4, <2>1
  <2>3. Chores \in Int /\ Chores' \in Int
    BY <1>1
  <2> QED BY <1>4, <2>1, <2>2, <2>3
<1> QED BY <1>3, <1>4 DEF Lower

(* The threads' steps.                                                     *)
LEMMA MainLowers ==
  ASSUME TrainerTypeOK, MainFields, TrainerTypeOK', MainFields', shutdown, MainStep
  PROVE  Lower
<1>1. MaxRuns \in Nat /\ runs \in Nat /\ runs' \in Nat
  BY Limits DEF MainFields
<1>2. CASE SchedulerInit
  <2>1. runs' = runs + 1 /\ Place = 2 /\ Place' = 5
    BY <1>2 DEF SchedulerInit, Place
  <2> QED BY <1>1, <2>1 DEF Stage, Lower
<1>3. ASSUME runs' = runs, Place \in Nat, Place' \in Nat, Place' < Place
      PROVE  Lower
  <2>1. PICK rest \in Int : rest = 8 * (MaxRuns - runs)
    BY <1>1
  <2>2. Stage = rest + Place /\ Stage' = rest + Place'
    BY <1>3, <2>1 DEF Stage
  <2>3. Stage' < Stage
    BY <1>3, <2>1, <2>2
  <2> QED BY <2>3 DEF Lower
<1>4. CASE SchedulerInitFails
  <2>1. runs' = runs /\ main.pc = "init" /\ main'.pc = "failed"
    BY <1>4 DEF SchedulerInitFails, Goto, MainFields
  <2>2. Place = 2 /\ Place' = 0
    BY <2>1 DEF Place
  <2> QED BY <1>3, <2>1, <2>2
<1>5. ASSUME NEW b \in BoundedSeq(Pids, BatchMax), RunCheck(b)
      PROVE  Lower
  <2>1. runs' = runs /\ main.pc = "check" /\ main'.pc = "ingest" /\ main'.last
    BY <1>5 DEF RunCheck, MainFields
  <2>2. Place = 5 /\ Place' = 4
    BY <2>1 DEF Place
  <2> QED BY <1>3, <2>1, <2>2
<1>6. CASE Ingest
  <2>1. /\ UNCHANGED <<main, runs, web, worker, res>>
        /\ batch' = Tail(batch) /\ batch # <<>>
    BY <1>6 DEF Ingest, IngestSample
  <2>2. Stage' = Stage /\ WebLeft' = WebLeft
    BY <2>1 DEF Stage, Place, WebLeft
  <2>3. Len(batch) \in Nat /\ Len(batch') = Len(batch) - 1
    BY <2>1 DEF MainFields
  <2>4. Len(job) \in Nat /\ Len(job') \in Nat /\ Len(job') <= Len(job) + 1
    BY DEF TrainerTypeOK
  <2>5. Len(res) \in Nat /\ WebLeft \in Nat
    BY DEF TrainerTypeOK, WebLeft
  <2>6. Chores' < Chores
    BY <2>1, <2>2, <2>3, <2>4, <2>5 DEF Chores
  <2> QED BY <2>2, <2>6 DEF Lower
<1>7. CASE Poll
  <2>1. /\ UNCHANGED <<main, runs, web, worker, batch, job>>
        /\ res' = <<>> /\ res # <<>>
    BY <1>7 DEF Poll, PollTrainResult, daemonVars
  <2>2. Stage' = Stage /\ WebLeft' = WebLeft
    BY <2>1 DEF Stage, Place, WebLeft
  <2>3. Len(batch) \in Nat /\ Len(job) \in Nat /\ Len(res) \in Nat \ {0} /\ Len(res') = 0
    BY <2>1 DEF MainFields, TrainerTypeOK
  <2>4. WebLeft \in Nat
    BY DEF WebLeft
  <2>5. Chores' < Chores
    BY <2>1, <2>2, <2>3, <2>4 DEF Chores
  <2> QED BY <2>2, <2>5 DEF Lower
<1>8. CASE PollDone
  <2>1. runs' = runs /\ main.pc = "ingest" /\ ~main.last /\ main'.pc = "recv"
    BY <1>8 DEF PollDone, Goto, MainFields
  <2>2. Place = 7 /\ Place' = 6
    BY <2>1 DEF Place
  <2> QED BY <1>3, <2>1, <2>2
<1>9. CASE Recv
  <2>1. runs' = runs /\ main.pc = "recv" /\ main'.pc = "check"
    BY <1>9 DEF Recv, Goto, MainFields
  <2>2. Place = 6 /\ Place' = 5
    BY <2>1 DEF Place
  <2> QED BY <1>3, <2>1, <2>2
<1>10. CASE RunFails
  <2>1. runs' = runs /\ main.pc \in {"check", "recv"} /\ main'.pc = "drop"
    BY <1>10 DEF RunFails, Goto, MainFields
  <2>2. Place \in 5..6 /\ Place' = 3
    BY <2>1 DEF Place
  <2> QED BY <1>3, <2>1, <2>2
<1>11. CASE RunReturns
  <2>1. runs' = runs /\ main.pc = "ingest" /\ main.last /\ main'.pc = "drop"
    BY <1>11 DEF RunReturns, Goto, MainFields
  <2>2. Place = 4 /\ Place' = 3
    BY <2>1 DEF Place
  <2> QED BY <1>3, <2>1, <2>2
<1>12. CASE SchedulerDrop
  <2>1. runs' = runs /\ main.pc = "drop" /\ main'.pc \in {"init", "restore", "failed"}
    BY <1>12 DEF SchedulerDrop, Goto, MainFields
  <2>2. Place = 3 /\ Place' \in {0, 2}
    BY <2>1 DEF Place
  <2> QED BY <1>3, <2>1, <2>2
<1>13. CASE RestoreRead
  <2>1. runs' = runs /\ main.pc = "restore" /\ main'.pc \in {"done", "remove", "kept"}
    BY <1>13 DEF RestoreRead, Goto, MainFields
  <2>2. Place = 2 /\ Place' \in {0, 1}
    BY <2>1 DEF Place
  <2> QED BY <1>3, <2>1, <2>2
<1>14. CASE RestoreRemove
  <2>1. runs' = runs /\ main.pc = "remove" /\ main'.pc \in {"done", "kept"}
    BY <1>14 DEF RestoreRemove, Goto, MainFields
  <2>2. Place = 1 /\ Place' = 0
    BY <2>1 DEF Place
  <2> QED BY <1>3, <2>1, <2>2
<1> QED BY <1>2, <1>4, <1>5, <1>6, <1>7, <1>8, <1>9, <1>10, <1>11, <1>12, <1>13, <1>14
     DEF MainStep

LEMMA WebLowers ==
  ASSUME TrainerTypeOK, MainFields, WebStep
  PROVE  Lower
<1>1. UNCHANGED <<main, runs, batch, job, worker, res>>
  BY DEF WebStep, WebBind, WebUnblock, WebFlag, WebServe, WebUnchanged, trainerVars
<1>2. Stage' = Stage
  BY <1>1 DEF Stage, Place
<1>3. WebLeft \in Nat /\ WebLeft' \in Nat /\ WebLeft' < WebLeft
  BY DEF WebStep, WebBind, WebUnblock, WebFlag, WebServe, WebLeft
<1>4. Len(batch) \in Nat /\ Len(job) \in Nat /\ Len(res) \in Nat
  BY DEF MainFields, TrainerTypeOK
<1>5. Chores' < Chores
  BY <1>1, <1>3, <1>4 DEF Chores
<1> QED BY <1>2, <1>5 DEF Lower

LEMMA WorkerLowers ==
  ASSUME TrainerTypeOK, MainFields, TrainerTypeOK', Worker
  PROVE  Lower
<1>1. UNCHANGED <<main, runs, batch, web>>
  BY DEF Worker, daemonVars
<1>2. Stage' = Stage /\ WebLeft' = WebLeft
  BY <1>1 DEF Stage, Place, WebLeft
<1>3. /\ Len(batch) \in Nat /\ Len(job) \in Nat /\ Len(res) \in Nat
      /\ Len(job') \in Nat /\ Len(res') \in Nat /\ Len(res') <= 1
  BY DEF MainFields, TrainerTypeOK
<1>4. WebLeft \in Nat
  BY DEF WebLeft
<1>5. CASE WorkerRecv
  <2>1. /\ worker.pc = "recv" /\ worker'.pc = "fit" /\ res' = res
        /\ Len(job) > 0 /\ Len(job') = 0
    BY <1>3, <1>5 DEF WorkerRecv, TrainerTypeOK
  <2>2. Chores' < Chores
    BY <1>1, <1>2, <1>3, <1>4, <2>1 DEF Chores
  <2> QED BY <1>2, <2>2 DEF Lower
<1>6. CASE WorkerFit
  <2>1. worker.pc = "fit" /\ worker'.pc = "recv" /\ job' = job /\ Len(res) = 0
    BY <1>6 DEF WorkerFit, Idle
  <2>2. Chores' < Chores
    BY <1>1, <1>2, <1>3, <1>4, <2>1 DEF Chores
  <2> QED BY <1>2, <2>2 DEF Lower
<1> QED BY <1>5, <1>6 DEF Worker, WorkerStep

(* What the others leave alone.                                            *)
LEMMA OthersKeepLeft ==
  ASSUME [Next]_vars, ~(MainStep \/ WebStep \/ Worker)
  PROVE  Left' = Left
<1>1. UNCHANGED <<main, runs, batch, web, job, worker, res>>
  BY DEF Next, Signal, BpfExit, EditDropin, Interval, IntervalElapses, vars,
         daemonVars, trainerVars
<1> QED BY <1>1 DEF Left, Stage, Place, Most, Chores, WebLeft

(* From the signal on, the threads of the daemon have at most Left steps   *)
(* to take together, however they interleave, whatever is queued in the    *)
(* two channels and however often the kernel asks for a restart; nothing   *)
(* that happens around the daemon adds one.  What this leaves of           *)
(* SignalEnds is that a thread that is to move can and does.               *)
THEOREM SignalWindsDown == Spec => [](Left \in Nat) /\ WindsDown
<1>1. IInv => Left \in Nat
  <2> SUFFICES ASSUME IInv PROVE Left \in Nat
    OBVIOUS
  <2>1. Stage \in Nat /\ Chores \in 0..Most /\ Most \in Nat
    BY LeftBounded, Limits DEF IInv, Bounded, Most
  <2>2. Stage * (Most + 1) \in Nat
    BY <2>1
  <2> QED BY <2>1, <2>2 DEF Left
<1>2. TypeOK' => Bounded'
  BY LeftBounded, PTL
<1>3. TypeOK' => TrainerTypeOK' /\ MainFields'
  BY DEF TypeOK, MainFields
<1>4. IInv /\ IInv' /\ [Next]_vars =>
        [shutdown => /\ Left' <= Left
                     /\ MainStep \/ WebStep \/ Worker => Left' < Left]_vars
  <2> SUFFICES ASSUME IInv, IInv', [Next]_vars, shutdown
               PROVE  /\ Left' <= Left
                      /\ MainStep \/ WebStep \/ Worker => Left' < Left
    OBVIOUS
  <2>1. TrainerTypeOK /\ MainFields /\ TrainerTypeOK' /\ MainFields'
    BY <1>3, TypeParts DEF IInv
  <2>2. Bounded /\ Bounded'
    BY <1>2, LeftBounded DEF IInv
  <2>3. Left \in Int /\ Left' \in Int
    <3>1. IInv' => (Left \in Nat)'
      BY <1>1, PTL
    <3> QED BY <1>1, <3>1
  <2>4. CASE MainStep \/ WebStep \/ Worker
    <3>1. Lower
      BY <2>1, <2>4, MainLowers, WebLowers, WorkerLowers
    <3>2. Left' < Left
      BY <2>2, <3>1, LowerLeft
    <3> QED BY <2>3, <3>2
  <2>5. CASE ~(MainStep \/ WebStep \/ Worker)
    <3>1. Left' = Left
      BY <2>5, OthersKeepLeft
    <3> QED BY <2>3, <2>5, <3>1
  <2> QED BY <2>4, <2>5
<1> QED BY <1>1, <1>4, Invariance, PTL DEF Spec, WindsDown

=============================================================================
