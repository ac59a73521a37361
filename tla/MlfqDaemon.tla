----------------------------- MODULE MlfqDaemon ----------------------------
(***************************************************************************)
(* The life of the daemon process (main.rs, webui.rs): the incarnations of *)
(* the scheduler and their restarts, the run loop that feeds the training  *)
(* pipeline of MlfqTrainer, the web UI thread and its join, and the        *)
(* unblock of the loader's network sandbox that is owed a restore.         *)
(*                                                                         *)
(* Left out: the stats server, the metrics channel (try_send on a bounded  *)
(* channel that nobody waits for) and the detached metrics consumer.       *)
(***************************************************************************)
EXTENDS MlfqTrainer, SequencesExt

CONSTANTS
  BatchMax,    \* bound: samples one consume of the ring buffer delivers
  MaxRuns,     \* bound: incarnations
  Leftovers    \* bound: what the drop-in path may hold at the start

ASSUME DaemonAssumption ==
  /\ BatchMax \in Nat /\ MaxRuns \in Nat \ {0}
  /\ Leftovers \subseteq {"absent", "earlier", "foreign"}

VARIABLES
  main,        \* the main thread: where it is, and in the final drain or not
  outcome,     \* what run() returned: restart, stop or an error
  runs,        \* incarnations begun
  batch,       \* the sample channel: filled and drained by the main thread
  bpf,         \* the struct_ops: off, attached, or exited by the kernel
  shutdown,    \* the flag the signal handler sets
  webui,       \* the option: a web UI thread is spawned
  web,         \* the web UI thread
  unblocked,   \* UNBLOCK_WRITTEN
  dropin       \* the runtime drop-in file: absent, with this scheduler's
               \* bytes (of this process or an earlier one), or foreign

daemonVars ==
  <<main, outcome, runs, batch, bpf, shutdown, webui, web, unblocked, dropin>>
vars == <<trainerVars, daemonVars>>

Ended == {"done", "kept", "failed"}

TypeOK ==
  /\ TrainerTypeOK
  /\ main \in [pc : {"init", "check", "ingest", "recv", "drop", "restore",
                     "remove"} \cup Ended,
               last : BOOLEAN]
  /\ outcome \in {"none", "restart", "stop", "err"}
  /\ runs \in 0..MaxRuns
  /\ batch \in Seq(Pids) /\ Len(batch) <= BatchMax
  /\ bpf \in {"off", "attached", "exited"}
  /\ shutdown \in BOOLEAN /\ webui \in BOOLEAN
  /\ web \in {"none", "bind", "flag", "serve", "gone"}
  /\ unblocked \in BOOLEAN
  /\ dropin \in {"absent", "mine", "earlier", "foreign"}

Init ==
  /\ TrainerInit
  /\ main = [pc |-> "init", last |-> FALSE]
  /\ outcome = "none"
  /\ runs = 0
  /\ batch = <<>>
  /\ bpf = "off"
  /\ shutdown = FALSE
  /\ webui \in BOOLEAN
  /\ web = "none"
  /\ unblocked = FALSE
  /\ dropin \in Leftovers

Alive == main.pc \notin Ended

Goto(pc) == main' = [main EXCEPT !.pc = pc]

-----------------------------------------------------------------------------
(* The main thread.                                                        *)

(* Scheduler::init: load, attach, spawn the web UI thread and the worker.  *)
SchedulerInit ==
  /\ main.pc = "init" /\ runs < MaxRuns
  /\ runs' = runs + 1
  /\ main' = [pc |-> "check", last |-> FALSE]
  /\ bpf' = "attached"
  /\ web' = IF webui THEN "bind" ELSE "none"
  /\ UNCHANGED <<trainerVars, outcome, batch, shutdown, webui, unblocked, dropin>>

(* An initialization that fails ends the process from main, before or      *)
(* after the spawns; there is no Scheduler to drop.                        *)
SchedulerInitFails ==
  /\ main.pc = "init"
  /\ Goto("failed")
  /\ UNCHANGED <<trainerVars, outcome, runs, batch, bpf, shutdown, webui,
                 web, unblocked, dropin>>

(* The condition of the run loop and the drain of the ring buffer, whose   *)
(* callback try_sends every record; past the loop, one final drain.        *)
RunCheck(b) ==
  /\ main.pc = "check"
  /\ main' = [pc |-> "ingest", last |-> shutdown \/ bpf # "attached"]
  /\ batch' = b
  /\ UNCHANGED <<trainerVars, outcome, runs, bpf, shutdown, webui, web,
                 unblocked, dropin>>

Ingest ==
  /\ main.pc = "ingest" /\ batch # <<>>
  /\ IngestSample(Head(batch))
  /\ batch' = Tail(batch)
  /\ UNCHANGED <<main, outcome, runs, bpf, shutdown, webui, web, unblocked, dropin>>

Poll ==
  /\ main.pc = "ingest" /\ batch = <<>>
  /\ PollTrainResult
  /\ UNCHANGED daemonVars

(* Nothing is left to poll: on to the stats request, or its timeout.       *)
PollDone ==
  /\ main.pc = "ingest" /\ batch = <<>> /\ res = <<>> /\ ~main.last
  /\ Goto("recv")
  /\ UNCHANGED <<trainerVars, outcome, runs, batch, bpf, shutdown, webui,
                 web, unblocked, dropin>>

Recv ==
  /\ main.pc = "recv"
  /\ Goto("check")
  /\ UNCHANGED <<trainerVars, outcome, runs, batch, bpf, shutdown, webui,
                 web, unblocked, dropin>>

(* A ring buffer error, or a stats channel found closed, returns from      *)
(* run() at once; the Scheduler is dropped with its struct_ops attached.   *)
(* The training state is read no more: it counts as dropped from here.     *)
RunFails ==
  /\ main.pc \in {"check", "recv"}
  /\ Goto("drop")
  /\ outcome' = "err"
  /\ TrainerDrop
  /\ UNCHANGED <<runs, batch, bpf, shutdown, webui, web, unblocked, dropin>>

(* The end of run(): detach and report.  The kernel exits the scheduler    *)
(* with a restart request (a CPU hotplug), for good, or on an error, which *)
(* is returned as one.                                                     *)
RunReturns ==
  /\ main.pc = "ingest" /\ batch = <<>> /\ res = <<>> /\ main.last
  /\ Goto("drop")
  /\ outcome' \in IF bpf = "exited" THEN {"restart", "stop", "err"} ELSE {"stop"}
  /\ bpf' = "off"
  /\ TrainerDrop
  /\ UNCHANGED <<runs, batch, shutdown, webui, web, unblocked, dropin>>

(* A thread that is left behind.                                           *)
MutJoined == TRUE

(* The join of the web UI thread has returned, or there is none.           *)
Joined == web \in {"none", "gone"}

(* Scheduler::drop, and what main does with the outcome.  A return with an *)
(* error skips the restore.                                                *)
SchedulerDrop ==
  /\ main.pc = "drop" /\ Joined
  /\ Goto(CASE outcome = "restart" -> "init"
            [] outcome = "stop" -> "restore"
            [] OTHER -> "failed")
  /\ outcome' = "none"
  /\ bpf' = "off"
  /\ UNCHANGED <<trainerVars, runs, batch, shutdown, webui, web, unblocked, dropin>>

(* The comparison is on bytes: the same file left by an earlier process    *)
(* matches too.                                                            *)
DropinMatches == dropin \in {"mine", "earlier"}

(* restore_loader_sandbox up to the comparison of the file's content.      *)
RestoreRead ==
  /\ main.pc = "restore"
  /\ Goto(IF ~unblocked \/ dropin = "absent" THEN "done"
          ELSE IF DropinMatches THEN "remove" ELSE "kept")
  /\ UNCHANGED <<trainerVars, outcome, runs, batch, bpf, shutdown, webui,
                 web, unblocked, dropin>>

(* The removal, which may fail.                                            *)
RestoreRemove ==
  /\ main.pc = "remove"
  /\ \/ /\ dropin' = "absent" /\ unblocked' = FALSE
        /\ Goto("done")
     \/ /\ Goto("kept")
        /\ UNCHANGED <<unblocked, dropin>>
  /\ UNCHANGED <<trainerVars, outcome, runs, batch, bpf, shutdown, webui, web>>

MainStep ==
  \/ SchedulerInit \/ SchedulerInitFails
  \/ \E b \in BoundedSeq(Pids, BatchMax) : RunCheck(b)
  \/ Ingest \/ Poll \/ PollDone \/ Recv
  \/ RunFails \/ RunReturns \/ SchedulerDrop \/ RestoreRead \/ RestoreRemove

-----------------------------------------------------------------------------
(* The web UI thread.  A process that has ended has no threads.            *)

WebUnchanged ==
  UNCHANGED <<trainerVars, main, outcome, runs, batch, bpf, shutdown, webui>>

(* TCP on either loopback address; otherwise the unix socket, or nothing   *)
(* when that cannot be bound either.                                       *)
WebBind ==
  /\ Alive /\ web = "bind"
  /\ web' \in {"serve", "gone"}
  /\ UNCHANGED <<unblocked, dropin>> /\ WebUnchanged

(* TCP denied by the sandbox (a taken port does not count), and            *)
(* try_unblock_loader_sandbox succeeds: it renames its file over whatever  *)
(* is there, and runs systemctl.                                           *)
WebUnblock ==
  /\ Alive /\ web = "bind"
  /\ dropin' = "mine"
  /\ web' = "flag"
  /\ UNCHANGED unblocked /\ WebUnchanged

(* The flag is stored after the file was written; the unix socket follows. *)
WebFlag ==
  /\ Alive /\ web = "flag"
  /\ unblocked' = TRUE
  /\ web' \in {"serve", "gone"}
  /\ UNCHANGED dropin /\ WebUnchanged

(* A server loop that never looks at the flag.                             *)
MutLeavesLoop == FALSE

(* Both server loops end on the flag alone.                                *)
LeavesLoop == shutdown

WebServe ==
  /\ Alive /\ web = "serve"
  /\ LeavesLoop
  /\ web' = "gone"
  /\ UNCHANGED <<unblocked, dropin>> /\ WebUnchanged

WebStep == WebBind \/ WebUnblock \/ WebFlag \/ WebServe

-----------------------------------------------------------------------------
(* The environment.                                                        *)

Signal ==
  /\ Alive /\ ~shutdown
  /\ shutdown' = TRUE
  /\ UNCHANGED <<trainerVars, main, outcome, runs, batch, bpf, webui, web,
                 unblocked, dropin>>

(* The kernel ejects the scheduler, for whatever reason.                   *)
BpfExit ==
  /\ bpf = "attached"
  /\ bpf' = "exited"
  /\ UNCHANGED <<trainerVars, main, outcome, runs, batch, shutdown, webui,
                 web, unblocked, dropin>>

(* The administrator edits or removes the drop-in.                         *)
EditDropin ==
  /\ Alive /\ dropin = "mine"
  /\ dropin' \in {"foreign", "absent"}
  /\ UNCHANGED <<trainerVars, main, outcome, runs, batch, bpf, shutdown,
                 webui, web, unblocked>>

Interval ==
  /\ Alive /\ IntervalElapses
  /\ UNCHANGED daemonVars

Worker ==
  /\ Alive /\ WorkerStep
  /\ UNCHANGED daemonVars

Next == MainStep \/ WebStep \/ Worker \/ Signal \/ BpfExit \/ EditDropin \/ Interval

(* The two threads, when they can run, do run; signals, kernel exits and   *)
(* edits may never come.                                                   *)
Spec ==
  /\ Init /\ [][Next]_vars
  /\ WF_vars(MainStep) /\ WF_vars(WebStep)

-----------------------------------------------------------------------------
(* A process that ends as it should has taken its unblock back, whichever  *)
(* incarnation wrote it and whenever: it gives up only on a foreign file   *)
(* or on a removal that fails.                                             *)
RestoredOnExit == main.pc = "done" => dropin # "mine"

(* After a signal the process ends, whatever the kernel does meanwhile.    *)
SignalEnds == shutdown ~> ~Alive

(* Until it joins, the main thread always has a step of its own: training, *)
(* whose two channels may both be full, never makes it wait.               *)
MainNeverWaits == Alive /\ main.pc # "drop" => ENABLED MainStep

(* Scheduler::drop: "the thread exits within its poll interval of the      *)
(* shutdown flag, so the join is bounded".                                 *)
JoinEnds == (main.pc = "drop") ~> (main.pc # "drop")

=============================================================================
