# TLA+ models and proofs of scx_mlfq

scx_mlfq is a sched_ext CPU scheduler: BPF callbacks in the kernel
(`src/scx/src/bpf/`) keep three feedback queues ordered by EEVDF virtual time,
and a Rust daemon (`src/scx/src/*.rs`) loads them, fits a small decision tree
to their samples, publishes it back and serves a web UI. This directory models
it, model-checks it with TLC and proves the central invariants with TLAPS.

Contents: 1 inventory · 2 modules, and how they correspond to the code · 3 runs
· 4 proofs · 5 findings and smaller divergences · 6 what is not modelled ·
7 plan. Paths below are relative to `src/scx/src/`; `intf.h` and `*.bpf.c` are
in `src/scx/src/bpf/`.

## 1. Inventory

### Components

| Component | State | Operations | Correct means |
|---|---|---|---|
| EEVDF virtual time (`intf.h`, `vtime.bpf.c`) | a clock per queue; vruntime, lag, deadline, placed bit per task | placement at a queue insert, charge at a stop, clock advance | queued tasks are eligible, deadlines stay within a request, lag is bounded, clocks never go back |
| Runnable gauges (`intf.h`; callers in `enqueue`, `lifecycle`, `dispatch`) | a counter per LLC and per queue, an ownership record per task | enter, exit, global park, SYNC handoff, adjustment after a steal | each gauge is the number of tasks counted there; nobody who left is counted |
| Callbacks over the scheduling pass (`enqueue`, `dispatch`, `lifecycle`, `select_cpu`) | DSQs (local, per CPU and queue, global), idle claims, running records, SMT veto bits | select_cpu, enqueue, dispatch, running, stopping, exit_task, cpu_release | no idle CPU beside a task it could run; no veto without its Q1 task; every slot of a dispatch call is used in order |
| Realtime core avoidance (`rtdl.bpf.c`) | the occupied mark and drain stamp of each CPU | the sched_switch hook, the drain, the redirect | the mark is exact; tasks do not stay on a taken CPU |
| Classification and aging (`classify.bpf.c`, `enqueue`, `lifecycle`) | queue, CPU-use gauge, two 8-bit counters, boost stamp, stay stamp per task | wakeup, run-out, other enqueue, stop | demotion and promotion are earned, a boost holds, a hog sinks |
| Published tree (`intf.h`, `mlfq_tree.rs`, `main.rs`) | two map entries, a meta word | publish, walk | a walk answers from one tree |
| Tree fitting (`mlfq_tree.rs`) | a worklist of nodes to fill, the nodes so far | `fit`, `best_split` | the result can be published and answers the samples it was fitted to |
| Training pipeline (`main.rs`) | sample window, per-pid counts, cadence, job and result channels, model | ingest, kick, fit, poll, publish | counts are the window's, the main thread never waits, models improve |
| Training samples (`lifecycle`, `enqueue`, `classify`) | feature block per task, two limiters | capture, budget, emission | a sample describes one episode |
| Daemon lifecycle (`main.rs`, `webui.rs`) | incarnation, threads, shutdown flag, the loader's drop-in | init, run loop, drop, restart, restore | a signal ends it, threads are joined, the drop-in is restored |
| Adaptation and system gauges (`main.bpf.c`, `intf.h`, `lifecycle`, `enqueue`) | wait sums, arrival windows per CPU, two EMAs, the shift, four band edges | measure, count, fold, slew, rewrite | edges ordered and in range, every arrival folded once, one step per interval |
| GPU tracepoints (`main.bpf.c`) | submission level per task, system totals | submit hook | levels rise and age |
| CPU selection (`select_cpu.bpf.c`) | none of its own | preference order over idle CPUs | an interactive wakeup gets a big core if one is idle, the others stay near their waker |
| Topology planning (`topology.rs`, `Scheduler::init` in `main.rs`) | the rodata tables and bitmaps of the BPF object | discover, plan, write, load, attach, seed the web UI, restart | tables in use describe the CPUs that are online now, or are off by their gates |
| Configuration (`config.rs`) | the scheduling constants | default, validate, apply | what is accepted serves dispatch, classification and adaptation |
| Statistics (`stats.rs`), HTTP content, allocator counters, bindings, build, install scripts | counters, text | reading, formatting | out of scope, section 6 |

### How they interact

* The kernel serializes the callbacks of one task (its runqueue lock and its
  scheduling state) but not those of different tasks. The clocks, gauges,
  windows, running records and edges are shared by all CPUs with no lock: plain
  loads and stores, atomic adds, one compare-and-swap that is not retried.
* `ops.select_cpu` may run on another CPU than the one it picks; the claim it
  makes is used later by `ops.enqueue`, which reads the claimed CPU's marks anew.
* One context switch is several callbacks (stopping, dispatch, enqueue of the
  previous task, running), and the DSQs they touch can change in between.
* The classification reads the band edges that the adaptation rewrites and the
  tree that the daemon publishes, with no synchronisation but the double buffer.
* The daemon's main thread drains the ring buffer, kicks the worker through a
  channel of one, polls its result through another, and joins the web UI thread.
* Before it attaches, the daemon reads the machine three times and writes the tables
  by best effort, each behind a gate; a CPU may come or go between any two of
  these steps. The kernel's hotplug sequence number, recorded at open, is what
  keeps an object planned for another machine from staying attached.
* The tables steer `select_cpu` and the steal, which read them without locks.

### Hard behaviours

Two clock reads in one placement; counters updated by several callbacks of one
episode; the head peeked before a steal that moves another task; realtime tasks
arriving between the claim and the insert; a stop that several clean-ups have to
notice; eight-bit counters that wrap; plain read-modify-writes of all CPUs
against a fold; a publish overtaking a walk; full channels; a join on a flag
nobody sets; restarts with a drop-in owed; a machine that changes while it is
being described; tables of which only a part could be written. `PROJECT.json` lists each at its line
with the property that watches it, or the reason none does.

## 2. Modules

`MlfqX` is the specification of a component, `MCX` its instance for TLC,
`MlfqXProofs` its proofs. Names of actions and fields follow the source.

| Module | Role |
|---|---|
| `MlfqMath` | the fixed-point decay of `intf.h`, extended by MlfqClassify and MlfqAdapt |
| `MlfqVtime` | virtual time |
| `MlfqRunnable` | gauges and ownership |
| `MlfqSched` | callbacks, DSQs, realtime core avoidance, over the kernel's pass |
| `MlfqClassify` | the classification of one task |
| `MlfqTreeNodes`, `MlfqFit`, `MlfqTreeRegister`, `MlfqTree` | tree operators, the growing of a tree, the abstract register, the double buffer that publishes fitted trees and implements it |
| `MlfqTrainer`, `MlfqDaemon` | training pipeline; `MlfqDaemon` extends it and sequences its operations |
| `MlfqAdapt` | gauges and adaptation |
| `MlfqTopology`, `MlfqSelect`, `MlfqConfig` | operators: the planners, the order of `select_cpu` over their tables, the constants and their validation |
| `MlfqLoad` | extends the three: how the tables get into the BPF object, against hotplug |

**MlfqVtime.** A task is its `task_ctx` fields and a program counter. An insert
into a queue DSQ is `EnqueueQueue`, `PlaceDeadline` (first clock read) and
`PlaceCommit` (second read); a local insert is `EnqueueLocal` and sets no
placement. `Stopping` charges and reads the clock, `StoppingCas` is the
compare-and-swap. `CalcDeltaFair`, `ClampedLag`, `PlaceEntityDeadline` and
`AdvanceClock` are the functions of those names. Values are unbounded; the u64
arithmetic of the code compares signed differences, so a wrap is not observable
before centuries of uptime.

**MlfqRunnable.** Each atomic of `mlfq_runnable_enter` and `_exit` and each store
to the record is a step; all seven callers are actions that start a call
(`Enqueue`, `SyncHandoff`, `GlobalPark`, `RunUnowned`/`RunOwned`, `MoveOwn`,
`StealPeeked`, `Quiescent`). `Peek` and `StealStale` let the kernel move another
task than the one peeked; that call is made by a *Thief*, not serialized with
the callbacks of the task it names. The history variable `race` says what has
happened: none, a stale steal, or a stale steal overlapping a call on the task.

**MlfqSched.** `cpu[c]` holds the phase of the context switch, current task,
kick, occupied mark, veto, drain gate; `task[t]` where the task is, its queue,
affinity and claimed CPU. The kernel is part of the model: balance, the dispatch
slots, put-previous, pick, idle, kicks, the takeover by a higher class and its
return, the three re-enqueue kinds of kernels 6.18, 6.19 and 7.1 (`Reenq`).
Which queue a classification picks is any queue and `select_cpu` claims any idle
CPU it may; the preference order is in `MlfqSelect` and the windows of the steal in
`MlfqTopology`. The order inside a queue DSQ is left out.

**MlfqClassify.** One action per class of `ops.enqueue` (wakeup, run-out, other),
`Running`, `Stopping`, `GpuSubmit`, and the environment: any prediction of any
tree, any switch between band settings, a policy change of a sleeping task. The
operators of `WakeupClassify` are applied in the order of the code, because the
later ones may undo the earlier. Timestamps are ages that saturate just past the
one threshold they are compared with, so time is not bounded.

**MlfqFit.** `FitBegin` takes a window of samples and the limits; `Grow` splits the
node at the head of the worklist at its best cut, `Settle` makes it a leaf,
`FitDrop` is a result that failed a gate. Sums are exact: a quotient of the code is
a comparison of cross products, and the recency weights are integers (`Weights`).

**MlfqTree** extends it: what is published is what `MlfqFit` fitted (`Train`).
`PublishStart`, one `PublishWrite` per word, `PublishCommit`; a walk
is `WalkBegin`, then for each node a load of feature, threshold and child as
steps of their own. `MlfqTreeRegister` is the abstract specification: a register
holding one whole tree, whose calls may answer otherwise only if a publish
completed during them. `ImplementsRegister` is the refinement, with the
committed generation, the walks and their answers as its mapping.

**MlfqTrainer and MlfqDaemon.** A sample is its pid; a fit returns an error or any
valid tree with any outcome and correlation. `MlfqDaemon` adds incarnations, the
run loop (`RunCheck`, `Poll`, `Ingest`, `Recv`), both ways `run()` ends, the drop
with its join, the web UI thread in its three steps (bind, unblock, flag), the
drop-in with its foreign edits, and the restore's read and removal.

**MlfqTopology, MlfqConfig, MlfqSelect** have no state. `MlfqTopology` has the planners
(siblings, dense domain ids, primaries, CPU lists, the strictly largest domain)
and the CPUs a steal reaches from them; `MlfqConfig` has `Default`, `Validate` and
`Applied`, and what the other modules take for granted of the constants (`Serves`).
`MlfqSelect` has one operator per step of `select_cpu` and `Claims`, the CPUs a call
may claim; a wakeup is what the call reads, and nothing relates the advisory
gauges to the idle CPUs.

**MlfqLoad.** One action per step of `Scheduler::init`: `Open`, `Discover`,
`ReadPrimaries`, `WriteRodata`, `Load`, the three map writes, `Attach`, `SeedWeb`, and
`Restart`. A discovery may fail, a cache size may be missing, a map write may stop
at any entry; `Hotplug` happens between any two steps. The kernel's part is the
sequence number: an attach with a stale one, and an attached scheduler at the next
hotplug, exit with a restart request.

**MlfqAdapt.** Every shared load, store, exchange and compare-and-swap of the
measurement, the arrival count and the step is an action. `LatFold`, `RateStep`,
`ShiftTarget`, `Slew` and `Band` are the functions of the code, in integers.

## 3. Runs

Nine runs pass; three are violations that refute a comment of the code.

| Run | Question | Bounds |
|---|---|---|
| `vtime` | do eligibility, deadline and lag bounds, monotone clocks survive every interleaving of placements and advances? | two tasks, two queues, slices of 1 and 2 ticks, weights 100 and 200, segments 0..2, virtual time to 3 |
| `runnable` | are the gauges exact at every atomic step, and what does a steal of a stale peek leave? | two tasks, two domains and an unmapped CPU, two queues, one thief |
| `sched` | is a veto always backed, an idle CPU kicked, the realtime mark exact, which insert can reach an occupied CPU? | two CPUs, one of which realtime tasks take, two tasks with any or one CPU, two queues, one slot each |
| `sched_live` | does a task get off a CPU that a realtime task keeps? | the same, one queue with two slots, no forks; takeovers a drain interval apart |
| `sched_occupied`, `sched_idle` | findings 1 and 2 | as `sched` without forks and repinning |
| `classify` | are demotions and promotions earned, boosts honoured, hogs sunk, the gauge bounded? | one task, all combinations of sleeps on each side of every threshold |
| `tree` | can every fitted tree be published, does it answer its samples, does the double buffer implement a register? | 1,389 windows of five samples under three limits; three of them published (leaf, stump, depth two), eight nodes, three publishes, one reader |
| `daemon` | is the accounting exact, do models improve, does a signal end the process and is the drop-in restored? | three pids, window of two, one sample per drain, two incarnations |
| `daemon_exit` | finding 3 | one pid, one incarnation, no samples |
| `adapt` | are the edges consistent at every instant, is every arrival folded once, one step per interval, slewed? | two CPUs, one wait and one arrival each, clock to 4 |
| `load` | do the tables in use describe the machine, reach every queue and place wakeups, and does the web UI show the same? | eight machines of four or five CPUs, tables for four CPUs and two domains, lists of two, two hotplugs, 1,080 wakeups |

Why the bounds are enough, and what is scaled:

* **vtime.** Two tasks in one queue are what an advance races against: one
  compare-and-swap fails when another succeeded between its read and its swap. A
  doubled weight makes a one-tick charge round to zero. More time adds nothing:
  every relation is between values of one queue. `MCView` drops the placement
  results of tasks that are not queued, which nothing reads again. Requests of
  one tick are scaled so far that a doubled weight makes them zero: a deadline can then be zero at the
  start of a clock, and the fix-up of the failure sentinel (`intf.h:1354`) is taken. With slices
  of 1, 2 and 4 ms and weights up to 10000 a request is positive and only the wrap of
  the 64-bit clock gets there, which is not modelled.
* **runnable.** A gauge is a sum over tasks of independent credits, so two tasks
  show a lost or doubled credit. Exploration stops (`MCNoOverlap`) behind a stale
  steal that overlaps a call on its task: from there a gauge really may drift
  without bound (section 5). Symmetry over tasks and domains is sound since
  neither is named by an action or a property.
* **sched.** One CPU that can be taken and one that cannot are the two sides of
  every redirect and steal. With two tasks a steal can race a keep and a
  preemption has a victim. Symmetry over tasks only; the CPUs differ. The liveness
  run uses neither symmetry nor a view.
* **classify.** The unit is 1/8 ms; budget, thresholds, edges and half-life keep
  their values. The aging period is 64 units instead of 8000 and the counters wrap
  at 10 instead of 256: what matters is that the period exceeds the waits that do
  not age, and that the modulus exceeds the exhaustion bound 8, so that a counter
  can stand just before its wrap when it starts to matter. `GpuMax` is 1 for 4: only
  zero against non-zero is ever tested. The proofs have none of these values.
* **tree.** The windows of `MCTree` are every multiset of five points over two
  features (three and two values) with labels of two values, under limits that do
  not bind, that bind the nodes, and that bind the leaf size; their results are
  dropped (`WideAlone`), so the fit is explored apart from the publishing. One reader,
  because readers write nothing shared. Three publishes let a second publish
  overtake a walk and start to rewrite the entry it reads; while one is being
  published the worker gets no job, as in the main thread that hands out both.
* **load.** The machines have one domain, two, one that is too large for a list, more
  domains than the tables hold and more CPUs than the tables hold, with and without
  shared cores, big cores and a larger cache, and with CPUs offline at first: each gate
  of the tables is met on both sides. Two hotplugs are one that makes a plan stale
  and one that undoes it, which a comparison of CPUs would miss and the sequence
  number does not. The wakeups take every set of idle CPUs, from each side of
  a machine, in Q1 and Q2 with no boost pending.
* **daemon.** Window, minimum and cap are such that every sample class occurs:
  rejected at the cap, evicting its own pid's, evicting another's. Two
  incarnations are the least in which something of the first outlives it.
* **adapt.** The unit is 50 us; the edges and their hard ranges keep their
  values, one base set is the default and one lies near the ends so the clamps
  bite. `MaxStep` is 70/256 instead of 25/256 so that two steps reach the clamps,
  the rate gate and ceiling are scaled to two arrivals, and `Interval` is two
  ticks. It is assumed that a step that won its swap finishes within an interval
  (some microseconds against a second); a step overtaken by the next is not
  explored. The u32 truncation of the summed arrivals is left out: it takes more
  arrivals in one window than a machine can make.

**Deadlock** is checked in every run but `daemon` and `daemon_exit`, in which the
process ends, and `load`, whose daemon may fail, wait for the web UI or have nothing
left to do. **Fairness.** `sched_live` uses `FairSpec`: a CPU finishes the context
switch it began, a kicked idle CPU reschedules, a slice ends, the kernel completes
the wakeups and re-enqueues it began; these are the kernel's own guarantees.
Nothing is assumed of realtime tasks, which may keep a CPU forever. In addition
takeovers of a CPU are a drain interval apart (`SpacedRt`), since the drain is
rate limited and is attempted only at a switch; without it the property fails
(section 5). `MlfqDaemon` gives weak fairness to the main thread and the web
UI thread, which the operating system runs; signals, kernel exits, edits and the
training worker have none. `MlfqLoad` gives weak fairness to the steps of the main
thread, and `Settles` holds because hotplugs are bounded: it says what becomes of a
daemon once CPUs stop coming and going. A client that holds a connection open is not modelled.

**Properties worth knowing.** `VetoBacked` takes a stop, a takeover and an exit of
different tasks to break. `OccupiedOnlyByRemote` says that the one path which
reaches an occupied CPU is a remote insert after an idle claim (finding 1): every
other path is safe. `TornOnlyIfLapped` sharpens "one mispredicted burst": a walk
answers from the tree it began with unless one publish committed and the next
began to write within it. `QuietKeepsBands` is conditional on no two CPUs having
met at the wait accumulators (`torn`): the accumulators are plain
read-modify-writes, so a sum and a count that do not belong together can make an
average above every wait, and then bands do widen by a step. `EdgesSlewed` bounds
what such a sample can do, torn or not. `HogSinks` says that seventeen
run-outs in a row at the budget end in Q3 from any state, a count about to wrap
included: at most nine to leave Q1 (one more than the threshold if the count has
to wrap first), then eight to leave Q2. `AnswersFromSamples` relates two pieces of
code in two languages: the walk routes every sample to the leaf whose samples'
mean it is, so the partition of the fit and the comparison of the walk agree at
equal values, at midpoints and at the depth limit. `PlanCurrent` is about every
step at which the machine can change under the planners. `StealReachesAll` takes
the lists that failed to be written and the domain too large for one. `WakeupsPlaced`
excepts the machine of a single domain, where the kernel's own pick, which does not
know big cores, comes before the search for one.

## 4. Proofs

Fifty-one theorems are listed in `PROJECT.json`, each over all values of the
constants under the named assumptions of its module (`VtimeAssumption`,
`RunnableAssumption`, `SchedAssumption`, `ClassifyAssumption`, `AdaptAssumption`,
`NodesAssumption`, `FitAssumption`, `TreeAssumption`, `TrainerAssumption`,
`DaemonAssumption`, `TopologyAssumption`, `LoadAssumption`). TLC evaluates the
assumptions in every run that extends the module. Every safety property that a
passing run checks is a theorem, but for `MainNeverWaits`. Each module builds an
inductive invariant and shows with a lemma per action that every step keeps it.

* **`MlfqVtimeProofs`**: `TypeCorrect`, `QueuedEligible`, `QueuedDeadlines`,
  `QueuedLagBounded`, `ClocksMonotone`, `PlacedAdvance`. Eligibility is not
  inductive: a placement in flight holds values of an older clock. `VtimeInv`
  adds, for each program counter, what the registers are worth against the
  clock *now* (a value read is at most the clock, a placed vruntime is the read
  clock minus the clamped lag, a swap that succeeds moves the clock to at most
  the value read plus the charge). Since clocks only grow, each of these is
  stable under the steps of other tasks, which is one lemma (`BystanderStep`).
* **`MlfqRunnableProofs`**: `TypeCorrect`; `GaugesAreExact` and `AlwaysReleased`,
  as long as every steal adjusted the task it moved; and `GaugesAreHealed`, which allows
  stray steals that overlap no other call on their task. `RunnableInv` states, for
  every program counter, which domain and queue the task is credited to and what
  its record says. It says nothing once a steal has adjusted another task, so the gauges
  have an invariant of their own, `HealInv`: at most one actor works on a task
  (`Lone`), and the record together with the point that one call has reached says where
  the task is counted (`LlcOwed`, `QueueOwed`). Each gauge is the number of tasks
  mapped to its key; a step that changes a gauge moves one task, which is a fact about
  the cardinality of a set that gains or loses one element (`CountsStep`). It does not
  matter whose call it is, and with no call in flight the map is the record itself.
* **`MlfqSchedProofs`**: `TypeCorrect`, `VetoIsBacked`, `MarkExact`, `NoTaskStranded`,
  `OccupiedOnlyRemotely`. `IdleCpuKicked` is not inductive: a CPU that is about to go
  idle has already passed some of its queues. `KickInv` says that a task which came
  too late for what the present switch can still dispatch (`Passed`), or that waits
  for an idle CPU, has the CPU kicked; it excepts exactly the tasks the theorem excepts
  (those in a CPU's own queue, whose enqueue sends no kick, finding 2) unless the
  kernel re-enqueued them. `CpuInv` says what the phase of a CPU means for its
  mark, its idle bit and its current task, `WakerInv` that the CPU which runs
  an enqueue stays in its phase until it is made, `HomeInv` that a local DSQ holds tasks
  accounted to its CPU. That every queue has a quota is assumed, and
  `ValidServes` shows it for every configuration that `Config::validate` accepts.
  `EvacuationIsPending` is the safety half of `TakenOverEvacuated`: while a task that
  could run elsewhere is in a DSQ of a CPU a realtime task holds, its re-enqueue has been
  asked for and not withdrawn, the owner of the DSQ is between context switches and there
  is a DSQ to insert it into (`EvacuationPending`, the whole guard of the kernel's step);
  and that one re-enqueue puts it where no realtime task is (`ReenqueueFrees`). It
  needs `EvacInv`: only CPUs that may be taken over are ever marked, the switch to a
  realtime task finds the drain interval over, and wakeups are enqueued on the CPU that was
  selected. The key fact is `PlacedFree`: no insert of such a task goes to a CPU a realtime
  task holds *now*, so what is there was there before the takeover. The hypothesis
  `Drains` names where the promise can hold at all; for each of its four conditions
  on the kernel and the workload TLC finds the invariant violated without it: a kernel
  that re-enqueues local DSQs only, two takeovers within the drain interval, a waker
  that enqueues for another CPU, and a fork, which the redirect leaves out.
* **`MlfqClassifyProofs`**: `TypeCorrect`, `DemotionsEarned`, `PromotionsEarned`,
  `TransitionsAreEarned`, `BoostsHonoured`, `HogsSink`. The invariant ties the code's
  counters to the history (`CountersEarned`): each is at most the run of events it stands for,
  unless that run has already reached the threshold, in which case its wrapped
  value does not matter. `HogsSink` rests on a second
  invariant, a measure of how many run-outs a task still needs, which each
  run-out at the budget decreases. That the decay of `MlfqMath` stays in `0..v` is a
  lemma, here and in the next module.
* **`MlfqAdaptProofs`**: `TypeCorrect`, `BandsStayOrdered`, `AdaptWidensOnly`,
  `StepsAreSpaced`, `ArrivalsAreConserved`, `EdgesAreSlewed`, `QuietMachinesRest`.
  Every edge is in its hard range and not below its base, whatever
  shift it was computed from, so a pair of edges from two different steps is still
  ordered. `TimeInv`: a call is younger than a step interval, so of the calls that read
  one stamp only one passes the swap, and there is one step at a time. `HoldsInv`: what the
  CPUs hold of the arrivals is a sum over all of them, and an exchange moves
  between two of its terms. `EdgesInv`: the edges a step has not written yet are
  within one slew of the band the new shift asks for, and without a step in flight the
  edges are that band. `QuietInv`, while no two CPUs met at the accumulators: the sum
  of the waits is at most the longest wait times the count, at each of the seven points
  of a measure or a fold; then the average and its smoothing, both of which round, stay
  at or under the target, and the target of the shift is zero.
* **`MlfqTreeProofs`**: `WholeTrees`, `TornWalksLapped`, `RegisterOfTrees`, `FitsPublish`,
  `FitsAnswer`, `FitsInBounds`. The publish: how far it has copied (every word below
  its position is the new tree's, the entry is not the live one). The walks: one that is
  not lapped is where the descent of its tree is, and holds what that tree has there
  (`OnPath`); one that is lapped was crossed by a commit first. From this each answer is that
  of the tree the walk began with or of an overtaken walk, which is `TornOnlyIfLapped`, and
  each step of `MlfqTree` is a step of `MlfqTreeRegister` or a stutter, which is
  the refinement. The fit (`FitInv`): the leaves in the worklist hold exactly the samples
  whose descent ends there (`Filling`), each node is within the depth limit and reachable
  (`Placed`), each leaf has the samples a split must leave it (`Populated`) and is the mean
  of its samples or still in the worklist. So a finished tree can be published, and
  answers a sample with the mean of the samples that end with it. Thresholds and
  predictions are a fixed-width range `0..MaxValue`, as the words of an entry are.
* **`MlfqDaemonProofs`**: `TypeCorrect`, `WindowsAccounted`, `ModelsOnlyImprove`,
  `SandboxRestored`. The accounting rests on two lemmas about the share of a pid in a
  sequence (appending adds one to one pid, dropping the head takes one from one); the
  eviction is the composition of both. The restore needs that a drop-in of the
  program's own is owed at every step: it exists only with the flag raised or with
  the thread that wrote it about to raise the flag, and never once the process ended.
  `SignalWindsDown` is the safety half of `SignalEnds`: a measure (`Left`) that from the
  signal on every step of the three threads decreases and nothing else raises. The runs
  that are left and the place of the main thread in one count for more than all that can be
  pending at a place (`StageOutweighs`): a batch is worth more than the job it becomes, a
  job more than its fit, a fit more than its result.
* **`MlfqLoadProofs`**: `PlansCurrent`, `ThreadsPaired`, `WakeupsArePlaced`,
  `BiasIsTheLargest`, `StealsReachEveryone`, `WebShowsTheTables`, `ValidServes`,
  `ConstantsAlwaysServe`, `SelectionIsSound`, `IdleIsFound`, `StepsSettle`. Nothing says that a plan describes the
  machine while it is being made; the invariant is conditional: *if* the recorded
  sequence number is still the kernel's, then what was discovered is what is online,
  and each table, the bias, the member lists and the web page are the planner's image of
  it. The attach tests the number, and a hotplug ends the condition and the attachment
  together. Dense domain ids are ranks of least members: ranks tell domains apart and every
  number below their count is one (`RankOrders`, `DenseTells`), so the members that
  were written are those of a domain. A bias is a strict winner, so it is the only one
  (`StrictWinner`). The rotating window of the steal meets every member because the offsets
  of its turns cover the length of the list (`WindowTurns`). `WakeupsArePlaced` follows
  from `PlanCurrent` and `SiblingsPaired` alone. Two theorems about `MlfqSelect` justify
  what `MlfqSched` puts in its place: `SelectionIsSound` (it claims only idle CPUs the task
  is allowed on, none a realtime task holds for Q3) and `IdleIsFound` (it misses an idle CPU
  only for the hand-off, the saturation count, or the caps and gates of the Q3 scans, never
  for a table that could not be written, a domain gauge or a veto). `StepsSettle` is the
  safety half of `Settles`: an incarnation that a hotplug has doomed is followed by one
  that reads the number anew, so at most twenty steps are left between two hotplugs, and
  none exactly when the daemon has settled (`Left`).

The library's induction theorems take an operator as a parameter, which the installed
provers cannot instantiate. Where a proof needs an induction it takes the least element
of a set of naturals instead (`LeastNat`, from the well-foundedness of `<`): the
sums over the CPUs, the totals over the samples and the descents of a tree are handled
so, because they are recursive functions and folds, and no RECURSIVE operator.

Only model-checked: `MainNeverWaits`, which is stated with `ENABLED`, and liveness under
fairness (`TakenOverEvacuated`, `SignalEnds`, `Settles`); both are out of the provers'
reach. What can be proved of the three liveness properties is: that the awaited step
stays pending and one is enough (`EvacuationIsPending`), or that every step of the
threads it waits for decreases a natural number (`SignalWindsDown`, `StepsSettle`). What stays
with TLC is that such a step is enabled and, by its fairness, taken. Only model-checked are
also, of course, the three statements the code refutes (section 5).

## 5. Findings and smaller divergences

Three runs refute a statement of the repository:

1. `sched_occupied`. `dispatch.bpf.c:66` says that no path dispatches to an
   occupied CPU's local DSQ, and `enqueue.bpf.c:378` that the occupied guard closes
   the window between the idle claim and the insert. The guard reads the mark of
   the CPU that *runs* `ops.enqueue`; the insert goes to the CPU that was claimed. If
   the waker enqueues for another CPU and a realtime task takes that one in
   between, the wakeup lands behind it.
2. `sched_idle`. `enqueue.bpf.c:117` says the enqueueing CPU needs no kick, because
   its own dispatch drains the queue in the same scheduling cycle. A last runnable
   task is put back (`SCX_ENQ_LAST`) *after* the dispatch of that cycle; the CPU
   then goes idle with the task in its own queue DSQ and no kick pending.
3. `daemon_exit`. `main.rs:1281` says that the join of the web UI thread is bounded.
   The thread watches the shutdown flag only, which only a signal sets; when the
   kernel ends the scheduler (an error, or the restart after a CPU hotplug)
   the join never returns and neither the restart nor the restores happen.

Met while modelling, with no run of their own:

* `lifecycle.bpf.c:44` says `gpu_submit` decays a step per long idle. The sleep is
  clamped to 64 ms before it is compared with 120 ms, so the branch is unreachable.
* `README.md` (in `src/scx/`) says that a CPU hotplug needs a restart. The kernel
  asks for it by itself, and the restart re-plans everything (`PlanCurrent`); with a
  web UI thread it does not happen, which is finding 3.
* On a hybrid machine with a single domain the kernel's pick of step 2 may hand an
  efficiency core to an interactive wakeup although a big core is idle, against the
  invariant that `select_cpu.bpf.c:403` states for its own step (`WakeupsPlaced` excepts it).
  A Q3 task about to be promoted takes the scan of Q3, which does not look for big
  cores, against `select_cpu.bpf.c:262`; that scan looks at the first 64 CPUs for one
  without a veto and at the first 32 for any.
* `intf.h:830` calls `mlfq_idle_count` the number of idle CPUs. It starts at zero and is
  maintained by transitions only, so, if the kernel reports nothing for a CPU that is
  idle at the attach, the count stays off by the number of those: it is zero when as
  many are idle, and the saturation fast path is then taken beside them. The count of
  a wakeup in `MlfqSelect` is therefore free.
* `main.bpf.c:351` keeps the bias off when discovery failed; one size that cannot be
  read only leaves its domain out, so a domain that is not the largest can win
  (`BiasOnlyIfLargest` excepts it through `lossy`).
* `topology.rs:451`, the doc comment of `web_cpu_static`, says that the SMT flag of the
  web UI is the test `sibling[i] != i` of `plan_sibling_table`, which is true of every
  thread of a shared core. The code flags all of them but the lowest, as its own comment
  (`topology.rs:485`) and the field's (`stats.rs:177`, the *non-primary* thread) say.
  `WebAgrees` states what the code does: the flag is on just the CPUs that
  the sibling table pairs with a lower one.
* `main.rs:400` says that an unwritten primary bitmap falls back to all-primary
  behaviour. `topology.rs:552` says, and the code does, the opposite: on a hybrid
  machine every CPU is then non-primary and the search falls through to any idle one.
* `Config::validate` does not test that the edges are in the hard ranges the adaptation
  clamps to; the defaults are (`ConstantsAlwaysServe`), other values would be moved by
  the first step.
* `classify.bpf.c:157` drops the sample of a `SCHED_IDLE` task at the capture; one
  whose policy changes while it is queued still emits.
* `lifecycle.bpf.c:315` says the clock follows the service given to the queue. A run
  from a local insert is charged without a placement, so it can move the clock by
  more than its service (`PlacedAdvanceBounded` holds for placed runs only).
* `intf.h:735` says a torn read defers one release and heals. It does unless the
  adjustment of a stale steal overlaps a call on the same task; then a gauge
  keeps its error (`GaugesHeal` states exactly this condition).
* The drain gate is tested at a switch: a second takeover within the interval
  leaves the tasks of the CPU until the next switch there.
* A running record outlives the run of a task that stopped while runnable, so a
  wakeup can preempt against a stale record. `exit_task` clears the veto of the CPU
  it runs on although another task may have set it.
* `intf.h:2032` says one wakeup prediction never demotes. The Q3 seed of a wakeup
  does. `intf.h:1828` says demotion needs eight exhaustions. The Q3 seed of a
  run-out demotes at the first one. `DemotionEarned` excepts both seeds.
* The aging test is made at an enqueue only, so waiting tasks are not re-classified
  until they are next enqueued, unlike `src/README.md:28`; and a task on the keep path,
  which waits for nothing, can be aged at the enqueue that follows.
* The sums of the waits are torn by a fold (`QuietKeepsBands`). The comment of
  `mlfq_adapt_step` says that the residency guard is recomputed; only `mlfq_init`
  writes `guard_eff_ns`.
* A kick while the worker is busy is not skipped but queued, once (the channel
  holds one). With fewer active pids than the window has caps for, the window stops
  moving. `should_publish` admits an equal error although its comment says *beats*.
* `intf.h:533` and `main.rs:1218` say that a torn walk takes two publishes completed
  within it; one completed and the beginning of the next are enough (`TornOnlyIfLapped`).
* `try_unblock` overwrites a drop-in somebody else wrote; a byte-identical drop-in of an
  earlier process counts as ours; the restore compares and removes in two steps.

## 6. Not modelled

* Training samples: capture, budget, limiters and emission (`MlfqTrainer` takes any
  sample at any time, and `MlfqFit` any window of a set). The limiters bound the rate
  of samples and nothing else depends on them.
* The rounding of the floating-point sums of the fit, and the metrics it reports: the
  correlation and the outcome are free in `MlfqTrainer`.
* How the moves of one dispatch call are spread over domains beyond the window each
  CPU probes, the order inside a queue DSQ, and the kernel's preference for whole cores.
* The 10 ms window of a GPU submission and the system totals: counters that only the
  statistics read. The bump itself is an action of `MlfqClassify`.
* Statistics, HTTP content, allocator counters, generated bindings, the harness of the
  math helpers, build and installation scripts: text and counters with no property
  worth a model.
* The kernel is modelled only as far as the callbacks and the daemon can see it. BPF
  map look-ups do not fail, except where the failure is a path of the protocol.

## 7. Plan

The order was: virtual time and gauges first, since every callback relies on
them; then the callbacks; then what decides queues (classification, tree,
adaptation); then the daemon; then the fit and how the tables are made. What is left,
in this order:

1. Proofs: with a prover that knows `ENABLED`, `MainNeverWaits` and the fairness half of
   the three liveness properties; and that `MlfqTrainer` hands `MlfqFit` only the
   batches its assumption allows.
2. `MlfqSample`: capture, the two limiters and emission, composed with `MlfqTrainer`.
3. `MlfqDispatch`: quotas, slots and victim rotation of one dispatch call, with the
   property that no loaded queue is passed over for ever.
