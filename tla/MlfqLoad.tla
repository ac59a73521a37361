------------------------------ MODULE MlfqLoad -----------------------------
(***************************************************************************)
(* How the tables of the BPF side come to describe the machine:            *)
(* Scheduler::init (main.rs) with the discovery, planning and writing of   *)
(* topology.rs and config.rs, against CPUs that come and go.               *)
(*                                                                         *)
(* The machine is read three times (Topology::new, get_primary_cpus, and   *)
(* Topology::new again for the web UI), and a CPU may go on- or offline    *)
(* between any two steps.  scx_ops_open records the kernel's hotplug       *)
(* sequence number first of all; the kernel exits an attach with a stale   *)
(* one, and a running scheduler at the next hotplug, both with a restart   *)
(* request, because the ops have no hotplug callbacks.                     *)
(*                                                                         *)
(* Each discovery may fail as a whole, the size of a cache may be read in  *)
(* part, and each map write may stop at any entry; all of it is best       *)
(* effort.  Nothing reads a table before the attach.                       *)
(***************************************************************************)
EXTENDS MlfqSelect, MlfqConfig

CONSTANTS
  Hosts,    \* the machines, and which CPUs are online at first
  MaxSeq,   \* bound: the hotplug sequence number, which starts at one
  Wakes     \* bound: the wakeups that are tried on the finished tables

ASSUME LoadAssumption ==
  /\ MaxSeq \in Nat
  /\ Wakes \subseteq Wake
  /\ \A h \in Hosts :
       /\ h.nr \in Nat \ {0}
       /\ h.online # {} /\ h.online \subseteq 0..(h.nr - 1)
       /\ {h.core, h.llc} \subseteq [0..(h.nr - 1) -> 0..(h.nr - 1)]
       /\ h.big \subseteq 0..(h.nr - 1)
       /\ h.size \in [0..(h.nr - 1) -> Nat]

VARIABLES
  host,     \* the machine: core and domain of each CPU, the big cores, the
            \* cache size of each domain
  online,   \* the CPUs that are online
  seq,      \* the kernel's hotplug sequence number
  pc,       \* the next step of Scheduler::init
  topo,     \* what Topology::new found, in init_topology
  plan,     \* the TopologyPlan
  consts,   \* rodata: the configuration
  rodata,   \* rodata: the topology tables
  maps,     \* mlfq_primary_bitmap, mlfq_llc_bitmaps, mlfq_llc_cpus
  opened,   \* the hotplug_seq in the struct_ops
  bpf,      \* the struct_ops: off, attached, or exited by the kernel
  webui,    \* not opts.no_webui
  web,      \* the per-CPU seed of the web UI
  lossy     \* history: a cache size was not read in full

machine == <<host, online, seq>>
object == <<consts, rodata, maps, opened>>
vars == <<machine, pc, topo, plan, object, bpf, webui, web, lossy>>

NoTopo == [ok |-> FALSE, core |-> [c \in {} |-> 0], llc |-> [c \in {} |-> 0]]

UniformPlan == [capacity |-> NoPrimaries, llcs |-> NoLlcs]

(* The rodata as compiled: every topology step is off by its own gate.     *)
BlankRodata ==
  [primary_all |-> TRUE, nr_llcs |-> 0, has_primary |-> {},
   cpu_llc |-> [c \in CpuIds |-> 0], smt_on |-> FALSE,
   cpu_sibling |-> [c \in CpuIds |-> 0], cpu_core |-> [c \in CpuIds |-> 0],
   llc_largest |-> MaxLlcs]

BlankMaps ==
  [primary |-> {}, llcs |-> [k \in 0..(MaxLlcs - 1) |-> {}],
   lists |-> [k \in 0..(MaxLlcs - 1) |-> {}]]

Init ==
  /\ host \in Hosts /\ online = host.online /\ seq = 1
  /\ pc = "open" /\ topo = NoTopo /\ plan = UniformPlan
  /\ consts = Default /\ rodata = BlankRodata /\ maps = BlankMaps
  /\ opened = 0 /\ bpf = "off"
  /\ webui \in BOOLEAN /\ web = <<>> /\ lossy = FALSE

(* An object that is opened without the macro: the kernel takes no number  *)
(* for no demand.                                                          *)
MutSeqAtOpen == 0

(* scx_ops_open reads the sequence number before anything is discovered.   *)
SeqAtOpen == seq

(* Open the object and write the constants; the default ones are valid.    *)
Open ==
  /\ pc = "open"
  /\ pc' = IF Validate(Default) THEN "discover" ELSE "failed"
  /\ opened' = SeqAtOpen
  /\ consts' = Applied(Default)
  /\ rodata' = BlankRodata /\ maps' = BlankMaps
  /\ UNCHANGED <<machine, topo, plan, bpf, webui, web, lossy>>

(* Topology::new.  Its failure plans a uniform machine and leaves the      *)
(* rodata as compiled.                                                     *)
Discover ==
  /\ pc = "discover"
  /\ \/ /\ LET found == Discovered(host, online)
           IN  topo' = [ok |-> TRUE, core |-> found.core, llc |-> found.llc]
        /\ pc' = "primaries"
     \/ /\ topo' = NoTopo
        /\ pc' = "load"
  /\ plan' = UniformPlan
  /\ UNCHANGED <<machine, object, bpf, webui, web, lossy>>

(* get_primary_cpus reads the machine anew; its failure is an empty list.  *)
ReadPrimaries ==
  /\ pc = "primaries"
  /\ \E primaries \in {host.big \cap online, {}} :
       LET capacity == PlanPrimaryMask(primaries, Cardinality(DOMAIN topo.llc))
       IN  plan' = [capacity |-> capacity,
                    llcs |-> PlanLlcs(topo.llc, capacity.primary_cpus)]
  /\ pc' = "rodata"
  /\ UNCHANGED <<machine, topo, object, bpf, webui, web, lossy>>

(* The cache directory of a CPU: a second level of its core, and the LLC.  *)
CacheOf(c) ==
  {[level |-> 2, id |-> host.core[c], size |-> 1],
   [level |-> 3, id |-> host.llc[c], size |-> host.size[host.llc[c]]]}

(* The sizes of the domains, from the first CPU of each, when the files    *)
(* <<domain, level>> in lost cannot be read (level 0: llc_id).             *)
LlcSizes(llcs, lost) ==
  [k \in DOMAIN llcs.llc_cpus |->
     IF llcs.llc_cpus[k] = {} THEN 0
     ELSE LET c == Least(llcs.llc_cpus[k])
          IN  LlcSizeBytes({e \in CacheOf(c) : <<k, e.level>> \notin lost},
                           IF <<k, 0>> \in lost THEN -1 ELSE host.llc[c])]

(* On a uniform machine every domain has primaries.                        *)
HasPrimary ==
  IF plan.capacity.primary_all THEN 0..(MaxLlcs - 1) ELSE plan.llcs.has_primary

(* The rest of init_topology: the sizes, and all rodata in one go.         *)
WriteRodata ==
  /\ pc = "rodata"
  /\ \E lost \in SUBSET ((DOMAIN plan.llcs.llc_cpus) \X {0, 2, 3}) :
       LET sibling == PlanSiblingTable(topo.core)
           sizes == LlcSizes(plan.llcs, lost)
       IN  /\ rodata' =
                [primary_all |-> plan.capacity.primary_all,
                 nr_llcs |-> plan.llcs.nr_llcs, has_primary |-> HasPrimary,
                 cpu_llc |-> plan.llcs.cpu_llc, smt_on |-> sibling.smt_on,
                 cpu_sibling |-> sibling.cpu_sibling, cpu_core |-> sibling.cpu_core,
                 llc_largest |-> PickLargestLlc(sizes, plan.llcs.nr_llcs)]
           /\ lossy' = (lost # {})
  /\ pc' = "load"
  /\ UNCHANGED <<machine, topo, plan, consts, maps, opened, bpf, webui, web>>

(* scx_ops_load freezes the rodata; the maps exist from here on.           *)
Load ==
  /\ pc = "load"
  /\ pc' \in {"primary_map", "failed"}
  /\ UNCHANGED <<machine, topo, plan, object, bpf, webui, web, lossy>>

(* write_primary_bitmap: a uniform plan writes nothing.                    *)
WritePrimaryBitmap ==
  /\ pc = "primary_map"
  /\ \/ /\ ~plan.capacity.primary_all
        /\ maps' = [maps EXCEPT !.primary = BuildBitmap(plan.capacity.primary_cpus)]
     \/ UNCHANGED maps
  /\ pc' = "llc_maps"
  /\ UNCHANGED <<machine, topo, plan, consts, rodata, opened, bpf, webui, web, lossy>>

(* A loop over the domains that writes an entry for each, up to the first  *)
(* failure; the entries before it stay.                                    *)
Written(old, new, nr) ==
  [k \in DOMAIN old |-> IF k < nr THEN new[k] ELSE old[k]]

WriteLlcBitmaps ==
  /\ pc = "llc_maps"
  /\ \E nr \in 0..plan.llcs.nr_llcs :
       LET bitmaps == [k \in DOMAIN plan.llcs.llc_cpus |-> BuildBitmap(plan.llcs.llc_cpus[k])]
       IN  maps' = [maps EXCEPT !.llcs = Written(@, bitmaps, nr)]
  /\ pc' = "list_maps"
  /\ UNCHANGED <<machine, topo, plan, consts, rodata, opened, bpf, webui, web, lossy>>

WriteLlcCpuLists ==
  /\ pc = "list_maps"
  /\ \E nr \in 0..plan.llcs.nr_llcs :
       LET lists == [k \in DOMAIN plan.llcs.llc_cpus |-> BuildLlcCpuList(plan.llcs.llc_cpus[k])]
       IN  maps' = [maps EXCEPT !.lists = Written(@, lists, nr)]
  /\ pc' = "attach"
  /\ UNCHANGED <<machine, topo, plan, consts, rodata, opened, bpf, webui, web, lossy>>

(* scx_ops_attach: mlfq_init rejects more CPUs than the tables have and    *)
(* constants that do not serve, and the kernel exits the scheduler if the  *)
(* sequence number is stale.                                               *)
Attach ==
  /\ pc = "attach"
  /\ IF host.nr > MaxCpus \/ ~InitAccepts(consts)
     THEN pc' = "failed" /\ UNCHANGED bpf
     ELSE pc' = "seed" /\ bpf' = IF opened \in {0, seq} THEN "attached" ELSE "exited"
  /\ UNCHANGED <<machine, topo, plan, object, webui, web, lossy>>

(* A core id taken for the id of the lowest CPU of that core.              *)
MutBadge(core, c) == c # core[c]

(* The badge is on every thread of a core but its lowest.                  *)
Badge(core, c) == c # Least({d \in DOMAIN core : core[d] = core[c]})

(* web_cpu_static, if there is a web UI: a discovery of its own; the       *)
(* sentinel is shown as zero.                                              *)
SeedWeb ==
  /\ pc = "seed"
  /\ \/ /\ webui
        /\ LET found == Discovered(host, online)
               cpu_llc == PlanLlcs(found.llc, {}).cpu_llc
           IN  web' = [c \in online |->
                         [smt |-> Badge(found.core, c),
                          llc_id |-> IF cpu_llc[c] = MaxLlcs THEN 0 ELSE cpu_llc[c]]]
     \/ web' = <<>>
  /\ pc' = "run"
  /\ UNCHANGED <<machine, topo, plan, object, bpf, webui, lossy>>

(* A main() that takes every exit for the last.                            *)
MutWantsRestart == FALSE

(* The exit code of a hotplug asks for a restart.                          *)
WantsRestart == bpf = "exited"

(* run() sees the exit, and the Scheduler is dropped: that joins the thread *)
(* of the web UI, which ends at a signal only.  Otherwise main() builds    *)
(* the next incarnation: a new object, fresh maps.                         *)
Restart ==
  /\ pc = "run" /\ WantsRestart
  /\ IF webui
     THEN pc' = "join" /\ UNCHANGED <<topo, plan, object, bpf, web, lossy>>
     ELSE /\ pc' = "open" /\ bpf' = "off"
          /\ topo' = NoTopo /\ plan' = UniformPlan /\ web' = <<>> /\ lossy' = FALSE
          /\ rodata' = BlankRodata /\ maps' = BlankMaps
          /\ UNCHANGED <<consts, opened>>
  /\ UNCHANGED <<machine, webui>>

(* A CPU goes on- or offline; the last one stays.                          *)
Hotplug(c) ==
  /\ pc \notin {"failed", "join"} /\ seq < MaxSeq
  /\ seq' = seq + 1
  /\ online' = IF c \in online THEN online \ {c} ELSE online \cup {c}
  /\ online' # {}
  /\ bpf' = IF bpf = "attached" THEN "exited" ELSE bpf
  /\ UNCHANGED <<host, pc, topo, plan, object, webui, web, lossy>>

InitStep ==
  \/ Open \/ Discover \/ ReadPrimaries \/ WriteRodata \/ Load
  \/ WritePrimaryBitmap \/ WriteLlcBitmaps \/ WriteLlcCpuLists
  \/ Attach \/ SeedWeb \/ Restart

Next == InitStep \/ \E c \in 0..(host.nr - 1) : Hotplug(c)

(* The main thread keeps running.                                          *)
Spec == Init /\ [][Next]_vars /\ WF_vars(InitStep)

-----------------------------------------------------------------------------
(* The tables are in use.                                                  *)
Live == bpf = "attached"

DomainMates(c) == {d \in online : host.llc[d] = host.llc[c]}
CoreMates(c) == {d \in online : host.core[d] = host.core[c]}

(* The tables an attached scheduler reads describe the CPUs that are       *)
(* online now, or are off by their gates: domain ids tell domains apart, a *)
(* bitmap is empty or exact, only big cores are primaries, and a domain    *)
(* has primaries iff a big core of it is online.                           *)
PlanCurrent ==
  Live =>
    /\ rodata.nr_llcs > 0 =>
         \A c \in online :
           /\ rodata.cpu_llc[c] < rodata.nr_llcs
           /\ {d \in online : rodata.cpu_llc[d] = rodata.cpu_llc[c]} = DomainMates(c)
           /\ maps.llcs[rodata.cpu_llc[c]] \in {{}, DomainMates(c)}
           /\ rodata.cpu_llc[c] \in rodata.has_primary
                <=> rodata.primary_all \/ DomainMates(c) \cap host.big # {}
    /\ ~rodata.primary_all =>
         /\ maps.primary \in {{}, host.big \cap online}
         /\ host.big \cap online \notin {{}, online}

(* With SMT on, a CPU that shares its core with others has one of them for *)
(* a sibling, and a CPU alone on its core has none; off means that no core *)
(* is shared, or that nothing is known.                                    *)
SiblingsPaired ==
  Live =>
    IF rodata.smt_on
    THEN \A c \in online :
           IF CoreMates(c) = {c} THEN rodata.cpu_sibling[c] = c
           ELSE rodata.cpu_sibling[c] \in CoreMates(c) \ {c}
    ELSE ~topo.ok \/ \A c \in online : CoreMates(c) = {c}

(* Whatever lists could be written and whichever domain is too large for   *)
(* one, a CPU that keeps finding nothing probes the queues of every other  *)
(* CPU within a rotation of its window, from any offset.                   *)
StealReachesAll ==
  Live =>
    \A c, d \in online : c # d =>
      \A off \in 0..(host.nr - 1) :
        \E k \in 0..(host.nr - StealScan(host.nr)) :
          d \in Reach(rodata, maps.lists, host.nr, c, (off + k) % host.nr)

(* The wakeups that can occur: no CPU is idle that is offline, and the     *)
(* waker and the previous CPU are not.                                     *)
Waking == {w \in Wakes : w.idle \cup {w.waker, Prev(w)} \subseteq online}

(* Of a machine whose big cores are known and written, an interactive      *)
(* wakeup of Q1 or Q2 claims an efficiency core only when no big core it   *)
(* may use is idle, whatever the gauges say.  A single domain is excepted: *)
(* there the kernel's pick serves the wakeup, which knows no big cores.    *)
InteractiveOnPrimary(w) ==
  Interactive(w) /\ w.queue # 3 /\ ~rodata.primary_all /\ maps.primary # {}
  /\ rodata.nr_llcs # 1 =>
    \A c \in Claims(rodata, maps, w) :
      c \in host.big \/ Claimable(w) \cap host.big = {}

(* With several domains, any other wakeup of Q2 leaves the domain of its   *)
(* waker, if that one is written, only for the core of its previous CPU or *)
(* because no CPU of the domain is idle.                                   *)
StaysInDomain(w) ==
  ~Interactive(w) /\ w.queue = 2 /\ rodata.nr_llcs > 1
  /\ maps.llcs[rodata.cpu_llc[w.waker]] # {} =>
    \A c \in Claims(rodata, maps, w) :
      \/ c \in DomainMates(w.waker) \cup CoreMates(Prev(w))
      \/ Claimable(w) \cap DomainMates(w.waker) = {}

(* So the tables an attached scheduler reads place its wakeups.            *)
WakeupsPlaced ==
  Live => \A w \in Waking : InteractiveOnPrimary(w) /\ StaysInDomain(w)

(* If every size was read, the domain of the placement bias has a larger   *)
(* cache than any other domain with an online CPU.                         *)
BiasOnlyIfLargest ==
  Live /\ ~lossy /\ rodata.llc_largest < rodata.nr_llcs =>
    \E c \in online :
      /\ rodata.cpu_llc[c] = rodata.llc_largest
      /\ \A d \in online \ DomainMates(c) :
           host.size[host.llc[d]] < host.size[host.llc[c]]

(* What the web UI shows of a CPU says the same as the tables that the     *)
(* scheduler reads, although it was discovered later and on its own: the   *)
(* domain of the placement, and a badge on just the CPUs that the wakeup   *)
(* preference pairs with a lower one.  These are the non-primary threads   *)
(* of stats.rs:177 and topology.rs:485; the doc comment at topology.rs:451 *)
(* names the test sibling[i] != i, which badges every thread of a core     *)
(* that is shared, and which the code does not make.                       *)
WebAgrees ==
  Live /\ pc = "run" /\ topo.ok =>
    \A c \in DOMAIN web :
      /\ web[c].llc_id = IF rodata.nr_llcs = 0 THEN 0 ELSE rodata.cpu_llc[c]
      /\ web[c].smt <=> rodata.smt_on /\ rodata.cpu_sibling[c] < c

(* The constants an attached scheduler runs with are the ones its dispatch *)
(* shares, its classification and its adaptation are correct under.        *)
ConstantsServe == Live => Serves(consts)

(* Once CPUs stop coming and going, the daemon ends with its scheduler     *)
(* attached, unless it failed to load or waits for the web UI.             *)
Settles == <>[]((pc = "run" /\ Live) \/ pc = "failed" \/ (pc = "join" /\ webui))

=============================================================================
