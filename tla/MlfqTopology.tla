---------------------------- MODULE MlfqTopology ---------------------------
(***************************************************************************)
(* The topology plans (topology.rs), as functions of what a discovery      *)
(* found, and the steal windows of ops.dispatch that walk the tables these *)
(* plans fill.                                                             *)
(*                                                                         *)
(* A host names every core and every cache domain by a CPU id.  Discovery  *)
(* (scx_utils::Topology) sees the online CPUs only and numbers the cores   *)
(* and domains it meets from zero.  A bitmap and a CPU list are the sets   *)
(* of their CPUs: every order a window can take visits the same set.       *)
(***************************************************************************)
EXTENDS Integers, FiniteSets

CONSTANTS
  MaxCpus,     \* MLFQ_MAX_CPUS, the length of the rodata tables
  MaxLlcs,     \* MLFQ_MAX_LLCS, also the sentinel of an unknown domain
  MaxLlcCpus,  \* MLFQ_MAX_LLC_CPUS, the longest CPU list
  ScanMax      \* MLFQ_STEAL_SCAN_MAX, the widest Tier-B window

ASSUME TopologyAssumption ==
  {MaxCpus, MaxLlcs, MaxLlcCpus, ScanMax} \subseteq Nat \ {0}

CpuIds == 0..(MaxCpus - 1)

Least(S) == CHOOSE x \in S : \A y \in S : x <= y

(* scx_utils: dense numbers for the labels met among the online CPUs.      *)
Dense(label, online) ==
  [c \in online |->
     Cardinality({l \in {label[d] : d \in online} : l < label[c]})]

Discovered(host, online) ==
  [core |-> Dense(host.core, online), llc |-> Dense(host.llc, online)]

-----------------------------------------------------------------------------
(* The plans.                                                              *)

NoPrimaries == [primary_all |-> TRUE, primary_cpus |-> {}]

(* plan_primary_mask: no big core known, or nothing but big cores, is a    *)
(* uniform machine.                                                        *)
PlanPrimaryMask(primaries, nr_online) ==
  IF primaries = {} \/ Cardinality(primaries) >= nr_online
  THEN NoPrimaries
  ELSE [primary_all |-> FALSE, primary_cpus |-> primaries]

NoLlcs == [nr_llcs |-> 0, llc_cpus |-> [k \in {} |-> {}], has_primary |-> {},
           cpu_llc |-> [c \in CpuIds |-> MaxLlcs]]

(* The number of domains of a map from CPUs to dense domain ids.           *)
NrDomains(llc) == Cardinality({llc[c] : c \in DOMAIN llc})

(* plan_llcs: no map, or more domains than the tables hold, disables LLC   *)
(* awareness; a CPU beyond the tables is skipped; every CPU not covered    *)
(* keeps the sentinel.                                                     *)
PlanLlcs(llc, primaries) ==
  IF NrDomains(llc) = 0 \/ NrDomains(llc) > MaxLlcs
  THEN NoLlcs
  ELSE LET members(k) == {c \in DOMAIN llc \cap CpuIds : llc[c] = k}
           domains == 0..(NrDomains(llc) - 1)
       IN  [nr_llcs |-> NrDomains(llc),
            llc_cpus |-> [k \in domains |-> members(k)],
            has_primary |-> {k \in domains : members(k) \cap primaries # {}},
            cpu_llc |-> [c \in CpuIds |->
                           IF c \in DOMAIN llc THEN llc[c] ELSE MaxLlcs]]

Mates(core, c) == {d \in DOMAIN core \cap CpuIds : core[d] = core[c]}

(* The lowest CPU of the core, itself included.                            *)
MutSibling(core, c) == Least(Mates(core, c))

(* The lowest other CPU of the core.                                       *)
Sibling(core, c) ==
  IF Mates(core, c) = {c} THEN c ELSE Least(Mates(core, c) \ {c})

(* plan_sibling_table: a CPU alone on its core, or unknown, is its own     *)
(* sibling, which the BPF side reads as none.                              *)
PlanSiblingTable(core) ==
  LET known == DOMAIN core \cap CpuIds
  IN  [smt_on |-> \E c \in known : Mates(core, c) # {c},
       cpu_sibling |-> [c \in CpuIds |-> IF c \in known THEN Sibling(core, c) ELSE c],
       cpu_core |-> [c \in CpuIds |-> IF c \in known THEN core[c] ELSE MaxCpus]]

(* The first of the largest wins.                                          *)
MutPickLargestLlc(sizes, nr_llcs) ==
  IF nr_llcs < 2 THEN MaxLlcs
  ELSE Least({k \in 0..(nr_llcs - 1) :
                \A j \in 0..(nr_llcs - 1) : sizes[j] <= sizes[k]})

(* pick_largest_llc: at least two domains and one strict winner.           *)
PickLargestLlc(sizes, nr_llcs) ==
  LET domains == 0..(nr_llcs - 1)
      largest == {k \in domains : \A j \in domains : sizes[j] <= sizes[k]}
  IN  IF nr_llcs >= 2 /\ Cardinality(largest) = 1
      THEN Least(largest) ELSE MaxLlcs

(* llc_size_bytes: of the cache entries that could be read, the deepest    *)
(* one whose id is the llc_id, or unknown, or any if llc_id is unknown     *)
(* (here -1); zero if there is none.                                       *)
LlcSizeBytes(entries, llc_id) ==
  LET fits == {e \in entries : llc_id = -1 \/ e.id \in {-1, llc_id}}
      best == CHOOSE e \in fits : \A d \in fits : d.level <= e.level
  IN  IF fits = {} THEN 0 ELSE best.size

BuildBitmap(cpus) == cpus \cap CpuIds

(* A list that is cut to the longest the map value holds.                  *)
MutBuildLlcCpuList(cpus) ==
  {c \in cpus : Cardinality({d \in cpus : d < c}) < MaxLlcCpus}

(* build_llc_cpu_list: a domain that does not fit gets an empty list.      *)
BuildLlcCpuList(cpus) ==
  IF Cardinality(cpus) > MaxLlcCpus THEN {} ELSE cpus \cap CpuIds

-----------------------------------------------------------------------------
(* The steal windows of one slot of ops.dispatch.                          *)

(* mlfq_init clamps the Tier-B window to the number of CPUs.               *)
StealScan(nr) == IF nr < ScanMax THEN nr ELSE ScanMax

(* The own list, if the domain of the CPU is known.                        *)
TierA(t, lists, c) == IF t.cpu_llc[c] < t.nr_llcs THEN lists[t.cpu_llc[c]] ELSE {}

(* An empty list leaves Tier A dead.                                       *)
TierARan(t, lists, c) == TierA(t, lists, c) # {}

(* The rotating window of nr CPUs from off, without the domain Tier A      *)
(* covered.                                                                *)
TierB(t, lists, nr, c, off) ==
  {d \in {(off + i) % nr : i \in 0..(StealScan(nr) - 1)} :
     ~(TierARan(t, lists, c) /\ t.cpu_llc[d] = t.cpu_llc[c])}

(* The CPUs whose queues a slot of CPU c probes when nothing is found      *)
(* before the end of its windows.                                          *)
Reach(t, lists, nr, c, off) ==
  (TierA(t, lists, c)
     \cup IF ~TierARan(t, lists, c) \/ t.nr_llcs # 1
          THEN TierB(t, lists, nr, c, off) ELSE {}) \ {c}

=============================================================================
