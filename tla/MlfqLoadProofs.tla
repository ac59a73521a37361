--------------------------- MODULE MlfqLoadProofs ---------------------------
(***************************************************************************)
(* Proofs about the configuration and the topology tables.                 *)
(***************************************************************************)
EXTENDS MlfqLoad, FiniteSetTheorems, FunctionTheorems, WellFoundedInduction, TLAPS

LEMMA LeastIn ==
  ASSUME NEW S, S \subseteq Nat, S # {}
  PROVE  Least(S) \in S /\ \A y \in S : Least(S) <= y
<1>1. PICK x \in S : \A y \in S : ~(<<y, x>> \in OpToRel(<, Nat))
  BY NatLessThanWellFounded, WFMin
<1>2. ASSUME NEW y \in S PROVE x <= y
  <2>1. <<y, x>> \in Nat \X Nat
    BY <1>1
  <2>2. ~(y < x)
    BY <1>1, <2>1 DEF OpToRel
  <2>3. x \in Nat /\ y \in Nat
    BY <1>1
  <2> QED BY <2>2, <2>3
<1> QED BY <1>1, <1>2 DEF Least

(* How many labels of a set are below one of them.                         *)
Rank(L, l) == Cardinality({m \in L : m < l})

LEMMA RankOrders ==
  ASSUME NEW L, L \subseteq Nat, IsFiniteSet(L), NEW a \in L, NEW b \in Nat, a < b
  PROVE  Rank(L, a) < Rank(L, b)
<1> DEFINE A == {m \in L : m < a}  B == {m \in L : m < b}
<1>1. A \in SUBSET B /\ A # B
  <2>1. \A m \in L : m < a => m < b
    OBVIOUS
  <2>2. a \in B /\ a \notin A
    OBVIOUS
  <2> QED BY <2>1, <2>2
<1>2. IsFiniteSet(B)
  BY FS_Subset
<1>3. Cardinality(A) <= Cardinality(B) /\ (Cardinality(B) = Cardinality(A) => B = A)
  BY <1>1, <1>2, FS_Subset
<1>4. Cardinality(A) \in Nat /\ Cardinality(B) \in Nat
  BY <1>1, <1>2, FS_Subset, FS_CardinalityType
<1> QED BY <1>1, <1>3, <1>4 DEF Rank

LEMMA RankBelow ==
  ASSUME NEW L, L \subseteq Nat, IsFiniteSet(L), NEW a \in L
  PROVE  Rank(L, a) \in Nat /\ Cardinality(L) \in Nat /\ Rank(L, a) < Cardinality(L)
<1> DEFINE A == {m \in L : m < a}
<1>1. A \in SUBSET L /\ a \notin A
  BY a \in Nat
<1>2. IsFiniteSet(A) /\ Cardinality(A) <= Cardinality(L)
      /\ (Cardinality(L) = Cardinality(A) => L = A)
  BY <1>1, FS_Subset
<1>3. Cardinality(A) \in Nat /\ Cardinality(L) \in Nat
  BY <1>2, FS_CardinalityType
<1> QED BY <1>1, <1>2, <1>3 DEF Rank

(* Two functions tell the same elements of a set apart.                    *)
Alike(f, g, on) == \A c, d \in on : f[c] = f[d] <=> g[c] = g[d]

(* What a discovery finds of one kind of label (scx_utils::Topology): the  *)
(* numbers tell the labels apart and are below their count.                *)
LEMMA DenseTells ==
  ASSUME NEW S, S \subseteq Nat, IsFiniteSet(S), NEW label \in [S -> S],
         NEW on, on \subseteq S
  PROVE  /\ Dense(label, on) \in [on -> Nat]
         /\ NrDomains(Dense(label, on)) \in Nat
         /\ \A c \in on : Dense(label, on)[c] < NrDomains(Dense(label, on))
         /\ \A k \in 0..(NrDomains(Dense(label, on)) - 1) :
              \E c \in on : Dense(label, on)[c] = k
         /\ Alike(Dense(label, on), label, on)
<1> DEFINE D == Dense(label, on)
           L == {label[d] : d \in on}
           f == [l \in L |-> Rank(L, l)]
           N == {D[c] : c \in on}
<1>1. L \subseteq S /\ L \subseteq Nat
  OBVIOUS
<1>2. IsFiniteSet(L)
  <2>1. L \in SUBSET S
    BY <1>1
  <2> HIDE DEF L
  <2> QED BY <2>1, FS_Subset
<1>3. D = [c \in on |-> Rank(L, label[c])]
  BY DEF Dense, Rank
<1>4. \A c \in on : D[c] = Rank(L, label[c]) /\ label[c] \in L
  BY <1>3
<1>5. ASSUME NEW a \in L, NEW b \in L, Rank(L, a) = Rank(L, b)
      PROVE  a = b
  <2>1. a \in Nat /\ b \in Nat /\ Rank(L, a) \in Nat /\ Rank(L, b) \in Nat
    <3> HIDE DEF L
    <3> QED BY <1>1, <1>2, RankBelow
  <2> HIDE DEF L
  <2>2. CASE a < b
    <3>1. Rank(L, a) < Rank(L, b)
      BY <1>1, <1>2, <2>1, <2>2, RankOrders
    <3> QED BY <1>5, <2>1, <3>1
  <2>3. CASE b < a
    <3>1. Rank(L, b) < Rank(L, a)
      BY <1>1, <1>2, <2>1, <2>3, RankOrders
    <3> QED BY <1>5, <2>1, <3>1
  <2> QED BY <2>1, <2>2, <2>3
<1>6. N = {Rank(L, l) : l \in L}
  BY <1>4
<1>7. f \in Bijection(L, N)
  <2>1. f \in [L -> N]
    BY <1>6
  <2>2. \A a, b \in L : f[a] = f[b] => a = b
    BY <1>5
  <2>3. \A y \in N : \E a \in L : f[a] = y
    BY <1>6
  <2> HIDE DEF f, N, L
  <2>4. f \in Injection(L, N)
    BY <2>1, <2>2 DEF Injection, IsInjective
  <2>5. f \in Surjection(L, N)
    BY <2>1, <2>3 DEF Surjection
  <2> QED BY <2>4, <2>5 DEF Bijection
<1>8. Cardinality(N) = Cardinality(L)
  BY <1>2, <1>7, FS_Bijection DEF ExistsBijection
<1>9. DOMAIN D = on
  BY <1>3
<1>10. NrDomains(D) = Cardinality(L)
  BY <1>8, <1>9 DEF NrDomains
<1>11. NrDomains(D) \in Nat
  BY <1>2, <1>10, FS_CardinalityType
<1>12. ASSUME NEW c \in on PROVE D[c] \in Nat /\ D[c] < NrDomains(D)
  BY <1>1, <1>2, <1>4, <1>10, RankBelow
<1>13. D \in [on -> Nat]
  BY <1>3, <1>12
<1>14. Alike(D, label, on)
  BY <1>4, <1>5 DEF Alike
<1>15. ASSUME NEW k \in 0..(NrDomains(D) - 1) PROVE \E c \in on : D[c] = k
  <2> DEFINE I == 0..(NrDomains(D) - 1)
  <2>1. N \in SUBSET I
    BY <1>11, <1>12
  <2>2. IsFiniteSet(I) /\ Cardinality(I) = NrDomains(D)
    <3>1. 0 \in Int /\ NrDomains(D) - 1 \in Int
      BY <1>11
    <3> HIDE DEF D
    <3> QED BY <1>11, <3>1, FS_Interval
  <2>3. Cardinality(I) = Cardinality(N)
    BY <1>8, <1>10, <2>2
  <2> HIDE DEF I, N
  <2>4. I = N
    BY <2>1, <2>2, <2>3, FS_Subset
  <2> QED BY <2>4 DEF I, N
<1> HIDE DEF D, L, f, N
<1> QED BY <1>11, <1>12, <1>13, <1>14, <1>15 DEF D

-----------------------------------------------------------------------------
(* The inductive invariant.  A sequence number that is still the one the   *)
(* object was opened with means that the machine is the one the object was *)
(* planned for, at every later step of Scheduler::init; nothing is claimed *)
(* of an object that has a stale number.                                   *)

Wired == {"attach", "seed", "run"}
Mapped == {"list_maps"} \cup Wired
Loaded == {"llc_maps"} \cup Mapped
Filled == {"load", "primary_map"} \cup Loaded
Planned == {"rodata"} \cup Filled
Known == {"primaries"} \cup Planned

FoundInv ==
  IF topo.ok
  THEN topo.core = Dense(host.core, online) /\ topo.llc = Dense(host.llc, online)
  ELSE pc \notin {"primaries", "rodata"} /\ plan = UniformPlan

PlanOf(primaries) ==
  [capacity |-> PlanPrimaryMask(primaries, Cardinality(online)),
   llcs |-> PlanLlcs(Dense(host.llc, online),
                     PlanPrimaryMask(primaries, Cardinality(online)).primary_cpus)]

PlanInv ==
  IF topo.ok THEN \E primaries \in {host.big \cap online, {}} : plan = PlanOf(primaries)
  ELSE plan = UniformPlan

RodataInv ==
  IF topo.ok
  THEN /\ rodata.primary_all = plan.capacity.primary_all
       /\ rodata.nr_llcs = plan.llcs.nr_llcs
       /\ rodata.has_primary = HasPrimary
       /\ rodata.cpu_llc = plan.llcs.cpu_llc
       /\ rodata.smt_on = PlanSiblingTable(topo.core).smt_on
       /\ rodata.cpu_sibling = PlanSiblingTable(topo.core).cpu_sibling
  ELSE rodata = BlankRodata

PrimaryMapInv == maps.primary \in {{}, BuildBitmap(plan.capacity.primary_cpus)}

LlcMapsInv ==
  \A k \in 0..(plan.llcs.nr_llcs - 1) :
    maps.llcs[k] \in {{}, BuildBitmap(plan.llcs.llc_cpus[k])}

(* With every size read, the largest domain is the largest of the plan.    *)
BiasInv ==
  topo.ok /\ ~lossy =>
    rodata.llc_largest = PickLargestLlc(LlcSizes(plan.llcs, {}), plan.llcs.nr_llcs)

ListsInv ==
  \A k \in 0..(plan.llcs.nr_llcs - 1) :
    maps.lists[k] \in {{}, BuildLlcCpuList(plan.llcs.llc_cpus[k])}

(* What the web UI shows of a CPU, once discovered.                        *)
Shown(c) ==
  [smt |-> Badge(Dense(host.core, online), c),
   llc_id |-> LET cpu_llc == PlanLlcs(Dense(host.llc, online), {}).cpu_llc
              IN  IF cpu_llc[c] = MaxLlcs THEN 0 ELSE cpu_llc[c]]

WebInv == web \in {<<>>, [c \in online |-> Shown(c)]}

AlignedInv ==
  /\ pc \in Known => FoundInv
  /\ pc \in Planned => PlanInv
  /\ pc \in Filled => RodataInv /\ BiasInv
  /\ pc \in Loaded => PrimaryMapInv
  /\ pc \in Mapped => LlcMapsInv
  /\ pc \in Wired => ListsInv
  /\ pc = "run" => WebInv

ShapeInv ==
  /\ host \in Hosts /\ online \subseteq 0..(host.nr - 1)
  /\ seq \in Nat \ {0} /\ opened \in 0..seq
  /\ maps = [primary |-> maps.primary, llcs |-> maps.llcs, lists |-> maps.lists]
  /\ DOMAIN maps.llcs = 0..(MaxLlcs - 1)

StageInv ==
  /\ pc \in {"discover"} \cup Known => opened # 0
  /\ pc \in {"discover", "primaries", "rodata"} => rodata = BlankRodata
  /\ pc \in {"discover", "primaries", "rodata", "load", "primary_map"} => maps = BlankMaps
  /\ pc = "llc_maps" => maps.llcs = BlankMaps.llcs
  /\ pc \in {"llc_maps", "list_maps"} => maps.lists = BlankMaps.lists

LiveInv == Live => pc \in {"seed", "run"} /\ opened = seq /\ host.nr <= MaxCpus

IInv == ShapeInv /\ StageInv /\ LiveInv /\ (opened = seq => AlignedInv)

LEMMA HostFacts ==
  ASSUME host \in Hosts
  PROVE  /\ host.nr \in Nat \ {0}
         /\ 0..(host.nr - 1) \subseteq Nat /\ IsFiniteSet(0..(host.nr - 1))
         /\ host.online \subseteq 0..(host.nr - 1)
         /\ host.core \in [0..(host.nr - 1) -> 0..(host.nr - 1)]
         /\ host.llc \in [0..(host.nr - 1) -> 0..(host.nr - 1)]
<1>1. /\ host.nr \in Nat \ {0}
      /\ host.online \subseteq 0..(host.nr - 1)
      /\ host.core \in [0..(host.nr - 1) -> 0..(host.nr - 1)]
      /\ host.llc \in [0..(host.nr - 1) -> 0..(host.nr - 1)]
  BY LoadAssumption DEF LoadAssumption
<1>2. host.nr - 1 \in Int /\ 0..(host.nr - 1) \subseteq Nat
  BY <1>1
<1>3. IsFiniteSet(0..(host.nr - 1))
  BY <1>2, FS_Interval
<1> QED BY <1>1, <1>2, <1>3

(* A discovery of either kind of label on any machine.                     *)
LEMMA HostTells ==
  ASSUME ShapeInv, NEW label \in {host.core, host.llc}
  PROVE  /\ Dense(label, online) \in [online -> Nat]
         /\ NrDomains(Dense(label, online)) \in Nat
         /\ \A c \in online : Dense(label, online)[c] < NrDomains(Dense(label, online))
         /\ \A k \in 0..(NrDomains(Dense(label, online)) - 1) :
              \E c \in online : Dense(label, online)[c] = k
         /\ Alike(Dense(label, online), label, online)
<1> DEFINE S == 0..(host.nr - 1)
<1>1. S \subseteq Nat /\ IsFiniteSet(S) /\ online \subseteq S
      /\ host.core \in [S -> S] /\ host.llc \in [S -> S]
  BY HostFacts DEF ShapeInv
<1> HIDE DEF S
<1>2. label \in [S -> S]
  BY <1>1
<1> QED BY <1>1, <1>2, DenseTells

LEMMA Sizes ==
  MaxCpus \in Nat \ {0} /\ MaxLlcs \in Nat \ {0}
  BY TopologyAssumption DEF TopologyAssumption

(* The domains of a plan fit the maps, and every one has its CPUs.         *)
LEMMA PlanShape ==
  ASSUME ShapeInv, PlanInv
  PROVE  /\ plan.llcs.nr_llcs \in 0..MaxLlcs
         /\ DOMAIN plan.llcs.llc_cpus = 0..(plan.llcs.nr_llcs - 1)
<1>1. CASE topo.ok
  <2>1. NrDomains(Dense(host.llc, online)) \in Nat
    BY HostTells
  <2>2. PICK primaries : plan = PlanOf(primaries)
    BY <1>1 DEF PlanInv
  <2>3. PICK cpus : plan.llcs = PlanLlcs(Dense(host.llc, online), cpus)
    BY <2>2 DEF PlanOf
  <2>4. CASE NrDomains(Dense(host.llc, online)) = 0
             \/ NrDomains(Dense(host.llc, online)) > MaxLlcs
    <3>1. plan.llcs = NoLlcs
      BY <2>3, <2>4 DEF PlanLlcs
    <3> QED BY <3>1, Sizes DEF NoLlcs
  <2>5. CASE ~(NrDomains(Dense(host.llc, online)) = 0
               \/ NrDomains(Dense(host.llc, online)) > MaxLlcs)
    <3>1. plan.llcs.nr_llcs = NrDomains(Dense(host.llc, online))
          /\ DOMAIN plan.llcs.llc_cpus = 0..(NrDomains(Dense(host.llc, online)) - 1)
      BY <2>3, <2>5 DEF PlanLlcs
    <3> QED BY <2>1, <2>5, <3>1, Sizes
  <2> QED BY <2>4, <2>5
<1>2. CASE ~topo.ok
  BY <1>2, Sizes DEF PlanInv, UniformPlan, NoLlcs
<1> QED BY <1>1, <1>2

LEMMA Begin == Init => IInv
<1> SUFFICES ASSUME Init PROVE IInv
  OBVIOUS
<1>1. ShapeInv
  BY HostFacts DEF Init, ShapeInv, BlankMaps
<1>2. pc = "open" /\ opened # seq /\ ~Live
  BY DEF Init, Live
<1> QED BY <1>1, <1>2 DEF IInv, StageInv, LiveInv, Known, Planned, Filled, Loaded,
                          Mapped, Wired

(* A step that leaves all of it alone and goes on to a step that asks for  *)
(* no more.                                                                *)
LEMMA KeepAligned ==
  ASSUME UNCHANGED <<host, online, topo, plan>>
  PROVE  /\ pc' \notin {"primaries", "rodata"} => (FoundInv => FoundInv')
         /\ PlanInv => PlanInv'
         /\ (UNCHANGED rodata) => (RodataInv => RodataInv')
         /\ (UNCHANGED maps) => (PrimaryMapInv => PrimaryMapInv')
         /\ (UNCHANGED maps) => (LlcMapsInv => LlcMapsInv')
         /\ (UNCHANGED <<rodata, lossy>>) => (BiasInv => BiasInv')
         /\ (UNCHANGED maps) => (ListsInv => ListsInv')
         /\ (UNCHANGED web) => (WebInv => WebInv')
<1>1. pc' \notin {"primaries", "rodata"} => (FoundInv => FoundInv')
  BY DEF FoundInv
<1>2. PlanInv => PlanInv'
  BY DEF PlanInv, PlanOf
<1>3. (UNCHANGED rodata) => (RodataInv => RodataInv')
  BY DEF RodataInv, HasPrimary
<1>4. (UNCHANGED maps) => (PrimaryMapInv => PrimaryMapInv')
  BY DEF PrimaryMapInv
<1>5. (UNCHANGED maps) => (LlcMapsInv => LlcMapsInv')
  BY DEF LlcMapsInv
<1>6. (UNCHANGED <<rodata, lossy>>) => (BiasInv => BiasInv')
  <2>1. LlcSizes(plan.llcs, {})' = LlcSizes(plan.llcs, {})
    BY DEF LlcSizes, CacheOf
  <2> QED BY <2>1 DEF BiasInv
<1>7. (UNCHANGED maps) => (ListsInv => ListsInv')
  BY DEF ListsInv
<1>8. (UNCHANGED web) => (WebInv => WebInv')
  BY DEF WebInv, Shown
<1> QED BY <1>1, <1>2, <1>3, <1>4, <1>5, <1>6, <1>7, <1>8

-----------------------------------------------------------------------------
(* One lemma per action.                                                   *)

LEMMA OpenStep == ASSUME IInv, Open PROVE IInv'
<1>1. ShapeInv'
  BY Sizes DEF IInv, ShapeInv, Open, SeqAtOpen, machine, BlankMaps
<1>2. StageInv'
  BY DEF IInv, ShapeInv, StageInv, Open, SeqAtOpen, machine, Known, Planned, Filled, Loaded, Mapped, Wired
<1>3. LiveInv'
  BY DEF IInv, LiveInv, Live, Open, Known, Planned, Filled, Loaded, Mapped, Wired
<1>4. AlignedInv'
  BY DEF Open, AlignedInv, Known, Planned, Filled, Loaded, Mapped, Wired
<1> QED BY <1>1, <1>2, <1>3, <1>4 DEF IInv

LEMMA DiscoverStep == ASSUME IInv, Discover PROVE IInv'
<1>1. ShapeInv'
  BY DEF IInv, ShapeInv, Discover, machine, object
<1>2. StageInv'
  BY DEF IInv, StageInv, Discover, machine, object, Known, Planned, Filled, Loaded, Mapped, Wired
<1>3. LiveInv'
  BY DEF IInv, LiveInv, Live, Discover, Known, Planned, Filled, Loaded, Mapped, Wired
<1>4. AlignedInv'
  <2>1. CASE topo'.ok /\ pc' = "primaries"
             /\ topo'.core = Dense(host.core, online) /\ topo'.llc = Dense(host.llc, online)
    <3>1. FoundInv'
      BY <2>1 DEF FoundInv, Discover, machine
    <3> QED BY <2>1, <3>1 DEF AlignedInv, Known, Planned, Filled, Loaded, Mapped, Wired
  <2>2. CASE topo' = NoTopo /\ pc' = "load"
    <3>1. plan' = UniformPlan /\ ~topo'.ok /\ rodata' = BlankRodata
      BY <2>2 DEF Discover, NoTopo, object, IInv, StageInv
    <3>2. FoundInv' /\ PlanInv' /\ RodataInv' /\ BiasInv'
      BY <2>2, <3>1 DEF FoundInv, PlanInv, RodataInv, BiasInv
    <3> QED BY <2>2, <3>2 DEF AlignedInv, Known, Planned, Filled, Loaded, Mapped, Wired
  <2> QED BY <2>1, <2>2 DEF Discover, Discovered
<1> QED BY <1>1, <1>2, <1>3, <1>4 DEF IInv

LEMMA ReadPrimariesStep == ASSUME IInv, ReadPrimaries PROVE IInv'
<1>1. ShapeInv'
  BY DEF IInv, ShapeInv, ReadPrimaries, machine, object
<1>2. StageInv'
  BY DEF IInv, StageInv, ReadPrimaries, machine, object, Known, Planned, Filled, Loaded, Mapped, Wired
<1>3. LiveInv'
  BY DEF IInv, LiveInv, Live, ReadPrimaries, Known, Planned, Filled, Loaded, Mapped, Wired
<1>4. ASSUME opened' = seq' PROVE AlignedInv'
  <2>1. FoundInv /\ topo.ok
    BY <1>4 DEF IInv, AlignedInv, FoundInv, ReadPrimaries, machine, object, Known, Planned, Filled, Loaded, Mapped, Wired
  <2>2. topo.llc = Dense(host.llc, online) /\ DOMAIN topo.llc = online
    BY <2>1 DEF FoundInv, Dense
  <2>3. FoundInv'
    BY <2>1 DEF FoundInv, ReadPrimaries, machine
  <2>4. PlanInv'
    <3>1. PICK primaries \in {host.big \cap online, {}} : plan' = PlanOf(primaries)
      BY <2>2 DEF ReadPrimaries, PlanOf
    <3>2. UNCHANGED <<host, online, topo>>
      BY DEF ReadPrimaries, machine
    <3> QED BY <2>1, <3>1, <3>2 DEF PlanInv, PlanOf
  <2> QED BY <2>3, <2>4 DEF AlignedInv, ReadPrimaries, Known, Planned, Filled, Loaded, Mapped, Wired
<1> QED BY <1>1, <1>2, <1>3, <1>4 DEF IInv

LEMMA WriteRodataStep == ASSUME IInv, WriteRodata PROVE IInv'
<1>1. ShapeInv'
  BY DEF IInv, ShapeInv, WriteRodata, machine
<1>2. StageInv'
  BY DEF IInv, StageInv, WriteRodata, machine, Known, Planned, Filled, Loaded, Mapped, Wired
<1>3. LiveInv'
  BY DEF IInv, LiveInv, Live, WriteRodata, Known, Planned, Filled, Loaded, Mapped, Wired
<1>4. ASSUME opened' = seq' PROVE AlignedInv'
  <2>1. FoundInv /\ PlanInv
    BY <1>4 DEF IInv, AlignedInv, WriteRodata, machine, Known, Planned, Filled, Loaded, Mapped, Wired
  <2>2. FoundInv' /\ PlanInv'
    BY <2>1, KeepAligned DEF WriteRodata, machine
  <2>3. topo.ok
    BY <2>1 DEF FoundInv, WriteRodata
  <2>4. RodataInv'
    BY <2>3 DEF RodataInv, WriteRodata, HasPrimary
  <2>5. BiasInv'
    <3>1. PICK lost : /\ rodata'.llc_largest = PickLargestLlc(LlcSizes(plan.llcs, lost),
                                                           plan.llcs.nr_llcs)
                      /\ lossy' = (lost # {})
      BY DEF WriteRodata
    <3>2. UNCHANGED <<host, plan, topo>>
      BY DEF WriteRodata, machine
    <3> QED BY <3>1, <3>2 DEF BiasInv, LlcSizes, CacheOf
  <2> QED BY <2>2, <2>4, <2>5 DEF AlignedInv, WriteRodata, Known, Planned, Filled, Loaded, Mapped, Wired
<1> QED BY <1>1, <1>2, <1>3, <1>4 DEF IInv

LEMMA LoadStep == ASSUME IInv, Load PROVE IInv'
<1>1. ShapeInv'
  BY DEF IInv, ShapeInv, Load, machine, object
<1>2. StageInv'
  BY DEF IInv, StageInv, Load, machine, object, Known, Planned, Filled, Loaded, Mapped, Wired
<1>3. LiveInv'
  BY DEF IInv, LiveInv, Live, Load, machine, object, Known, Planned, Filled, Loaded, Mapped, Wired
<1>4. ASSUME opened' = seq' PROVE AlignedInv'
  BY <1>4, KeepAligned DEF IInv, AlignedInv, Load, machine, object, Known, Planned, Filled, Loaded, Mapped, Wired
<1> QED BY <1>1, <1>2, <1>3, <1>4 DEF IInv

LEMMA WritePrimaryBitmapStep == ASSUME IInv, WritePrimaryBitmap PROVE IInv'
<1>1. ShapeInv'
  BY DEF IInv, ShapeInv, WritePrimaryBitmap, machine
<1>2. StageInv'
  BY DEF IInv, StageInv, WritePrimaryBitmap, machine, BlankMaps, Known, Planned, Filled, Loaded, Mapped, Wired
<1>3. LiveInv'
  BY DEF IInv, LiveInv, Live, WritePrimaryBitmap, machine, Known, Planned, Filled, Loaded, Mapped, Wired
<1>4. ASSUME opened' = seq' PROVE AlignedInv'
  <2>1. FoundInv /\ PlanInv /\ RodataInv /\ BiasInv /\ maps = BlankMaps
    BY <1>4 DEF IInv, AlignedInv, StageInv, WritePrimaryBitmap, machine, Known, Planned, Filled, Loaded, Mapped, Wired
  <2>2. FoundInv' /\ PlanInv' /\ RodataInv' /\ BiasInv'
    BY <2>1, KeepAligned DEF WritePrimaryBitmap, machine
  <2>3. PrimaryMapInv'
    BY <2>1 DEF PrimaryMapInv, WritePrimaryBitmap, BlankMaps
  <2> QED BY <2>2, <2>3 DEF AlignedInv, WritePrimaryBitmap, Known, Planned, Filled, Loaded, Mapped, Wired
<1> QED BY <1>1, <1>2, <1>3, <1>4 DEF IInv

LEMMA WriteLlcBitmapsStep == ASSUME IInv, WriteLlcBitmaps PROVE IInv'
<1>1. ShapeInv'
  BY DEF IInv, ShapeInv, WriteLlcBitmaps, machine, Written
<1>2. StageInv'
  BY DEF IInv, StageInv, WriteLlcBitmaps, machine, Known, Planned, Filled, Loaded, Mapped, Wired
<1>3. LiveInv'
  BY DEF IInv, LiveInv, Live, WriteLlcBitmaps, machine, Known, Planned, Filled, Loaded, Mapped, Wired
<1>4. ASSUME opened' = seq' PROVE AlignedInv'
  <2>1. /\ FoundInv /\ PlanInv /\ RodataInv /\ BiasInv /\ PrimaryMapInv
        /\ maps.llcs = BlankMaps.llcs
    BY <1>4 DEF IInv, AlignedInv, StageInv, WriteLlcBitmaps, machine, Known, Planned, Filled, Loaded, Mapped, Wired
  <2>2. FoundInv' /\ PlanInv' /\ RodataInv' /\ BiasInv'
    BY <2>1, KeepAligned DEF WriteLlcBitmaps, machine
  <2>3. PrimaryMapInv'
    BY <2>1 DEF PrimaryMapInv, WriteLlcBitmaps, IInv, ShapeInv
  <2>4. LlcMapsInv'
    <3>1. plan.llcs.nr_llcs \in 0..MaxLlcs
          /\ DOMAIN plan.llcs.llc_cpus = 0..(plan.llcs.nr_llcs - 1)
      BY <2>1, PlanShape DEF IInv
    <3> DEFINE bitmaps == [k \in DOMAIN plan.llcs.llc_cpus |-> BuildBitmap(plan.llcs.llc_cpus[k])]
    <3>2. PICK nr \in 0..plan.llcs.nr_llcs : maps'.llcs = Written(maps.llcs, bitmaps, nr)
      BY DEF WriteLlcBitmaps, IInv, ShapeInv
    <3>3. ASSUME NEW k \in 0..(plan.llcs.nr_llcs - 1)
          PROVE  maps'.llcs[k] \in {{}, BuildBitmap(plan.llcs.llc_cpus[k])}
      <4>1. k \in 0..(MaxLlcs - 1)
        BY <3>1, Sizes
      <4>2. bitmaps[k] = BuildBitmap(plan.llcs.llc_cpus[k])
        BY <3>1
      <4>3. maps'.llcs[k] \in {maps.llcs[k], bitmaps[k]}
        <5> HIDE DEF bitmaps
        <5> QED BY <3>2, <4>1 DEF Written, IInv, ShapeInv
      <4> QED BY <2>1, <4>1, <4>2, <4>3 DEF BlankMaps
    <3> QED BY <3>3 DEF LlcMapsInv, WriteLlcBitmaps
  <2> QED BY <2>2, <2>3, <2>4 DEF AlignedInv, WriteLlcBitmaps, Known, Planned, Filled, Loaded, Mapped, Wired
<1> QED BY <1>1, <1>2, <1>3, <1>4 DEF IInv

LEMMA WriteLlcCpuListsStep == ASSUME IInv, WriteLlcCpuLists PROVE IInv'
<1>1. ShapeInv'
  BY DEF IInv, ShapeInv, WriteLlcCpuLists, machine
<1>2. StageInv'
  BY DEF IInv, StageInv, WriteLlcCpuLists, machine, Known, Planned, Filled, Loaded, Mapped, Wired
<1>3. LiveInv'
  BY DEF IInv, LiveInv, Live, WriteLlcCpuLists, machine, Known, Planned, Filled, Loaded, Mapped, Wired
<1>4. ASSUME opened' = seq' PROVE AlignedInv'
  <2>1. /\ FoundInv /\ PlanInv /\ RodataInv /\ BiasInv /\ PrimaryMapInv /\ LlcMapsInv
        /\ maps.lists = BlankMaps.lists
    BY <1>4 DEF IInv, AlignedInv, StageInv, WriteLlcCpuLists, machine, Known, Planned, Filled, Loaded, Mapped, Wired
  <2>2. FoundInv' /\ PlanInv' /\ RodataInv' /\ BiasInv'
    BY <2>1, KeepAligned DEF WriteLlcCpuLists, machine
  <2>3. maps'.primary = maps.primary /\ maps'.llcs = maps.llcs /\ plan' = plan
    BY DEF WriteLlcCpuLists, IInv, ShapeInv
  <2>4. PrimaryMapInv' /\ LlcMapsInv'
    BY <2>1, <2>3 DEF PrimaryMapInv, LlcMapsInv
  <2>5. ListsInv'
    <3>1. plan.llcs.nr_llcs \in 0..MaxLlcs
          /\ DOMAIN plan.llcs.llc_cpus = 0..(plan.llcs.nr_llcs - 1)
      BY <2>1, PlanShape DEF IInv
    <3> DEFINE lists == [k \in DOMAIN plan.llcs.llc_cpus |->
                          BuildLlcCpuList(plan.llcs.llc_cpus[k])]
    <3>2. PICK nr \in 0..plan.llcs.nr_llcs : maps'.lists = Written(maps.lists, lists, nr)
      BY DEF WriteLlcCpuLists, IInv, ShapeInv
    <3>3. ASSUME NEW k \in 0..(plan.llcs.nr_llcs - 1)
          PROVE  maps'.lists[k] \in {{}, BuildLlcCpuList(plan.llcs.llc_cpus[k])}
      <4>1. k \in 0..(MaxLlcs - 1) /\ DOMAIN maps.lists = 0..(MaxLlcs - 1)
        BY <2>1, <3>1, Sizes DEF BlankMaps
      <4>2. lists[k] = BuildLlcCpuList(plan.llcs.llc_cpus[k])
        BY <3>1
      <4>3. maps'.lists[k] \in {maps.lists[k], lists[k]}
        <5> HIDE DEF lists
        <5> QED BY <3>2, <4>1 DEF Written
      <4> QED BY <2>1, <4>1, <4>2, <4>3 DEF BlankMaps
    <3> QED BY <2>3, <3>3 DEF ListsInv
  <2> QED BY <2>2, <2>4, <2>5 DEF AlignedInv, WriteLlcCpuLists, Known, Planned, Filled, Loaded, Mapped, Wired
<1> QED BY <1>1, <1>2, <1>3, <1>4 DEF IInv

LEMMA AttachStep == ASSUME IInv, Attach PROVE IInv'
<1>1. ShapeInv'
  BY DEF IInv, ShapeInv, Attach, machine, object
<1>2. StageInv'
  BY DEF IInv, StageInv, Attach, machine, object, Known, Planned, Filled, Loaded, Mapped, Wired
<1>3. LiveInv'
  BY HostFacts, Sizes DEF IInv, ShapeInv, StageInv, LiveInv, Live, Attach, machine, object, Known, Planned, Filled, Loaded, Mapped, Wired
<1>4. ASSUME opened' = seq' PROVE AlignedInv'
  BY <1>4, KeepAligned DEF IInv, AlignedInv, Attach, machine, object, Known, Planned, Filled, Loaded, Mapped, Wired
<1> QED BY <1>1, <1>2, <1>3, <1>4 DEF IInv

LEMMA SeedWebStep == ASSUME IInv, SeedWeb PROVE IInv'
<1>1. ShapeInv'
  BY DEF IInv, ShapeInv, SeedWeb, machine, object
<1>2. StageInv'
  BY DEF IInv, StageInv, SeedWeb, machine, object, Known, Planned, Filled, Loaded, Mapped, Wired
<1>3. LiveInv'
  BY DEF IInv, LiveInv, Live, SeedWeb, machine, object, Known, Planned, Filled, Loaded, Mapped, Wired
<1>4. ASSUME opened' = seq' PROVE AlignedInv'
  <2>1. /\ FoundInv /\ PlanInv /\ RodataInv /\ BiasInv /\ PrimaryMapInv /\ LlcMapsInv
        /\ ListsInv
    BY <1>4 DEF IInv, AlignedInv, SeedWeb, machine, object, Known, Planned, Filled, Loaded, Mapped, Wired
  <2>2. UNCHANGED <<host, online, topo, plan, rodata, lossy, maps>> /\ pc' = "run"
    BY DEF SeedWeb, machine, object
  <2>3. /\ FoundInv' /\ PlanInv' /\ RodataInv' /\ BiasInv' /\ PrimaryMapInv' /\ LlcMapsInv'
        /\ ListsInv'
    BY <2>1, <2>2, KeepAligned
  <2>4. WebInv'
    BY <2>2 DEF WebInv, Shown, SeedWeb, Discovered
  <2> QED BY <2>2, <2>3, <2>4 DEF AlignedInv
<1> QED BY <1>1, <1>2, <1>3, <1>4 DEF IInv

LEMMA RestartStep == ASSUME IInv, Restart PROVE IInv'
<1>1. ShapeInv'
  BY DEF IInv, ShapeInv, Restart, machine, object, BlankMaps
<1>2. StageInv'
  BY DEF StageInv, Restart, Known, Planned, Filled, Loaded, Mapped, Wired
<1>3. LiveInv'
  BY DEF LiveInv, Live, Restart, WantsRestart
<1>4. AlignedInv'
  BY DEF AlignedInv, Restart, Known, Planned, Filled, Loaded, Mapped, Wired
<1> QED BY <1>1, <1>2, <1>3, <1>4 DEF IInv

LEMMA HotplugStep ==
  ASSUME IInv, NEW c \in 0..(host.nr - 1), Hotplug(c) PROVE IInv'
<1>1. ShapeInv'
  BY DEF IInv, ShapeInv, Hotplug, object
<1>2. StageInv'
  BY DEF IInv, StageInv, Hotplug, object
<1>3. LiveInv'
  BY DEF LiveInv, Live, Hotplug
<1>4. opened' # seq'
  BY DEF IInv, ShapeInv, Hotplug, object
<1> QED BY <1>1, <1>2, <1>3, <1>4 DEF IInv

LEMMA StutterStep == ASSUME IInv, UNCHANGED vars PROVE IInv'
<1>1. UNCHANGED <<host, online, seq, pc, topo, plan, rodata, maps, opened, bpf, web, lossy>>
  BY DEF vars, machine, object
<1>2. ShapeInv' /\ StageInv' /\ LiveInv'
  BY <1>1 DEF IInv, ShapeInv, StageInv, LiveInv, Live
<1>3. ASSUME AlignedInv PROVE AlignedInv'
  <2>1. FoundInv => FoundInv'
    BY <1>1 DEF FoundInv
  <2> QED BY <1>1, <1>3, <2>1, KeepAligned DEF AlignedInv
<1> QED BY <1>1, <1>2, <1>3 DEF IInv

THEOREM Invariance == Spec => []IInv
<1>1. ASSUME IInv, [Next]_vars PROVE IInv'
  <2>1. ASSUME InitStep PROVE IInv'
    BY <1>1, <2>1, OpenStep, DiscoverStep, ReadPrimariesStep, WriteRodataStep, LoadStep,
       WritePrimaryBitmapStep, WriteLlcBitmapsStep, WriteLlcCpuListsStep, AttachStep,
       SeedWebStep, RestartStep DEF InitStep
  <2>2. ASSUME NEW c \in 0..(host.nr - 1), Hotplug(c) PROVE IInv'
    BY <1>1, <2>2, HotplugStep
  <2> QED BY <1>1, <2>1, <2>2, StutterStep DEF Next
<1> QED BY <1>1, Begin, PTL DEF Spec

-----------------------------------------------------------------------------
(* What the tables say while they are in use.                              *)

LEMMA LiveFacts ==
  ASSUME IInv, Live
  PROVE  /\ ShapeInv /\ host.nr <= MaxCpus /\ online \subseteq CpuIds
         /\ FoundInv /\ PlanInv /\ RodataInv /\ PrimaryMapInv /\ LlcMapsInv
         /\ BiasInv /\ ListsInv /\ (pc = "run" => WebInv)
<1>1. online \subseteq CpuIds
  BY HostFacts, Sizes DEF IInv, ShapeInv, LiveInv, CpuIds
<1> QED BY <1>1 DEF IInv, LiveInv, AlignedInv, Known, Planned, Filled, Loaded, Mapped, Wired

LEMMA OnlineFinite ==
  ASSUME ShapeInv
  PROVE  IsFiniteSet(online) /\ Cardinality(online) \in Nat
<1> DEFINE S == 0..(host.nr - 1)
<1>1. online \in SUBSET S /\ IsFiniteSet(S)
  BY HostFacts DEF ShapeInv
<1> HIDE DEF S
<1> QED BY <1>1, FS_Subset, FS_CardinalityType

(* A plan with primaries has the big cores that are online, and not every  *)
(* CPU is one.                                                             *)
LEMMA PrimariesCurrent ==
  ASSUME ShapeInv, topo.ok, PlanInv, ~plan.capacity.primary_all
  PROVE  /\ plan.capacity.primary_cpus = host.big \cap online
         /\ host.big \cap online \notin {{}, online}
<1>1. PICK primaries \in {host.big \cap online, {}} : plan = PlanOf(primaries)
  BY DEF PlanInv
<1>2. plan.capacity = PlanPrimaryMask(primaries, Cardinality(online))
  BY <1>1 DEF PlanOf
<1>3. /\ primaries # {} /\ ~(Cardinality(primaries) >= Cardinality(online))
      /\ plan.capacity.primary_cpus = primaries
  BY <1>2 DEF PlanPrimaryMask, NoPrimaries
<1>4. primaries # online
  BY <1>3, OnlineFinite
<1> QED BY <1>1, <1>3, <1>4

(* The domains of a plan are those of the machine.                         *)
LEMMA DomainsCurrent ==
  ASSUME ShapeInv, online \subseteq CpuIds, topo.ok, PlanInv, plan.llcs.nr_llcs > 0,
         NEW c \in online
  PROVE  LET k == plan.llcs.cpu_llc[c]
         IN  /\ k \in 0..(plan.llcs.nr_llcs - 1) /\ plan.llcs.nr_llcs <= MaxLlcs
             /\ {d \in online : plan.llcs.cpu_llc[d] = k} = DomainMates(c)
             /\ plan.llcs.llc_cpus[k] = DomainMates(c)
             /\ k \in plan.llcs.has_primary
                  <=> DomainMates(c) \cap plan.capacity.primary_cpus # {}
<1> DEFINE D == Dense(host.llc, online)
<1>1. D \in [online -> Nat] /\ NrDomains(D) \in Nat
      /\ (\A d \in online : D[d] < NrDomains(D))
      /\ Alike(D, host.llc, online)
  BY HostTells
<1> HIDE DEF D
<1>2. PICK primaries : plan = PlanOf(primaries)
  BY DEF PlanInv
<1>3. plan.llcs = PlanLlcs(D, plan.capacity.primary_cpus)
  BY <1>2 DEF PlanOf, D
<1>4. ~(NrDomains(D) = 0 \/ NrDomains(D) > MaxLlcs)
  BY <1>3 DEF PlanLlcs, NoLlcs
<1> DEFINE members(k) == {d \in DOMAIN D \cap CpuIds : D[d] = k}
<1>5. /\ plan.llcs.nr_llcs = NrDomains(D)
      /\ plan.llcs.llc_cpus = [k \in 0..(NrDomains(D) - 1) |-> members(k)]
      /\ plan.llcs.has_primary =
           {k \in 0..(NrDomains(D) - 1) : members(k) \cap plan.capacity.primary_cpus # {}}
      /\ plan.llcs.cpu_llc = [d \in CpuIds |-> IF d \in DOMAIN D THEN D[d] ELSE MaxLlcs]
  BY <1>3, <1>4 DEF PlanLlcs
<1>6. \A d \in online : plan.llcs.cpu_llc[d] = D[d]
  BY <1>1, <1>5
<1>7. members(D[c]) = DomainMates(c)
  BY <1>1 DEF DomainMates, Alike
<1>8. D[c] \in 0..(NrDomains(D) - 1)
  BY <1>1
<1>9. {d \in online : plan.llcs.cpu_llc[d] = D[c]} = DomainMates(c)
  BY <1>1, <1>6 DEF DomainMates, Alike
<1>10. plan.llcs.llc_cpus[D[c]] = DomainMates(c)
       /\ (D[c] \in plan.llcs.has_primary
             <=> DomainMates(c) \cap plan.capacity.primary_cpus # {})
  <2> HIDE DEF members
  <2> QED BY <1>5, <1>7, <1>8
<1>11. NrDomains(D) <= MaxLlcs
  BY <1>1, <1>4, Sizes
<1> HIDE DEF members
<1> QED BY <1>5, <1>6, <1>8, <1>9, <1>10, <1>11

(* The tables an attached scheduler reads describe the machine as it is    *)
(* (init_topology, the write_ functions): no hotplug between any two steps *)
(* of Scheduler::init, and no map write that failed, leaves a stale one.   *)
THEOREM PlansCurrent == Spec => []PlanCurrent
<1>1. ASSUME IInv PROVE PlanCurrent
  <2> SUFFICES ASSUME Live
               PROVE  /\ rodata.nr_llcs > 0 =>
                           \A c \in online :
                             /\ rodata.cpu_llc[c] < rodata.nr_llcs
                             /\ {d \in online : rodata.cpu_llc[d] = rodata.cpu_llc[c]}
                                  = DomainMates(c)
                             /\ maps.llcs[rodata.cpu_llc[c]] \in {{}, DomainMates(c)}
                             /\ rodata.cpu_llc[c] \in rodata.has_primary
                                  <=> rodata.primary_all \/ DomainMates(c) \cap host.big # {}
                      /\ ~rodata.primary_all =>
                           /\ maps.primary \in {{}, host.big \cap online}
                           /\ host.big \cap online \notin {{}, online}
    BY DEF PlanCurrent
  <2>1. /\ ShapeInv /\ online \subseteq CpuIds
        /\ FoundInv /\ PlanInv /\ RodataInv /\ PrimaryMapInv /\ LlcMapsInv
    BY <1>1, LiveFacts
  <2>2. CASE ~topo.ok
    BY <2>1, <2>2 DEF RodataInv, BlankRodata
  <2>3. CASE topo.ok
    <3>1. /\ rodata.primary_all = plan.capacity.primary_all
          /\ rodata.nr_llcs = plan.llcs.nr_llcs
          /\ rodata.has_primary = HasPrimary
          /\ rodata.cpu_llc = plan.llcs.cpu_llc
      BY <2>1, <2>3 DEF RodataInv
    <3>2. ASSUME ~rodata.primary_all
          PROVE  /\ maps.primary \in {{}, host.big \cap online}
                 /\ host.big \cap online \notin {{}, online}
                 /\ plan.capacity.primary_cpus = host.big \cap online
      BY <2>1, <2>3, <3>1, <3>2, PrimariesCurrent DEF PrimaryMapInv, BuildBitmap
    <3>3. ASSUME rodata.nr_llcs > 0, NEW c \in online
          PROVE  /\ rodata.cpu_llc[c] < rodata.nr_llcs
                 /\ {d \in online : rodata.cpu_llc[d] = rodata.cpu_llc[c]} = DomainMates(c)
                 /\ maps.llcs[rodata.cpu_llc[c]] \in {{}, DomainMates(c)}
                 /\ rodata.cpu_llc[c] \in rodata.has_primary
                      <=> rodata.primary_all \/ DomainMates(c) \cap host.big # {}
      <4> DEFINE k == plan.llcs.cpu_llc[c]
      <4>1. /\ k \in 0..(plan.llcs.nr_llcs - 1) /\ plan.llcs.nr_llcs <= MaxLlcs
            /\ {d \in online : plan.llcs.cpu_llc[d] = k} = DomainMates(c)
            /\ plan.llcs.llc_cpus[k] = DomainMates(c)
            /\ k \in plan.llcs.has_primary
                 <=> DomainMates(c) \cap plan.capacity.primary_cpus # {}
        BY <2>1, <2>3, <3>1, <3>3, DomainsCurrent
      <4>2. rodata.cpu_llc[c] = k
        BY <3>1
      <4>3. plan.llcs.nr_llcs \in 0..MaxLlcs
        BY <2>1, PlanShape
      <4> HIDE DEF k
      <4>4. k < rodata.nr_llcs
        BY <3>1, <4>1, <4>3, Sizes
      <4>5. maps.llcs[k] \in {{}, DomainMates(c)}
        <5>1. BuildBitmap(DomainMates(c)) = DomainMates(c)
          BY <2>1 DEF BuildBitmap, DomainMates
        <5> QED BY <2>1, <4>1, <5>1 DEF LlcMapsInv
      <4>6. k \in rodata.has_primary
             <=> rodata.primary_all \/ DomainMates(c) \cap host.big # {}
        <5>1. CASE rodata.primary_all
          <6>1. k \in 0..(MaxLlcs - 1)
            BY <4>1, <4>3, Sizes
          <6> QED BY <3>1, <5>1, <6>1 DEF HasPrimary
        <5>2. CASE ~rodata.primary_all
          <6>1. rodata.has_primary = plan.llcs.has_primary
            BY <3>1, <5>2 DEF HasPrimary
          <6>2. DomainMates(c) \cap (host.big \cap online) = DomainMates(c) \cap host.big
            BY DEF DomainMates
          <6> QED BY <3>2, <4>1, <5>2, <6>1, <6>2
        <5> QED BY <5>1, <5>2
      <4> QED BY <3>1, <4>1, <4>2, <4>4, <4>5, <4>6
    <3> QED BY <3>2, <3>3
  <2> QED BY <2>2, <2>3
<1> QED BY <1>1, Invariance, PTL

(* What a discovery of the cores says of the threads: it finds the mates   *)
(* of a CPU, and each CPU among its own.                                   *)
LEMMA CoresCurrent ==
  ASSUME ShapeInv, online \subseteq CpuIds
  PROVE  /\ DOMAIN Dense(host.core, online) = online
         /\ \A c \in online :
              /\ Mates(Dense(host.core, online), c) = CoreMates(c)
              /\ {d \in online : Dense(host.core, online)[d] = Dense(host.core, online)[c]}
                   = CoreMates(c)
              /\ c \in CoreMates(c)
<1> DEFINE core == Dense(host.core, online)
<1>1. core \in [online -> Nat] /\ Alike(core, host.core, online)
  BY HostTells
<1> HIDE DEF core
<1>2. DOMAIN core = online /\ DOMAIN core \cap CpuIds = online
  BY <1>1
<1>3. \A c \in online : Mates(core, c) = CoreMates(c) /\ c \in CoreMates(c)
                        /\ {d \in online : core[d] = core[c]} = CoreMates(c)
  BY <1>1, <1>2 DEF Mates, CoreMates, Alike
<1> QED BY <1>2, <1>3 DEF core

(* The gate of the sibling table is open iff a core is shared.             *)
LEMMA SmtCurrent ==
  ASSUME ShapeInv, online \subseteq CpuIds, FoundInv, RodataInv, topo.ok
  PROVE  rodata.smt_on <=> \E c \in online : CoreMates(c) # {c}
<1> DEFINE core == Dense(host.core, online)
<1>1. DOMAIN core = online /\ \A c \in online : Mates(core, c) = CoreMates(c)
  BY CoresCurrent
<1>2. topo.core = core
  BY DEF FoundInv
<1> HIDE DEF core
<1>3. rodata.smt_on = PlanSiblingTable(core).smt_on
  BY <1>2 DEF RodataInv
<1>4. PlanSiblingTable(core).smt_on <=> \E c \in online : Mates(core, c) # {c}
  BY <1>1 DEF PlanSiblingTable
<1> QED BY <1>1, <1>3, <1>4

(* The sibling of a CPU in the table is the lowest of its other mates.     *)
LEMMA SiblingOf ==
  ASSUME ShapeInv, online \subseteq CpuIds, FoundInv, RodataInv, topo.ok,
         NEW c \in online
  PROVE  rodata.cpu_sibling[c] =
           IF CoreMates(c) = {c} THEN c ELSE Least(CoreMates(c) \ {c})
<1> DEFINE core == Dense(host.core, online)
<1>1. DOMAIN core = online /\ Mates(core, c) = CoreMates(c)
  BY CoresCurrent
<1>2. topo.core = core
  BY DEF FoundInv
<1> HIDE DEF core
<1>3. rodata.cpu_sibling =
        [d \in CpuIds |-> IF d \in online THEN Sibling(core, d) ELSE d]
  BY <1>1, <1>2 DEF RodataInv, PlanSiblingTable
<1> QED BY <1>1, <1>3 DEF Sibling

(* The sibling table pairs the threads of a core that are online           *)
(* (plan_sibling_table): with SMT on nobody is paired with a CPU of        *)
(* another core, one that is gone, or itself although it has a mate.       *)
THEOREM ThreadsPaired == Spec => []SiblingsPaired
<1>1. ASSUME IInv PROVE SiblingsPaired
  <2> SUFFICES ASSUME Live
               PROVE  IF rodata.smt_on
                      THEN \A c \in online :
                             IF CoreMates(c) = {c} THEN rodata.cpu_sibling[c] = c
                             ELSE rodata.cpu_sibling[c] \in CoreMates(c) \ {c}
                      ELSE ~topo.ok \/ \A c \in online : CoreMates(c) = {c}
    BY DEF SiblingsPaired
  <2>1. ShapeInv /\ online \subseteq CpuIds /\ FoundInv /\ RodataInv
    BY <1>1, LiveFacts
  <2>2. CASE ~topo.ok
    BY <2>1, <2>2 DEF RodataInv, BlankRodata
  <2>3. CASE topo.ok
    <3>1. rodata.smt_on <=> \E c \in online : CoreMates(c) # {c}
      BY <2>1, <2>3, SmtCurrent
    <3>2. ASSUME NEW c \in online, CoreMates(c) # {c}
          PROVE  rodata.cpu_sibling[c] \in CoreMates(c) \ {c}
      <4>1. CoreMates(c) \ {c} # {} /\ CoreMates(c) \ {c} \subseteq Nat
        <5>1. c \in CoreMates(c) /\ CoreMates(c) \subseteq CpuIds
          BY <2>1 DEF CoreMates
        <5>2. CpuIds \subseteq Nat
          BY Sizes DEF CpuIds
        <5> QED BY <3>2, <5>1, <5>2
      <4>2. rodata.cpu_sibling[c] = Least(CoreMates(c) \ {c})
        BY <2>1, <2>3, <3>2, SiblingOf
      <4> QED BY <4>1, <4>2, LeastIn
    <3>3. ASSUME NEW c \in online, CoreMates(c) = {c}
          PROVE  rodata.cpu_sibling[c] = c
      BY <2>1, <2>3, <3>3, SiblingOf
    <3> QED BY <3>1, <3>2, <3>3
  <2> QED BY <2>2, <2>3
<1> QED BY <1>1, Invariance, PTL

-----------------------------------------------------------------------------
(* The domain of the placement bias.                                       *)

(* Every domain of a plan has a CPU.                                       *)
LEMMA DomainsInhabited ==
  ASSUME ShapeInv, online \subseteq CpuIds, topo.ok, PlanInv,
         NEW k \in 0..(plan.llcs.nr_llcs - 1)
  PROVE  \E c \in online : plan.llcs.cpu_llc[c] = k
<1> DEFINE D == Dense(host.llc, online)
<1>1. /\ D \in [online -> Nat] /\ NrDomains(D) \in Nat
      /\ \A j \in 0..(NrDomains(D) - 1) : \E c \in online : D[c] = j
  BY HostTells
<1> HIDE DEF D
<1>2. PICK primaries : plan = PlanOf(primaries)
  BY DEF PlanInv
<1>3. plan.llcs = PlanLlcs(D, plan.capacity.primary_cpus)
  BY <1>2 DEF PlanOf, D
<1>4. ~(NrDomains(D) = 0 \/ NrDomains(D) > MaxLlcs)
  BY <1>3 DEF PlanLlcs, NoLlcs
<1>5. /\ plan.llcs.nr_llcs = NrDomains(D)
      /\ plan.llcs.cpu_llc = [d \in CpuIds |-> IF d \in DOMAIN D THEN D[d] ELSE MaxLlcs]
  BY <1>3, <1>4 DEF PlanLlcs
<1> QED BY <1>1, <1>5

(* A domain whose files are all there has the size of its cache: the walk  *)
(* over the cache directory does not stop at the second level.             *)
LEMMA SizeRead ==
  ASSUME ShapeInv, NEW llcs, NEW k \in DOMAIN llcs.llc_cpus, NEW c \in online,
         llcs.llc_cpus[k] = DomainMates(c)
  PROVE  LlcSizes(llcs, {})[k] = host.size[host.llc[c]]
<1> DEFINE first == Least(DomainMates(c))
           second == [level |-> 2, id |-> host.core[first], size |-> 1]
           third == [level |-> 3, id |-> host.llc[first], size |-> host.size[host.llc[first]]]
           fits == {e \in {second, third} : e.id \in {-1, host.llc[first]}}
           best == CHOOSE e \in fits : \A d \in fits : d.level <= e.level
<1>1. c \in DomainMates(c) /\ DomainMates(c) \subseteq Nat /\ DomainMates(c) \subseteq online
  BY HostFacts DEF ShapeInv, DomainMates
<1>2. first \in DomainMates(c)
  BY <1>1, LeastIn
<1> HIDE DEF first
<1>3. host.llc[first] = host.llc[c] /\ host.llc[first] # -1
  BY <1>1, <1>2, HostFacts DEF ShapeInv, DomainMates
<1>4. CacheOf(first) = {second, third}
  BY DEF CacheOf
<1>5. LlcSizes(llcs, {})[k] = LlcSizeBytes(CacheOf(first), host.llc[first])
  <2>1. {e \in CacheOf(first) : <<k, e.level>> \notin {}} = CacheOf(first)
    OBVIOUS
  <2>2. LlcSizes(llcs, {})[k] =
          LlcSizeBytes({e \in CacheOf(first) : <<k, e.level>> \notin {}}, host.llc[first])
    BY <1>1 DEF LlcSizes, first
  <2> QED BY <2>1, <2>2
<1>6. {e \in CacheOf(first) : host.llc[first] = -1 \/ e.id \in {-1, host.llc[first]}} = fits
  BY <1>3, <1>4
<1>7. third \in fits /\ fits \subseteq {second, third}
  OBVIOUS
<1>8. second.level = 2 /\ third.level = 3 /\ third.size = host.size[host.llc[first]]
  OBVIOUS
<1> HIDE DEF second, third, fits
<1>9. best = third
  <2>1. \A d \in fits : d.level <= third.level
    BY <1>7, <1>8
  <2>2. best \in fits /\ \A d \in fits : d.level <= best.level
    BY <1>7, <2>1
  <2> HIDE DEF best
  <2> QED BY <1>7, <1>8, <2>2
<1>10. fits # {}
  BY <1>7
<1>11. LlcSizeBytes(CacheOf(first), host.llc[first]) = best.size
  BY <1>6, <1>10 DEF LlcSizeBytes
<1> QED BY <1>3, <1>5, <1>8, <1>9, <1>11

(* pick_largest_llc names a domain only if every other one is smaller.     *)
LEMMA StrictWinner ==
  ASSUME NEW sizes, NEW nr \in Nat, nr <= MaxLlcs, \A k \in 0..(nr - 1) : sizes[k] \in Nat,
         NEW k, k = PickLargestLlc(sizes, nr), k < nr
  PROVE  k \in 0..(nr - 1) /\ \A j \in 0..(nr - 1) : j # k => sizes[j] < sizes[k]
<1> DEFINE domains == 0..(nr - 1)
           largest == {i \in domains : \A j \in domains : sizes[j] <= sizes[i]}
<1>1. k = IF nr >= 2 /\ Cardinality(largest) = 1 THEN Least(largest) ELSE MaxLlcs
  BY DEF PickLargestLlc
<1>2. largest \in SUBSET domains /\ IsFiniteSet(domains) /\ domains \subseteq Nat
  BY FS_Interval
<1>3. \A i \in largest : \A j \in domains : sizes[j] <= sizes[i]
  OBVIOUS
<1>4. \A i \in domains : (\A j \in domains : sizes[j] <= sizes[i]) => i \in largest
  OBVIOUS
<1>5. Cardinality(largest) = 1 /\ k = Least(largest)
  <2> HIDE DEF largest
  <2> QED BY <1>1, Sizes
<1>6. IsFiniteSet(largest)
  <2> HIDE DEF largest, domains
  <2> QED BY <1>2, FS_Subset
<1>7. PICK i : largest = {i}
  <2> HIDE DEF largest
  <2> QED BY <1>5, <1>6, FS_Singleton
<1>8. k = i /\ k \in domains
  <2>1. largest # {} /\ largest \subseteq Nat
    BY <1>2, <1>7
  <2>2. Least(largest) \in largest
    <3> HIDE DEF largest
    <3> QED BY <2>1, LeastIn
  <2> QED BY <1>2, <1>5, <1>7, <2>2
<1>9. ASSUME NEW j \in domains, j # k PROVE sizes[j] < sizes[k]
  <2>1. sizes[j] <= sizes[k] /\ sizes[j] \in Nat /\ sizes[k] \in Nat
    BY <1>3, <1>7, <1>8
  <2>2. ASSUME sizes[j] = sizes[k] PROVE FALSE
    <3>1. j \in largest
      BY <1>3, <1>4, <1>7, <1>8, <2>2
    <3> HIDE DEF largest
    <3> QED BY <1>7, <1>8, <1>9, <3>1
  <2> QED BY <2>1, <2>2
<1> QED BY <1>8, <1>9

(* The placement is biased to a domain only if its cache is larger than    *)
(* every other one's (init_topology with pick_largest_llc), whatever CPUs  *)
(* came or went while the sizes were read.                                 *)
THEOREM BiasIsTheLargest == Spec => []BiasOnlyIfLargest
<1>1. ASSUME IInv PROVE BiasOnlyIfLargest
  <2> SUFFICES ASSUME Live, ~lossy, rodata.llc_largest < rodata.nr_llcs
               PROVE  \E c \in online :
                        /\ rodata.cpu_llc[c] = rodata.llc_largest
                        /\ \A d \in online \ DomainMates(c) :
                             host.size[host.llc[d]] < host.size[host.llc[c]]
    BY DEF BiasOnlyIfLargest
  <2>1. /\ ShapeInv /\ online \subseteq CpuIds /\ PlanInv /\ RodataInv /\ BiasInv
    BY <1>1, LiveFacts
  <2>2. topo.ok
    BY <2>1, Sizes DEF RodataInv, BlankRodata
  <2> DEFINE nr == plan.llcs.nr_llcs
             sizes == LlcSizes(plan.llcs, {})
             k == rodata.llc_largest
  <2>3. /\ rodata.nr_llcs = nr /\ rodata.cpu_llc = plan.llcs.cpu_llc
        /\ k = PickLargestLlc(sizes, nr)
    BY <2>1, <2>2 DEF RodataInv, BiasInv
  <2>4. nr \in 0..MaxLlcs /\ DOMAIN plan.llcs.llc_cpus = 0..(nr - 1)
    BY <2>1, PlanShape
  <2>5. ASSUME NEW c \in online, nr > 0
        PROVE  /\ plan.llcs.cpu_llc[c] \in 0..(nr - 1)
               /\ {d \in online : plan.llcs.cpu_llc[d] = plan.llcs.cpu_llc[c]} = DomainMates(c)
               /\ sizes[plan.llcs.cpu_llc[c]] = host.size[host.llc[c]]
    <3>1. /\ plan.llcs.cpu_llc[c] \in 0..(nr - 1)
          /\ {d \in online : plan.llcs.cpu_llc[d] = plan.llcs.cpu_llc[c]} = DomainMates(c)
          /\ plan.llcs.llc_cpus[plan.llcs.cpu_llc[c]] = DomainMates(c)
      BY <2>1, <2>2, <2>5, DomainsCurrent
    <3>2. plan.llcs.cpu_llc[c] \in DOMAIN plan.llcs.llc_cpus
      BY <2>4, <3>1
    <3>3. sizes[plan.llcs.cpu_llc[c]] = host.size[host.llc[c]]
      <4> HIDE DEF nr
      <4> QED BY <2>1, <3>1, <3>2, SizeRead
    <3> QED BY <3>1, <3>3
  <2>6. ASSUME NEW c \in online PROVE host.size[host.llc[c]] \in Nat
    BY <2>1, HostFacts, LoadAssumption DEF ShapeInv, LoadAssumption
  <2>7. ASSUME NEW j \in 0..(nr - 1) PROVE sizes[j] \in Nat
    <3>1. PICK c \in online : plan.llcs.cpu_llc[c] = j
      BY <2>1, <2>2, DomainsInhabited
    <3>2. nr > 0
      BY <2>4, Sizes
    <3> HIDE DEF sizes
    <3> QED BY <2>5, <2>6, <3>1, <3>2
  <2> HIDE DEF sizes, nr
  <2>8. nr \in Nat /\ nr <= MaxLlcs /\ k < nr
    BY <2>3, <2>4, Sizes
  <2> HIDE DEF k
  <2>9. k \in 0..(nr - 1) /\ \A j \in 0..(nr - 1) : j # k => sizes[j] < sizes[k]
    BY <2>3, <2>7, <2>8, StrictWinner
  <2>10. PICK c \in online : plan.llcs.cpu_llc[c] = k
    BY <2>1, <2>2, <2>9, DomainsInhabited DEF nr
  <2>11. ASSUME NEW d \in online \ DomainMates(c)
         PROVE  host.size[host.llc[d]] < host.size[host.llc[c]]
    <3>1. nr > 0
      BY <2>8, <2>9
    <3>2. plan.llcs.cpu_llc[d] # k
      BY <2>5, <2>10, <3>1
    <3> QED BY <2>5, <2>9, <2>10, <3>1, <3>2
  <2> QED BY <2>3, <2>10, <2>11 DEF k
<1> QED BY <1>1, Invariance, PTL

-----------------------------------------------------------------------------
(* The web UI.                                                             *)

LEMMA ShownFields ==
  \A c : /\ Shown(c).smt = Badge(Dense(host.core, online), c)
         /\ Shown(c).llc_id =
              IF PlanLlcs(Dense(host.llc, online), {}).cpu_llc[c] = MaxLlcs THEN 0
              ELSE PlanLlcs(Dense(host.llc, online), {}).cpu_llc[c]
  BY DEF Shown

(* What the web UI shows was discovered after the tables were, by a        *)
(* Topology::new of its own (web_cpu_static); it says the same as they do. *)
THEOREM WebShowsTheTables == Spec => []WebAgrees
<1>1. ASSUME IInv PROVE WebAgrees
  <2> SUFFICES ASSUME Live, pc = "run", topo.ok, NEW c \in DOMAIN web
               PROVE  /\ web[c].llc_id = IF rodata.nr_llcs = 0 THEN 0 ELSE rodata.cpu_llc[c]
                      /\ web[c].smt <=> rodata.smt_on /\ rodata.cpu_sibling[c] < c
    BY DEF WebAgrees
  <2>1. /\ ShapeInv /\ online \subseteq CpuIds /\ FoundInv /\ PlanInv /\ RodataInv /\ WebInv
    BY <1>1, LiveFacts
  <2>2. web = [d \in online |-> Shown(d)]
    BY <2>1 DEF WebInv
  <2>3. c \in online /\ web[c] = Shown(c)
    BY <2>2
  <2> DEFINE llc == Dense(host.llc, online)
  <2>4. web[c].smt <=> c # Least(CoreMates(c))
    <3> DEFINE core == Dense(host.core, online)
    <3>1. DOMAIN core = online /\ {d \in online : core[d] = core[c]} = CoreMates(c)
      BY <2>1, <2>3, CoresCurrent
    <3>2. web[c].smt <=> Badge(core, c)
      BY <2>3, ShownFields
    <3> HIDE DEF core
    <3> QED BY <3>1, <3>2 DEF Badge
  <2>5. web[c].llc_id = IF rodata.nr_llcs = 0 THEN 0 ELSE rodata.cpu_llc[c]
    <3>1. rodata.nr_llcs = plan.llcs.nr_llcs /\ rodata.cpu_llc = plan.llcs.cpu_llc
      BY <2>1 DEF RodataInv
    <3>2. PICK primaries : plan.llcs = PlanLlcs(llc, primaries)
      BY <2>1 DEF PlanInv, PlanOf
    <3>3. web[c].llc_id = IF PlanLlcs(llc, {}).cpu_llc[c] = MaxLlcs THEN 0
                          ELSE PlanLlcs(llc, {}).cpu_llc[c]
      BY <2>3, ShownFields
    <3>4. llc \in [online -> Nat] /\ NrDomains(llc) \in Nat /\ llc[c] < NrDomains(llc)
      BY <2>1, <2>3, HostTells
    <3> HIDE DEF llc
    <3>5. CASE NrDomains(llc) = 0 \/ NrDomains(llc) > MaxLlcs
      <4>1. plan.llcs.nr_llcs = 0 /\ PlanLlcs(llc, {}).cpu_llc[c] = MaxLlcs
        BY <2>1, <2>3, <3>2, <3>5 DEF PlanLlcs, NoLlcs
      <4> QED BY <3>1, <3>3, <4>1
    <3>6. CASE ~(NrDomains(llc) = 0 \/ NrDomains(llc) > MaxLlcs)
      <4>1. plan.llcs.nr_llcs = NrDomains(llc) /\ plan.llcs.cpu_llc[c] = llc[c]
            /\ PlanLlcs(llc, {}).cpu_llc[c] = llc[c]
        BY <2>1, <2>3, <3>2, <3>4, <3>6 DEF PlanLlcs
      <4>2. llc[c] # MaxLlcs
        BY <2>3, <3>4, <3>6, Sizes
      <4> QED BY <3>1, <3>3, <3>6, <4>1, <4>2
    <3> QED BY <3>5, <3>6
  <2>6. /\ c \in CoreMates(c) /\ CoreMates(c) \subseteq Nat /\ c \in Nat
        /\ Least(CoreMates(c)) \in CoreMates(c)
        /\ \A d \in CoreMates(c) : Least(CoreMates(c)) <= d
    <3>1. c \in CoreMates(c) /\ CoreMates(c) \subseteq Nat
      BY <2>1, <2>3, HostFacts DEF ShapeInv, CoreMates
    <3> QED BY <3>1, LeastIn
  <2>7. CASE CoreMates(c) = {c}
    <3>1. ~web[c].smt
      BY <2>4, <2>6, <2>7
    <3>2. rodata.smt_on => rodata.cpu_sibling[c] = c
      BY <2>1, <2>3, <2>7, SiblingOf
    <3> QED BY <2>5, <2>6, <3>1, <3>2
  <2>8. CASE CoreMates(c) # {c}
    <3>1. rodata.smt_on
      BY <2>1, <2>3, <2>8, SmtCurrent
    <3>2. rodata.cpu_sibling[c] = Least(CoreMates(c) \ {c})
      BY <2>1, <2>3, <2>8, SiblingOf
    <3>3. /\ Least(CoreMates(c) \ {c}) \in CoreMates(c) \ {c}
          /\ \A d \in CoreMates(c) \ {c} : Least(CoreMates(c) \ {c}) <= d
      BY <2>6, <2>8, LeastIn
    <3>4. web[c].smt <=> rodata.cpu_sibling[c] < c
      BY <2>4, <2>6, <3>2, <3>3
    <3> QED BY <2>5, <3>1, <3>4
  <2> QED BY <2>7, <2>8
<1> QED BY <1>1, Invariance, PTL

-----------------------------------------------------------------------------
(* The steal windows.                                                      *)

LEMMA ModOnce ==
  ASSUME NEW nr \in Nat \ {0}, NEW x \in 0..(nr + nr - 1)
  PROVE  x % nr = IF x < nr THEN x ELSE x - nr
  OBVIOUS

(* A rotation of the window of scan CPUs shows every CPU: at its start for *)
(* one of the first offsets, or else within the last window.               *)
LEMMA WindowTurns ==
  ASSUME NEW nr \in Nat \ {0}, NEW scan \in 1..nr, NEW off \in 0..(nr - 1),
         NEW d \in 0..(nr - 1)
  PROVE  \E k \in 0..(nr - scan) :
           d \in {(((off + k) % nr) + i) % nr : i \in 0..(scan - 1)}
<1> DEFINE m == IF off <= d THEN d - off ELSE d + nr - off
           k == IF m <= nr - scan THEN m ELSE nr - scan
           i == m - k
<1>1. /\ m \in 0..(nr - 1) /\ k \in 0..(nr - scan) /\ i \in 0..(scan - 1)
      /\ m = k + i /\ (off + m = d \/ off + m = d + nr)
  OBVIOUS
<1> HIDE DEF m, k, i
<1>2. off + k \in 0..(nr + nr - 1)
  BY <1>1
<1>0. \A x \in 0..(nr + nr - 1) : x % nr = IF x < nr THEN x ELSE x - nr
  BY ModOnce
<1>3. PICK o : o = (off + k) % nr
  OBVIOUS
<1>4. o = IF off + k < nr THEN off + k ELSE off + k - nr
  BY <1>0, <1>1, <1>2, <1>3
<1>5. o + i \in 0..(nr + nr - 1)
  BY <1>1, <1>2, <1>4
<1>6. (o + i) % nr = IF o + i < nr THEN o + i ELSE o + i - nr
  BY <1>0, <1>1, <1>2, <1>4, <1>5
<1>7. (o + i) % nr = d
  BY <1>1, <1>4, <1>6
<1> QED BY <1>1, <1>3, <1>7

(* A CPU that keeps finding nothing reaches every queue (mlfq_steal_task): *)
(* the own list, if there is one, is the whole domain, and what Tier B     *)
(* leaves out is that domain only, so the rotation of its window meets     *)
(* every other CPU.  Whichever lists could not be written or are too long, *)
(* nothing waits behind a CPU that nobody probes.                          *)
THEOREM StealsReachEveryone == Spec => []StealReachesAll
<1>1. ASSUME IInv PROVE StealReachesAll
  <2> SUFFICES ASSUME Live, NEW c \in online, NEW d \in online, c # d,
                      NEW off \in 0..(host.nr - 1)
               PROVE  \E k \in 0..(host.nr - StealScan(host.nr)) :
                        d \in Reach(rodata, maps.lists, host.nr, c, (off + k) % host.nr)
    BY DEF StealReachesAll
  <2>1. /\ ShapeInv /\ online \subseteq CpuIds /\ PlanInv /\ RodataInv /\ ListsInv
    BY <1>1, LiveFacts
  <2>2. host.nr \in Nat \ {0} /\ d \in 0..(host.nr - 1)
    BY <2>1, HostFacts DEF ShapeInv
  <2>3. StealScan(host.nr) \in 1..host.nr
    BY <2>2, TopologyAssumption DEF StealScan, TopologyAssumption
  <2> DEFINE own == TierA(rodata, maps.lists, c)
             ran == TierARan(rodata, maps.lists, c)
             window(o) == {(o + i) % host.nr : i \in 0..(StealScan(host.nr) - 1)}
             tail(o) == TierB(rodata, maps.lists, host.nr, c, o)
  <2>4. PICK k \in 0..(host.nr - StealScan(host.nr)) : d \in window((off + k) % host.nr)
    BY <2>2, <2>3, WindowTurns
  <2>5. \A o : Reach(rodata, maps.lists, host.nr, c, o) =
                 (own \cup IF ~ran \/ rodata.nr_llcs # 1 THEN tail(o) ELSE {}) \ {c}
    BY DEF Reach
  <2>6. \A o : tail(o) = {e \in window(o) : ~(ran /\ rodata.cpu_llc[e] = rodata.cpu_llc[c])}
    BY DEF TierB
  <2>7. ran <=> own # {}
    BY DEF TierARan
  <2>8. own = IF rodata.cpu_llc[c] < rodata.nr_llcs THEN maps.lists[rodata.cpu_llc[c]] ELSE {}
    BY DEF TierA
  <2> HIDE DEF own, ran, window, tail
  <2>9. CASE ~ran
    BY <2>4, <2>5, <2>6, <2>9
  <2>10. CASE ran
    <3>1. own # {} /\ rodata.cpu_llc[c] < rodata.nr_llcs
      BY <2>7, <2>8, <2>10
    <3>2. topo.ok
      BY <2>1, <3>1, Sizes DEF RodataInv, BlankRodata
    <3>3. rodata.nr_llcs = plan.llcs.nr_llcs /\ rodata.cpu_llc = plan.llcs.cpu_llc
      BY <2>1, <3>2 DEF RodataInv
    <3>4. plan.llcs.nr_llcs \in 0..MaxLlcs
      BY <2>1, PlanShape
    <3>5. plan.llcs.nr_llcs > 0
      <4>1. CASE plan.llcs.nr_llcs = 0
        <5>1. plan.llcs.cpu_llc[c] = MaxLlcs
          <6>1. PICK llc, cpus : plan.llcs = PlanLlcs(llc, cpus) /\ NrDomains(llc) \in Nat
            BY <2>1, <3>2, HostTells DEF PlanInv, PlanOf
          <6> QED BY <2>1, <4>1, <6>1 DEF PlanLlcs, NoLlcs
        <5> QED BY <3>1, <3>3, <4>1, <5>1, Sizes
      <4> QED BY <3>4, <4>1, Sizes
    <3>6. ASSUME NEW e \in online
          PROVE  /\ plan.llcs.cpu_llc[e] \in 0..(plan.llcs.nr_llcs - 1)
                 /\ {x \in online : plan.llcs.cpu_llc[x] = plan.llcs.cpu_llc[e]}
                      = DomainMates(e)
                 /\ plan.llcs.llc_cpus[plan.llcs.cpu_llc[e]] = DomainMates(e)
      BY <2>1, <3>2, <3>5, DomainsCurrent
    <3>7. own = DomainMates(c)
      <4>1. own \in {{}, BuildLlcCpuList(DomainMates(c))}
        BY <2>1, <2>8, <3>1, <3>3, <3>6 DEF ListsInv
      <4>2. BuildLlcCpuList(DomainMates(c)) \in {{}, DomainMates(c)}
        BY <2>1 DEF BuildLlcCpuList, DomainMates
      <4> QED BY <3>1, <4>1, <4>2
    <3>8. CASE d \in DomainMates(c)
      BY <2>4, <2>5, <3>7, <3>8
    <3>9. CASE d \notin DomainMates(c)
      <4>1. rodata.cpu_llc[d] # rodata.cpu_llc[c]
        BY <3>3, <3>6, <3>9
      <4>2. rodata.nr_llcs # 1
        BY <3>3, <3>6, <4>1
      <4> QED BY <2>4, <2>5, <2>6, <4>1, <4>2
    <3> QED BY <3>8, <3>9
  <2> QED BY <2>9, <2>10
<1> QED BY <1>1, Invariance, PTL

-----------------------------------------------------------------------------
(* Where a wakeup goes on these tables.                                    *)

LEMMA LowestIn ==
  ASSUME NEW S, S \subseteq Nat
  PROVE  Lowest(S) \subseteq S /\ (S # {} => Lowest(S) # {})
  BY LeastIn DEF Lowest

LEMMA PickIn ==
  ASSUME NEW t, NEW m, NEW w \in Wake, NEW bitmap, NEW require_primary \in BOOLEAN
  PROVE  LET matches == {c \in bitmap \cap Claimable(w) :
                           require_primary => IsPrimary(t, m, c)}
         IN  /\ PickInBitmap(t, m, w, bitmap, require_primary) \subseteq matches
             /\ matches # {} => PickInBitmap(t, m, w, bitmap, require_primary) # {}
<1> DEFINE matches == {c \in bitmap \cap Claimable(w) :
                         require_primary => IsPrimary(t, m, c)}
<1>1. CpuIds \subseteq Nat
  BY Sizes DEF CpuIds
<1>2. Claimable(w) \subseteq CpuIds
  BY DEF Wake, Claimable
<1>3. matches \subseteq Nat
  BY <1>1, <1>2
<1>4. PickInBitmap(t, m, w, bitmap, require_primary) = Lowest(matches)
  BY DEF PickInBitmap
<1> HIDE DEF matches
<1>5. /\ PickInBitmap(t, m, w, bitmap, require_primary) \subseteq matches
      /\ matches # {} => PickInBitmap(t, m, w, bitmap, require_primary) # {}
  BY <1>3, <1>4, LowestIn
<1> QED BY <1>5 DEF matches

(* Each step claims what is idle and allowed.                              *)
LEMMA StepsClaimable ==
  ASSUME NEW t, NEW m, NEW w \in Wake
  PROVE  /\ PrevStep(t, m, w) \subseteq Claimable(w)
         /\ SiblingStep(t, w) \subseteq Claimable(w)
         /\ LargestStep(t, m, w) \subseteq Claimable(w)
         /\ WakerStep(t, m, w) \subseteq Claimable(w)
         /\ SteerStep(t, m, w) \subseteq Claimable(w)
         /\ GlobalStep(t, m, w) \subseteq Claimable(w)
<1>1. Prev(w) \in w.allowed
  <2>1. w.allowed \subseteq Nat /\ w.allowed # {}
    BY Sizes DEF Wake, CpuIds
  <2> QED BY <2>1, LeastIn DEF Prev
<1>2. ASSUME NEW bitmap, NEW require_primary \in BOOLEAN
      PROVE  PickInBitmap(t, m, w, bitmap, require_primary) \subseteq Claimable(w)
  BY PickIn
<1>3. Interactive(w) \in BOOLEAN
  BY DEF Wake, Interactive
<1>4. PrevStep(t, m, w) \subseteq Claimable(w)
  BY <1>1 DEF PrevStep, Claimable
<1>5. SiblingStep(t, w) \subseteq Claimable(w)
  BY DEF SiblingStep
<1>6. LargestStep(t, m, w) \subseteq Claimable(w)
  BY <1>2 DEF LargestStep
<1>7. WakerStep(t, m, w) \subseteq Claimable(w)
  BY <1>2, <1>3 DEF WakerStep
<1>8. SteerStep(t, m, w) \subseteq Claimable(w)
  BY <1>2, <1>3 DEF SteerStep
<1>9. GlobalStep(t, m, w) \subseteq Claimable(w)
  BY <1>2 DEF GlobalStep
<1> QED BY <1>4, <1>5, <1>6, <1>7, <1>8, <1>9

(* What MlfqSched takes for granted of ops.select_cpu, whatever the tables *)
(* hold and whatever the call reads: it claims only idle CPUs the task is  *)
(* allowed on and, for a task of Q3, none a realtime task holds; a         *)
(* hand-off is for Q1 and Q2 and spares occupied CPUs.                     *)
THEOREM SelectionIsSound ==
  ASSUME NEW t, NEW m, NEW w \in Wake
  PROVE  /\ Claims(t, m, w) \subseteq Claimable(w)
         /\ w.queue = 3 => Claims(t, m, w) \cap w.occupied = {}
         /\ Handoff(w) => w.queue \in 1..2 /\ Claims(t, m, w) = {}
<1>1. Claimable(w) \subseteq Nat
  BY Sizes DEF Wake, Claimable, CpuIds
<1>2. StrictScan(w) \subseteq Claimable(w) \ w.occupied
  <2>1. StrictScan(w) \subseteq {c \in Claimable(w) \ (w.occupied \cup w.vetoed) : c < Q3Strict}
    BY <1>1, LowestIn DEF StrictScan
  <2> QED BY <2>1
<1>3. RelaxedScan(w) \subseteq Claimable(w) \ w.occupied
  <2>1. RelaxedScan(w) \subseteq {c \in Claimable(w) \ w.occupied : c < Q3Relaxed}
    BY <1>1, LowestIn DEF RelaxedScan
  <2> QED BY <2>1
<1>4. Claims(t, m, w) \subseteq Claimable(w)
  BY <1>2, <1>3, StepsClaimable DEF Claims, OrElse
<1>5. w.queue = 3 => Claims(t, m, w) \cap w.occupied = {}
  BY <1>2, <1>3 DEF Claims, OrElse
<1>6. Handoff(w) => w.queue \in 1..2 /\ Claims(t, m, w) = {}
  BY DEF Handoff, Claims, Wake
<1> QED BY <1>4, <1>5, <1>6

(* The only reasons for which a wakeup finds nothing although there is an  *)
(* idle CPU it may use: the hand-off, which does not look; a count of idle *)
(* CPUs that says zero; and, for a task of Q3, that every such CPU is held *)
(* by a realtime task or beyond the CPUs its second scan looks at.  In     *)
(* particular no table that could not be written, no gauge of a domain and *)
(* no veto hides the last idle CPU.                                        *)
THEOREM IdleIsFound ==
  ASSUME NEW t, NEW m, NEW w \in Wake, ~Handoff(w), Claims(t, m, w) = {},
         NEW c \in Claimable(w)
  PROVE  IF w.queue = 3 THEN c \in w.occupied \/ ~(c < Q3Relaxed) ELSE Saturated(w)
<1>1. Claimable(w) \subseteq Nat
  BY Sizes DEF Wake, Claimable, CpuIds
<1>2. CASE w.queue = 3
  <2>1. RelaxedScan(w) = {}
    BY <1>2 DEF Claims, OrElse
  <2>2. {d \in Claimable(w) \ w.occupied : d < Q3Relaxed} = {}
    BY <1>1, <2>1, LowestIn DEF RelaxedScan
  <2> QED BY <1>2, <2>2
<1>3. CASE w.queue # 3
  <2>1. GlobalStep(t, m, w) # {}
    BY DEF GlobalStep
  <2>2. ~Saturated(w) => Claims(t, m, w) # {}
    BY <1>3, <2>1 DEF Claims, OrElse
  <2> QED BY <1>3, <2>2
<1> QED BY <1>2, <1>3

(* Every step but the last takes an interactive wakeup to a primary core;  *)
(* the last one does if a primary core can be claimed.                     *)
LEMMA InteractivePlaced ==
  ASSUME PlanCurrent, Live, NEW w \in Waking
  PROVE  InteractiveOnPrimary(w)
<1> SUFFICES ASSUME Interactive(w), w.queue # 3, ~rodata.primary_all,
                    maps.primary # {}, rodata.nr_llcs # 1,
                    NEW c \in Claims(rodata, maps, w)
             PROVE  c \in host.big \/ Claimable(w) \cap host.big = {}
  BY DEF InteractiveOnPrimary
<1>1. maps.primary = host.big \cap online
  BY DEF PlanCurrent
<1>2. w \in Wake /\ Claimable(w) \subseteq online
  BY LoadAssumption DEF LoadAssumption, Waking, Claimable
<1> DEFINE placed(S) == \A d \in S : IsPrimary(rodata, maps, d)
<1>3. ASSUME NEW bitmap
      PROVE  placed(PickInBitmap(rodata, maps, w, bitmap, Interactive(w)))
             /\ placed(PickInBitmap(rodata, maps, w, bitmap, TRUE))
  <2>1. Interactive(w) \in BOOLEAN /\ Interactive(w)
    BY DEF Interactive
  <2> QED BY <1>2, <2>1, PickIn
<1>4. placed(PrevStep(rodata, maps, w)) /\ SiblingStep(rodata, w) = {}
  BY DEF PrevStep, SiblingStep
<1>5. placed(LargestStep(rodata, maps, w))
  BY <1>3 DEF LargestStep
<1>6. placed(WakerStep(rodata, maps, w))
  BY <1>3 DEF WakerStep
<1>7. placed(SteerStep(rodata, maps, w))
  <2> SUFFICES ASSUME NEW d \in SteerStep(rodata, maps, w)
               PROVE  IsPrimary(rodata, maps, d)
    OBVIOUS
  <2>1. PICK k : d \in PickInBitmap(rodata, maps, w, maps.llcs[k], Interactive(w))
    BY DEF SteerStep
  <2> QED BY <1>3, <2>1
<1>8. \A d : IsPrimary(rodata, maps, d) => d \in host.big
  BY <1>1 DEF IsPrimary
<1>9. ASSUME c \in GlobalStep(rodata, maps, w)
      PROVE  c \in host.big \/ Claimable(w) \cap host.big = {}
  <2> DEFINE big == PickInBitmap(rodata, maps, w, maps.primary, FALSE)
  <2>1. big \subseteq maps.primary
        /\ (maps.primary \cap Claimable(w) # {} => big # {})
    BY <1>2, PickIn
  <2>2. IF big # {} THEN c \in big ELSE c \in Claimable(w)
    BY <1>9 DEF GlobalStep
  <2> HIDE DEF big
  <2>3. maps.primary \cap Claimable(w) = Claimable(w) \cap host.big
    BY <1>1, <1>2
  <2> QED BY <1>1, <2>1, <2>2, <2>3
<1>10. \/ c \in PrevStep(rodata, maps, w) \/ c \in SiblingStep(rodata, w)
       \/ c \in LargestStep(rodata, maps, w) \/ c \in WakerStep(rodata, maps, w)
       \/ c \in SteerStep(rodata, maps, w) \/ c \in GlobalStep(rodata, maps, w)
  BY DEF Claims, OrElse
<1> QED BY <1>4, <1>5, <1>6, <1>7, <1>8, <1>9, <1>10

(* Any other wakeup gets past the waker's domain only if nothing can be    *)
(* claimed there.                                                          *)
LEMMA OthersPlaced ==
  ASSUME PlanCurrent, SiblingsPaired, Live, rodata.nr_llcs \in 0..MaxLlcs,
         NEW w \in Waking
  PROVE  StaysInDomain(w)
<1> SUFFICES ASSUME ~Interactive(w), w.queue = 2, rodata.nr_llcs > 1,
                    maps.llcs[rodata.cpu_llc[w.waker]] # {},
                    NEW c \in Claims(rodata, maps, w),
                    Claimable(w) \cap DomainMates(w.waker) # {}
             PROVE  c \in DomainMates(w.waker) \cup CoreMates(Prev(w))
  BY DEF StaysInDomain
<1>1. w \in Wake /\ w.waker \in online /\ Prev(w) \in online
  BY LoadAssumption DEF LoadAssumption, Waking
<1>2. rodata.nr_llcs > 0
  BY Sizes
<1>3. rodata.cpu_llc[w.waker] < rodata.nr_llcs
      /\ maps.llcs[rodata.cpu_llc[w.waker]] = DomainMates(w.waker)
  BY <1>1, <1>2 DEF PlanCurrent
<1>4. WakerLlc(rodata, w) = rodata.cpu_llc[w.waker] /\ WakerLlc(rodata, w) # MaxLlcs
  BY <1>3, Sizes DEF WakerLlc
<1>5. PrevStep(rodata, maps, w) \subseteq CoreMates(Prev(w))
  BY <1>1 DEF PrevStep, CoreMates
<1>6. SiblingStep(rodata, w) \subseteq CoreMates(Prev(w))
  BY <1>1 DEF SiblingStep, SiblingsPaired
<1>7. LargestStep(rodata, maps, w) = {}
  BY DEF LargestStep
<1>8. WakerStep(rodata, maps, w) \subseteq DomainMates(w.waker)
      /\ WakerStep(rodata, maps, w) # {}
  <2>1. Interactive(w) \in BOOLEAN
    BY DEF Interactive
  <2>2. WakerStep(rodata, maps, w)
          = PickInBitmap(rodata, maps, w, DomainMates(w.waker), Interactive(w))
    BY <1>3, <1>4 DEF WakerStep
  <2> QED BY <1>1, <2>1, <2>2, PickIn
<1>9. c \in PrevStep(rodata, maps, w) \cup SiblingStep(rodata, w)
              \cup LargestStep(rodata, maps, w) \cup WakerStep(rodata, maps, w)
  BY <1>8 DEF Claims, OrElse
<1> QED BY <1>5, <1>6, <1>7, <1>8, <1>9

(* Wherever the machine puts its big cores, threads and domains, and       *)
(* whatever a wakeup reads of the other CPUs, the order of the steps of    *)
(* mlfq_select_cpu keeps interactive wakeups on the big cores and the      *)
(* others in the domain of their waker as long as there is an idle CPU.    *)
THEOREM WakeupsArePlaced == Spec => []WakeupsPlaced
<1>1. IInv /\ Live => rodata.nr_llcs \in 0..MaxLlcs
  <2> SUFFICES ASSUME IInv, Live PROVE rodata.nr_llcs \in 0..MaxLlcs
    OBVIOUS
  <2>1. ShapeInv /\ PlanInv /\ RodataInv
    BY LiveFacts
  <2>2. plan.llcs.nr_llcs \in 0..MaxLlcs
    BY <2>1, PlanShape
  <2>3. 0 \in 0..MaxLlcs
    BY Sizes
  <2> QED BY <2>1, <2>2, <2>3 DEF RodataInv, BlankRodata
<1>2. IInv /\ PlanCurrent /\ SiblingsPaired => WakeupsPlaced
  <2> SUFFICES ASSUME IInv, PlanCurrent, SiblingsPaired, Live, NEW w \in Waking
               PROVE  InteractiveOnPrimary(w) /\ StaysInDomain(w)
    BY DEF WakeupsPlaced
  <2> QED BY <1>1, InteractivePlaced, OthersPlaced
<1> QED BY <1>2, Invariance, PlansCurrent, ThreadsPaired, PTL

-----------------------------------------------------------------------------
(* The constants.                                                          *)

(* Config::validate is enough for the dispatch shares and for what the     *)
(* classification is proved under: no valid configuration lets Q1 and Q2   *)
(* use up a batch, asks for more moves than the ops table allows, or has   *)
(* an empty band.                                                          *)
THEOREM ValidServes ==
  \A c \in Config : Validate(c) => SharesServe(c) /\ BandsServe(c)
<1> SUFFICES ASSUME NEW c \in Config, Validate(c)
             PROVE  SharesServe(c) /\ BandsServe(c)
  OBVIOUS
<1>1. \A f \in Fields : c[f] \in Nat
  BY DEF Config
<1>2. c.q1_quota \in Nat /\ c.q2_quota \in Nat /\ c.dispatch_max_batch \in Nat
      /\ c.ema_half_life \in Nat /\ c.aging_period \in Nat
  BY <1>1 DEF Fields, Quotas, Windows
<1> QED BY <1>2 DEF Validate, SharesServe, BandsServe, Remaining, OpsMaxBatch, Windows

LEMMA AppliedDefault == \A f \in Fields : Applied(Default)[f] = Default[f]
  BY DEF Applied

(* The constants an attached scheduler runs with are valid, and within the *)
(* ranges the adaptation of the band edges starts from (Config::default,   *)
(* Config::apply).                                                         *)
THEOREM ConstantsAlwaysServe == Spec => []ConstantsServe
<1> DEFINE CInv == \A f \in Fields : consts[f] = Default[f]
<1>1. Init => CInv
  BY DEF Init
<1>2. CInv /\ [Next]_vars => CInv'
  <2> SUFFICES ASSUME CInv, [Next]_vars PROVE CInv'
    OBVIOUS
  <2>1. consts' = consts \/ consts' = Applied(Default)
    BY DEF Next, InitStep, Open, Discover, ReadPrimaries, WriteRodata, Load,
           WritePrimaryBitmap, WriteLlcBitmaps, WriteLlcCpuLists, Attach, SeedWeb,
           Restart, Hotplug, vars, object
  <2> QED BY <2>1, AppliedDefault
<1>3. CInv => ConstantsServe
  <2> SUFFICES ASSUME CInv PROVE Serves(consts)
    BY DEF ConstantsServe
  <2>1. \A f \in Fields : consts[f] = Default[f]
    OBVIOUS
  <2>2. /\ consts.q1_quota = 4 /\ consts.q2_quota = 8 /\ consts.dispatch_max_batch = 32
        /\ consts.t_l = 5 /\ consts.t_h = 40 /\ consts.budget_max = 120
        /\ consts.tree_t_int = 20 /\ consts.tree_t_bound = 60
        /\ consts.ema_half_life = 480 /\ consts.aging_period = 20000
    BY <2>1 DEF Fields, Quotas, Edges, Windows, Default
  <2>3. SharesServe(consts)
    BY <2>2 DEF SharesServe, Remaining, OpsMaxBatch
  <2>4. BandsServe(consts)
    BY <2>2 DEF BandsServe
  <2>5. EdgesInRange(consts)
    BY <2>2 DEF EdgesInRange, Edges, HardFloor, HardCeil
  <2> QED BY <2>3, <2>4, <2>5 DEF Serves
<1> QED BY <1>1, <1>2, <1>3, PTL DEF Spec

-----------------------------------------------------------------------------
(* How the incarnations settle.                                            *)

(* Where Scheduler::init, attach and run are, and which exits can follow.  *)
CourseInv ==
  /\ pc \in {"open", "discover", "primaries", "rodata", "load", "primary_map",
             "llc_maps", "list_maps", "attach", "seed", "run", "join", "failed"}
  /\ bpf \in {"off", "attached", "exited"}
  /\ pc \in {"seed", "run"} => bpf # "off"
  /\ pc = "join" => webui

(* The steps to the end of an incarnation.                                 *)
Ahead ==
  CASE pc = "open" -> 10 [] pc = "discover" -> 9 [] pc = "primaries" -> 8
    [] pc = "rodata" -> 7 [] pc = "load" -> 6 [] pc = "primary_map" -> 5
    [] pc = "llc_maps" -> 4 [] pc = "list_maps" -> 3 [] pc = "attach" -> 2
    [] pc = "seed" -> 1 [] OTHER -> 0

(* An incarnation the kernel exits, or will exit when it attaches.         *)
Doomed ==
  /\ pc \notin {"open", "failed", "join"}
  /\ opened # seq \/ (pc \in {"seed", "run"} /\ ~Live)

(* A doomed incarnation is followed by one more.                           *)
Again == IF Doomed THEN 11 ELSE 0

Left == Ahead + Again

(* Nothing more happens until a CPU comes or goes.                         *)
Settled == (pc = "run" /\ Live) \/ pc = "failed" \/ (pc = "join" /\ webui)

(* Every step of the main thread brings the end closer.                    *)
InitAdvances == [][InitStep => Left' < Left]_vars

LEMMA CourseKept == Spec => []CourseInv
<1>1. Init => CourseInv
  BY DEF Init, CourseInv
<1>2. CourseInv /\ [Next]_vars => CourseInv'
  <2> SUFFICES ASSUME CourseInv, [Next]_vars PROVE CourseInv'
    OBVIOUS
  <2> USE DEF CourseInv
  <2>1. CASE Open \/ Discover \/ ReadPrimaries \/ WriteRodata \/ Load
    BY <2>1 DEF Open, Discover, ReadPrimaries, WriteRodata, Load
  <2>2. CASE WritePrimaryBitmap \/ WriteLlcBitmaps \/ WriteLlcCpuLists
    BY <2>2 DEF WritePrimaryBitmap, WriteLlcBitmaps, WriteLlcCpuLists
  <2>3. CASE Attach \/ SeedWeb
    BY <2>3 DEF Attach, SeedWeb
  <2>4. CASE Restart
    BY <2>4 DEF Restart
  <2>5. ASSUME NEW c, Hotplug(c) PROVE CourseInv'
    BY <2>5 DEF Hotplug
  <2>6. CASE UNCHANGED vars
    BY <2>6 DEF vars
  <2> QED BY <2>1, <2>2, <2>3, <2>4, <2>5, <2>6 DEF Next, InitStep
<1> QED BY <1>1, <1>2, PTL DEF Spec

LEMMA LeftBounded ==
  ASSUME IInv, CourseInv
  PROVE  Left \in 0..20 /\ (Left = 0 <=> Settled)
<1>1. Ahead \in 0..10 /\ (pc # "open" => Ahead <= 9)
  BY DEF Ahead
<1>2. pc = "open" => ~Doomed
  BY DEF Doomed
<1>3. Left \in 0..20
  BY <1>1, <1>2 DEF Left, Again
<1>4. Left = 0 <=> Ahead = 0 /\ ~Doomed
  BY <1>1 DEF Left, Again
<1>5. Ahead = 0 <=> pc \in {"run", "join", "failed"}
  BY DEF Ahead, CourseInv
<1>6. pc \in {"join", "failed"} => ~Doomed /\ Settled
  BY DEF Doomed, Settled, CourseInv
<1>7. pc = "run" => (Settled <=> ~Doomed)
  BY DEF Doomed, Settled, IInv, LiveInv
<1>8. Settled => pc \in {"run", "join", "failed"}
  BY DEF Settled
<1> QED BY <1>3, <1>4, <1>5, <1>6, <1>7, <1>8

LEMMA SumsLower ==
  ASSUME NEW a \in Nat, NEW b \in Nat, NEW c \in Nat, NEW d \in Nat, c < a, d <= b
  PROVE  c + d < a + b
  OBVIOUS

(* A step that is one further in an incarnation as doomed as it was.       *)
LEMMA OneFurther ==
  ASSUME Ahead \in Nat, Ahead' \in Nat, Ahead' < Ahead, Doomed' => Doomed
  PROVE  Left' < Left
<1>1. Again \in Nat /\ Again' \in Nat /\ Again' <= Again
  BY DEF Again, Doomed, Live
<1>2. Ahead' + Again' < Ahead + Again
  BY <1>1, SumsLower, Zenon
<1> QED BY <1>2, Zenon DEF Left

LEMMA StepAdvances ==
  ASSUME IInv, CourseInv, InitStep
  PROVE  Left' < Left
<1>1. Ahead \in Nat /\ Ahead' \in Nat
  BY DEF Ahead
<1>2. seq \in Nat \ {0}
  BY DEF IInv, ShapeInv
<1>3. CASE Open
  <2>1. pc = "open" /\ pc' \in {"discover", "failed"} /\ opened' = seq'
    BY <1>3 DEF Open, SeqAtOpen, machine
  <2>2. Ahead' < Ahead /\ ~Doomed'
    BY <2>1 DEF Ahead, Doomed
  <2> QED BY <1>1, <2>2, OneFurther
<1>4. CASE Discover \/ ReadPrimaries \/ WriteRodata \/ Load
  <2>1. UNCHANGED <<opened, seq>>
    BY <1>4 DEF Discover, ReadPrimaries, WriteRodata, Load, machine, object
  <2>2. \/ pc = "discover" /\ pc' \in {"primaries", "load"}
        \/ pc = "primaries" /\ pc' = "rodata"
        \/ pc = "rodata" /\ pc' = "load"
        \/ pc = "load" /\ pc' \in {"primary_map", "failed"}
    BY <1>4 DEF Discover, ReadPrimaries, WriteRodata, Load
  <2>3. Ahead' < Ahead
    BY <2>2 DEF Ahead
  <2>4. Doomed' => Doomed
    BY <2>1, <2>2 DEF Doomed
  <2> QED BY <1>1, <2>3, <2>4, OneFurther
<1>5. CASE WritePrimaryBitmap \/ WriteLlcBitmaps \/ WriteLlcCpuLists
  <2>1. UNCHANGED <<opened, seq>>
    BY <1>5 DEF WritePrimaryBitmap, WriteLlcBitmaps, WriteLlcCpuLists, machine, object
  <2>2. \/ pc = "primary_map" /\ pc' = "llc_maps"
        \/ pc = "llc_maps" /\ pc' = "list_maps"
        \/ pc = "list_maps" /\ pc' = "attach"
    BY <1>5 DEF WritePrimaryBitmap, WriteLlcBitmaps, WriteLlcCpuLists
  <2>3. Ahead' < Ahead
    BY <2>2 DEF Ahead
  <2>4. Doomed' => Doomed
    BY <2>1, <2>2 DEF Doomed
  <2> QED BY <1>1, <2>3, <2>4, OneFurther
<1>6. CASE Attach
  <2>1. UNCHANGED <<opened, seq>> /\ pc = "attach" /\ pc' \in {"failed", "seed"}
    BY <1>6 DEF Attach, machine, object
  <2>2. opened = seq /\ pc' = "seed" => bpf' = "attached"
    BY <1>6 DEF Attach
  <2>3. Ahead' < Ahead
    BY <2>1 DEF Ahead
  <2>4. Doomed' => Doomed
    BY <2>1, <2>2 DEF Doomed, Live
  <2> QED BY <1>1, <2>3, <2>4, OneFurther
<1>7. CASE SeedWeb
  <2>1. UNCHANGED <<opened, seq, bpf>> /\ pc = "seed" /\ pc' = "run"
    BY <1>7 DEF SeedWeb, machine, object
  <2>2. Ahead' < Ahead
    BY <2>1 DEF Ahead
  <2>3. Doomed' => Doomed
    BY <2>1 DEF Doomed, Live
  <2> QED BY <1>1, <2>2, <2>3, OneFurther
<1>8. CASE Restart
  <2>1. pc = "run" /\ ~Live /\ pc' \in {"open", "join"}
    BY <1>8 DEF Restart, WantsRestart, Live
  <2>2. Left = 11
    BY <2>1 DEF Left, Ahead, Again, Doomed
  <2>3. Left' \in 0..10
    BY <2>1 DEF Left, Ahead, Again, Doomed
  <2> QED BY <2>2, <2>3
<1> QED BY <1>3, <1>4, <1>5, <1>6, <1>7, <1>8 DEF InitStep

(* However often CPUs came and went in the middle of it, from the last     *)
(* time on the main thread takes at most twenty steps until the daemon     *)
(* runs with a scheduler that is attached, has failed to load, or waits    *)
(* for the web UI: a second exit for the same hotplug, which would restart *)
(* it for ever, is impossible, because an attach is rejected only for a    *)
(* number older than the kernel's and every incarnation reads it anew.     *)
(* What this leaves of Settles is that the main thread keeps running.      *)
THEOREM StepsSettle ==
  Spec => [](Left \in 0..20 /\ (Left = 0 <=> Settled)) /\ InitAdvances
<1>1. IInv /\ CourseInv => Left \in 0..20 /\ (Left = 0 <=> Settled)
  BY LeftBounded
<1>2. IInv /\ CourseInv => [InitStep => Left' < Left]_vars
  BY StepAdvances
<1> QED BY <1>1, <1>2, Invariance, CourseKept, PTL DEF InitAdvances

=============================================================================
