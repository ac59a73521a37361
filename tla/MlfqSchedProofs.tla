--------------------------- MODULE MlfqSchedProofs -------------------------
(***************************************************************************)
(* Proofs about MlfqSched, for any CPUs, tasks, queues, affinities and     *)
(* kernel version.                                                         *)
(***************************************************************************)
EXTENDS MlfqSched, SequenceTheorems, FiniteSetTheorems, TLAPS

-----------------------------------------------------------------------------
(* The invariant.                                                          *)

(* What the phase of a CPU says of its records.                            *)
Coherent(s) ==
  /\ s.cur = Rt => s.phase = "run" /\ s.occ
  /\ s.cur = None => s.phase # "run"
  /\ s.occ => s.cur \in {Rt, None} /\ ~s.idle
  /\ s.phase = "put" => s.cur \in Tasks
  /\ s.phase \in {"pick", "rt"} => s.cur \notin Tasks
  /\ s.phase = "dispatch" => s.slot[2] # 0

CpuInv == \A c \in Cpus : Coherent(cpu[c])

(* A task between its CPU selection and its enqueue, or between the two    *)
(* halves of an affinity change, keeps its waker where it is.              *)
WakerInv ==
  \A t \in Tasks :
    /\ task[t].where \in {"waking", "forking", "requeued"} /\ task[t].enq # NoCpu
         => cpu[task[t].enq].phase = "run"
    /\ task[t].where = "requeued"
         => task[t].enq \in Cpus /\ cpu[task[t].enq].cur \in Tasks

(* A local DSQ holds tasks accounted to its CPU.                           *)
HomeInv == \A t \in Tasks : task[t].where = "local" => task[t].at = task[t].home

(* A task in a DSQ of c that c has to notice.  The kernel may insert a     *)
(* re-enqueued one again with nothing but the kick it has.                 *)
Awaits(t, c) ==
  /\ task[t].at = c /\ c \in task[t].aff
  /\ ~task[t].own \/ t \in reenq

(* Nothing the present context switch of c can still dispatch.             *)
Passed(t, c) ==
  /\ task[t].where = "queue" /\ local[c] = <<>>
  /\ \/ cpu[c].phase = "dispatch" /\ task[t].queue < cpu[c].slot[1]
     \/ cpu[c].phase \in {"put", "pick"}

Idles(c) == cpu[c].phase = "run" /\ cpu[c].cur = Idle

(* A task that an idle CPU, or one about to be, has to notice, and that    *)
(* came too late for its context switch, has the CPU kicked.               *)
KickInv ==
  \A c \in Cpus, t \in Tasks :
    /\ Awaits(t, c)
    /\ Passed(t, c) \/ (Idles(c) /\ task[t].where \in {"queue", "local"})
    => cpu[c].kick

IInv == TypeOK /\ CpuInv /\ WakerInv /\ HomeInv /\ VetoBacked /\ KickInv

-----------------------------------------------------------------------------
(* Sequences without duplicates, as the sets of their elements.            *)

Unique(s) == \A i, j \in DOMAIN s : s[i] = s[j] => i = j

LEMMA EmptySet ==
  ASSUME NEW S, NEW s \in Seq(S)
  PROVE  s = <<>> <=> ToSet(s) = {}
<1>1. DOMAIN s = 1..Len(s) /\ Len(s) \in Nat
  BY LenProperties
<1>2. s # <<>> => 1 \in DOMAIN s
  BY <1>1, EmptySeq
<1>3. s = <<>> => DOMAIN s = {}
  BY <1>1, EmptySeq, SMT
<1> QED BY <1>2, <1>3 DEF ToSet

LEMMA AppendSet ==
  ASSUME NEW S, NEW s \in Seq(S), Unique(s), NEW e \in S, e \notin ToSet(s)
  PROVE  LET r == Append(s, e) IN
         r \in Seq(S) /\ Unique(r) /\ ToSet(r) = ToSet(s) \cup {e} /\ r # <<>>
<1> DEFINE r == Append(s, e)
<1>1. /\ Len(s) \in Nat /\ DOMAIN s = 1..Len(s)
      /\ r \in Seq(S) /\ r # <<>> /\ DOMAIN r = 1..(Len(s) + 1)
      /\ \A i \in 1..Len(s) : r[i] = s[i]
      /\ r[Len(s) + 1] = e
  BY AppendProperties, LenProperties
<1> HIDE DEF r
<1>2. ToSet(r) = ToSet(s) \cup {e}
  BY <1>1, SMT DEF ToSet
<1>3. Unique(r)
  BY <1>1, SMT DEF ToSet, Unique
<1> QED BY <1>1, <1>2, <1>3 DEF r

LEMMA PrependSet ==
  ASSUME NEW S, NEW s \in Seq(S), Unique(s), NEW e \in S, e \notin ToSet(s)
  PROVE  LET r == <<e>> \o s IN
         r \in Seq(S) /\ Unique(r) /\ ToSet(r) = ToSet(s) \cup {e} /\ r # <<>>
<1> DEFINE r == <<e>> \o s
<1>1. /\ Len(s) \in Nat /\ DOMAIN s = 1..Len(s)
      /\ r \in Seq(S) /\ DOMAIN r = 1..(Len(s) + 1)
      /\ \A i \in 1..Len(s) : r[i + 1] = s[i]
      /\ r[1] = e
  OBVIOUS
<1>2. r # <<>>
  BY <1>1, EmptySeq, SMT
<1> HIDE DEF r
<1>3. ToSet(r) = ToSet(s) \cup {e}
  <2>1. \A i \in DOMAIN s : i + 1 \in DOMAIN r /\ r[i + 1] = s[i]
    BY <1>1, SMT
  <2>2. \A j \in DOMAIN r : j = 1 \/ (j - 1 \in DOMAIN s /\ r[j] = s[j - 1])
    BY <1>1, SMT
  <2>3. 1 \in DOMAIN r
    BY <1>1, SMT
  <2>4. ASSUME NEW x \in ToSet(r) PROVE x \in ToSet(s) \cup {e}
    <3>1. PICK j \in DOMAIN r : x = r[j]
      BY <2>4 DEF ToSet
    <3> QED BY <1>1, <2>2, <3>1 DEF ToSet
  <2>5. ASSUME NEW x \in ToSet(s) PROVE x \in ToSet(r)
    <3>1. PICK j \in DOMAIN s : x = s[j]
      BY <2>5 DEF ToSet
    <3> QED BY <2>1, <3>1 DEF ToSet
  <2>6. e \in ToSet(r)
    BY <1>1, <2>3 DEF ToSet
  <2> QED BY <2>4, <2>5, <2>6
<1>4. Unique(r)
  <2> SUFFICES ASSUME NEW i \in DOMAIN r, NEW j \in DOMAIN r, r[i] = r[j] PROVE i = j
    BY DEF Unique
  <2>1. i = 1 \/ (i - 1 \in DOMAIN s /\ r[i] = s[i - 1])
    BY <1>1, SMT
  <2>2. j = 1 \/ (j - 1 \in DOMAIN s /\ r[j] = s[j - 1])
    BY <1>1, SMT
  <2>3. \A k \in DOMAIN s : s[k] # e
    BY DEF ToSet
  <2>4. i - 1 \in DOMAIN s /\ j - 1 \in DOMAIN s /\ s[i - 1] = s[j - 1] => i - 1 = j - 1
    BY DEF Unique
  <2> QED BY <1>1, <2>1, <2>2, <2>3, <2>4, SMT
<1> QED BY <1>1, <1>2, <1>3, <1>4 DEF r

LEMMA TailSet ==
  ASSUME NEW S, NEW s \in Seq(S), Unique(s), s # <<>>
  PROVE  LET r == Tail(s) IN
         /\ Head(s) \in ToSet(s)
         /\ r \in Seq(S) /\ Unique(r) /\ ToSet(r) = ToSet(s) \ {Head(s)}
<1> DEFINE r == Tail(s)
<1>1. /\ Len(s) \in Nat \ {0} /\ DOMAIN s = 1..Len(s)
      /\ r \in Seq(S) /\ DOMAIN r = 1..(Len(s) - 1)
      /\ \A i \in 1..(Len(s) - 1) : r[i] = s[i + 1]
      /\ Head(s) = s[1]
  BY HeadTailProperties, EmptySeq, LenProperties
<1> HIDE DEF r
<1>2. /\ 1 \in DOMAIN s
      /\ \A i \in DOMAIN r : i + 1 \in DOMAIN s /\ i + 1 # 1 /\ r[i] = s[i + 1]
      /\ \A j \in DOMAIN s : j = 1 \/ (j - 1 \in DOMAIN r /\ r[j - 1] = s[j])
  BY <1>1, SMT
<1>3. ToSet(r) = ToSet(s) \ {Head(s)}
  <2>1. ASSUME NEW x \in ToSet(r) PROVE x \in ToSet(s) \ {s[1]}
    <3>1. PICK j \in DOMAIN r : x = r[j]
      BY <2>1 DEF ToSet
    <3>2. j + 1 \in DOMAIN s /\ j + 1 # 1 /\ x = s[j + 1]
      BY <1>2, <3>1
    <3>3. s[j + 1] # s[1]
      BY <1>2, <3>2 DEF Unique
    <3> QED BY <3>2, <3>3 DEF ToSet
  <2>2. ASSUME NEW x \in ToSet(s) \ {s[1]} PROVE x \in ToSet(r)
    <3>1. PICK j \in DOMAIN s : x = s[j]
      BY <2>2 DEF ToSet
    <3>2. j - 1 \in DOMAIN r /\ r[j - 1] = x
      BY <1>2, <2>2, <3>1
    <3> QED BY <3>2 DEF ToSet
  <2> QED BY <1>1, <2>1, <2>2
<1>4. Unique(r)
  BY <1>1, <1>2, SMT DEF Unique
<1> QED BY <1>1, <1>2, <1>3, <1>4 DEF r, ToSet

LEMMA RemoveSet ==
  ASSUME NEW S, NEW s \in Seq(S), Unique(s), NEW e
  PROVE  LET r == RemoveFirst(s, e) IN
         r \in Seq(S) /\ Unique(r) /\ ToSet(r) = ToSet(s) \ {e}
<1>1. Len(s) \in Nat /\ DOMAIN s = 1..Len(s)
  BY LenProperties
<1>2. CASE ~\E i \in 1..Len(s) : s[i] = e
  BY <1>1, <1>2 DEF RemoveFirst, ToSet
<1>3. CASE \E i \in 1..Len(s) : s[i] = e
  <2> DEFINE k == SelectInSeq(s, LAMBDA v : v = e)
             I == {i \in 1..Len(s) : s[i] = e}
             r == RemoveAt(s, k)
  <2>1. PICK i \in 1..Len(s) : s[i] = e
    BY <1>3
  <2>2. I = {i}
    BY <1>1, <2>1 DEF Unique
  <2>3. Min(I) = i
    BY <2>2, SMT DEF Min
  <2>4. k = i
    BY <2>2, <2>3, Zenon DEF SelectInSeq
  <2>5. RemoveFirst(s, e) = SubSeq(s, 1, i - 1) \o SubSeq(s, i + 1, Len(s))
    BY <1>3, <2>4, Zenon DEF RemoveFirst, RemoveAt
  <2> HIDE DEF k, I
  <2> DEFINE z == SubSeq(s, 1, i - 1) \o SubSeq(s, i + 1, Len(s))
  <2>6. /\ z \in Seq(S) /\ DOMAIN z = 1..(Len(s) - 1)
        /\ \A j \in 1..(Len(s) - 1) : z[j] = IF j < i THEN s[j] ELSE s[j + 1]
    <3> DEFINE a == SubSeq(s, 1, i - 1)
               b == SubSeq(s, i + 1, Len(s))
    <3>1. a \in Seq(S) /\ Len(a) = i - 1 /\ \A j \in 1..(i - 1) : a[j] = s[j]
      BY <1>1, <2>1
    <3>2. b \in Seq(S) /\ Len(b) = Len(s) - i /\ \A j \in 1..(Len(s) - i) : b[j] = s[j + i]
      <4>1. i + 1 \in Int /\ Len(s) \in Int /\ \A j \in (i + 1)..Len(s) : s[j] \in S
        BY <1>1, <2>1
      <4>2. /\ b \in Seq(S)
            /\ Len(b) = IF i + 1 <= Len(s) THEN Len(s) - (i + 1) + 1 ELSE 0
            /\ \A j \in 1..(Len(s) - (i + 1) + 1) : b[j] = s[(i + 1) + j - 1]
        BY <4>1, SubSeqProperties
      <4> HIDE DEF b
      <4> DEFINE n == Len(s)
      <4>3. n \in Nat /\ i \in Nat /\ i <= n
        BY <1>1, <2>1
      <4> HIDE DEF n
      <4>4. /\ (IF i + 1 <= n THEN n - (i + 1) + 1 ELSE 0) = n - i
            /\ n - (i + 1) + 1 = n - i
            /\ \A j \in 1..(n - i) : (i + 1) + j - 1 = j + i
        BY <4>3
      <4>5. ASSUME NEW j \in 1..(n - i) PROVE b[j] = s[j + i]
        <5>1. b[j] = s[(i + 1) + j - 1]
          BY <4>2, <4>4 DEF n
        <5> QED BY <4>4, <5>1
      <4> QED BY <4>2, <4>4, <4>5 DEF n
    <3> HIDE DEF a, b
    <3>3. /\ a \o b \in Seq(S) /\ Len(a \o b) = Len(a) + Len(b)
          /\ \A j \in 1..(Len(a) + Len(b)) : (a \o b)[j] = IF j <= Len(a) THEN a[j] ELSE b[j - Len(a)]
      BY <3>1, <3>2, ConcatProperties
    <3>4. z = a \o b
      BY DEF a, b
    <3> HIDE DEF z
    <3>5. z \in Seq(S) /\ Len(z) = Len(s) - 1 /\ DOMAIN z = 1..(Len(s) - 1)
      <4>1. Len(z) = Len(s) - 1
        <5> DEFINE n == Len(s)
        <5>1. n \in Nat /\ i \in Nat /\ Len(z) = (i - 1) + (n - i)
          BY <1>1, <2>1, <3>1, <3>2, <3>3, <3>4
        <5> HIDE DEF n
        <5>2. Len(z) = n - 1
          BY <5>1
        <5> QED BY <5>2 DEF n
      <4> QED BY <3>3, <3>4, <4>1, LenProperties
    <3>6. ASSUME NEW j \in 1..(Len(s) - 1) PROVE z[j] = IF j < i THEN s[j] ELSE s[j + 1]
      BY <1>1, <2>1, <3>1, <3>2, <3>3, <3>4, SMT
    <3> QED BY <3>5, <3>6
  <2> HIDE DEF z
  <2>7. /\ \A j \in DOMAIN z : \E n \in DOMAIN s : n # i /\ z[j] = s[n]
        /\ \A n \in DOMAIN s : n # i => \E j \in DOMAIN z : z[j] = s[n]
    <3>1. \A j \in DOMAIN z : (IF j < i THEN j ELSE j + 1) \in DOMAIN s \ {i}
                              /\ z[j] = s[IF j < i THEN j ELSE j + 1]
      BY <1>1, <2>1, <2>6, SMT
    <3>2. \A n \in DOMAIN s : n # i => /\ (IF n < i THEN n ELSE n - 1) \in DOMAIN z
                                       /\ z[IF n < i THEN n ELSE n - 1] = s[n]
      BY <1>1, <2>1, <2>6, SMT
    <3> QED BY <3>1, <3>2
  <2>8. ToSet(z) = ToSet(s) \ {e}
    <3>1. \A n \in DOMAIN s : s[n] = e <=> n = i
      BY <1>1, <2>1 DEF Unique
    <3>2. ASSUME NEW x \in ToSet(z) PROVE x \in ToSet(s) \ {e}
      <4>1. PICK j \in DOMAIN z : x = z[j]
        BY <3>2 DEF ToSet
      <4> QED BY <2>7, <3>1, <4>1 DEF ToSet
    <3>3. ASSUME NEW x \in ToSet(s) \ {e} PROVE x \in ToSet(z)
      <4>1. PICK n \in DOMAIN s : x = s[n]
        BY <3>3 DEF ToSet
      <4> QED BY <2>7, <3>1, <3>3, <4>1 DEF ToSet
    <3> QED BY <3>2, <3>3
  <2>9. Unique(z)
    <3> SUFFICES ASSUME NEW j \in DOMAIN z, NEW n \in DOMAIN z, z[j] = z[n] PROVE j = n
      BY DEF Unique
    <3>1. /\ (IF j < i THEN j ELSE j + 1) \in DOMAIN s /\ z[j] = s[IF j < i THEN j ELSE j + 1]
          /\ (IF n < i THEN n ELSE n + 1) \in DOMAIN s /\ z[n] = s[IF n < i THEN n ELSE n + 1]
      BY <1>1, <2>1, <2>6, SMT
    <3>2. (IF j < i THEN j ELSE j + 1) = (IF n < i THEN n ELSE n + 1)
      BY <3>1 DEF Unique
    <3> QED BY <1>1, <2>1, <2>6, <3>2, SMT
  <2> QED BY <2>5, <2>6, <2>8, <2>9 DEF z
<1> QED BY <1>2, <1>3

-----------------------------------------------------------------------------
(* The parts of the invariant, for one element each.                       *)

LEMMA Parts ==
  ASSUME TypeOK
  PROVE  /\ cpu \in [Cpus -> CpuState] /\ task \in [Tasks -> TaskState]
         /\ local \in [Cpus -> Seq(Tasks)]
         /\ reenq \subseteq Tasks
         /\ \A c \in Cpus : cpu[c] \in CpuState /\ Unique(local[c])
         /\ \A t \in Tasks : task[t] \in TaskState
         /\ \A t \in reenq : task[t].where \in {"local", "queue"}
         /\ \A c \in Cpus, t \in Tasks :
              /\ t \in ToSet(local[c]) <=> task[t].where = "local" /\ task[t].at = c
              /\ cpu[c].cur = t <=> task[t].where = "cpu" /\ task[t].home = c
BY DEF TypeOK, Unique

LEMMA MakeTypes ==
  ASSUME cpu' \in [Cpus -> CpuState], task' \in [Tasks -> TaskState],
         local' \in [Cpus -> Seq(Tasks)],
         \A c \in Cpus : Unique(local'[c]) /\ ToSet(local'[c]) \subseteq Tasks,
         \A t \in reenq' : t \in Tasks /\ task'[t].where \in {"local", "queue"},
         \A c \in Cpus, t \in Tasks :
           /\ t \in ToSet(local'[c]) <=> task'[t].where = "local" /\ task'[t].at = c
           /\ cpu'[c].cur = t <=> task'[t].where = "cpu" /\ task'[t].home = c
  PROVE  TypeOK'
<1>1. ToSet(local)' = ToSet(local')
  BY DEF ToSet
<1>2. ASSUME NEW c \in Cpus
      PROVE  /\ {t \in Tasks : task'[t].where = "local" /\ task'[t].at = c} = ToSet(local'[c])
             /\ {t \in Tasks : task'[t].where = "cpu" /\ task'[t].home = c} = {cpu'[c].cur} \cap Tasks
  OBVIOUS
<1>3. reenq' \subseteq {t \in Tasks : task'[t].where \in {"local", "queue"}}
  OBVIOUS
<1> QED BY <1>2, <1>3 DEF TypeOK, Unique

(* The set of a sequence over Tasks.                                       *)
LEMMA SetInTasks ==
  ASSUME NEW s \in Seq(Tasks)
  PROVE  ToSet(s) \subseteq Tasks
BY DEF ToSet

-----------------------------------------------------------------------------
(* ops.enqueue.                                                            *)

LEMMA PlacementFacts ==
  ASSUME TypeOK, NEW t \in Tasks, NEW e \in Cpus, NEW kind, NEW q \in Queues,
         NEW p \in Placements(t, e, kind, q)
  PROVE  /\ p.to \in Cpus
         /\ p.dsq \in {"global", "claim", "queue", "local", "front"}
         /\ p.dsq \in {"claim", "local", "front"} => p.to = task[t].home
         /\ p.dsq = "claim" => cpu[task[t].home].idle
         /\ p.dsq = "local" => task[t].direct /\ ~cpu[e].occ
         /\ p.dsq = "front" => ~cpu[task[t].home].occ
<1>1. task[t] \in TaskState /\ task[t].home \in Cpus /\ task[t].aff \subseteq Cpus
  BY Parts, SchedAssumption DEF TaskState, SchedAssumption
<1>2. Unoccupied(t) \subseteq Cpus
  BY <1>1 DEF Unoccupied
<1>3. RegularCpu(t, e, kind) \in Cpus
  BY <1>1 DEF RegularCpu
<1>4. MayPreempt(t, e, kind, q) => ~cpu[task[t].home].occ
  BY DEF MayPreempt, Redirected, RegularCpu
<1> HIDE DEF MayPreempt, Redirected, RegularCpu, Unoccupied, Pinned
<1>5. CASE Pinned(t)
  BY <1>1, <1>5 DEF Placements
<1>6. CASE ~Pinned(t) /\ kind \in {"wakeup", "fork"} /\ task[t].direct /\ ~cpu[e].occ
  BY <1>1, <1>6 DEF Placements
<1>7. CASE ~Pinned(t) /\ ~(kind \in {"wakeup", "fork"} /\ task[t].direct /\ ~cpu[e].occ)
  <2>1. \/ MayPreempt(t, e, kind, q) /\ p = [dsq |-> "front", to |-> task[t].home]
        \/ \E c \in Cpus : p = [dsq |-> "queue", to |-> c]
    BY <1>2, <1>3, <1>7, Zenon DEF Placements
  <2> QED BY <1>1, <1>4, <2>1
<1> QED BY <1>5, <1>6, <1>7

LEMMA CpuAfterFacts ==
  ASSUME NEW c \in Cpus, NEW t \in Tasks, NEW e \in Cpus, NEW kind, NEW p,
         NEW s \in CpuState
  PROVE  LET r == CpuAfter(c, t, e, kind, p, s) IN
         /\ r \in CpuState
         /\ r.cur = s.cur /\ r.phase = s.phase /\ r.slot = s.slot
         /\ r.occ = s.occ /\ r.gate = s.gate /\ r.rec = s.rec /\ r.q1 = s.q1
         /\ s.kick \/ Kicked(c, e, p)
            \/ (kind \in {"wakeup", "fork"} /\ c = task[t].home /\ Stirred(c)) => r.kick
         /\ r.idle => s.idle
<1> DEFINE k == s.kick \/ Kicked(c, e, p)
                \/ (kind \in {"wakeup", "fork"} /\ c = task[t].home /\ Stirred(c))
           i == s.idle /\ ~(p.to = c /\ p.dsq = "claim")
           o == s.out \/ (p.to = c /\ p.dsq = "front" /\ cpu[c].cur \in Tasks)
<1>1. k \in BOOLEAN /\ i \in BOOLEAN /\ o \in BOOLEAN
  OBVIOUS
<1>2. CpuAfter(c, t, e, kind, p, s) = [s EXCEPT !.kick = k, !.idle = i, !.out = o]
  BY DEF CpuAfter
<1>3. i => s.idle
  OBVIOUS
<1> HIDE DEF k, i, o
<1>4. [s EXCEPT !.kick = k, !.idle = i, !.out = o].kick = k
  BY DEF CpuState
<1>5. k \/ ~(s.kick \/ Kicked(c, e, p)
            \/ (kind \in {"wakeup", "fork"} /\ c = task[t].home /\ Stirred(c)))
  BY DEF k
<1> QED BY <1>1, <1>2, <1>3, <1>4, <1>5 DEF CpuState

LEMMA EnqueueFacts ==
  ASSUME TypeOK, NEW t \in Tasks, NEW e \in Cpus, NEW kind, NEW q \in Queues,
         NEW p \in Placements(t, e, kind, q), Enqueue(t, e, kind, q, p)
  PROVE  /\ task' \in [Tasks -> TaskState]
         /\ \A u \in Tasks \ {t} : task'[u] = task[u]
         /\ task'[t].home = task[t].home /\ task'[t].aff = task[t].aff
         /\ task'[t].at = p.to /\ task'[t].enq = NoCpu
         /\ task'[t].where \in {"local", "queue", "global"}
         /\ task'[t].where = "local" <=> p.dsq \in {"local", "front", "claim"}
         /\ task'[t].where = "queue" <=> p.dsq = "queue"
         /\ (kind = "last" \/ p.to # task[t].home) /\ p.dsq = "queue" /\ p.to = e
            => task'[t].own
<1> DEFINE own == (kind = "last" \/ p.to # task[t].home) /\ p.dsq = "queue" /\ p.to = e
           where == IF p.dsq \in {"local", "front", "claim"} THEN "local" ELSE p.dsq
           n == [task[t] EXCEPT !.queue = q, !.direct = FALSE, !.enq = NoCpu,
                                !.at = p.to, !.own = own, !.where = where]
<1>1. /\ p.to \in Cpus /\ p.dsq \in {"global", "claim", "queue", "local", "front"}
  BY PlacementFacts
<1>2. own \in BOOLEAN /\ where \in {"local", "queue", "global"}
  BY <1>1
<1>3. task' = [task EXCEPT ![t] = n]
  BY DEF Enqueue
<1>4. /\ where = "local" <=> p.dsq \in {"local", "front", "claim"}
      /\ where = "queue" <=> p.dsq = "queue"
      /\ (kind = "last" \/ p.to # task[t].home) /\ p.dsq = "queue" /\ p.to = e => own
  BY <1>1
<1> HIDE DEF own, where
<1>a. task[t] \in TaskState
  BY Parts
<1>5. /\ n \in TaskState
      /\ n.home = task[t].home /\ n.aff = task[t].aff /\ n.at = p.to
      /\ n.enq = NoCpu /\ n.where = where /\ n.own = own
  BY <1>a, <1>1, <1>2 DEF TaskState
<1> HIDE DEF n
<1>6. /\ task' \in [Tasks -> TaskState] /\ task'[t] = n
      /\ \A u \in Tasks \ {t} : task'[u] = task[u]
  BY Parts, <1>3, <1>5
<1> QED BY <1>2, <1>4, <1>5, <1>6

LEMMA EnqueueQueues ==
  ASSUME TypeOK, NEW t \in Tasks, NEW e \in Cpus, NEW kind, NEW q \in Queues,
         NEW p \in Placements(t, e, kind, q), Enqueue(t, e, kind, q, p)
  PROVE  /\ local' \in [Cpus -> Seq(Tasks)]
         /\ \A c \in Cpus :
              /\ Unique(local'[c])
              /\ ToSet(local'[c]) =
                   (ToSet(local[c]) \ {t})
                   \cup (IF p.dsq \in {"local", "front", "claim"} /\ c = p.to THEN {t} ELSE {})
         /\ reenq' = reenq \ {t}
<1>1. ASSUME NEW c \in Cpus
      PROVE  /\ local'[c] \in Seq(Tasks) /\ Unique(local'[c])
             /\ ToSet(local'[c]) =
                  (ToSet(local[c]) \ {t})
                  \cup (IF p.dsq \in {"local", "front", "claim"} /\ c = p.to THEN {t} ELSE {})
  <2> DEFINE rest == RemoveFirst(local[c], t)
  <2>1. rest \in Seq(Tasks) /\ Unique(rest) /\ ToSet(rest) = ToSet(local[c]) \ {t}
    BY Parts, RemoveSet
  <2>2. local'[c] = IF c # p.to THEN rest
                    ELSE IF p.dsq = "front" THEN <<t>> \o rest
                    ELSE IF p.dsq \in {"local", "claim"} THEN Append(rest, t) ELSE rest
    BY DEF Enqueue
  <2> HIDE DEF rest
  <2>3. CASE c # p.to \/ p.dsq \notin {"local", "front", "claim"}
    BY <2>1, <2>2, <2>3
  <2>4. CASE c = p.to /\ p.dsq = "front"
    BY <2>1, <2>2, <2>4, PrependSet
  <2>5. CASE c = p.to /\ p.dsq \in {"local", "claim"}
    BY <2>1, <2>2, <2>5, AppendSet
  <2> QED BY <2>3, <2>4, <2>5
<1>2. local' \in [Cpus -> Seq(Tasks)]
  BY <1>1 DEF Enqueue
<1>3. reenq' = reenq \ {t}
  BY DEF Enqueue
<1> QED BY <1>1, <1>2, <1>3

-----------------------------------------------------------------------------
(* Steps that change the record of one CPU only, and may ask for           *)
(* re-enqueues of tasks it owns.                                           *)

LEMMA CpuStep ==
  ASSUME IInv, NEW c \in Cpus, NEW n \in CpuState,
         cpu' = [cpu EXCEPT ![c] = n], task' = task, local' = local,
         \A t \in reenq : t \in reenq',
         \A t \in reenq' : t \in reenq \/ (/\ t \in Tasks /\ task[t].at = c
                                          /\ task[t].where \in {"local", "queue"}),
         \A t \in Tasks : n.cur = t <=> cpu[c].cur = t,
         Coherent(n),
         n.phase = "run" \/ cpu[c].phase # "run" \/ ~MidWake(c),
         n.q1 => cpu[c].q1,
         \A t \in Tasks :
           Awaits(t, c)' /\ (Passed(t, c) \/ (Idles(c) /\ task[t].where \in {"queue", "local"}))'
           => n.kick
  PROVE  IInv'
<1>1. cpu' \in [Cpus -> CpuState] /\ cpu'[c] = n /\ \A d \in Cpus \ {c} : cpu'[d] = cpu[d]
  BY Parts DEF IInv
<1>2. TypeOK'
  <2>1. \A d \in Cpus : Unique(local'[d]) /\ ToSet(local'[d]) \subseteq Tasks
    BY Parts, SetInTasks DEF IInv
  <2>2. \A t \in reenq' : t \in Tasks /\ task'[t].where \in {"local", "queue"}
    BY Parts DEF IInv
  <2>3. \A d \in Cpus, t \in Tasks :
           /\ t \in ToSet(local'[d]) <=> task'[t].where = "local" /\ task'[t].at = d
           /\ cpu'[d].cur = t <=> task'[t].where = "cpu" /\ task'[t].home = d
    BY Parts, <1>1 DEF IInv
  <2> QED BY Parts, MakeTypes, <1>1, <2>1, <2>2, <2>3 DEF IInv
<1>3. CpuInv'
  BY <1>1 DEF IInv, CpuInv, Coherent
<1>4. WakerInv'
  <2>1. ASSUME NEW t \in Tasks, task[t].where \in {"waking", "forking", "requeued"},
               task[t].enq # NoCpu
        PROVE  cpu'[task[t].enq].phase = "run"
    <3>1. cpu[task[t].enq].phase = "run" /\ task[t].enq \in Cpus
      BY Parts, <2>1 DEF IInv, WakerInv, TaskState
    <3> QED BY <1>1, <2>1, <3>1 DEF MidWake
  <2>2. ASSUME NEW t \in Tasks, task[t].where = "requeued"
        PROVE  task[t].enq \in Cpus /\ cpu'[task[t].enq].cur \in Tasks
    BY <1>1, <2>2 DEF IInv, WakerInv
  <2> QED BY <2>1, <2>2 DEF WakerInv
<1>5. HomeInv'
  BY DEF IInv, HomeInv
<1>6. VetoBacked'
  BY <1>1 DEF IInv, VetoBacked
<1>7. KickInv'
  <2>1. ASSUME NEW d \in Cpus, NEW t \in Tasks,
               (Awaits(t, d)
                /\ (Passed(t, d) \/ (Idles(d) /\ task[t].where \in {"queue", "local"})))'
        PROVE  cpu'[d].kick
    <3>1. CASE d = c
      BY <1>1, <2>1, <3>1
    <3>2. CASE d # c
      BY <1>1, <2>1, <3>2 DEF IInv, KickInv, Awaits, Passed, Idles
    <3> QED BY <3>1, <3>2
  <2> QED BY <2>1 DEF KickInv
<1> QED BY <1>2, <1>3, <1>4, <1>5, <1>6, <1>7 DEF IInv

(* The same when no re-enqueue is asked for.                               *)
LEMMA RecordStep ==
  ASSUME IInv, NEW c \in Cpus, NEW n \in CpuState,
         cpu' = [cpu EXCEPT ![c] = n], UNCHANGED <<task, local, reenq>>,
         n.cur = cpu[c].cur \/ (n.cur \notin Tasks /\ cpu[c].cur \notin Tasks),
         Coherent(n),
         n.phase = "run" \/ cpu[c].phase # "run" \/ ~MidWake(c),
         n.q1 => cpu[c].q1,
         \A t \in Tasks :
           /\ Awaits(t, c)
           /\ \/ /\ task[t].where = "queue" /\ local[c] = <<>>
                 /\ \/ n.phase = "dispatch" /\ task[t].queue < n.slot[1]
                    \/ n.phase \in {"put", "pick"}
              \/ /\ n.phase = "run" /\ n.cur = Idle
                 /\ task[t].where \in {"queue", "local"}
           => n.kick
  PROVE  IInv'
<1>1. cpu'[c] = n
  BY Parts DEF IInv
<1>2. \A t \in Tasks :
        (Awaits(t, c) /\ (Passed(t, c) \/ (Idles(c) /\ task[t].where \in {"queue", "local"})))'
        => n.kick
  BY <1>1 DEF Awaits, Passed, Idles
<1>3. \A t \in Tasks : n.cur = t <=> cpu[c].cur = t
  OBVIOUS
<1>4. /\ \A t \in reenq : t \in reenq'
      /\ \A t \in reenq' : t \in reenq
  OBVIOUS
<1> QED BY CpuStep, <1>2, <1>3, <1>4

(* A task moves from a queue DSQ or the global one to the local DSQ of a   *)
(* CPU that is choosing.                                                   *)
LEMMA MoveStep ==
  ASSUME IInv, NEW c \in Cpus, NEW t \in Tasks, NEW n \in CpuState,
         cpu' = [cpu EXCEPT ![c] = n],
         task[t].where \in {"global", "queue"}, MoveToLocal(t, c),
         n.cur = cpu[c].cur, n.q1 = cpu[c].q1, Coherent(n),
         n.phase # "run", cpu[c].phase # "run"
  PROVE  IInv'
<1> DEFINE m == [task[t] EXCEPT !.where = "local", !.at = c, !.home = c, !.own = FALSE]
<1>1. cpu' \in [Cpus -> CpuState] /\ cpu'[c] = n /\ \A d \in Cpus \ {c} : cpu'[d] = cpu[d]
  BY Parts DEF IInv
<1>2. /\ m \in TaskState /\ m.where = "local" /\ m.at = c /\ m.home = c
      /\ task' = [task EXCEPT ![t] = m]
  <2>1. task[t] \in TaskState
    BY Parts DEF IInv
  <2>2. /\ m \in TaskState /\ m.where = "local" /\ m.at = c /\ m.home = c
    BY <2>1 DEF TaskState
  <2> QED BY <2>2 DEF MoveToLocal
<1> HIDE DEF m
<1>3. /\ task' \in [Tasks -> TaskState] /\ task'[t] = m
      /\ \A u \in Tasks \ {t} : task'[u] = task[u]
  BY Parts, <1>2 DEF IInv
<1>4. /\ local' \in [Cpus -> Seq(Tasks)]
      /\ \A d \in Cpus \ {c} : local'[d] = local[d]
      /\ Unique(local'[c]) /\ ToSet(local'[c]) = ToSet(local[c]) \cup {t} /\ local'[c] # <<>>
  <2>1. t \notin ToSet(local[c])
    BY Parts DEF IInv
  <2>2. Append(local[c], t) \in Seq(Tasks)
    BY Parts, AppendSet, <2>1 DEF IInv
  <2>3. /\ local' \in [Cpus -> Seq(Tasks)] /\ local'[c] = Append(local[c], t)
        /\ \A d \in Cpus \ {c} : local'[d] = local[d]
    BY Parts, <2>2 DEF IInv, MoveToLocal
  <2> QED BY Parts, AppendSet, <2>1, <2>3 DEF IInv
<1>5. reenq' = reenq \ {t}
  BY DEF MoveToLocal
<1>6. TypeOK'
  <2>1. \A d \in Cpus : Unique(local'[d]) /\ ToSet(local'[d]) \subseteq Tasks
    BY Parts, SetInTasks, <1>4 DEF IInv
  <2>2. \A u \in reenq' : u \in Tasks /\ task'[u].where \in {"local", "queue"}
    BY Parts, <1>3, <1>5 DEF IInv
  <2>3. \A d \in Cpus, u \in Tasks :
           /\ u \in ToSet(local'[d]) <=> task'[u].where = "local" /\ task'[u].at = d
           /\ cpu'[d].cur = u <=> task'[u].where = "cpu" /\ task'[u].home = d
    BY Parts, <1>1, <1>2, <1>3, <1>4 DEF IInv
  <2> QED BY MakeTypes, <1>1, <1>3, <1>4, <2>1, <2>2, <2>3
<1>7. CpuInv'
  BY <1>1 DEF IInv, CpuInv, Coherent
<1>8. WakerInv'
  <2>1. ASSUME NEW u \in Tasks, task'[u].where \in {"waking", "forking", "requeued"}
        PROVE  u # t /\ task'[u] = task[u]
    BY <1>2, <1>3, <2>1
  <2> QED BY Parts, <1>1, <2>1 DEF IInv, WakerInv, TaskState
<1>9. HomeInv'
  BY <1>2, <1>3 DEF IInv, HomeInv
<1>10. VetoBacked'
  BY Parts, <1>1, <1>3 DEF IInv, VetoBacked
<1>11. KickInv'
  BY <1>1, <1>2, <1>3, <1>4, <1>5 DEF IInv, KickInv, Awaits, Passed, Idles
<1> QED BY <1>6, <1>7, <1>8, <1>9, <1>10, <1>11 DEF IInv

(* A task that is in no local DSQ and on no CPU gets new fields.           *)
LEMMA AsideStep ==
  ASSUME IInv, NEW t \in Tasks, NEW n \in TaskState,
         task' = [task EXCEPT ![t] = n], local' = local, reenq' = reenq \ {t},
         task[t].where \notin {"cpu", "local"}, n.where \notin {"cpu", "local", "queue"},
         cpu' \in [Cpus -> CpuState],
         \A d \in Cpus :
           /\ cpu'[d].cur = cpu[d].cur /\ cpu'[d].phase = cpu[d].phase
           /\ cpu'[d].slot = cpu[d].slot /\ cpu'[d].kick = cpu[d].kick
           /\ cpu'[d].q1 => cpu[d].q1
           /\ Coherent(cpu'[d]),
         n.where \in {"waking", "forking", "requeued"} /\ n.enq # NoCpu
           => cpu[n.enq].phase = "run",
         n.where = "requeued" => n.enq \in Cpus /\ cpu[n.enq].cur \in Tasks
  PROVE  IInv'
<1>1. /\ task' \in [Tasks -> TaskState] /\ task'[t] = n
      /\ \A u \in Tasks \ {t} : task'[u] = task[u]
  BY Parts DEF IInv
<1>2. TypeOK'
  <2>1. \A d \in Cpus : Unique(local'[d]) /\ ToSet(local'[d]) \subseteq Tasks
    BY Parts, SetInTasks DEF IInv
  <2>2. \A u \in reenq' : u \in Tasks /\ task'[u].where \in {"local", "queue"}
    BY Parts, <1>1 DEF IInv
  <2>3. ASSUME NEW d \in Cpus, NEW u \in Tasks
        PROVE  /\ u \in ToSet(local'[d]) <=> task'[u].where = "local" /\ task'[u].at = d
               /\ cpu'[d].cur = u <=> task'[u].where = "cpu" /\ task'[u].home = d
    <3>1. /\ u \in ToSet(local[d]) <=> task[u].where = "local" /\ task[u].at = d
          /\ cpu[d].cur = u <=> task[u].where = "cpu" /\ task[u].home = d
      BY Parts DEF IInv
    <3>2. CASE u = t
      BY <1>1, <3>1, <3>2
    <3>3. CASE u # t
      BY <1>1, <3>1, <3>3
    <3> QED BY <3>2, <3>3
  <2> QED BY Parts, MakeTypes, <1>1, <2>1, <2>2, <2>3 DEF IInv
<1>3. CpuInv'
  BY DEF CpuInv, Coherent
<1>4. WakerInv'
  <2>1. ASSUME NEW u \in Tasks \ {t}
        PROVE  /\ task'[u].where \in {"waking", "forking", "requeued"} /\ task'[u].enq # NoCpu
                    => cpu'[task'[u].enq].phase = "run"
               /\ task'[u].where = "requeued"
                    => task'[u].enq \in Cpus /\ cpu'[task'[u].enq].cur \in Tasks
    <3>1. task'[u] = task[u] /\ task[u].enq \in Cpus \cup {NoCpu}
      BY Parts, <1>1 DEF IInv, TaskState
    <3> QED BY <3>1 DEF IInv, WakerInv
  <2>2. n.enq \in Cpus \cup {NoCpu}
    BY DEF TaskState
  <2> QED BY <1>1, <2>1, <2>2 DEF WakerInv
<1>5. HomeInv'
  BY <1>1 DEF IInv, HomeInv
<1>6. VetoBacked'
  <2>1. ASSUME NEW d \in Cpus, cpu'[d].q1
        PROVE  cpu'[d].cur \in Tasks /\ task'[cpu'[d].cur].queue = 1
    <3>1. cpu[d].cur \in Tasks /\ task[cpu[d].cur].queue = 1
      BY <2>1 DEF IInv, VetoBacked
    <3>2. cpu[d].cur # t
      BY Parts DEF IInv
    <3> QED BY <1>1, <3>1, <3>2
  <2> QED BY <2>1 DEF VetoBacked
<1>7. KickInv'
  <2>1. ASSUME NEW d \in Cpus, NEW u \in Tasks,
               (Awaits(u, d)
                /\ (Passed(u, d) \/ (Idles(d) /\ task[u].where \in {"queue", "local"})))'
        PROVE  cpu'[d].kick
    <3>1. u # t
      BY <1>1, <2>1 DEF Passed
    <3>2. task'[u] = task[u] /\ (u \in reenq' => u \in reenq)
      BY <1>1, <3>1
    <3> QED BY <2>1, <3>2 DEF IInv, KickInv, Awaits, Passed, Idles
  <2> QED BY <2>1 DEF KickInv
<1> QED BY <1>2, <1>3, <1>4, <1>5, <1>6, <1>7 DEF IInv

(* A task goes through ops.enqueue.                                        *)
LEMMA EnqueueInv ==
  ASSUME IInv, NEW t \in Tasks, NEW e \in Cpus, NEW kind, NEW q \in Queues,
         NEW p \in Placements(t, e, kind, q), Enqueue(t, e, kind, q, p),
         cpu' \in [Cpus -> CpuState],
         \A d \in Cpus :
           /\ Coherent(cpu'[d])
           /\ \A u \in Tasks : cpu'[d].cur = u <=> cpu[d].cur = u /\ u # t
           /\ cpu'[d].q1 => cpu[d].q1 /\ cpu'[d].cur = cpu[d].cur
           /\ MidWake(d) => cpu'[d].phase = cpu[d].phase /\ cpu'[d].cur = cpu[d].cur
           /\ cpu[d].kick \/ Kicked(d, e, p)
              \/ (kind \in {"wakeup", "fork"} /\ d = task[t].home /\ Stirred(d))
              => cpu'[d].kick
           /\ Idles(d)' => Idles(d)
           /\ cpu'[d].phase \in {"put", "pick"} => cpu[d].phase \in {"put", "pick"}
           /\ cpu'[d].phase = "dispatch"
              => cpu[d].phase = "dispatch" /\ cpu'[d].slot = cpu[d].slot,
         task[t].where = "local" => cpu[task[t].at].phase = "run",
         kind \in {"wakeup", "fork"}
         \/ (kind = "other" /\ cpu[e].phase = "run" /\ cpu[e].cur \in Tasks)
         \/ (kind = "reenq" /\ t \in reenq /\ task[t].at = e /\ cpu[e].phase = "run")
         \/ kind = "last"
         \/ (kind = "runout" /\ cpu'[e].phase = "rt")
         \/ (kind = "runout" /\ cpu'[e].phase = "pick" /\ local[e] # <<>>)
  PROVE  IInv'
<1>0. TypeOK
  BY DEF IInv
<1>a. /\ task' \in [Tasks -> TaskState]
      /\ \A u \in Tasks \ {t} : task'[u] = task[u]
      /\ task'[t].home = task[t].home /\ task'[t].aff = task[t].aff
      /\ task'[t].at = p.to /\ task'[t].enq = NoCpu
      /\ task'[t].where \in {"local", "queue", "global"}
      /\ task'[t].where = "local" <=> p.dsq \in {"local", "front", "claim"}
      /\ task'[t].where = "queue" <=> p.dsq = "queue"
      /\ (kind = "last" \/ p.to # task[t].home) /\ p.dsq = "queue" /\ p.to = e
         => task'[t].own
  BY <1>0, EnqueueFacts
<1>b. /\ local' \in [Cpus -> Seq(Tasks)]
      /\ \A c \in Cpus :
           /\ Unique(local'[c])
           /\ ToSet(local'[c]) =
                (ToSet(local[c]) \ {t})
                \cup (IF p.dsq \in {"local", "front", "claim"} /\ c = p.to THEN {t} ELSE {})
      /\ reenq' = reenq \ {t}
  BY <1>0, EnqueueQueues
<1>c. /\ p.to \in Cpus
      /\ p.dsq \in {"claim", "local", "front"} => p.to = task[t].home
  BY PlacementFacts DEF IInv
<1>1. TypeOK'
  <2>1. \A d \in Cpus : Unique(local'[d]) /\ ToSet(local'[d]) \subseteq Tasks
    BY SetInTasks, <1>b
  <2>2. \A u \in reenq' : u \in Tasks /\ task'[u].where \in {"local", "queue"}
    BY Parts, <1>a, <1>b DEF IInv
  <2>3. ASSUME NEW d \in Cpus, NEW u \in Tasks
        PROVE  /\ u \in ToSet(local'[d]) <=> task'[u].where = "local" /\ task'[u].at = d
               /\ cpu'[d].cur = u <=> task'[u].where = "cpu" /\ task'[u].home = d
    <3>1. CASE u = t
      BY <1>a, <1>b, <1>c, <3>1
    <3>2. CASE u # t
      BY Parts, <1>a, <1>b, <3>2 DEF IInv
    <3> QED BY <3>1, <3>2
  <2> QED BY MakeTypes, <1>a, <1>b, <2>1, <2>2, <2>3
<1>2. CpuInv'
  BY DEF CpuInv, Coherent
<1>3. WakerInv'
  <2>1. ASSUME NEW u \in Tasks, task'[u].where \in {"waking", "forking", "requeued"}
        PROVE  u # t /\ task'[u] = task[u]
    BY <1>a, <2>1
  <2>2. ASSUME NEW u \in Tasks, task[u].where \in {"waking", "forking", "requeued"},
               task[u].enq # NoCpu
        PROVE  /\ task[u].enq \in Cpus
               /\ cpu'[task[u].enq].phase = cpu[task[u].enq].phase
               /\ cpu'[task[u].enq].cur = cpu[task[u].enq].cur
    <3>1. task[u].enq \in Cpus
      BY Parts, <2>2 DEF IInv, TaskState
    <3>2. MidWake(task[u].enq)
      BY <2>2 DEF MidWake
    <3> QED BY <3>1, <3>2
  <2>3. NoCpu \notin Cpus
    BY SchedAssumption DEF SchedAssumption
  <2> QED BY <2>1, <2>2, <2>3 DEF IInv, WakerInv
<1>4. HomeInv'
  BY <1>a, <1>c DEF IInv, HomeInv
<1>5. VetoBacked'
  BY <1>a DEF IInv, VetoBacked
<1>6. KickInv'
  <2> SUFFICES ASSUME NEW d \in Cpus, NEW u \in Tasks, Awaits(u, d)',
                      (Passed(u, d) \/ (Idles(d) /\ task[u].where \in {"queue", "local"}))',
                      ~cpu'[d].kick
               PROVE  FALSE
    BY DEF KickInv
  <2>1. ~cpu[d].kick /\ ~Kicked(d, e, p)
        /\ ~(kind \in {"wakeup", "fork"} /\ d = task[t].home /\ Stirred(d))
    OBVIOUS
  <2>2. CASE u # t
    <3>1. Awaits(u, d)
      BY <1>a, <1>b, <2>2 DEF Awaits
    <3>2. CASE Passed(u, d)'
      <4>1. task[u].where = "queue" /\ local'[d] = <<>> /\ cpu'[d].phase # "run"
        BY <1>a, <2>2, <3>2 DEF Passed
      <4>2. cpu[d].phase # "run"
        BY <3>2 DEF Passed
      <4>3. ToSet(local[d]) = {}
        <5>1. ToSet(local'[d]) = {}
          BY <1>b, <4>1, EmptySet
        <5>2. t \notin ToSet(local[d])
          BY Parts, <4>2 DEF IInv
        <5>3. ToSet(local[d]) \ {t} \subseteq ToSet(local'[d])
          BY <1>b
        <5> QED BY <5>1, <5>2, <5>3
      <4>4. local[d] = <<>>
        BY Parts, EmptySet, <4>3 DEF IInv
      <4>5. Passed(u, d)
        BY <1>a, <2>2, <3>2, <4>1, <4>4 DEF Passed
      <4> QED BY <2>1, <3>1, <4>5 DEF IInv, KickInv
    <3>3. CASE Idles(d)' /\ task'[u].where \in {"queue", "local"}
      BY <1>a, <2>1, <2>2, <3>1, <3>3 DEF IInv, KickInv
    <3> QED BY <3>2, <3>3
  <2>3. CASE u = t
    <3>1. p.to = d /\ d \in task[t].aff /\ ~task'[t].own
      BY <1>a, <1>b, <2>3 DEF Awaits
    <3>2. p.dsq \in {"queue", "local", "front", "claim"}
      BY <1>a, <2>3 DEF Passed
    <3>3. Stirred(d)
      BY DEF Stirred, Passed, Idles
    <3>4. p.dsq = "queue" /\ d = e
      BY <2>1, <3>1, <3>2, <3>3 DEF Kicked
    <3>5. kind # "last" /\ d = task[t].home
      BY <1>a, <3>1, <3>4
    <3>6. kind \notin {"wakeup", "fork"}
      BY <2>1, <3>3, <3>5
    <3>7. CASE kind = "other" /\ cpu[e].phase = "run" /\ cpu[e].cur \in Tasks
      BY <3>3, <3>4, <3>7, SchedAssumption DEF Stirred, SchedAssumption
    <3>8. CASE kind = "reenq" /\ t \in reenq /\ task[t].at = e /\ cpu[e].phase = "run"
      <4>1. Idles(d)
        BY <3>3, <3>4, <3>8 DEF Stirred, Idles
      <4>2. Awaits(t, d) /\ task[t].where \in {"queue", "local"}
        BY Parts, <3>1, <3>4, <3>8 DEF IInv, Awaits
      <4> QED BY <2>1, <4>1, <4>2 DEF IInv, KickInv
    <3>9. CASE kind = "runout" /\ cpu'[e].phase = "rt"
      BY <3>4, <3>9 DEF Passed, Idles
    <3>10. CASE kind = "runout" /\ cpu'[e].phase = "pick" /\ local[e] # <<>>
      <4>1. local'[e] = <<>>
        BY <3>4, <3>10 DEF Passed, Idles
      <4>2. ToSet(local'[e]) = {} /\ ToSet(local[e]) # {}
        BY Parts, EmptySet, <1>b, <3>10, <4>1 DEF IInv
      <4>3. cpu[e].phase # "run"
        BY <3>10
      <4>4. t \notin ToSet(local[e])
        BY Parts, <4>3 DEF IInv
      <4>5. ToSet(local[e]) \ {t} \subseteq ToSet(local'[e])
        BY <1>b
      <4> QED BY <4>2, <4>4, <4>5
    <3> QED BY <3>5, <3>6, <3>7, <3>8, <3>9, <3>10
  <2> QED BY <2>2, <2>3
<1> QED BY <1>1, <1>2, <1>3, <1>4, <1>5, <1>6 DEF IInv

-----------------------------------------------------------------------------
(* Each action preserves the invariant: wakeups, forks, affinity changes.  *)

LEMMA SelectCpuInv ==
  ASSUME IInv, NEW w \in Cpus, NEW t \in Tasks, SelectCpu(w, t)
  PROVE  IInv'
<1>1. PICK c \in task[t].aff, direct \in BOOLEAN :
        \E e \in EnqueueCpu(w, t, c) :
         /\ task' = [task EXCEPT ![t] =
              [@ EXCEPT !.home = c, !.at = c, !.direct = direct, !.enq = e,
                        !.where = IF task[t].where = "new" THEN "forking" ELSE "waking"]]
         /\ cpu' = IF direct THEN [cpu EXCEPT ![c].idle = FALSE] ELSE cpu
  BY DEF SelectCpu
<1>2. PICK e \in EnqueueCpu(w, t, c) :
         /\ task' = [task EXCEPT ![t] =
              [@ EXCEPT !.home = c, !.at = c, !.direct = direct, !.enq = e,
                        !.where = IF task[t].where = "new" THEN "forking" ELSE "waking"]]
         /\ cpu' = IF direct THEN [cpu EXCEPT ![c].idle = FALSE] ELSE cpu
  BY <1>1
<1> DEFINE n == [task[t] EXCEPT !.home = c, !.at = c, !.direct = direct, !.enq = e,
                   !.where = IF task[t].where = "new" THEN "forking" ELSE "waking"]
<1>3. /\ task[t] \in TaskState /\ task[t].where \in {"asleep", "new"}
      /\ c \in Cpus /\ e \in {w, NoCpu} /\ cpu[w].phase = "run"
  BY Parts, SchedAssumption DEF IInv, SelectCpu, EnqueueCpu, TaskState, SchedAssumption
<1>4. n \in TaskState /\ n.where \in {"waking", "forking"} /\ n.enq = e
  BY <1>3 DEF TaskState
<1>5. task' = [task EXCEPT ![t] = n]
  BY <1>2
<1> HIDE DEF n
<1>6. reenq' = reenq \ {t} /\ local' = local
  BY Parts, <1>3 DEF IInv, SelectCpu
<1>7. cpu' \in [Cpus -> CpuState]
      /\ \A d \in Cpus :
           /\ cpu'[d].cur = cpu[d].cur /\ cpu'[d].phase = cpu[d].phase
           /\ cpu'[d].slot = cpu[d].slot /\ cpu'[d].kick = cpu[d].kick
           /\ cpu'[d].q1 => cpu[d].q1
           /\ Coherent(cpu'[d])
  <2>1. cpu[c] \in CpuState
    BY Parts, <1>3 DEF IInv
  <2> DEFINE m == [cpu[c] EXCEPT !.idle = FALSE]
  <2>2. /\ m \in CpuState /\ m.cur = cpu[c].cur /\ m.phase = cpu[c].phase
        /\ m.slot = cpu[c].slot /\ m.kick = cpu[c].kick /\ m.q1 = cpu[c].q1
        /\ m.occ = cpu[c].occ /\ ~m.idle
    BY <2>1 DEF CpuState
  <2>3. cpu' = cpu \/ cpu' = [cpu EXCEPT ![c] = m]
    BY <1>2
  <2> HIDE DEF m
  <2>4. Coherent(m)
    BY <1>3, <2>2 DEF IInv, CpuInv, Coherent
  <2>5. \A d \in Cpus : Coherent(cpu[d])
    BY DEF IInv, CpuInv
  <2>6. CASE cpu' = cpu
    BY Parts, <2>5, <2>6 DEF IInv
  <2>7. CASE cpu' = [cpu EXCEPT ![c] = m]
    <3>1. cpu' \in [Cpus -> CpuState] /\ cpu'[c] = m /\ \A d \in Cpus \ {c} : cpu'[d] = cpu[d]
      BY Parts, <1>3, <2>2, <2>7 DEF IInv
    <3> QED BY <2>2, <2>4, <2>5, <3>1
  <2> QED BY <2>3, <2>6, <2>7
<1>8. n.where \in {"waking", "forking", "requeued"} /\ n.enq # NoCpu
         => cpu[n.enq].phase = "run"
  BY <1>3, <1>4
<1>9. task[t].where \notin {"cpu", "local"} /\ n.where \notin {"cpu", "local", "queue", "requeued"}
  BY <1>3, <1>4
<1> QED BY AsideStep, <1>4, <1>5, <1>6, <1>7, <1>8, <1>9

LEMMA SyncHandoffInv ==
  ASSUME IInv, NEW w \in Cpus, NEW t \in Tasks, SyncHandoff(w, t)
  PROVE  IInv'
<1> DEFINE m == [task[t] EXCEPT !.where = "local", !.home = w, !.at = w]
           n == [cpu[w] EXCEPT !.kick = @ \/ Stirred(w)]
<1>1. /\ task[t] \in TaskState /\ task[t].where = "asleep"
      /\ cpu[w] \in CpuState /\ cpu[w].phase = "run" /\ t \notin ToSet(local[w])
  BY Parts DEF IInv, SyncHandoff
<1>2. /\ m \in TaskState /\ m.where = "local" /\ m.at = w /\ m.home = w
      /\ task' = [task EXCEPT ![t] = m]
  BY <1>1 DEF TaskState, SyncHandoff
<1>3. /\ n \in CpuState /\ cpu' = [cpu EXCEPT ![w] = n]
      /\ n.cur = cpu[w].cur /\ n.phase = cpu[w].phase /\ n.slot = cpu[w].slot
      /\ n.occ = cpu[w].occ /\ n.idle = cpu[w].idle /\ n.q1 = cpu[w].q1
      /\ cpu[w].cur = Idle => n.kick
  BY <1>1 DEF CpuState, SyncHandoff, Stirred
<1> HIDE DEF m, n
<1>4. /\ task' \in [Tasks -> TaskState] /\ task'[t] = m
      /\ \A u \in Tasks \ {t} : task'[u] = task[u]
      /\ cpu' \in [Cpus -> CpuState] /\ cpu'[w] = n
      /\ \A d \in Cpus \ {w} : cpu'[d] = cpu[d]
      /\ reenq' = reenq
  <2>1. reenq' = reenq
    BY DEF SyncHandoff
  <2>2. cpu \in [Cpus -> CpuState] /\ task \in [Tasks -> TaskState]
    BY Parts DEF IInv
  <2> QED BY <1>2, <1>3, <2>1, <2>2
<1>5. /\ local' \in [Cpus -> Seq(Tasks)] /\ \A d \in Cpus \ {w} : local'[d] = local[d]
      /\ Unique(local'[w]) /\ ToSet(local'[w]) = ToSet(local[w]) \cup {t}
  <2>1. /\ local' = [local EXCEPT ![w] = Append(local[w], t)]
        /\ local[w] \in Seq(Tasks) /\ Unique(local[w])
    BY Parts DEF IInv, SyncHandoff
  <2>2. /\ Append(local[w], t) \in Seq(Tasks) /\ Unique(Append(local[w], t))
        /\ ToSet(Append(local[w], t)) = ToSet(local[w]) \cup {t}
    BY AppendSet, <1>1, <2>1
  <2> QED BY Parts, <2>1, <2>2 DEF IInv
<1>6. TypeOK'
  <2>1. \A d \in Cpus : Unique(local'[d]) /\ ToSet(local'[d]) \subseteq Tasks
    BY Parts, SetInTasks, <1>5 DEF IInv
  <2>2. \A u \in reenq' : u \in Tasks /\ task'[u].where \in {"local", "queue"}
    BY Parts, <1>1, <1>4 DEF IInv
  <2>3. ASSUME NEW d \in Cpus, NEW u \in Tasks
        PROVE  /\ u \in ToSet(local'[d]) <=> task'[u].where = "local" /\ task'[u].at = d
               /\ cpu'[d].cur = u <=> task'[u].where = "cpu" /\ task'[u].home = d
    <3>1. /\ u \in ToSet(local[d]) <=> task[u].where = "local" /\ task[u].at = d
          /\ cpu[d].cur = u <=> task[u].where = "cpu" /\ task[u].home = d
      BY Parts DEF IInv
    <3>2. CASE u = t
      BY <1>1, <1>2, <1>3, <1>4, <1>5, <3>1, <3>2
    <3>3. CASE u # t
      BY <1>3, <1>4, <1>5, <3>1, <3>3
    <3> QED BY <3>2, <3>3
  <2> QED BY MakeTypes, <1>4, <1>5, <2>1, <2>2, <2>3
<1>7. CpuInv'
  BY <1>3, <1>4 DEF IInv, CpuInv, Coherent
<1>8. WakerInv'
  <2>1. ASSUME NEW u \in Tasks, task'[u].where \in {"waking", "forking", "requeued"}
        PROVE  u # t /\ task'[u] = task[u] /\ task[u].enq \in Cpus \cup {NoCpu}
    BY Parts, <1>2, <1>4, <2>1 DEF IInv, TaskState
  <2> QED BY <1>3, <1>4, <2>1 DEF IInv, WakerInv
<1>9. HomeInv'
  BY <1>2, <1>4 DEF IInv, HomeInv
<1>10. VetoBacked'
  <2>1. ASSUME NEW d \in Cpus, cpu'[d].q1
        PROVE  cpu'[d].cur \in Tasks /\ task'[cpu'[d].cur].queue = 1
    <3>1. cpu[d].cur \in Tasks /\ task[cpu[d].cur].queue = 1 /\ cpu'[d].cur = cpu[d].cur
      BY <1>3, <1>4, <2>1 DEF IInv, VetoBacked
    <3>2. cpu[d].cur # t
      BY Parts, <1>1 DEF IInv
    <3> QED BY <1>4, <3>1, <3>2
  <2> QED BY <2>1 DEF VetoBacked
<1>11. KickInv'
  <2> SUFFICES ASSUME NEW d \in Cpus, NEW u \in Tasks, Awaits(u, d)',
                      (Passed(u, d) \/ (Idles(d) /\ task[u].where \in {"queue", "local"}))'
               PROVE  cpu'[d].kick
    BY DEF KickInv
  <2>1. CASE d = w
    BY <1>1, <1>3, <1>4, <2>1 DEF Passed, Idles
  <2>2. CASE d # w
    <3>1. u # t
      BY <1>2, <1>4, <2>2 DEF Awaits
    <3>2. task'[u] = task[u] /\ cpu'[d] = cpu[d] /\ local'[d] = local[d] /\ reenq' = reenq
      BY <1>4, <1>5, <2>2, <3>1
    <3> QED BY <3>2 DEF IInv, KickInv, Awaits, Passed, Idles
  <2> QED BY <2>1, <2>2
<1> QED BY <1>6, <1>7, <1>8, <1>9, <1>10, <1>11 DEF IInv

(* ops.enqueue by a waker or by the kernel, with nothing else.             *)
LEMMA EnqueueStepInv ==
  ASSUME IInv, NEW t \in Tasks, NEW e \in Cpus, NEW kind, NEW q \in Queues,
         EnqueueStep(t, e, kind, q),
         task[t].where # "cpu",
         task[t].where = "local" => cpu[task[t].at].phase = "run",
         kind \in {"wakeup", "fork"}
         \/ (kind = "other" /\ cpu[e].phase = "run" /\ cpu[e].cur \in Tasks)
         \/ (kind = "reenq" /\ t \in reenq /\ task[t].at = e /\ cpu[e].phase = "run")
  PROVE  IInv'
<1>1. PICK p \in Placements(t, e, kind, q) :
        /\ Enqueue(t, e, kind, q, p)
        /\ cpu' = [c \in Cpus |-> CpuAfter(c, t, e, kind, p, cpu[c])]
  BY DEF EnqueueStep
<1>2. ASSUME NEW d \in Cpus
      PROVE  /\ cpu'[d] \in CpuState
             /\ Coherent(cpu'[d])
             /\ \A u \in Tasks : cpu'[d].cur = u <=> cpu[d].cur = u /\ u # t
             /\ cpu'[d].cur = cpu[d].cur /\ cpu'[d].phase = cpu[d].phase
             /\ cpu'[d].slot = cpu[d].slot /\ cpu'[d].q1 = cpu[d].q1
             /\ cpu[d].kick \/ Kicked(d, e, p)
                \/ (kind \in {"wakeup", "fork"} /\ d = task[t].home /\ Stirred(d))
                => cpu'[d].kick
  <2>1. cpu[d] \in CpuState /\ Coherent(cpu[d]) /\ cpu[d].cur # t
    BY Parts DEF IInv, CpuInv
  <2> DEFINE r == CpuAfter(d, t, e, kind, p, cpu[d])
  <2>2. cpu'[d] = r
    BY <1>1
  <2> HIDE DEF r
  <2>3. /\ r \in CpuState
        /\ r.cur = cpu[d].cur /\ r.phase = cpu[d].phase /\ r.slot = cpu[d].slot
        /\ r.occ = cpu[d].occ /\ r.q1 = cpu[d].q1
        /\ cpu[d].kick \/ Kicked(d, e, p)
           \/ (kind \in {"wakeup", "fork"} /\ d = task[t].home /\ Stirred(d)) => r.kick
        /\ r.idle => cpu[d].idle
    BY <2>1, CpuAfterFacts DEF r
  <2>4. Coherent(r)
    BY <2>1, <2>3 DEF Coherent
  <2> QED BY <2>1, <2>2, <2>3, <2>4
<1>3. cpu' \in [Cpus -> CpuState]
  BY <1>1, <1>2
<1> QED BY EnqueueInv, <1>1, <1>2, <1>3 DEF Idles

LEMMA ActivateInv ==
  ASSUME IInv, NEW t \in Tasks, NEW q \in Queues, Activate(t, q)
  PROVE  IInv'
<1> DEFINE e == IF task[t].enq = NoCpu THEN task[t].home ELSE task[t].enq
<1>1. /\ task[t].where \in {"waking", "forking", "requeued"}
      /\ EnqueueStep(t, e, Kind(t), q)
  BY DEF Activate
<1>2. e \in Cpus
  BY Parts DEF IInv, TaskState
<1>3. task[t].where = "requeued" => e = task[t].enq
  BY SchedAssumption DEF IInv, WakerInv, SchedAssumption
<1> HIDE DEF e
<1>4. Kind(t) \in {"wakeup", "fork"}
      \/ (Kind(t) = "other" /\ cpu[e].phase = "run" /\ cpu[e].cur \in Tasks)
  <2>1. CASE task[t].where = "requeued"
    BY <1>3, <2>1, SchedAssumption DEF Kind, IInv, WakerInv, SchedAssumption
  <2>2. CASE task[t].where # "requeued"
    BY <1>1, <2>2 DEF Kind
  <2> QED BY <2>1, <2>2
<1> QED BY EnqueueStepInv, <1>1, <1>2, <1>4

LEMMA ReenqueueInv ==
  ASSUME IInv, NEW t \in Tasks, Reenqueue(t)
  PROVE  IInv'
<1>1. /\ task[t].at \in Cpus /\ task[t].queue \in Queues
      /\ task[t].where \in {"local", "queue"}
  BY Parts DEF IInv, Reenqueue, TaskState
<1> QED BY EnqueueStepInv, <1>1 DEF Reenqueue

LEMMA RepinInv ==
  ASSUME IInv, NEW w \in Cpus, NEW t \in Tasks, NEW a \in Affinities, Repin(w, t, a)
  PROVE  IInv'
<1>1. /\ task[t] \in TaskState /\ task[t].where \in {"asleep", "queue"}
      /\ cpu[w].phase = "run" /\ cpu[w].cur \in Tasks
  BY Parts DEF IInv, Repin, Running
<1> DEFINE n == IF task[t].where = "asleep" THEN [task[t] EXCEPT !.aff = a]
                ELSE [task[t] EXCEPT !.aff = a, !.where = "requeued", !.enq = w,
                                     !.own = FALSE]
<1>2. task' = [task EXCEPT ![t] = n]
  BY DEF Repin
<1>3. /\ n \in TaskState /\ n.where \in {"asleep", "requeued"}
      /\ n.where = "requeued" => n.enq = w
  BY <1>1 DEF TaskState
<1> HIDE DEF n
<1>4. /\ cpu' = cpu /\ local' = local /\ reenq' = reenq \ {t}
      /\ cpu \in [Cpus -> CpuState] /\ \A d \in Cpus : Coherent(cpu[d])
  BY Parts DEF IInv, CpuInv, Repin
<1>5. /\ task[t].where \notin {"cpu", "local"}
      /\ n.where \notin {"cpu", "local", "queue", "waking", "forking"}
  BY <1>1, <1>3
<1> QED BY AsideStep, <1>1, <1>2, <1>3, <1>4, <1>5

LEMMA ExitTaskInv ==
  ASSUME IInv, NEW t \in Tasks, ExitTask(t)
  PROVE  IInv'
<1> DEFINE c == task[t].home
           n == NewTask(c, task[t].aff)
<1>1. /\ task[t] \in TaskState /\ task[t].where = "dying" /\ c \in Cpus
      /\ cpu[c] \in CpuState
  BY Parts DEF IInv, ExitTask, TaskState
<1>2. n \in TaskState /\ n.where \in {"new", "asleep"} /\ task' = [task EXCEPT ![t] = n]
  <2>1. 1 \in Queues /\ (NrQueues > 1 => 2 \in Queues)
    BY SchedAssumption DEF SchedAssumption, Queues
  <2>2. (IF NrQueues > 1 THEN 2 ELSE 1) \in Queues
    BY <2>1
  <2> QED BY <1>1, <2>2 DEF ExitTask, NewTask, TaskState
<1>3. cpu' \in [Cpus -> CpuState]
      /\ \A d \in Cpus :
           /\ cpu'[d].cur = cpu[d].cur /\ cpu'[d].phase = cpu[d].phase
           /\ cpu'[d].slot = cpu[d].slot /\ cpu'[d].kick = cpu[d].kick
           /\ cpu'[d].q1 => cpu[d].q1
           /\ Coherent(cpu'[d])
  <2> DEFINE m == [cpu[c] EXCEPT !.q1 = FALSE]
  <2>1. /\ m \in CpuState /\ m.cur = cpu[c].cur /\ m.phase = cpu[c].phase
        /\ m.slot = cpu[c].slot /\ m.kick = cpu[c].kick /\ ~m.q1
        /\ m.occ = cpu[c].occ /\ m.idle = cpu[c].idle
    BY <1>1 DEF CpuState
  <2>2. cpu' = cpu \/ cpu' = [cpu EXCEPT ![c] = m]
    BY DEF ExitTask
  <2> HIDE DEF m
  <2>3. Coherent(m)
    BY <1>1, <2>1 DEF IInv, CpuInv, Coherent
  <2>4. \A d \in Cpus : Coherent(cpu[d])
    BY DEF IInv, CpuInv
  <2>5. CASE cpu' = cpu
    BY Parts, <2>4, <2>5 DEF IInv
  <2>6. CASE cpu' = [cpu EXCEPT ![c] = m]
    <3>1. cpu' \in [Cpus -> CpuState] /\ cpu'[c] = m /\ \A d \in Cpus \ {c} : cpu'[d] = cpu[d]
      BY Parts, <1>1, <2>1, <2>6 DEF IInv
    <3> QED BY <2>1, <2>3, <2>4, <3>1
  <2> QED BY <2>2, <2>5, <2>6
<1>4. reenq' = reenq \ {t} /\ local' = local
  <2>1. t \notin reenq
    BY Parts, <1>1 DEF IInv
  <2>2. reenq' = reenq /\ local' = local
    BY DEF ExitTask
  <2> QED BY <2>1, <2>2
<1> HIDE DEF n
<1> QED BY AsideStep, <1>1, <1>2, <1>3, <1>4

-----------------------------------------------------------------------------
(* Leaving the CPU, and choosing what is next.                             *)

LEMMA BlockInv ==
  ASSUME IInv, NEW c \in Cpus, NEW dies \in BOOLEAN, Block(c, dies)
  PROVE  IInv'
<1> DEFINE t == cpu[c].cur
           m == [task[t] EXCEPT !.where = IF dies THEN "dying" ELSE "asleep"]
           n == [Stopped(cpu[c], FALSE) EXCEPT !.cur = None, !.out = FALSE,
                                               !.phase = "balance"]
<1>1. /\ t \in Tasks /\ task[t] \in TaskState /\ task[t].where = "cpu" /\ task[t].home = c
      /\ cpu[c] \in CpuState /\ cpu[c].phase = "run" /\ ~MidWake(c)
      /\ None \notin Tasks /\ ~cpu[c].occ
  BY Parts, SchedAssumption DEF IInv, CpuInv, Coherent, Block, Running, SchedAssumption
<1>2. m \in TaskState /\ m.where \in {"dying", "asleep"} /\ m.home = c
      /\ task' = [task EXCEPT ![t] = m]
  BY <1>1 DEF TaskState, Block
<1>3. n \in CpuState /\ n.cur = None /\ n.phase = "balance" /\ ~n.q1 /\ ~n.occ
      /\ cpu' = [cpu EXCEPT ![c] = n]
  <2>1. 0 \in 0..NrQueues
    BY SchedAssumption DEF SchedAssumption
  <2> QED BY <1>1, <2>1 DEF CpuState, Stopped, Block
<1>4. Coherent(n)
  BY <1>3, SchedAssumption DEF Coherent, SchedAssumption
<1> HIDE DEF m, n
<1>5. /\ task' \in [Tasks -> TaskState] /\ task'[t] = m
      /\ \A u \in Tasks \ {t} : task'[u] = task[u]
      /\ cpu' \in [Cpus -> CpuState] /\ cpu'[c] = n
      /\ \A d \in Cpus \ {c} : cpu'[d] = cpu[d]
      /\ reenq' = reenq /\ local' = local
  <2>1. reenq' = reenq /\ local' = local
    BY DEF Block
  <2>2. cpu \in [Cpus -> CpuState] /\ task \in [Tasks -> TaskState]
    BY Parts DEF IInv
  <2> QED BY <1>1, <1>2, <1>3, <2>1, <2>2
<1>6. t \notin reenq /\ \A d \in Cpus : cpu[d].cur = t <=> d = c
  BY Parts, <1>1 DEF IInv
<1> HIDE DEF t
<1>7. TypeOK'
  <2>1. \A d \in Cpus : Unique(local'[d]) /\ ToSet(local'[d]) \subseteq Tasks
    BY Parts, SetInTasks, <1>5 DEF IInv
  <2>2. \A u \in reenq' : u \in Tasks /\ task'[u].where \in {"local", "queue"}
    BY Parts, <1>5, <1>6 DEF IInv
  <2>3. ASSUME NEW d \in Cpus, NEW u \in Tasks
        PROVE  /\ u \in ToSet(local'[d]) <=> task'[u].where = "local" /\ task'[u].at = d
               /\ cpu'[d].cur = u <=> task'[u].where = "cpu" /\ task'[u].home = d
    <3>1. /\ u \in ToSet(local[d]) <=> task[u].where = "local" /\ task[u].at = d
          /\ cpu[d].cur = u <=> task[u].where = "cpu" /\ task[u].home = d
      BY Parts DEF IInv
    <3>2. CASE u = t
      BY <1>1, <1>2, <1>3, <1>5, <1>6, <3>1, <3>2
    <3>3. CASE u # t
      <4>1. d = c => cpu[d].cur = t
        BY <1>6
      <4> QED BY <1>1, <1>3, <1>5, <3>1, <3>3, <4>1
    <3> QED BY <3>2, <3>3
  <2>4. local' \in [Cpus -> Seq(Tasks)]
    BY Parts, <1>5 DEF IInv
  <2> QED BY MakeTypes, <1>5, <2>1, <2>2, <2>3, <2>4
<1>8. CpuInv'
  BY <1>4, <1>5 DEF IInv, CpuInv, Coherent
<1>9. WakerInv'
  <2>1. ASSUME NEW u \in Tasks, task'[u].where \in {"waking", "forking", "requeued"}
        PROVE  /\ u # t /\ task'[u] = task[u] /\ task[u].enq \in Cpus \cup {NoCpu}
               /\ task[u].enq # c
    <3>1. u # t /\ task'[u] = task[u]
      BY <1>2, <1>5, <2>1
    <3>2. task[u] \in TaskState
      BY Parts DEF IInv
    <3> QED BY <1>1, <2>1, <3>1, <3>2 DEF MidWake, TaskState
  <2>2. ASSUME NEW d \in Cpus, d # c PROVE cpu'[d] = cpu[d]
    BY <1>5, <2>2
  <2> QED BY <2>1, <2>2 DEF IInv, WakerInv
<1>10. HomeInv'
  BY <1>2, <1>5 DEF IInv, HomeInv
<1>11. VetoBacked'
  <2>1. ASSUME NEW d \in Cpus, cpu'[d].q1
        PROVE  cpu'[d].cur \in Tasks /\ task'[cpu'[d].cur].queue = 1
    <3>1. d # c
      BY <1>3, <1>5, <2>1
    <3>2. cpu[d].cur \in Tasks /\ task[cpu[d].cur].queue = 1 /\ cpu[d].cur # t
      BY <1>5, <1>6, <2>1, <3>1 DEF IInv, VetoBacked
    <3> QED BY <1>5, <3>1, <3>2
  <2> QED BY <2>1 DEF VetoBacked
<1>12. KickInv'
  <2> SUFFICES ASSUME NEW d \in Cpus, NEW u \in Tasks, Awaits(u, d)',
                      (Passed(u, d) \/ (Idles(d) /\ task[u].where \in {"queue", "local"}))'
               PROVE  cpu'[d].kick
    BY DEF KickInv
  <2>1. u # t
    BY <1>2, <1>5 DEF Passed
  <2>2. d # c
    BY <1>3, <1>5 DEF Passed, Idles
  <2>3. task'[u] = task[u] /\ cpu'[d] = cpu[d] /\ local'[d] = local[d] /\ reenq' = reenq
    BY <1>5, <2>1, <2>2
  <2> QED BY <2>3 DEF IInv, KickInv, Awaits, Passed, Idles
<1> QED BY <1>7, <1>8, <1>9, <1>10, <1>11, <1>12 DEF IInv

LEMMA ReschedInv ==
  ASSUME IInv, NEW c \in Cpus, Resched(c)
  PROVE  IInv'
<1> DEFINE n == [cpu[c] EXCEPT !.out = TRUE, !.phase = "balance"]
<1>1. cpu[c] \in CpuState /\ Coherent(cpu[c]) /\ cpu[c].cur \in Tasks /\ ~MidWake(c)
  BY Parts DEF IInv, CpuInv, Resched, Running
<1>2. /\ n \in CpuState /\ n.cur = cpu[c].cur /\ n.phase = "balance" /\ n.q1 = cpu[c].q1
      /\ n.occ = cpu[c].occ /\ n.idle = cpu[c].idle
  BY <1>1 DEF CpuState
<1>3. cpu' = [cpu EXCEPT ![c] = n] /\ UNCHANGED <<task, local, reenq>>
  BY DEF Resched
<1> HIDE DEF n
<1>4. Coherent(n)
  BY <1>1, <1>2, SchedAssumption DEF Coherent, SchedAssumption
<1> QED BY RecordStep, <1>1, <1>2, <1>3, <1>4

LEMMA IdleScheduleInv ==
  ASSUME IInv, NEW c \in Cpus, IdleSchedule(c)
  PROVE  IInv'
<1> DEFINE n == [cpu[c] EXCEPT !.kick = FALSE, !.phase = "balance"]
<1>1. cpu[c] \in CpuState /\ Coherent(cpu[c]) /\ cpu[c].cur = Idle /\ ~MidWake(c)
  BY Parts DEF IInv, CpuInv, IdleSchedule
<1>2. /\ n \in CpuState /\ n.cur = cpu[c].cur /\ n.phase = "balance" /\ n.q1 = cpu[c].q1
      /\ n.occ = cpu[c].occ /\ n.idle = cpu[c].idle
  BY <1>1 DEF CpuState
<1>3. cpu' = [cpu EXCEPT ![c] = n] /\ UNCHANGED <<task, local, reenq>>
  BY DEF IdleSchedule
<1> HIDE DEF n
<1>4. Coherent(n)
  BY <1>1, <1>2, SchedAssumption DEF Coherent, SchedAssumption
<1> QED BY RecordStep, <1>1, <1>2, <1>3, <1>4

LEMMA BalanceLocalInv ==
  ASSUME IInv, NEW c \in Cpus, BalanceLocal(c)
  PROVE  IInv'
<1> DEFINE n == [cpu[c] EXCEPT !.phase = AfterDispatch(c)]
<1>1. cpu[c] \in CpuState /\ Coherent(cpu[c]) /\ cpu[c].phase = "balance" /\ local[c] # <<>>
  BY Parts DEF IInv, CpuInv, BalanceLocal
<1>2. /\ n \in CpuState /\ n.cur = cpu[c].cur /\ n.q1 = cpu[c].q1
      /\ n.phase = IF cpu[c].cur \in Tasks THEN "put" ELSE "pick"
      /\ n.occ = cpu[c].occ /\ n.idle = cpu[c].idle
  BY <1>1 DEF CpuState, AfterDispatch
<1>3. cpu' = [cpu EXCEPT ![c] = n] /\ UNCHANGED <<task, local, reenq>>
  BY DEF BalanceLocal
<1> HIDE DEF n
<1>4. Coherent(n)
  BY <1>1, <1>2, SchedAssumption DEF Coherent, SchedAssumption
<1> QED BY RecordStep, <1>1, <1>2, <1>3, <1>4

LEMMA BalanceGlobalInv ==
  ASSUME IInv, NEW c \in Cpus, BalanceGlobal(c)
  PROVE  IInv'
<1> DEFINE n == [cpu[c] EXCEPT !.phase = AfterDispatch(c)]
<1>1. cpu[c] \in CpuState /\ Coherent(cpu[c]) /\ cpu[c].phase = "balance"
  BY Parts DEF IInv, CpuInv, BalanceGlobal
<1>2. /\ n \in CpuState /\ n.cur = cpu[c].cur /\ n.q1 = cpu[c].q1
      /\ n.phase = IF cpu[c].cur \in Tasks THEN "put" ELSE "pick"
      /\ n.occ = cpu[c].occ /\ n.idle = cpu[c].idle
  BY <1>1 DEF CpuState, AfterDispatch
<1>3. /\ cpu' = [cpu EXCEPT ![c] = n]
      /\ \E t \in Tasks : task[t].where = "global" /\ MoveToLocal(t, c)
  BY DEF BalanceGlobal
<1> HIDE DEF n
<1>4. Coherent(n)
  BY <1>1, <1>2, SchedAssumption DEF Coherent, SchedAssumption
<1> QED BY MoveStep, <1>1, <1>2, <1>3, <1>4

LEMMA DispatchKeepInv ==
  ASSUME IInv, NEW c \in Cpus, DispatchKeep(c)
  PROVE  IInv'
<1> DEFINE n == [cpu[c] EXCEPT !.out = FALSE, !.phase = "run"]
<1>1. cpu[c] \in CpuState /\ Coherent(cpu[c]) /\ cpu[c].cur \in Tasks
  BY Parts DEF IInv, CpuInv, DispatchKeep
<1>2. /\ n \in CpuState /\ n.cur = cpu[c].cur /\ n.q1 = cpu[c].q1 /\ n.phase = "run"
      /\ n.occ = cpu[c].occ /\ n.idle = cpu[c].idle
  BY <1>1 DEF CpuState
<1>3. cpu' = [cpu EXCEPT ![c] = n] /\ UNCHANGED <<task, local, reenq>>
  BY DEF DispatchKeep
<1> HIDE DEF n
<1>4. Coherent(n) /\ n.cur # Idle
  BY <1>1, <1>2, SchedAssumption DEF Coherent, SchedAssumption
<1> QED BY RecordStep, <1>1, <1>2, <1>3, <1>4

LEMMA DispatchStartInv ==
  ASSUME IInv, NEW c \in Cpus, DispatchStart(c)
  PROVE  IInv'
<1> DEFINE n == [cpu[c] EXCEPT !.phase = "dispatch", !.slot = <<1, Quota[1]>>]
<1>1. cpu[c] \in CpuState /\ Coherent(cpu[c]) /\ cpu[c].phase = "balance"
  BY Parts DEF IInv, CpuInv, DispatchStart, NothingBefore
<1>2. <<1, Quota[1]>> \in Queues \X Nat /\ Quota[1] # 0
  BY SchedAssumption DEF SchedAssumption, Queues
<1>3. /\ n \in CpuState /\ n.cur = cpu[c].cur /\ n.q1 = cpu[c].q1 /\ n.phase = "dispatch"
      /\ n.occ = cpu[c].occ /\ n.idle = cpu[c].idle /\ n.slot = <<1, Quota[1]>>
  BY <1>1, <1>2 DEF CpuState
<1>4. cpu' = [cpu EXCEPT ![c] = n] /\ UNCHANGED <<task, local, reenq>>
  BY DEF DispatchStart
<1> HIDE DEF n
<1>5. Coherent(n)
  BY <1>1, <1>2, <1>3, SchedAssumption DEF Coherent, SchedAssumption
<1>6. \A t \in Tasks : ~(task[t].queue < n.slot[1])
  BY Parts, <1>3 DEF IInv, TaskState, Queues
<1> QED BY RecordStep, <1>1, <1>3, <1>4, <1>5, <1>6

(* The record of a CPU that is done with a queue of the slot loops.        *)
LEMMA QueueDoneFacts ==
  ASSUME IInv, NEW c \in Cpus, cpu[c].phase = "dispatch"
  PROVE  LET q == cpu[c].slot[1]
             n == QueueDone(c, q)
         IN  /\ n \in CpuState /\ Coherent(n)
             /\ n.cur = cpu[c].cur /\ n.q1 = cpu[c].q1 /\ n.kick = cpu[c].kick
             /\ n.phase \in {"dispatch", "put", "pick"}
             /\ n.phase = "dispatch" => n.slot[1] = q + 1
<1> DEFINE q == cpu[c].slot[1]
           slot == IF q < NrQueues THEN <<q + 1, Quota[q + 1]>> ELSE <<1, 0>>
           phase == IF q < NrQueues THEN cpu[c].phase ELSE AfterDispatch(c)
           n == [cpu[c] EXCEPT !.slot = slot, !.phase = phase]
<1>1. cpu[c] \in CpuState /\ Coherent(cpu[c]) /\ q \in Queues
  BY Parts DEF IInv, CpuInv, CpuState
<1>2. QueueDone(c, q) = n
  BY DEF QueueDone
<1>3. /\ slot \in Queues \X Nat
      /\ phase = "dispatch" => slot[1] = q + 1 /\ slot[2] # 0
      /\ phase \in {"dispatch", "put", "pick"}
      /\ phase = "put" => cpu[c].cur \in Tasks
      /\ phase = "pick" => cpu[c].cur \notin Tasks
  <2>1. NrQueues \in Nat \ {0} /\ Quota \in [1..NrQueues -> Nat \ {0}] /\ 1 \in Queues
    BY SchedAssumption DEF SchedAssumption, Queues
  <2>2. CASE q < NrQueues
    <3>1. q + 1 \in 1..NrQueues
      BY <1>1, <2>1, <2>2 DEF Queues
    <3> HIDE DEF q
    <3> QED BY <2>1, <2>2, <3>1 DEF Queues
  <2>3. CASE ~(q < NrQueues)
    BY <2>1, <2>3 DEF AfterDispatch
  <2> QED BY <2>2, <2>3
<1> HIDE DEF slot, phase, q
<1>4. /\ n \in CpuState /\ n.cur = cpu[c].cur /\ n.q1 = cpu[c].q1
      /\ n.kick = cpu[c].kick /\ n.occ = cpu[c].occ /\ n.idle = cpu[c].idle
      /\ n.slot = slot /\ n.phase = phase
  BY <1>1, <1>3 DEF CpuState
<1> HIDE DEF n
<1>5. Coherent(n)
  BY <1>1, <1>3, <1>4 DEF Coherent
<1> QED BY <1>2, <1>3, <1>4, <1>5 DEF q

LEMMA DispatchSlotInv ==
  ASSUME IInv, NEW c \in Cpus, DispatchSlot(c)
  PROVE  IInv'
<1> DEFINE q == cpu[c].slot[1]
           k == cpu[c].slot[2]
           n == IF k = 1 THEN QueueDone(c, q) ELSE [cpu[c] EXCEPT !.slot = <<q, k - 1>>]
<1>1. /\ cpu[c] \in CpuState /\ Coherent(cpu[c]) /\ q \in Queues /\ k \in Nat
      /\ cpu[c].phase = "dispatch" /\ k > 0
  BY Parts DEF IInv, CpuInv, CpuState, DispatchSlot
<1>2. PICK t \in SlotMoves(c, q) : MoveToLocal(t, c)
  BY DEF DispatchSlot
<1>3. t \in Tasks /\ task[t].where = "queue"
  BY DEF SlotMoves, OwnMoves, Steals, InDsq
<1>4. /\ n \in CpuState /\ n.cur = cpu[c].cur /\ n.q1 = cpu[c].q1 /\ Coherent(n)
      /\ n.phase # "run"
  <2>1. CASE k = 1
    BY <1>1, <2>1, QueueDoneFacts
  <2>2. CASE k # 1
    <3> HIDE DEF q, k
    <3>1. <<q, k - 1>> \in Queues \X Nat /\ k - 1 # 0
      BY <1>1, <2>2
    <3> DEFINE m == [cpu[c] EXCEPT !.slot = <<q, k - 1>>]
    <3>2. /\ m \in CpuState /\ m.cur = cpu[c].cur /\ m.q1 = cpu[c].q1
          /\ m.phase = cpu[c].phase /\ m.occ = cpu[c].occ /\ m.idle = cpu[c].idle
          /\ m.slot[2] # 0
      BY <1>1, <3>1 DEF CpuState
    <3> HIDE DEF m
    <3>3. Coherent(m)
      BY <1>1, <3>2 DEF Coherent
    <3> QED BY <1>1, <2>2, <3>2, <3>3 DEF m
  <2> QED BY <2>1, <2>2
<1>5. cpu' = [cpu EXCEPT ![c] = n]
  BY DEF DispatchSlot
<1> HIDE DEF n
<1> QED BY MoveStep, <1>1, <1>2, <1>3, <1>4, <1>5

LEMMA DispatchNextInv ==
  ASSUME IInv, NEW c \in Cpus, DispatchNext(c)
  PROVE  IInv'
<1> DEFINE q == cpu[c].slot[1]
           n == QueueDone(c, q)
<1>1. /\ cpu[c] \in CpuState /\ Coherent(cpu[c]) /\ q \in Queues
      /\ cpu[c].phase = "dispatch"
  BY Parts DEF IInv, CpuInv, CpuState, DispatchNext
<1>2. OwnMoves(c, q) = {}
  BY <1>1 DEF DispatchNext, Coherent
<1>3. cpu' = [cpu EXCEPT ![c] = n] /\ UNCHANGED <<task, local, reenq>>
  BY DEF DispatchNext
<1>4. /\ n \in CpuState /\ Coherent(n)
      /\ n.cur = cpu[c].cur /\ n.q1 = cpu[c].q1 /\ n.kick = cpu[c].kick
      /\ n.phase \in {"dispatch", "put", "pick"}
      /\ n.phase = "dispatch" => n.slot[1] = q + 1
      /\ n.phase # "dispatch" => q = NrQueues
  <2>1. n.phase # "dispatch" => q = NrQueues
    BY <1>1, SchedAssumption DEF QueueDone, CpuState, Queues, SchedAssumption
  <2> QED BY <1>1, <2>1, QueueDoneFacts
<1> HIDE DEF n
<1>5. ASSUME NEW t \in Tasks, Awaits(t, c), task[t].where = "queue", local[c] = <<>>,
             (n.phase = "dispatch" /\ task[t].queue < n.slot[1]) \/ n.phase \in {"put", "pick"}
      PROVE  n.kick
  <2>1. task[t].queue \in 1..NrQueues /\ NrQueues \in Nat
    BY Parts, SchedAssumption DEF IInv, TaskState, Queues, SchedAssumption
  <2>2. task[t].queue # q
    BY <1>2, <1>5 DEF OwnMoves, InDsq, Awaits
  <2>3. task[t].queue < q
    BY <1>1, <1>4, <1>5, <2>1, <2>2 DEF Queues
  <2>4. Passed(t, c)
    BY <1>1, <1>5, <2>3 DEF Passed
  <2> QED BY <1>4, <1>5, <2>4 DEF IInv, KickInv
<1> QED BY RecordStep, <1>1, <1>3, <1>4, <1>5

LEMMA PickIdleInv ==
  ASSUME IInv, NEW c \in Cpus, PickIdle(c)
  PROVE  IInv'
<1> DEFINE n == [cpu[c] EXCEPT !.cur = Idle, !.phase = "run", !.out = FALSE,
                               !.idle = TRUE, !.occ = FALSE]
<1>1. /\ cpu[c] \in CpuState /\ Coherent(cpu[c]) /\ cpu[c].phase = "pick"
      /\ cpu[c].cur \notin Tasks /\ local[c] = <<>> /\ Idle \notin Tasks
      /\ Idle # Rt /\ Idle # None
  BY Parts, SchedAssumption DEF IInv, CpuInv, Coherent, PickIdle, SchedAssumption
<1>2. /\ n \in CpuState /\ n.cur = Idle /\ n.q1 = cpu[c].q1 /\ n.phase = "run"
      /\ ~n.occ /\ n.kick = cpu[c].kick
  BY <1>1 DEF CpuState
<1>3. cpu' = [cpu EXCEPT ![c] = n] /\ UNCHANGED <<task, local, reenq>>
  BY DEF PickIdle
<1> HIDE DEF n
<1>4. Coherent(n)
  BY <1>1, <1>2 DEF Coherent
<1>5. ASSUME NEW t \in Tasks, Awaits(t, c), task[t].where \in {"queue", "local"}
      PROVE  n.kick
  <2>1. t \notin ToSet(local[c])
    BY Parts, EmptySet, <1>1 DEF IInv
  <2>2. task[t].where = "queue"
    BY Parts, <1>5, <2>1 DEF IInv, Awaits
  <2>3. Passed(t, c)
    BY <1>1, <2>2 DEF Passed
  <2> QED BY <1>2, <1>5, <2>3 DEF IInv, KickInv
<1> QED BY RecordStep, <1>1, <1>2, <1>3, <1>4, <1>5

LEMMA PickTaskInv ==
  ASSUME IInv, NEW c \in Cpus, PickTask(c)
  PROVE  IInv'
<1> DEFINE t == Head(local[c])
           m == [task[t] EXCEPT !.where = "cpu"]
           n == [cpu[c] EXCEPT
                   !.cur = t, !.phase = "run", !.out = FALSE,
                   !.idle = FALSE, !.kick = FALSE, !.occ = FALSE,
                   !.rec = [pid |-> t, queue |-> task[t].queue],
                   !.q1 = (task[t].queue = 1)]
<1>1. /\ cpu[c].phase = "pick" /\ local[c] # <<>> /\ local[c] \in Seq(Tasks)
      /\ Unique(local[c]) /\ cpu[c] \in CpuState /\ cpu[c].cur \notin Tasks
  BY Parts DEF IInv, CpuInv, Coherent, PickTask
<1>2. /\ t \in ToSet(local[c]) /\ Tail(local[c]) \in Seq(Tasks) /\ Unique(Tail(local[c]))
      /\ ToSet(Tail(local[c])) = ToSet(local[c]) \ {t}
  BY <1>1, TailSet
<1>3. /\ task' = [task EXCEPT ![t] = m] /\ cpu' = [cpu EXCEPT ![c] = n]
      /\ local' = [local EXCEPT ![c] = Tail(local[c])] /\ reenq' = reenq \ {t}
  BY DEF PickTask
<1>4. /\ t \in Tasks /\ task[t] \in TaskState /\ task[t].where = "local"
      /\ task[t].at = c /\ task[t].home = c
  <2>1. t \in Tasks
    BY <1>1, <1>2, SetInTasks
  <2> QED BY Parts, <1>2, <2>1 DEF IInv, HomeInv
<1> HIDE DEF t
<1>5. m \in TaskState /\ m.where = "cpu" /\ m.home = c /\ m.queue = task[t].queue
  BY <1>4 DEF TaskState
<1>6. /\ n \in CpuState /\ n.cur = t /\ n.phase = "run" /\ ~n.occ
      /\ n.q1 => task[t].queue = 1
  <2>1. [pid |-> t, queue |-> task[t].queue] \in [pid : Tasks \cup {None}, queue : 0..NrQueues]
    BY <1>4, SchedAssumption DEF TaskState, Queues, SchedAssumption
  <2> QED BY <1>1, <1>4, <2>1 DEF CpuState
<1> HIDE DEF m, n
<1>7. /\ task' \in [Tasks -> TaskState] /\ task'[t] = m
      /\ \A u \in Tasks \ {t} : task'[u] = task[u]
      /\ cpu' \in [Cpus -> CpuState] /\ cpu'[c] = n
      /\ \A d \in Cpus \ {c} : cpu'[d] = cpu[d]
      /\ local' \in [Cpus -> Seq(Tasks)] /\ local'[c] = Tail(local[c])
      /\ \A d \in Cpus \ {c} : local'[d] = local[d]
  <2>1. /\ cpu \in [Cpus -> CpuState] /\ task \in [Tasks -> TaskState]
        /\ local \in [Cpus -> Seq(Tasks)]
    BY Parts DEF IInv
  <2> QED BY <1>2, <1>3, <1>4, <1>5, <1>6, <2>1
<1>8. TypeOK'
  <2>1. \A d \in Cpus : Unique(local'[d]) /\ ToSet(local'[d]) \subseteq Tasks
    BY Parts, SetInTasks, <1>2, <1>7 DEF IInv
  <2>2. \A u \in reenq' : u \in Tasks /\ task'[u].where \in {"local", "queue"}
    BY Parts, <1>3, <1>7 DEF IInv
  <2>3. ASSUME NEW d \in Cpus, NEW u \in Tasks
        PROVE  /\ u \in ToSet(local'[d]) <=> task'[u].where = "local" /\ task'[u].at = d
               /\ cpu'[d].cur = u <=> task'[u].where = "cpu" /\ task'[u].home = d
    <3>1. /\ u \in ToSet(local[d]) <=> task[u].where = "local" /\ task[u].at = d
          /\ cpu[d].cur = u <=> task[u].where = "cpu" /\ task[u].home = d
      BY Parts DEF IInv
    <3>2. CASE u = t
      <4>1. u \in ToSet(local'[d]) <=> task'[u].where = "local" /\ task'[u].at = d
        BY <1>2, <1>4, <1>5, <1>7, <3>1, <3>2
      <4>2. cpu'[d].cur = u <=> task'[u].where = "cpu" /\ task'[u].home = d
        BY <1>4, <1>5, <1>6, <1>7, <3>1, <3>2
      <4> QED BY <4>1, <4>2
    <3>3. CASE u # t
      BY <1>1, <1>2, <1>6, <1>7, <3>1, <3>3
    <3> QED BY <3>2, <3>3
  <2> QED BY MakeTypes, <1>7, <2>1, <2>2, <2>3
<1>9. CpuInv'
  <2>1. Coherent(n)
    BY <1>4, <1>6, SchedAssumption DEF Coherent, SchedAssumption
  <2> QED BY <1>7, <2>1 DEF IInv, CpuInv, Coherent
<1>10. WakerInv'
  <2>1. ASSUME NEW u \in Tasks, task'[u].where \in {"waking", "forking", "requeued"}
        PROVE  u # t /\ task'[u] = task[u] /\ task[u].enq \in Cpus \cup {NoCpu}
    <3>1. u # t /\ task'[u] = task[u]
      BY <1>5, <1>7, <2>1
    <3>2. task[u] \in TaskState
      BY Parts DEF IInv
    <3> QED BY <3>1, <3>2 DEF TaskState
  <2>2. ASSUME NEW d \in Cpus
        PROVE  /\ cpu[d].phase = "run" => cpu'[d].phase = "run"
               /\ cpu[d].cur \in Tasks => cpu'[d].cur \in Tasks
    BY <1>4, <1>6, <1>7
  <2> QED BY <2>1, <2>2 DEF IInv, WakerInv
<1>11. HomeInv'
  BY <1>5, <1>7 DEF IInv, HomeInv
<1>12. VetoBacked'
  <2>1. ASSUME NEW d \in Cpus, cpu'[d].q1
        PROVE  cpu'[d].cur \in Tasks /\ task'[cpu'[d].cur].queue = 1
    <3>1. CASE d = c
      BY <1>4, <1>5, <1>6, <1>7, <2>1, <3>1
    <3>2. CASE d # c
      <4>1. cpu[d].cur \in Tasks /\ task[cpu[d].cur].queue = 1 /\ cpu'[d].cur = cpu[d].cur
        BY <1>7, <2>1, <3>2 DEF IInv, VetoBacked
      <4>2. cpu[d].cur # t
        BY Parts, <1>4 DEF IInv
      <4> QED BY <1>7, <4>1, <4>2
    <3> QED BY <3>1, <3>2
  <2> QED BY <2>1 DEF VetoBacked
<1>13. KickInv'
  <2> SUFFICES ASSUME NEW d \in Cpus, NEW u \in Tasks, Awaits(u, d)',
                      (Passed(u, d) \/ (Idles(d) /\ task[u].where \in {"queue", "local"}))'
               PROVE  cpu'[d].kick
    BY DEF KickInv
  <2>1. u # t
    BY <1>5, <1>7 DEF Passed
  <2>2. d # c
    BY <1>4, <1>6, <1>7, SchedAssumption DEF Passed, Idles, SchedAssumption
  <2>3. /\ task'[u] = task[u] /\ cpu'[d] = cpu[d] /\ local'[d] = local[d]
        /\ u \in reenq' => u \in reenq
    BY <1>3, <1>7, <2>1, <2>2
  <2> QED BY <2>3 DEF IInv, KickInv, Awaits, Passed, Idles
<1> QED BY <1>8, <1>9, <1>10, <1>11, <1>12, <1>13 DEF IInv

(* What the stop of the running task t of CPU c, and its enqueue there,    *)
(* leave of the records.                                                   *)
Leaves(t, c, kind, p, ph) ==
  \A d \in Cpus :
    /\ cpu'[d] \in CpuState /\ Coherent(cpu'[d])
    /\ d # c => /\ cpu'[d].cur = cpu[d].cur /\ cpu'[d].phase = cpu[d].phase
                /\ cpu'[d].slot = cpu[d].slot /\ cpu'[d].q1 = cpu[d].q1
    /\ d = c => cpu'[d].cur = None /\ cpu'[d].phase = ph /\ ~cpu'[d].q1
    /\ cpu[d].kick \/ Kicked(d, c, p)
       \/ (kind \in {"wakeup", "fork"} /\ d = task[t].home /\ Stirred(d))
       => cpu'[d].kick

(* The record r of a CPU whose task was stopped.                           *)
Gone(r, ph) == [Stopped(r, TRUE) EXCEPT !.cur = None, !.phase = ph, !.out = FALSE]

LEMMA LeavesFacts ==
  ASSUME IInv, NEW t \in Tasks, NEW c \in Cpus, NEW kind, NEW p, NEW ph \in {"pick", "rt"},
         cpu[c].cur = t,
         \A d \in Cpus : cpu'[d] = IF d # c THEN CpuAfter(d, t, c, kind, p, cpu[d])
                                   ELSE Gone(CpuAfter(d, t, c, kind, p, cpu[d]), ph)
  PROVE  Leaves(t, c, kind, p, ph)
<1> SUFFICES ASSUME NEW d \in Cpus
             PROVE  /\ cpu'[d] \in CpuState /\ Coherent(cpu'[d])
                    /\ d # c => /\ cpu'[d].cur = cpu[d].cur /\ cpu'[d].phase = cpu[d].phase
                                /\ cpu'[d].slot = cpu[d].slot /\ cpu'[d].q1 = cpu[d].q1
                    /\ d = c => cpu'[d].cur = None /\ cpu'[d].phase = ph /\ ~cpu'[d].q1
                    /\ cpu[d].kick \/ Kicked(d, c, p)
                       \/ (kind \in {"wakeup", "fork"} /\ d = task[t].home /\ Stirred(d))
                       => cpu'[d].kick
  BY DEF Leaves
<1> DEFINE r == CpuAfter(d, t, c, kind, p, cpu[d])
           z == Gone(r, ph)
<1>0. cpu'[d] = IF d # c THEN r ELSE z
  OBVIOUS
<1> HIDE DEF r
<1>1. cpu[d] \in CpuState /\ Coherent(cpu[d])
  BY Parts DEF IInv, CpuInv
<1>2. /\ r \in CpuState
      /\ r.cur = cpu[d].cur /\ r.phase = cpu[d].phase /\ r.slot = cpu[d].slot
      /\ r.occ = cpu[d].occ /\ r.q1 = cpu[d].q1
      /\ cpu[d].kick \/ Kicked(d, c, p)
         \/ (kind \in {"wakeup", "fork"} /\ d = task[t].home /\ Stirred(d)) => r.kick
      /\ r.idle => cpu[d].idle
  BY <1>1, CpuAfterFacts DEF r
<1>3. /\ z \in CpuState /\ z.cur = None /\ z.phase = ph /\ ~z.q1
      /\ z.kick = r.kick /\ z.occ = r.occ /\ z.idle = r.idle
  BY <1>2 DEF CpuState, Stopped, Gone
<1> HIDE DEF z
<1>4. Coherent(r)
  BY <1>1, <1>2 DEF Coherent
<1>5. d = c => Coherent(z)
  BY <1>1, <1>2, <1>3, SchedAssumption DEF Coherent, SchedAssumption
<1> QED BY <1>0, <1>2, <1>3, <1>4, <1>5

(* The running task of a CPU is stopped and goes through ops.enqueue.      *)
LEMMA StopEnqueue ==
  ASSUME IInv, NEW t \in Tasks, NEW c \in Cpus, NEW q \in Queues, NEW kind, NEW ph,
         cpu[c].cur = t, ph \in {"pick", "rt"}, ~MidWake(c),
         ph = "pick" => cpu[c].phase = "put",
         kind = "last" \/ (kind = "runout" /\ (ph = "rt" \/ local[c] # <<>>)),
         NEW p \in Placements(t, c, kind, q),
         Enqueue(t, c, kind, q, p), cpu' \in [Cpus -> CpuState],
         Leaves(t, c, kind, p, ph)
  PROVE  IInv'
<1>1. /\ task[t].where = "cpu" /\ \A d \in Cpus : cpu[d].cur = t <=> d = c
      /\ None \notin Tasks /\ None # Idle
  <2>1. None \notin Tasks /\ None # Idle
    BY SchedAssumption DEF SchedAssumption
  <2>2. task[t].where = "cpu" /\ task[t].home = c
    BY Parts DEF IInv
  <2> QED BY Parts, <2>1, <2>2 DEF IInv
<1>2. ASSUME NEW d \in Cpus
      PROVE  /\ Coherent(cpu'[d])
             /\ \A u \in Tasks : cpu'[d].cur = u <=> cpu[d].cur = u /\ u # t
             /\ cpu'[d].q1 => cpu[d].q1 /\ cpu'[d].cur = cpu[d].cur
             /\ MidWake(d) => cpu'[d].phase = cpu[d].phase /\ cpu'[d].cur = cpu[d].cur
             /\ cpu[d].kick \/ Kicked(d, c, p)
                \/ (kind \in {"wakeup", "fork"} /\ d = task[t].home /\ Stirred(d))
                => cpu'[d].kick
             /\ Idles(d)' => Idles(d)
             /\ cpu'[d].phase \in {"put", "pick"} => cpu[d].phase \in {"put", "pick"}
             /\ cpu'[d].phase = "dispatch"
                => cpu[d].phase = "dispatch" /\ cpu'[d].slot = cpu[d].slot
  <2>1. CASE d = c
    BY <1>1, <2>1 DEF Idles, Leaves
  <2>2. CASE d # c
    BY <1>1, <2>2 DEF Idles, Leaves
  <2> QED BY <2>1, <2>2
<1>3. kind = "last" \/ (kind = "runout" /\ cpu'[c].phase = "rt")
      \/ (kind = "runout" /\ cpu'[c].phase = "pick" /\ local[c] # <<>>)
  BY DEF Leaves
<1>4. task[t].where # "local"
  BY <1>1
<1> QED BY EnqueueInv, <1>2, <1>3, <1>4

LEMMA PutPrevInv ==
  ASSUME IInv, NEW c \in Cpus, NEW q \in Queues, PutPrev(c, q)
  PROVE  IInv'
<1> DEFINE t == cpu[c].cur
           kind == IF local[c] = <<>> THEN "last" ELSE "runout"
<1>1. /\ cpu[c].phase = "put" /\ t \in Tasks
  BY DEF IInv, CpuInv, Coherent, PutPrev
<1>2. ~MidWake(c)
  BY <1>1, SchedAssumption DEF IInv, WakerInv, MidWake, SchedAssumption
<1>3. kind = "last" \/ (kind = "runout" /\ local[c] # <<>>)
  OBVIOUS
<1>4. PICK p \in Placements(t, c, kind, q) :
        /\ Enqueue(t, c, kind, q, p)
        /\ cpu' = [d \in Cpus |->
                     LET s == CpuAfter(d, t, c, kind, p, cpu[d])
                     IN  IF d # c THEN s
                         ELSE [Stopped(s, TRUE) EXCEPT !.cur = None,
                                 !.phase = "pick", !.out = FALSE]]
  BY Zenon DEF PutPrev
<1>5. cpu[c].cur = t
  OBVIOUS
<1> HIDE DEF t, kind
<1>6. \A d \in Cpus : cpu'[d] = IF d # c THEN CpuAfter(d, t, c, kind, p, cpu[d])
                                ELSE Gone(CpuAfter(d, t, c, kind, p, cpu[d]), "pick")
  BY <1>4, Zenon DEF Gone
<1>7. Leaves(t, c, kind, p, "pick")
  BY <1>1, <1>5, <1>6, LeavesFacts
<1>8. cpu' \in [Cpus -> CpuState]
  BY <1>4, <1>7, Zenon DEF Leaves
<1> QED BY StopEnqueue, <1>1, <1>2, <1>3, <1>4, <1>5, <1>7, <1>8

-----------------------------------------------------------------------------
(* Realtime takeover.                                                      *)

LEMMA TakeoverStopInv ==
  ASSUME IInv, NEW c \in Cpus, NEW q \in Queues, TakeoverStop(c, q)
  PROVE  IInv'
<1> DEFINE t == cpu[c].cur
<1>1. /\ cpu[c].phase = "run" /\ cpu[c].cur # Rt /\ ~MidWake(c)
      /\ cpu[c] \in CpuState /\ Coherent(cpu[c])
      /\ None \notin Tasks /\ None # Idle /\ None # Rt /\ Rt \notin Tasks
  BY Parts, SchedAssumption DEF IInv, CpuInv, TakeoverStop, SchedAssumption
<1>2. CASE t \notin Tasks
  <2> DEFINE n == [cpu[c] EXCEPT !.phase = "rt"]
  <2>1. cpu' = [cpu EXCEPT ![c] = n] /\ UNCHANGED <<task, local, reenq>>
    BY <1>2 DEF TakeoverStop
  <2>2. /\ n \in CpuState /\ n.cur = cpu[c].cur /\ n.phase = "rt" /\ n.q1 = cpu[c].q1
        /\ n.occ = cpu[c].occ /\ n.idle = cpu[c].idle
    BY <1>1 DEF CpuState
  <2> HIDE DEF n
  <2>3. Coherent(n)
    BY <1>1, <1>2, <2>2 DEF Coherent
  <2> QED BY RecordStep, <1>1, <2>1, <2>2, <2>3
<1>3. CASE /\ t \in Tasks
           /\ \E p \in Placements(t, c, "runout", q) :
                /\ Enqueue(t, c, "runout", q, p)
                /\ cpu' = [d \in Cpus |->
                     LET s == CpuAfter(d, t, c, "runout", p, cpu[d])
                     IN  IF d # c THEN s
                         ELSE [Stopped(s, TRUE) EXCEPT !.cur = None,
                                 !.phase = "rt", !.out = FALSE]]
  <2>1. PICK p \in Placements(t, c, "runout", q) :
          /\ Enqueue(t, c, "runout", q, p)
          /\ cpu' = [d \in Cpus |->
               LET s == CpuAfter(d, t, c, "runout", p, cpu[d])
               IN  IF d # c THEN s
                   ELSE [Stopped(s, TRUE) EXCEPT !.cur = None,
                           !.phase = "rt", !.out = FALSE]]
    BY <1>3
  <2>2. cpu[c].cur = t /\ t \in Tasks
    BY <1>3
  <2> HIDE DEF t
  <2>a. \A d \in Cpus : cpu'[d] = IF d # c THEN CpuAfter(d, t, c, "runout", p, cpu[d])
                                  ELSE Gone(CpuAfter(d, t, c, "runout", p, cpu[d]), "rt")
    BY <2>1, Zenon DEF Gone
  <2>3. Leaves(t, c, "runout", p, "rt")
    BY <2>2, <2>a, LeavesFacts
  <2>4. cpu' \in [Cpus -> CpuState]
    BY <2>1, <2>3, Zenon DEF Leaves
  <2> QED BY StopEnqueue, <1>1, <2>1, <2>2, <2>3, <2>4
<1>4. CASE /\ t \in Tasks
           /\ task' = [task EXCEPT ![t] = [@ EXCEPT !.where = "local", !.at = c]]
           /\ local' = [local EXCEPT ![c] = <<t>> \o @]
           /\ cpu' = [cpu EXCEPT ![c] = [Stopped(@, TRUE) EXCEPT
                             !.cur = None, !.phase = "rt"]]
           /\ UNCHANGED reenq
  <2> DEFINE m == [task[t] EXCEPT !.where = "local", !.at = c]
             n == [Stopped(cpu[c], TRUE) EXCEPT !.cur = None, !.phase = "rt"]
  <2>1. /\ task[t] \in TaskState /\ task[t].where = "cpu" /\ task[t].home = c
        /\ \A d \in Cpus : cpu[d].cur = t <=> d = c
        /\ t \notin ToSet(local[c]) /\ t \notin reenq
    BY Parts, <1>4 DEF IInv
  <2>2. /\ m \in TaskState /\ m.where = "local" /\ m.at = c /\ m.home = c
    BY <2>1 DEF TaskState
  <2>3. /\ n \in CpuState /\ n.cur = None /\ n.phase = "rt" /\ ~n.q1
        /\ n.occ = cpu[c].occ /\ n.idle = cpu[c].idle
    BY <1>1 DEF CpuState, Stopped
  <2>4. task' = [task EXCEPT ![t] = m] /\ cpu' = [cpu EXCEPT ![c] = n]
    BY <1>4
  <2> HIDE DEF m, n
  <2>5. Coherent(n)
    BY <1>1, <1>4, <2>3 DEF Coherent
  <2>6. /\ task' \in [Tasks -> TaskState] /\ task'[t] = m
        /\ \A u \in Tasks \ {t} : task'[u] = task[u]
        /\ cpu' \in [Cpus -> CpuState] /\ cpu'[c] = n
        /\ \A d \in Cpus \ {c} : cpu'[d] = cpu[d]
        /\ reenq' = reenq
    <3>1. cpu \in [Cpus -> CpuState] /\ task \in [Tasks -> TaskState]
      BY Parts DEF IInv
    <3> QED BY <1>4, <2>2, <2>3, <2>4, <3>1
  <2>7. /\ local' \in [Cpus -> Seq(Tasks)] /\ \A d \in Cpus \ {c} : local'[d] = local[d]
        /\ Unique(local'[c]) /\ ToSet(local'[c]) = ToSet(local[c]) \cup {t}
    <3> HIDE DEF t
    <3>1. /\ local' = [local EXCEPT ![c] = <<t>> \o local[c]]
          /\ local[c] \in Seq(Tasks) /\ Unique(local[c])
      BY Parts, <1>4 DEF IInv
    <3>2. /\ <<t>> \o local[c] \in Seq(Tasks) /\ Unique(<<t>> \o local[c])
          /\ ToSet(<<t>> \o local[c]) = ToSet(local[c]) \cup {t}
      BY PrependSet, <1>4, <2>1, <3>1
    <3> QED BY Parts, <3>1, <3>2 DEF IInv
  <2>8. t \in Tasks
    BY <1>4
  <2> HIDE DEF t
  <2>9. TypeOK'
    <3>1. \A d \in Cpus : Unique(local'[d]) /\ ToSet(local'[d]) \subseteq Tasks
      BY Parts, SetInTasks, <2>7 DEF IInv
    <3>2. \A u \in reenq' : u \in Tasks /\ task'[u].where \in {"local", "queue"}
      BY Parts, <2>1, <2>6 DEF IInv
    <3>3. ASSUME NEW d \in Cpus, NEW u \in Tasks
          PROVE  /\ u \in ToSet(local'[d]) <=> task'[u].where = "local" /\ task'[u].at = d
                 /\ cpu'[d].cur = u <=> task'[u].where = "cpu" /\ task'[u].home = d
      <4>1. /\ u \in ToSet(local[d]) <=> task[u].where = "local" /\ task[u].at = d
            /\ cpu[d].cur = u <=> task[u].where = "cpu" /\ task[u].home = d
        BY Parts DEF IInv
      <4>2. CASE u = t
        BY <1>1, <2>1, <2>2, <2>3, <2>6, <2>7, <4>1, <4>2
      <4>3. CASE u # t
        <5>1. d = c => cpu[d].cur = t
          BY <2>1
        <5> QED BY <1>1, <2>3, <2>6, <2>7, <4>1, <4>3, <5>1
      <4> QED BY <4>2, <4>3
    <3> QED BY MakeTypes, <2>6, <2>7, <3>1, <3>2, <3>3
  <2>10. CpuInv'
    BY <2>5, <2>6 DEF IInv, CpuInv, Coherent
  <2>11. WakerInv'
    <3>1. ASSUME NEW u \in Tasks, task'[u].where \in {"waking", "forking", "requeued"}
          PROVE  /\ u # t /\ task'[u] = task[u] /\ task[u].enq \in Cpus \cup {NoCpu}
                 /\ task[u].enq # c
      <4>1. u # t /\ task'[u] = task[u]
        BY <2>2, <2>6, <3>1
      <4>2. task[u] \in TaskState
        BY Parts DEF IInv
      <4> QED BY <1>1, <3>1, <4>1, <4>2 DEF MidWake, TaskState
    <3>2. ASSUME NEW d \in Cpus, d # c PROVE cpu'[d] = cpu[d]
      BY <2>6, <3>2
    <3> QED BY <3>1, <3>2 DEF IInv, WakerInv
  <2>12. HomeInv'
    BY <2>2, <2>6 DEF IInv, HomeInv
  <2>13. VetoBacked'
    <3>1. ASSUME NEW d \in Cpus, cpu'[d].q1
          PROVE  cpu'[d].cur \in Tasks /\ task'[cpu'[d].cur].queue = 1
      <4>1. d # c
        BY <2>3, <2>6, <3>1
      <4>2. cpu[d].cur \in Tasks /\ task[cpu[d].cur].queue = 1 /\ cpu[d].cur # t
        BY <2>1, <2>6, <3>1, <4>1 DEF IInv, VetoBacked
      <4> QED BY <2>6, <4>1, <4>2
    <3> QED BY <3>1 DEF VetoBacked
  <2>14. KickInv'
    <3> SUFFICES ASSUME NEW d \in Cpus, NEW u \in Tasks, Awaits(u, d)',
                        (Passed(u, d) \/ (Idles(d) /\ task[u].where \in {"queue", "local"}))'
                 PROVE  cpu'[d].kick
      BY DEF KickInv
    <3>1. d # c
      BY <2>3, <2>6 DEF Passed, Idles
    <3>2. u # t
      BY <2>2, <2>6, <3>1 DEF Awaits
    <3>3. task'[u] = task[u] /\ cpu'[d] = cpu[d] /\ local'[d] = local[d] /\ reenq' = reenq
      BY <2>6, <2>7, <3>1, <3>2
    <3> QED BY <3>3 DEF IInv, KickInv, Awaits, Passed, Idles
  <2> QED BY <2>9, <2>10, <2>11, <2>12, <2>13, <2>14 DEF IInv
<1> QED BY <1>2, <1>3, <1>4, Zenon DEF TakeoverStop

(* A realtime task on the CPU: what the switch leaves of the record.       *)
LEMMA RtSwitchFacts ==
  ASSUME IInv, NEW c \in Cpus
  PROVE  LET n == RtSwitch(cpu[c], c) IN
         /\ n \in CpuState /\ Coherent(n) /\ n.cur = Rt /\ n.phase = "run"
         /\ n.q1 = cpu[c].q1
<1> DEFINE gate == cpu[c].gate
                   \/ (/\ ~cpu[c].gate
                       /\ {t \in Tasks : task[t].at = c /\ task[t].where \in {"local", "queue"}} # {}
                       /\ Reenq # "none")
           n == [cpu[c] EXCEPT !.cur = Rt, !.phase = "run", !.occ = TRUE, !.idle = FALSE,
                               !.kick = FALSE, !.gate = gate]
<1>1. cpu[c] \in CpuState
  BY Parts DEF IInv
<1>2. RtSwitch(cpu[c], c) = n
  BY Zenon DEF RtSwitch
<1>3. gate \in BOOLEAN
  BY <1>1 DEF CpuState
<1> HIDE DEF gate
<1>4. /\ n \in CpuState /\ n.cur = Rt /\ n.phase = "run" /\ n.q1 = cpu[c].q1
      /\ n.occ /\ ~n.idle
  BY <1>1, <1>3 DEF CpuState
<1> HIDE DEF n
<1>5. Coherent(n)
  BY <1>4, SchedAssumption DEF Coherent, SchedAssumption
<1> QED BY <1>2, <1>4, <1>5

LEMMA TakeoverSwitchInv ==
  ASSUME IInv, NEW c \in Cpus, TakeoverSwitch(c)
  PROVE  IInv'
<1> DEFINE r == RtSwitch(cpu[c], c)
           n == [r EXCEPT !.q1 = FALSE]
<1>1. /\ r \in CpuState /\ Coherent(r) /\ r.cur = Rt /\ r.phase = "run"
      /\ cpu[c] \in CpuState /\ cpu[c].cur \notin Tasks
      /\ Rt \notin Tasks /\ Rt # Idle
  BY Parts, RtSwitchFacts, SchedAssumption
     DEF IInv, CpuInv, Coherent, TakeoverSwitch, SchedAssumption
<1>2. cpu' = [cpu EXCEPT ![c] = n] /\ task' = task /\ local' = local
  BY DEF TakeoverSwitch
<1> HIDE DEF r
<1>3. /\ n \in CpuState /\ n.cur = Rt /\ n.phase = "run" /\ ~n.q1
      /\ n.occ = r.occ /\ n.idle = r.idle
  BY <1>1 DEF CpuState
<1> HIDE DEF n
<1>4. Coherent(n)
  BY <1>1, <1>3 DEF Coherent
<1>5. cpu'[c] = n
  BY Parts, <1>2 DEF IInv
<1>6. ASSUME NEW t \in reenq', t \notin reenq
      PROVE  t \in Tasks /\ task[t].at = c /\ task[t].where \in {"local", "queue"}
  <2>1. t \in Drained(c) \/ t \in {local[c][i] : i \in DOMAIN local[c]}
    BY <1>6 DEF TakeoverSwitch
  <2>2. CASE t \in Drained(c)
    BY <2>2 DEF Drained, Evacuated
  <2>3. CASE t \in {local[c][i] : i \in DOMAIN local[c]}
    <3>1. t \in ToSet(local[c]) /\ local[c] \in Seq(Tasks)
      BY Parts, <2>3 DEF IInv, ToSet
    <3>2. t \in Tasks
      BY SetInTasks, <3>1
    <3> QED BY Parts, <3>1, <3>2 DEF IInv
  <2> QED BY <2>1, <2>2, <2>3
<1>7. \A t \in reenq : t \in reenq'
  BY DEF TakeoverSwitch
<1>8. \A t \in Tasks :
        ~(Passed(t, c) \/ (Idles(c) /\ task[t].where \in {"queue", "local"}))'
  BY <1>1, <1>3, <1>5 DEF Passed, Idles
<1>9. \A t \in reenq' : t \in reenq \/ (/\ t \in Tasks /\ task[t].at = c
                                         /\ task[t].where \in {"local", "queue"})
  BY <1>6
<1>10. \A t \in Tasks : n.cur = t <=> cpu[c].cur = t
  BY <1>1, <1>3
<1> QED BY CpuStep, <1>2, <1>3, <1>4, <1>7, <1>8, <1>9, <1>10

LEMMA RtToRtInv ==
  ASSUME IInv, NEW c \in Cpus, RtToRt(c)
  PROVE  IInv'
<1> DEFINE n == RtSwitch(cpu[c], c)
<1>1. /\ n \in CpuState /\ Coherent(n) /\ n.cur = Rt /\ n.phase = "run"
      /\ n.q1 = cpu[c].q1 /\ cpu[c].cur = Rt
      /\ Rt \notin Tasks /\ Rt # Idle
  BY RtSwitchFacts, SchedAssumption DEF RtToRt, SchedAssumption
<1>2. cpu' = [cpu EXCEPT ![c] = n] /\ task' = task /\ local' = local
  BY DEF RtToRt
<1> HIDE DEF n
<1>3. cpu'[c] = n
  BY Parts, <1>2 DEF IInv
<1>4. ASSUME NEW t \in reenq', t \notin reenq
      PROVE  t \in Tasks /\ task[t].at = c /\ task[t].where \in {"local", "queue"}
  BY <1>4 DEF RtToRt, Drained, Evacuated
<1>5. \A t \in reenq : t \in reenq'
  BY DEF RtToRt
<1>6. \A t \in Tasks :
        ~(Passed(t, c) \/ (Idles(c) /\ task[t].where \in {"queue", "local"}))'
  BY <1>1, <1>3 DEF Passed, Idles
<1> QED BY CpuStep, <1>1, <1>2, <1>4, <1>5, <1>6

LEMMA RtLeaveInv ==
  ASSUME IInv, NEW c \in Cpus, RtLeave(c)
  PROVE  IInv'
<1> DEFINE n == [cpu[c] EXCEPT !.cur = None, !.phase = "balance"]
<1>1. /\ cpu[c] \in CpuState /\ Coherent(cpu[c]) /\ cpu[c].cur = Rt /\ ~MidWake(c)
      /\ Rt \notin Tasks /\ None \notin Tasks /\ None # Rt
  BY Parts, SchedAssumption DEF IInv, CpuInv, RtLeave, SchedAssumption
<1>2. /\ n \in CpuState /\ n.cur = None /\ n.phase = "balance" /\ n.q1 = cpu[c].q1
      /\ n.occ = cpu[c].occ /\ n.idle = cpu[c].idle
  BY <1>1 DEF CpuState
<1>3. cpu' = [cpu EXCEPT ![c] = n] /\ UNCHANGED <<task, local, reenq>>
  BY DEF RtLeave
<1> HIDE DEF n
<1>4. Coherent(n)
  BY <1>1, <1>2 DEF Coherent
<1> QED BY RecordStep, <1>1, <1>2, <1>3, <1>4

LEMMA GateOpenInv ==
  ASSUME IInv, NEW c \in Cpus, GateOpen(c)
  PROVE  IInv'
<1> DEFINE n == [cpu[c] EXCEPT !.gate = FALSE]
<1>1. cpu[c] \in CpuState /\ Coherent(cpu[c])
  BY Parts DEF IInv, CpuInv
<1>2. /\ n \in CpuState /\ n.cur = cpu[c].cur /\ n.phase = cpu[c].phase
      /\ n.slot = cpu[c].slot /\ n.kick = cpu[c].kick
      /\ n.q1 = cpu[c].q1 /\ n.occ = cpu[c].occ /\ n.idle = cpu[c].idle
  BY <1>1 DEF CpuState
<1>3. cpu' = [cpu EXCEPT ![c] = n] /\ UNCHANGED <<task, local, reenq>>
  BY DEF GateOpen
<1> HIDE DEF n
<1>4. Coherent(n)
  BY <1>1, <1>2 DEF Coherent
<1>5. ASSUME NEW t \in Tasks, Awaits(t, c),
             \/ /\ task[t].where = "queue" /\ local[c] = <<>>
                /\ \/ n.phase = "dispatch" /\ task[t].queue < n.slot[1]
                   \/ n.phase \in {"put", "pick"}
             \/ n.phase = "run" /\ n.cur = Idle /\ task[t].where \in {"queue", "local"}
      PROVE  n.kick
  <2>1. Passed(t, c) \/ (Idles(c) /\ task[t].where \in {"queue", "local"})
    BY <1>2, <1>5 DEF Passed, Idles
  <2> QED BY <1>2, <1>5, <2>1 DEF IInv, KickInv
<1> QED BY RecordStep, <1>2, <1>3, <1>4, <1>5

-----------------------------------------------------------------------------
(* The invariant holds.                                                    *)

LEMMA InitInv == Init => IInv
<1> SUFFICES ASSUME Init PROVE IInv
  OBVIOUS
<1> DEFINE s == [cur |-> Idle, phase |-> "run", slot |-> <<1, 0>>, out |-> FALSE,
                 idle |-> TRUE, kick |-> FALSE, occ |-> FALSE, gate |-> FALSE,
                 rec |-> [pid |-> None, queue |-> 0], q1 |-> FALSE]
<1>1. /\ 1 \in Queues
      /\ NrQueues > 1 => 2 \in Queues
      /\ 0 \in 0..NrQueues
      /\ Idle \notin Tasks /\ Idle # Rt /\ Idle # None
  <2>1. NrQueues \in Nat \ {0}
    BY SchedAssumption DEF SchedAssumption
  <2>2. 1 \in 1..NrQueues /\ 0 \in 0..NrQueues
    BY <2>1
  <2>3. NrQueues > 1 => 2 \in 1..NrQueues
    BY <2>1
  <2>4. Idle \notin Tasks /\ Idle # Rt /\ Idle # None
    BY SchedAssumption DEF SchedAssumption
  <2> QED BY <2>2, <2>3, <2>4 DEF Queues
<1>2. /\ s \in CpuState /\ s.cur = Idle /\ s.phase = "run" /\ ~s.occ /\ ~s.q1
  <2>1. <<1, 0>> \in Queues \X Nat
    BY <1>1
  <2>2. [pid |-> None, queue |-> 0] \in [pid : Tasks \cup {None}, queue : 0..NrQueues]
    BY <1>1
  <2> QED BY <2>1, <2>2 DEF CpuState
<1>3. cpu = [c \in Cpus |-> s]
  BY DEF Init
<1> HIDE DEF s
<1>4. ASSUME NEW c \in Cpus, NEW a \in Affinities
      PROVE  NewTask(c, a) \in TaskState /\ NewTask(c, a).where \in {"new", "asleep"}
  <2> DEFINE q == IF NrQueues > 1 THEN 2 ELSE 1
  <2>1. q \in Queues
    <3>1. CASE NrQueues > 1
      BY <1>1, <3>1
    <3>2. CASE ~(NrQueues > 1)
      BY <1>1, <3>2
    <3> QED BY <3>1, <3>2
  <2> HIDE DEF q
  <2> QED BY <2>1 DEF NewTask, TaskState, q
<1>5. /\ task \in [Tasks -> TaskState]
      /\ \A t \in Tasks : task[t].where \in {"new", "asleep"}
  BY <1>4 DEF Init
<1>6. /\ local \in [Cpus -> Seq(Tasks)] /\ \A c \in Cpus : local[c] = <<>>
      /\ reenq = {}
  BY DEF Init
<1>7. \A c \in Cpus : ToSet(local[c]) = {} /\ DOMAIN local[c] = {}
  BY EmptySet, <1>6 DEF ToSet
<1>8. TypeOK
  BY <1>1, <1>2, <1>3, <1>5, <1>6, <1>7 DEF TypeOK
<1>9. CpuInv /\ VetoBacked
  BY <1>1, <1>2, <1>3 DEF CpuInv, Coherent, VetoBacked
<1>10. WakerInv /\ HomeInv
  BY <1>5 DEF WakerInv, HomeInv
<1>11. KickInv
  BY <1>5 DEF KickInv, Passed
<1> QED BY <1>8, <1>9, <1>10, <1>11 DEF IInv

LEMMA StutterInv == IInv /\ UNCHANGED vars => IInv'
BY DEF vars, IInv, TypeOK, CpuInv, WakerInv, HomeInv, VetoBacked, KickInv,
       Awaits, Passed, Idles

LEMMA NextInv == IInv /\ [Next]_vars => IInv'
<1> SUFFICES ASSUME IInv, [Next]_vars PROVE IInv'
  OBVIOUS
<1>1. ASSUME NEW w \in Cpus, NEW t \in Tasks, SelectCpu(w, t) \/ SyncHandoff(w, t)
      PROVE  IInv'
  BY <1>1, SelectCpuInv, SyncHandoffInv
<1>2. ASSUME NEW t \in Tasks, NEW q \in Queues, Activate(t, q) PROVE IInv'
  BY <1>2, ActivateInv
<1>3. ASSUME NEW w \in Cpus, NEW t \in Tasks, NEW a \in Affinities, Repin(w, t, a)
      PROVE  IInv'
  BY <1>3, RepinInv
<1>4. ASSUME NEW c \in Cpus, NEW dies \in BOOLEAN, Block(c, dies) PROVE IInv'
  BY <1>4, BlockInv
<1>5. ASSUME NEW t \in Tasks, ExitTask(t) \/ Reenqueue(t) PROVE IInv'
  BY <1>5, ExitTaskInv, ReenqueueInv
<1>6. ASSUME NEW c \in Cpus, Resched(c) \/ IdleSchedule(c) PROVE IInv'
  BY <1>6, ReschedInv, IdleScheduleInv
<1>7. ASSUME NEW c \in Cpus, Switching(c) PROVE IInv'
  BY <1>7, BalanceLocalInv, BalanceGlobalInv, DispatchKeepInv, DispatchStartInv,
     DispatchSlotInv, DispatchNextInv, PutPrevInv, PickTaskInv, PickIdleInv,
     TakeoverSwitchInv DEF Switching
<1>8. ASSUME NEW c \in Cpus, NEW q \in Queues, TakeoverStop(c, q) PROVE IInv'
  BY <1>8, TakeoverStopInv
<1>9. ASSUME NEW c \in Cpus, RtToRt(c) \/ RtLeave(c) \/ GateOpen(c) PROVE IInv'
  BY <1>9, RtToRtInv, RtLeaveInv, GateOpenInv
<1> QED BY <1>1, <1>2, <1>3, <1>4, <1>5, <1>6, <1>7, <1>8, <1>9, StutterInv DEF Next

LEMMA Invariance == Spec => []IInv
<1> QED BY InitInv, NextInv, PTL DEF Spec

(* A task is in one place: what a local DSQ, a CPU and the re-enqueue list *)
(* hold is what the tasks' own records say, through wakeups, dispatches,   *)
(* takeovers and re-enqueues (mlfq_enqueue, mlfq_dispatch_queue).          *)
THEOREM TypeCorrect == Spec => []TypeOK
<1>1. IInv => TypeOK
  BY DEF IInv
<1> QED BY <1>1, Invariance, PTL

(* A CPU vetoes its SMT sibling for Q3 only while it runs a Q1 task        *)
(* (q1_occupancy, mlfq_running to mlfq_exit_task).                         *)
THEOREM VetoIsBacked == Spec => []VetoBacked
<1>1. IInv => VetoBacked
  BY DEF IInv
<1> QED BY <1>1, Invariance, PTL

(* The mark of mlfq_sched_switch is exact outside a context switch.        *)
THEOREM MarkExact == Spec => []OccupiedExact
<1>1. IInv => OccupiedExact
  BY DEF IInv, CpuInv, Coherent, OccupiedExact
<1> QED BY <1>1, Invariance, PTL

(* A task that another CPU queues for an idle CPU that may run it has that *)
(* CPU about to be rescheduled: no insert slips between the last look of   *)
(* the dispatch and the idle loop (mlfq_idle_kick).                        *)
THEOREM NoTaskStranded == Spec => []IdleCpuKicked
<1>1. IInv => IdleCpuKicked
  BY DEF IInv, KickInv, IdleCpuKicked, Awaits, Idles
<1> QED BY <1>1, Invariance, PTL

(* Of the inserts mlfq_enqueue makes for wakeups, only the idle fast path, *)
(* run by another CPU after the claim, reaches the local DSQ of a CPU that *)
(* a realtime task holds.                                                  *)
THEOREM OccupiedOnlyRemotely == Spec => OccupiedOnlyByRemote
<1> DEFINE Remote(t) ==
      /\ task'[t].where = "local" /\ cpu[task'[t].at].occ
      /\ \E q \in Queues : Activate(t, q)
      => task[t].direct /\ task[t].enq \notin {NoCpu, task'[t].at}
<1>1. ASSUME IInv, NEW t \in Tasks, NEW q \in Queues, Activate(t, q),
             task'[t].where = "local", cpu[task'[t].at].occ
      PROVE  task[t].direct /\ task[t].enq \notin {NoCpu, task'[t].at}
  <2> DEFINE e == IF task[t].enq = NoCpu THEN task[t].home ELSE task[t].enq
             home == task[t].home
  <2>1. e \in Cpus /\ home \in Cpus
    BY Parts, <1>1 DEF IInv, TaskState
  <2>2. PICK p \in Placements(t, e, Kind(t), q) : Enqueue(t, e, Kind(t), q, p)
    BY <1>1 DEF Activate, EnqueueStep
  <2>3. task[t].enq # NoCpu => e = task[t].enq
    OBVIOUS
  <2>4. task[t].enq = NoCpu => e = home
    OBVIOUS
  <2> HIDE DEF e, home
  <2>5. task'[t].at = p.to /\ p.dsq \in {"local", "front", "claim"}
    BY <1>1, <2>1, <2>2, EnqueueFacts DEF IInv
  <2>6. /\ p.to = home
        /\ p.dsq = "claim" => cpu[home].idle
        /\ p.dsq = "local" => task[t].direct /\ ~cpu[e].occ
        /\ p.dsq = "front" => ~cpu[home].occ
    BY <1>1, <2>1, <2>2, <2>5, PlacementFacts DEF IInv, home
  <2>7. p.dsq = "local"
    BY <1>1, <2>1, <2>5, <2>6 DEF IInv, CpuInv, Coherent
  <2> QED BY <1>1, <2>3, <2>4, <2>5, <2>6, <2>7
<1>2. IInv /\ [Next]_vars => [\A t \in Tasks : Remote(t)]_vars
  BY <1>1
<1> QED BY <1>2, Invariance, PTL DEF Spec, OccupiedOnlyByRemote

-----------------------------------------------------------------------------
(* The evacuation of a CPU that is taken over.                             *)

(* Where TakenOverEvacuated can hold.  Each part is needed: an older       *)
(* kernel re-enqueues no queue DSQ, a takeover within the drain interval   *)
(* drains nothing, a waker that enqueues for another CPU reaches the local *)
(* DSQ of one taken over since, and a fork is not redirected.              *)
Drains ==
  /\ IsFiniteSet(Cpus)
  /\ Reenq = "generic" /\ SpacedRt /\ ~RemoteEnqueue /\ ~Forks

(* Only CPUs that may be taken over are, or are about to be; and the next  *)
(* switch to a realtime task drains.                                       *)
TakenInv ==
  \A c \in Cpus :
    /\ cpu[c].occ \/ cpu[c].cur = Rt \/ cpu[c].phase = "rt" => c \in RtCpus
    /\ cpu[c].phase = "rt" => ~cpu[c].gate

(* Wakeups are enqueued on the CPU that was selected.                      *)
WokenInv ==
  \A t \in Tasks :
    /\ task[t].where \notin {"forking", "new"}
    /\ task[t].where = "waking" => task[t].enq \in {NoCpu, task[t].home}

PendingInv ==
  \A t \in Tasks, c \in RtCpus : Stranded(t, c) => t \in reenq

EvacInv == Drains /\ TakenInv /\ WokenInv /\ PendingInv

(* A task that could run elsewhere is never put into a DSQ of a CPU that a *)
(* realtime task holds.                                                    *)
LEMMA PlacedFree ==
  ASSUME IInv, Drains, TakenInv, NEW t \in Tasks, NEW e \in Cpus, NEW kind,
         NEW q \in Queues, NEW p \in Placements(t, e, kind, q),
         kind \in {"wakeup", "reenq", "other", "runout", "last"},
         kind = "wakeup" => e = task[t].home,
         kind \notin {"wakeup", "reenq"} => cpu[e].cur \in Tasks,
         p.dsq # "global",
         \E d \in task[t].aff : d \notin RtCpus
  PROVE  p.to \in Cpus /\ (p.to \in RtCpus => cpu[p.to].cur # Rt)
<1>1. PICK d \in task[t].aff : d \notin RtCpus
  OBVIOUS
<1>2. /\ task[t].home \in Cpus /\ task[t].aff \subseteq Cpus /\ d \in Cpus
      /\ Rt \notin Tasks
  BY <1>1, Parts, SchedAssumption DEF IInv, TaskState, SchedAssumption
<1>3. \A c \in Cpus : cpu[c].cur = Rt => cpu[c].occ
  BY DEF IInv, CpuInv, Coherent
<1>4. p.to \in Cpus /\ (p.dsq = "front" => p.to = task[t].home /\ ~cpu[task[t].home].occ)
  BY PlacementFacts DEF IInv
<1> DEFINE target == RegularCpu(t, e, kind)
<1>5. target \in Cpus /\ (kind # "wakeup" => target = e)
  BY <1>2 DEF RegularCpu
<1>6. Unoccupied(t) \subseteq Cpus /\ d \in Unoccupied(t)
        /\ \A c \in Unoccupied(t) : ~cpu[c].occ
  BY <1>1, <1>2 DEF Unoccupied, TakenInv
<1>7. ~Redirected(t, e, kind) => cpu[target].cur # Rt
  <2>1. kind \in {"wakeup", "reenq"} /\ ~Redirected(t, e, kind) => ~cpu[target].occ
    BY DEF Redirected
  <2>2. kind \notin {"wakeup", "reenq"} => cpu[target].cur # Rt
    BY <1>2, <1>5
  <2> QED BY <1>3, <1>5, <2>1, <2>2
<1> HIDE DEF target
<1>8. CASE Pinned(t)
  <2>1. IsFiniteSet(task[t].aff) /\ Cardinality(task[t].aff) = 1
    BY <1>2, <1>8, FS_Subset DEF Drains, Pinned
  <2>2. task[t].aff = {d}
    <3>1. PICK x : task[t].aff = {x}
      BY <2>1, FS_Singleton
    <3> QED BY <1>1, <3>1
  <2>3. p = [dsq |-> IF task[t].home \notin task[t].aff THEN "global"
                     ELSE IF cpu[task[t].home].idle THEN "claim" ELSE "queue",
             to |-> task[t].home]
    BY <1>8, Zenon DEF Placements
  <2>4. p.to = task[t].home /\ task[t].home \in task[t].aff
    BY <2>3
  <2> QED BY <1>1, <1>4, <2>2, <2>4
<1>9. CASE ~Pinned(t)
  <2>1. \/ p.dsq = "local" /\ p.to = task[t].home /\ kind = "wakeup" /\ ~cpu[e].occ
        \/ p.dsq = "front"
        \/ p.to \in (IF Redirected(t, e, kind) /\ Unoccupied(t) # {}
                     THEN Unoccupied(t) ELSE {target})
    <3> HIDE DEF Redirected, Unoccupied, RegularCpu, MayPreempt, Pinned
    <3>1. CASE kind \in {"wakeup", "fork"} /\ task[t].direct /\ ~cpu[e].occ
      <4>1. p = [dsq |-> "local", to |-> task[t].home]
        BY <1>9, <3>1, Zenon DEF Placements
      <4> QED BY <3>1, <4>1
    <3>2. CASE ~(kind \in {"wakeup", "fork"} /\ task[t].direct /\ ~cpu[e].occ)
      <4>1. \/ p = [dsq |-> "front", to |-> task[t].home]
            \/ \E c \in (IF Redirected(t, e, kind) /\ Unoccupied(t) # {}
                         THEN Unoccupied(t) ELSE {target}) :
                 p = [dsq |-> "queue", to |-> c]
        BY <1>9, <3>2, Zenon DEF Placements, target
      <4> QED BY <4>1
    <3> QED BY <3>1, <3>2
  <2>2. CASE p.dsq = "local" /\ p.to = task[t].home /\ kind = "wakeup" /\ ~cpu[e].occ
    BY <1>2, <1>3, <2>2
  <2>3. CASE p.dsq = "front"
    BY <1>2, <1>3, <1>4, <2>3
  <2>4. CASE Redirected(t, e, kind) /\ p.to \in Unoccupied(t)
    BY <1>3, <1>6, <2>4
  <2>5. CASE ~Redirected(t, e, kind) /\ p.to = target
    BY <1>5, <1>7, <2>5
  <2> QED BY <1>6, <2>1, <2>2, <2>3, <2>4, <2>5
<1> QED BY <1>8, <1>9

(* What a step may do to a CPU, and to a task.                             *)
Calm(c) ==
  /\ cpu'[c].occ => cpu[c].occ
  /\ cpu'[c].cur = Rt => cpu[c].cur = Rt
  /\ cpu'[c].phase = "rt" => cpu[c].phase = "rt" /\ (cpu'[c].gate => cpu[c].gate)

Taken(c) == c \in RtCpus /\ cpu'[c].cur # Rt /\ ~cpu'[c].gate

Still(u) == task'[u] = task[u] /\ (u \in reenq => u \in reenq')

Lands(u) ==
  /\ task'[u].where \notin {"forking", "new"}
  /\ task'[u].where = "waking" => task'[u].enq \in {NoCpu, task'[u].home}
  /\ /\ task'[u].where \in {"local", "queue"}
     /\ task'[u].at \in RtCpus
     /\ \E d \in task'[u].aff : d \notin RtCpus
     => cpu[task'[u].at].cur # Rt

LEMMA EvacStep ==
  ASSUME IInv, EvacInv,
         \A c \in Cpus : Calm(c) \/ Taken(c),
         \A u \in Tasks : Still(u) \/ Lands(u)
  PROVE  EvacInv'
<1>1. RtCpus \subseteq Cpus
  BY SchedAssumption DEF SchedAssumption
<1>2. Drains'
  BY DEF EvacInv, Drains
<1>3. TakenInv'
  BY DEF EvacInv, TakenInv, Calm, Taken
<1>4. WokenInv'
  BY DEF EvacInv, WokenInv, Still, Lands
<1>5. ASSUME NEW t \in Tasks, NEW c \in RtCpus, Stranded(t, c)'
      PROVE  t \in reenq'
  <2>1. /\ cpu'[c].cur = Rt /\ task'[t].where \in {"local", "queue"} /\ task'[t].at = c
        /\ \E d \in task'[t].aff : d \notin RtCpus
    BY <1>5 DEF Stranded
  <2>2. cpu[c].cur = Rt /\ cpu[c].phase = "run"
    BY <1>1, <2>1 DEF Calm, Taken, IInv, CpuInv, Coherent
  <2>3. Still(t)
    BY <2>1, <2>2 DEF Lands
  <2>4. Stranded(t, c)
    BY <2>1, <2>2, <2>3 DEF Still, Stranded
  <2> QED BY <2>3, <2>4 DEF EvacInv, PendingInv, Still
<1>6. PendingInv'
  BY <1>5 DEF PendingInv
<1> QED BY <1>2, <1>3, <1>4, <1>6 DEF EvacInv

(* A task that goes through ops.enqueue.                                   *)
LEMMA EnqueueLands ==
  ASSUME IInv, EvacInv, NEW t \in Tasks, NEW e \in Cpus, NEW kind,
         NEW q \in Queues, NEW p \in Placements(t, e, kind, q),
         kind \in {"wakeup", "reenq", "other", "runout", "last"},
         kind = "wakeup" => e = task[t].home,
         kind \notin {"wakeup", "reenq"} => cpu[e].cur \in Tasks,
         Enqueue(t, e, kind, q, p)
  PROVE  Lands(t) /\ \A u \in Tasks \ {t} : Still(u)
<1>1. /\ \A u \in Tasks \ {t} : task'[u] = task[u]
      /\ task'[t].aff = task[t].aff /\ task'[t].at = p.to
      /\ task'[t].where \in {"local", "queue", "global"}
      /\ task'[t].where = "local" <=> p.dsq \in {"local", "front", "claim"}
      /\ task'[t].where = "queue" <=> p.dsq = "queue"
  BY EnqueueFacts DEF IInv
<1>2. reenq' = reenq \ {t}
  BY DEF Enqueue
<1>3. \A u \in Tasks \ {t} : Still(u)
  BY <1>1, <1>2 DEF Still
<1>4. /\ task'[t].where \in {"local", "queue"} /\ (\E d \in task[t].aff : d \notin RtCpus)
      => (p.to \in RtCpus => cpu[p.to].cur # Rt)
  BY <1>1, PlacedFree DEF EvacInv
<1>5. Lands(t)
  BY <1>1, <1>4 DEF Lands
<1> QED BY <1>3, <1>5

(* The records of the CPUs after an insert, or after a stop and an insert. *)
LEMMA InsertCalm ==
  ASSUME IInv, NEW t \in Tasks, NEW e \in Cpus, NEW kind, NEW p, NEW d \in Cpus,
         cpu'[d] = CpuAfter(d, t, e, kind, p, cpu[d])
  PROVE  Calm(d)
<1>1. cpu[d] \in CpuState
  BY Parts DEF IInv
<1> DEFINE r == CpuAfter(d, t, e, kind, p, cpu[d])
<1>2. r.cur = cpu[d].cur /\ r.phase = cpu[d].phase /\ r.occ = cpu[d].occ /\ r.gate = cpu[d].gate
  BY <1>1, CpuAfterFacts
<1> HIDE DEF r
<1> QED BY <1>2 DEF Calm, r

LEMMA StopRecord ==
  ASSUME IInv, NEW t \in Tasks, NEW c \in Cpus, NEW kind, NEW p, NEW ph \in {"pick", "rt"},
         cpu'[c] = Gone(CpuAfter(c, t, c, kind, p, cpu[c]), ph)
  PROVE  /\ cpu'[c].cur = None /\ cpu'[c].phase = ph
         /\ cpu'[c].occ = cpu[c].occ /\ cpu'[c].gate = cpu[c].gate
<1>1. cpu[c] \in CpuState
  BY Parts DEF IInv
<1> DEFINE r == CpuAfter(c, t, c, kind, p, cpu[c])
           z == Gone(r, ph)
<1>2. r \in CpuState /\ r.occ = cpu[c].occ /\ r.gate = cpu[c].gate
  BY <1>1, CpuAfterFacts
<1>3. cpu'[c] = z
  OBVIOUS
<1> HIDE DEF r
<1>4. z.cur = None /\ z.phase = ph /\ z.occ = r.occ /\ z.gate = r.gate
  BY <1>2 DEF CpuState, Stopped, Gone
<1> HIDE DEF z
<1> QED BY <1>2, <1>3, <1>4

(* A step of one CPU that changes only its record.                         *)
LEMMA RecordCalm ==
  ASSUME IInv, EvacInv, NEW c \in Cpus, NEW n, cpu' = [cpu EXCEPT ![c] = n],
         UNCHANGED <<task, local, reenq>>,
         n.occ => cpu[c].occ, n.cur = Rt => cpu[c].cur = Rt,
         n.phase = "rt" => cpu[c].phase = "rt" /\ (n.gate => cpu[c].gate)
  PROVE  EvacInv'
<1>1. cpu'[c] = n /\ \A d \in Cpus \ {c} : cpu'[d] = cpu[d]
  BY Parts DEF IInv
<1>2. \A d \in Cpus : Calm(d)
  BY <1>1 DEF Calm
<1>3. \A u \in Tasks : Still(u)
  BY DEF Still
<1> QED BY <1>2, <1>3, EvacStep

(* A task moves to the local DSQ of a CPU that chooses its next task.      *)
LEMMA MoveEvac ==
  ASSUME IInv, EvacInv, NEW c \in Cpus, NEW n, cpu' = [cpu EXCEPT ![c] = n],
         NEW t \in Tasks, MoveToLocal(t, c), cpu[c].cur # Rt,
         n.occ => cpu[c].occ, n.cur = cpu[c].cur, n.phase # "rt"
  PROVE  EvacInv'
<1>1. cpu'[c] = n /\ \A d \in Cpus \ {c} : cpu'[d] = cpu[d]
  BY Parts DEF IInv
<1>2. \A d \in Cpus : Calm(d)
  BY <1>1 DEF Calm
<1> DEFINE m == [task[t] EXCEPT !.where = "local", !.at = c, !.home = c, !.own = FALSE]
<1>3. task' = [task EXCEPT ![t] = m] /\ reenq' = reenq \ {t}
  BY DEF MoveToLocal
<1>4. m.where = "local" /\ m.at = c
  BY Parts DEF IInv, TaskState
<1> HIDE DEF m
<1>5. task'[t] = m /\ \A u \in Tasks \ {t} : task'[u] = task[u]
  BY Parts, <1>3 DEF IInv
<1>6. Lands(t) /\ \A u \in Tasks \ {t} : Still(u)
  BY <1>3, <1>4, <1>5 DEF Lands, Still
<1> QED BY <1>2, <1>6, EvacStep

LEMMA SelectCpuEvac ==
  ASSUME IInv, EvacInv, NEW w \in Cpus, NEW t \in Tasks, SelectCpu(w, t)
  PROVE  EvacInv'
<1>1. PICK c \in task[t].aff, direct \in BOOLEAN :
        \E e \in EnqueueCpu(w, t, c) :
         /\ task' = [task EXCEPT ![t] =
              [@ EXCEPT !.home = c, !.at = c, !.direct = direct, !.enq = e,
                        !.where = IF task[t].where = "new" THEN "forking" ELSE "waking"]]
         /\ cpu' = IF direct THEN [cpu EXCEPT ![c].idle = FALSE] ELSE cpu
  BY DEF SelectCpu
<1>2. PICK e \in EnqueueCpu(w, t, c) :
         /\ task' = [task EXCEPT ![t] =
              [@ EXCEPT !.home = c, !.at = c, !.direct = direct, !.enq = e,
                        !.where = IF task[t].where = "new" THEN "forking" ELSE "waking"]]
         /\ cpu' = IF direct THEN [cpu EXCEPT ![c].idle = FALSE] ELSE cpu
  BY <1>1
<1>3. /\ task[t] \in TaskState /\ task[t].where = "asleep"
      /\ c \in Cpus /\ e \in {NoCpu, c}
  BY Parts, SchedAssumption
     DEF IInv, EvacInv, Drains, WokenInv, SelectCpu, EnqueueCpu, TaskState, SchedAssumption
<1> DEFINE n == [task[t] EXCEPT !.home = c, !.at = c, !.direct = direct, !.enq = e,
                   !.where = "waking"]
           m == [cpu[c] EXCEPT !.idle = FALSE]
<1>4. n.where = "waking" /\ n.enq = e /\ n.home = c
  BY <1>3 DEF TaskState
<1>5. task' = [task EXCEPT ![t] = n]
  BY <1>2, <1>3
<1>6. /\ m.cur = cpu[c].cur /\ m.phase = cpu[c].phase
      /\ m.occ = cpu[c].occ /\ m.gate = cpu[c].gate
  BY Parts, <1>3 DEF IInv, CpuState
<1>7. cpu' = cpu \/ cpu' = [cpu EXCEPT ![c] = m]
  BY <1>2
<1> HIDE DEF n, m
<1>8. \A d \in Cpus : cpu'[d] = cpu[d] \/ (d = c /\ cpu'[d] = m)
  BY Parts, <1>3, <1>7 DEF IInv
<1>9. \A d \in Cpus : Calm(d)
  BY <1>6, <1>8 DEF Calm
<1>10. task'[t] = n /\ \A u \in Tasks \ {t} : task'[u] = task[u]
  BY Parts, <1>5 DEF IInv
<1>11. reenq' = reenq
  BY DEF SelectCpu
<1>12. Lands(t) /\ \A u \in Tasks \ {t} : Still(u)
  BY <1>3, <1>4, <1>10, <1>11 DEF Lands, Still
<1> QED BY <1>9, <1>12, EvacStep

LEMMA SyncHandoffEvac ==
  ASSUME IInv, EvacInv, NEW w \in Cpus, NEW t \in Tasks, SyncHandoff(w, t)
  PROVE  EvacInv'
<1> DEFINE m == [task[t] EXCEPT !.where = "local", !.home = w, !.at = w]
           n == [cpu[w] EXCEPT !.kick = @ \/ Stirred(w)]
<1>1. /\ task' = [task EXCEPT ![t] = m] /\ cpu' = [cpu EXCEPT ![w] = n]
      /\ reenq' = reenq /\ cpu[w].cur # Rt
  BY DEF SyncHandoff, IInv, CpuInv, Coherent
<1>2. /\ m.where = "local" /\ m.at = w
      /\ n.cur = cpu[w].cur /\ n.phase = cpu[w].phase
      /\ n.occ = cpu[w].occ /\ n.gate = cpu[w].gate
  BY Parts DEF IInv, TaskState, CpuState
<1> HIDE DEF m, n
<1>3. /\ task'[t] = m /\ \A u \in Tasks \ {t} : task'[u] = task[u]
      /\ cpu'[w] = n /\ \A d \in Cpus \ {w} : cpu'[d] = cpu[d]
  BY Parts, <1>1 DEF IInv
<1>4. \A d \in Cpus : Calm(d)
  BY <1>2, <1>3 DEF Calm
<1>5. Lands(t) /\ \A u \in Tasks \ {t} : Still(u)
  BY <1>1, <1>2, <1>3 DEF Lands, Still
<1> QED BY <1>4, <1>5, EvacStep

(* An enqueue outside a context switch leaves the evacuated CPUs alone.    *)
LEMMA EnqueueStepEvac ==
  ASSUME IInv, EvacInv, NEW t \in Tasks, NEW e \in Cpus, NEW kind, NEW q \in Queues,
         EnqueueStep(t, e, kind, q),
         kind \in {"wakeup", "reenq", "other"},
         kind = "wakeup" => e = task[t].home,
         kind = "other" => cpu[e].cur \in Tasks
  PROVE  /\ EvacInv' /\ Lands(t)
         /\ \A d \in Cpus : cpu'[d].cur = cpu[d].cur
<1>1. PICK p \in Placements(t, e, kind, q) :
        /\ Enqueue(t, e, kind, q, p)
        /\ cpu' = [c \in Cpus |-> CpuAfter(c, t, e, kind, p, cpu[c])]
  BY DEF EnqueueStep
<1>2. ASSUME NEW d \in Cpus
      PROVE  Calm(d) /\ cpu'[d].cur = cpu[d].cur
  <2>1. cpu'[d] = CpuAfter(d, t, e, kind, p, cpu[d]) /\ cpu[d] \in CpuState
    BY Parts, <1>1 DEF IInv
  <2>2. Calm(d)
    BY <2>1, InsertCalm
  <2>3. cpu'[d].cur = cpu[d].cur
    BY <2>1, CpuAfterFacts
  <2> QED BY <2>2, <2>3
<1>3. Lands(t) /\ \A u \in Tasks \ {t} : Still(u)
  BY <1>1, EnqueueLands
<1> QED BY <1>2, <1>3, EvacStep

LEMMA ActivateEvac ==
  ASSUME IInv, EvacInv, NEW t \in Tasks, NEW q \in Queues, Activate(t, q)
  PROVE  EvacInv'
<1> DEFINE e == IF task[t].enq = NoCpu THEN task[t].home ELSE task[t].enq
<1>1. /\ task[t].where \in {"waking", "requeued"}
      /\ EnqueueStep(t, e, Kind(t), q)
  BY DEF Activate, EvacInv, WokenInv
<1>2. e \in Cpus
  BY Parts DEF IInv, TaskState
<1>3. task[t].where = "requeued" => e = task[t].enq /\ cpu[e].cur \in Tasks
  BY SchedAssumption DEF IInv, WakerInv, SchedAssumption
<1>4. task[t].where = "waking" => e = task[t].home
  BY DEF EvacInv, WokenInv
<1> HIDE DEF e
<1>5. Kind(t) = IF task[t].where = "waking" THEN "wakeup" ELSE "other"
  BY <1>1 DEF Kind
<1> QED BY <1>1, <1>2, <1>3, <1>4, <1>5, EnqueueStepEvac

LEMMA ReenqueueEvac ==
  ASSUME IInv, EvacInv, NEW t \in Tasks, Reenqueue(t)
  PROVE  /\ EvacInv' /\ Lands(t)
         /\ \A d \in Cpus : cpu'[d].cur = cpu[d].cur
<1>1. task[t].at \in Cpus /\ task[t].queue \in Queues
  BY Parts DEF IInv, TaskState
<1> QED BY <1>1, EnqueueStepEvac DEF Reenqueue

LEMMA RepinEvac ==
  ASSUME IInv, EvacInv, NEW w \in Cpus, NEW t \in Tasks, NEW a \in Affinities, Repin(w, t, a)
  PROVE  EvacInv'
<1> DEFINE m == IF task[t].where = "asleep" THEN [task[t] EXCEPT !.aff = a]
                ELSE [task[t] EXCEPT !.aff = a, !.where = "requeued", !.enq = w, !.own = FALSE]
<1>1. task' = [task EXCEPT ![t] = m] /\ reenq' = reenq \ {t} /\ cpu' = cpu
  BY DEF Repin
<1>2. m.where \in {"asleep", "requeued"}
  BY Parts DEF IInv, TaskState, Repin
<1> HIDE DEF m
<1>3. task'[t] = m /\ \A u \in Tasks \ {t} : task'[u] = task[u]
  BY Parts, <1>1 DEF IInv
<1>4. Lands(t) /\ \A u \in Tasks \ {t} : Still(u)
  BY <1>1, <1>2, <1>3 DEF Lands, Still
<1>5. \A d \in Cpus : Calm(d)
  BY <1>1 DEF Calm
<1> QED BY <1>4, <1>5, EvacStep

LEMMA BlockEvac ==
  ASSUME IInv, EvacInv, NEW c \in Cpus, NEW dies \in BOOLEAN, Block(c, dies)
  PROVE  EvacInv'
<1> DEFINE t == cpu[c].cur
           m == [task[t] EXCEPT !.where = IF dies THEN "dying" ELSE "asleep"]
           n == [Stopped(cpu[c], FALSE) EXCEPT !.cur = None, !.out = FALSE, !.phase = "balance"]
<1>1. /\ t \in Tasks /\ task' = [task EXCEPT ![t] = m]
      /\ cpu' = [cpu EXCEPT ![c] = n] /\ reenq' = reenq
  BY DEF Block, Running
<1>2. cpu[c] \in CpuState /\ task[t] \in TaskState
  BY Parts, <1>1 DEF IInv
<1>3. /\ n.cur = None /\ n.phase = "balance"
      /\ n.occ = cpu[c].occ /\ n.gate = cpu[c].gate
  BY <1>2 DEF CpuState, Stopped
<1> HIDE DEF n, t
<1>4. m.where \in {"dying", "asleep"}
  BY <1>2 DEF TaskState
<1> HIDE DEF m
<1>5. /\ task'[t] = m /\ \A u \in Tasks \ {t} : task'[u] = task[u]
      /\ cpu'[c] = n /\ \A d \in Cpus \ {c} : cpu'[d] = cpu[d]
  BY Parts, <1>1 DEF IInv
<1>6. \A d \in Cpus : Calm(d)
  BY <1>3, <1>5, SchedAssumption DEF Calm, SchedAssumption
<1>7. Lands(t) /\ \A u \in Tasks \ {t} : Still(u)
  BY <1>1, <1>4, <1>5 DEF Lands, Still
<1> QED BY <1>6, <1>7, EvacStep

LEMMA ExitTaskEvac ==
  ASSUME IInv, EvacInv, NEW t \in Tasks, ExitTask(t)
  PROVE  EvacInv'
<1> DEFINE c == task[t].home
           m == NewTask(c, task[t].aff)
           n == [cpu[c] EXCEPT !.q1 = FALSE]
<1>1. /\ task' = [task EXCEPT ![t] = m] /\ reenq' = reenq
      /\ cpu' = cpu \/ cpu' = [cpu EXCEPT ![c] = n]
  BY DEF ExitTask
<1>2. c \in Cpus
  BY Parts DEF IInv, TaskState
<1>3. m.where = "asleep"
  BY DEF NewTask, EvacInv, Drains
<1> HIDE DEF c, m
<1>4. n.cur = cpu[c].cur /\ n.phase = cpu[c].phase /\ n.occ = cpu[c].occ /\ n.gate = cpu[c].gate
  BY Parts, <1>2 DEF IInv, CpuState
<1> HIDE DEF n
<1>5. /\ task'[t] = m /\ \A u \in Tasks \ {t} : task'[u] = task[u]
      /\ \A d \in Cpus : cpu'[d] = cpu[d] \/ (d = c /\ cpu'[d] = n)
  BY Parts, <1>1, <1>2 DEF IInv
<1>6. \A d \in Cpus : Calm(d)
  BY <1>4, <1>5 DEF Calm
<1>7. Lands(t) /\ \A u \in Tasks \ {t} : Still(u)
  BY <1>1, <1>3, <1>5 DEF Lands, Still
<1> QED BY <1>6, <1>7, EvacStep

(* The steps of a CPU that change its record alone.                        *)
LEMMA QuietEvac ==
  ASSUME IInv, EvacInv, NEW c \in Cpus,
         \/ Resched(c) \/ IdleSchedule(c) \/ BalanceLocal(c) \/ DispatchKeep(c)
         \/ DispatchStart(c) \/ PickIdle(c) \/ RtLeave(c) \/ GateOpen(c)
  PROVE  EvacInv'
<1>1. cpu[c] \in CpuState /\ Idle # Rt /\ None # Rt
  BY Parts, SchedAssumption DEF IInv, SchedAssumption
<1>2. CASE Resched(c)
  <2> DEFINE n == [cpu[c] EXCEPT !.out = TRUE, !.phase = "balance"]
  <2>1. n.cur = cpu[c].cur /\ n.phase = "balance" /\ n.occ = cpu[c].occ
    BY <1>1 DEF CpuState
  <2>2. cpu' = [cpu EXCEPT ![c] = n] /\ UNCHANGED <<task, local, reenq>>
    BY <1>2 DEF Resched
  <2> HIDE DEF n
  <2> QED BY <2>1, <2>2, RecordCalm
<1>3. CASE IdleSchedule(c)
  <2> DEFINE n == [cpu[c] EXCEPT !.kick = FALSE, !.phase = "balance"]
  <2>1. n.cur = cpu[c].cur /\ n.phase = "balance" /\ n.occ = cpu[c].occ
    BY <1>1 DEF CpuState
  <2>2. cpu' = [cpu EXCEPT ![c] = n] /\ UNCHANGED <<task, local, reenq>>
    BY <1>3 DEF IdleSchedule
  <2> HIDE DEF n
  <2> QED BY <2>1, <2>2, RecordCalm
<1>4. CASE BalanceLocal(c)
  <2> DEFINE n == [cpu[c] EXCEPT !.phase = AfterDispatch(c)]
  <2>1. n.cur = cpu[c].cur /\ n.phase \in {"put", "pick"} /\ n.occ = cpu[c].occ
    BY <1>1 DEF CpuState, AfterDispatch
  <2>2. cpu' = [cpu EXCEPT ![c] = n] /\ UNCHANGED <<task, local, reenq>>
    BY <1>4 DEF BalanceLocal
  <2> HIDE DEF n
  <2> QED BY <2>1, <2>2, RecordCalm
<1>5. CASE DispatchKeep(c)
  <2> DEFINE n == [cpu[c] EXCEPT !.out = FALSE, !.phase = "run"]
  <2>1. n.cur = cpu[c].cur /\ n.phase = "run" /\ n.occ = cpu[c].occ
    BY <1>1 DEF CpuState
  <2>2. cpu' = [cpu EXCEPT ![c] = n] /\ UNCHANGED <<task, local, reenq>>
    BY <1>5 DEF DispatchKeep
  <2> HIDE DEF n
  <2> QED BY <2>1, <2>2, RecordCalm
<1>6. CASE DispatchStart(c)
  <2> DEFINE n == [cpu[c] EXCEPT !.phase = "dispatch", !.slot = <<1, Quota[1]>>]
  <2>1. n.cur = cpu[c].cur /\ n.phase = "dispatch" /\ n.occ = cpu[c].occ
    BY <1>1 DEF CpuState
  <2>2. cpu' = [cpu EXCEPT ![c] = n] /\ UNCHANGED <<task, local, reenq>>
    BY <1>6 DEF DispatchStart
  <2> HIDE DEF n
  <2> QED BY <2>1, <2>2, RecordCalm
<1>7. CASE PickIdle(c)
  <2> DEFINE n == [cpu[c] EXCEPT !.cur = Idle, !.phase = "run", !.out = FALSE,
                                 !.idle = TRUE, !.occ = FALSE]
  <2>1. n.cur = Idle /\ n.phase = "run" /\ ~n.occ
    BY <1>1 DEF CpuState
  <2>2. cpu' = [cpu EXCEPT ![c] = n] /\ UNCHANGED <<task, local, reenq>>
    BY <1>7 DEF PickIdle
  <2> HIDE DEF n
  <2> QED BY <1>1, <2>1, <2>2, RecordCalm
<1>8. CASE RtLeave(c)
  <2> DEFINE n == [cpu[c] EXCEPT !.cur = None, !.phase = "balance"]
  <2>1. n.cur = None /\ n.phase = "balance" /\ n.occ = cpu[c].occ
    BY <1>1 DEF CpuState
  <2>2. cpu' = [cpu EXCEPT ![c] = n] /\ UNCHANGED <<task, local, reenq>>
    BY <1>8 DEF RtLeave
  <2> HIDE DEF n
  <2> QED BY <1>1, <2>1, <2>2, RecordCalm
<1>9. CASE GateOpen(c)
  <2> DEFINE n == [cpu[c] EXCEPT !.gate = FALSE]
  <2>1. n.cur = cpu[c].cur /\ n.phase = cpu[c].phase /\ n.occ = cpu[c].occ /\ ~n.gate
    BY <1>1 DEF CpuState
  <2>2. cpu' = [cpu EXCEPT ![c] = n] /\ UNCHANGED <<task, local, reenq>>
    BY <1>9 DEF GateOpen
  <2> HIDE DEF n
  <2> QED BY <2>1, <2>2, RecordCalm
<1> QED BY <1>2, <1>3, <1>4, <1>5, <1>6, <1>7, <1>8, <1>9

LEMMA QueueDoneEvac ==
  ASSUME IInv, NEW c \in Cpus, cpu[c].phase = "dispatch"
  PROVE  LET n == QueueDone(c, cpu[c].slot[1]) IN
         n.occ = cpu[c].occ /\ n.cur = cpu[c].cur /\ n.phase # "rt"
<1> DEFINE n == QueueDone(c, cpu[c].slot[1])
<1>1. cpu[c] \in CpuState
  BY Parts DEF IInv
<1>2. n.occ = cpu[c].occ
  BY <1>1 DEF QueueDone, CpuState
<1>3. n.cur = cpu[c].cur /\ n.phase # "rt"
  BY QueueDoneFacts
<1> QED BY <1>2, <1>3

LEMMA DispatchNextEvac ==
  ASSUME IInv, EvacInv, NEW c \in Cpus, DispatchNext(c)
  PROVE  EvacInv'
<1> DEFINE n == QueueDone(c, cpu[c].slot[1])
<1>1. /\ cpu' = [cpu EXCEPT ![c] = n] /\ UNCHANGED <<task, local, reenq>>
      /\ cpu[c].phase = "dispatch"
  BY DEF DispatchNext
<1>2. n.occ = cpu[c].occ /\ n.cur = cpu[c].cur /\ n.phase # "rt"
  BY <1>1, QueueDoneEvac
<1> HIDE DEF n
<1> QED BY <1>1, <1>2, RecordCalm

LEMMA DispatchSlotEvac ==
  ASSUME IInv, EvacInv, NEW c \in Cpus, DispatchSlot(c)
  PROVE  EvacInv'
<1> DEFINE q == cpu[c].slot[1]
           k == cpu[c].slot[2]
           m == [cpu[c] EXCEPT !.slot = <<q, k - 1>>]
           n == IF k = 1 THEN QueueDone(c, q) ELSE m
<1>1. /\ cpu[c] \in CpuState /\ cpu[c].phase = "dispatch" /\ cpu[c].cur # Rt
  BY Parts DEF IInv, CpuInv, Coherent, DispatchSlot
<1>2. PICK t \in SlotMoves(c, q) : MoveToLocal(t, c)
  BY DEF DispatchSlot
<1>3. t \in Tasks
  BY DEF SlotMoves, OwnMoves, Steals, InDsq
<1>4. cpu' = [cpu EXCEPT ![c] = n]
  BY DEF DispatchSlot
<1>5. n.occ = cpu[c].occ /\ n.cur = cpu[c].cur /\ n.phase # "rt"
  <2>1. m.occ = cpu[c].occ /\ m.cur = cpu[c].cur /\ m.phase = cpu[c].phase
    BY <1>1 DEF CpuState
  <2> HIDE DEF m
  <2> QED BY <1>1, <2>1, QueueDoneEvac
<1> HIDE DEF n
<1> QED BY <1>1, <1>2, <1>3, <1>4, <1>5, MoveEvac

LEMMA BalanceGlobalEvac ==
  ASSUME IInv, EvacInv, NEW c \in Cpus, BalanceGlobal(c)
  PROVE  EvacInv'
<1> DEFINE n == [cpu[c] EXCEPT !.phase = AfterDispatch(c)]
<1>1. cpu[c] \in CpuState /\ cpu[c].cur # Rt
  BY Parts DEF IInv, CpuInv, Coherent, BalanceGlobal
<1>2. PICK t \in Tasks : MoveToLocal(t, c)
  BY DEF BalanceGlobal
<1>3. n.cur = cpu[c].cur /\ n.phase # "rt" /\ n.occ = cpu[c].occ
  BY <1>1 DEF CpuState, AfterDispatch
<1>4. cpu' = [cpu EXCEPT ![c] = n]
  BY DEF BalanceGlobal
<1> HIDE DEF n
<1> QED BY <1>1, <1>2, <1>3, <1>4, MoveEvac

LEMMA PutPrevEvac ==
  ASSUME IInv, EvacInv, NEW c \in Cpus, NEW q \in Queues, PutPrev(c, q)
  PROVE  EvacInv'
<1> DEFINE t == cpu[c].cur
           kind == IF local[c] = <<>> THEN "last" ELSE "runout"
<1>1. t \in Tasks /\ None # Rt
  BY SchedAssumption DEF IInv, CpuInv, Coherent, PutPrev, SchedAssumption
<1>2. PICK p \in Placements(t, c, kind, q) :
        /\ Enqueue(t, c, kind, q, p)
        /\ cpu' = [d \in Cpus |->
                     LET s == CpuAfter(d, t, c, kind, p, cpu[d])
                     IN  IF d # c THEN s
                         ELSE [Stopped(s, TRUE) EXCEPT !.cur = None,
                                 !.phase = "pick", !.out = FALSE]]
  BY Zenon DEF PutPrev
<1>3. cpu[c].cur = t /\ kind \in {"runout", "last"}
  OBVIOUS
<1> HIDE DEF t, kind
<1>4. /\ \A d \in Cpus \ {c} : cpu'[d] = CpuAfter(d, t, c, kind, p, cpu[d])
      /\ cpu'[c] = Gone(CpuAfter(c, t, c, kind, p, cpu[c]), "pick")
  BY <1>2, Zenon DEF Gone
<1>5. Calm(c)
  <2>1. cpu'[c].cur = None /\ cpu'[c].phase = "pick" /\ cpu'[c].occ = cpu[c].occ
    BY <1>1, <1>4, StopRecord
  <2> QED BY <1>1, <2>1 DEF Calm
<1>6. \A d \in Cpus \ {c} : Calm(d)
  BY <1>1, <1>4, InsertCalm
<1>7. Lands(t) /\ \A u \in Tasks \ {t} : Still(u)
  BY <1>1, <1>2, <1>3, EnqueueLands
<1> QED BY <1>5, <1>6, <1>7, EvacStep

LEMMA PickTaskEvac ==
  ASSUME IInv, EvacInv, NEW c \in Cpus, PickTask(c)
  PROVE  EvacInv'
<1> DEFINE t == Head(local[c])
           m == [task[t] EXCEPT !.where = "cpu"]
           n == [cpu[c] EXCEPT
                   !.cur = t, !.phase = "run", !.out = FALSE,
                   !.idle = FALSE, !.kick = FALSE, !.occ = FALSE,
                   !.rec = [pid |-> t, queue |-> task[t].queue],
                   !.q1 = (task[t].queue = 1)]
<1>1. t \in Tasks /\ t # Rt
  <2>1. local[c] \in Seq(Tasks) /\ Unique(local[c]) /\ local[c] # <<>>
    BY Parts DEF IInv, PickTask
  <2>2. t \in ToSet(local[c]) /\ ToSet(local[c]) \subseteq Tasks
    BY <2>1, TailSet, SetInTasks
  <2> QED BY <2>2, SchedAssumption DEF SchedAssumption
<1>2. /\ task' = [task EXCEPT ![t] = m] /\ reenq' = reenq \ {t}
      /\ cpu' = [cpu EXCEPT ![c] = n]
  BY DEF PickTask
<1> HIDE DEF t
<1>3. task[t] \in TaskState /\ cpu[c] \in CpuState
  BY Parts, <1>1 DEF IInv
<1>4. m.where = "cpu"
  BY <1>3 DEF TaskState
<1>5. n.cur = t /\ n.phase = "run" /\ ~n.occ
  BY <1>3 DEF CpuState
<1> HIDE DEF m, n
<1>6. /\ task'[t] = m /\ \A u \in Tasks \ {t} : task'[u] = task[u]
      /\ cpu'[c] = n /\ \A d \in Cpus \ {c} : cpu'[d] = cpu[d]
  BY Parts, <1>1, <1>2 DEF IInv
<1>7. \A d \in Cpus : Calm(d)
  BY <1>1, <1>5, <1>6 DEF Calm
<1>8. Lands(t) /\ \A u \in Tasks \ {t} : Still(u)
  BY <1>2, <1>4, <1>6 DEF Lands, Still
<1> QED BY <1>7, <1>8, EvacStep

LEMMA TakeoverStopEvac ==
  ASSUME IInv, EvacInv, NEW c \in Cpus, NEW q \in Queues, TakeoverStop(c, q)
  PROVE  EvacInv'
<1> DEFINE t == cpu[c].cur
<1>1. /\ c \in RtCpus /\ cpu[c].cur # Rt /\ ~cpu[c].gate
      /\ cpu[c] \in CpuState /\ None # Rt
  BY Parts, SchedAssumption DEF IInv, EvacInv, Drains, TakeoverStop, SchedAssumption
<1>2. CASE t \notin Tasks
  <2> DEFINE n == [cpu[c] EXCEPT !.phase = "rt"]
  <2>1. cpu' = [cpu EXCEPT ![c] = n] /\ UNCHANGED <<task, local, reenq>>
    BY <1>2 DEF TakeoverStop
  <2>2. n.cur = cpu[c].cur /\ n.gate = cpu[c].gate
    BY <1>1 DEF CpuState
  <2> HIDE DEF n
  <2>3. cpu'[c] = n /\ \A d \in Cpus \ {c} : cpu'[d] = cpu[d]
    BY Parts, <2>1 DEF IInv
  <2>4. Taken(c) /\ \A d \in Cpus \ {c} : Calm(d)
    BY <1>1, <2>2, <2>3 DEF Taken, Calm
  <2>5. \A u \in Tasks : Still(u)
    BY <2>1 DEF Still
  <2> QED BY <2>4, <2>5, EvacStep
<1>3. CASE /\ t \in Tasks
           /\ \E p \in Placements(t, c, "runout", q) :
                /\ Enqueue(t, c, "runout", q, p)
                /\ cpu' = [d \in Cpus |->
                     LET s == CpuAfter(d, t, c, "runout", p, cpu[d])
                     IN  IF d # c THEN s
                         ELSE [Stopped(s, TRUE) EXCEPT !.cur = None,
                                 !.phase = "rt", !.out = FALSE]]
  <2>1. PICK p \in Placements(t, c, "runout", q) :
          /\ Enqueue(t, c, "runout", q, p)
          /\ cpu' = [d \in Cpus |->
               LET s == CpuAfter(d, t, c, "runout", p, cpu[d])
               IN  IF d # c THEN s
                   ELSE [Stopped(s, TRUE) EXCEPT !.cur = None,
                           !.phase = "rt", !.out = FALSE]]
    BY <1>3
  <2>2. cpu[c].cur = t /\ t \in Tasks
    BY <1>3
  <2> HIDE DEF t
  <2>3. /\ \A d \in Cpus \ {c} : cpu'[d] = CpuAfter(d, t, c, "runout", p, cpu[d])
        /\ cpu'[c] = Gone(CpuAfter(c, t, c, "runout", p, cpu[c]), "rt")
    BY <2>1, Zenon DEF Gone
  <2>4. Taken(c)
    <3>1. cpu'[c].cur = None /\ cpu'[c].gate = cpu[c].gate
      BY <2>2, <2>3, StopRecord
    <3> QED BY <1>1, <3>1 DEF Taken
  <2>5. \A d \in Cpus \ {c} : Calm(d)
    BY <2>2, <2>3, InsertCalm
  <2>6. Lands(t) /\ \A u \in Tasks \ {t} : Still(u)
    BY <2>1, <2>2, EnqueueLands
  <2> QED BY <2>4, <2>5, <2>6, EvacStep
<1>4. CASE /\ t \in Tasks
           /\ task' = [task EXCEPT ![t] = [@ EXCEPT !.where = "local", !.at = c]]
           /\ local' = [local EXCEPT ![c] = <<t>> \o @]
           /\ cpu' = [cpu EXCEPT ![c] = [Stopped(@, TRUE) EXCEPT
                             !.cur = None, !.phase = "rt"]]
           /\ UNCHANGED reenq
  <2> DEFINE m == [task[t] EXCEPT !.where = "local", !.at = c]
             n == [Stopped(cpu[c], TRUE) EXCEPT !.cur = None, !.phase = "rt"]
  <2>1. task[t] \in TaskState /\ t \in Tasks
    BY Parts, <1>4 DEF IInv
  <2>2. task' = [task EXCEPT ![t] = m] /\ cpu' = [cpu EXCEPT ![c] = n] /\ reenq' = reenq
    BY <1>4
  <2>3. m.where = "local" /\ m.at = c
    BY <2>1 DEF TaskState
  <2>4. n.cur = None /\ n.gate = cpu[c].gate
    BY <1>1 DEF CpuState, Stopped
  <2> HIDE DEF m, n, t
  <2>5. /\ task'[t] = m /\ \A u \in Tasks \ {t} : task'[u] = task[u]
        /\ cpu'[c] = n /\ \A d \in Cpus \ {c} : cpu'[d] = cpu[d]
    BY Parts, <2>1, <2>2 DEF IInv
  <2>6. Taken(c) /\ \A d \in Cpus \ {c} : Calm(d)
    BY <1>1, <2>4, <2>5 DEF Taken, Calm
  <2>7. Lands(t) /\ \A u \in Tasks \ {t} : Still(u)
    BY <1>1, <2>2, <2>3, <2>5 DEF Lands, Still
  <2> QED BY <2>6, <2>7, EvacStep
<1> QED BY <1>2, <1>3, <1>4, Zenon DEF TakeoverStop

(* The switch itself drains: what was in the DSQs of the CPU is pending.   *)
LEMMA TakeoverSwitchEvac ==
  ASSUME IInv, EvacInv, NEW c \in Cpus, TakeoverSwitch(c)
  PROVE  EvacInv'
<1> DEFINE r == RtSwitch(cpu[c], c)
           n == [r EXCEPT !.q1 = FALSE]
<1>1. r \in CpuState /\ r.phase = "run"
  BY RtSwitchFacts
<1>2. cpu' = [cpu EXCEPT ![c] = n] /\ task' = task
  BY DEF TakeoverSwitch
<1> HIDE DEF r
<1>3. n.phase = "run"
  BY <1>1 DEF CpuState
<1> HIDE DEF n
<1>4. cpu'[c] = n /\ \A d \in Cpus \ {c} : cpu'[d] = cpu[d]
  BY Parts, <1>2 DEF IInv
<1>5. c \in RtCpus /\ ~cpu[c].gate
  BY DEF EvacInv, TakenInv, TakeoverSwitch
<1>6. TakenInv'
  BY <1>3, <1>4, <1>5 DEF EvacInv, TakenInv
<1>7. WokenInv'
  BY <1>2 DEF EvacInv, WokenInv
<1>8. Drains'
  BY DEF EvacInv, Drains
<1>9. ASSUME NEW t \in Tasks, NEW d \in RtCpus, Stranded(t, d)'
      PROVE  t \in reenq'
  <2>1. /\ cpu'[d].cur = Rt /\ cpu'[d].phase = "run"
        /\ task[t].where \in {"local", "queue"} /\ task[t].at = d
        /\ \E x \in task[t].aff : x \notin RtCpus
    BY <1>2, <1>9 DEF Stranded
  <2>2. CASE d = c
    <3>1. t \in Evacuated(c)
      BY <2>1, <2>2 DEF EvacInv, Drains, Evacuated
    <3> QED BY <1>5, <3>1 DEF TakeoverSwitch, Drained
  <2>3. CASE d # c
    <3>1. cpu'[d] = cpu[d]
      BY <1>4, <2>3, SchedAssumption DEF SchedAssumption
    <3>2. Stranded(t, d)
      BY <2>1, <3>1 DEF Stranded
    <3> QED BY <3>2 DEF EvacInv, PendingInv, TakeoverSwitch
  <2> QED BY <2>2, <2>3
<1>10. PendingInv'
  BY <1>9 DEF PendingInv
<1> QED BY <1>6, <1>7, <1>8, <1>10 DEF EvacInv

LEMMA RtToRtEvac ==
  ASSUME IInv, EvacInv, NEW c \in Cpus, RtToRt(c)
  PROVE  EvacInv'
<1> DEFINE n == RtSwitch(cpu[c], c)
<1>1. n.phase = "run"
  BY RtSwitchFacts
<1>2. cpu' = [cpu EXCEPT ![c] = n] /\ task' = task /\ cpu[c].cur = Rt
  BY DEF RtToRt
<1> HIDE DEF n
<1>3. cpu'[c] = n /\ \A d \in Cpus \ {c} : cpu'[d] = cpu[d]
  BY Parts, <1>2 DEF IInv
<1>4. cpu[c].occ
  BY <1>2 DEF IInv, CpuInv, Coherent
<1>5. \A d \in Cpus : Calm(d)
  BY <1>1, <1>2, <1>3, <1>4 DEF Calm
<1>6. \A u \in Tasks : Still(u)
  BY <1>2 DEF Still, RtToRt
<1> QED BY <1>5, <1>6, EvacStep

LEMMA InitEvac == Init /\ Drains => EvacInv
<1> SUFFICES ASSUME Init, Drains PROVE EvacInv
  OBVIOUS
<1>1. \A c \in Cpus : ~cpu[c].occ /\ cpu[c].cur = Idle /\ cpu[c].phase = "run"
  BY DEF Init
<1>2. \A t \in Tasks : task[t].where = "asleep"
  <2>1. ASSUME NEW c \in Cpus, NEW a \in Affinities PROVE NewTask(c, a).where = "asleep"
    BY DEF NewTask, Drains
  <2> QED BY <2>1 DEF Init
<1>3. TakenInv
  BY <1>1, SchedAssumption DEF TakenInv, SchedAssumption
<1>4. WokenInv /\ PendingInv
  BY <1>2 DEF WokenInv, PendingInv, Stranded
<1> QED BY <1>3, <1>4 DEF EvacInv

LEMMA NextEvac == IInv /\ EvacInv /\ [Next]_vars => EvacInv'
<1> SUFFICES ASSUME IInv, EvacInv, [Next]_vars PROVE EvacInv'
  OBVIOUS
<1>1. ASSUME NEW w \in Cpus, NEW t \in Tasks, SelectCpu(w, t) \/ SyncHandoff(w, t)
      PROVE  EvacInv'
  BY <1>1, SelectCpuEvac, SyncHandoffEvac
<1>2. ASSUME NEW t \in Tasks, NEW q \in Queues, Activate(t, q) PROVE EvacInv'
  BY <1>2, ActivateEvac
<1>3. ASSUME NEW w \in Cpus, NEW t \in Tasks, NEW a \in Affinities, Repin(w, t, a)
      PROVE  EvacInv'
  BY <1>3, RepinEvac
<1>4. ASSUME NEW c \in Cpus, NEW dies \in BOOLEAN, Block(c, dies) PROVE EvacInv'
  BY <1>4, BlockEvac
<1>5. ASSUME NEW t \in Tasks, ExitTask(t) \/ Reenqueue(t) PROVE EvacInv'
  BY <1>5, ExitTaskEvac, ReenqueueEvac
<1>6. ASSUME NEW c \in Cpus, Resched(c) \/ IdleSchedule(c) PROVE EvacInv'
  BY <1>6, QuietEvac
<1>7. ASSUME NEW c \in Cpus, Switching(c) PROVE EvacInv'
  BY <1>7, QuietEvac, BalanceGlobalEvac, DispatchSlotEvac, DispatchNextEvac,
     PutPrevEvac, PickTaskEvac, TakeoverSwitchEvac DEF Switching
<1>8. ASSUME NEW c \in Cpus, NEW q \in Queues, TakeoverStop(c, q) PROVE EvacInv'
  BY <1>8, TakeoverStopEvac
<1>9. ASSUME NEW c \in Cpus, RtToRt(c) \/ RtLeave(c) \/ GateOpen(c) PROVE EvacInv'
  BY <1>9, RtToRtEvac, QuietEvac
<1>10. CASE UNCHANGED vars
  <2>1. \A d \in Cpus : Calm(d)
    BY <1>10 DEF Calm, vars
  <2>2. \A u \in Tasks : Still(u)
    BY <1>10 DEF Still, vars
  <2> QED BY <2>1, <2>2, EvacStep
<1> QED BY <1>1, <1>2, <1>3, <1>4, <1>5, <1>6, <1>7, <1>8, <1>9, <1>10 DEF Next

(* A re-enqueue always has somewhere to put the task.                      *)
LEMMA ReenqueuePlaces ==
  ASSUME NEW t \in Tasks, NEW e \in Cpus, NEW q \in Queues
  PROVE  Placements(t, e, "reenq", q) # {}
<1> DEFINE D == IF Redirected(t, e, "reenq") /\ Unoccupied(t) # {}
                THEN Unoccupied(t) ELSE {RegularCpu(t, e, "reenq")}
<1>1. CASE Pinned(t)
  BY <1>1, Zenon DEF Placements
<1>2. CASE ~Pinned(t)
  <2>1. ~MayPreempt(t, e, "reenq", q)
    BY DEF MayPreempt
  <2>2. Placements(t, e, "reenq", q) = {[dsq |-> "queue", to |-> c] : c \in D}
    <3> HIDE DEF Redirected, Unoccupied, RegularCpu, MayPreempt, Pinned
    <3> QED BY <1>2, <2>1 DEF Placements
  <2>3. D # {}
    OBVIOUS
  <2> QED BY <2>2, <2>3
<1> QED BY <1>1, <1>2

(* While a task that could run elsewhere waits in a DSQ of a CPU that a    *)
(* realtime task holds, the kernel can re-enqueue it at once: the drain of *)
(* the takeover asked for it, no step withdraws that, and there is a DSQ   *)
(* to put it into (mlfq_sched_switch, scx_bpf_dsq_reenq).                  *)
EvacuationPending ==
  \A t \in Tasks, c \in RtCpus :
    Stranded(t, c) =>
      /\ t \in reenq /\ cpu[task[t].at].phase = "run"
      /\ Placements(t, task[t].at, "reenq", task[t].queue) # {}

(* One re-enqueue is enough: the task does not land on another CPU that a  *)
(* realtime task holds (mlfq_pick_unoccupied_cpu).                         *)
ReenqueueFrees ==
  [][\A t \in Tasks, c \in RtCpus :
       Stranded(t, c) /\ Reenqueue(t) => \A d \in RtCpus : ~Stranded(t, d)']_vars

(* With the drain of kernels that re-enqueue queue DSQs, takeovers at      *)
(* least a drain interval apart, wakeups enqueued on the selected CPU and  *)
(* no forks, the evacuation of a taken CPU is always one re-enqueue away   *)
(* for every task in its DSQs (rtdl.bpf.c, mlfq_sched_switch).             *)
THEOREM EvacuationIsPending == Spec /\ Drains => []EvacuationPending /\ ReenqueueFrees
<1>1. IInv /\ EvacInv => EvacuationPending
  <2> SUFFICES ASSUME IInv, EvacInv, NEW t \in Tasks, NEW c \in RtCpus, Stranded(t, c)
               PROVE  /\ t \in reenq /\ cpu[task[t].at].phase = "run"
                      /\ Placements(t, task[t].at, "reenq", task[t].queue) # {}
    BY DEF EvacuationPending
  <2>1. t \in reenq /\ cpu[task[t].at].phase = "run"
    BY DEF EvacInv, PendingInv, Stranded
  <2>2. task[t].at \in Cpus /\ task[t].queue \in Queues
    BY Parts DEF IInv, TaskState
  <2> QED BY <2>1, <2>2, ReenqueuePlaces
<1> DEFINE Frees == \A t \in Tasks, c \in RtCpus :
                      Stranded(t, c) /\ Reenqueue(t) => \A d \in RtCpus : ~Stranded(t, d)'
<1>2. IInv /\ EvacInv => Frees
  <2> SUFFICES ASSUME IInv, EvacInv, NEW t \in Tasks, Reenqueue(t),
                      NEW d \in RtCpus, Stranded(t, d)'
               PROVE  FALSE
    OBVIOUS
  <2>1. Lands(t) /\ d \in Cpus /\ cpu'[d].cur = cpu[d].cur
    BY ReenqueueEvac, SchedAssumption DEF SchedAssumption
  <2>2. /\ cpu'[d].cur = Rt /\ task'[t].where \in {"local", "queue"} /\ task'[t].at = d
        /\ \E x \in task'[t].aff : x \notin RtCpus
    BY DEF Stranded
  <2> QED BY <2>1, <2>2 DEF Lands
<1>3. IInv /\ EvacInv /\ [Next]_vars => [Frees]_vars
  BY <1>2
<1>4. Spec /\ Drains => []EvacInv
  BY InitEvac, NextEvac, Invariance, PTL DEF Spec
<1> HIDE DEF Frees
<1>5. Spec /\ Drains => [][Frees]_vars
  BY <1>3, <1>4, Invariance, PTL DEF Spec
<1>6. ReenqueueFrees <=> [][Frees]_vars
  BY Zenon DEF ReenqueueFrees, Frees
<1> QED BY <1>1, <1>4, <1>5, <1>6, Invariance, PTL

=============================================================================
