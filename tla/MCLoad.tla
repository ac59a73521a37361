------------------------------- MODULE MCLoad ------------------------------
(* Model values of MlfqLoad for TLC.  The machines: four CPUs in one       *)
(* domain, in two, in a domain of three that is too large for a list, in   *)
(* more domains than the tables hold, with and without shared cores, big   *)
(* cores and a larger cache; and more CPUs than the tables.                *)
EXTENDS MlfqLoad

Machine(core, llc, big, size, on) ==
  [nr |-> Cardinality(DOMAIN core), core |-> core, llc |-> llc, big |-> big,
   size |-> size, online |-> on]

Fn(a, b, c, d) == [i \in 0..3 |-> IF i = 0 THEN a ELSE IF i = 1 THEN b
                                  ELSE IF i = 2 THEN c ELSE d]

Apart == Fn(0, 1, 2, 3)
Pairs == Fn(0, 0, 2, 2)
Even == Fn(2, 2, 2, 2)
Tall == [i \in 0..4 |-> i]

MCHosts ==
  {Machine(Pairs, Fn(0, 0, 0, 0), {0, 1}, Even, 0..3),
   Machine(Pairs, Fn(0, 0, 2, 2), {0, 1}, Even, {0, 1, 3}),
   Machine(Apart, Fn(0, 0, 2, 2), 0..3, Fn(2, 2, 3, 3), 0..3),
   Machine(Apart, Fn(0, 0, 0, 3), {0, 1}, Fn(3, 2, 2, 2), 0..3),
   Machine(Apart, Fn(0, 1, 0, 3), {1, 2, 3}, Even, {0, 1, 2}),
   Machine(Fn(0, 1, 0, 3), Fn(0, 1, 0, 1), {1, 2, 3}, Fn(3, 2, 2, 2), {1, 2, 3}),
   Machine(Fn(0, 0, 0, 3), Fn(0, 0, 0, 3), {}, Even, {0, 2, 3}),
   Machine(Tall, [i \in 0..4 |-> 0], 0..4, [i \in 0..4 |-> 2], 0..4)}

(* Wakeups of Q1 and Q2 with CPU 0 vetoed, from each side of every machine,*)
(* with any idle CPUs, two affinities and each answer of the idle count.   *)
MCWakes ==
  {[queue |-> q, boost |-> FALSE, sync |-> FALSE, prev |-> p, waker |-> w,
    allowed |-> a, idle |-> i, occupied |-> {}, vetoed |-> {0}, idle_count |-> n,
    llc_idle |-> {0, 1}, llc_runnable |-> [k \in 0..1 |-> 0]] :
     q \in 1..2, p \in {0, 3}, w \in {0, 2, 3}, a \in {0..3, {1, 3}},
     i \in (SUBSET (0..3)) \ {{}}, n \in {"untracked", "zero", "some"}}

=============================================================================
