SPECIFICATION Spec
CONSTANTS
  Tasks = {t1, t2}
  Thieves = {k1}
  Llcs = {l1, l2}
  CpuLlcs = {l1, l2, NoLlc}
  Queues = {1, 2}
  NoLlc = NoLlc
SYMMETRY MCSymmetry
VIEW MCView
CONSTRAINT MCNoOverlap
INVARIANTS GaugesExact LeaversReleased GaugesHeal
