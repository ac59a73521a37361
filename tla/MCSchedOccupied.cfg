SPECIFICATION Spec
CONSTANTS
  c1 = c1
  c2 = c2
  Cpus <- MCCpus
  Tasks = {t1, t2}
  NrQueues = 2
  Quota <- MCQuota
  Affinities <- MCBoth
  RtCpus = {c1}
  NoCpu = NoCpu
  None = None
  Idle = Idle
  Rt = Rt
  Reenq = "generic"
  RemoteEnqueue = TRUE
  SpacedRt = FALSE
  Forks = FALSE
SYMMETRY MCSymmetry
PROPERTY NeverIntoOccupied
