SPECIFICATION FairSpec
CONSTANTS
  c1 = c1
  c2 = c2
  Cpus <- MCCpus
  Tasks = {t1, t2}
  NrQueues = 1
  Quota <- MCQuota1
  Affinities <- MCBoth
  RtCpus = {c1}
  NoCpu = NoCpu
  None = None
  Idle = Idle
  Rt = Rt
  Reenq = "generic"
  RemoteEnqueue = FALSE
  SpacedRt = TRUE
  Forks = FALSE

PROPERTY TakenOverEvacuated
