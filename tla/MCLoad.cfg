SPECIFICATION Spec
CONSTANTS
  MaxCpus = 4
  MaxLlcs = 2
  MaxLlcCpus = 2
  ScanMax = 3
  Hosts <- MCHosts
  MaxSeq = 3
  Wakes <- MCWakes
  Q3Strict = 3
  Q3Relaxed = 2
  SteerMax = 1
INVARIANTS PlanCurrent SiblingsPaired StealReachesAll BiasOnlyIfLargest WebAgrees WakeupsPlaced
PROPERTY Settles
CHECK_DEADLOCK FALSE
