SPECIFICATION Spec
CONSTANTS
  Pids = {p1}
  WindowMax = 2
  MinSamples = 2
  PidCap = 1
  MinPids = 1
  HoldoutDiv = 3
  CorrFloor = 1
  CorrMax = 2
  Outcomes <- MCOutcomes
  BatchMax = 0
  MaxRuns = 1
  Leftovers = {"earlier"}
PROPERTY JoinEnds
CHECK_DEADLOCK FALSE
