SPECIFICATION Spec
CONSTANTS
  Pids = {p1, p2, p3}
  WindowMax = 2
  MinSamples = 2
  PidCap = 1
  MinPids = 2
  HoldoutDiv = 3
  CorrFloor = 1
  CorrMax = 2
  Outcomes <- MCOutcomes
  BatchMax = 1
  MaxRuns = 2
  Leftovers = {"earlier"}
INVARIANTS WindowAccounted RestoredOnExit MainNeverWaits
PROPERTIES ModelsImprove SignalEnds
CHECK_DEADLOCK FALSE
