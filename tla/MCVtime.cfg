SPECIFICATION Spec
CONSTANTS
  t1 = t1
  t2 = t2
  Tasks <- MCTasks
  Queues <- MCQueues
  Slice <- MCSlice
  Tick = 1
  Weights = {100, 200}
  Deltas = {0, 1, 2}
  MaxVtime = 3
VIEW MCView
SYMMETRY MCSymmetry
INVARIANTS Eligible DeadlineBounds BoundedLag
PROPERTIES ClockMonotone PlacedAdvanceBounded
