SPECIFICATION Spec
CONSTANTS
  MaxTasks = 4
  Slice = 1
  HeapBlocks = 6
  MaxPid = 4
  Points = 2
  SleepTicks = {}
  Preemptive = TRUE
INVARIANT NeverLost
CHECK_DEADLOCK FALSE
