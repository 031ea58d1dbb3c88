SPECIFICATION FairSpec
CONSTANTS
  MaxTasks = 4
  Slice = 1
  HeapBlocks = 6
  MaxPid = 4
  Points = 1
  SleepTicks = {1}
  Preemptive = FALSE
PROPERTY EveryTaskRuns
CHECK_DEADLOCK FALSE
