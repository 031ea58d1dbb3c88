SPECIFICATION FairSpec
CONSTANTS
  MaxTasks = 3
  Slice = 1
  HeapBlocks = 6
  MaxPid = 4
  Points = 2
  SleepTicks = {1}
  Preemptive = FALSE
INVARIANTS TypeOK ParkedFramesIntact CurrentOwnsCpu StacksPrivate PidsUnique
CHECK_DEADLOCK FALSE
PROPERTY RunsUnlessSleep
