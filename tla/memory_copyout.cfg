SPECIFICATION Spec
CONSTANTS
  FirstFrame = 10
  LastFrame = 16
  USER_PG_START = 20
  USER_PG_END = 22
  MaxTasks = 3
  StackPages <- MCStack
  Images <- MCImages
  Value = {0, 1}
  ImageByte = 0
  NoPage = NoPage
  RefMax = 3
  Preemptive = FALSE
CHECK_DEADLOCK FALSE
INVARIANT CopyOutSafe
