SPECIFICATION Spec
CONSTANTS
  KB_BUF_SIZE = 3
  Bytes = {30, 28, 14, 15, 42, 170, 58, 158}
  ExtBytes = {72, 200, 42, 170}
  MaxSent = 6
  LINE_MAX = 3
  HIST_MAX = 2
  VGA_WIDTH = 4
  PromptLen = 2
  SerialBytes = {13, 127, 98}
INVARIANTS TypeOK ShiftNotStuck HistoryNewestFirst CursorAfterLine
PROPERTY KeysInOrder
CHECK_DEADLOCK FALSE
