SPECIFICATION Spec
CONSTANTS
  GFX_W = 6
  GFX_H = 8
  TASKBAR_H = 1
  TITLE_H = 1
  MAX_WIN = 3
  WinW = 4
  WinH = 3
  CloseBox <- MCCloseBox
  CASCADE_X = 1
  CASCADE_Y = 3
  StepX = 1
  StepY = 1
  Places = 2
  Moves <- MCMoves
  MaxInput = 4
INVARIANTS TypeOK FocusOpen OnScreen ScreenCurrent
PROPERTIES OneClickPerPress PointerArrives
CHECK_DEADLOCK FALSE
