SPECIFICATION Spec
CONSTANTS
  HEAP_START = 4
  HEAP_END = 30
  Header = 3
  Align = 2
  Request = {0, 3, 7}
INVARIANTS TypeOK Tiled InUseIsHeld WholeAgain
PROPERTY DisjointPieces
