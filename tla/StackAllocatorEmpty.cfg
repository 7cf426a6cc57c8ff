SPECIFICATION Spec
CONSTANTS
  Blocks = {b1, b2, b3, b4, b5}
  NULL = NULL
  Home = home
  Foreign = foreign
  Align = 2
  Threshold = 4
  MinCache = 4
  Redzone = 0
  Header = 1
  TableGrow = 2
  Sizes = {0, 3}
  MaxDepth = 3
  MaxIdx = 2
SYMMETRY BlockSymmetry
CHECK_DEADLOCK FALSE
INVARIANT CursorAssumed
