SPECIFICATION SpecThrowing
CONSTANTS
  Rings = {r1, r2}
  Elems = {1, 2}
  Blocks = {b1, b2, b3}
  NULL = NULL
  RAW = RAW
  MaxCapacity = 3
SYMMETRY Symmetry
INVARIANT LiveOwned
