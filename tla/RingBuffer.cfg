SPECIFICATION Spec
CONSTANTS
  Rings = {r1, r2}
  Elems = {1, 2}
  Blocks = {b1, b2, b3}
  NULL = NULL
  RAW = RAW
  MaxCapacity = 4
SYMMETRY Symmetry
INVARIANTS TypeOK ElementsLive LiveOwned StorageOwned ReadsExact
