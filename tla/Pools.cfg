SPECIFICATION MCSpec
CONSTANTS
  n1 = n1
  n2 = n2
  n3 = n3
  n4 = n4
  Nodes = {n1, n2, n3, n4}
  Kind <- MCKind
  Lists = {l1, l2}
  Forwards = {f1, f2}
  FreePools = {p1, p2}
  Arenas = {a1, a2}
  Chunks = {c1, c2, c3}
  NULL = NULL
  Temp = Temp
  Classes = {8, 40}
  Cache = 32
  Rules = {"Factor1_5", "Factor2"}
  Wrap = 64
  MaxObjects = 4
SYMMETRY Symmetry
CHECK_DEADLOCK FALSE
INVARIANTS TypeOK RingsExact ChunksOwned ObjectsApart FreeListsExact
