SPECIFICATION PairSpec
CONSTANTS
  Uses <- Instances
  SetKeys = {1, 2, 3, 4, 5, 6}
  MultiSize = 5
  NULL = NULL
INVARIANTS TypeOK HalfFull LinksExact ChainFollowsTree SeparatorsExact SearchExact CountsExact ReturnExact
PROPERTIES PiecesExact AreSortedSeqs CallsReturn
CHECK_DEADLOCK FALSE
