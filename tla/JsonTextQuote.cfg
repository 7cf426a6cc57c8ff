SPECIFICATION TextSpec
CONSTANTS
  Scalars = {"num"}
  Contents = {"a"}
  BadContents = {}
  Junk = {"junk"}
  Refused = {"odd"}
  NPOS = "npos"
  MaxDepth = 1
  MaxTokens = 7
  MaxLen = 4
  Inputs <- AllInputs
INVARIANTS CharsAccounted
CHECK_DEADLOCK FALSE
