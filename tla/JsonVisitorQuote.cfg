SPECIFICATION Spec
CONSTANTS
  Scalars = {"null", "num"}
  Contents = {"a", "b"}
  BadContents = {"bad"}
  Junk = {"junk"}
  Refused = {"odd"}
  NPOS = "npos"
  MaxDepth = 2
  MaxTokens = 4
INVARIANTS MissingQuoteTold
CHECK_DEADLOCK FALSE
